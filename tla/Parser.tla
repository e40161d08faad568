------------------------------- MODULE Parser -------------------------------
(***************************************************************************)
(* The recursive descent parser (parser.cpp, parser.hpp).  A parse method  *)
(* is an operator from the position of curTok to the node it returns and   *)
(* the position it leaves; lookAhead(k) is the token k places on.  Any     *)
(* ParseError ends the parse: it is position 0, at which no token stands,  *)
(* so that every method called after it fails in turn.                     *)
(***************************************************************************)
EXTENDS Ast

VARIABLE tokens     \* what the lexer delivers; the last token is Eof

Token(tt) == [type |-> tt, str |-> 0]
Ident(x) == [type |-> "Identifier", str |-> x]
IntLit(v) == [type |-> "IntLiteral", str |-> v]

(* The lexer delivers Eof again and again. *)
At(i) == IF i \in DOMAIN tokens THEN tokens[i]
         ELSE Token(IF i = 0 THEN "error" ELSE "Eof")

Parsed(node, i) == [node |-> node, pos |-> i]
Failed == Parsed(NoNode, 0)
(* A node is made of the children only if none of them failed. *)
Made(node, i) == IF i = 0 THEN Failed ELSE Parsed(node, i)

expectAndNext(i, tt) == IF At(i).type = tt THEN i + 1 ELSE 0
(* The token tt must follow what was parsed; Build makes the node of it. *)
Then(r, tt, Build(_)) == Made(Build(r.node), expectAndNext(r.pos, tt))
(* One more element of a list. *)
Longer(list, r) == Parsed(Append(list, r.node), r.pos)

FirstOfExpr == {"!", "false", "Identifier", "IntLiteral", "new", "null", "true",
                "(", "-", "this"}
FirstOfBlockStmt == FirstOfExpr \cup {"boolean", "int", "void", "if", "{", "return", ";", "while"}

BasicTypes == {"boolean", "int", "void", "Identifier"}

RECURSIVE parseExpr(_), precedenceParse(_, _), Climb(_, _), Postfixes(_), Arguments(_),
          parseBlock(_), BlockStatements(_), parseStmt(_)
-----------------------------------------------------------------------------
(*                               Types                                     *)

parseBasicType(i) ==
  CASE At(i).type \in {"boolean", "int", "void"} -> Parsed(PrimitiveType(At(i).type), i + 1)
    [] At(i).type = "Identifier" -> Parsed(ClassType(At(i).str), i + 1)
    [] OTHER -> Failed

RECURSIVE Brackets(_, _)
Brackets(i, dim) ==
  IF At(i).type = "[" THEN Brackets(expectAndNext(i + 1, "]"), dim + 1) ELSE <<i, dim>>

parseType(i) ==
  LET basic == parseBasicType(i)
      end   == Brackets(basic.pos, 0)
  IN IF end[2] = 0 THEN basic ELSE Made(ArrayType(basic.node, end[2]), end[1])
-----------------------------------------------------------------------------
(*                            Expressions                                  *)

parseArguments(i) ==
  CASE At(i).type \in FirstOfExpr -> Arguments(Longer(<<>>, parseExpr(i)))
    [] At(i).type = ")" -> Parsed(<<>>, i)
    [] OTHER -> Failed

Arguments(args) ==
  IF At(args.pos).type # "," THEN args ELSE Arguments(Longer(args.node, parseExpr(args.pos + 1)))

(* One more "[" "]" pair is a dimension only if nothing stands between. *)
RECURSIVE MoreDimensions(_, _)
MoreDimensions(i, dim) ==
  IF At(i).type = "[" /\ At(i + 1).type = "]" THEN MoreDimensions(i + 2, dim + 1) ELSE <<i, dim>>

NewArray(elem, size) ==
  LET end == MoreDimensions(expectAndNext(size.pos, "]"), 1)
  IN Made(NewArrayExpression(ArrayType(elem.node, end[2]), size.node), end[1])

parseNewExpr(i) ==
  CASE At(i + 2).type = "(" ->
         IF At(i + 1).type # "Identifier" THEN Failed
         ELSE Made(NewObjectExpression(At(i + 1).str), expectAndNext(i + 3, ")"))
    [] At(i + 2).type = "[" ->
         IF At(i + 1).type \notin BasicTypes THEN Failed ELSE NewArray(parseBasicType(i + 1), parseExpr(i + 3))
    [] OTHER -> Failed

(* std::stoi of the literal, with the sign parseUnary has put before it. *)
InRange(v) == v \in (-MaxInt - 1)..MaxInt
parseIntLiteral(i, signed) ==
  LET v == IF signed THEN -At(i).str ELSE At(i).str
  IN IF InRange(v) THEN Parsed(IntLiteral(v), i + 1) ELSE Failed

parseIdentifier(i) ==
  IF At(i + 1).type = "("
  THEN Then(parseArguments(i + 2), ")", LAMBDA as : MethodInvocation(ThisLiteral, At(i).str, as))
  ELSE Parsed(VarRef(At(i).str), i + 1)

parsePrimary(i, signed) ==
  CASE At(i).type = "(" -> Then(parseExpr(i + 1), ")", LAMBDA e : e)
    [] At(i).type = "false" -> Parsed(BoolLiteral(FALSE), i + 1)
    [] At(i).type = "true" -> Parsed(BoolLiteral(TRUE), i + 1)
    [] At(i).type = "null" -> Parsed(NullLiteral, i + 1)
    [] At(i).type = "this" -> Parsed(ThisLiteral, i + 1)
    [] At(i).type = "IntLiteral" -> parseIntLiteral(i, signed)
    [] At(i).type = "Identifier" -> parseIdentifier(i)
    [] At(i).type = "new" -> parseNewExpr(i)
    [] OTHER -> Failed

parseMemberAccess(lhs, i) ==
  CASE At(i + 1).type # "Identifier" -> Failed
    [] At(i + 1).type = "Identifier" /\ At(i + 2).type = "(" ->
         Then(parseArguments(i + 3), ")", LAMBDA as : MethodInvocation(lhs, At(i + 1).str, as))
    [] OTHER -> Parsed(FieldAccess(lhs, At(i + 1).str), i + 2)

parseArrayAccess(lhs, i) == Then(parseExpr(i + 1), "]", LAMBDA index : ArrayAccess(lhs, index))

Postfixes(lhs) ==
  CASE At(lhs.pos).type = "." -> Postfixes(parseMemberAccess(lhs.node, lhs.pos))
    [] At(lhs.pos).type = "[" -> Postfixes(parseArrayAccess(lhs.node, lhs.pos))
    [] OTHER -> lhs

parsePostfixExpr(i, signed) == Postfixes(parsePrimary(i, signed))

(* The prefixes are collected first; a minus right before an integer        *)
(* literal becomes its sign, the others are applied from the last one on.   *)
ApplyUnaries(unaries, e) ==
  Made(FoldRight(LAMBDA t, inner : UnaryExpression(t.type, inner), unaries, e.node), e.pos)

parseUnary(i) ==
  LET j == CHOOSE j \in i..(Len(tokens) + 1) :
             /\ At(j).type \notin {"!", "-"}
             /\ \A k \in i..(j - 1) : At(k).type \in {"!", "-"}
      signed == j > i /\ At(j).type = "IntLiteral" /\ At(j - 1).type = "-"
  IN ApplyUnaries(SubSeq(tokens, i, IF signed THEN j - 2 ELSE j - 1), parsePostfixExpr(j, signed))

getOpPrec(tt) ==
  CASE tt = "=" -> 1
    [] tt = "||" -> 2
    [] tt = "&&" -> 3
    [] tt \in {"==", "!="} -> 4
    [] tt \in {"<", "<=", ">", ">="} -> 5
    [] tt \in {"+", "-"} -> 6
    [] tt \in {"*", "/", "%"} -> 7
    [] OTHER -> -1

(* Mutant: every operator associates to the right. *)
RightPrecRightAssoc(tt) == getOpPrec(tt)
(* The precedence the right operand is parsed with. *)
RightPrec(tt) == IF tt = "=" THEN getOpPrec(tt) ELSE getOpPrec(tt) + 1

Operation(op, lhs, rhs) == Made(BinaryExpression(op, lhs, rhs.node), rhs.pos)
Climb(lhs, minPrec) ==
  LET op == At(lhs.pos).type
  IN IF getOpPrec(op) < minPrec THEN lhs
     ELSE Climb(Operation(op, lhs.node, precedenceParse(lhs.pos + 1, RightPrec(op))), minPrec)

precedenceParse(i, minPrec) == Climb(parseUnary(i), minPrec)

parseExpr(i) == precedenceParse(i, 0)
-----------------------------------------------------------------------------
(*                             Statements                                  *)

parseLocalVarDeclStmt(i) ==
  LET type == parseType(i)
      name == At(type.pos).str
      j == expectAndNext(type.pos, "Identifier")
  IN CASE At(j).type = "=" ->
            Then(parseExpr(j + 1), ";", LAMBDA e : VariableDeclaration(type.node, name, e))
       [] At(j).type = ";" -> Parsed(VariableDeclaration(type.node, name, NoNode), j + 1)
       [] OTHER -> Failed

parseExprStmt(i) == Then(parseExpr(i), ";", ExpressionStatement)

(* An else belongs to the statement just parsed. *)
Else(cond, then, else) == Made(IfStatement(cond, then, else.node), else.pos)
ThenElse(cond, then) ==
  IF At(then.pos).type = "else" THEN Else(cond, then.node, parseStmt(then.pos + 1))
  ELSE Made(IfStatement(cond, then.node, NoNode), then.pos)
If(cond) == ThenElse(cond.node, parseStmt(expectAndNext(cond.pos, ")")))
parseIfStmt(i) == If(parseExpr(expectAndNext(i + 1, "(")))

parseReturnStmt(i) ==
  IF At(i + 1).type = ";" THEN Parsed(ReturnStatement(NoNode), i + 2)
  ELSE Then(parseExpr(i + 1), ";", ReturnStatement)

Body(cond, body) == Made(WhileStatement(cond, body.node), body.pos)
While(cond) == Body(cond.node, parseStmt(expectAndNext(cond.pos, ")")))
parseWhileStmt(i) == While(parseExpr(expectAndNext(i + 1, "(")))

(* The empty statement is a null pointer. *)
parseStmt(i) ==
  CASE At(i).type = "{" -> parseBlock(i)
    [] At(i).type = ";" -> Parsed(NoNode, i + 1)
    [] At(i).type = "if" -> parseIfStmt(i)
    [] At(i).type = "return" -> parseReturnStmt(i)
    [] At(i).type = "while" -> parseWhileStmt(i)
    [] At(i).type \in FirstOfExpr -> parseExprStmt(i)
    [] OTHER -> Failed

IsLocalVarDecl(i) ==
  \/ At(i).type \in {"boolean", "int", "void"}
  \/ At(i).type = "Identifier"
     /\ \/ At(i + 1).type = "Identifier"
        \/ At(i + 1).type = "[" /\ At(i + 2).type = "]"

parseBlockStatement(i) == IF IsLocalVarDecl(i) THEN parseLocalVarDeclStmt(i) ELSE parseStmt(i)

AddStatement(stmts, s) == IF s.node = NoNode THEN Parsed(stmts, s.pos) ELSE Longer(stmts, s)
BlockStatements(stmts) ==
  CASE At(stmts.pos).type = "}" -> Parsed(Block(stmts.node), stmts.pos + 1)
    [] At(stmts.pos).type \in FirstOfBlockStmt ->
         BlockStatements(AddStatement(stmts.node, parseBlockStatement(stmts.pos)))
    [] OTHER -> Failed

parseBlock(i) == BlockStatements(Parsed(<<>>, expectAndNext(i, "{")))
-----------------------------------------------------------------------------
(*                         Classes and members                             *)

RECURSIVE Parameters(_, _)
Parameters(params, i) ==
  LET type == parseType(i)
      j == expectAndNext(type.pos, "Identifier")
      more == Append(params, Parameter(type.node, At(type.pos).str, Len(params) + 1))
  IN IF At(j).type = "," THEN Parameters(more, j + 1) ELSE Made(more, j)

parseParameterList(i) ==
  IF At(i).type \in BasicTypes THEN Parameters(<<>>, i) ELSE Parsed(<<>>, i)

(* A throws clause is read and forgotten. *)
SkipThrows(i) == IF At(i).type = "throws" THEN expectAndNext(i + 1, "Identifier") ELSE i

MethodOf(type, name, params, block) == Made(RegularMethod(type, name, params, block.node), block.pos)
parseMethod(type, name, i) ==
  LET params == parseParameterList(i)
  IN MethodOf(type, name, params.node, parseBlock(SkipThrows(expectAndNext(params.pos, ")"))))

parseFieldOrMethod(i) ==
  LET type == parseType(i + 1)
      name == At(type.pos).str
      j == expectAndNext(type.pos, "Identifier")
  IN CASE At(j).type = ";" -> Parsed(Field(type.node, name), j + 1)
       [] At(j).type = "(" -> parseMethod(type.node, name, j + 1)
       [] OTHER -> Failed

Main(name, arg, block) == Made(MainMethod(name, arg, block.node), block.pos)
parseMainMethod(i) ==
  LET head == \* public static void name ( String [ ] name )
        /\ At(i + 2).type = "void" /\ At(i + 3).type = "Identifier" /\ At(i + 4).type = "("
        /\ At(i + 5) = Ident(StringName) /\ At(i + 6).type = "[" /\ At(i + 7).type = "]"
        /\ At(i + 8).type = "Identifier" /\ At(i + 9).type = ")"
  IN IF head THEN Main(At(i + 3).str, At(i + 8).str, parseBlock(SkipThrows(i + 10))) ELSE Failed

parseClassMember(i) ==
  CASE At(i + 1).type = "static" -> parseMainMethod(i)
    [] At(i + 1).type \in BasicTypes -> parseFieldOrMethod(i)
    [] OTHER -> Failed

OfKind(members, k) == SelectSeq(members, LAMBDA m : m.n = k)

RECURSIVE ClassMembers(_, _)
ClassMembers(name, members) ==
  CASE At(members.pos).type = "}" ->
         Parsed(Class(name, OfKind(members.node, "Field"), OfKind(members.node, "RegularMethod"),
                      OfKind(members.node, "MainMethod")), members.pos + 1)
    [] At(members.pos).type = "public" ->
         ClassMembers(name, Longer(members.node, parseClassMember(members.pos)))
    [] OTHER -> Failed

parseClassDeclaration(i) ==
  LET j == expectAndNext(i + 1, "Identifier")
  IN ClassMembers(At(i + 1).str, Parsed(<<>>, expectAndNext(j, "{")))

RECURSIVE Classes(_)
Classes(classes) ==
  CASE At(classes.pos).type = "class" ->
         Classes(Longer(classes.node, parseClassDeclaration(classes.pos)))
    [] At(classes.pos).type = "Eof" -> Parsed(Program(classes.node), classes.pos)
    [] OTHER -> Failed

parseProgram == Classes(Parsed(<<>>, 1))
=============================================================================
