------------------------------- MODULE Grammar -------------------------------
(***************************************************************************)
(* The language the parser is to accept, as a grammar: the set of syntax   *)
(* trees that the tokens i .. j - 1 stand for, by the productions of the   *)
(* repository's doc/grammar.txt, with binary operators grouped to the left *)
(* and assignments to the right, an else belonging to the nearest if, and  *)
(* with "throws" clauses.  In one place the parser is followed against the *)
(* document: doc/grammar.txt asks for a comma after every parameter, the   *)
(* last one included (lines 12-13), and parseParameterList takes commas    *)
(* between parameters only, as Java does and as the document itself does   *)
(* for arguments.  The production is taken for a misprint (ParameterLists).*)
(* Nothing else here is translated from the parser.                        *)
(***************************************************************************)
EXTENDS Parser

IsTok(i, tt) == tokens[i].type = tt
One(i, j, tt) == j = i + 1 /\ IsTok(i, tt)

Level(tt) == CASE tt = "||" -> 2 [] tt = "&&" -> 3 [] tt \in {"==", "!="} -> 4
               [] tt \in {"<", "<=", ">", ">="} -> 5 [] tt \in {"+", "-"} -> 6
               [] tt \in {"*", "/", "%"} -> 7 [] OTHER -> 0

RECURSIVE Expression(_, _), Binary(_, _, _), Unary(_, _), Postfix(_, _), ArgumentLists(_, _)
RECURSIVE Statement(_, _), BlockInner(_, _), TypeOf(_, _)

BasicType(i, j) ==
  IF j # i + 1 THEN {}
  ELSE IF IsTok(i, "Identifier") THEN {ClassType(tokens[i].str)}
  ELSE IF tokens[i].type \in {"boolean", "int", "void"} THEN {PrimitiveType(tokens[i].type)} ELSE {}

AddDimension(t) == IF t.n = "ArrayType" THEN ArrayType(t.elem, t.dimension + 1) ELSE ArrayType(t, 1)
TypeOf(i, j) ==
  BasicType(i, j) \cup
  (IF j - i > 2 /\ IsTok(j - 2, "[") /\ IsTok(j - 1, "]")
   THEN {AddDimension(t) : t \in TypeOf(i, j - 2)} ELSE {})

Expression(i, j) ==
  Binary(2, i, j) \cup
  UNION {{BinaryExpression("=", l, r) : l \in Binary(2, i, k), r \in Expression(k + 1, j)}
         : k \in {k \in (i + 1)..(j - 2) : IsTok(k, "=")}}

Binary(n, i, j) ==
  IF i >= j THEN {}
  ELSE IF n = 8 THEN Unary(i, j)
  ELSE Binary(n + 1, i, j) \cup
       UNION {{BinaryExpression(tokens[k].type, l, r) : l \in Binary(n, i, k), r \in Binary(n + 1, k + 1, j)}
              : k \in {k \in (i + 1)..(j - 2) : Level(tokens[k].type) = n}}

(* 2147483648 may stand only right after a minus, which is its sign. *)
Literal(v) == IF InRange(v) THEN {IntLiteral(v)} ELSE {}

Unary(i, j) ==
  IF i >= j THEN {}
  ELSE IF j = i + 2 /\ IsTok(i, "-") /\ IsTok(i + 1, "IntLiteral") THEN Literal(-tokens[i + 1].str)
  ELSE IF tokens[i].type \in {"!", "-"} THEN {UnaryExpression(tokens[i].type, e) : e \in Unary(i + 1, j)}
  ELSE Postfix(i, j)

ArgumentLists(i, j) ==
  (IF i = j THEN {<<>>} ELSE {}) \cup {<<e>> : e \in Expression(i, j)} \cup
  UNION {{<<e>> \o as : e \in Expression(i, k), as \in ArgumentLists(k + 1, j) \ {<<>>}}
         : k \in {k \in (i + 1)..(j - 2) : IsTok(k, ",")}}

NewArrays(i, k, j) ==      \* new T [ size ] [ ] ... with "]" of the size at k
  LET dims == (j - k - 1) \div 2
  IN IF (j - k - 1) % 2 = 0 /\ \A d \in 1..dims : IsTok(k + 2 * d - 1, "[") /\ IsTok(k + 2 * d, "]")
     THEN {NewArrayExpression(ArrayType(t, dims + 1), s) : t \in BasicType(i + 1, i + 2), s \in Expression(i + 3, k)}
     ELSE {}

PrimaryExpression(i, j) ==
  CASE One(i, j, "true") -> {BoolLiteral(TRUE)}
    [] One(i, j, "false") -> {BoolLiteral(FALSE)}
    [] One(i, j, "null") -> {NullLiteral}
    [] One(i, j, "this") -> {ThisLiteral}
    [] One(i, j, "IntLiteral") -> Literal(tokens[i].str)
    [] One(i, j, "Identifier") -> {VarRef(tokens[i].str)}
    [] j > i + 2 /\ IsTok(i, "(") /\ IsTok(j - 1, ")") -> Expression(i + 1, j - 1)
    [] j > i + 2 /\ IsTok(i, "Identifier") /\ IsTok(i + 1, "(") /\ IsTok(j - 1, ")") ->
         {MethodInvocation(ThisLiteral, tokens[i].str, as) : as \in ArgumentLists(i + 2, j - 1)}
    [] j = i + 4 /\ IsTok(i, "new") /\ IsTok(i + 1, "Identifier") /\ IsTok(i + 2, "(") /\ IsTok(i + 3, ")") ->
         {NewObjectExpression(tokens[i + 1].str)}
    [] j > i + 4 /\ IsTok(i, "new") /\ IsTok(i + 2, "[") ->
         UNION {NewArrays(i, k, j) : k \in {k \in (i + 4)..(j - 1) : IsTok(k, "]")}}
    [] OTHER -> {}

Postfix(i, j) ==
  IF i >= j THEN {}
  ELSE PrimaryExpression(i, j) \cup
       (IF j > i + 2 /\ IsTok(j - 2, ".") /\ IsTok(j - 1, "Identifier")
        THEN {FieldAccess(l, tokens[j - 1].str) : l \in Postfix(i, j - 2)} ELSE {}) \cup
       (IF IsTok(j - 1, "]")
        THEN UNION {{ArrayAccess(l, x) : l \in Postfix(i, k), x \in Expression(k + 1, j - 1)}
                    : k \in {k \in (i + 1)..(j - 3) : IsTok(k, "[")}} ELSE {}) \cup
       (IF IsTok(j - 1, ")")
        THEN UNION {{MethodInvocation(l, tokens[k - 1].str, as) : l \in Postfix(i, k - 2), as \in ArgumentLists(k + 1, j - 1)}
                    : k \in {k \in (i + 3)..(j - 2) : IsTok(k, "(") /\ IsTok(k - 1, "Identifier") /\ IsTok(k - 2, ".")}}
        ELSE {})

(* A statement that an else could still be added to. *)
RECURSIVE OpenIf(_)
OpenIf(s) == CASE s.n = "IfStatement" -> s.else.n = "null" \/ OpenIf(s.else)
               [] s.n = "WhileStatement" -> OpenIf(s.body)
               [] OTHER -> FALSE
(* The empty statement; in an else it must differ from no else. *)
Empty == [n |-> "Empty"]

Conditions(i, j) ==   \* pairs of a condition and the position after its ")"
  UNION {{<<c, k + 1>> : c \in Expression(i + 2, k)} : k \in {k \in (i + 3)..(j - 1) : IsTok(k, ")")}}

Statement(i, j) ==
  IF i >= j THEN {}
  ELSE CASE One(i, j, ";") -> {Empty}
    [] IsTok(i, "{") -> IF IsTok(j - 1, "}") THEN {Block(ss) : ss \in BlockInner(i + 1, j - 1)} ELSE {}
    [] IsTok(i, "return") ->
         IF ~IsTok(j - 1, ";") THEN {}
         ELSE IF j = i + 2 THEN {ReturnStatement(NoNode)}
         ELSE {ReturnStatement(e) : e \in Expression(i + 1, j - 1)}
    [] IsTok(i, "while") ->
         IF ~(i + 1 < j /\ IsTok(i + 1, "(")) THEN {}
         ELSE UNION {{WhileStatement(c[1], s) : s \in Statement(c[2], j)} : c \in Conditions(i, j)}
    [] IsTok(i, "if") ->
         IF ~(i + 1 < j /\ IsTok(i + 1, "(")) THEN {}
         ELSE UNION {{IfStatement(c[1], s, NoNode) : s \in Statement(c[2], j)} \cup
                     UNION {{IfStatement(c[1], s, e) : s \in {s \in Statement(c[2], k) : ~OpenIf(s)},
                                                      e \in Statement(k + 1, j)}
                            : k \in {k \in (c[2] + 1)..(j - 2) : IsTok(k, "else")}}
                     : c \in Conditions(i, j)}
    [] OTHER -> IF IsTok(j - 1, ";") THEN {ExpressionStatement(e) : e \in Expression(i, j - 1)} ELSE {}

Declaration(i, j) ==
  IF ~IsTok(j - 1, ";") THEN {}
  ELSE UNION {IF k = j - 2 THEN {VariableDeclaration(t, tokens[k].str, NoNode) : t \in TypeOf(i, k)}
              ELSE IF IsTok(k + 1, "=")
              THEN {VariableDeclaration(t, tokens[k].str, e) : t \in TypeOf(i, k), e \in Expression(k + 2, j - 1)}
              ELSE {}
              : k \in {k \in (i + 1)..(j - 2) : IsTok(k, "Identifier")}}

BlockInner(i, j) ==
  IF i = j THEN {<<>>}
  ELSE UNION {{<<s>> \o ss : s \in Statement(i, k) \cup Declaration(i, k), ss \in BlockInner(k, j)}
              : k \in {k \in (i + 1)..j : IsTok(k - 1, ";") \/ IsTok(k - 1, "}")}}

(* What becomes of empty statements: they vanish from blocks and leave a     *)
(* null pointer elsewhere.                                                  *)
RECURSIVE NoEmpty(_)
NoEmpty(t) ==
  CASE t.n = "Empty" -> NoNode
    [] t.n = "Block" -> Block(SelectSeq([i \in DOMAIN t.stmts |-> NoEmpty(t.stmts[i])], LAMBDA s : s # NoNode))
    [] t.n = "WhileStatement" -> [t EXCEPT !.body = NoEmpty(@)]
    [] t.n = "IfStatement" -> [t EXCEPT !.then = NoEmpty(@), !.else = NoEmpty(@)]
    [] OTHER -> t

MethodBody(i, j) ==
  LET k == IF i + 1 < j /\ IsTok(i, "throws") /\ IsTok(i + 1, "Identifier") THEN i + 2 ELSE i
  IN IF k < j /\ IsTok(k, "{") THEN {NoEmpty(b) : b \in Statement(k, j)} ELSE {}

(* Commas between parameters and none after the last one, as in             *)
(* parser.cpp:181-206: not the list of doc/grammar.txt:12-13.               *)
RECURSIVE ParameterLists(_, _, _)
ParameterLists(n, i, j) ==    \* from the n-th one
  UNION {IF k = j - 1 THEN {<<Parameter(t, tokens[k].str, n)>> : t \in TypeOf(i, k)}
         ELSE IF IsTok(k + 1, ",")
         THEN {<<Parameter(t, tokens[k].str, n)>> \o ps : t \in TypeOf(i, k), ps \in ParameterLists(n + 1, k + 2, j)}
         ELSE {}
         : k \in {k \in (i + 1)..(j - 1) : IsTok(k, "Identifier")}}

Member(i, j) ==   \* after "public"
  IF j - i >= 9 /\ IsTok(i, "static")
  THEN IF /\ IsTok(i + 1, "void") /\ IsTok(i + 2, "Identifier") /\ IsTok(i + 3, "(")
          /\ tokens[i + 4] = Ident(StringName) /\ IsTok(i + 5, "[") /\ IsTok(i + 6, "]")
          /\ IsTok(i + 7, "Identifier") /\ IsTok(i + 8, ")")
       THEN {MainMethod(tokens[i + 2].str, tokens[i + 7].str, b) : b \in MethodBody(i + 9, j)}
       ELSE {}
  ELSE UNION {IF k = j - 2 /\ IsTok(j - 1, ";")
              THEN {Field(t, tokens[k].str) : t \in TypeOf(i, k)}
              ELSE IF IsTok(k + 1, "(")
              THEN UNION {{RegularMethod(t, tokens[k].str, ps, b) :
                             t \in TypeOf(i, k),
                             ps \in IF h = k + 2 THEN {<<>>} ELSE ParameterLists(1, k + 2, h),
                             b \in MethodBody(h + 1, j)}
                          : h \in {h \in (k + 2)..(j - 2) : IsTok(h, ")")}}
              ELSE {}
              : k \in {k \in (i + 1)..(j - 2) : IsTok(k, "Identifier")}}

RECURSIVE MemberLists(_, _), ClassLists(_, _)
MemberLists(i, j) ==
  IF i = j THEN {<<>>}
  ELSE IF ~IsTok(i, "public") THEN {}
  ELSE UNION {{<<m>> \o ms : m \in Member(i + 1, k), ms \in MemberLists(k, j)}
              : k \in {k \in (i + 2)..j : k = j \/ IsTok(k, "public")}}

ClassLists(i, j) ==
  IF i = j THEN {<<>>}
  ELSE IF ~(j - i >= 4 /\ IsTok(i, "class") /\ IsTok(i + 1, "Identifier") /\ IsTok(i + 2, "{")) THEN {}
  ELSE UNION {{<<Class(tokens[i + 1].str, OfKind(ms, "Field"), OfKind(ms, "RegularMethod"),
                       OfKind(ms, "MainMethod"))>> \o cs :
                 ms \in MemberLists(i + 3, k - 1), cs \in ClassLists(k, j)}
              : k \in {k \in (i + 4)..j : IsTok(k - 1, "}") /\ (k = j \/ IsTok(k, "class"))}}

(* The programs the tokens stand for: none or one, as the grammar is not     *)
(* ambiguous.                                                               *)
Programs == {Program(cs) : cs \in ClassLists(1, Len(tokens))}
=============================================================================
