---------------------------- MODULE PrettyPrinter ----------------------------
(***************************************************************************)
(* The pretty printer (pprinter.hpp), as the tokens of the text it writes; *)
(* layout and the comments it puts before the lists of members are left    *)
(* out.  The flag requireParenthesis outlives the expression that set it,  *)
(* so every visit takes it and returns it.                                 *)
(***************************************************************************)
EXTENDS Parser

Text(out, require) == [out |-> out, require |-> require]
T(tt) == <<Token(tt)>>
Id(x) == <<Ident(x)>>
Decimal(v) == IF v < 0 THEN T("-") \o <<IntLit(-v)>> ELSE <<IntLit(v)>>

(* Two texts one after the other; the flag goes from the first to the next. *)
Parens(t) == Text(T("(") \o t.out \o T(")"), t.require)
Around(before, t, after) == Text(before \o t.out \o after, t.require)
Join(a, b) == Text(a.out \o b.out, b.require)

RECURSIVE visitExpr(_, _), visitArguments(_, _), visitStmt(_, _), visitStatements(_, _)

printType(t) ==
  CASE t.n = "PrimitiveType" -> T(t.prim)
    [] t.n = "ClassType" -> Id(t.name)
    [] t.n = "ArrayType" ->
         (IF t.elem.n = "ClassType" THEN Id(t.elem.name) ELSE T(t.elem.prim))
           \o FlattenSeq([d \in 1..t.dimension |-> T("[") \o T("]")])

visitIntLiteralHelper(e) == Text(Decimal(e.int), e.int < 0)

(* Mutant: the operands of an operator are printed without parentheses. *)
OperandFlagNever(e, require) == FALSE
(* The flag an operator sets before each of its operands. *)
OperandFlag(e, require) == IF e.op = "=" THEN require ELSE TRUE

visitBinaryExpressionHelper(e, require) ==
  LET l == visitExpr(e.left, OperandFlag(e, require))
      r == visitExpr(e.right, OperandFlag(e, l.require))
  IN Around(l.out \o T(e.op), r, <<>>)

visitUnaryExpressionHelper(e) == Around(T(e.op), visitExpr(e.expr, OperandFlag(e, FALSE)), <<>>)

(* maybePlaceParenthesis: parentheses are placed once and the flag cleared. *)
maybePlaceParenthesis(t, require) == IF require THEN Parens(t) ELSE t

visitNewArray(e) ==
  LET s == visitExpr(e.size, FALSE)
  IN Around(T("new") \o printType(e.type.elem) \o T("["), s,
            T("]") \o FlattenSeq([d \in 1..(e.type.dimension - 1) |-> T("[") \o T("]")]))

visitExpr(e, require) ==
  CASE e.n = "BinaryExpression" -> maybePlaceParenthesis(visitBinaryExpressionHelper(e, FALSE), require)
    [] e.n = "UnaryExpression" -> maybePlaceParenthesis(visitUnaryExpressionHelper(e), require)
    [] e.n = "IntLiteral" -> maybePlaceParenthesis(visitIntLiteralHelper(e), require)
    [] e.n = "BoolLiteral" -> Text(T(IF e.bool THEN "true" ELSE "false"), FALSE)
    [] e.n = "NullLiteral" -> Text(T("null"), FALSE)
    [] e.n = "ThisLiteral" -> Text(T("this"), FALSE)
    [] e.n = "VarRef" -> Text(Id(e.name), FALSE)
    [] e.n = "NewObjectExpression" -> Text(T("new") \o Id(e.name) \o T("(") \o T(")"), FALSE)
    [] e.n = "NewArrayExpression" -> visitNewArray(e)
    [] e.n = "FieldAccess" -> Around(<<>>, visitExpr(e.left, require), T(".") \o Id(e.name))
    [] e.n = "ArrayAccess" ->
         LET l == visitExpr(e.left, require)
         IN Around(l.out \o T("["), visitExpr(e.index, l.require), T("]"))
    [] e.n = "MethodInvocation" ->
         LET l == visitExpr(e.left, require)
         IN Around(l.out \o T(".") \o Id(e.name) \o T("("), visitArguments(e.args, l.require), T(")"))

visitArguments(args, require) ==
  IF args = <<>> THEN Text(<<>>, require)
  ELSE LET a == visitExpr(Head(args), require)
           rest == visitArguments(Tail(args), a.require)
       IN IF Len(args) = 1 THEN a ELSE Text(a.out \o T(",") \o rest.out, rest.require)

(* Statements of if and while are printed as blocks; an else without         *)
(* statements is dropped.                                                   *)
(* Mutant: a block as well is put into braces of its own. *)
printStatementAsBlockAlways(s, require) ==
  IF s = NoNode THEN Text(T("{") \o T("}"), require) ELSE Around(T("{"), visitStmt(s, require), T("}"))
printStatementAsBlock(s, require) ==
  CASE s = NoNode -> Text(T("{") \o T("}"), require)
    [] s.n = "Block" -> visitStmt(s, require)
    [] OTHER -> Around(T("{"), visitStmt(s, require), T("}"))

printElseStatementAsBlock(s, require) ==
  CASE s = NoNode -> Text(<<>>, require)
    [] s.n = "Block" -> IF s.blank THEN Text(<<>>, require)
                        ELSE Around(T("else"), visitStmt(s, require), <<>>)
    [] OTHER -> Around(T("else") \o T("{"), visitStmt(s, require), T("}"))

visitStmt(s, require) ==
  CASE s.n = "Block" ->
         IF s.blank THEN Text(T("{") \o T("}"), require)
         ELSE Around(T("{"), visitStatements(s.stmts, require), T("}"))
    [] s.n = "ExpressionStatement" -> Around(<<>>, visitExpr(s.expr, require), T(";"))
    [] s.n = "VariableDeclaration" ->
         LET head == printType(s.type) \o Id(s.name)
         IN IF s.init = NoNode THEN Text(head \o T(";"), require)
            ELSE Around(head \o T("="), visitExpr(s.init, require), T(";"))
    [] s.n = "ReturnStatement" ->
         IF s.expr = NoNode THEN Text(T("return") \o T(";"), require)
         ELSE Around(T("return"), visitExpr(s.expr, require), T(";"))
    [] s.n = "WhileStatement" ->
         LET c == visitExpr(s.cond, require)
         IN Around(T("while") \o T("(") \o c.out \o T(")"),
                   printStatementAsBlock(s.body, c.require), <<>>)
    [] s.n = "IfStatement" ->
         LET c == visitExpr(s.cond, require)
             t == printStatementAsBlock(s.then, c.require)
             e == printElseStatementAsBlock(s.else, t.require)
         IN Around(T("if") \o T("(") \o c.out \o T(")") \o t.out, e, <<>>)

visitStatements(ss, require) ==
  IF ss = <<>> THEN Text(<<>>, require)
  ELSE LET s == visitStmt(Head(ss), require) IN Join(s, visitStatements(Tail(ss), s.require))
-----------------------------------------------------------------------------
(*                          Members and classes                            *)

visitField(f) == T("public") \o printType(f.type) \o Id(f.name) \o T(";")

printParameters(ps) ==
  FlattenSeq([i \in DOMAIN ps |->
                (IF i = 1 THEN <<>> ELSE T(",")) \o printType(ps[i].type) \o Id(ps[i].name)])

visitRegularMethod(m, require) ==
  Around(T("public") \o printType(m.type) \o Id(m.name) \o T("(") \o printParameters(m.params)
           \o T(")"), visitStmt(m.block, require), <<>>)

visitMainMethod(m, require) ==
  Around(T("public") \o T("static") \o T("void") \o Id(m.name) \o T("(") \o Id(StringName)
           \o T("[") \o T("]") \o Id(m.arg) \o T(")"), visitStmt(m.block, require), <<>>)

(* One node after the other, the flag going from each to the next. *)
InTurn(Visit(_, _), s, start) ==
  FoldLeft(LAMBDA t, x : Join(t, Visit(x, t.require)), start, s)

visitClass(c, require) ==
  LET fields == FlattenSeq([i \in DOMAIN c.fields |-> visitField(SortedByName(c.fields)[i])])
      methods == InTurn(visitRegularMethod, SortedByName(c.methods), Text(<<>>, require))
      mains == InTurn(visitMainMethod, SortedByName(c.mains), methods)
  IN Around(T("class") \o Id(c.name) \o T("{") \o fields, mains, T("}"))

visitProgram(p) ==
  InTurn(visitClass, SortedByName(p.classes), Text(<<>>, FALSE)).out \o T("Eof")
=============================================================================
