------------------------------ MODULE JavaEval ------------------------------
(***************************************************************************)
(* What the statements of a method do, as Java defines it: a reference for *)
(* FirmMemory.  Operands are evaluated from left to right; memory is a     *)
(* sequence of objects and arrays, each a function from field names or     *)
(* indices to values; a reference is a number, null is 0.                  *)
(***************************************************************************)
EXTENDS Ast, TLC

CONSTANTS SystemName, OutName, InName, PrintlnName, WriteName, FlushName, ReadName, MainName,
          ToggleName

Typing == INSTANCE Typing

(* stop: "no"; "trap" for an exception; "undefined" for an index out of      *)
(* bounds, which the compiled program does not notice.                      *)
State(s, v) == [s |-> s, v |-> v]
Raise(s, what) == State([s EXCEPT !.stop = what], 0)
Objects(p, c) == (CHOOSE k \in Typing!Named(p.classes, c) : TRUE).fields
IsRef(t) == Typing!IsReference(Typing!TypeNode(t))
NewObject(s, p, c) ==
  State([s EXCEPT !.objs = Append(@, [cells |-> [f \in Typing!NamesOf(Objects(p, c)) |-> 0],
                                      refs |-> {x.name : x \in {y \in ToSet(Objects(p, c)) : IsRef(y.type)}},
                                      class |-> c])], Len(s.objs) + 1)
NewArray(s, t, n) ==
  State([s EXCEPT !.objs = Append(@, [cells |-> [i \in 0..(n - 1) |-> 0],
                                      refs |-> IF Typing!IsReference(Typing!ElementOf(Typing!TypeNode(t)))
                                               THEN 0..(n - 1) ELSE {},
                                      class |-> 0])], Len(s.objs) + 1)
Quot(a, b) == LET q == (IF a < 0 THEN -a ELSE a) \div (IF b < 0 THEN -b ELSE b)
              IN IF (a < 0) = (b < 0) THEN q ELSE -q

(* The cell key of object o is read or written; o may be null. *)
GetCell(s, o, key) ==
  IF o = 0 THEN Raise(s, "trap") ELSE IF key \notin DOMAIN s.objs[o].cells THEN Raise(s, "undefined")
  ELSE State(s, s.objs[o].cells[key])
SetCell(s, o, key, v) ==
  IF o = 0 THEN Raise(s, "trap") ELSE IF key \notin DOMAIN s.objs[o].cells THEN Raise(s, "undefined")
  ELSE State([s EXCEPT !.objs[o].cells[key] = v], v)

Called(s, name, args) ==
  LET t == [s EXCEPT !.trace = Append(@, <<name>> \o args)]
      o == args[1]
      system == name \in {PrintlnName, WriteName, FlushName, ReadName}
  IN State(IF system THEN t ELSE [t EXCEPT !.objs[o].cells[ToggleName] = 1 - @], Len(s.trace) % 2)

IsSystemCall(e) == e.left.n = "FieldAccess" /\ e.left.left.n = "VarRef" /\ e.left.left.name = SystemName

Arithmetic(s, op, a, b) ==
  CASE op = "+" -> State(s, a + b)
    [] op = "-" -> State(s, a - b)
    [] op = "*" -> State(s, a * b)
    [] op \in {"/", "%"} /\ b = 0 -> Raise(s, "trap")
    [] op = "/" -> State(s, Quot(a, b))
    [] op = "%" -> State(s, a - b * Quot(a, b))

RECURSIVE Eval(_, _, _), EvalAll(_, _, _, _)
(* The values of es, evaluated in order after vs. *)
EvalAll(p, s, es, vs) ==
  IF es = <<>> \/ s.stop # "no" THEN State(s, vs)
  ELSE LET r == Eval(p, s, Head(es)) IN EvalAll(p, r.s, Tail(es), Append(vs, r.v))

(* The operands of a place, and the place: <<>> for a variable. *)
PlaceOperands(s, e) ==
  CASE e.n = "VarRef" -> IF e.name \in DOMAIN s.vars THEN <<>> ELSE <<ThisLiteral>>
    [] e.n = "FieldAccess" -> <<e.left>>
    [] e.n = "ArrayAccess" -> <<e.left, e.index>>
Key(e, vs) == IF e.n = "ArrayAccess" THEN vs[2] ELSE e.name

Eval(p, s, e) ==
  IF s.stop # "no" THEN State(s, 0)
  ELSE CASE e.n = "IntLiteral" -> State(s, e.int)
    [] e.n = "BoolLiteral" -> State(s, IF e.bool THEN 1 ELSE 0)
    [] e.n = "NullLiteral" -> State(s, 0)
    [] e.n = "ThisLiteral" -> State(s, 1)
    [] e.n = "NewObjectExpression" -> NewObject(s, p, e.name)
    [] e.n = "NewArrayExpression" ->
         LET r == Eval(p, s, e.size) IN IF r.s.stop # "no" THEN r ELSE NewArray(r.s, e.type, r.v)
    [] e.n = "UnaryExpression" -> LET r == Eval(p, s, e.expr) IN State(r.s, -r.v)
    [] e.n \in {"VarRef", "FieldAccess", "ArrayAccess"} ->
         LET r == EvalAll(p, s, PlaceOperands(s, e), <<>>)
         IN IF r.s.stop # "no" THEN State(r.s, 0)
            ELSE IF r.v = <<>> THEN State(s, s.vars[e.name]) ELSE GetCell(r.s, r.v[1], Key(e, r.v))
    [] e.n = "BinaryExpression" /\ e.op = "=" ->
         LET place == EvalAll(p, s, PlaceOperands(s, e.left), <<>>)
             r == Eval(p, place.s, e.right)
         IN IF r.s.stop # "no" THEN State(r.s, 0)
            ELSE IF place.v = <<>> THEN State([r.s EXCEPT !.vars[e.left.name] = r.v], r.v)
            ELSE SetCell(r.s, place.v[1], Key(e.left, place.v), r.v)
    [] e.n = "BinaryExpression" ->
         LET r == EvalAll(p, s, <<e.left, e.right>>, <<>>)
         IN IF r.s.stop # "no" THEN State(r.s, 0)
            ELSE Arithmetic(r.s, e.op, r.v[1], r.v[2])
    [] e.n = "MethodInvocation" ->
         LET r == EvalAll(p, s, IF IsSystemCall(e) THEN e.args ELSE <<e.left>> \o e.args, <<>>)
         IN IF r.s.stop # "no" THEN State(r.s, 0)
            ELSE IF ~IsSystemCall(e) /\ r.v[1] = 0 THEN Raise(r.s, "undefined")    \* no check of the receiver
            ELSE Called(r.s, e.name, r.v)

RECURSIVE Run(_, _, _)
(* The state when the method returns, with the value it returns. *)
Run(p, s, ss) ==
  IF s.stop # "no" THEN State(s, 0)
  ELSE LET stmt == Head(ss)
       IN CASE stmt.n = "ReturnStatement" -> Eval(p, s, stmt.expr)
            [] stmt.n = "ExpressionStatement" -> Run(p, Eval(p, s, stmt.expr).s, Tail(ss))
            [] stmt.n = "VariableDeclaration" ->
                 LET r == IF stmt.init = NoNode THEN State(s, 0) ELSE Eval(p, s, stmt.init)
                 IN Run(p, [r.s EXCEPT !.vars = (stmt.name :> r.v) @@ @], Tail(ss))

(* The method m of object 1, an object of class c; parameter i has the value *)
(* i + 1.                                                                   *)
Method(p, c, m) ==
  LET zero == [objs |-> <<>>, trace |-> <<>>, stop |-> "no",
               vars |-> [x \in Typing!NamesOf(m.params) |->
                           1 + CHOOSE i \in DOMAIN m.params : m.params[i].name = x]]
  IN Run(p, NewObject(zero, p, c).s, m.block.stmts)
=============================================================================
