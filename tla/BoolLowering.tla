---------------------------- MODULE BoolLowering ---------------------------
(***************************************************************************)
(* How FirmVisitor (firm_visitor.cpp) turns a boolean expression into      *)
(* control flow.  A visitor method works in one of two modes, the top of   *)
(* reqBoolInfo: "requires a value" or "requires a bool", where it must     *)
(* leave the current block by jumps to a true and to a false target.       *)
(* Blocks are built incrementally: predecessors are added to an immature   *)
(* block one after the other, the order of a block's predecessors is the   *)
(* order of the operands of its Phis, and a matured block takes no more.   *)
(*                                                                         *)
(* Lower computes the blocks for one expression; the actions then execute  *)
(* them, and the result is compared with Java's short-circuit evaluation.  *)
(* The blocks, Phis and values of libfirm appear as far as these methods   *)
(* use them.                                                               *)
(***************************************************************************)
EXTENDS Integers, Sequences, FiniteSets

CONSTANTS Exprs,   \* the expressions to compile (records, see below)
          Uses     \* what the statement around the expression does with it

(* An expression is one of                                                  *)
(*   [op |-> "val", x]      a boolean variable, field, array element, call  *)
(*   [op |-> "cmp", x]      a comparison (x names its outcome)              *)
(*   [op |-> "lit", v]      true (1) or false (0)                                   *)
(*   [op |-> "asg", x, e]   x = e                                           *)
(*   [op |-> "not", e], [op |-> "and", l, r], [op |-> "or", l, r]           *)
Names == {"a", "b", "c"}
UNDEF == 2             \* what a Phi yields on an edge it has no operand for

VARIABLES expr, use, input, \* the program: expression, use, values of names
          cfg,              \* the blocks that Lower built
          result,           \* the node that holds the value, or the two targets
          block, pos,       \* execution: current block, next item of its code
          vals,             \* the value each node has
          env, trace,       \* the names now, and the evaluations and stores
          pc, outcome       \* "running" or "done", and the value the statement saw

vars == <<expr, use, input, cfg, result, block, pos, vals, env, trace, pc, outcome>>
program == <<expr, use, input, cfg, result>>
-----------------------------------------------------------------------------
(*                     Building blocks (libfirm)                           *)

Bad == [src |-> 0, on |-> "bad", node |-> 0]
Jmp(b) == [src |-> b, on |-> "jmp", node |-> 0]
ProjTrue(b, n) == [src |-> b, on |-> "true", node |-> n]
ProjFalse(b, n) == [src |-> b, on |-> "false", node |-> n]

EmptyCfg == [preds |-> <<<<>>>>, code |-> <<<<>>>>, nodes |-> <<>>,
             mature |-> {1}, cur |-> 1, late |-> FALSE]

(* new_immBlock(): the new block is the last one. *)
newImmBlock(g) == [g EXCEPT !.preds = Append(@, <<>>), !.code = Append(@, <<>>)]
LastBlock(g) == Len(g.preds)
setCurBlock(g, b) == [g EXCEPT !.cur = b]
matureImmBlock(g, b) == [g EXCEPT !.mature = @ \cup {b}]
addImmBlockPred(g, b, edge) == [g EXCEPT !.preds[b] = Append(@, edge),
                                         !.late = @ \/ b \in g.mature]
newNode(g, n) == [g EXCEPT !.nodes = Append(@, n)]
LastNode(g) == Len(g.nodes)
newConst(g, v) == newNode(g, [kind |-> "const", v |-> v])
newPhi(g, ops) == newNode(g, [kind |-> "phi", block |-> g.cur, ops |-> ops])
emit(g, item) == [g EXCEPT !.code[g.cur] = Append(@, item)]
-----------------------------------------------------------------------------
(*                     FirmVisitor                                         *)

RequiresNonBool == [requiresBool |-> FALSE, t |-> 0, f |-> 0]
RequiresBool(t, f) == [requiresBool |-> TRUE, t |-> t, f |-> f]

(* controlFlowToBoolean(): a Phi of 0 and 1 in a block with the two edges. *)
controlFlowToBoolean(g, falseEdge, trueEdge) ==
  LET h == setCurBlock(newImmBlock(g), Len(g.preds) + 1)
      k == [h EXCEPT !.preds[h.cur] = <<falseEdge, trueEdge>>]
  IN newPhi(matureImmBlock(k, k.cur), <<0, 1>>)

(* booleanToControlFlow(): first the true target gets its edge. *)
booleanToControlFlow(g, n, t, f) ==
  addImmBlockPred(addImmBlockPred(g, t, ProjTrue(g.cur, n)), f, ProjFalse(g.cur, n))

(* visitVarRef, visitFieldAccess, visitArrayAccess, visitMethodInvocation *)
LowerVal(e, ctx, g) ==
  LET h == newNode(g, [kind |-> "leaf", x |-> e.x])
      n == LastNode(h)
      k == emit(h, [do |-> "eval", node |-> n, x |-> e.x])
  IN IF ctx.requiresBool
     THEN [g |-> booleanToControlFlow(k, n, ctx.t, ctx.f), node |-> 0]
     ELSE [g |-> k, node |-> n]

(* The comparisons of visitBinaryExpression; condToBoolean() in value mode. *)
LowerCmp(e, ctx, g) ==
  LET h == newNode(g, [kind |-> "leaf", x |-> e.x])
      n == LastNode(h)
      k == emit(h, [do |-> "eval", node |-> n, x |-> e.x])
      z == controlFlowToBoolean(k, ProjFalse(k.cur, n), ProjTrue(k.cur, n))
  IN IF ctx.requiresBool
     THEN [g |-> booleanToControlFlow(k, n, ctx.t, ctx.f), node |-> 0]
     ELSE [g |-> z, node |-> LastNode(z)]

LowerLitNoJump(e, ctx, g) ==
  LET h == newConst(g, e.v)
  IN IF ctx.requiresBool
     THEN [g |-> addImmBlockPred(addImmBlockPred(g, ctx.t, Bad), ctx.f, Bad), node |-> 0]
     ELSE [g |-> h, node |-> LastNode(h)]

(* visitBoolLiteral: the branch that cannot be taken gets a Bad; the true   *)
(* target always gets its edge first.                                       *)
LowerLit(e, ctx, g) ==
  LET toTrue == IF e.v = 1 THEN Jmp(g.cur) ELSE Bad
      toFalse == IF e.v = 1 THEN Bad ELSE Jmp(g.cur)
      h == newConst(g, e.v)
  IN IF ctx.requiresBool
     THEN [g |-> addImmBlockPred(addImmBlockPred(g, ctx.t, toTrue), ctx.f, toFalse), node |-> 0]
     ELSE [g |-> h, node |-> LastNode(h)]

(* visitUnaryExpression swaps the first two predecessors of a target that   *)
(* is both the true and the false one, if it has two.                       *)
SwapTwoPreds(g, t, f) ==
  IF t = f /\ Len(g.preds[t]) = 2
  THEN [g EXCEPT !.preds[t] = <<g.preds[t][2], g.preds[t][1]>>]
  ELSE g

(* Which operand is in which context: the context for the left operand of a *)
(* short-circuit operator, whose other target is the block of the right one.*)
LeftContextSwapped(op, right, t, f) ==
  IF op = "or" THEN RequiresBool(right, f) ELSE RequiresBool(t, right)

LeftContext(op, right, t, f) ==
  IF op = "and" THEN RequiresBool(right, f) ELSE RequiresBool(t, right)

RECURSIVE Lower(_, _, _)

LowerNot(e, ctx, g) ==
  LET h == IF ctx.requiresBool THEN g ELSE newImmBlock(matureImmBlock(g, g.cur))
      t == IF ctx.requiresBool THEN ctx.t ELSE LastBlock(h)
      f == IF ctx.requiresBool THEN ctx.f ELSE LastBlock(h)
      operand == Lower(e.e, RequiresBool(f, t), h).g
      swapped == SwapTwoPreds(operand, t, f)
      joined == setCurBlock(matureImmBlock(swapped, swapped.cur), t)
      phi == newPhi(joined, <<1, 0>>)
  IN IF ctx.requiresBool
     THEN [g |-> swapped, node |-> 0]
     ELSE [g |-> matureImmBlock(phi, phi.cur), node |-> LastNode(phi)]

LowerShortCircuit(e, ctx, g) ==
  LET right == Len(g.preds) + 1
      h == IF ctx.requiresBool THEN newImmBlock(g)
           ELSE newImmBlock(newImmBlock(newImmBlock(g)))
      t == IF ctx.requiresBool THEN ctx.t ELSE right + 1
      f == IF ctx.requiresBool THEN ctx.f ELSE right + 2
      left == Lower(e.l, LeftContext(e.op, right, t, f), h).g
      atRight == setCurBlock(matureImmBlock(left, left.cur), right)
      both == matureImmBlock(Lower(e.r, RequiresBool(t, f), atRight).g, right)
      joined == controlFlowToBoolean(matureImmBlock(matureImmBlock(both, f), t), Jmp(f), Jmp(t))
  IN IF ctx.requiresBool
     THEN [g |-> both, node |-> 0]
     ELSE [g |-> joined, node |-> LastNode(joined)]

(* The assignment of visitBinaryExpression: the value is stored, then it is *)
(* the value of the expression.                                             *)
LowerAssign(e, ctx, g) ==
  LET right == Lower(e.e, RequiresNonBool, g)
      h == emit(right.g, [do |-> "store", node |-> right.node, x |-> e.x])
  IN IF ctx.requiresBool
     THEN [g |-> booleanToControlFlow(h, right.node, ctx.t, ctx.f), node |-> 0]
     ELSE [g |-> h, node |-> right.node]

Lower(e, ctx, g) ==
  CASE e.op = "val" -> LowerVal(e, ctx, g)
    [] e.op = "cmp" -> LowerCmp(e, ctx, g)
    [] e.op = "lit" -> LowerLit(e, ctx, g)
    [] e.op = "not" -> LowerNot(e, ctx, g)
    [] e.op \in {"and", "or"} -> LowerShortCircuit(e, ctx, g)
    [] e.op = "asg" -> LowerAssign(e, ctx, g)

(* visitVariableDeclaration, visitReturnStatement: the value is used.       *)
(* visitIfStatement, visitWhileStatement: the branches are blocks 2 and 3;  *)
(* an if with two empty statements has one block for both, and matures it   *)
(* only at its end.                                                         *)
Compile(e, u) ==
  LET branches == newImmBlock(newImmBlock(EmptyCfg))
      g == Lower(e, RequiresBool(2, 3), branches).g
      h == Lower(e, RequiresBool(2, 2), newImmBlock(EmptyCfg)).g
      v == Lower(e, RequiresNonBool, EmptyCfg)
  IN CASE u = "value" -> [cfg |-> matureImmBlock(v.g, v.g.cur), result |-> v.node]
       [] u = "branch" -> [cfg |-> matureImmBlock(matureImmBlock(g, 2), 3), result |-> 0]
       [] u = "empty if" -> [cfg |-> matureImmBlock(h, 2), result |-> 0]
-----------------------------------------------------------------------------
(*                     Execution of the blocks                             *)

Init == /\ expr \in Exprs
        /\ use \in Uses
        /\ input \in [Names -> {0, 1}]
        /\ cfg = Compile(expr, use).cfg
        /\ result = Compile(expr, use).result
        /\ block = 1 /\ pos = 1
        /\ vals = [n \in 1..LastNode(cfg) |->
                     IF cfg.nodes[n].kind = "const" THEN cfg.nodes[n].v ELSE UNDEF]
        /\ env = input
        /\ trace = <<>>
        /\ pc = "running" /\ outcome = UNDEF

(* The next evaluation or store of the current block. *)
Execute ==
  /\ pc = "running"
  /\ pos <= Len(cfg.code[block])
  /\ LET item == cfg.code[block][pos]
     IN /\ trace' = Append(trace, <<item.do, item.x>>)
        /\ vals' = IF item.do = "eval" THEN [vals EXCEPT ![item.node] = env[item.x]] ELSE vals
        /\ env' = IF item.do = "store" THEN [env EXCEPT ![item.x] = vals[item.node]] ELSE env
  /\ pos' = pos + 1
  /\ UNCHANGED <<program, block, pc, outcome>>

(* The edges that leave the current block now: of a conditional jump on an  *)
(* undefined value, either.                                                 *)
Leaves(edge) ==
  /\ edge.src = block
  /\ \/ edge.on = "jmp"
     \/ edge.on = "true" /\ vals[edge.node] \in {1, UNDEF}
     \/ edge.on = "false" /\ vals[edge.node] \in {0, UNDEF}
Out == {<<b, i>> \in (1..LastBlock(cfg)) \X (1..4) :
          i <= Len(cfg.preds[b]) /\ Leaves(cfg.preds[b][i])}

(* Entering block b by its i-th predecessor gives its Phis their operands.  *)
Follow ==
  /\ pc = "running"
  /\ pos > Len(cfg.code[block])
  /\ \E e \in Out :
       /\ block' = e[1]
       /\ vals' = [n \in DOMAIN vals |->
                     IF cfg.nodes[n].kind = "phi" /\ cfg.nodes[n].block = e[1]
                     THEN IF e[2] <= Len(cfg.nodes[n].ops) THEN cfg.nodes[n].ops[e[2]] ELSE UNDEF
                     ELSE vals[n]]
  /\ pos' = 1
  /\ UNCHANGED <<program, env, trace, pc, outcome>>

(* The code of the expression has run: the statement around it goes on.     *)
Finish ==
  /\ pc = "running"
  /\ pos > Len(cfg.code[block])
  /\ CASE use = "value" -> block = cfg.cur /\ Out = {} /\ outcome' = vals[result]
       [] use = "branch" -> block \in {2, 3} /\ outcome' = (IF block = 2 THEN 1 ELSE 0)
       [] use = "empty if" -> block = 2 /\ outcome' = outcome
  /\ pc' = "done"
  /\ UNCHANGED <<program, block, pos, vals, env, trace>>

Stop == pc = "done" /\ UNCHANGED vars

Next == Execute \/ Follow \/ Finish \/ Stop

Spec == Init /\ [][Next]_vars
-----------------------------------------------------------------------------
(*                     Reference: Java's evaluation                        *)

(* The value of e, the values of the names afterwards and what happened.    *)
RECURSIVE Eval(_, _)
Eval(e, s) ==
  CASE e.op \in {"val", "cmp"} ->
         [v |-> s.env[e.x], env |-> s.env, trace |-> Append(s.trace, <<"eval", e.x>>)]
    [] e.op = "lit" -> [s EXCEPT !.v = e.v]
    [] e.op = "not" -> LET o == Eval(e.e, s) IN [o EXCEPT !.v = 1 - o.v]
    [] e.op = "asg" -> LET o == Eval(e.e, s)
                       IN [o EXCEPT !.env[e.x] = o.v, !.trace = Append(@, <<"store", e.x>>)]
    [] e.op = "and" -> LET l == Eval(e.l, s) IN IF l.v = 1 THEN Eval(e.r, l) ELSE l
    [] e.op = "or" -> LET l == Eval(e.l, s) IN IF l.v = 1 THEN l ELSE Eval(e.r, l)

Expected == Eval(expr, [v |-> 0, env |-> input, trace |-> <<>>])

(* An operand of "!" that is "&&" or "||" under any number of "!". *)
RECURSIVE IsShortCircuit(_)
IsShortCircuit(e) == e.op \in {"and", "or"} \/ (e.op = "not" /\ IsShortCircuit(e.e))

(* Some "!" whose value is required has such an operand.                    *)
RECURSIVE NotOfShortCircuit(_, _)
NotOfShortCircuit(e, value) ==
  CASE e.op = "not" -> (value /\ IsShortCircuit(e.e)) \/ NotOfShortCircuit(e.e, FALSE)
    [] e.op = "asg" -> NotOfShortCircuit(e.e, TRUE)
    [] e.op \in {"and", "or"} -> NotOfShortCircuit(e.l, FALSE) \/ NotOfShortCircuit(e.r, FALSE)
    [] OTHER -> FALSE
-----------------------------------------------------------------------------
Correct == pc = "done" =>
  /\ use # "empty if" => outcome = Expected.v
  /\ env = Expected.env
  /\ trace = Expected.trace

(* The code of firm_visitor.cpp:457-735 evaluates a boolean expression as    *)
(* Java does: the same value or branch, the same operands in the same order, *)
(* each at most once, and the same assignments.  Expressions with a "!"      *)
(* of "&&" or "||" as a value are left to LoweringCorrect.                   *)
ShortCircuitCorrect == ~NotOfShortCircuit(expr, use = "value") => Correct

(* The same for every expression: "'Not' is implemented by switching         *)
(* Projection order" (firm_visitor.cpp:691).                                 *)
LoweringCorrect == Correct

(* Out of every block that is executed leads exactly one way: one edge can  *)
(* be taken, or it is where the statement around the expression goes on.     *)
(* Literals give one of their targets a Bad (firm_visitor.cpp:457-473).  And *)
(* no block gets a predecessor once it was matured, which libfirm's          *)
(* construction would assert, nor is one left immature.                      *)
GoesOn == CASE use = "value" -> block = cfg.cur /\ Out = {}
            [] use = "branch" -> block \in {2, 3}
            [] use = "empty if" -> block = 2
OneWayOut ==
  /\ ~cfg.late /\ cfg.mature = 1..LastBlock(cfg)
  /\ (pc = "running" /\ pos > Len(cfg.code[block]) /\ ~NotOfShortCircuit(expr, use = "value")) =>
       Cardinality(Out) = IF GoesOn THEN 0 ELSE 1
=============================================================================
