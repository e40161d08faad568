------------------------------ MODULE ConstProp -----------------------------
(***************************************************************************)
(* ConstPropPass (const_prop_pass.hpp): conditional constant propagation   *)
(* over one method, as a FunctionPass.  The link of every node holds       *)
(* tarval_unknown, a constant or tarval_bad (not constant); the map        *)
(* controlFlowVisited says of a Jmp, Proj or Bad whether control flow can  *)
(* take it.  When the worklist is empty, nodes are replaced by constants,  *)
(* and the Projs of decided Conds by a Jmp and a Bad.                      *)
(* Nodes carry no memory operand: that substituteNode leads the memory     *)
(* around a Div or Mod which became a constant is left out, and so is Not, *)
(* which FirmVisitor never builds.  It builds Div and Mod between Convs to *)
(* long and back; here the quotient is wrapped at once, and a Conv keeps   *)
(* the value.                                                              *)
(*                                                                         *)
(* Then the method is executed twice side by side, as it was and as it is  *)
(* now, to state what the pass must preserve.                              *)
(***************************************************************************)
EXTENDS FunctionPass, Integers, FiniteSets

CONSTANTS IntMin, IntMax   \* the values of an int, IntMin < 0 < IntMax

IntVals == IntMin..IntMax
UNKNOWN == IntMax + 1       \* tarval_unknown
BAD == IntMax + 2           \* tarval_bad
UNSET == IntMax + 3         \* a link that was not set yet
IsConstant(v) == v \in IntVals
ToInt(b) == IF b THEN 1 ELSE 0      \* tarval_b_true, tarval_b_false

VARIABLES link,      \* node |-> its value
          cfv,       \* controlFlowVisited: node |-> BOOLEAN, for some nodes
          backwards, \* do out edges come in the opposite order?
          phase,     \* "walk", "work", "run", "stop"
          source,    \* the graph before substituteNodes
          block,     \* the block that executes
          env, opt   \* node |-> value, in the original and the new method

passVars == <<link, cfv>>
runVars == <<source, block, env, opt>>
propVars == <<walkVars, link, cfv, backwards, phase, runVars>>

PropInit ==
  /\ WalkInit
  /\ link = [n \in Nodes |-> UNSET]
  /\ cfv = [n \in {} |-> TRUE]
  /\ backwards \in BOOLEAN
  /\ phase = "walk"
  /\ source = graph
  /\ block = "none"
  /\ env = [n \in Nodes |-> UNSET]
  /\ opt = env
-----------------------------------------------------------------------------
(*                          Initialisation                                 *)

(* initStart, initConst, initAdd ... initPhi, defaultInitOp *)
InitVal(n) ==
  CASE graph[n].op = "Const" -> graph[n].arg
    [] graph[n].op \in {"Add", "Sub", "Mul", "Div", "Mod", "Phi"} -> UNKNOWN
    [] OTHER -> BAD

WalkDescend == /\ phase = "walk" /\ Descend
               /\ UNCHANGED <<link, cfv, backwards, phase, runVars>>

WalkFinish ==
  /\ phase = "walk"
  /\ Finish(DefaultEnqueued(Top.node))
  /\ link' = IF order' = order THEN link ELSE [link EXCEPT ![Top.node] = InitVal(Top.node)]
  /\ phase' = IF stack' = <<>> THEN "work" ELSE "walk"
  /\ UNCHANGED <<cfv, backwards, runVars>>
-----------------------------------------------------------------------------
(*                            The worklist                                 *)

(* foreach_out_edge: the users of n, in one order or the other. *)
Users(n) == LET users == SelectSeq(order, LAMBDA m : n \in Range(graph[m].ins)
                                              \/ (n = graph[m].block /\ n # m))
            IN IF backwards THEN Reverse(users) ELSE users

Wrap(v) == ((v - IntMin) % (IntMax - IntMin + 1)) + IntMin

(* tarval_add, tarval_sub, tarval_mul, tarval_div, tarval_mod *)
Quotient(l, r) == LET q == (IF l < 0 THEN -l ELSE l) \div (IF r < 0 THEN -r ELSE r)
                  IN IF (l < 0) = (r < 0) THEN q ELSE -q
Eval(op, l, r) ==
  CASE op = "Add" -> Wrap(l + r)
    [] op = "Sub" -> Wrap(l - r)
    [] op = "Mul" -> Wrap(l * r)
    [] op = "Div" -> IF r = 0 THEN BAD ELSE Wrap(Quotient(l, r))
    [] op = "Mod" -> IF r = 0 THEN BAD ELSE l - r * Quotient(l, r)
    [] op = "eq" -> ToInt(l = r)
    [] op = "ne" -> ToInt(l # r)
    [] op = "lt" -> ToInt(l < r)
    [] op = "le" -> ToInt(l <= r)
    [] op = "gt" -> ToInt(l > r)
    [] op = "ge" -> ToInt(l >= r)

(* transfer() and, for a Cmp, visitCmp: bad wins over unknown. *)
transfer(op, l, r) ==
  IF BAD \in {l, r} THEN BAD
  ELSE IF UNKNOWN \in {l, r} THEN UNKNOWN
  ELSE Eval(op, l, r)

(* visitPhi: the operands on edges not known to be untaken, met one by one. *)
Meet(v, w) == IF BAD \in {v, w} THEN BAD
              ELSE IF v = UNKNOWN THEN w
              ELSE IF w = UNKNOWN \/ v = w THEN v
              ELSE BAD
Skipped(e) == e \in DOMAIN cfv /\ ~cfv[e]
phiVal(n) ==
  LET edges == graph[graph[n].block].ins
      taken == {i \in DOMAIN edges : ~Skipped(edges[i])}
  IN FoldLeft(Meet, UNKNOWN, [i \in DOMAIN edges |->
                IF i \in taken THEN link[graph[n].ins[i]] ELSE UNKNOWN])

IsControlProj(n) == graph[n].op = "Proj" /\ graph[n].arg \in {"true", "false"}

(* The value that visiting n assigns to its link. *)
NewVal(n) ==
  LET ins == graph[n].ins
  IN CASE graph[n].op \in {"Add", "Sub", "Mul", "Div", "Mod"} ->
            transfer(graph[n].op, link[ins[1]], link[ins[2]])
       [] graph[n].op = "Cmp" -> transfer(graph[n].arg, link[ins[1]], link[ins[2]])
       [] graph[n].op = "Minus" -> IF IsConstant(link[ins[1]]) THEN Wrap(-link[ins[1]])
                                   ELSE link[ins[1]]
       [] graph[n].op \in {"Conv", "Proj"} -> link[ins[1]]
       [] graph[n].op = "Phi" -> phiVal(n)
       [] OTHER -> link[n]

TakenOther(n) ==
  IF IsControlProj(n)
  THEN LET cmp == graph[graph[n].ins[1]].ins[1]
       IN IsConstant(link[cmp]) => link[cmp] = ToInt(graph[n].arg = "false")
  ELSE graph[n].op # "Bad"

(* Whether n, as far as its own Cond says, passes control flow on. *)
Taken(n) ==
  IF IsControlProj(n)
  THEN LET cmp == graph[graph[n].ins[1]].ins[1]
       IN IsConstant(link[cmp]) => link[cmp] = ToInt(graph[n].arg = "true")
  ELSE graph[n].op # "Bad"

HasMark(n) == n \in DOMAIN cfv
SetMark(n, b) == [m \in DOMAIN cfv \cup {n} |-> IF m = n THEN b ELSE cfv[m]]

(* The control flow and the Phis of the blocks that n leads to. *)
IsModeX(n) == graph[n].op \in {"Jmp", "Bad", "Return"} \/ IsControlProj(n)
Followers(n) == FlattenSeq([i \in DOMAIN Users(n) |->
  SelectSeq(Users(Users(n)[i]), LAMBDA m : IsModeX(m) \/ graph[m].op = "Phi")])

maybeMarkNoRequeue(n) ==
  LET preds == graph[graph[n].block].ins
      reachable == \E i \in DOMAIN preds : HasMark(preds[i]) /\ cfv[preds[i]]
      known == \E i \in DOMAIN preds : HasMark(preds[i])
      keep == [cfv |-> cfv, more |-> <<>>]
  IN IF HasMark(n) /\ cfv[n] = Taken(n) THEN keep
     ELSE IF ~Taken(n) THEN [cfv |-> SetMark(n, FALSE), more |-> <<>>]
     ELSE IF graph[n].block = "bs" THEN [cfv |-> SetMark(n, TRUE), more |-> <<>>]
     ELSE IF ~known THEN [cfv |-> cfv, more |-> <<n>>]
     ELSE [cfv |-> SetMark(n, reachable), more |-> <<>>]

(* maybeMarkControlFlow: mark n, and what to enqueue.  A node whose block   *)
(* no marked edge leads to yet is enqueued again.                           *)
maybeMarkControlFlow(n) ==
  LET preds == graph[graph[n].block].ins
      reachable == \E i \in DOMAIN preds : HasMark(preds[i]) /\ cfv[preds[i]]
      known == \E i \in DOMAIN preds : HasMark(preds[i])
      keep == [cfv |-> cfv, more |-> <<>>]
  IN IF HasMark(n) /\ cfv[n] = Taken(n) THEN keep
     ELSE IF ~Taken(n) THEN [cfv |-> SetMark(n, FALSE), more |-> <<>>]
     ELSE IF graph[n].block = "bs" THEN [cfv |-> SetMark(n, TRUE), more |-> <<>>]
     ELSE IF ~known THEN [cfv |-> cfv, more |-> <<n>>]
     ELSE [cfv |-> SetMark(n, reachable), more |-> IF reachable THEN Followers(n) ELSE <<>>]

VisitNodeNoCompare(n) ==
  LET marks == IF graph[n].op \in {"Jmp", "Bad"} \/ IsControlProj(n)
               THEN maybeMarkControlFlow(n) ELSE [cfv |-> cfv, more |-> <<>>]
  IN /\ cfv' = marks.cfv
     /\ link' = [link EXCEPT ![n] = NewVal(n)]
     /\ worklist' = Tail(worklist) \o marks.more \o <<n>>

(* setNodeLink: the users of a node are visited again when it changes. *)
VisitNode(n) ==
  LET marks == IF graph[n].op \in {"Jmp", "Bad"} \/ IsControlProj(n)
               THEN maybeMarkControlFlow(n) ELSE [cfv |-> cfv, more |-> <<>>]
      changed == NewVal(n) # link[n]
  IN /\ cfv' = marks.cfv
     /\ link' = [link EXCEPT ![n] = NewVal(n)]
     /\ worklist' = Tail(worklist) \o marks.more
                      \o (IF changed \/ graph[n].op = "Cond" THEN Users(n) ELSE <<>>)

Work ==
  /\ phase = "work"
  /\ worklist # <<>>
  /\ VisitNode(Head(worklist))
  /\ UNCHANGED <<graph, visited, stack, order, backwards, phase, runVars>>
-----------------------------------------------------------------------------
(*                           substituteNodes                               *)

Substitute(n) ==
  LET cmp == graph[graph[n].ins[1]].ins[1]
  IN IF graph[n].op # "Const" /\ IsConstant(link[n])
     THEN [op |-> "Const", ins |-> <<>>, block |-> graph[n].block, arg |-> link[n]]
     ELSE IF IsControlProj(n) /\ IsConstant(link[cmp])
     THEN [op |-> IF link[cmp] = ToInt(graph[n].arg = "true") THEN "Jmp" ELSE "Bad",
           ins |-> <<>>, block |-> graph[n].block, arg |-> 0]
     ELSE graph[n]

(* after(), then the new method is started.                                *)
SubstituteNodes ==
  /\ phase = "work"
  /\ worklist = <<>>
  /\ graph' = [n \in Nodes |-> IF n \in Range(order) THEN Substitute(n) ELSE graph[n]]
  /\ phase' = "run"
  /\ UNCHANGED <<visited, stack, order, worklist, passVars, backwards, runVars>>
-----------------------------------------------------------------------------
(*                Execution of a method (before and after)                 *)

Inputs == [{n \in Range(order) : source[n].op \in {"Call", "Load"} \/
                                (source[n].op = "Proj" /\ source[n].arg = "data")} -> IntVals]

(* The value of a node other than a Phi in memory m, for the given input. *)
Compute(g, m, input, n) ==
  CASE g[n].op = "Const" -> g[n].arg
    [] n \in DOMAIN input -> input[n]
    [] g[n].op \in {"Add", "Sub", "Mul", "Div", "Mod"} ->
         IF m[g[n].ins[1]] \in IntVals /\ m[g[n].ins[2]] \in IntVals
         THEN Eval(g[n].op, m[g[n].ins[1]], m[g[n].ins[2]]) ELSE BAD
    [] g[n].op = "Cmp" -> Eval(g[n].arg, m[g[n].ins[1]], m[g[n].ins[2]])
    [] g[n].op = "Minus" -> Wrap(-m[g[n].ins[1]])
    [] g[n].op = "Conv" -> m[g[n].ins[1]]
    [] OTHER -> m[n]

(* Enter block b by its i-th edge: all Phis at once, then the other nodes.  *)
EnterBlock(g, m, input, b, i) ==
  LET phis == [n \in DOMAIN m |-> IF g[n].op = "Phi" /\ g[n].block = b
                                  THEN m[g[n].ins[i]] ELSE m[n]]
      nodes == SelectSeq(order, LAMBDA n : source[n].block = b /\ g[n].op # "Phi")
  IN FoldLeft(LAMBDA v, n : [v EXCEPT ![n] = Compute(g, v, input, n)], phis, nodes)

(* The edge by which m leaves the block: in g, a node that is no Bad. *)
Leaves(g, m, e) ==
  CASE g[e].op = "Jmp" -> TRUE
    [] g[e].op = "Bad" -> FALSE
    [] g[e].op = "Proj" -> m[g[g[e].ins[1]].ins[1]] = ToInt(g[e].arg = "true")
    [] OTHER -> FALSE

Enter(b, i) ==
  \E input \in Inputs :
     /\ env' = EnterBlock(source, env, input, b, i)
     /\ opt' = EnterBlock(graph, opt, input, b, i)
     /\ block' = b
     /\ UNCHANGED <<walkVars, passVars, backwards, phase, source>>

Start == phase = "run" /\ block = "none" /\ Enter("bs", 0)

(* The control flow edges <<b, i>> and those by which the block is left. *)
Edges == UNION {{b} \X DOMAIN source[b].ins : b \in {n \in Range(order) : source[n].op = "Block"}}
EdgeNode(edge) == source[edge[1]].ins[edge[2]]
Leaving == {edge \in Edges : /\ source[EdgeNode(edge)].block = block
                             /\ Leaves(source, env, EdgeNode(edge))}

(* A division by zero ends the execution. *)
Trapped == \E n \in Range(order) : env[n] = BAD

Step == /\ phase = "run"
        /\ ~Trapped
        /\ \E edge \in Leaving : Enter(edge[1], edge[2])

Stopped == /\ phase = "run" /\ block # "none"
           /\ Trapped \/ Leaving = {}
           /\ UNCHANGED propVars

PropNext == WalkDescend \/ WalkFinish \/ Work \/ SubstituteNodes \/ Start \/ Step \/ Stopped

PropSpec == /\ PropInit /\ [][PropNext]_propVars
            /\ WF_propVars(WalkDescend \/ WalkFinish \/ Work \/ SubstituteNodes)
-----------------------------------------------------------------------------
(* Propagation is sound: after the pass every node has, each time its block *)
(* executes, the value it had before (const_prop_pass.hpp:134-145, 284-358, *)
(* 370-452).                                                                *)
ValuesPreserved == \A n \in Range(order) : env[n] = opt[n]

(* An edge that executes is still there, and was not marked as untaken      *)
(* (const_prop_pass.hpp:81-129, 261-276): reachable code is never removed.  *)
TakenEdgesKept == (phase = "run" /\ ~Trapped) =>
  \A edge \in Leaving : LET e == EdgeNode(edge)
                        IN Leaves(graph, opt, e) /\ ~Skipped(e)

(* The order of the walk is topological up to Phis and Blocks: when a node  *)
(* is initialised, all its operands that are no loop breakers are already   *)
(* (firm_pass.hpp:37-81), so that its first visit finds their values        *)
(* computed.  No node is initialised twice, although its call may be active *)
(* several times, and none that End depends on is left out.                 *)
OperandsFirst == phase \in {"walk", "work"} =>
  /\ \A i \in 1..Len(order) : \A c \in Range(Callees(order[i])) :
       ~IsLoopBreaker(c) => \E j \in 1..(i - 1) : order[j] = c
  /\ \A i, j \in 1..Len(order) : order[i] = order[j] => i = j
  /\ phase = "work" => /\ EndNode \in Range(order)
                      /\ \A n \in Range(order) : Range(Callees(n)) \subseteq Range(order)

=============================================================================
