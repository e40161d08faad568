---------------------------- MODULE FunctionPass ----------------------------
(***************************************************************************)
(* FunctionPass (firm_pass.hpp): the frame of every pass over the graph of *)
(* one method.  run() first walks the graph depth first from the End node  *)
(* (init_topological) and initialises every node once, then visits the     *)
(* nodes of a FIFO worklist until it is empty.  A node may be enqueued     *)
(* again while it is in the worklist.                                      *)
(*                                                                         *)
(* The recursion of init_topological is the variable stack, one frame per  *)
(* active call; frame.next is the loop variable.                           *)
(***************************************************************************)
EXTENDS Naturals, Sequences, SequencesExt

CONSTANTS Methods  \* the graphs a pass may be run on

(* A graph is a function from its nodes to records:                         *)
(*   op     "Block", "Phi", "Const", "Jmp", "Proj", ...                     *)
(*   ins    the operands; of a Block its control flow predecessors,         *)
(*          of End the nodes that are kept alive                            *)
(*   block  the node's block (of a Block: itself)                           *)
(*   arg    the value of a Const, the relation of a Cmp, the number of a    *)
(*          Proj                                                            *)
EndNode == "end"

ASSUME MethodsAssumption ==
  \A g \in Methods :
    /\ EndNode \in DOMAIN g /\ g[EndNode].op = "End"
    /\ \A n \in DOMAIN g : g[n].ins \in Seq(DOMAIN g) /\ g[n].block \in DOMAIN g

VARIABLES graph,     \* the graph; the walk does not change it
          visited,   \* the nodes marked visited
          stack,     \* the active calls of init_topological
          order,     \* the nodes that were initialised, in order
          worklist   \* the FIFO queue of nodes to visit

walkVars == <<graph, visited, stack, order, worklist>>

Nodes == DOMAIN graph
IsBlock(n) == graph[n].op = "Block"
IsLoopBreaker(n) == graph[n].op \in {"Phi", "Block"}

(* The calls init_topological makes for n: the block, then the operands.    *)
Callees(n) == IF IsBlock(n) THEN graph[n].ins ELSE <<graph[n].block>> \o graph[n].ins

Frame(n) == [node |-> n, next |-> 1]
Top == stack[Len(stack)]

WalkInit ==
  /\ graph \in Methods
  /\ visited = {}
  /\ stack = <<Frame(EndNode)>>
  /\ order = <<>>
  /\ worklist = <<>>

(* defaultInitOp of FunctionPass: constants need no visit. *)
DefaultEnqueued(n) == IF graph[n].op = "Const" THEN <<>> ELSE <<n>>

(* The next call of the active frame; a visited node returns at once, a     *)
(* loop breaker is marked before its operands are walked.                   *)
Descend ==
  /\ stack # <<>>
  /\ Top.next <= Len(Callees(Top.node))
  /\ LET callee == Callees(Top.node)[Top.next]
         advanced == [stack EXCEPT ![Len(stack)].next = @ + 1]
     IN IF callee \in visited
        THEN stack' = advanced /\ visited' = visited
        ELSE /\ stack' = Append(advanced, Frame(callee))
             /\ visited' = IF IsLoopBreaker(callee) THEN visited \cup {callee} ELSE visited
  /\ UNCHANGED <<graph, order, worklist>>

FinishAlwaysInits(enqueued) ==
  LET n == Top.node
  IN /\ stack # <<>>
     /\ Top.next > Len(Callees(n))
     /\ order' = Append(order, n)
     /\ worklist' = worklist \o enqueued
     /\ visited' = visited \cup {n}
     /\ stack' = Front(stack)
     /\ UNCHANGED graph

(* The end of a call: a node that a deeper call initialised meanwhile is    *)
(* not initialised again.                                                   *)
Finish(enqueued) ==
  LET n == Top.node
      inits == IsLoopBreaker(n) \/ n \notin visited
  IN /\ stack # <<>>
     /\ Top.next > Len(Callees(n))
     /\ order' = IF inits THEN Append(order, n) ELSE order
     /\ worklist' = IF inits THEN worklist \o enqueued ELSE worklist
     /\ visited' = visited \cup {n}
     /\ stack' = Front(stack)
     /\ UNCHANGED graph
=============================================================================
