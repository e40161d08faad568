----------------------------- MODULE UnusedFn ------------------------------
(***************************************************************************)
(* UnusedFnRmPass (unused_fn_remove_pass.hpp), driven by ProgramPass::run  *)
(* (firm_pass.hpp): a FIFO worklist of graphs, started with main, finds    *)
(* the functions that calls can reach; the graphs not found are dropped    *)
(* from the vector that code generation emits.                             *)
(*                                                                         *)
(* Graphs are named by their entity; the mangled names of methods differ.  *)
(* The order of a graph's calls and repeated calls matter to the queue, so *)
(* a body is the sequence of callees that FindReferencedFunctionsPass      *)
(* collects.  Builtins (print_int, allocate, ...) are callees that have no *)
(* graph.                                                                  *)
(***************************************************************************)
EXTENDS Naturals, Sequences

CONSTANTS Graphs,    \* names that have a graph
          Builtins,  \* names of the runtime's functions
          Main,      \* "main"
          Nobody,    \* no graph
          Bodies     \* the callee lists a graph may have

ASSUME UnusedFnAssumption ==
  /\ Graphs \cap Builtins = {}
  /\ Main \notin Builtins
  /\ Nobody \notin Graphs
  /\ Bodies \subseteq Seq(Graphs \cup Builtins)

VARIABLES calls,       \* the callees of every graph: the program, fixed
          allGraphs,   \* ProgramPass::allGraphs (its order plays no part)
          graphQueue,  \* ProgramPass::worklist
          visiting,    \* the graph visitMethod() is working on, or Nobody
          todo,        \* its callees that the loop has still to look at
          referenced,  \* UnusedFnRmPass::referencedFunctions
          pc           \* run(): "init", "loop", "callees", "done"

programVars == <<calls, allGraphs, graphQueue, visiting, todo, referenced, pc>>

TypeOK == /\ calls \in [Graphs -> Bodies]
          /\ allGraphs \subseteq Graphs
          /\ graphQueue \in Seq(Graphs)
          /\ visiting \in Graphs \cup {Nobody}
          /\ todo \in Seq(Graphs \cup Builtins)
          /\ referenced \subseteq Graphs
          /\ pc \in {"init", "loop", "callees", "done"}

ProgramInit == /\ calls \in [Graphs -> Bodies]
               /\ allGraphs = Graphs
               /\ graphQueue = <<>>
               /\ visiting = Nobody
               /\ todo = <<>>
               /\ referenced = {}
               /\ pc = "init"

(* getGraphForFnName() is null for a builtin. *)
HasGraph(f) == f \in allGraphs

(* initWorkList(): only main is enqueued, if there is one. *)
initWorkList == /\ pc = "init"
                /\ graphQueue' = IF HasGraph(Main) THEN <<Main>> ELSE <<>>
                /\ pc' = "loop"
                /\ UNCHANGED <<calls, allGraphs, visiting, todo, referenced>>

(* visitMethod() of a graph recorded before returns at once. *)
visitAgain == /\ pc = "loop"
              /\ graphQueue # <<>>
              /\ Head(graphQueue) \in referenced
              /\ graphQueue' = Tail(graphQueue)
              /\ UNCHANGED <<calls, allGraphs, visiting, todo, referenced, pc>>

(* visitMethod() of a new graph: FindReferencedFunctionsPass collects its  *)
(* callees.                                                                *)
visitMethod == /\ pc = "loop"
               /\ graphQueue # <<>>
               /\ Head(graphQueue) \notin referenced
               /\ visiting' = Head(graphQueue)
               /\ graphQueue' = Tail(graphQueue)
               /\ todo' = calls[visiting']
               /\ pc' = "callees"
               /\ UNCHANGED <<calls, allGraphs, referenced>>

enqueueCalleeUnlessQueued ==
  /\ pc = "callees"
  /\ todo # <<>>
  /\ todo' = Tail(todo)
  /\ graphQueue' = IF HasGraph(Head(todo)) /\ graphQueue = <<>>
                   THEN Append(graphQueue, Head(todo)) ELSE graphQueue
  /\ UNCHANGED <<calls, allGraphs, visiting, referenced, pc>>

(* One iteration of its loop: a callee that has a graph is enqueued, seen  *)
(* before or not, once for each call.                                      *)
enqueueCallee == /\ pc = "callees"
                 /\ todo # <<>>
                 /\ todo' = Tail(todo)
                 /\ graphQueue' = IF HasGraph(Head(todo))
                                  THEN Append(graphQueue, Head(todo)) ELSE graphQueue
                 /\ UNCHANGED <<calls, allGraphs, visiting, referenced, pc>>

(* The end of visitMethod(): referencedFunctions.insert(graph). *)
record == /\ pc = "callees"
          /\ todo = <<>>
          /\ referenced' = referenced \cup {visiting}
          /\ visiting' = Nobody
          /\ pc' = "loop"
          /\ UNCHANGED <<calls, allGraphs, graphQueue, todo>>

afterKeepsAll == /\ pc = "loop"
                 /\ graphQueue = <<>>
                 /\ pc' = "done"
                 /\ UNCHANGED <<calls, allGraphs, graphQueue, visiting, todo, referenced>>

(* after(): the erase-remove of every graph that was not recorded. *)
after == /\ pc = "loop"
         /\ graphQueue = <<>>
         /\ allGraphs' = {g \in allGraphs : g \in referenced}
         /\ pc' = "done"
         /\ UNCHANGED <<calls, graphQueue, visiting, todo, referenced>>

(* run() has returned. *)
Done == pc = "done" /\ UNCHANGED programVars

ProgramNext == \/ initWorkList \/ visitAgain \/ visitMethod \/ enqueueCallee
               \/ record \/ after \/ Done

ProgramSpec == ProgramInit /\ [][ProgramNext]_programVars
-----------------------------------------------------------------------------
CalledGraphs(g) == {calls[g][i] : i \in 1..Len(calls[g])} \cap Graphs
Closed(S) == \A g \in S : CalledGraphs(g) \subseteq S

(* The graphs that remain after the pass can call only graphs that remain:  *)
(* dropping the others (unused_fn_remove_pass.hpp:69-75) leaves no call     *)
(* without a target, and main is kept when there is one.                    *)
KeptIsClosed == pc = "done" => /\ Closed(allGraphs)
                               /\ Main \in Graphs => Main \in allGraphs

(* The pass keeps nothing else: every set of graphs that holds main and is  *)
(* closed under calls holds all the graphs kept, recursion included.        *)
KeptIsLeast == pc = "done" =>
  \A S \in SUBSET Graphs : Main \in S /\ Closed(S) => allGraphs \subseteq S

=============================================================================
