----------------------------- MODULE PassProofs -----------------------------
(***************************************************************************)
(* Proofs about the passes.  UnusedFn.tla, for every program: any set of   *)
(* functions and any bodies, recursive or not.  The walk of                *)
(* FunctionPass.tla, as ConstProp.tla uses it, for every graph of a        *)
(* method: whatever cycles it has, and however often a node's call is      *)
(* active.                                                                 *)
(***************************************************************************)
EXTENDS UnusedFn, ConstProp, SequenceTheorems, TLAPS

(*                  Removal of unused functions                            *)

Elems(q) == {q[i] : i \in 1..Len(q)}

(* Found so far: recorded, waiting, or being visited. *)
Reached == referenced \cup Elems(graphQueue) \cup (IF pc = "callees" THEN {visiting} ELSE {})

Phases == /\ pc = "init" => graphQueue = <<>>
          /\ pc # "done" => allGraphs = Graphs
          /\ pc = "done" => allGraphs = referenced /\ graphQueue = <<>>
          /\ pc = "callees" => visiting \in Graphs

(* The calls of a recorded graph lead to graphs that are found; those of   *)
(* the graph being visited, too, unless the loop has still to look at them. *)
Frontier ==
  /\ \A g \in referenced : CalledGraphs(g) \subseteq Reached
  /\ pc = "callees" => CalledGraphs(visiting) \subseteq Reached \cup Elems(todo)
  /\ pc # "init" /\ Main \in Graphs => Main \in Reached

(* Everything found is called for: it lies in each closed set with main. *)
Needed ==
  \A S \in SUBSET Graphs : Main \in S /\ Closed(S) =>
     /\ Reached \subseteq S
     /\ pc = "callees" => Elems(todo) \cap Graphs \subseteq S

IInv == TypeOK /\ Phases /\ Frontier /\ Needed

LEMMA HeadTailElems ==
  ASSUME NEW T, NEW q \in Seq(T), q # <<>>
  PROVE  /\ Head(q) \in T /\ Tail(q) \in Seq(T)
         /\ Elems(q) = {Head(q)} \cup Elems(Tail(q))
<1>1. Len(q) \in Nat /\ Len(q) > 0 /\ Head(q) = q[1] /\ Head(q) \in T
  OBVIOUS
<1>2. /\ Tail(q) \in Seq(T) /\ Len(Tail(q)) = Len(q) - 1
      /\ \A i \in 1..Len(Tail(q)) : Tail(q)[i] = q[i + 1]
  BY HeadTailProperties
<1>3. ASSUME NEW x \in Elems(q) PROVE x = Head(q) \/ x \in Elems(Tail(q))
  <2>1. PICK i \in 1..Len(q) : x = q[i]
    BY DEF Elems
  <2>2. CASE i = 1
    BY <1>1, <2>1, <2>2
  <2>3. CASE i # 1
    <3>1. i - 1 \in 1..Len(Tail(q)) /\ Tail(q)[i - 1] = q[i - 1 + 1] /\ i - 1 + 1 = i
      BY <1>1, <1>2, <2>3
    <3> QED
      BY <2>1, <3>1 DEF Elems
  <2> QED
    BY <2>2, <2>3
<1>4. Head(q) \in Elems(q)
  BY <1>1 DEF Elems
<1>5. ASSUME NEW x \in Elems(Tail(q)) PROVE x \in Elems(q)
  <2>1. PICK i \in 1..Len(Tail(q)) : x = Tail(q)[i]
    BY DEF Elems
  <2>2. i + 1 \in 1..Len(q) /\ x = q[i + 1]
    BY <1>1, <1>2, <2>1
  <2> QED
    BY <2>2 DEF Elems
<1> QED
  BY <1>1, <1>2, <1>3, <1>4, <1>5

LEMMA AppendElems ==
  ASSUME NEW T, NEW q \in Seq(T), NEW e \in T
  PROVE  Append(q, e) \in Seq(T) /\ Elems(Append(q, e)) = Elems(q) \cup {e}
<1>1. /\ Append(q, e) \in Seq(T) /\ Len(q) \in Nat /\ Len(Append(q, e)) = Len(q) + 1
      /\ \A i \in 1..Len(q) : Append(q, e)[i] = q[i]
      /\ Append(q, e)[Len(q) + 1] = e
  OBVIOUS
<1>2. \A i \in 1..(Len(q) + 1) : i \in 1..Len(q) \/ i = Len(q) + 1
  BY <1>1
<1>3. \A i \in 1..Len(q) : i \in 1..(Len(q) + 1)
  BY <1>1
<1>4. Len(q) + 1 \in 1..(Len(q) + 1)
  BY <1>1
<1> QED
  BY <1>1, <1>2, <1>3, <1>4 DEF Elems

LEMMA EmptyElems == Elems(<<>>) = {}
  BY DEF Elems

LEMMA SingletonElems ==
  ASSUME NEW T, NEW e \in T
  PROVE  <<e>> \in Seq(T) /\ Elems(<<e>>) = {e}
<1>1. <<e>> \in Seq(T) /\ Len(<<e>>) = 1 /\ <<e>>[1] = e
  OBVIOUS
<1>2. 1..1 = {1}
  OBVIOUS
<1> QED
  BY <1>1, <1>2 DEF Elems

LEMMA CalleesElems ==
  ASSUME TypeOK, NEW g \in Graphs
  PROVE  CalledGraphs(g) = Elems(calls[g]) \cap Graphs /\ calls[g] \in Seq(Graphs \cup Builtins)
  BY UnusedFnAssumption DEF CalledGraphs, Elems, TypeOK

LEMMA InitIInv == ProgramInit => IInv
<1> SUFFICES ASSUME ProgramInit PROVE IInv
  OBVIOUS
<1>1. TypeOK
  BY DEF ProgramInit, TypeOK
<1>2. Reached = {}
  BY EmptyElems DEF ProgramInit, Reached
<1> QED
  BY <1>1, <1>2 DEF ProgramInit, IInv, Phases, Frontier, Needed

LEMMA StepIInv == IInv /\ [ProgramNext]_programVars => IInv'
<1> SUFFICES ASSUME IInv, [ProgramNext]_programVars PROVE IInv'
  OBVIOUS
<1> USE DEF IInv
<1>0. /\ calls' = calls
      /\ \A g \in Graphs : CalledGraphs(g)' = CalledGraphs(g)
      /\ \A S \in SUBSET Graphs : Closed(S)' <=> Closed(S)
  <2>1. calls' = calls
    BY DEF ProgramNext, programVars, initWorkList, visitAgain, visitMethod, enqueueCallee, record, after, Done
  <2> QED
    BY <2>1 DEF CalledGraphs, Closed
<1>1. CASE initWorkList
  <2>1. graphQueue' \in Seq(Graphs) /\ Elems(graphQueue') = {Main} \cap Graphs
    <3>1. CASE Main \in Graphs
      <4>1. allGraphs = Graphs
        BY <1>1 DEF initWorkList, Phases
      <4>2. graphQueue' = <<Main>>
        BY <1>1, <3>1, <4>1 DEF initWorkList, HasGraph
      <4> QED
        BY <3>1, <4>2, SingletonElems
    <3>2. CASE Main \notin Graphs
      BY <1>1, <3>2, EmptyElems DEF initWorkList, HasGraph, Phases
    <3> QED
      BY <3>1, <3>2
  <2>2. Reached' = Reached \cup ({Main} \cap Graphs)
    BY <1>1, <2>1, EmptyElems DEF initWorkList, Phases, Reached
  <2> QED
    BY <1>0, <1>1, <2>1, <2>2 DEF initWorkList, TypeOK, Phases, Frontier, Needed
<1>2. CASE visitAgain
  <2>1. graphQueue' \in Seq(Graphs) /\ Elems(graphQueue) = {Head(graphQueue)} \cup Elems(graphQueue')
    BY <1>2, HeadTailElems DEF visitAgain, TypeOK
  <2>2. Reached' = Reached
    BY <1>2, <2>1 DEF visitAgain, Reached
  <2> QED
    BY <1>0, <1>2, <2>1, <2>2 DEF visitAgain, TypeOK, Phases, Frontier, Needed
<1>3. CASE visitMethod
  <2>1. /\ graphQueue' \in Seq(Graphs) /\ Elems(graphQueue) = {visiting'} \cup Elems(graphQueue')
        /\ visiting' \in Graphs
    BY <1>3, HeadTailElems DEF visitMethod, TypeOK
  <2>2. Reached' = Reached
    BY <1>3, <2>1 DEF visitMethod, Reached
  <2>3. todo' \in Seq(Graphs \cup Builtins) /\ Elems(todo') \cap Graphs = CalledGraphs(visiting')
    BY <1>3, <2>1, CalleesElems DEF visitMethod
  <2>4. TypeOK' /\ Phases'
    BY <1>3, <2>1, <2>3 DEF visitMethod, TypeOK, Phases
  <2>5. Frontier'
    BY <1>0, <1>3, <2>1, <2>2, <2>3 DEF visitMethod, TypeOK, Frontier, CalledGraphs
  <2>6. ASSUME NEW S \in SUBSET Graphs, Main \in S, Closed(S)
        PROVE  Reached' \subseteq S /\ Elems(todo') \cap Graphs \subseteq S
    <3>1. visiting' \in S
      BY <2>1, <2>6 DEF Needed, Reached
    <3> QED
      BY <2>2, <2>3, <2>6, <3>1 DEF Needed, Closed
  <2> QED
    BY <1>0, <2>4, <2>5, <2>6 DEF Needed
<1>4. CASE enqueueCallee
  <2>1. /\ todo' \in Seq(Graphs \cup Builtins) /\ Head(todo) \in Graphs \cup Builtins
        /\ Elems(todo) = {Head(todo)} \cup Elems(todo')
    BY <1>4, HeadTailElems DEF enqueueCallee, TypeOK
  <2>2. /\ graphQueue' \in Seq(Graphs)
        /\ Elems(graphQueue') = Elems(graphQueue) \cup ({Head(todo)} \cap Graphs)
    <3>1. CASE Head(todo) \in Graphs
      BY <1>4, <3>1, AppendElems DEF enqueueCallee, HasGraph, Phases, TypeOK
    <3>2. CASE Head(todo) \notin Graphs
      BY <1>4, <3>2 DEF enqueueCallee, HasGraph, Phases, TypeOK
    <3> QED
      BY <3>1, <3>2
  <2>3. Reached' = Reached \cup ({Head(todo)} \cap Graphs)
    BY <1>4, <2>2 DEF enqueueCallee, Reached
  <2>4. TypeOK' /\ Phases'
    BY <1>4, <2>1, <2>2 DEF enqueueCallee, TypeOK, Phases
  <2>5. Frontier'
    BY <1>0, <1>4, <2>1, <2>3 DEF enqueueCallee, TypeOK, Phases, Frontier, CalledGraphs
  <2>6. Needed'
    BY <1>0, <1>4, <2>1, <2>3 DEF enqueueCallee, Needed
  <2> QED
    BY <2>4, <2>5, <2>6
<1>5. CASE record
  <2>1. Elems(todo) = {}
    BY <1>5, EmptyElems DEF record
  <2>2. Reached' = Reached
    BY <1>5 DEF record, Reached
  <2>3. TypeOK' /\ Phases'
    BY <1>5 DEF record, TypeOK, Phases
  <2>4. Frontier'
    BY <1>0, <1>5, <2>1, <2>2 DEF record, TypeOK, Phases, Frontier
  <2> QED
    BY <1>0, <1>5, <2>2, <2>3, <2>4 DEF record, Needed
<1>6. CASE after
  <2>1. allGraphs' = referenced
    BY <1>6 DEF after, TypeOK, Phases
  <2>2. Reached' = Reached
    BY <1>6 DEF after, Reached
  <2> QED
    BY <1>0, <1>6, <2>1, <2>2 DEF after, TypeOK, Phases, Frontier, Needed
<1>7. CASE UNCHANGED programVars
  BY <1>0, <1>7 DEF programVars, TypeOK, Phases, Frontier, Needed, Reached
<1> QED
  BY <1>1, <1>2, <1>3, <1>4, <1>5, <1>6, <1>7 DEF ProgramNext, Done

LEMMA SpecIInv == ProgramSpec => []IInv
  BY InitIInv, StepIInv, PTL DEF ProgramSpec

(* Every state of the pass is well typed: graphs alone are enqueued,        *)
(* builtins never (the null check of unused_fn_remove_pass.hpp:61).         *)
THEOREM TypeCorrect == ProgramSpec => []TypeOK
  BY SpecIInv, PTL DEF IInv

(* In every program, a function that the pass keeps calls only functions    *)
(* that the pass keeps.                                                     *)
THEOREM KeptClosed == ProgramSpec => []KeptIsClosed
<1>1. IInv => KeptIsClosed
  <2> SUFFICES ASSUME IInv, pc = "done"
               PROVE  Closed(allGraphs) /\ (Main \in Graphs => Main \in allGraphs)
    BY DEF KeptIsClosed
  <2>1. Reached = allGraphs /\ allGraphs = referenced
    BY EmptyElems DEF IInv, Phases, Reached
  <2> QED
    BY <2>1 DEF IInv, Frontier, Closed
<1> QED
  BY SpecIInv, <1>1, PTL

(* In every program, the pass keeps no function that calls cannot reach     *)
(* from main: the set it keeps is the least closed one.                     *)
THEOREM KeptLeast == ProgramSpec => []KeptIsLeast
<1>1. IInv => KeptIsLeast
  BY DEF IInv, Phases, Needed, Reached, KeptIsLeast
<1> QED
  BY SpecIInv, <1>1, PTL
-----------------------------------------------------------------------------
(*              The walk over the nodes of a method                        *)

Frames == [node : Nodes, next : Nat \ {0}]
Inited == {order[i] : i \in 1..Len(order)}
OnStack == {stack[k].node : k \in 1..Len(stack)}

WalkTypeOK ==
  /\ graph \in Methods
  /\ stack \in Seq(Frames) /\ order \in Seq(Nodes)

(* A node is marked when it was initialised, or when it is a loop breaker   *)
(* whose call is active; that call is its only one.                        *)
MarksExact == visited = Inited \cup {n \in OnStack : IsLoopBreaker(n)}
BreakersOnce ==
  \A k \in 1..Len(stack) : IsLoopBreaker(stack[k].node) =>
    /\ stack[k].node \notin Inited
    /\ \A j \in 1..Len(stack) : stack[j].node = stack[k].node => j = k

(* The callees that an active call has passed are marked, except the one    *)
(* whose call is active above it.                                          *)
Passed(k) == \A i \in 1..Len(Callees(stack[k].node)) : i < stack[k].next =>
  LET c == Callees(stack[k].node)[i]
  IN c \in visited \/ (k < Len(stack) /\ stack[k + 1].node = c)
CallsPassed == \A k \in 1..Len(stack) : Passed(k)

(* The first call is the one for End.                                       *)
EndReached == IF stack = <<>> THEN EndNode \in visited ELSE stack[1].node = EndNode

CalleesMarked == \A n \in Inited : \A i \in 1..Len(Callees(n)) : Callees(n)[i] \in visited
InitedOnce == \A i, j \in 1..Len(order) : order[i] = order[j] => i = j
CalleesEarlier == \A i \in 1..Len(order) : \A m \in 1..Len(Callees(order[i])) :
  LET c == Callees(order[i])[m]
  IN ~IsLoopBreaker(c) => \E j \in 1..(i - 1) : order[j] = c

WalkInv == /\ WalkTypeOK /\ MarksExact /\ BreakersOnce /\ CallsPassed /\ EndReached
           /\ CalleesMarked /\ InitedOnce /\ CalleesEarlier
PropInv == /\ phase \in {"walk", "work", "run"}
           /\ phase \in {"walk", "work"} => WalkInv
           /\ phase = "work" => stack = <<>>
-----------------------------------------------------------------------------
(*                        Types and positions                              *)

LEMMA CalleesTyped ==
  ASSUME WalkTypeOK, NEW n \in Nodes
  PROVE  Callees(n) \in Seq(Nodes) /\ Len(Callees(n)) \in Nat
<1>1. graph[n].ins \in Seq(Nodes) /\ graph[n].block \in Nodes
  BY MethodsAssumption DEF WalkTypeOK, Nodes
<1>2. <<graph[n].block>> \in Seq(Nodes)
  BY <1>1
<1>3. <<graph[n].block>> \o graph[n].ins \in Seq(Nodes)
  BY <1>1, <1>2
<1>4. Callees(n) \in Seq(Nodes)
  BY <1>1, <1>3 DEF Callees
<1> QED
  BY <1>4

LEMMA WalkFacts ==
  ASSUME WalkTypeOK
  PROVE  /\ Len(stack) \in Nat /\ Len(order) \in Nat
         /\ \A k \in 1..Len(stack) : stack[k] \in Frames /\ stack[k].node \in Nodes
                                      /\ stack[k].next \in Nat /\ stack[k].next >= 1
         /\ \A i \in 1..Len(order) : order[i] \in Nodes
         /\ stack # <<>> <=> Len(stack) >= 1
<1>1. \A f \in Frames : f.node \in Nodes /\ f.next \in Nat /\ f.next >= 1
  BY DEF Frames
<1>2. \A k \in 1..Len(stack) : stack[k] \in Frames
  BY DEF WalkTypeOK
<1>3. Len(stack) \in Nat /\ Len(order) \in Nat /\ \A i \in 1..Len(order) : order[i] \in Nodes
  BY DEF WalkTypeOK
<1>4. stack # <<>> <=> Len(stack) >= 1
  BY <1>3, EmptySeq DEF WalkTypeOK
<1> QED
  BY <1>1, <1>2, <1>3, <1>4

(* What a step does to the stack: it advances the top frame, and may push a *)
(* frame on it, or it takes the top frame off.                              *)
LEMMA NonEmpty ==
  ASSUME NEW T, NEW q \in Seq(T), q # <<>>
  PROVE  Len(q) \in Nat /\ Len(q) >= 1 /\ Len(q) \in 1..Len(q) /\ \A k \in 1..Len(q) : q[k] \in T
<1>1. Len(q) \in Nat /\ Len(q) >= 1
  OBVIOUS
<1>2. \A k \in 1..Len(q) : q[k] \in T
  OBVIOUS
<1> QED
  BY <1>1, <1>2

LEMMA LastReplaced ==
  ASSUME NEW T, NEW q \in Seq(T), q # <<>>, NEW f \in T, NEW r, r = [q EXCEPT ![Len(q)] = f]
  PROVE  /\ r \in Seq(T) /\ Len(r) = Len(q) /\ r[Len(q)] = f
         /\ \A k \in 1..(Len(q) - 1) : r[k] = q[k]
<1>1. PICK L \in Nat : L = Len(q) /\ L \in 1..L
  BY NonEmpty
<1>2. r \in Seq(T) /\ Len(r) = L /\ \A j \in 1..L : r[j] = IF j = L THEN f ELSE q[j]
  BY <1>1, ExceptSeq
<1>3. \A k \in 1..(L - 1) : k \in 1..L /\ k # L
  OBVIOUS
<1>4. r[L] = f /\ \A k \in 1..(L - 1) : r[k] = q[k]
  BY <1>1, <1>2, <1>3
<1> QED
  BY <1>1, <1>2, <1>4

FramesOf(S) == [node : S, next : Nat \ {0}]

LEMMA Advanced ==
  ASSUME NEW S, NEW T, T = FramesOf(S), NEW q \in Seq(T), q # <<>>
  PROVE  LET r == [q EXCEPT ![Len(q)].next = @ + 1]
         IN /\ r \in Seq(T) /\ Len(r) = Len(q)
            /\ \A k \in 1..Len(q) : r[k].node = q[k].node
            /\ \A k \in 1..(Len(q) - 1) : r[k] = q[k]
            /\ r[Len(q)].next = q[Len(q)].next + 1
<1>1. Len(q) \in Nat /\ Len(q) >= 1
  BY NonEmpty
<1>2. q[Len(q)] \in T
  BY NonEmpty
<1>3. PICK f : f = [q[Len(q)] EXCEPT !.next = @ + 1]
  OBVIOUS
<1>4. f \in T /\ f.node = q[Len(q)].node /\ f.next = q[Len(q)].next + 1
  BY <1>2, <1>3 DEF FramesOf
<1>5. [q EXCEPT ![Len(q)].next = @ + 1] = [q EXCEPT ![Len(q)] = f]
  BY <1>3
<1>6. PICK r : r = [q EXCEPT ![Len(q)] = f]
  OBVIOUS
<1>7. /\ r \in Seq(T) /\ Len(r) = Len(q) /\ r[Len(q)] = f
      /\ \A k \in 1..(Len(q) - 1) : r[k] = q[k]
  BY <1>4, <1>6, LastReplaced
<1>8. \A k \in 1..Len(q) : r[k].node = q[k].node
  <2> SUFFICES ASSUME NEW k \in 1..Len(q) PROVE r[k].node = q[k].node
    OBVIOUS
  <2>1. k = Len(q) \/ k \in 1..(Len(q) - 1)
    BY <1>1
  <2> QED
    BY <1>4, <1>7, <2>1
<1> QED
  BY <1>4, <1>5, <1>6, <1>7, <1>8

LEMMA Pushed ==
  ASSUME NEW T, NEW q \in Seq(T), NEW f \in T
  PROVE  /\ Append(q, f) \in Seq(T) /\ Len(Append(q, f)) = Len(q) + 1 /\ Len(q) \in Nat
         /\ \A k \in 1..Len(q) : Append(q, f)[k] = q[k]
         /\ Append(q, f)[Len(q) + 1] = f
  OBVIOUS

LEMMA Popped ==
  ASSUME NEW T, NEW q \in Seq(T), q # <<>>
  PROVE  /\ Front(q) \in Seq(T) /\ Len(Front(q)) = Len(q) - 1
         /\ \A k \in 1..(Len(q) - 1) : Front(q)[k] = q[k]
<1>1. PICK L \in Nat : L = Len(q) /\ L >= 1
  BY NonEmpty
<1>2. \A k \in 1..(L - 1) : q[k] \in T
  BY <1>1
<1>3. /\ SubSeq(q, 1, L - 1) \in Seq(T)
      /\ Len(SubSeq(q, 1, L - 1)) = IF 1 <= L - 1 THEN L - 1 - 1 + 1 ELSE 0
      /\ \A k \in 1..(L - 1 - 1 + 1) : SubSeq(q, 1, L - 1)[k] = q[1 + k - 1]
  BY <1>2, SubSeqProperties
<1>4. L - 1 - 1 + 1 = L - 1 /\ \A k \in 1..(L - 1) : 1 + k - 1 = k
  BY <1>1
<1>5. Front(q) = SubSeq(q, 1, L - 1)
  BY <1>1 DEF Front
<1> QED
  BY <1>1, <1>3, <1>4, <1>5
-----------------------------------------------------------------------------
(*                              The walk                                   *)

(* The stack becomes r, whose first L frames are those of q, except that    *)
(* the last of these has passed one callee more.                           *)
OnePassed(q, r, L) ==
  /\ \A k \in 1..L : r[k].node = q[k].node
  /\ \A k \in 1..(L - 1) : r[k] = q[k]
  /\ r[L].next = q[L].next + 1

LEMMA DescendEffect ==
  ASSUME WalkTypeOK, Descend, NEW L \in Nat, L = Len(stack)
  PROVE  /\ L >= 1 /\ UNCHANGED <<graph, order>> /\ WalkTypeOK'
         /\ OnePassed(stack, stack', L)
         /\ stack[L].next <= Len(Callees(stack[L].node))
         /\ LET c == Callees(stack[L].node)[stack[L].next]
            IN \/ c \in visited /\ visited' = visited /\ Len(stack') = L
               \/ /\ c \notin visited
                  /\ visited' = IF IsLoopBreaker(c) THEN visited \cup {c} ELSE visited
                  /\ Len(stack') = L + 1 /\ stack'[L + 1].node = c /\ stack'[L + 1].next = 1
<1>1. stack \in Seq(Frames) /\ stack # <<>> /\ L >= 1 /\ L \in 1..L
  BY NonEmpty DEF WalkTypeOK, Descend
<1>2. PICK c : c = Callees(stack[L].node)[stack[L].next]
  OBVIOUS
<1>3. PICK a : a = [stack EXCEPT ![L].next = @ + 1]
  OBVIOUS
<1>4. /\ stack[L].next <= Len(Callees(stack[L].node)) /\ UNCHANGED <<graph, order>>
      /\ IF c \in visited THEN stack' = a /\ visited' = visited
         ELSE /\ stack' = Append(a, Frame(c))
              /\ visited' = IF IsLoopBreaker(c) THEN visited \cup {c} ELSE visited
  BY <1>2, <1>3 DEF Descend, Top
<1>5. a \in Seq(Frames) /\ Len(a) = L /\ OnePassed(stack, a, L)
  <2>1. PICK q, T, S : q = stack /\ T = Frames /\ S = Nodes /\ T = FramesOf(S)
    BY DEF Frames, FramesOf
  <2>2. q \in Seq(T) /\ q # <<>> /\ a = [q EXCEPT ![Len(q)].next = @ + 1]
    BY <1>1, <1>3, <2>1
  <2>3. /\ a \in Seq(T) /\ Len(a) = Len(q)
        /\ \A k \in 1..Len(q) : a[k].node = q[k].node
        /\ \A k \in 1..(Len(q) - 1) : a[k] = q[k]
        /\ a[Len(q)].next = q[Len(q)].next + 1
    BY <2>1, <2>2, Advanced
  <2> QED
    BY <2>1, <2>3 DEF OnePassed
<1>6. c \in Nodes
  <2>1. stack[L].node \in Nodes /\ stack[L].next \in Nat /\ stack[L].next >= 1
    BY <1>1, WalkFacts
  <2>2. Callees(stack[L].node) \in Seq(Nodes) /\ Len(Callees(stack[L].node)) \in Nat
    BY <2>1, CalleesTyped
  <2>3. stack[L].next \in 1..Len(Callees(stack[L].node))
    BY <1>4, <2>1, <2>2
  <2> QED
    BY <1>2, <2>2, <2>3, ElementOfSeq
<1>7. Frame(c) \in Frames /\ Frame(c).node = c /\ Frame(c).next = 1
  BY <1>6 DEF Frame, Frames
<1>8. Frames' = Frames /\ Nodes' = Nodes
  BY <1>4 DEF Frames, Nodes
<1>9. CASE c \in visited
  <2>1. WalkTypeOK'
    BY <1>4, <1>5, <1>8, <1>9 DEF WalkTypeOK
  <2> QED
    BY <1>1, <1>2, <1>4, <1>5, <1>9, <2>1
<1>10. CASE c \notin visited
  <2>1. PICK b : b = Append(a, Frame(c))
    OBVIOUS
  <2>2. /\ b \in Seq(Frames) /\ Len(b) = L + 1 /\ b[L + 1] = Frame(c)
        /\ \A k \in 1..L : b[k] = a[k]
    BY <1>5, <1>7, <2>1, Pushed
  <2>3. OnePassed(stack, b, L)
    BY <1>1, <1>5, <2>2 DEF OnePassed
  <2>4. WalkTypeOK'
    BY <1>4, <1>8, <1>10, <2>1, <2>2 DEF WalkTypeOK
  <2> QED
    BY <1>1, <1>2, <1>4, <1>7, <1>10, <2>1, <2>2, <2>3, <2>4
<1> QED
  BY <1>9, <1>10

LEMMA FinishEffect ==
  ASSUME WalkTypeOK, NEW e, Finish(e), NEW L \in Nat, L = Len(stack)
  PROVE  /\ L >= 1 /\ UNCHANGED graph /\ WalkTypeOK'
         /\ Len(stack') = L - 1 /\ \A k \in 1..(L - 1) : stack'[k] = stack[k]
         /\ stack[L].next > Len(Callees(stack[L].node))
         /\ visited' = visited \cup {stack[L].node}
         /\ order' = IF IsLoopBreaker(stack[L].node) \/ stack[L].node \notin visited
                     THEN Append(order, stack[L].node) ELSE order
<1>1. stack \in Seq(Frames) /\ stack # <<>> /\ L >= 1 /\ L \in 1..L
  BY NonEmpty DEF WalkTypeOK, Finish
<1>2. stack' = Front(stack) /\ UNCHANGED graph
  BY DEF Finish
<1>3. /\ stack[L].next > Len(Callees(stack[L].node))
      /\ visited' = visited \cup {stack[L].node}
      /\ order' = IF IsLoopBreaker(stack[L].node) \/ stack[L].node \notin visited
                  THEN Append(order, stack[L].node) ELSE order
  BY DEF Finish, Top
<1>4. /\ stack' \in Seq(Frames) /\ Len(stack') = L - 1
      /\ \A k \in 1..(L - 1) : stack'[k] = stack[k]
  BY <1>1, <1>2, Popped
<1>5. order' \in Seq(Nodes)
  <2>1. stack[L].node \in Nodes /\ order \in Seq(Nodes)
    BY <1>1, WalkFacts DEF WalkTypeOK
  <2> QED
    BY <1>3, <2>1, Pushed
<1>6. Frames' = Frames /\ Nodes' = Nodes
  BY <1>2 DEF Frames, Nodes
<1>7. WalkTypeOK'
  BY <1>2, <1>4, <1>5, <1>6 DEF WalkTypeOK
<1> QED
  BY <1>1, <1>2, <1>3, <1>4, <1>7

LEMMA SameGraph ==
  ASSUME UNCHANGED graph
  PROVE  \A n : Callees(n)' = Callees(n) /\ (IsLoopBreaker(n)' <=> IsLoopBreaker(n))
  BY DEF Callees, IsBlock, IsLoopBreaker

(* One more callee is passed; a call for it begins if it is not marked.     *)
LEMMA DescendKeeps ==
  ASSUME WalkInv, Descend
  PROVE  WalkInv'
<1>0. /\ WalkTypeOK /\ MarksExact /\ BreakersOnce /\ CallsPassed /\ EndReached
      /\ CalleesMarked /\ InitedOnce /\ CalleesEarlier
  BY DEF WalkInv
<1>1. PICK L \in Nat : L = Len(stack)
  BY <1>0, WalkFacts
<1>2. PICK c : c = Callees(stack[L].node)[stack[L].next]
  OBVIOUS
<1>3. /\ L >= 1 /\ UNCHANGED <<graph, order>> /\ WalkTypeOK'
      /\ OnePassed(stack, stack', L)
      /\ stack[L].next <= Len(Callees(stack[L].node))
      /\ \/ c \in visited /\ visited' = visited /\ Len(stack') = L
         \/ /\ c \notin visited
            /\ visited' = IF IsLoopBreaker(c) THEN visited \cup {c} ELSE visited
            /\ Len(stack') = L + 1 /\ stack'[L + 1].node = c /\ stack'[L + 1].next = 1
  BY <1>0, <1>1, <1>2, DescendEffect
<1>4. /\ \A n : Callees(n)' = Callees(n) /\ (IsLoopBreaker(n)' <=> IsLoopBreaker(n))
      /\ Inited' = Inited /\ visited \subseteq visited'
  BY <1>3, SameGraph DEF Inited
<1>5. /\ \A k \in 1..L : stack'[k].node = stack[k].node
      /\ \A k \in 1..(L - 1) : stack'[k] = stack[k]
      /\ stack'[L].next = stack[L].next + 1
  BY <1>3 DEF OnePassed
<1>6. CalleesMarked' /\ InitedOnce' /\ CalleesEarlier'
  <2>1. CalleesMarked'
    BY <1>0, <1>4 DEF CalleesMarked
  <2>2. InitedOnce' /\ CalleesEarlier'
    BY <1>0, <1>3, <1>4 DEF InitedOnce, CalleesEarlier
  <2> QED
    BY <2>1, <2>2
<1>7. EndReached'
  <2>1. stack # <<>> /\ stack[1].node = EndNode
    BY <1>0, <1>1, <1>3, WalkFacts DEF EndReached
  <2>2. stack'[1].node = EndNode /\ Len(stack') >= 1
    BY <1>3, <1>5, <2>1
  <2>3. stack' # <<>>
    BY <2>2
  <2> QED
    BY <2>2, <2>3 DEF EndReached
<1>8. ASSUME NEW k \in 1..L PROVE Passed(k)'
  <2>1. SUFFICES ASSUME NEW i \in 1..Len(Callees(stack[k].node)), i < stack'[k].next
                 PROVE LET d == Callees(stack[k].node)[i]
                       IN d \in visited' \/ (k < Len(stack') /\ stack'[k + 1].node = d)
    BY <1>4, <1>5 DEF Passed
  <2>2. Passed(k)
    BY <1>0, <1>1 DEF CallsPassed
  <2>3. CASE k < L
    <3>1. k \in 1..(L - 1) /\ k + 1 \in 1..L /\ k < Len(stack')
      BY <1>3, <2>3
    <3>2. i < stack[k].next /\ stack'[k + 1].node = stack[k + 1].node
      BY <1>5, <2>1, <3>1
    <3> QED
      BY <1>1, <1>4, <2>1, <2>2, <3>1, <3>2 DEF Passed
  <2>4. CASE k = L /\ i < stack[L].next
    BY <1>1, <1>4, <2>1, <2>2, <2>4 DEF Passed
  <2>5. CASE k = L /\ i = stack[L].next
    <3>1. Callees(stack[k].node)[i] = c
      BY <1>2, <2>5
    <3>2. c \in visited' \/ (L < Len(stack') /\ stack'[L + 1].node = c)
      BY <1>3
    <3> QED
      BY <2>5, <3>1, <3>2
  <2>6. stack[L].next \in Nat
    BY <1>0, <1>1, <1>3, WalkFacts
  <2> QED
    BY <1>5, <2>1, <2>3, <2>4, <2>5, <2>6
<1>9. CASE c \in visited
  <2>1. Len(stack') = L /\ visited' = visited
    BY <1>3, <1>9
  <2>2. CallsPassed'
    BY <1>8, <2>1 DEF CallsPassed
  <2>3. OnStack' = OnStack
    BY <1>1, <1>5, <2>1 DEF OnStack
  <2>4. MarksExact'
    BY <1>0, <1>4, <2>1, <2>3 DEF MarksExact
  <2>5. BreakersOnce'
    BY <1>0, <1>1, <1>4, <1>5, <2>1 DEF BreakersOnce
  <2> QED
    BY <1>3, <1>6, <1>7, <2>2, <2>4, <2>5 DEF WalkInv
<1>10. CASE c \notin visited
  <2>1. /\ visited' = IF IsLoopBreaker(c) THEN visited \cup {c} ELSE visited
        /\ Len(stack') = L + 1 /\ stack'[L + 1].node = c /\ stack'[L + 1].next = 1
    BY <1>3, <1>10
  <2>2. CallsPassed'
    <3>1. Passed(L + 1)'
      BY <2>1 DEF Passed
    <3>2. \A k \in 1..(L + 1) : k \in 1..L \/ k = L + 1
      OBVIOUS
    <3> QED
      BY <1>8, <2>1, <3>1, <3>2 DEF CallsPassed
  <2>3. OnStack' = OnStack \cup {c}
    <3>1. OnStack' = {stack'[k].node : k \in 1..(L + 1)}
      BY <2>1 DEF OnStack
    <3>2. \A k \in 1..(L + 1) : k \in 1..L \/ k = L + 1
      OBVIOUS
    <3>3. L + 1 \in 1..(L + 1) /\ \A k \in 1..L : k \in 1..(L + 1)
      OBVIOUS
    <3> QED
      BY <1>1, <1>5, <2>1, <3>1, <3>2, <3>3 DEF OnStack
  <2>4. MarksExact'
    BY <1>0, <1>4, <2>1, <2>3 DEF MarksExact
  <2>5. ASSUME NEW j \in 1..L, IsLoopBreaker(stack[j].node) PROVE stack[j].node # c
    BY <1>0, <1>1, <1>10, <2>5 DEF MarksExact, OnStack
  <2>6. c \notin Inited
    BY <1>0, <1>10 DEF MarksExact
  <2>7. BreakersOnce'
    <3>1. SUFFICES ASSUME NEW k \in 1..(L + 1), IsLoopBreaker(stack'[k].node)
                   PROVE /\ stack'[k].node \notin Inited
                         /\ \A j \in 1..(L + 1) : stack'[j].node = stack'[k].node => j = k
      BY <1>4, <2>1 DEF BreakersOnce
    <3>2. CASE k \in 1..L
      <4>1. /\ stack[k].node \notin Inited
            /\ \A j \in 1..L : stack[j].node = stack[k].node => j = k
        BY <1>0, <1>1, <1>5, <3>1, <3>2 DEF BreakersOnce
      <4>2. stack[k].node # c
        BY <1>5, <2>5, <3>1, <3>2
      <4>3. \A j \in 1..(L + 1) : j \in 1..L \/ j = L + 1
        OBVIOUS
      <4> QED
        BY <1>5, <2>1, <3>2, <4>1, <4>2, <4>3
    <3>3. CASE k = L + 1
      <4>1. \A j \in 1..(L + 1) : j \in 1..L \/ j = L + 1
        OBVIOUS
      <4>2. \A j \in 1..L : stack'[j].node # c
        BY <1>5, <2>1, <2>5, <3>1, <3>3
      <4> QED
        BY <2>1, <2>6, <3>3, <4>1, <4>2
    <3> QED
      BY <3>2, <3>3
  <2> QED
    BY <1>3, <1>6, <1>7, <2>2, <2>4, <2>7 DEF WalkInv
<1> QED
  BY <1>9, <1>10

(* A call ends when all callees are passed, hence marked: those that are no *)
(* loop breakers were initialised.                                         *)
LEMMA FinishKeeps ==
  ASSUME WalkInv, NEW e, Finish(e)
  PROVE  WalkInv'
<1>0. /\ WalkTypeOK /\ MarksExact /\ BreakersOnce /\ CallsPassed /\ EndReached
      /\ CalleesMarked /\ InitedOnce /\ CalleesEarlier
  BY DEF WalkInv
<1>1. PICK L \in Nat, O \in Nat, n \in {stack[Len(stack)].node} :
        L = Len(stack) /\ O = Len(order) /\ n = stack[L].node
  BY <1>0, WalkFacts
<1>2. /\ L >= 1 /\ UNCHANGED graph /\ WalkTypeOK'
      /\ Len(stack') = L - 1 /\ \A k \in 1..(L - 1) : stack'[k] = stack[k]
      /\ stack[L].next > Len(Callees(n))
      /\ visited' = visited \cup {n}
      /\ order' = IF IsLoopBreaker(n) \/ n \notin visited THEN Append(order, n) ELSE order
  BY <1>0, <1>1, FinishEffect
<1>3. \A m : Callees(m)' = Callees(m) /\ (IsLoopBreaker(m)' <=> IsLoopBreaker(m))
  BY <1>2, SameGraph
<1>4. n \in Nodes /\ Len(Callees(n)) \in Nat /\ stack[L].next \in Nat
  BY <1>0, <1>1, <1>2, WalkFacts, CalleesTyped
<1>5. \A i \in 1..Len(Callees(n)) : Callees(n)[i] \in visited
  <2>1. Passed(L)
    BY <1>0, <1>1, <1>2 DEF CallsPassed
  <2>2. \A i \in 1..Len(Callees(n)) : i < stack[L].next
    BY <1>2, <1>4
  <2> QED
    BY <1>1, <2>1, <2>2 DEF Passed
<1>6. CallsPassed'
  <2>1. SUFFICES ASSUME NEW k \in 1..(L - 1), NEW i \in 1..Len(Callees(stack[k].node)), i < stack[k].next
                 PROVE LET d == Callees(stack[k].node)[i]
                       IN d \in visited' \/ (k < L - 1 /\ stack'[k + 1].node = d)
    BY <1>2, <1>3 DEF CallsPassed, Passed
  <2>2. PICK d : d = Callees(stack[k].node)[i]
    OBVIOUS
  <2>3. d \in visited \/ stack[k + 1].node = d
    BY <1>0, <1>1, <2>1, <2>2 DEF CallsPassed, Passed
  <2>4. CASE k = L - 1
    BY <1>1, <1>2, <2>2, <2>3, <2>4
  <2>5. CASE k < L - 1
    <3>1. stack'[k + 1] = stack[k + 1]
      BY <1>2, <2>5
    <3> QED
      BY <1>2, <2>2, <2>3, <2>5, <3>1
  <2> QED
    BY <2>4, <2>5
<1>7. EndReached'
  <2>1. stack[1].node = EndNode
    BY <1>0, <1>1, <1>2, WalkFacts DEF EndReached
  <2>2. CASE L = 1
    <3>1. EndNode \in visited'
      BY <1>1, <1>2, <2>1, <2>2
    <3>2. stack' = <<>>
      <4>1. (WalkTypeOK => (stack # <<>> <=> Len(stack) >= 1))'
        BY WalkFacts, PTL
      <4> QED
        BY <1>2, <2>2, <4>1
    <3> QED
      BY <3>1, <3>2 DEF EndReached
  <2>3. CASE L > 1
    <3>1. stack'[1].node = EndNode /\ Len(stack') >= 1
      BY <1>2, <2>1, <2>3
    <3>2. stack' # <<>>
      BY <3>1
    <3> QED
      BY <3>1, <3>2 DEF EndReached
  <2> QED
    BY <1>2, <2>2, <2>3
<1>8. /\ \A k \in 1..(L - 1) : stack[k].node \in OnStack /\ stack[k].node \in OnStack'
      /\ \A m \in OnStack : m = n \/ m \in OnStack'
      /\ \A m \in OnStack' : m \in OnStack
      /\ n \in OnStack
  <2>1. \A k \in 1..L : k \in 1..(L - 1) \/ k = L
    OBVIOUS
  <2>2. L \in 1..L /\ \A k \in 1..(L - 1) : k \in 1..L
    BY <1>2
  <2>3. OnStack' = {stack[k].node : k \in 1..(L - 1)}
    BY <1>2 DEF OnStack
  <2> QED
    BY <1>1, <2>1, <2>2, <2>3 DEF OnStack
<1>9. ASSUME NEW k \in 1..(L - 1), IsLoopBreaker(stack[k].node) PROVE stack[k].node # n
  <2>1. L \in 1..L /\ k \in 1..L /\ k # L
    BY <1>2
  <2> QED
    BY <1>0, <1>1, <1>9, <2>1 DEF BreakersOnce
<1>10. n \in OnStack' => ~IsLoopBreaker(n)
  <2>1. OnStack' = {stack[k].node : k \in 1..(L - 1)}
    BY <1>2 DEF OnStack
  <2> QED
    BY <1>9, <2>1
<1>11. BreakersOnce' \/ ~(Inited' \subseteq Inited \cup {n})
  <2>1. SUFFICES ASSUME Inited' \subseteq Inited \cup {n},
                        NEW k \in 1..(L - 1), IsLoopBreaker(stack[k].node)
                 PROVE /\ stack[k].node \notin Inited'
                       /\ \A j \in 1..(L - 1) : stack[j].node = stack[k].node => j = k
    BY <1>2, <1>3 DEF BreakersOnce
  <2>2. \A j \in 1..(L - 1) : j \in 1..L
    BY <1>2
  <2> QED
    BY <1>0, <1>1, <1>9, <2>1, <2>2 DEF BreakersOnce
<1>12. CASE IsLoopBreaker(n) \/ n \notin visited
  <2>1. /\ Len(order') = O + 1 /\ order'[O + 1] = n
        /\ \A i \in 1..O : order'[i] = order[i]
    BY <1>0, <1>1, <1>2, <1>4, <1>12, Pushed DEF WalkTypeOK
  <2>2. \A i \in 1..(O + 1) : i \in 1..O \/ i = O + 1
    OBVIOUS
  <2>3. O + 1 \in 1..(O + 1) /\ \A i \in 1..O : i \in 1..(O + 1)
    OBVIOUS
  <2>4. Inited' = Inited \cup {n}
    BY <1>1, <2>1, <2>2, <2>3 DEF Inited
  <2>5. n \notin Inited
    <3>1. CASE IsLoopBreaker(n)
      <4>1. L \in 1..L
        BY <1>2
      <4> QED
        BY <1>0, <1>1, <3>1, <4>1 DEF BreakersOnce
    <3>2. CASE n \notin visited
      BY <1>0, <3>2 DEF MarksExact
    <3> QED
      BY <1>12, <3>1, <3>2
  <2>6. MarksExact'
    BY <1>0, <1>2, <1>3, <1>8, <2>4 DEF MarksExact
  <2>7. CalleesMarked'
    BY <1>0, <1>2, <1>3, <1>5, <2>4 DEF CalleesMarked
  <2>8. InitedOnce'
    <3>1. \A i \in 1..O : order[i] # n
      BY <1>1, <2>5 DEF Inited
    <3> QED
      BY <1>0, <1>1, <2>1, <2>2, <3>1 DEF InitedOnce
  <2>9. CalleesEarlier'
    <3>1. SUFFICES ASSUME NEW i \in 1..(O + 1), NEW m \in 1..Len(Callees(order'[i])),
                          NEW c, c = Callees(order'[i])[m], ~IsLoopBreaker(c)
                   PROVE  \E j \in 1..(i - 1) : order'[j] = c
      BY <1>3, <2>1 DEF CalleesEarlier
    <3>2. CASE i \in 1..O
      <4>1. \E j \in 1..(i - 1) : order[j] = c
        BY <1>0, <1>1, <2>1, <3>1, <3>2 DEF CalleesEarlier
      <4>2. \A j \in 1..(i - 1) : j \in 1..O
        BY <3>2
      <4> QED
        BY <2>1, <4>1, <4>2
    <3>3. CASE i = O + 1
      <4>1. c \in visited
        BY <1>5, <2>1, <3>1, <3>3
      <4>2. c \in Inited
        BY <1>0, <3>1, <4>1 DEF MarksExact
      <4>3. PICK j \in 1..O : order[j] = c
        BY <1>1, <4>2 DEF Inited
      <4>4. j \in 1..(i - 1)
        BY <3>3
      <4> QED
        BY <2>1, <4>3, <4>4
    <3> QED
      BY <2>2, <3>2, <3>3
  <2> QED
    BY <1>2, <1>6, <1>7, <1>11, <2>4, <2>6, <2>7, <2>8, <2>9 DEF WalkInv
<1>13. CASE ~IsLoopBreaker(n) /\ n \in visited
  <2>1. order' = order /\ visited' = visited /\ Inited' = Inited
    BY <1>2, <1>13 DEF Inited
  <2>2. MarksExact'
    BY <1>0, <1>3, <1>8, <1>13, <2>1 DEF MarksExact
  <2>3. CalleesMarked' /\ InitedOnce' /\ CalleesEarlier'
    BY <1>0, <1>3, <2>1 DEF CalleesMarked, InitedOnce, CalleesEarlier
  <2> QED
    BY <1>2, <1>6, <1>7, <1>11, <2>1, <2>2, <2>3 DEF WalkInv
<1> QED
  BY <1>12, <1>13

LEMMA WalkStarts == PropInit => PropInv
<1> SUFFICES ASSUME PropInit PROVE PropInv
  OBVIOUS
<1>1. /\ graph \in Methods /\ visited = {} /\ stack = <<Frame(EndNode)>> /\ order = <<>>
      /\ phase = "walk"
  BY DEF PropInit, WalkInit
<1>2. EndNode \in Nodes /\ ~IsLoopBreaker(EndNode)
  BY <1>1, MethodsAssumption DEF Nodes, IsLoopBreaker
<1>3. Frame(EndNode) \in Frames /\ Frame(EndNode).node = EndNode /\ Frame(EndNode).next = 1
  BY <1>2 DEF Frame, Frames
<1>4. /\ stack \in Seq(Frames) /\ Len(stack) = 1 /\ stack # <<>> /\ stack[1] = Frame(EndNode)
      /\ order \in Seq(Nodes) /\ Len(order) = 0
  BY <1>1, <1>3
<1>5. \A k \in 1..Len(stack) : k = 1
  BY <1>4
<1>6. Inited = {} /\ OnStack = {EndNode}
  BY <1>3, <1>4, <1>5 DEF Inited, OnStack
<1>7. WalkTypeOK /\ MarksExact /\ BreakersOnce
  BY <1>1, <1>2, <1>3, <1>4, <1>5, <1>6 DEF WalkTypeOK, MarksExact, BreakersOnce
<1>8. CallsPassed /\ EndReached
  BY <1>3, <1>4, <1>5 DEF CallsPassed, Passed, EndReached
<1>9. CalleesMarked /\ InitedOnce /\ CalleesEarlier
  BY <1>4, <1>6 DEF CalleesMarked, InitedOnce, CalleesEarlier
<1> QED
  BY <1>1, <1>7, <1>8, <1>9 DEF PropInv, WalkInv

LEMMA PropKeeps == PropInv /\ [PropNext]_propVars => PropInv'
<1> SUFFICES ASSUME PropInv, [PropNext]_propVars PROVE PropInv'
  OBVIOUS
<1>1. ASSUME UNCHANGED <<graph, visited, stack, order>>, UNCHANGED phase PROVE PropInv'
  <2>1. /\ Nodes' = Nodes /\ Inited' = Inited /\ OnStack' = OnStack
        /\ \A n : Callees(n)' = Callees(n) /\ (IsLoopBreaker(n)' <=> IsLoopBreaker(n))
    BY <1>1, SameGraph DEF Nodes, Inited, OnStack
  <2>2. Frames' = Frames
    BY <2>1 DEF Frames
  <2>3. WalkTypeOK => WalkTypeOK'
    BY <1>1, <2>1, <2>2 DEF WalkTypeOK
  <2>4. MarksExact /\ BreakersOnce => MarksExact' /\ BreakersOnce'
    BY <1>1, <2>1 DEF MarksExact, BreakersOnce
  <2>5. CallsPassed /\ EndReached => CallsPassed' /\ EndReached'
    BY <1>1, <2>1 DEF CallsPassed, Passed, EndReached
  <2>6. CalleesMarked /\ InitedOnce /\ CalleesEarlier => CalleesMarked' /\ InitedOnce' /\ CalleesEarlier'
    BY <1>1, <2>1 DEF CalleesMarked, InitedOnce, CalleesEarlier
  <2>7. WalkInv => WalkInv'
    BY <2>3, <2>4, <2>5, <2>6 DEF WalkInv
  <2> QED
    BY <1>1, <2>7 DEF PropInv
<1>2. CASE WalkDescend
  <2>1. WalkInv' /\ phase' = "walk"
    BY <1>2, DescendKeeps DEF WalkDescend, PropInv
  <2> QED
    BY <2>1 DEF PropInv
<1>3. CASE WalkFinish
  <2>1. WalkInv'
    BY <1>3, FinishKeeps DEF WalkFinish, PropInv
  <2>2. phase' = "walk" \/ (phase' = "work" /\ stack' = <<>>)
    BY <1>3 DEF WalkFinish
  <2> QED
    BY <2>1, <2>2 DEF PropInv
<1>4. CASE Work
  BY <1>1, <1>4 DEF Work
<1>5. CASE SubstituteNodes
  BY <1>5 DEF SubstituteNodes, PropInv
<1>6. CASE phase = "run" /\ phase' = phase
  BY <1>6 DEF PropInv
<1>7. CASE UNCHANGED propVars
  BY <1>1, <1>7 DEF propVars, walkVars
<1> QED
  BY <1>2, <1>3, <1>4, <1>5, <1>6, <1>7 DEF PropNext, Start, Step, Enter, Stopped

(* Whatever the graph: no node is initialised before one of its operands,   *)
(* unless that is a Phi or a Block, none twice, and when the walk ends, all *)
(* that End depends on have been (firm_pass.hpp:49-81).                     *)
THEOREM WalkIsTopological == PropSpec => []OperandsFirst
<1>1. PropInv => OperandsFirst
  <2> SUFFICES ASSUME PropInv, phase \in {"walk", "work"} PROVE OperandsFirst
    BY DEF OperandsFirst
  <2>1. /\ WalkTypeOK /\ MarksExact /\ EndReached /\ CalleesMarked /\ InitedOnce /\ CalleesEarlier
        /\ phase = "work" => stack = <<>>
    BY DEF PropInv, WalkInv
  <2>2. Range(order) = Inited
    BY <2>1 DEF Range, Inited, WalkTypeOK
  <2>3. \A n \in Inited : n \in Nodes /\ Range(Callees(n)) = {Callees(n)[m] : m \in 1..Len(Callees(n))}
    <3>1. \A n \in Inited : n \in Nodes
      BY <2>1, WalkFacts DEF Inited
    <3>2. \A n \in Inited : Callees(n) \in Seq(Nodes)
      BY <2>1, <3>1, CalleesTyped
    <3> QED
      BY <3>1, <3>2 DEF Range
  <2>4. \A i \in 1..Len(order) : \A c \in Range(Callees(order[i])) :
          ~IsLoopBreaker(c) => \E j \in 1..(i - 1) : order[j] = c
    <3>1. \A i \in 1..Len(order) : order[i] \in Inited
      BY DEF Inited
    <3> QED
      BY <2>1, <2>3, <3>1 DEF CalleesEarlier
  <2>5. ASSUME phase = "work"
        PROVE  EndNode \in Range(order) /\ \A n \in Range(order) : Range(Callees(n)) \subseteq Range(order)
    <3>1. OnStack = {}
      BY <2>1, <2>5 DEF OnStack
    <3>2. visited = Inited
      BY <2>1, <3>1 DEF MarksExact
    <3> QED
      BY <2>1, <2>2, <2>3, <2>5, <3>2 DEF EndReached, CalleesMarked
  <2> QED
    BY <2>1, <2>4, <2>5 DEF OperandsFirst, InitedOnce
<1> QED
  BY <1>1, WalkStarts, PropKeeps, PTL DEF PropSpec
=============================================================================
