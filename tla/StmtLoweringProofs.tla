------------------------- MODULE StmtLoweringProofs -------------------------
(***************************************************************************)
(* Proofs about StmtLowering.tla, for statements nested in any way: while  *)
(* the blocks of a method are built, a block that was left stays as it is  *)
(* and a mature one takes no further predecessor; when they are built, no  *)
(* critical edge is left in the graph.                                     *)
(***************************************************************************)
EXTENDS StmtLowering, SequenceTheorems, FiniteSetTheorems, NaturalsInduction, WellFoundedInduction, TLAPS

Nodes == [op : {"expr", "return", "block", "if", "while"}, cond : {"c", "true", "false"}, kids : Seq(Nat)]

(* The children of a statement are statements, or missing where they may. *)
NodeOK(n, size) ==
  /\ \A i \in 1..Len(n.kids) : n.kids[i] \in 0..size /\ (n.op = "block" => n.kids[i] # NoStmt)
  /\ n.op = "if" => Len(n.kids) = 2
  /\ n.op = "while" => Len(n.kids) = 1
SourceOK ==
  /\ family \in Families /\ stmts \in Seq(Nodes)
  /\ \A n \in 1..Len(stmts) : NodeOK(stmts[n], Len(stmts))

(* What the analysis has found out: children are visited first, a return   *)
(* does not continue, and of the statements kept in a block only the last  *)
(* one may return, if the block does.                                      *)
Behaviours == {"unknown", "MayContinue", "Return"}
KeptOK(n) ==
  /\ \A i \in 1..Len(kept[n]) : kept[n][i] \in Children(n)
  /\ Visited(n) => \A i \in 1..Len(kept[n]) :
                     i < Len(kept[n]) \/ cfb[n] = "MayContinue" => cfb[kept[n][i]] = "MayContinue"
SemaOK ==
  /\ cfb \in [1..Len(stmts) -> Behaviours] /\ kept \in [1..Len(stmts) -> Seq(Nat)]
  /\ \A n \in 1..Len(stmts) :
       /\ Visited(n) => \A k \in Children(n) : Visited(k)
       /\ Op(n) = "return" /\ Visited(n) => cfb[n] = "Return"
       /\ Op(n) = "block" => KeptOK(n)

Fresh == preds = <<<<>>, <<>>>> /\ code = <<<<>>, <<>>>> /\ mature = {} /\ cur = FirstBlock

(* The graph built so far. *)
Edges == [src : Nat, on : {"jmp", "bad", "true", "false", "ret"}]
GraphOK(p, cd, m, c) ==
  /\ p \in Seq(Seq(Edges)) /\ Len(p) >= 2
  /\ cd \in Seq(Seq(Nat)) /\ Len(cd) = Len(p)
  /\ c \in 1..Len(p) /\ m \subseteq 1..Len(p) /\ EndBlock \notin m
  /\ \A b \in 1..Len(p) : \A i \in 1..Len(p[b]) : p[b][i].src \in 1..Len(p)

NoExit(p, b) == \A c \in 1..Len(p) : \A i \in 1..Len(p[c]) : p[c][i].src = b => p[c][i].on = "bad"

(* What is still to be done.  A task demands that the current block has not *)
(* been left yet.                                                           *)
Chores == [do : {"stmt", "set", "jmp", "endloop"}, n : Nat, b : Nat]
TaskOK(t, k) ==
  /\ t \in Chores
  /\ t.do \in {"stmt", "jmp"} => t.n \in 1..Len(stmts)
  /\ t.do = "stmt" => Visited(t.n)
  /\ t.do # "stmt" => t.b \in 3..k
TasksOK(T, k) == T \in Seq(Chores) /\ \A i \in 1..Len(T) : TaskOK(T[i], k)

Continues(n) == CfbOf(n) = "MayContinue"
Demands(t) == t.do = "stmt" \/ (t.do \in {"jmp", "endloop"} /\ Continues(t.n))
DemandsFirst(T) == IF T = <<>> THEN isVoid /\ Continues(1) ELSE Demands(T[1])

Targets(T, dos) == {T[i].b : i \in {j \in 1..Len(T) : T[j].do \in dos}}
Sets(T) == Targets(T, {"set"})
Joins(T) == Targets(T, {"jmp", "endloop"})
Loops(T) == Targets(T, {"endloop"})

(* Task t before the tasks T: behind a jump code goes on in another block,  *)
(* behind a statement that returns nothing demands an open block, and no    *)
(* block gets a predecessor behind the task that matures it.                *)
Fits(t, T) ==
  /\ t.do \in {"jmp", "endloop"} => T # <<>> /\ T[1].do = "set"
  /\ t.do = "stmt" /\ ~Continues(t.n) => ~DemandsFirst(T)
  /\ t.do = "set" => t.b \notin Sets(T) \cup Joins(T)
  /\ t.do = "endloop" => t.b \notin Joins(T)
Behind(T, i) == SubSeq(T, i + 1, Len(T))
Fit(T) == \A i \in 1..Len(T) : Fits(T[i], Behind(T, i))

Open(p, c, T) ==
  /\ DemandsFirst(T) => NoExit(p, c)
  /\ \A b \in Sets(T) : b # c /\ NoExit(p, b)
Matured(p, m, T) ==
  /\ Joins(T) \cap m = {}
  /\ 3..Len(p) \subseteq m \cup Sets(T) \cup Loops(T)

LowerOK(p, cd, m, c, T) ==
  /\ GraphOK(p, cd, m, c)
  /\ TasksOK(T, Len(p)) /\ Fit(T)
  /\ Open(p, c, T) /\ Matured(p, m, T)

LowInv ==
  /\ SourceOK
  /\ phase = "parse" => Fresh /\ (stmts = <<>> => slots # <<>>)
  /\ phase = "sema" => Fresh /\ stmts # <<>> /\ SemaOK
  /\ phase = "lower" => stmts # <<>> /\ SemaOK /\ LowerOK(preds, code, mature, cur, tasks)
-----------------------------------------------------------------------------
(*                                The graph                                *)

LEMMA AppendFacts ==
  ASSUME NEW S, NEW s \in Seq(S), NEW e \in S
  PROVE  /\ Append(s, e) \in Seq(S) /\ Len(Append(s, e)) = Len(s) + 1 /\ Len(s) \in Nat
         /\ Append(s, e)[Len(s) + 1] = e /\ \A i \in 1..Len(s) : Append(s, e)[i] = s[i]
  OBVIOUS

LEMMA SameSeq ==
  ASSUME NEW S, NEW s \in Seq(S), NEW t \in Seq(S), Len(s) = Len(t), \A i \in 1..Len(s) : s[i] = t[i]
  PROVE  s = t
  BY SeqEqual

LEMMA ConcatFacts ==
  ASSUME NEW S, NEW s \in Seq(S), NEW t \in Seq(S)
  PROVE  /\ s \o t \in Seq(S) /\ Len(s \o t) = Len(s) + Len(t) /\ Len(s) \in Nat /\ Len(t) \in Nat
         /\ \A i \in 1..Len(s) : (s \o t)[i] = s[i]
         /\ \A i \in 1..Len(t) : (s \o t)[Len(s) + i] = t[i]
<1>1. /\ s \o t \in Seq(S) /\ Len(s \o t) = Len(s) + Len(t) /\ Len(s) \in Nat /\ Len(t) \in Nat
  BY ConcatProperties
<1>2. \A i \in 1..Len(s) : (s \o t)[i] = s[i]
  BY <1>1, ConcatProperties
<1>3. \A i \in 1..Len(t) : (s \o t)[Len(s) + i] = t[i]
  BY <1>1, ConcatProperties
<1> QED
  BY <1>1, <1>2, <1>3

(* q is p with new blocks and with new edges from the blocks X, into new   *)
(* blocks and into the blocks B.                                           *)
Grown(p, q, X, B) ==
  /\ q \in Seq(Seq(Edges)) /\ Len(p) <= Len(q)
  /\ \A c \in 1..Len(p) : Len(p[c]) <= Len(q[c]) /\ \A i \in 1..Len(p[c]) : q[c][i] = p[c][i]
  /\ \A c \in 1..Len(q) : \A i \in 1..Len(q[c]) : (c <= Len(p) /\ i <= Len(p[c])) \/ q[c][i].src \in X
  /\ \A c \in 1..Len(p) : c \notin B => q[c] = p[c]

LEMMA GraphTyped ==
  ASSUME NEW p \in Seq(Seq(Edges))
  PROVE  /\ Len(p) \in Nat
         /\ \A c \in 1..Len(p) : p[c] \in Seq(Edges) /\ Len(p[c]) \in Nat /\ DOMAIN p[c] = 1..Len(p[c])
         /\ \A c \in 1..Len(p) : \A i \in 1..Len(p[c]) : p[c][i] \in Edges
<1>1. \A c \in 1..Len(p) : p[c] \in Seq(Edges)
  OBVIOUS
<1> QED
  BY <1>1

LEMMA GrownNothing == ASSUME NEW p \in Seq(Seq(Edges)), NEW X, NEW B PROVE Grown(p, p, X, B)
  BY GraphTyped DEF Grown

LEMMA GrownEdge ==
  ASSUME NEW p \in Seq(Seq(Edges)), NEW b \in 1..Len(p), NEW e \in Edges, NEW X, NEW B, e.src \in X, b \in B
  PROVE  Grown(p, AddPred(p, b, e), X, B) /\ Len(AddPred(p, b, e)) = Len(p)
<1> DEFINE q == AddPred(p, b, e)
           new == Append(p[b], e)
<1>1. /\ p[b] \in Seq(Edges) /\ new \in Seq(Edges) /\ Len(new) = Len(p[b]) + 1 /\ Len(p[b]) \in Nat
      /\ new[Len(p[b]) + 1] = e /\ \A i \in 1..Len(p[b]) : new[i] = p[b][i]
  BY GraphTyped, AppendFacts
<1> HIDE DEF new
<1>2. /\ q \in Seq(Seq(Edges)) /\ Len(q) = Len(p) /\ q[b] = new /\ \A c \in 1..Len(p) : c # b => q[c] = p[c]
  <2>1. q = [p EXCEPT ![b] = new]
    BY DEF AddPred, new
  <2> QED
    BY <2>1, <1>1
<1> HIDE DEF q
<1>3. ASSUME NEW c \in 1..Len(p) PROVE Len(p[c]) <= Len(q[c]) /\ \A i \in 1..Len(p[c]) : q[c][i] = p[c][i]
  <2>1. CASE c = b
    BY <2>1, <1>1, <1>2
  <2>2. CASE c # b
    BY <2>2, <1>2, GraphTyped
  <2> QED
    BY <2>1, <2>2
<1>4. ASSUME NEW c \in 1..Len(q), NEW i \in 1..Len(q[c]) PROVE (c <= Len(p) /\ i <= Len(p[c])) \/ q[c][i].src \in X
  <2>1. CASE c = b
    <3>1. i \in 1..(Len(p[b]) + 1)
      BY <2>1, <1>1, <1>2
    <3>2. i <= Len(p[b]) \/ i = Len(p[b]) + 1
      BY <3>1, <1>1
    <3>3. i = Len(p[b]) + 1 => q[c][i] = e
      BY <2>1, <1>1, <1>2
    <3>4. c <= Len(p)
      BY <1>2, GraphTyped
    <3> QED
      BY <3>2, <3>3, <3>4, <2>1
  <2>2. CASE c # b
    <3>1. c \in 1..Len(p) /\ q[c] = p[c]
      BY <2>2, <1>2
    <3> QED
      BY <3>1, GraphTyped
  <2> QED
    BY <2>1, <2>2
<1>5. \A c \in 1..Len(p) : c \notin B => q[c] = p[c]
  BY <1>2
<1>6. Len(p) <= Len(q)
  BY <1>2, GraphTyped
<1>7. Grown(p, q, X, B)
  BY <1>2, <1>3, <1>4, <1>5, <1>6 DEF Grown
<1> QED
  BY <1>2, <1>7 DEF q

LEMMA GrowFacts ==
  ASSUME NEW R, <<>> \in R, NEW s \in Seq(R), NEW k \in Nat
  PROVE  /\ Grow(s, k) \in Seq(R) /\ Len(Grow(s, k)) = Len(s) + k /\ Len(s) \in Nat
         /\ \A c \in 1..Len(s) : Grow(s, k)[c] = s[c]
         /\ \A c \in (Len(s) + 1)..(Len(s) + k) : Grow(s, k)[c] = <<>>
<1> DEFINE t == [i \in 1..k |-> <<>>]
<1>2. t \in Seq(R) /\ Len(t) = k /\ \A i \in 1..k : t[i] = <<>>
  OBVIOUS
<1>3. Grow(s, k) = s \o t
  BY DEF Grow
<1> HIDE DEF t
<1>4. /\ s \o t \in Seq(R) /\ Len(s \o t) = Len(s) + Len(t) /\ Len(s) \in Nat
      /\ \A i \in 1..Len(s) : (s \o t)[i] = s[i]
      /\ \A i \in 1..Len(t) : (s \o t)[Len(s) + i] = t[i]
  <2>1. t \in Seq(R)
    BY <1>2
  <2> QED
    BY <2>1, ConcatFacts
<1>5. ASSUME NEW c \in (Len(s) + 1)..(Len(s) + k) PROVE (s \o t)[c] = <<>>
  <2>1. c - Len(s) \in 1..k /\ Len(s) + (c - Len(s)) = c
    BY <1>4
  <2> QED
    BY <2>1, <1>2, <1>4
<1> QED
  BY <1>2, <1>3, <1>4, <1>5

LEMMA GrownBlocks ==
  ASSUME NEW p \in Seq(Seq(Edges)), NEW k \in Nat, NEW X, NEW B
  PROVE  Grown(p, Grow(p, k), X, B) /\ Len(Grow(p, k)) = Len(p) + k
<1> DEFINE q == Grow(p, k)
<1>1. /\ q \in Seq(Seq(Edges)) /\ Len(q) = Len(p) + k /\ Len(p) \in Nat
      /\ \A c \in 1..Len(p) : q[c] = p[c]
      /\ \A c \in (Len(p) + 1)..(Len(p) + k) : q[c] = <<>>
  <2>1. <<>> \in Seq(Edges)
    OBVIOUS
  <2> QED
    BY <2>1, GrowFacts
<1> HIDE DEF q
<1>2. ASSUME NEW c \in 1..Len(q), NEW i \in 1..Len(q[c]) PROVE c <= Len(p) /\ i <= Len(p[c])
  <2>1. CASE c \in 1..Len(p)
    BY <2>1, <1>1, GraphTyped
  <2>2. CASE c \in (Len(p) + 1)..(Len(p) + k)
    <3>1. q[c] = <<>>
      BY <2>2, <1>1
    <3> QED
      BY <3>1
  <2> QED
    BY <2>1, <2>2, <1>1
<1>3. \A c \in 1..Len(p) : Len(p[c]) <= Len(q[c]) /\ \A i \in 1..Len(p[c]) : q[c][i] = p[c][i]
  BY <1>1, GraphTyped
<1>4. Grown(p, q, X, B)
  BY <1>1, <1>2, <1>3 DEF Grown
<1> QED
  BY <1>1, <1>4 DEF q

LEMMA GrownFurther ==
  ASSUME NEW p \in Seq(Seq(Edges)), NEW q, NEW r, NEW X, NEW B, Grown(p, q, X, B), Grown(q, r, X, B)
  PROVE  Grown(p, r, X, B)
<1>1. /\ q \in Seq(Seq(Edges)) /\ r \in Seq(Seq(Edges)) /\ Len(p) <= Len(q) /\ Len(q) <= Len(r)
  BY DEF Grown
<1>2. Len(p) \in Nat /\ Len(q) \in Nat /\ Len(r) \in Nat /\ Len(p) <= Len(r)
  BY <1>1, GraphTyped
<1>3. ASSUME NEW c \in 1..Len(p)
      PROVE  /\ Len(p[c]) <= Len(r[c]) /\ (\A i \in 1..Len(p[c]) : r[c][i] = p[c][i])
             /\ c \notin B => r[c] = p[c]
  <2>1. c \in 1..Len(q) /\ c \in 1..Len(r)
    BY <1>1, <1>2
  <2>2. Len(p[c]) \in Nat /\ Len(q[c]) \in Nat /\ Len(r[c]) \in Nat
    BY <2>1, <1>1, GraphTyped
  <2>3. /\ Len(p[c]) <= Len(q[c]) /\ (\A i \in 1..Len(p[c]) : q[c][i] = p[c][i]) /\ (c \notin B => q[c] = p[c])
    BY DEF Grown
  <2>4. /\ Len(q[c]) <= Len(r[c]) /\ (\A i \in 1..Len(q[c]) : r[c][i] = q[c][i]) /\ (c \notin B => r[c] = q[c])
    BY <2>1 DEF Grown
  <2>5. \A i \in 1..Len(p[c]) : i \in 1..Len(q[c])
    BY <2>2, <2>3
  <2> QED
    BY <2>2, <2>3, <2>4, <2>5
<1>4. ASSUME NEW c \in 1..Len(r), NEW i \in 1..Len(r[c]) PROVE (c <= Len(p) /\ i <= Len(p[c])) \/ r[c][i].src \in X
  <2>1. (c <= Len(q) /\ i <= Len(q[c])) \/ r[c][i].src \in X
    BY DEF Grown
  <2>2. CASE c <= Len(q) /\ i <= Len(q[c])
    <3>1. c \in 1..Len(q)
      BY <2>2, <1>2
    <3>2. i \in 1..Len(q[c])
      BY <3>1, <2>2, <1>1, GraphTyped
    <3>3. r[c][i] = q[c][i]
      BY <3>1, <3>2 DEF Grown
    <3>4. (c <= Len(p) /\ i <= Len(p[c])) \/ q[c][i].src \in X
      BY <3>1, <3>2 DEF Grown
    <3> QED
      BY <3>3, <3>4
  <2> QED
    BY <2>1, <2>2
<1> QED
  BY <1>1, <1>2, <1>3, <1>4 DEF Grown

LEMMA GrownNoExit ==
  ASSUME NEW p \in Seq(Seq(Edges)), NEW q, NEW X, NEW B, Grown(p, q, X, B), NEW b, b \notin X, NoExit(p, b)
  PROVE  NoExit(q, b)
<1> SUFFICES ASSUME NEW c \in 1..Len(q), NEW i \in 1..Len(q[c]), q[c][i].src = b PROVE q[c][i].on = "bad"
  BY DEF NoExit
<1>1. c <= Len(p) /\ i <= Len(p[c])
  BY DEF Grown
<1>2. Len(p) \in Nat /\ Len(q) \in Nat /\ q \in Seq(Seq(Edges))
  BY GraphTyped DEF Grown
<1>3. c \in 1..Len(p)
  BY <1>1, <1>2
<1>4. i \in 1..Len(p[c])
  BY <1>1, <1>2, <1>3, GraphTyped
<1>5. q[c][i] = p[c][i]
  BY <1>3, <1>4 DEF Grown
<1> QED
  BY <1>3, <1>4, <1>5 DEF NoExit

ExitsOf(p, b) ==
  {x \in UNION {{c} \X DOMAIN p[c] : c \in DOMAIN p} : p[x[1]][x[2]].src = b /\ p[x[1]][x[2]].on # "bad"}

ExitAt(p, b, x) ==
  \E c \in 1..Len(p) : \E i \in 1..Len(p[c]) : x = <<c, i>> /\ p[c][i].src = b /\ p[c][i].on # "bad"

LEMMA ExitsAre ==
  ASSUME NEW p \in Seq(Seq(Edges)), NEW b
  PROVE  \A x : x \in ExitsOf(p, b) <=> ExitAt(p, b, x)
<1>1. DOMAIN p = 1..Len(p) /\ \A c \in 1..Len(p) : DOMAIN p[c] = 1..Len(p[c])
  BY GraphTyped
<1>2. ASSUME NEW x, x \in ExitsOf(p, b)
      PROVE  ExitAt(p, b, x)
  <2>1. PICK c \in 1..Len(p) : x \in {c} \X DOMAIN p[c]
    BY <1>1, <1>2 DEF ExitsOf
  <2>2. PICK i \in 1..Len(p[c]) : x = <<c, i>>
    BY <2>1, <1>1
  <2>3. p[x[1]][x[2]].src = b /\ p[x[1]][x[2]].on # "bad"
    BY <1>2 DEF ExitsOf
  <2> QED
    BY <2>2, <2>3 DEF ExitAt
<1>3. ASSUME NEW c \in 1..Len(p), NEW i \in 1..Len(p[c]), p[c][i].src = b, p[c][i].on # "bad"
      PROVE  <<c, i>> \in ExitsOf(p, b)
  <2>1. <<c, i>> \in {c} \X DOMAIN p[c] /\ c \in DOMAIN p
    BY <1>1
  <2> QED
    BY <2>1, <1>3 DEF ExitsOf
<1> QED
  BY <1>2, <1>3 DEF ExitAt

LEMMA NoExits ==
  ASSUME NEW p \in Seq(Seq(Edges)), NEW b, NoExit(p, b)
  PROVE  ExitsOf(p, b) = {}
  BY ExitsAre DEF NoExit, ExitAt

LEMMA ExitsGrown ==
  ASSUME NEW p \in Seq(Seq(Edges)), NEW q, NEW X, NEW B, Grown(p, q, X, B), NEW b, b \notin X
  PROVE  ExitsOf(q, b) = ExitsOf(p, b) /\ \A x \in ExitsOf(p, b) : q[x[1]][x[2]] = p[x[1]][x[2]]
<1>1. q \in Seq(Seq(Edges)) /\ Len(p) <= Len(q) /\ Len(p) \in Nat /\ Len(q) \in Nat
  BY GraphTyped DEF Grown
<1>2. ASSUME NEW c \in 1..Len(p), NEW i \in 1..Len(p[c])
      PROVE  c \in 1..Len(q) /\ i \in 1..Len(q[c]) /\ q[c][i] = p[c][i]
  <2>1. c \in 1..Len(q)
    BY <1>1
  <2>2. Len(p[c]) <= Len(q[c]) /\ q[c][i] = p[c][i]
    BY DEF Grown
  <2>3. Len(p[c]) \in Nat /\ Len(q[c]) \in Nat
    BY <2>1, <1>1, GraphTyped
  <2> QED
    BY <2>1, <2>2, <2>3
<1>3. ASSUME NEW c \in 1..Len(q), NEW i \in 1..Len(q[c]), q[c][i].src = b
      PROVE  c \in 1..Len(p) /\ i \in 1..Len(p[c])
  <2>1. c <= Len(p) /\ i <= Len(p[c])
    BY <1>3 DEF Grown
  <2>2. c \in 1..Len(p)
    BY <2>1, <1>1
  <2> QED
    BY <2>1, <2>2, <1>1, GraphTyped
<1>4. ASSUME NEW x \in ExitsOf(p, b) PROVE x \in ExitsOf(q, b) /\ q[x[1]][x[2]] = p[x[1]][x[2]]
  <2>1. PICK c \in 1..Len(p) : \E i \in 1..Len(p[c]) : x = <<c, i>> /\ p[c][i].src = b /\ p[c][i].on # "bad"
    <3>1. ExitAt(p, b, x)
      BY ExitsAre
    <3> QED
      BY <3>1 DEF ExitAt
  <2>2. PICK i \in 1..Len(p[c]) : x = <<c, i>> /\ p[c][i].src = b /\ p[c][i].on # "bad"
    BY <2>1
  <2>3. c \in 1..Len(q) /\ i \in 1..Len(q[c]) /\ q[c][i] = p[c][i]
    BY <1>2
  <2>4. ExitAt(q, b, x) /\ q[x[1]][x[2]] = p[x[1]][x[2]]
    BY <2>2, <2>3 DEF ExitAt
  <2> QED
    BY <2>4, <1>1, ExitsAre
<1>5. ASSUME NEW x \in ExitsOf(q, b) PROVE x \in ExitsOf(p, b)
  <2>1. PICK c \in 1..Len(q) : \E i \in 1..Len(q[c]) : x = <<c, i>> /\ q[c][i].src = b /\ q[c][i].on # "bad"
    <3>1. ExitAt(q, b, x)
      BY <1>1, ExitsAre
    <3> QED
      BY <3>1 DEF ExitAt
  <2>2. PICK i \in 1..Len(q[c]) : x = <<c, i>> /\ q[c][i].src = b /\ q[c][i].on # "bad"
    BY <2>1
  <2>3. c \in 1..Len(p) /\ i \in 1..Len(p[c])
    BY <2>2, <1>3
  <2>4. q[c][i] = p[c][i]
    BY <2>3, <1>2
  <2>5. ExitAt(p, b, x)
    BY <2>2, <2>3, <2>4 DEF ExitAt
  <2> QED
    BY <2>5, ExitsAre
<1> QED
  BY <1>4, <1>5

(* A step that adds edges from open and new blocks only, and into immature  *)
(* and new blocks only, leaves the others closed.                           *)
LEMMA StepCloses ==
  ASSUME GraphOK(preds, code, mature, cur), NEW X, NEW B, Grown(preds, preds', X, B), B \cap mature = {},
         \A b \in 1..Len(preds) : b \in X => NoExit(preds, b),
         \A b \in 1..Len(preds) : NoExit(preds, b) \/ code'[b] = code[b],
         phase' = "lower" \/ DOMAIN preds' \ {FirstBlock} \subseteq mature'
  PROVE  StaysClosed
<1>1. preds \in Seq(Seq(Edges)) /\ mature \subseteq 1..Len(preds) /\ DOMAIN preds = 1..Len(preds)
  BY DEF GraphOK
<1>2. \A b : Exits(b) = ExitsOf(preds, b) /\ Exits(b)' = ExitsOf(preds', b)
  BY DEF Exits, ExitsOf, On
<1>3. ASSUME NEW b \in 1..Len(preds), Exits(b) # {}
      PROVE  Ons(b)' = Ons(b) /\ Cardinality(Exits(b)') = Cardinality(Exits(b)) /\ code'[b] = code[b]
  <2>1. ~NoExit(preds, b)
    BY <1>1, <1>2, <1>3, NoExits
  <2>2. b \notin X /\ code'[b] = code[b]
    BY <2>1
  <2>3. ExitsOf(preds', b) = ExitsOf(preds, b) /\ \A x \in ExitsOf(preds, b) : preds'[x[1]][x[2]] = preds[x[1]][x[2]]
    BY <2>2, <1>1, ExitsGrown
  <2>4. Exits(b)' = Exits(b)
    BY <2>3, <1>2
  <2>5. Ons(b)' = {preds'[x[1]][x[2]].on : x \in ExitsOf(preds', b)} /\ Ons(b) = {preds[x[1]][x[2]].on : x \in ExitsOf(preds, b)}
    BY <1>2 DEF Ons, On
  <2>6. Ons(b)' = Ons(b)
    BY <2>3, <2>5
  <2> QED
    BY <2>2, <2>4, <2>6
<1>4. \A b \in mature : preds'[b] = preds[b]
  BY <1>1 DEF Grown
<1> QED
  BY <1>1, <1>3, <1>4 DEF StaysClosed
-----------------------------------------------------------------------------
(*                                The tasks                                *)

LEMMA BehindConcat ==
  ASSUME NEW S, NEW P \in Seq(S), NEW T \in Seq(S), NEW i \in 0..Len(T)
  PROVE  Behind(P \o T, Len(P) + i) = Behind(T, i)
<1> DEFINE C == P \o T
           k == Len(P)
           m == Len(T)
           u == SubSeq(C, (k + i) + 1, Len(C))
           v == SubSeq(T, i + 1, m)
<1>1. /\ C \in Seq(S) /\ Len(C) = k + m /\ k \in Nat /\ m \in Nat
      /\ \A j \in 1..m : C[k + j] = T[j]
  BY ConcatFacts
<1> HIDE DEF C, k, m
<1>2. u \in Seq(S) /\ Len(u) = m - i /\ \A j \in 1..(m - i) : u[j] = C[(k + i) + j]
  <2>1. (k + i) + 1 \in 1..(Len(C) + 1) /\ Len(C) \in Nat /\ (k + i) + 1 <= Len(C) + 1
    BY <1>1 DEF m
  <2>2. u \in Seq(S) /\ Len(u) = Len(C) - (k + i)
    BY <2>1, <1>1 DEF m
  <2>3. \A j \in 1..(Len(C) - (k + i)) : u[j] = C[(k + i) + j]
    BY <2>1, <1>1 DEF m
  <2> QED
    BY <2>2, <2>3, <1>1 DEF m
<1>3. v \in Seq(S) /\ Len(v) = m - i /\ \A j \in 1..(m - i) : v[j] = T[i + j]
  BY <1>1 DEF m
<1>4. \A j \in 1..(m - i) : u[j] = v[j]
  <2> SUFFICES ASSUME NEW j \in 1..(m - i) PROVE u[j] = v[j]
    OBVIOUS
  <2>1. i + j \in 1..m /\ (k + i) + j = k + (i + j)
    BY <1>1 DEF m
  <2>2. C[k + (i + j)] = T[i + j]
    BY <2>1, <1>1
  <2> QED
    BY <2>1, <2>2, <1>2, <1>3
<1> HIDE DEF u, v
<1>5. u = v
  BY <1>2, <1>3, <1>4, SameSeq
<1> QED
  BY <1>5 DEF u, v, Behind, C, k, m

LEMMA SplitIndex ==
  ASSUME NEW k \in Nat, NEW m \in Nat, NEW i \in 1..(k + m)
  PROVE  i \in 1..k \/ (i - k \in 1..m /\ k + (i - k) = i)
  OBVIOUS

LEMMA TasksConcat ==
  ASSUME NEW k, NEW P, NEW T, TasksOK(P, k), TasksOK(T, k)
  PROVE  TasksOK(P \o T, k)
<1>1. P \in Seq(Chores) /\ T \in Seq(Chores)
  BY DEF TasksOK
<1> DEFINE C == P \o T
<1>2. /\ C \in Seq(Chores) /\ Len(C) = Len(P) + Len(T) /\ Len(P) \in Nat /\ Len(T) \in Nat
      /\ (\A i \in 1..Len(P) : C[i] = P[i]) /\ \A i \in 1..Len(T) : C[Len(P) + i] = T[i]
  BY <1>1, ConcatFacts
<1> HIDE DEF C
<1>3. ASSUME NEW i \in 1..Len(C) PROVE TaskOK(C[i], k)
  <2>1. CASE i \in 1..Len(P)
    BY <2>1, <1>2 DEF TasksOK
  <2>2. CASE i - Len(P) \in 1..Len(T) /\ Len(P) + (i - Len(P)) = i
    <3>1. C[i] = T[i - Len(P)]
      BY <2>2, <1>2
    <3> QED
      BY <3>1, <2>2 DEF TasksOK
  <2> QED
    BY <2>1, <2>2, <1>2, SplitIndex
<1> QED
  BY <1>2, <1>3 DEF TasksOK, C

LEMMA TargetsAre ==
  ASSUME NEW T, NEW dos
  PROVE  \A b : b \in Targets(T, dos) <=> \E i \in 1..Len(T) : T[i].do \in dos /\ T[i].b = b
  BY DEF Targets

LEMMA TargetsConcat ==
  ASSUME NEW P \in Seq(Chores), NEW T \in Seq(Chores), NEW dos
  PROVE  Targets(P \o T, dos) = Targets(P, dos) \cup Targets(T, dos)
<1> DEFINE C == P \o T
<1>2. /\ C \in Seq(Chores) /\ Len(C) = Len(P) + Len(T) /\ Len(P) \in Nat /\ Len(T) \in Nat
      /\ (\A i \in 1..Len(P) : C[i] = P[i]) /\ \A i \in 1..Len(T) : C[Len(P) + i] = T[i]
  BY ConcatFacts
<1> HIDE DEF C
<1>3. ASSUME NEW b, NEW i \in 1..Len(C), C[i].do \in dos, C[i].b = b PROVE b \in Targets(P, dos) \cup Targets(T, dos)
  <2>1. CASE i \in 1..Len(P)
    BY <2>1, <1>2, <1>3, TargetsAre
  <2>2. CASE i - Len(P) \in 1..Len(T) /\ Len(P) + (i - Len(P)) = i
    <3>1. C[i] = T[i - Len(P)]
      BY <2>2, <1>2
    <3> QED
      BY <3>1, <2>2, <1>3, TargetsAre
  <2> QED
    BY <2>1, <2>2, <1>2, SplitIndex
<1>4. ASSUME NEW b, NEW i \in 1..Len(P), P[i].do \in dos, P[i].b = b PROVE b \in Targets(C, dos)
  <2>1. i \in 1..Len(C) /\ C[i] = P[i]
    BY <1>2
  <2> QED
    BY <2>1, <1>4, TargetsAre
<1>5. ASSUME NEW b, NEW i \in 1..Len(T), T[i].do \in dos, T[i].b = b PROVE b \in Targets(C, dos)
  <2>1. Len(P) + i \in 1..Len(C)
    <3>1. Len(C) = Len(P) + Len(T) /\ Len(P) \in Nat /\ Len(T) \in Nat
      BY <1>2
    <3> QED
      BY <3>1
  <2>2. C[Len(P) + i] = T[i]
    BY <1>2
  <2> QED
    BY <2>1, <2>2, <1>5, TargetsAre
<1>6. \A b : b \in Targets(C, dos) => b \in Targets(P, dos) \cup Targets(T, dos)
  BY <1>3, TargetsAre
<1>7. \A b : b \in Targets(P, dos) => b \in Targets(C, dos)
  BY <1>4, TargetsAre
<1>8. \A b : b \in Targets(T, dos) => b \in Targets(C, dos)
  BY <1>5, TargetsAre
<1> QED
  BY <1>6, <1>7, <1>8 DEF C

TargetOf(t, dos) == IF t.do \in dos THEN {t.b} ELSE {}

LEMMA TargetsOne == ASSUME NEW t \in Chores, NEW dos PROVE Targets(<<t>>, dos) = TargetOf(t, dos)
<1> DEFINE s == <<t>>
<1>1. Len(s) = 1 /\ s[1] = t /\ 1..Len(s) = {1}
  OBVIOUS
<1> HIDE DEF s
<1>2. \A b : b \in Targets(s, dos) <=> t.do \in dos /\ b = t.b
  BY <1>1, TargetsAre
<1> QED
  BY <1>2 DEF TargetOf, s

LEMMA TargetsCons ==
  ASSUME NEW t \in Chores, NEW T \in Seq(Chores), NEW dos
  PROVE  Targets(<<t>> \o T, dos) = TargetOf(t, dos) \cup Targets(T, dos)
<1> DEFINE s == <<t>>
<1>1. s \in Seq(Chores) /\ Targets(s, dos) = TargetOf(t, dos)
  BY TargetsOne
<1> HIDE DEF s
<1>2. Targets(s \o T, dos) = Targets(s, dos) \cup Targets(T, dos)
  BY <1>1, TargetsConcat
<1> QED
  BY <1>1, <1>2 DEF s

(* Putting tasks in front, and taking one off. *)
LEMMA FitConcat ==
  ASSUME NEW P \in Seq(Chores), NEW T \in Seq(Chores), Fit(T),
         \A i \in 1..Len(P) : Fits(P[i], Behind(P \o T, i))
  PROVE  Fit(P \o T)
<1> DEFINE C == P \o T
<1>1. /\ C \in Seq(Chores) /\ Len(C) = Len(P) + Len(T) /\ Len(P) \in Nat /\ Len(T) \in Nat
      /\ (\A i \in 1..Len(P) : C[i] = P[i]) /\ \A i \in 1..Len(T) : C[Len(P) + i] = T[i]
  BY ConcatFacts
<1>2. \A i \in 0..Len(T) : Behind(C, Len(P) + i) = Behind(T, i)
  BY BehindConcat
<1> HIDE DEF C
<1>3. ASSUME NEW i \in 1..Len(C) PROVE Fits(C[i], Behind(C, i))
  <2>1. CASE i \in 1..Len(P)
    BY <2>1, <1>1 DEF C
  <2>2. CASE i - Len(P) \in 1..Len(T) /\ Len(P) + (i - Len(P)) = i
    <3>1. C[i] = T[i - Len(P)]
      BY <2>2, <1>1
    <3>2. i - Len(P) \in 0..Len(T)
      BY <2>2, <1>1
    <3>3. Behind(C, i) = Behind(T, i - Len(P))
      BY <3>2, <2>2, <1>2
    <3> QED
      BY <3>1, <3>3, <2>2 DEF Fit
  <2> QED
    BY <2>1, <2>2, <1>1, SplitIndex
<1> QED
  BY <1>3 DEF Fit, C

LEMMA BehindAll == ASSUME NEW S, NEW T \in Seq(S) PROVE Behind(T, 0) = T
  BY DEF Behind

LEMMA BehindFirst ==
  ASSUME NEW t \in Chores, NEW T \in Seq(Chores)
  PROVE  /\ Behind(<<t>> \o T, 1) = T /\ <<t>> \in Seq(Chores) /\ Len(<<t>>) = 1 /\ (<<t>>)[1] = t
         /\ (<<t>> \o T)[1] = t /\ Len(<<t>> \o T) = 1 + Len(T) /\ <<t>> \o T \in Seq(Chores) /\ <<t>> \o T # <<>>
<1>1. <<t>> \in Seq(Chores) /\ Len(<<t>>) = 1 /\ (<<t>>)[1] = t /\ 0 \in 0..Len(T) /\ 1 + 0 = 1
  OBVIOUS
<1>2. Behind(<<t>> \o T, Len(<<t>>) + 0) = Behind(T, 0)
  BY <1>1, BehindConcat
<1>3. Behind(<<t>> \o T, 1) = T
  BY <1>1, <1>2, BehindAll
<1>4. (<<t>> \o T)[1] = t /\ Len(<<t>> \o T) = 1 + Len(T) /\ <<t>> \o T \in Seq(Chores)
  OBVIOUS
<1>5. <<t>> \o T # <<>>
  BY <1>4
<1> QED
  BY <1>1, <1>3, <1>4, <1>5

TaskAndMore(C, t, T, k) ==
  /\ TasksOK(C, k) /\ Fit(C) /\ C # <<>> /\ C[1] = t
  /\ \A dos : Targets(C, dos) = TargetOf(t, dos) \cup Targets(T, dos)

LEMMA Consed ==
  ASSUME NEW k, NEW t, TaskOK(t, k), NEW T, TasksOK(T, k), Fit(T), Fits(t, T), NEW C, C = <<t>> \o T
  PROVE  TaskAndMore(C, t, T, k)
<1>1. t \in Chores /\ T \in Seq(Chores)
  BY DEF TaskOK, TasksOK
<1>2. Behind(<<t>> \o T, 1) = T /\ <<t>> \in Seq(Chores) /\ Len(<<t>>) = 1 /\ (<<t>>)[1] = t
  BY <1>1, BehindFirst
<1>3. TasksOK(<<t>>, k)
  BY <1>2 DEF TasksOK
<1>4. \A i \in 1..Len(<<t>>) : Fits((<<t>>)[i], Behind(<<t>> \o T, i))
  BY <1>2
<1>5. Fit(C)
  BY <1>1, <1>2, <1>4, FitConcat
<1>6. TasksOK(C, k)
  BY <1>3, TasksConcat
<1>7. ASSUME NEW dos PROVE Targets(C, dos) = TargetOf(t, dos) \cup Targets(T, dos)
  BY <1>1, TargetsCons
<1>8. C # <<>> /\ C[1] = t
  BY <1>1, BehindFirst
<1> QED
  BY <1>5, <1>6, <1>7, <1>8 DEF TaskAndMore

FirstAndRest(C, h, T, k) ==
  /\ C[1] = h /\ TaskOK(h, k) /\ TasksOK(T, k) /\ Fits(h, T) /\ Fit(T)
  /\ \A dos : Targets(C, dos) = TargetOf(h, dos) \cup Targets(T, dos)

LEMMA Unconsed ==
  ASSUME NEW k, NEW C, TasksOK(C, k), Fit(C), C # <<>>, NEW h, h = Head(C), NEW T, T = Tail(C)
  PROVE  FirstAndRest(C, h, T, k)
<1>1. C \in Seq(Chores)
  BY DEF TasksOK
<1>2. h \in Chores /\ T \in Seq(Chores) /\ C = <<h>> \o T /\ C[1] = h /\ Len(C) = Len(T) + 1
  BY <1>1, HeadTailProperties
<1>3. \A i \in 1..Len(T) : C[i + 1] = T[i] /\ i + 1 \in 1..Len(C)
  BY <1>1, <1>2
<1>4. 1 \in 1..Len(C) /\ Len(T) \in Nat
  BY <1>2
<1>5. TaskOK(h, k) /\ TasksOK(T, k)
  BY <1>2, <1>3, <1>4 DEF TasksOK
<1>6. Behind(C, 1) = T
  BY <1>2, BehindFirst
<1>7. Fits(h, T)
  BY <1>2, <1>4, <1>6 DEF Fit
<1>8. ASSUME NEW i \in 1..Len(T) PROVE Fits(T[i], Behind(T, i))
  <2> DEFINE s == <<h>>
  <2>1. s \in Seq(Chores) /\ Len(s) = 1 /\ C = s \o T
    BY <1>2
  <2> HIDE DEF s
  <2>2. i \in 0..Len(T) /\ 1 + i = i + 1
    BY <1>4
  <2>3. Behind(s \o T, Len(s) + i) = Behind(T, i)
    BY <2>1, <2>2, <1>2, BehindConcat, ZenonT(60)
  <2>4. Behind(C, i + 1) = Behind(T, i)
    BY <2>1, <2>2, <2>3
  <2> QED
    BY <2>4, <1>3 DEF Fit
<1>9. ASSUME NEW dos PROVE Targets(C, dos) = TargetOf(h, dos) \cup Targets(T, dos)
  BY <1>2, TargetsCons, ZenonT(60)
<1> QED
  BY <1>2, <1>5, <1>7, <1>8, <1>9 DEF Fit, FirstAndRest
-----------------------------------------------------------------------------
(*                             Steps in common                             *)

LEMMA GraphGrown ==
  ASSUME NEW p, NEW cd, NEW m, NEW c, GraphOK(p, cd, m, c),
         NEW q, NEW X, NEW B, Grown(p, q, X, B), \A b \in X : b \in 1..Len(q),
         NEW cd2 \in Seq(Seq(Nat)), Len(cd2) = Len(q), NEW m2, m2 \subseteq 1..Len(q), EndBlock \notin m2,
         NEW c2 \in 1..Len(q)
  PROVE  GraphOK(q, cd2, m2, c2)
<1>1. p \in Seq(Seq(Edges)) /\ q \in Seq(Seq(Edges)) /\ Len(p) >= 2 /\ Len(p) <= Len(q)
  BY DEF GraphOK, Grown
<1>2. Len(p) \in Nat /\ Len(q) \in Nat
  BY <1>1, GraphTyped
<1>3. ASSUME NEW b \in 1..Len(q), NEW i \in 1..Len(q[b]) PROVE q[b][i].src \in 1..Len(q)
  <2>1. CASE b <= Len(p) /\ i <= Len(p[b])
    <3>1. b \in 1..Len(p)
      BY <2>1, <1>2
    <3>2. i \in 1..Len(p[b])
      BY <3>1, <2>1, <1>1, GraphTyped
    <3>3. q[b][i] = p[b][i]
      BY <3>1, <3>2 DEF Grown
    <3>4. p[b][i].src \in 1..Len(p)
      BY <3>1, <3>2 DEF GraphOK
    <3>5. Len(p) <= Len(q) /\ Len(p) \in Nat /\ Len(q) \in Nat
      BY <1>1, <1>2
    <3>6. 1..Len(p) \subseteq 1..Len(q)
      BY <3>5
    <3> QED
      BY <3>3, <3>4, <3>6
  <2>2. CASE q[b][i].src \in X
    BY <2>2
  <2> QED
    BY <2>1, <2>2 DEF Grown
<1>4. Len(q) >= 2
  BY <1>1, <1>2
<1> QED
  BY <1>1, <1>3, <1>4 DEF GraphOK

(* A block that is not there yet has no exits. *)
LEMMA NewNoExit ==
  ASSUME NEW p, NEW cd, NEW m, NEW c, GraphOK(p, cd, m, c), NEW b, b \notin 1..Len(p)
  PROVE  NoExit(p, b)
  BY DEF GraphOK, NoExit

LEMMA TasksMore ==
  ASSUME NEW k \in Nat, NEW l \in Nat, k <= l, NEW T, TasksOK(T, k)
  PROVE  TasksOK(T, l)
  BY DEF TasksOK, TaskOK

LEMMA TargetsIn ==
  ASSUME NEW k, NEW T, TasksOK(T, k), NEW dos, "stmt" \notin dos
  PROVE  Targets(T, dos) \subseteq 3..k
<1> SUFFICES ASSUME NEW b \in Targets(T, dos) PROVE b \in 3..k
  OBVIOUS
<1>1. PICK i \in 1..Len(T) : T[i].do \in dos /\ T[i].b = b
  BY TargetsAre
<1>2. TaskOK(T[i], k)
  BY DEF TasksOK
<1> QED
  BY <1>1, <1>2 DEF TaskOK

TasksTargetsIn(T, k) == Sets(T) \subseteq 3..k /\ Joins(T) \subseteq 3..k /\ Loops(T) \subseteq 3..k

LEMMA AllTargetsIn ==
  ASSUME NEW k, NEW T, TasksOK(T, k) PROVE TasksTargetsIn(T, k)
<1>1. "stmt" \notin {"set"} /\ "stmt" \notin {"jmp", "endloop"} /\ "stmt" \notin {"endloop"}
  OBVIOUS
<1> QED
  BY <1>1, TargetsIn DEF TasksTargetsIn, Sets, Joins, Loops

LEMMA OneTarget ==
  ASSUME NEW t, NEW T, NEW C, \A dos : Targets(C, dos) = TargetOf(t, dos) \cup Targets(T, dos)
  PROVE  /\ Sets(C) = (IF t.do = "set" THEN {t.b} ELSE {}) \cup Sets(T)
         /\ Joins(C) = (IF t.do \in {"jmp", "endloop"} THEN {t.b} ELSE {}) \cup Joins(T)
         /\ Loops(C) = (IF t.do = "endloop" THEN {t.b} ELSE {}) \cup Loops(T)
<1>1. /\ Sets(C) = TargetOf(t, {"set"}) \cup Sets(T)
      /\ Joins(C) = TargetOf(t, {"jmp", "endloop"}) \cup Joins(T)
      /\ Loops(C) = TargetOf(t, {"endloop"}) \cup Loops(T)
  BY DEF Sets, Joins, Loops
<1> QED
  BY <1>1 DEF TargetOf

(* What a task takes from the invariant, and what it has to give back. *)
Due1 == Head(tasks)
Rest == Tail(tasks)

LEMMA NextTask ==
  ASSUME LowerOK(preds, code, mature, cur, tasks), tasks # <<>>
  PROVE  /\ GraphOK(preds, code, mature, cur)
         /\ TaskOK(Due1, Len(preds)) /\ TasksOK(Rest, Len(preds)) /\ Fits(Due1, Rest) /\ Fit(Rest)
         /\ Demands(Due1) => NoExit(preds, cur)
         /\ Sets(tasks) = (IF Due1.do = "set" THEN {Due1.b} ELSE {}) \cup Sets(Rest)
         /\ Joins(tasks) = (IF Due1.do \in {"jmp", "endloop"} THEN {Due1.b} ELSE {}) \cup Joins(Rest)
         /\ Loops(tasks) = (IF Due1.do = "endloop" THEN {Due1.b} ELSE {}) \cup Loops(Rest)
         /\ TasksTargetsIn(Rest, Len(preds))
<1>1. /\ GraphOK(preds, code, mature, cur) /\ TasksOK(tasks, Len(preds)) /\ Fit(tasks)
      /\ DemandsFirst(tasks) => NoExit(preds, cur)
  BY DEF LowerOK, Open
<1>2. /\ tasks[1] = Due1 /\ TaskOK(Due1, Len(preds)) /\ TasksOK(Rest, Len(preds)) /\ Fits(Due1, Rest) /\ Fit(Rest)
      /\ \A dos : Targets(tasks, dos) = TargetOf(Due1, dos) \cup Targets(Rest, dos)
  <2>1. Due1 = Head(tasks) /\ Rest = Tail(tasks)
    BY DEF Due1, Rest
  <2>2. FirstAndRest(tasks, Due1, Rest, Len(preds))
    BY <2>1, <1>1, Unconsed
  <2> QED
    BY <2>2 DEF FirstAndRest
<1>3. DemandsFirst(tasks) <=> Demands(Due1)
  BY <1>2 DEF DemandsFirst
<1>4. TasksTargetsIn(Rest, Len(preds))
  BY <1>2, AllTargetsIn
<1>5. /\ Sets(tasks) = (IF Due1.do = "set" THEN {Due1.b} ELSE {}) \cup Sets(Rest)
      /\ Joins(tasks) = (IF Due1.do \in {"jmp", "endloop"} THEN {Due1.b} ELSE {}) \cup Joins(Rest)
      /\ Loops(tasks) = (IF Due1.do = "endloop" THEN {Due1.b} ELSE {}) \cup Loops(Rest)
  BY <1>2, OneTarget, SMTT(60)
<1> QED
  BY <1>1, <1>2, <1>3, <1>4, <1>5

(* The invariant behind a step, in terms of the source before it. *)
NextOK == LowerOK(preds', code', mature', cur', tasks')

LEMMA CodeAppended ==
  ASSUME GraphOK(preds, code, mature, cur), NEW n \in Nat
  PROVE  /\ [code EXCEPT ![cur] = Append(@, n)] \in Seq(Seq(Nat))
         /\ Len([code EXCEPT ![cur] = Append(@, n)]) = Len(preds)
         /\ \A b \in 1..Len(preds) : b # cur => [code EXCEPT ![cur] = Append(@, n)][b] = code[b]
<1>1. code \in Seq(Seq(Nat)) /\ cur \in 1..Len(code) /\ Len(code) = Len(preds)
  BY DEF GraphOK
<1>2. code[cur] \in Seq(Nat)
  BY <1>1
<1> DEFINE a == Append(code[cur], n)
<1>3. a \in Seq(Nat)
  BY <1>2
<1>4. [code EXCEPT ![cur] = Append(@, n)] = [code EXCEPT ![cur] = a]
  OBVIOUS
<1> HIDE DEF a
<1>5. /\ [code EXCEPT ![cur] = a] \in Seq(Seq(Nat)) /\ Len([code EXCEPT ![cur] = a]) = Len(code)
      /\ \A b \in 1..Len(code) : b # cur => [code EXCEPT ![cur] = a][b] = code[b]
  BY <1>1, <1>3
<1> QED
  BY <1>1, <1>4, <1>5
-----------------------------------------------------------------------------
(*                           The visitor's steps                           *)

(* A step that takes a task and builds nothing new: only edges from the    *)
(* current block, if it is open, into one block that is not mature.        *)
LEMMA TaskDone ==
  ASSUME LowerOK(preds, code, mature, cur, tasks), tasks # <<>>, phase' = "lower", tasks' = Rest,
         NEW B, Grown(preds, preds', {cur}, B), B \cap mature = {}, Len(preds') = Len(preds),
         preds' = preds \/ Demands(Due1),
         code' \in Seq(Seq(Nat)), Len(code') = Len(preds),
         \A b \in 1..Len(preds) : code'[b] = code[b] \/ (b = cur /\ Demands(Due1)),
         cur' \in 1..Len(preds), mature' \subseteq 1..Len(preds), EndBlock \notin mature',
         DemandsFirst(Rest) => NoExit(preds', cur'), cur' \notin Sets(Rest),
         cur \notin Sets(Rest), Joins(Rest) \cap mature' = {},
         3..Len(preds) \subseteq mature' \cup Sets(Rest) \cup Loops(Rest)
  PROVE  NextOK /\ StaysClosed
<1>1. /\ GraphOK(preds, code, mature, cur) /\ TasksOK(Rest, Len(preds)) /\ Fit(Rest)
      /\ Demands(Due1) => NoExit(preds, cur)
      /\ Sets(Rest) \subseteq Sets(tasks)
  BY NextTask
<1>2. preds \in Seq(Seq(Edges)) /\ cur \in 1..Len(preds)
  BY <1>1 DEF GraphOK
<1>3. Grown(preds, preds', IF preds' = preds THEN {} ELSE {cur}, B)
  <2>1. CASE preds' = preds
    BY <2>1, <1>2, GrownNothing
  <2> QED
    BY <2>1
<1>4. \A b \in 1..Len(preds) : NoExit(preds, b) \/ code'[b] = code[b]
  BY <1>1
<1>5. \A b \in 1..Len(preds) : b \in (IF preds' = preds THEN {} ELSE {cur}) => NoExit(preds, b)
  BY <1>1
<1>6. StaysClosed
  BY <1>1, <1>3, <1>4, <1>5, StepCloses
<1>7. GraphOK(preds', code', mature', cur')
  <2>1. (\A b \in {cur} : b \in 1..Len(preds')) /\ mature' \subseteq 1..Len(preds') /\ cur' \in 1..Len(preds')
    BY <1>2
  <2>2. Len(code') = Len(preds')
    OBVIOUS
  <2> QED
    BY <2>1, <2>2, <1>1, GraphGrown
<1>8. ASSUME NEW b \in Sets(Rest) PROVE b # cur' /\ NoExit(preds', b)
  <2>1. NoExit(preds, b) /\ b \notin {cur}
    BY <1>1 DEF LowerOK, Open
  <2> QED
    BY <2>1, <1>2, GrownNoExit
<1>9. Open(preds', cur', Rest)
  BY <1>8 DEF Open
<1>10. Matured(preds', mature', Rest)
  BY DEF Matured
<1> QED
  BY <1>1, <1>6, <1>7, <1>9, <1>10 DEF NextOK, LowerOK

LEMMA StmtFacts ==
  ASSUME LowerOK(preds, code, mature, cur, tasks), Do("stmt")
  PROVE  /\ tasks # <<>> /\ Demands(Due1) /\ NoExit(preds, cur) /\ Due1.n \in 1..Len(stmts) /\ Visited(Due1.n)
         /\ Sets(Rest) = Sets(tasks) /\ Joins(Rest) = Joins(tasks) /\ Loops(Rest) = Loops(tasks)
         /\ ~Continues(Due1.n) => ~DemandsFirst(Rest)
<1>1. tasks # <<>> /\ Due1.do = "stmt"
  BY DEF Do, Due1
<1>2. Demands(Due1)
  BY <1>1 DEF Demands
<1>3. TaskOK(Due1, Len(preds)) /\ Fits(Due1, Rest) /\ NoExit(preds, cur)
  BY <1>1, <1>2, NextTask
<1>4. Sets(Rest) = Sets(tasks) /\ Joins(Rest) = Joins(tasks) /\ Loops(Rest) = Loops(tasks)
  BY <1>1, NextTask
<1>5. Due1.n \in 1..Len(stmts) /\ Visited(Due1.n)
  BY <1>1, <1>3 DEF TaskOK
<1>6. ~Continues(Due1.n) => ~DemandsFirst(Rest)
  BY <1>1, <1>3 DEF Fits
<1> QED
  BY <1>1, <1>2, <1>3, <1>4, <1>5, <1>6

LEMMA LowerFacts ==
  ASSUME LowerOK(preds, code, mature, cur, tasks)
  PROVE  /\ preds \in Seq(Seq(Edges)) /\ Len(preds) \in Nat /\ Len(preds) >= 2
         /\ code \in Seq(Seq(Nat)) /\ Len(code) = Len(preds) /\ cur \in 1..Len(preds)
         /\ mature \subseteq 1..Len(preds) /\ EndBlock \notin mature
         /\ GraphOK(preds, code, mature, cur)
         /\ cur \notin Sets(tasks) /\ Joins(tasks) \cap mature = {}
         /\ 3..Len(preds) \subseteq mature \cup Sets(tasks) \cup Loops(tasks)
  BY GraphTyped DEF LowerOK, GraphOK, Open, Matured

LEMMA LeavesCur ==
  ASSUME LowerOK(preds, code, mature, cur, tasks), NEW b \in 1..Len(preds), NEW on \in {"jmp", "ret"}
  PROVE  /\ Grown(preds, AddPred(preds, b, Edge(cur, on)), {cur}, {b})
         /\ Len(AddPred(preds, b, Edge(cur, on))) = Len(preds)
<1> DEFINE e == Edge(cur, on)
           X == {cur}
           B == {b}
<1>1. e \in Edges /\ e.src \in X /\ preds \in Seq(Seq(Edges)) /\ b \in B
  BY LowerFacts DEF Edges, Edge
<1> HIDE DEF e, X, B
<1>2. Grown(preds, AddPred(preds, b, e), X, B) /\ Len(AddPred(preds, b, e)) = Len(preds)
  BY <1>1, GrownEdge
<1> QED
  BY <1>2 DEF e, X, B

LEMMA ExprLowered ==
  ASSUME LowerOK(preds, code, mature, cur, tasks), LowerExpr
  PROVE  NextOK /\ StaysClosed
<1>1. /\ Do("stmt") /\ phase' = "lower" /\ tasks' = Rest /\ preds' = preds /\ mature' = mature /\ cur' = cur
      /\ code' = [code EXCEPT ![cur] = Append(@, Due1.n)]
  BY DEF LowerExpr, DoStmt, Do, Due1, Rest
<1>2. /\ tasks # <<>> /\ Demands(Due1) /\ NoExit(preds, cur) /\ Due1.n \in Nat
      /\ Sets(Rest) = Sets(tasks) /\ Joins(Rest) = Joins(tasks) /\ Loops(Rest) = Loops(tasks)
  BY <1>1, StmtFacts
<1>3. Grown(preds, preds', {cur}, {})
  BY <1>1, LowerFacts, GrownNothing
<1>4. code' \in Seq(Seq(Nat)) /\ Len(code') = Len(preds) /\ \A b \in 1..Len(preds) : b # cur => code'[b] = code[b]
  BY <1>1, <1>2, LowerFacts, CodeAppended
<1> QED
  BY <1>1, <1>2, <1>3, <1>4, LowerFacts, TaskDone

LEMMA ReturnLowered ==
  ASSUME SemaOK, LowerOK(preds, code, mature, cur, tasks), LowerReturn
  PROVE  NextOK /\ StaysClosed
<1>1. /\ Do("stmt") /\ phase' = "lower" /\ tasks' = Rest /\ mature' = mature /\ cur' = cur
      /\ code' = [code EXCEPT ![cur] = Append(@, Due1.n)] /\ Op(Due1.n) = "return"
      /\ preds' = AddPred(preds, EndBlock, Edge(cur, "ret"))
  BY DEF LowerReturn, DoStmt, Do, Due1, Rest
<1>2. /\ tasks # <<>> /\ Demands(Due1) /\ NoExit(preds, cur) /\ Due1.n \in 1..Len(stmts) /\ Visited(Due1.n)
      /\ Sets(Rest) = Sets(tasks) /\ Joins(Rest) = Joins(tasks) /\ Loops(Rest) = Loops(tasks)
      /\ ~Continues(Due1.n) => ~DemandsFirst(Rest)
  BY <1>1, StmtFacts
<1>3. ~DemandsFirst(Rest)
  <2>1. cfb[Due1.n] = "Return"
    BY <1>1, <1>2 DEF SemaOK
  <2>2. ~Continues(Due1.n)
    BY <2>1, <1>2 DEF Continues, CfbOf, NoStmt
  <2> QED
    BY <2>2, <1>2
<1>4. code' \in Seq(Seq(Nat)) /\ Len(code') = Len(preds) /\ \A b \in 1..Len(preds) : b # cur => code'[b] = code[b]
  <2>1. Due1.n \in Nat
    BY <1>2
  <2> QED
    BY <2>1, <1>1, LowerFacts, CodeAppended
<1>5. Grown(preds, preds', {cur}, {EndBlock}) /\ Len(preds') = Len(preds)
  <2>1. EndBlock \in 1..Len(preds)
    BY LowerFacts DEF EndBlock
  <2> QED
    BY <2>1, <1>1, LeavesCur
<1>6. {EndBlock} \cap mature = {}
  BY LowerFacts
<1> QED
  BY <1>1, <1>2, <1>3, <1>4, <1>5, <1>6, LowerFacts, TaskDone

LEMMA BlockSet ==
  ASSUME LowerOK(preds, code, mature, cur, tasks), SetCurBlock
  PROVE  NextOK /\ StaysClosed
<1>1. /\ tasks # <<>> /\ Due1.do = "set" /\ phase' = "lower" /\ tasks' = Rest /\ preds' = preds /\ code' = code
      /\ cur' = Due1.b /\ mature' = mature \cup {Due1.b}
  BY DEF SetCurBlock, Do, Due1, Rest
<1>2. /\ TaskOK(Due1, Len(preds)) /\ Fits(Due1, Rest)
      /\ Sets(tasks) = {Due1.b} \cup Sets(Rest) /\ Joins(tasks) = Joins(Rest) /\ Loops(tasks) = Loops(Rest)
  BY <1>1, NextTask
<1>3. Due1.b \in 3..Len(preds) /\ Due1.b \notin Sets(Rest) \cup Joins(Rest)
  BY <1>1, <1>2 DEF TaskOK, Fits
<1>4. Grown(preds, preds', {cur}, {})
  BY <1>1, LowerFacts, GrownNothing
<1>5. NoExit(preds, Due1.b)
  BY <1>2 DEF LowerOK, Open
<1>6. Due1.b \in 1..Len(preds) /\ Due1.b # EndBlock
  BY <1>3, LowerFacts, SMTT(60) DEF EndBlock
<1>7. Joins(Rest) \cap mature' = {} /\ 3..Len(preds) \subseteq mature' \cup Sets(Rest) \cup Loops(Rest)
  BY <1>1, <1>2, <1>3, LowerFacts
<1>8. mature' \subseteq 1..Len(preds) /\ EndBlock \notin mature' /\ cur \notin Sets(Rest) /\ cur' \notin Sets(Rest)
  BY <1>1, <1>2, <1>3, <1>6, LowerFacts
<1> QED
  BY <1>1, <1>4, <1>5, <1>6, <1>7, <1>8, LowerFacts, TaskDone

(* The jump at the end of a branch or of a loop's body, if there is one. *)
LEMMA Jumped ==
  ASSUME LowerOK(preds, code, mature, cur, tasks), tasks # <<>>, Due1.do \in {"jmp", "endloop"},
         NEW may \in BOOLEAN, may => Demands(Due1),
         preds' = IF may THEN AddPred(preds, Due1.b, Edge(cur, "jmp")) ELSE preds
  PROVE  /\ Grown(preds, preds', {cur}, {Due1.b}) /\ {Due1.b} \cap mature = {} /\ Len(preds') = Len(preds)
         /\ preds' = preds \/ Demands(Due1)
         /\ ~DemandsFirst(Rest) /\ Due1.b \in 3..Len(preds)
<1>1. /\ TaskOK(Due1, Len(preds)) /\ Fits(Due1, Rest) /\ Due1.b \in Joins(tasks)
  BY NextTask
<1>2. Due1.b \in 3..Len(preds) /\ Due1.b \in 1..Len(preds)
  BY <1>1 DEF TaskOK
<1>3. Rest # <<>> /\ Rest[1].do = "set"
  BY <1>1 DEF Fits
<1>4. ~DemandsFirst(Rest)
  BY <1>3 DEF DemandsFirst, Demands
<1>5. Grown(preds, preds', {cur}, {Due1.b}) /\ Len(preds') = Len(preds)
  <2>1. Grown(preds, preds, {cur}, {Due1.b})
    BY LowerFacts, GrownNothing
  <2> QED
    BY <2>1, <1>2, LeavesCur
<1> QED
  BY <1>1, <1>2, <1>4, <1>5, LowerFacts

LEMMA BranchJumped ==
  ASSUME LowerOK(preds, code, mature, cur, tasks), Jump
  PROVE  NextOK /\ StaysClosed
<1> DEFINE may == cfb[Due1.n] = "MayContinue"
<1>1. /\ tasks # <<>> /\ Due1.do = "jmp" /\ phase' = "lower" /\ tasks' = Rest /\ code' = code
      /\ cur' = cur /\ mature' = mature
      /\ preds' = IF may THEN AddPred(preds, Due1.b, Edge(cur, "jmp")) ELSE preds
  BY DEF Jump, Do, Due1, Rest
<1>2. /\ TaskOK(Due1, Len(preds)) /\ Sets(tasks) = Sets(Rest) /\ Joins(Rest) \subseteq Joins(tasks)
      /\ Loops(tasks) = Loops(Rest)
  BY <1>1, NextTask
<1>3. may => Demands(Due1)
  BY <1>1, <1>2 DEF TaskOK, Demands, Continues, CfbOf, NoStmt
<1> HIDE DEF may
<1>4. /\ Grown(preds, preds', {cur}, {Due1.b}) /\ {Due1.b} \cap mature = {} /\ Len(preds') = Len(preds)
      /\ preds' = preds \/ Demands(Due1)
      /\ ~DemandsFirst(Rest)
  <2>1. may \in BOOLEAN
    BY DEF may
  <2> QED
    BY <2>1, <1>1, <1>3, Jumped
<1> QED
  BY <1>1, <1>2, <1>4, LowerFacts, TaskDone

LEMMA LoopEnded ==
  ASSUME LowerOK(preds, code, mature, cur, tasks), LowerEndLoop
  PROVE  NextOK /\ StaysClosed
<1> DEFINE may == CfbOf(Due1.n) = "MayContinue"
<1>1. /\ tasks # <<>> /\ Due1.do = "endloop" /\ phase' = "lower" /\ tasks' = Rest /\ code' = code
      /\ cur' = cur /\ mature' = mature \cup {Due1.b}
      /\ preds' = IF may THEN AddPred(preds, Due1.b, Edge(cur, "jmp")) ELSE preds
  BY DEF LowerEndLoop, Do, Due1, Rest
<1>2. /\ Fits(Due1, Rest) /\ Sets(tasks) = Sets(Rest) /\ Joins(Rest) \subseteq Joins(tasks)
      /\ Loops(tasks) = {Due1.b} \cup Loops(Rest)
  BY <1>1, NextTask
<1>3. may => Demands(Due1)
  BY <1>1 DEF Demands, Continues
<1> HIDE DEF may
<1>4. /\ Grown(preds, preds', {cur}, {Due1.b}) /\ {Due1.b} \cap mature = {} /\ Len(preds') = Len(preds)
      /\ preds' = preds \/ Demands(Due1)
      /\ ~DemandsFirst(Rest) /\ Due1.b \in 3..Len(preds)
  <2>1. may \in BOOLEAN
    BY DEF may
  <2> QED
    BY <2>1, <1>1, <1>3, Jumped
<1>5. Due1.b \in 1..Len(preds) /\ Due1.b # EndBlock
  BY <1>4, LowerFacts DEF EndBlock
<1>6. Joins(Rest) \cap mature' = {} /\ 3..Len(preds) \subseteq mature' \cup Sets(Rest) \cup Loops(Rest)
  <2>1. Due1.b \notin Joins(Rest)
    BY <1>1, <1>2 DEF Fits
  <2> QED
    BY <2>1, <1>1, <1>2, LowerFacts
<1>7. mature' \subseteq 1..Len(preds) /\ EndBlock \notin mature' /\ cur \notin Sets(Rest)
  BY <1>1, <1>2, <1>5, LowerFacts
<1> QED
  BY <1>1, <1>4, <1>6, <1>7, LowerFacts, TaskDone

LEMMA MethodFinished ==
  ASSUME stmts # <<>>, SourceOK, LowerOK(preds, code, mature, cur, tasks), FinishMethod
  PROVE  StaysClosed
<1> DEFINE may == isVoid /\ cfb[1] = "MayContinue"
<1>1. /\ tasks = <<>> /\ code' = code /\ mature' = mature \cup {cur, EndBlock}
      /\ preds' = IF may THEN AddPred(preds, EndBlock, Edge(cur, "ret")) ELSE preds
  BY DEF FinishMethod
<1>2. may => NoExit(preds, cur)
  <2>1. may => DemandsFirst(tasks)
    BY <1>1 DEF DemandsFirst, Continues, CfbOf, NoStmt
  <2> QED
    BY <2>1 DEF LowerOK, Open
<1> HIDE DEF may
<1> DEFINE X == IF may THEN {cur} ELSE {}
<1>3. Grown(preds, preds', X, {EndBlock}) /\ Len(preds') = Len(preds)
  <2>1. EndBlock \in 1..Len(preds)
    BY LowerFacts DEF EndBlock
  <2>2. Grown(preds, preds, {}, {EndBlock})
    BY LowerFacts, GrownNothing
  <2> QED
    BY <2>1, <2>2, <1>1, LeavesCur
<1>4. DOMAIN preds' \ {FirstBlock} \subseteq mature'
  <2>1. Sets(tasks) = {} /\ Loops(tasks) = {}
    <3>1. Len(tasks) = 0
      BY <1>1
    <3>2. 1..Len(tasks) = {}
      BY <3>1
    <3> QED
      BY <3>2, TargetsAre DEF Sets, Loops
  <2>2. 3..Len(preds) \subseteq mature
    BY <2>1, LowerFacts
  <2>3. DOMAIN preds' = 1..Len(preds)
    BY <1>3 DEF Grown
  <2>4. \A b \in 1..Len(preds) : b = EndBlock \/ b = FirstBlock \/ b \in 3..Len(preds)
    BY LowerFacts DEF EndBlock, FirstBlock
  <2> QED
    BY <2>2, <2>3, <2>4, <1>1
<1>5. \A b \in 1..Len(preds) : b \in X => NoExit(preds, b)
  BY <1>2
<1> HIDE DEF X
<1>6. {EndBlock} \cap mature = {} /\ GraphOK(preds, code, mature, cur)
  BY LowerFacts
<1> QED
  BY <1>1, <1>3, <1>4, <1>5, <1>6, StepCloses

LEMMA TaskFields ==
  \A n, b : /\ StmtTask(n).do = "stmt" /\ StmtTask(n).n = n
            /\ SetBlock(b).do = "set" /\ SetBlock(b).b = b
            /\ JmpTo(n, b).do = "jmp" /\ JmpTo(n, b).n = n /\ JmpTo(n, b).b = b
            /\ EndLoop(n, b).do = "endloop" /\ EndLoop(n, b).n = n /\ EndLoop(n, b).b = b
  BY DEF StmtTask, SetBlock, JmpTo, EndLoop

LEMMA TasksTyped ==
  ASSUME NEW k \in Nat, NEW b \in 3..k
  PROVE  /\ TaskOK(SetBlock(b), k)
         /\ \A n \in Nat : TaskOK(EndLoop(n, b), k)
         /\ \A n \in 1..Len(stmts) : TaskOK(JmpTo(n, b), k) /\ (Visited(n) => TaskOK(StmtTask(n), k))
<1>1. \A n \in Nat : SetBlock(b) \in Chores /\ EndLoop(n, b) \in Chores /\ JmpTo(n, b) \in Chores /\ StmtTask(n) \in Chores
  BY DEF StmtTask, SetBlock, JmpTo, EndLoop, Chores, NoStmt
<1>2. TaskOK(SetBlock(b), k)
  BY <1>1, TaskFields DEF TaskOK
<1>3. ASSUME NEW n \in Nat PROVE TaskOK(EndLoop(n, b), k)
  BY <1>1, TaskFields DEF TaskOK
<1>4. ASSUME NEW n \in 1..Len(stmts) PROVE TaskOK(JmpTo(n, b), k) /\ (Visited(n) => TaskOK(StmtTask(n), k))
  BY <1>1, TaskFields DEF TaskOK
<1> QED
  BY <1>2, <1>3, <1>4

(* A statement that builds blocks: edges come from the current block and    *)
(* from new ones, and go into new ones.                                     *)
LEMMA StmtBuilt ==
  ASSUME LowerOK(preds, code, mature, cur, tasks), Do("stmt"), phase' = "lower",
         NEW X, NEW B, Grown(preds, preds', X, B), \A b \in X : b \in 1..Len(preds'),
         \A b \in 1..Len(preds) : b \in X => b = cur, B \cap mature = {},
         code' \in Seq(Seq(Nat)), Len(code') = Len(preds'), \A b \in 1..Len(preds) : b # cur => code'[b] = code[b],
         cur' \in 1..Len(preds'), mature' \subseteq 1..Len(preds'), EndBlock \notin mature',
         TasksOK(tasks', Len(preds')), Fit(tasks'), DemandsFirst(tasks') => NoExit(preds', cur'),
         \A b \in Sets(tasks') : b \notin X /\ b # cur' /\ (b \in Sets(Rest) \/ b \notin 1..Len(preds)),
         Matured(preds', mature', tasks')
  PROVE  NextOK /\ StaysClosed
<1>1. NoExit(preds, cur) /\ Sets(Rest) = Sets(tasks)
  BY StmtFacts
<1>2. preds \in Seq(Seq(Edges)) /\ GraphOK(preds, code, mature, cur)
  BY LowerFacts
<1>3. \A b \in 1..Len(preds) : b \in X => NoExit(preds, b)
  BY <1>1
<1>4. \A b \in 1..Len(preds) : NoExit(preds, b) \/ code'[b] = code[b]
  BY <1>1
<1>5. StaysClosed
  BY <1>2, <1>3, <1>4, StepCloses
<1>6. GraphOK(preds', code', mature', cur')
  BY <1>2, GraphGrown
<1>7. ASSUME NEW b \in Sets(tasks') PROVE b # cur' /\ NoExit(preds', b)
  <2>1. NoExit(preds, b)
    <3>1. ASSUME b \in Sets(Rest) PROVE NoExit(preds, b)
      BY <3>1, <1>1 DEF LowerOK, Open
    <3>2. ASSUME b \notin 1..Len(preds) PROVE NoExit(preds, b)
      BY <3>2, <1>2, NewNoExit
    <3> QED
      BY <3>1, <3>2
  <2>2. b \notin X
    OBVIOUS
  <2> QED
    BY <2>1, <2>2, <1>2, GrownNoExit
<1>8. Open(preds', cur', tasks')
  BY <1>7 DEF Open
<1> QED
  BY <1>5, <1>6, <1>8 DEF NextOK, LowerOK

LEMMA ChildFacts ==
  ASSUME SourceOK, SemaOK, NEW n \in 1..Len(stmts), NEW s \in Children(n)
  PROVE  s \in 1..Len(stmts) /\ s # NoStmt /\ (Visited(n) => Visited(s))
<1>1. stmts[n] \in Nodes /\ NodeOK(stmts[n], Len(stmts))
  BY DEF SourceOK
<1>2. stmts[n].kids \in Seq(Nat) /\ DOMAIN stmts[n].kids = 1..Len(stmts[n].kids)
  BY <1>1 DEF Nodes
<1>3. PICK i \in 1..Len(stmts[n].kids) : s = stmts[n].kids[i]
  BY <1>2 DEF Children, Range
<1>4. s \in 0..Len(stmts) /\ s # NoStmt
  BY <1>1, <1>3 DEF NodeOK, Children
<1>5. Visited(n) => Visited(s)
  BY DEF SemaOK
<1> QED
  BY <1>4, <1>5 DEF NoStmt

LEMMA BlockLowered ==
  ASSUME SourceOK, SemaOK, LowerOK(preds, code, mature, cur, tasks), LowerBlock
  PROVE  NextOK /\ StaysClosed
<1> DEFINE n == Due1.n
           ss == kept[n]
           P == [i \in 1..Len(ss) |-> StmtTask(ss[i])]
<1>1. /\ Do("stmt") /\ phase' = "lower" /\ preds' = preds /\ code' = code /\ mature' = mature /\ cur' = cur
      /\ Op(n) = "block" /\ tasks' = P \o Rest
  BY DEF LowerBlock, DoStmt, Do, Due1, Rest, blocks
<1>2. /\ tasks # <<>> /\ NoExit(preds, cur) /\ n \in 1..Len(stmts) /\ Visited(n)
      /\ Sets(Rest) = Sets(tasks) /\ Joins(Rest) = Joins(tasks) /\ Loops(Rest) = Loops(tasks)
      /\ ~Continues(n) => ~DemandsFirst(Rest)
  BY <1>1, StmtFacts
<1>3. TasksOK(Rest, Len(preds)) /\ Fit(Rest)
  BY <1>2, NextTask
<1>4. /\ ss \in Seq(Nat) /\ Len(ss) \in Nat /\ (\A i \in 1..Len(ss) : ss[i] \in Children(n))
      /\ \A i \in 1..Len(ss) : i < Len(ss) \/ cfb[n] = "MayContinue" => cfb[ss[i]] = "MayContinue"
  <2>1. kept[n] \in Seq(Nat) /\ KeptOK(n)
    BY <1>1, <1>2 DEF SemaOK
  <2> QED
    BY <2>1, <1>2 DEF KeptOK
<1> HIDE DEF n, ss
<1>5. ASSUME NEW i \in 1..Len(ss)
      PROVE  /\ ss[i] \in 1..Len(stmts) /\ ss[i] # NoStmt /\ Visited(ss[i])
             /\ StmtTask(ss[i]) \in Chores /\ TaskOK(StmtTask(ss[i]), Len(preds))
  <2>1. ss[i] \in 1..Len(stmts) /\ ss[i] # NoStmt /\ Visited(ss[i])
    BY <1>2, <1>4, ChildFacts
  <2>2. StmtTask(ss[i]) \in Chores
    BY <2>1 DEF StmtTask, Chores
  <2> QED
    BY <2>1, <2>2, TaskFields DEF TaskOK
<1>6. P \in Seq(Chores) /\ Len(P) = Len(ss) /\ \A i \in 1..Len(P) : P[i] = StmtTask(ss[i])
  BY <1>4, <1>5
<1> HIDE DEF P
<1>7. TasksOK(P, Len(preds))
  BY <1>5, <1>6 DEF TasksOK
<1>8. TasksOK(tasks', Len(preds))
  BY <1>1, <1>3, <1>7, TasksConcat
<1>9. ASSUME NEW i \in 1..Len(P) PROVE Fits(P[i], Behind(P \o Rest, i))
  <2>1. P[i].do = "stmt" /\ P[i].n = ss[i]
    BY <1>6, TaskFields
  <2>2. ASSUME ~Continues(ss[i]) PROVE ~DemandsFirst(Behind(P \o Rest, i))
    <3>1. cfb[ss[i]] # "MayContinue"
      BY <2>2, <1>5, <1>6 DEF Continues, CfbOf
    <3>2. ~(i < Len(ss)) /\ cfb[n] # "MayContinue"
      BY <3>1, <1>4, <1>6
    <3>3. i = Len(P)
      BY <3>2, <1>4, <1>6
    <3>4. ~Continues(n)
      BY <3>2, <1>2 DEF Continues, CfbOf, NoStmt
    <3>5. Behind(P \o Rest, Len(P) + 0) = Behind(Rest, 0) /\ Behind(Rest, 0) = Rest
      <4>1. Rest \in Seq(Chores) /\ 0 \in 0..Len(Rest)
        BY <1>3 DEF TasksOK
      <4>2. Behind(P \o Rest, Len(P) + 0) = Behind(Rest, 0)
        BY <4>1, <1>6, BehindConcat
      <4> QED
        BY <4>1, <4>2, BehindAll
    <3>6. Len(P) + 0 = i
      BY <3>3, <1>4, <1>6
    <3> QED
      BY <3>4, <3>5, <3>6, <1>2
  <2> QED
    BY <2>1, <2>2 DEF Fits
<1>10. Fit(tasks') /\ Rest \in Seq(Chores)
  <2>1. Rest \in Seq(Chores)
    BY <1>3 DEF TasksOK
  <2> QED
    BY <2>1, <1>1, <1>3, <1>6, <1>9, FitConcat
<1>11. Sets(tasks') = Sets(tasks) /\ Joins(tasks') = Joins(tasks) /\ Loops(tasks') = Loops(tasks)
  <2>1. ASSUME NEW dos, "stmt" \notin dos PROVE Targets(tasks', dos) = Targets(Rest, dos)
    <3>1. Targets(tasks', dos) = Targets(P, dos) \cup Targets(Rest, dos)
      BY <1>1, <1>6, <1>10, TargetsConcat
    <3>2. \A i \in 1..Len(P) : P[i].do \notin dos
      BY <1>6, <2>1, TaskFields
    <3>3. Targets(P, dos) = {}
      BY <3>2, TargetsAre
    <3> QED
      BY <3>1, <3>3
  <2>2. "stmt" \notin {"set"} /\ "stmt" \notin {"jmp", "endloop"} /\ "stmt" \notin {"endloop"}
    OBVIOUS
  <2> QED
    BY <2>1, <2>2, <1>2 DEF Sets, Joins, Loops
<1>12. Matured(preds', mature', tasks')
  BY <1>1, <1>11 DEF LowerOK, Matured
<1>13. Grown(preds, preds', {}, {})
  BY <1>1, LowerFacts, GrownNothing
<1>14. \A b \in Sets(tasks') : b \notin {} /\ b # cur' /\ (b \in Sets(Rest) \/ b \notin 1..Len(preds))
  BY <1>1, <1>2, <1>11, LowerFacts
<1>15. TasksOK(tasks', Len(preds')) /\ (DemandsFirst(tasks') => NoExit(preds', cur'))
  BY <1>1, <1>2, <1>8
<1>16. /\ cur' \in 1..Len(preds') /\ mature' \subseteq 1..Len(preds') /\ EndBlock \notin mature'
       /\ code' \in Seq(Seq(Nat)) /\ Len(code') = Len(preds') /\ \A b \in 1..Len(preds) : b # cur => code'[b] = code[b]
  BY <1>1, LowerFacts
<1> QED
  BY <1>1, <1>10, <1>12, <1>13, <1>14, <1>15, <1>16, StmtBuilt, SMTT(60)

(* Task t in front of the tasks T. *)
Chain(C, t, T, k) ==
  /\ TasksOK(C, k) /\ Fit(C) /\ C # <<>> /\ C[1] = t
  /\ Sets(C) = (IF t.do = "set" THEN {t.b} ELSE {}) \cup Sets(T)
  /\ Joins(C) = (IF t.do \in {"jmp", "endloop"} THEN {t.b} ELSE {}) \cup Joins(T)
  /\ Loops(C) = (IF t.do = "endloop" THEN {t.b} ELSE {}) \cup Loops(T)

LEMMA ChainIs == ASSUME NEW k, NEW t, NEW T, NEW C, TaskAndMore(C, t, T, k) PROVE Chain(C, t, T, k)
<1>1. \A dos : Targets(C, dos) = TargetOf(t, dos) \cup Targets(T, dos)
  BY DEF TaskAndMore
<1>2. /\ Sets(C) = (IF t.do = "set" THEN {t.b} ELSE {}) \cup Sets(T)
      /\ Joins(C) = (IF t.do \in {"jmp", "endloop"} THEN {t.b} ELSE {}) \cup Joins(T)
      /\ Loops(C) = (IF t.do = "endloop" THEN {t.b} ELSE {}) \cup Loops(T)
  <2>1. /\ Targets(C, {"set"}) = TargetOf(t, {"set"}) \cup Targets(T, {"set"})
        /\ Targets(C, {"jmp", "endloop"}) = TargetOf(t, {"jmp", "endloop"}) \cup Targets(T, {"jmp", "endloop"})
        /\ Targets(C, {"endloop"}) = TargetOf(t, {"endloop"}) \cup Targets(T, {"endloop"})
    BY <1>1
  <2> QED
    BY <2>1 DEF Sets, Joins, Loops, TargetOf
<1> QED
  BY <1>2 DEF Chain, TaskAndMore

LEMMA Chained ==
  ASSUME NEW k, NEW t, TaskOK(t, k), NEW T, TasksOK(T, k), Fit(T), Fits(t, T), NEW C, C = <<t>> \o T
  PROVE  Chain(C, t, T, k)
<1>1. TaskAndMore(C, t, T, k)
  BY Consed
<1> QED
  BY <1>1, ChainIs

LEMMA AppendedTuples ==
  ASSUME NEW S, NEW a \in S, NEW b \in S, NEW c \in S
  PROVE  Append(<<a>>, b) = <<a, b>> /\ Append(<<a, b>>, c) = <<a, b, c>>
<1>1. /\ <<a>> \in Seq(S) /\ <<a, b>> \in Seq(S) /\ Append(<<a>>, b) \in Seq(S)
      /\ <<a, b, c>> \in Seq(S) /\ Append(<<a, b>>, c) \in Seq(S)
  OBVIOUS
<1>2. /\ Len(<<a, b>>) = 2 /\ Len(Append(<<a>>, b)) = 2 /\ Len(<<a, b, c>>) = 3 /\ Len(Append(<<a, b>>, c)) = 3
  OBVIOUS
<1>3. \A i \in 1..2 : <<a, b>>[i] = Append(<<a>>, b)[i]
  OBVIOUS
<1>4. \A i \in 1..3 : <<a, b, c>>[i] = Append(<<a, b>>, c)[i]
  OBVIOUS
<1>5. Append(<<a>>, b) = <<a, b>>
  BY <1>1, <1>2, <1>3, SeqEqual
<1>6. Append(<<a, b>>, c) = <<a, b, c>>
  BY <1>1, <1>2, <1>4, SeqEqual
<1> QED
  BY <1>5, <1>6

LEMMA TwoInFront ==
  ASSUME NEW a \in Chores, NEW b \in Chores, NEW T \in Seq(Chores)
  PROVE  <<a, b>> \o T = <<a>> \o (<<b>> \o T)
<1> DEFINE x == <<a>>
           y == <<b>>
<1>1. x \in Seq(Chores) /\ y \in Seq(Chores) /\ Append(x, b) = <<a, b>>
  <2>1. x \in Seq(Chores) /\ y \in Seq(Chores)
    OBVIOUS
  <2>2. Append(x, b) = <<a, b>>
    BY AppendedTuples
  <2> QED
    BY <2>1, <2>2
<1>2. Append(x, b) = x \o y
  BY <1>1, AppendIsConcat
<1> HIDE DEF x, y
<1>3. (x \o y) \o T = x \o (y \o T)
  BY <1>1, ConcatAssociative
<1>4. <<a, b>> \o T = x \o (y \o T)
  BY <1>1, <1>2, <1>3, Zenon
<1> QED
  BY <1>4, Zenon DEF x, y

LEMMA ThreeInFront ==
  ASSUME NEW a \in Chores, NEW b \in Chores, NEW c \in Chores, NEW T \in Seq(Chores)
  PROVE  <<a, b, c>> \o T = <<a>> \o (<<b>> \o (<<c>> \o T))
<1> DEFINE x == <<a, b>>
           y == <<c>>
           u == y \o T
<1>1. x \in Seq(Chores) /\ y \in Seq(Chores) /\ Append(x, c) = <<a, b, c>> /\ u \in Seq(Chores)
  <2>1. x \in Seq(Chores) /\ y \in Seq(Chores)
    OBVIOUS
  <2>2. Append(x, c) = <<a, b, c>>
    BY AppendedTuples
  <2>3. u \in Seq(Chores)
    OBVIOUS
  <2> QED
    BY <2>1, <2>2, <2>3
<1>2. Append(x, c) = x \o y
  BY <1>1, AppendIsConcat
<1>3. u \in Seq(Chores) => x \o u = <<a>> \o (<<b>> \o u)
  <2> HIDE DEF u
  <2> QED
    BY TwoInFront, Zenon
<1> HIDE DEF x, y
<1>4. (x \o y) \o T = x \o u
  BY <1>1, ConcatAssociative
<1>5. <<a, b, c>> \o T = <<a>> \o (<<b>> \o u)
  <2> HIDE DEF u
  <2> QED
    BY <1>1, <1>2, <1>3, <1>4, Zenon
<1> QED
  BY <1>5, Zenon DEF y, u

Branch(s, b, j) == IF s # NoStmt THEN <<SetBlock(b), StmtTask(s), JmpTo(s, j)>> ELSE <<>>

(* A branch in block b that ends in a jump to block j, before the tasks T. *)
Branched(C, T, s, b, j, k) ==
  /\ TasksOK(C, k) /\ Fit(C) /\ C # <<>> /\ C[1].do = "set"
  /\ Sets(C) = (IF s # NoStmt THEN {b} ELSE {}) \cup Sets(T)
  /\ Joins(C) \subseteq {j} \cup Joins(T)
  /\ Loops(C) = Loops(T)

LEMMA BranchFits ==
  ASSUME NEW k \in Nat, NEW T, TasksOK(T, k), Fit(T), T # <<>>, T[1].do = "set",
         NEW s \in 0..Len(stmts), NEW b, NEW j \in 3..k,
         s # NoStmt => Visited(s) /\ b \in 3..k /\ b # j /\ b \notin Sets(T) \cup Joins(T),
         NEW C, C = Branch(s, b, j) \o T
  PROVE  Branched(C, T, s, b, j, k)
<1>1. T \in Seq(Chores)
  BY DEF TasksOK
<1>2. CASE s = NoStmt
  <2>1. C = T
    BY <1>1, <1>2 DEF Branch
  <2> QED
    BY <2>1, <1>2 DEF Branched
<1>3. CASE s # NoStmt
  <2> DEFINE c == JmpTo(s, j)
             t == StmtTask(s)
             a == SetBlock(b)
             T1 == <<c>> \o T
             T2 == <<t>> \o T1
             T3 == <<a>> \o T2
  <2>1. s \in 1..Len(stmts) /\ Visited(s) /\ b \in 3..k
    BY <1>3 DEF NoStmt
  <2>2. TaskOK(c, k) /\ TaskOK(t, k) /\ TaskOK(a, k)
    BY <2>1, TasksTyped
  <2>3. /\ c.do = "jmp" /\ c.n = s /\ c.b = j /\ t.do = "stmt" /\ t.n = s /\ a.do = "set" /\ a.b = b
    BY TaskFields
  <2>4. C = T3
    <3>1. C = <<a, t, c>> \o T
      BY <1>3 DEF Branch
    <3>2. a \in Chores /\ t \in Chores /\ c \in Chores
      BY <2>2 DEF TaskOK
    <3> HIDE DEF a, t, c
    <3>3. <<a, t, c>> \o T = <<a>> \o (<<t>> \o (<<c>> \o T))
      BY <3>2, <1>1, ThreeInFront, ZenonT(60)
    <3> QED
      BY <3>1, <3>3, Zenon
  <2> HIDE DEF a, t, c, T1, T2, T3
  <2>5. Chain(T1, c, T, k)
    <3>1. Fits(c, T)
      BY <2>3 DEF Fits
    <3>2. T1 = <<c>> \o T
      BY DEF T1
    <3> QED
      BY <3>1, <3>2, <2>2, Chained
  <2>6. Chain(T2, t, T1, k)
    <3>1. Fits(t, T1)
      <4>1. ~Continues(s) => ~DemandsFirst(T1)
        BY <2>3, <2>5 DEF Chain, DemandsFirst, Demands
      <4> QED
        BY <4>1, <2>3 DEF Fits
    <3>2. T2 = <<t>> \o T1
      BY DEF T2
    <3>3. TasksOK(T1, k) /\ Fit(T1)
      BY <2>5 DEF Chain
    <3> QED
      BY <3>1, <3>2, <3>3, <2>2, Chained
  <2>7. Sets(T2) = Sets(T) /\ Joins(T2) = {j} \cup Joins(T) /\ Loops(T2) = Loops(T)
    BY <2>3, <2>5, <2>6 DEF Chain
  <2>8. Chain(T3, a, T2, k)
    <3>1. Fits(a, T2)
      BY <2>3, <2>7, <1>3 DEF Fits
    <3>2. T3 = <<a>> \o T2
      BY DEF T3
    <3>3. TasksOK(T2, k) /\ Fit(T2)
      BY <2>6 DEF Chain
    <3> QED
      BY <3>1, <3>2, <3>3, <2>2, Chained
  <2>9. /\ TasksOK(C, k) /\ Fit(C) /\ C # <<>> /\ C[1] = a
        /\ Sets(C) = {b} \cup Sets(T2) /\ Joins(C) = Joins(T2) /\ Loops(C) = Loops(T2)
    BY <2>3, <2>4, <2>8 DEF Chain
  <2> QED
    BY <2>3, <2>7, <2>9, <1>3 DEF Branched
<1> QED
  BY <1>2, <1>3

(* The edges that a condition makes. *)
LEMMA CondEdgesFacts ==
  ASSUME SourceOK, NEW n \in 1..Len(stmts), cur \in Nat
  PROVE  /\ CondEdges(n)[1] \in Edges /\ CondEdges(n)[1].src = cur
         /\ CondEdges(n)[2] \in Edges /\ CondEdges(n)[2].src = cur
<1>1. Cond(n) \in {"c", "true", "false"}
  <2>1. stmts[n] \in Nodes
    BY DEF SourceOK
  <2> QED
    BY <2>1 DEF Nodes, Cond
<1> QED
  BY <1>1 DEF CondEdges, Edge, Edges

LEMMA EvaluateFacts ==
  ASSUME GraphOK(preds, code, mature, cur), NEW n \in Nat
  PROVE  /\ Evaluate(n, cur) \in Seq(Seq(Nat)) /\ Len(Evaluate(n, cur)) = Len(preds)
         /\ \A b \in 1..Len(preds) : b # cur => Evaluate(n, cur)[b] = code[b]
<1>1. code \in Seq(Seq(Nat)) /\ Len(code) = Len(preds)
  BY DEF GraphOK
<1>2. CASE Cond(n) = "c"
  BY <1>2, CodeAppended DEF Evaluate
<1>3. CASE Cond(n) # "c"
  BY <1>1, <1>3 DEF Evaluate
<1> QED
  BY <1>2, <1>3

(* The blocks before and after adding k of them and two edges. *)
LEMMA TwoEdges ==
  ASSUME NEW p \in Seq(Seq(Edges)), NEW k \in Nat, NEW X, NEW B,
         NEW b1 \in 1..(Len(p) + k), NEW e1 \in Edges, e1.src \in X, b1 \in B,
         NEW b2 \in 1..(Len(p) + k), NEW e2 \in Edges, e2.src \in X, b2 \in B,
         NEW q, q = AddPred(AddPred(Grow(p, k), b1, e1), b2, e2)
  PROVE  Grown(p, q, X, B) /\ Len(q) = Len(p) + k
<1> DEFINE g == Grow(p, k)
           h == AddPred(g, b1, e1)
<1>1. Grown(p, g, X, B) /\ Len(g) = Len(p) + k
  BY GrownBlocks
<1>2. g \in Seq(Seq(Edges))
  BY <1>1 DEF Grown
<1>3. q = AddPred(h, b2, e2)
  OBVIOUS
<1> HIDE DEF g
<1>4. Grown(g, h, X, B) /\ Len(h) = Len(p) + k
  BY <1>1, <1>2, GrownEdge
<1>5. h \in Seq(Seq(Edges))
  BY <1>4 DEF Grown
<1> HIDE DEF h
<1>6. Grown(h, q, X, B) /\ Len(q) = Len(p) + k
  <2>1. b2 \in 1..Len(h)
    BY <1>4
  <2>2. Grown(h, AddPred(h, b2, e2), X, B) /\ Len(AddPred(h, b2, e2)) = Len(h)
    BY <2>1, <1>5, GrownEdge
  <2> QED
    BY <2>2, <1>3, <1>4
<1>7. Grown(p, h, X, B)
  BY <1>1, <1>4, GrownFurther
<1> QED
  BY <1>6, <1>7, GrownFurther

(* The blocks of an if statement with k blocks before it. *)
LEMMA IfBlocks ==
  ASSUME NEW k \in Nat, k >= 2, NEW h1 \in BOOLEAN, NEW h2 \in BOOLEAN,
         NEW after, after = k + 1, NEW tb, tb = IF h1 THEN after + 1 ELSE after,
         NEW eb, eb = IF h2 THEN tb + 1 ELSE after,
         NEW new, new = 1 + (IF h1 THEN 1 ELSE 0) + (IF h2 THEN 1 ELSE 0)
  PROVE  /\ new \in Nat /\ after \in 3..(k + new) /\ tb \in 3..(k + new) /\ eb \in 3..(k + new)
         /\ after > k /\ tb > k /\ eb > k
         /\ tb # after <=> h1
         /\ eb # after <=> h2
         /\ h1 /\ h2 => eb # tb
         /\ \A b \in 3..(k + new) : b <= k \/ b = after \/ b = tb \/ b = eb
<1>1. CASE h1 /\ h2
  BY <1>1
<1>2. CASE h1 /\ ~h2
  BY <1>2
<1>3. CASE ~h1 /\ h2
  BY <1>3
<1>4. CASE ~h1 /\ ~h2
  BY <1>4
<1> QED
  BY <1>1, <1>2, <1>3, <1>4

LEMMA BranchesOfIf ==
  ASSUME SourceOK, SemaOK, NEW n \in 1..Len(stmts), Visited(n), Op(n) = "if"
  PROVE  /\ Then(n) \in 0..Len(stmts) /\ (Then(n) # NoStmt => Visited(Then(n)))
         /\ Else(n) \in 0..Len(stmts) /\ (Else(n) # NoStmt => Visited(Else(n)))
<1>1. stmts[n] \in Nodes /\ NodeOK(stmts[n], Len(stmts))
  BY DEF SourceOK
<1>2. stmts[n].kids \in Seq(Nat) /\ Len(stmts[n].kids) = 2
  BY <1>1 DEF Nodes, NodeOK, Op
<1>3. Then(n) \in 0..Len(stmts) /\ Else(n) \in 0..Len(stmts)
  BY <1>1, <1>2 DEF NodeOK, Then, Else
<1>4. Then(n) \in Range(stmts[n].kids) /\ Else(n) \in Range(stmts[n].kids)
  BY <1>2 DEF Then, Else, Range
<1>5. \A s \in Children(n) : Visited(s)
  BY DEF SemaOK
<1> QED
  BY <1>3, <1>4, <1>5 DEF Children

LEMMA BodyOfWhile ==
  ASSUME SourceOK, SemaOK, NEW n \in 1..Len(stmts), Visited(n), Op(n) = "while"
  PROVE  Body(n) \in 0..Len(stmts) /\ (Body(n) # NoStmt => Visited(Body(n)))
<1>1. stmts[n] \in Nodes /\ NodeOK(stmts[n], Len(stmts))
  BY DEF SourceOK
<1>2. stmts[n].kids \in Seq(Nat) /\ Len(stmts[n].kids) = 1
  BY <1>1 DEF Nodes, NodeOK, Op
<1>3. Body(n) \in 0..Len(stmts)
  BY <1>1, <1>2 DEF NodeOK, Body
<1>4. Body(n) \in Range(stmts[n].kids)
  BY <1>2 DEF Body, Range
<1>5. \A s \in Children(n) : Visited(s)
  BY DEF SemaOK
<1> QED
  BY <1>3, <1>4, <1>5 DEF Children

(* The block after a statement, where code goes on, before the tasks T. *)
AfterSet(C, T, after, l) ==
  /\ TasksOK(C, l) /\ Fit(C) /\ C # <<>> /\ C[1].do = "set"
  /\ Sets(C) = {after} \cup Sets(T) /\ Joins(C) = Joins(T) /\ Loops(C) = Loops(T)

LEMMA AfterFits ==
  ASSUME NEW k \in Nat, NEW l \in Nat, k <= l, NEW T, TasksOK(T, k), Fit(T),
         NEW after \in 3..l, after > k, NEW C, C = <<SetBlock(after)>> \o T
  PROVE  AfterSet(C, T, after, l)
<1> DEFINE t == SetBlock(after)
<1>1. TaskOK(t, l) /\ t.do = "set" /\ t.b = after
  BY TasksTyped, TaskFields
<1>2. C = <<t>> \o T
  OBVIOUS
<1> HIDE DEF t
<1>3. TasksOK(T, l)
  BY TasksMore
<1>4. after \notin Sets(T) \cup Joins(T)
  BY AllTargetsIn DEF TasksTargetsIn
<1>5. Fits(t, T)
  BY <1>1, <1>4 DEF Fits
<1>6. Chain(C, t, T, l)
  BY <1>1, <1>2, <1>3, <1>5, Chained
<1> QED
  BY <1>1, <1>6 DEF Chain, AfterSet

Regroups(a, b, s, T) == ((a \o b) \o s) \o T = a \o (b \o (s \o T))

LEMMA FourConcat ==
  ASSUME NEW a \in Seq(Chores), NEW b \in Seq(Chores), NEW s \in Seq(Chores), NEW T \in Seq(Chores)
  PROVE  Regroups(a, b, s, T)
<1> DEFINE ab == a \o b
           u == s \o T
<1>1. ab \in Seq(Chores) /\ u \in Seq(Chores)
  BY ConcatProperties
<1> HIDE DEF ab, u
<1>2. (ab \o s) \o T = ab \o (s \o T)
  BY <1>1, ConcatAssociative, SMTT(60)
<1>3. (a \o b) \o u = a \o (b \o u)
  BY <1>1, ConcatAssociative, SMTT(60)
<1> QED
  BY <1>2, <1>3, Zenon DEF ab, u, Regroups

IfList(s1, s2, tb, eb, after, T) ==
  Branch(s1, tb, after) \o Branch(s2, eb, after) \o <<SetBlock(after)>> \o T

IfListIs(s1, s2, tb, eb, after, T) ==
  IfList(s1, s2, tb, eb, after, T)
    = Branch(s1, tb, after) \o (Branch(s2, eb, after) \o (<<SetBlock(after)>> \o T))

LEMMA IfTasksAre ==
  ASSUME NEW s1 \in Nat, NEW s2 \in Nat, NEW tb \in Nat, NEW eb \in Nat, NEW after \in Nat, NEW T \in Seq(Chores)
  PROVE  IfListIs(s1, s2, tb, eb, after, T)
<1> DEFINE a == Branch(s1, tb, after)
           b == Branch(s2, eb, after)
           s == <<SetBlock(after)>>
<1>1. ASSUME NEW x \in Nat, NEW y \in Nat PROVE Branch(x, y, after) \in Seq(Chores)
  <2>1. SetBlock(y) \in Chores /\ StmtTask(x) \in Chores /\ JmpTo(x, after) \in Chores
    BY DEF SetBlock, StmtTask, JmpTo, Chores, NoStmt
  <2> QED
    BY <2>1 DEF Branch
<1>2. a \in Seq(Chores) /\ b \in Seq(Chores)
  BY <1>1
<1>3. s \in Seq(Chores)
  BY DEF SetBlock, Chores, NoStmt
<1> HIDE DEF a, b, s
<1>4. Regroups(a, b, s, T)
  <2>1. a \in Seq(Chores) /\ b \in Seq(Chores) /\ s \in Seq(Chores)
    BY <1>2, <1>3
  <2> QED
    BY <2>1, FourConcat
<1> QED
  BY <1>4, Zenon DEF a, b, s, IfList, IfListIs, Regroups

IfTasks(C, T, k, new, after, tb, eb, s1, s2) ==
  /\ TasksOK(C, k + new) /\ Fit(C) /\ ~DemandsFirst(C)
  /\ Sets(C) = {after} \cup (IF s1 # NoStmt THEN {tb} ELSE {}) \cup (IF s2 # NoStmt THEN {eb} ELSE {}) \cup Sets(T)
  /\ Joins(C) \subseteq {after} \cup Joins(T)
  /\ Loops(C) = Loops(T)

LEMMA IfTasksFit ==
  ASSUME NEW k \in Nat, k >= 2, NEW s1 \in 0..Len(stmts), NEW s2 \in 0..Len(stmts),
         s1 # NoStmt => Visited(s1), s2 # NoStmt => Visited(s2),
         NEW after, after = k + 1, NEW tb, tb = IF s1 # NoStmt THEN after + 1 ELSE after,
         NEW eb, eb = IF s2 # NoStmt THEN tb + 1 ELSE after,
         NEW new, new = 1 + (IF s1 # NoStmt THEN 1 ELSE 0) + (IF s2 # NoStmt THEN 1 ELSE 0),
         NEW T, TasksOK(T, k), Fit(T),
         NEW C, C = IfList(s1, s2, tb, eb, after, T)
  PROVE  IfTasks(C, T, k, new, after, tb, eb, s1, s2)
<1> DEFINE h1 == s1 # NoStmt
           h2 == s2 # NoStmt
           l == k + new
           t == SetBlock(after)
           T1 == <<t>> \o T
           T2 == Branch(s2, eb, after) \o T1
           T3 == Branch(s1, tb, after) \o T2
<1>1. /\ new \in Nat /\ after \in 3..l /\ tb \in 3..l /\ eb \in 3..l /\ after > k /\ tb > k /\ eb > k
      /\ (tb # after <=> h1) /\ (eb # after <=> h2) /\ (h1 /\ h2 => eb # tb)
  BY IfBlocks
<1>2. l \in Nat /\ k <= l
  BY <1>1
<1>3. TasksTargetsIn(T, k)
  BY AllTargetsIn
<1> HIDE DEF h1, h2, l
<1>4. /\ TasksOK(T1, l) /\ Fit(T1) /\ T1 # <<>> /\ T1[1].do = "set"
      /\ Sets(T1) = {after} \cup Sets(T) /\ Joins(T1) = Joins(T) /\ Loops(T1) = Loops(T)
  <2>1. T1 = <<SetBlock(after)>> \o T
    OBVIOUS
  <2> HIDE DEF T1
  <2>2. AfterSet(T1, T, after, l)
    BY <2>1, <1>1, <1>2, AfterFits
  <2> QED
    BY <2>2 DEF AfterSet
<1>5. tb \notin Sets(T) \cup Joins(T) /\ eb \notin Sets(T) \cup Joins(T)
  BY <1>1, <1>3 DEF TasksTargetsIn
<1> HIDE DEF T1
<1>6. Branched(T2, T1, s2, eb, after, l)
  <2>1. s2 # NoStmt => Visited(s2) /\ eb \in 3..l /\ eb # after /\ eb \notin Sets(T1) \cup Joins(T1)
    BY <1>1, <1>4, <1>5 DEF h2
  <2>2. T2 = Branch(s2, eb, after) \o T1
    OBVIOUS
  <2> HIDE DEF T2
  <2> QED
    BY <2>1, <2>2, <1>1, <1>2, <1>4, BranchFits
<1> HIDE DEF T2
<1>7. Branched(T3, T2, s1, tb, after, l)
  <2>1. s1 # NoStmt => tb \notin Sets(T2) \cup Joins(T2)
    <3>1. Sets(T2) = (IF s2 # NoStmt THEN {eb} ELSE {}) \cup Sets(T1) /\ Joins(T2) \subseteq {after} \cup Joins(T1)
      BY <1>6 DEF Branched
    <3>2. s1 # NoStmt => tb # after /\ (s2 # NoStmt => tb # eb)
      BY <1>1 DEF h1, h2
    <3> QED
      BY <3>1, <3>2, <1>4, <1>5
  <2>2. s1 # NoStmt => Visited(s1) /\ tb \in 3..l /\ tb # after /\ tb \notin Sets(T2) \cup Joins(T2)
    BY <2>1, <1>1 DEF h1
  <2>3. T3 = Branch(s1, tb, after) \o T2
    OBVIOUS
  <2>4. TasksOK(T2, l) /\ Fit(T2) /\ T2 # <<>> /\ T2[1].do = "set"
    BY <1>6 DEF Branched
  <2> HIDE DEF T3
  <2> QED
    BY <2>2, <2>3, <2>4, <1>1, <1>2, BranchFits
<1>8. C = T3
  <2>1. after \in Nat /\ tb \in Nat /\ eb \in Nat /\ s1 \in Nat /\ s2 \in Nat
    BY <1>1, <1>2
  <2>2. T \in Seq(Chores)
    BY DEF TasksOK
  <2>3. T3 = Branch(s1, tb, after) \o (Branch(s2, eb, after) \o (<<SetBlock(after)>> \o T))
    BY DEF T1, T2
  <2> HIDE DEF T3
  <2>4. IfListIs(s1, s2, tb, eb, after, T)
    BY <2>1, <2>2, IfTasksAre
  <2> QED
    BY <2>3, <2>4, Zenon DEF IfListIs
<1> HIDE DEF T3, t
<1>9. ~DemandsFirst(T3)
  BY <1>7 DEF Branched, DemandsFirst, Demands
<1>10. Sets(T3) = {after} \cup (IF s1 # NoStmt THEN {tb} ELSE {}) \cup (IF s2 # NoStmt THEN {eb} ELSE {}) \cup Sets(T)
  BY <1>4, <1>6, <1>7 DEF Branched
<1>11. Joins(T3) \subseteq {after} \cup Joins(T) /\ Loops(T3) = Loops(T)
  BY <1>4, <1>6, <1>7 DEF Branched
<1>12. TasksOK(T3, k + new) /\ Fit(T3)
  BY <1>7 DEF Branched, l
<1>13. IfTasks(T3, T, k, new, after, tb, eb, s1, s2)
  BY <1>9, <1>10, <1>11, <1>12 DEF IfTasks
<1> QED
  BY <1>8, <1>13, Zenon

LEMMA IfLowered ==
  ASSUME SourceOK, SemaOK, LowerOK(preds, code, mature, cur, tasks), LowerIf
  PROVE  NextOK /\ StaysClosed
<1> DEFINE n == Due1.n
           s1 == Then(n)
           s2 == Else(n)
           k == Len(preds)
           after == k + 1
           tb == IF s1 # NoStmt THEN after + 1 ELSE after
           eb == IF s2 # NoStmt THEN tb + 1 ELSE after
           e1 == CondEdges(n)[1]
           e2 == CondEdges(n)[2]
           new == 1 + (IF s1 # NoStmt THEN 1 ELSE 0) + (IF s2 # NoStmt THEN 1 ELSE 0)
           ev == Evaluate(n, cur)
<1>1. /\ Do("stmt") /\ phase' = "lower" /\ Op(n) = "if" /\ cur' = cur
      /\ preds' = AddPred(AddPred(Grow(preds, new), tb, e1), eb, e2)
      /\ code' = Grow(ev, new)
      /\ mature' = mature \cup ({tb, eb} \ {after})
      /\ tasks' = IfList(s1, s2, tb, eb, after, Rest)
  BY DEF LowerIf, DoStmt, Do, Due1, Rest, IfList, Branch
<1>2. /\ tasks # <<>> /\ n \in 1..Len(stmts) /\ Visited(n)
      /\ Sets(Rest) = Sets(tasks) /\ Joins(Rest) = Joins(tasks) /\ Loops(Rest) = Loops(tasks)
  BY <1>1, StmtFacts
<1>3. TasksOK(Rest, k) /\ Fit(Rest) /\ TasksTargetsIn(Rest, k)
  BY <1>2, NextTask
<1>4. /\ s1 \in 0..Len(stmts) /\ (s1 # NoStmt => Visited(s1)) /\ s2 \in 0..Len(stmts) /\ (s2 # NoStmt => Visited(s2))
  BY <1>1, <1>2, BranchesOfIf
<1>5. e1 \in Edges /\ e1.src = cur /\ e2 \in Edges /\ e2.src = cur
  <2>1. cur \in Nat
    BY LowerFacts
  <2> QED
    BY <2>1, <1>2, CondEdgesFacts
<1>6. ev \in Seq(Seq(Nat)) /\ Len(ev) = k /\ \A b \in 1..k : b # cur => ev[b] = code[b]
  <2>1. n \in Nat
    BY <1>2
  <2> QED
    BY <2>1, LowerFacts, EvaluateFacts
<1>7. k \in Nat /\ k >= 2
  BY LowerFacts
<1> HIDE DEF n, s1, s2, k, e1, e2, ev
<1>8. /\ new \in Nat /\ after \in 3..(k + new) /\ tb \in 3..(k + new) /\ eb \in 3..(k + new)
      /\ after > k /\ tb > k /\ eb > k
      /\ (tb # after <=> s1 # NoStmt) /\ (eb # after <=> s2 # NoStmt)
      /\ \A b \in 3..(k + new) : b <= k \/ b = after \/ b = tb \/ b = eb
  <2>1. (s1 # NoStmt) \in BOOLEAN /\ (s2 # NoStmt) \in BOOLEAN
    OBVIOUS
  <2> QED
    BY <2>1, <1>7, IfBlocks
<1>9. IfTasks(tasks', Rest, k, new, after, tb, eb, s1, s2)
  BY <1>1, <1>3, <1>4, <1>7, IfTasksFit
<1> HIDE DEF after, tb, eb, new
<1>10. Grown(preds, preds', {cur}, {tb, eb}) /\ Len(preds') = k + new
  <2> DEFINE X == {cur}
             B == {tb, eb}
  <2>1. /\ tb \in 1..(Len(preds) + new) /\ eb \in 1..(Len(preds) + new) /\ e1.src \in X /\ e2.src \in X
        /\ tb \in B /\ eb \in B
    BY <1>5, <1>7, <1>8 DEF k
  <2>2. preds \in Seq(Seq(Edges))
    BY LowerFacts
  <2> HIDE DEF X, B
  <2>3. Grown(preds, preds', X, B) /\ Len(preds') = Len(preds) + new
    <3>1. preds' = AddPred(AddPred(Grow(preds, new), tb, e1), eb, e2) /\ new \in Nat /\ e1 \in Edges /\ e2 \in Edges
      BY <1>1, <1>5, <1>8
    <3> QED
      BY <3>1, <2>1, <2>2, TwoEdges, SMTT(60)
  <2> QED
    BY <2>3 DEF X, B, k
<1>11. code' \in Seq(Seq(Nat)) /\ Len(code') = Len(preds') /\ \A b \in 1..Len(preds) : b # cur => code'[b] = code[b]
  <2>1. <<>> \in Seq(Nat)
    OBVIOUS
  <2>2. /\ Grow(ev, new) \in Seq(Seq(Nat)) /\ Len(Grow(ev, new)) = Len(ev) + new
        /\ \A b \in 1..Len(ev) : Grow(ev, new)[b] = ev[b]
    BY <2>1, <1>6, <1>8, GrowFacts
  <2> QED
    BY <2>2, <1>1, <1>6, <1>10 DEF k
<1>12. cur \in 1..k /\ mature \subseteq 1..k /\ EndBlock \notin mature /\ cur \notin Sets(Rest)
  BY <1>2, LowerFacts DEF k
<1>13. /\ cur' \in 1..Len(preds') /\ mature' \subseteq 1..Len(preds') /\ EndBlock \notin mature'
       /\ (\A b \in {cur} : b \in 1..Len(preds')) /\ {tb, eb} \cap mature = {}
  <2>1. 1..k \subseteq 1..(k + new)
    BY <1>7, <1>8
  <2>2. tb \in 1..(k + new) /\ eb \in 1..(k + new) /\ tb # EndBlock /\ eb # EndBlock /\ tb \notin 1..k /\ eb \notin 1..k
    BY <1>7, <1>8 DEF EndBlock
  <2> QED
    BY <2>1, <2>2, <1>1, <1>10, <1>12
<1>14. Sets(tasks') = {after} \cup (IF s1 # NoStmt THEN {tb} ELSE {}) \cup (IF s2 # NoStmt THEN {eb} ELSE {}) \cup Sets(Rest)
  BY <1>9 DEF IfTasks
<1>15. \A b \in Sets(tasks') : b \notin {cur} /\ b # cur' /\ (b \in Sets(Rest) \/ b \notin 1..Len(preds))
  <2>1. after \notin 1..k /\ tb \notin 1..k /\ eb \notin 1..k
    BY <1>7, <1>8
  <2> QED
    BY <2>1, <1>1, <1>12, <1>14 DEF k
<1>16. Matured(preds', mature', tasks')
  <2>1. Joins(tasks') \subseteq {after} \cup Joins(Rest) /\ Loops(tasks') = Loops(Rest)
    BY <1>9 DEF IfTasks
  <2>2. Joins(Rest) \subseteq 1..k /\ Joins(Rest) \cap mature = {}
    BY <1>2, <1>3, <1>7, LowerFacts DEF TasksTargetsIn
  <2>3. after \notin 1..k /\ tb \notin 1..k /\ eb \notin 1..k
    BY <1>7, <1>8
  <2>4. Joins(tasks') \cap mature' = {}
    BY <2>1, <2>2, <2>3, <1>1, <1>12
  <2>5. ASSUME NEW b \in 3..(k + new) PROVE b \in mature' \cup Sets(tasks') \cup Loops(tasks')
    <3>1. CASE b <= k
      <4>1. b \in 3..k
        BY <3>1, <1>7
      <4>2. b \in mature \cup Sets(tasks) \cup Loops(tasks)
        BY <4>1, LowerFacts DEF k
      <4> QED
        BY <4>2, <2>1, <1>1, <1>2, <1>14
    <3>2. CASE b \in {after, tb, eb}
      BY <3>2, <1>1, <1>14
    <3> QED
      BY <3>1, <3>2, <1>8
  <2> QED
    BY <2>4, <2>5, <1>10 DEF Matured
<1>17. TasksOK(tasks', Len(preds')) /\ Fit(tasks') /\ (DemandsFirst(tasks') => NoExit(preds', cur'))
  BY <1>9, <1>10 DEF IfTasks
<1>18. \A b \in 1..Len(preds) : b \in {cur} => b = cur
  OBVIOUS
<1>19. Grown(preds, preds', {cur}, {tb, eb})
  BY <1>10
<1> DEFINE X == {cur}
           B == {tb, eb}
<1> USE DEF X, B
<1>20. /\ Grown(preds, preds', X, B) /\ (\A b \in X : b \in 1..Len(preds')) /\ B \cap mature = {}
       /\ (\A b \in 1..Len(preds) : b \in X => b = cur)
       /\ \A b \in Sets(tasks') : b \notin X /\ b # cur' /\ (b \in Sets(Rest) \/ b \notin 1..Len(preds))
  BY <1>13, <1>15, <1>18, <1>19
<1> HIDE DEF X, B
<1> QED
  BY <1>1, <1>11, <1>13, <1>16, <1>17, <1>20, StmtBuilt

WhileList(s, pre, after, T) ==
  (IF s = NoStmt THEN <<>> ELSE <<StmtTask(s)>>) \o <<EndLoop(s, pre), SetBlock(after)>> \o T

WhileListIs(s, pre, after, T) ==
  WhileList(s, pre, after, T)
    = IF s = NoStmt THEN <<EndLoop(s, pre)>> \o (<<SetBlock(after)>> \o T)
      ELSE <<StmtTask(s)>> \o (<<EndLoop(s, pre)>> \o (<<SetBlock(after)>> \o T))

LEMMA WhileTasksAre ==
  ASSUME NEW s \in Nat, NEW pre \in Nat, NEW after \in Nat, NEW T \in Seq(Chores)
  PROVE  WhileListIs(s, pre, after, T)
<1> DEFINE a == StmtTask(s)
           b == EndLoop(s, pre)
           c == SetBlock(after)
           x == <<a>>
           y == <<b, c>>
           u == y \o T
<1>1. a \in Chores /\ b \in Chores /\ c \in Chores
  BY DEF StmtTask, EndLoop, SetBlock, Chores, NoStmt
<1> HIDE DEF a, b, c
<1>2. x \in Seq(Chores) /\ y \in Seq(Chores) /\ u \in Seq(Chores)
  BY <1>1
<1>3. y \o T = <<b>> \o (<<c>> \o T)
  BY <1>1, TwoInFront, Zenon
<1>4. <<>> \o y = y
  BY <1>2, ConcatEmptySeq
<1> HIDE DEF x, y
<1>5. (x \o y) \o T = x \o (y \o T)
  BY <1>2, ConcatAssociative
<1>6. CASE s = NoStmt
  <2>1. WhileList(s, pre, after, T) = (<<>> \o y) \o T
    BY <1>6, Zenon DEF WhileList, b, c, y
  <2>2. WhileList(s, pre, after, T) = <<b>> \o (<<c>> \o T)
    BY <2>1, <1>3, <1>4, Zenon
  <2> QED
    BY <2>2, <1>6, Zenon DEF WhileListIs, b, c
<1>7. CASE s # NoStmt
  <2>1. WhileList(s, pre, after, T) = (x \o y) \o T
    BY <1>7, Zenon DEF WhileList, a, b, c, x, y
  <2>2. WhileList(s, pre, after, T) = x \o (<<b>> \o (<<c>> \o T))
    BY <2>1, <1>3, <1>5, Zenon
  <2> QED
    BY <2>2, <1>7, Zenon DEF WhileListIs, a, b, c, x
<1> QED
  BY <1>6, <1>7

WhileTasks(C, T, pre, after, l) ==
  /\ TasksOK(C, l) /\ Fit(C)
  /\ Sets(C) = {after} \cup Sets(T) /\ Joins(C) = {pre} \cup Joins(T) /\ Loops(C) = {pre} \cup Loops(T)

LEMMA WhileTasksFit ==
  ASSUME NEW k \in Nat, NEW l \in Nat, NEW s \in 0..Len(stmts), s # NoStmt => Visited(s),
         NEW pre \in 3..l, pre > k, NEW after \in 3..l, after > k, k <= l,
         NEW T, TasksOK(T, k), Fit(T), NEW C, C = WhileList(s, pre, after, T)
  PROVE  WhileTasks(C, T, pre, after, l)
<1> DEFINE t == EndLoop(s, pre)
           a == StmtTask(s)
           T1 == <<SetBlock(after)>> \o T
           T2 == <<t>> \o T1
           T3 == <<a>> \o T2
<1>1. TaskOK(t, l) /\ (s # NoStmt => TaskOK(a, l))
  <2>1. s \in Nat /\ (s # NoStmt => s \in 1..Len(stmts))
    BY DEF NoStmt
  <2> QED
    BY <2>1, TasksTyped
<1>2. t.do = "endloop" /\ t.n = s /\ t.b = pre /\ a.do = "stmt" /\ a.n = s
  BY TaskFields
<1>3. C = IF s = NoStmt THEN T2 ELSE T3
  <2>1. s \in Nat /\ pre \in Nat /\ after \in Nat /\ T \in Seq(Chores)
    BY DEF TasksOK
  <2>2. WhileListIs(s, pre, after, T)
    BY <2>1, WhileTasksAre
  <2> QED
    BY <2>2, Zenon DEF WhileListIs
<1> HIDE DEF t, a
<1>4. AfterSet(T1, T, after, l)
  <2>1. T1 = <<SetBlock(after)>> \o T
    OBVIOUS
  <2> HIDE DEF T1
  <2> QED
    BY <2>1, AfterFits
<1> HIDE DEF T1
<1>5. /\ TasksOK(T1, l) /\ Fit(T1) /\ T1 # <<>> /\ T1[1].do = "set"
      /\ Sets(T1) = {after} \cup Sets(T) /\ Joins(T1) = Joins(T) /\ Loops(T1) = Loops(T)
  BY <1>4 DEF AfterSet
<1>6. Chain(T2, t, T1, l)
  <2>1. pre \notin Joins(T1)
    <3>1. Joins(T) \subseteq 3..k
      BY AllTargetsIn DEF TasksTargetsIn
    <3> QED
      BY <3>1, <1>5
  <2>2. Fits(t, T1)
    BY <2>1, <1>2, <1>5 DEF Fits
  <2>3. T2 = <<t>> \o T1
    OBVIOUS
  <2> HIDE DEF T2
  <2> QED
    BY <2>2, <2>3, <1>1, <1>5, Chained
<1> HIDE DEF T2
<1>7. s # NoStmt => Chain(T3, a, T2, l)
  <2> SUFFICES ASSUME s # NoStmt PROVE Chain(T3, a, T2, l)
    OBVIOUS
  <2>1. ~Continues(s) => ~DemandsFirst(T2)
    BY <1>2, <1>6 DEF Chain, DemandsFirst, Demands
  <2>2. Fits(a, T2)
    BY <2>1, <1>2 DEF Fits
  <2>3. T3 = <<a>> \o T2
    OBVIOUS
  <2>4. TasksOK(T2, l) /\ Fit(T2)
    BY <1>6 DEF Chain
  <2> HIDE DEF T3
  <2> QED
    BY <2>2, <2>3, <2>4, <1>1, Chained
<1> HIDE DEF T3
<1>8. WhileTasks(T2, T, pre, after, l)
  BY <1>2, <1>5, <1>6 DEF Chain, WhileTasks
<1>9. s # NoStmt => WhileTasks(T3, T, pre, after, l)
  BY <1>2, <1>7, <1>8 DEF Chain, WhileTasks
<1> QED
  BY <1>3, <1>8, <1>9

LEMMA MoreEdges ==
  ASSUME NEW p \in Seq(Seq(Edges)), NEW g, NEW X, NEW B, Grown(p, g, X, B),
         NEW b1 \in 1..Len(g), NEW e1 \in Edges, e1.src \in X, b1 \in B,
         NEW b2 \in 1..Len(g), NEW e2 \in Edges, e2.src \in X, b2 \in B,
         NEW q, q = AddPred(AddPred(g, b1, e1), b2, e2)
  PROVE  Grown(p, q, X, B) /\ Len(q) = Len(g)
<1> DEFINE h == AddPred(g, b1, e1)
<1>1. g \in Seq(Seq(Edges))
  BY DEF Grown
<1>2. Grown(g, h, X, B) /\ Len(h) = Len(g)
  BY <1>1, GrownEdge
<1>3. h \in Seq(Seq(Edges)) /\ q = AddPred(h, b2, e2)
  BY <1>2 DEF Grown
<1> HIDE DEF h
<1>4. b2 \in 1..Len(h)
  BY <1>2
<1>5. Grown(h, AddPred(h, b2, e2), X, B) /\ Len(AddPred(h, b2, e2)) = Len(h)
  BY <1>3, <1>4, GrownEdge
<1>6. Grown(p, h, X, B)
  BY <1>2, GrownFurther
<1>7. Grown(h, q, X, B) /\ Len(q) = Len(g)
  BY <1>2, <1>3, <1>5
<1> QED
  BY <1>6, <1>7, GrownFurther

LEMMA WhileLowered ==
  ASSUME SourceOK, SemaOK, LowerOK(preds, code, mature, cur, tasks), LowerWhile
  PROVE  NextOK /\ StaysClosed
<1> DEFINE n == Due1.n
           s == Body(n)
           k == Len(preds)
           pre == k + 1
           header == pre + 1
           loop == pre + 2
           after == pre + 3
           j1 == Edge(cur, "jmp")
           j2 == Edge(pre, "jmp")
           entered == AddPred(AddPred(Grow(preds, 4), pre, j1), header, j2)
           e1 == [CondEdges(n)[1] EXCEPT !.src = header]
           e2 == [CondEdges(n)[2] EXCEPT !.src = header]
           hc == IF Cond(n) = "c" THEN <<n>> ELSE <<>>
           gc == Grow(code, 4)
           X == {cur, pre, header}
           B == {pre, header, loop, after}
<1>1. /\ Do("stmt") /\ phase' = "lower" /\ Op(n) = "while" /\ cur' = loop
      /\ preds' = AddPred(AddPred(entered, loop, e1), after, e2)
      /\ code' = [gc EXCEPT ![header] = hc]
      /\ mature' = mature \cup WhileMatures(pre)
      /\ tasks' = WhileList(s, pre, after, Rest)
  BY DEF LowerWhile, DoStmt, Do, Due1, Rest, WhileList
<1>2. /\ tasks # <<>> /\ n \in 1..Len(stmts) /\ Visited(n)
      /\ Sets(Rest) = Sets(tasks) /\ Joins(Rest) = Joins(tasks) /\ Loops(Rest) = Loops(tasks)
  BY <1>1, StmtFacts
<1>3. TasksOK(Rest, k) /\ Fit(Rest) /\ TasksTargetsIn(Rest, k)
  BY <1>2, NextTask
<1>4. s \in 0..Len(stmts) /\ (s # NoStmt => Visited(s))
  BY <1>1, <1>2, BodyOfWhile
<1>5. k \in Nat /\ k >= 2 /\ cur \in 1..k
  BY LowerFacts
<1>6. e1 \in Edges /\ e1.src = header /\ e2 \in Edges /\ e2.src = header
  <2>1. cur \in Nat /\ header \in Nat
    BY <1>5
  <2>2. CondEdges(n)[1] \in Edges /\ CondEdges(n)[2] \in Edges
    BY <2>1, <1>2, CondEdgesFacts
  <2> HIDE DEF header
  <2> QED
    BY <2>1, <2>2 DEF Edges
<1>7. j1 \in Edges /\ j1.src = cur /\ j2 \in Edges /\ j2.src = pre
  BY <1>5 DEF Edge, Edges
<1>8. gc \in Seq(Seq(Nat)) /\ Len(gc) = k + 4 /\ \A b \in 1..k : gc[b] = code[b]
  <2>1. <<>> \in Seq(Nat)
    OBVIOUS
  <2>2. code \in Seq(Seq(Nat)) /\ Len(code) = k /\ 4 \in Nat
    BY LowerFacts
  <2> DEFINE four == 4
  <2> HIDE DEF four
  <2>3. /\ Grow(code, four) \in Seq(Seq(Nat)) /\ Len(Grow(code, four)) = Len(code) + four
        /\ \A b \in 1..Len(code) : Grow(code, four)[b] = code[b]
    <3>1. four \in Nat
      BY DEF four
    <3> QED
      BY <3>1, <2>1, <2>2, GrowFacts
  <2> QED
    BY <2>2, <2>3 DEF four
<1>9. hc \in Seq(Nat)
  BY <1>2
<1> HIDE DEF n, s, k, e1, e2, j1, j2, hc, gc
<1>10. /\ pre \in 3..(k + 4) /\ header \in 3..(k + 4) /\ loop \in 3..(k + 4) /\ after \in 3..(k + 4)
       /\ pre > k /\ header > k /\ loop > k /\ after > k /\ k + 4 \in Nat /\ k <= k + 4
       /\ pre # header /\ pre # loop /\ pre # after /\ header # loop /\ header # after /\ loop # after
       /\ WhileMatures(pre) = {header, loop, after}
       /\ \A b \in 3..(k + 4) : b \in 3..k \/ b \in {pre, header, loop, after}
  <2>1. WhileMatures(pre) = (k + 2)..(k + 4)
    BY <1>5 DEF WhileMatures
  <2>2. (k + 2)..(k + 4) = {k + 2, k + 3, k + 4}
    BY <1>5
  <2>3. pre = k + 1 /\ header = k + 2 /\ loop = k + 3 /\ after = k + 4
    BY <1>5
  <2> HIDE DEF pre, header, loop, after
  <2> QED
    BY <2>1, <2>2, <2>3, <1>5
<1> HIDE DEF pre, header, loop, after
<1>11. WhileTasks(tasks', Rest, pre, after, k + 4)
  BY <1>1, <1>3, <1>4, <1>5, <1>10, WhileTasksFit
<1>12. /\ pre \in 1..(k + 4) /\ header \in 1..(k + 4) /\ loop \in 1..(k + 4) /\ after \in 1..(k + 4)
       /\ pre \notin 1..k /\ header \notin 1..k /\ loop \notin 1..k /\ after \notin 1..k
       /\ 1..k \subseteq 1..(k + 4)
  BY <1>5, <1>10
<1>13. Grown(preds, preds', X, B) /\ Len(preds') = k + 4
  <2>1. /\ j1.src \in X /\ j2.src \in X /\ e1.src \in X /\ e2.src \in X
        /\ pre \in B /\ header \in B /\ loop \in B /\ after \in B
    BY <1>6, <1>7
  <2>2. preds \in Seq(Seq(Edges)) /\ 4 \in Nat /\ k = Len(preds)
    BY LowerFacts DEF k
  <2> HIDE DEF X, B
  <2>3. entered = AddPred(AddPred(Grow(preds, 4), pre, j1), header, j2)
    OBVIOUS
  <2> HIDE DEF entered
  <2>4. /\ pre \in 1..(Len(preds) + 4) /\ header \in 1..(Len(preds) + 4)
    BY <2>2, <1>12
  <2>5. Grown(preds, entered, X, B) /\ Len(entered) = Len(preds) + 4
    BY <2>1, <2>2, <2>3, <2>4, <1>7, TwoEdges
  <2>6. loop \in 1..Len(entered) /\ after \in 1..Len(entered)
    BY <2>2, <2>5, <1>12
  <2>7. preds' = AddPred(AddPred(entered, loop, e1), after, e2) /\ e1 \in Edges /\ e2 \in Edges
    BY <1>1, <1>6
  <2>8. Grown(preds, preds', X, B) /\ Len(preds') = Len(entered)
    BY <2>1, <2>2, <2>5, <2>6, <2>7, MoreEdges
  <2> QED
    BY <2>2, <2>5, <2>8
<1>14. code' \in Seq(Seq(Nat)) /\ Len(code') = Len(preds') /\ \A b \in 1..Len(preds) : b # cur => code'[b] = code[b]
  <2>1. header \in 1..Len(gc)
    BY <1>8, <1>12
  <2>2. /\ code' \in Seq(Seq(Nat)) /\ Len(code') = Len(gc) /\ \A b \in 1..Len(gc) : b # header => code'[b] = gc[b]
    BY <2>1, <1>1, <1>8, <1>9
  <2>3. \A b \in 1..k : b \in 1..Len(gc) /\ b # header
    BY <1>8, <1>12
  <2> QED
    BY <2>2, <2>3, <1>8, <1>13 DEF k
<1>15. mature \subseteq 1..k /\ EndBlock \notin mature /\ cur \notin Sets(Rest) /\ Joins(Rest) \cap mature = {}
  BY <1>2, LowerFacts DEF k
<1>16. /\ Sets(Rest) \subseteq 1..k /\ Joins(Rest) \subseteq 1..k
  BY <1>3, <1>5 DEF TasksTargetsIn
<1>17. /\ TasksOK(tasks', k + 4) /\ Fit(tasks') /\ Sets(tasks') = {after} \cup Sets(Rest)
       /\ Joins(tasks') = {pre} \cup Joins(Rest) /\ Loops(tasks') = {pre} \cup Loops(Rest)
  BY <1>11 DEF WhileTasks
<1>18. /\ cur' \in 1..Len(preds') /\ mature' \subseteq 1..Len(preds') /\ EndBlock \notin mature'
       /\ (\A b \in X : b \in 1..Len(preds')) /\ B \cap mature = {}
       /\ \A b \in 1..Len(preds) : b \in X => b = cur
  <2>1. EndBlock \notin {header, loop, after}
    BY <1>10 DEF EndBlock
  <2>2. mature' = mature \cup {header, loop, after}
    BY <1>1, <1>10
  <2>3. Len(preds') = k + 4 /\ k = Len(preds)
    BY <1>13 DEF k
  <2> QED
    BY <2>1, <2>2, <2>3, <1>1, <1>5, <1>12, <1>15
<1>19. \A b \in Sets(tasks') : b \notin X /\ b # cur' /\ (b \in Sets(Rest) \/ b \notin 1..Len(preds))
  <2>1. k = Len(preds)
    BY DEF k
  <2>2. after # cur
    BY <1>5, <1>12
  <2> QED
    BY <2>1, <2>2, <1>1, <1>10, <1>12, <1>15, <1>16, <1>17
<1>20. Matured(preds', mature', tasks')
  <2>1. mature' = mature \cup {header, loop, after}
    BY <1>1, <1>10
  <2>2. Joins(tasks') \cap mature' = {}
    BY <2>1, <1>10, <1>12, <1>15, <1>16, <1>17
  <2>3. ASSUME NEW b \in 3..(k + 4) PROVE b \in mature' \cup Sets(tasks') \cup Loops(tasks')
    <3>1. CASE b \in 3..k
      <4>1. b \in mature \cup Sets(tasks) \cup Loops(tasks)
        BY <3>1, LowerFacts DEF k
      <4> QED
        BY <4>1, <2>1, <1>2, <1>17
    <3>2. CASE b \in {pre, header, loop, after}
      BY <3>2, <2>1, <1>17
    <3> QED
      BY <3>1, <3>2, <1>10
  <2> QED
    BY <2>2, <2>3, <1>13 DEF Matured
<1>21. NoExit(preds', cur')
  <2>1. loop \notin X
    BY <1>5, <1>10, <1>12
  <2>2. NoExit(preds, loop) /\ preds \in Seq(Seq(Edges))
    BY <1>12, LowerFacts, NewNoExit DEF k
  <2> HIDE DEF X, B
  <2>3. NoExit(preds', loop)
    BY <2>1, <2>2, <1>13, GrownNoExit
  <2> QED
    BY <2>3, <1>1
<1>22. TasksOK(tasks', Len(preds')) /\ Fit(tasks')
  BY <1>13, <1>17
<1> HIDE DEF X, B, entered
<1> QED
  BY <1>1, <1>13, <1>14, <1>18, <1>19, <1>20, <1>21, <1>22, StmtBuilt
-----------------------------------------------------------------------------
(*                         Parser and SemanticVisitor                      *)

LEMMA NodeOf ==
  ASSUME SourceOK, NEW n \in 1..Len(stmts)
  PROVE  /\ stmts[n] \in Nodes /\ NodeOK(stmts[n], Len(stmts)) /\ Stmts(n) \in Seq(Nat) /\ Stmts(n) = stmts[n].kids
         /\ Len(Stmts(n)) \in Nat /\ DOMAIN Stmts(n) = 1..Len(Stmts(n))
         /\ \A i \in 1..Len(Stmts(n)) : Stmts(n)[i] \in 0..Len(stmts) /\ (Op(n) = "block" => Stmts(n)[i] \in Children(n))
<1>1. stmts[n] \in Nodes /\ NodeOK(stmts[n], Len(stmts))
  BY DEF SourceOK
<1>2. Stmts(n) \in Seq(Nat) /\ Stmts(n) = stmts[n].kids /\ Len(Stmts(n)) \in Nat /\ DOMAIN Stmts(n) = 1..Len(Stmts(n))
  BY <1>1 DEF Nodes, Stmts
<1>3. ASSUME NEW i \in 1..Len(Stmts(n))
      PROVE  Stmts(n)[i] \in 0..Len(stmts) /\ (Op(n) = "block" => Stmts(n)[i] \in Children(n))
  <2>1. Stmts(n)[i] \in 0..Len(stmts) /\ (Op(n) = "block" => Stmts(n)[i] # NoStmt)
    BY <1>1, <1>2 DEF NodeOK, Op
  <2>2. Stmts(n)[i] \in Range(stmts[n].kids)
    BY <1>2 DEF Range
  <2> QED
    BY <2>1, <2>2 DEF Children
<1> QED
  BY <1>1, <1>2, <1>3

LEMMA StillNode ==
  ASSUME NEW k \in Nat, NEW l \in Nat, k <= l, NEW n \in Nodes, NodeOK(n, k)
  PROVE  NodeOK(n, l)
  BY DEF NodeOK

LEMMA ChildAdded ==
  ASSUME SourceOK, NEW p \in 1..Len(stmts), NEW i
  PROVE  LET n == Len(stmts) + 1
             new == [stmts[p] EXCEPT !.kids = WithChild(p, i, n)]
         IN  new \in Nodes /\ NodeOK(new, n)
<1> DEFINE n == Len(stmts) + 1
           old == Stmts(p)
           w == WithChild(p, i, n)
           new == [stmts[p] EXCEPT !.kids = w]
<1>1. Len(stmts) \in Nat
  BY DEF SourceOK
<1>2. /\ stmts[p] \in Nodes /\ NodeOK(stmts[p], Len(stmts)) /\ old \in Seq(Nat) /\ old = stmts[p].kids
      /\ Len(old) \in Nat /\ DOMAIN old = 1..Len(old) /\ \A j \in 1..Len(old) : old[j] \in 0..Len(stmts)
  BY NodeOf
<1>3. /\ w \in Seq(Nat) /\ (\A j \in 1..Len(w) : w[j] = n \/ (j \in 1..Len(old) /\ w[j] = old[j]))
      /\ Op(p) # "block" => Len(w) = Len(old)
  <2> HIDE DEF n, old
  <2>1. n \in Nat
    BY <1>1 DEF n
  <2>2. CASE Op(p) = "block"
    <3>1. w = Append(old, n)
      BY <2>2 DEF WithChild, old
    <3>2. w \in Seq(Nat) /\ Len(w) = Len(old) + 1 /\ w[Len(old) + 1] = n /\ \A j \in 1..Len(old) : w[j] = old[j]
      BY <3>1, <2>1, <1>2, AppendFacts
    <3>3. \A j \in 1..(Len(old) + 1) : j = Len(old) + 1 \/ j \in 1..Len(old)
      BY <1>2
    <3> HIDE DEF w
    <3> QED
      BY <3>2, <3>3, <2>2
  <2>3. CASE Op(p) # "block"
    <3>1. w = [old EXCEPT ![i] = n]
      BY <2>3, <1>2 DEF WithChild
    <3>2. w \in Seq(Nat) /\ Len(w) = Len(old) /\ \A j \in 1..Len(old) : w[j] = n \/ w[j] = old[j]
      <4> HIDE DEF w
      <4>1. ASSUME i \in 1..Len(old)
            PROVE  w \in Seq(Nat) /\ Len(w) = Len(old) /\ \A j \in 1..Len(old) : w[j] = n \/ w[j] = old[j]
        BY <4>1, <3>1, <2>1, <1>2
      <4>2. ASSUME i \notin 1..Len(old) PROVE w = old
        BY <4>2, <3>1, <1>2
      <4> QED
        BY <4>1, <4>2, <1>2
    <3> HIDE DEF w
    <3> QED
      BY <3>2
  <2> QED
    BY <2>2, <2>3
<1> HIDE DEF w, old
<1>4. new \in Nodes /\ new.kids = w /\ new.op = stmts[p].op
  BY <1>2, <1>3 DEF Nodes
<1> HIDE DEF new
<1>5. ASSUME NEW j \in 1..Len(w) PROVE w[j] \in 0..n /\ (new.op = "block" => w[j] # NoStmt)
  <2>1. CASE w[j] = n
    BY <2>1, <1>1 DEF NoStmt
  <2>2. CASE j \in 1..Len(old) /\ w[j] = old[j]
    <3>1. old[j] \in 0..Len(stmts) /\ (stmts[p].op = "block" => old[j] # NoStmt)
      BY <2>2, <1>2 DEF NodeOK
    <3> QED
      BY <3>1, <2>2, <1>1, <1>4
  <2> QED
    BY <2>1, <2>2, <1>3
<1>6. NodeOK(new, n)
  <2>1. (new.op = "if" => Len(w) = 2) /\ (new.op = "while" => Len(w) = 1)
    BY <1>2, <1>3, <1>4 DEF NodeOK, Op
  <2> HIDE DEF n
  <2> QED
    BY <2>1, <1>4, <1>5 DEF NodeOK
<1> QED
  BY <1>4, <1>6 DEF new, w

LEMMA NewNode ==
  ASSUME SourceOK, NEW k \in family.kinds \cup family.roots, NEW l \in Nat
  PROVE  LET node == [op |-> k.op, cond |-> k.cond,
                      kids |-> IF k.op = "block" THEN <<>> ELSE [i \in DOMAIN k.shape |-> NoStmt]]
         IN  node \in Nodes /\ NodeOK(node, l)
<1> DEFINE kids == IF k.op = "block" THEN <<>> ELSE [i \in DOMAIN k.shape |-> NoStmt]
           node == [op |-> k.op, cond |-> k.cond, kids |-> kids]
<1>1. /\ k \in [op : {"expr", "return", "block", "if", "while"}, cond : {"c", "true", "false"}, shape : Seq(BOOLEAN)]
      /\ k.op = "if" => Len(k.shape) = 2
      /\ k.op = "while" => Len(k.shape) = 1
  BY FamiliesAssumption DEF SourceOK
<1>2. k.op \in {"expr", "return", "block", "if", "while"} /\ k.cond \in {"c", "true", "false"} /\ k.shape \in Seq(BOOLEAN)
  BY <1>1
<1>3. DOMAIN k.shape = 1..Len(k.shape) /\ Len(k.shape) \in Nat
  BY <1>2
<1>4. CASE k.op = "block"
  <2>1. kids = <<>> /\ kids \in Seq(Nat) /\ Len(kids) = 0
    BY <1>4
  <2> HIDE DEF kids
  <2> QED
    BY <2>1, <1>2, <1>4 DEF Nodes, NodeOK
<1>5. CASE k.op # "block"
  <2>1. kids = [i \in 1..Len(k.shape) |-> 0]
    BY <1>3, <1>5 DEF NoStmt
  <2>2. kids \in Seq(Nat) /\ Len(kids) = Len(k.shape) /\ \A i \in 1..Len(kids) : kids[i] = 0
    BY <2>1, <1>3
  <2> HIDE DEF kids
  <2>3. node.op = k.op /\ node.kids = kids /\ node \in Nodes
    BY <2>2, <1>2 DEF Nodes
  <2> HIDE DEF node
  <2>4. NodeOK(node, l)
    BY <2>2, <2>3, <1>1, <1>5 DEF NodeOK
  <2> QED
    BY <2>3, <2>4 DEF node, kids
<1> QED
  BY <1>4, <1>5

LEMMA ParseStep ==
  ASSUME SourceOK, NEW k \in family.kinds \cup family.roots, Parse(k)
  PROVE  SourceOK' /\ stmts' # <<>> /\ UNCHANGED <<phase, blocks>>
<1> DEFINE n == Len(stmts) + 1
           p == Head(slots)[1]
           node == [op |-> k.op, cond |-> k.cond,
                    kids |-> IF k.op = "block" THEN <<>> ELSE [i \in DOMAIN k.shape |-> NoStmt]]
           new == [stmts[p] EXCEPT !.kids = WithChild(p, Head(slots)[2], n)]
           above == IF p = NoStmt THEN stmts ELSE [stmts EXCEPT ![p] = new]
<1>1. stmts' = Append(above, node) /\ UNCHANGED <<phase, blocks, family>>
  BY DEF Parse
<1>2. stmts \in Seq(Nodes) /\ Len(stmts) \in Nat /\ n \in Nat /\ Len(stmts) <= n
      /\ \A m \in 1..Len(stmts) : stmts[m] \in Nodes /\ NodeOK(stmts[m], n)
  <2>1. stmts \in Seq(Nodes) /\ Len(stmts) \in Nat
    BY DEF SourceOK
  <2>2. n \in Nat /\ Len(stmts) <= n
    BY <2>1
  <2> HIDE DEF n
  <2>3. ASSUME NEW m \in 1..Len(stmts) PROVE stmts[m] \in Nodes /\ NodeOK(stmts[m], n)
    <3>1. stmts[m] \in Nodes /\ NodeOK(stmts[m], Len(stmts))
      BY DEF SourceOK
    <3> QED
      BY <3>1, <2>1, <2>2, StillNode
  <2> QED
    BY <2>1, <2>2, <2>3
<1>3. node \in Nodes /\ NodeOK(node, n)
  <2>1. n \in Nat
    BY <1>2
  <2> HIDE DEF n
  <2> QED
    BY <2>1, NewNode
<1>4. p \in 1..Len(stmts) => new \in Nodes /\ NodeOK(new, n)
  BY ChildAdded
<1> HIDE DEF node, new, n, p
<1>5. above \in Seq(Nodes) /\ Len(above) = Len(stmts) /\ \A m \in 1..Len(stmts) : NodeOK(above[m], n)
  <2>1. CASE p \in 1..Len(stmts) /\ p # NoStmt
    <3>1. above = [stmts EXCEPT ![p] = new]
      BY <2>1
    <3>2. above \in Seq(Nodes) /\ Len(above) = Len(stmts) /\ above[p] = new /\ \A m \in 1..Len(stmts) : m # p => above[m] = stmts[m]
      BY <3>1, <2>1, <1>2, <1>4
    <3> HIDE DEF above
    <3> QED
      BY <3>2, <2>1, <1>2, <1>4
  <2>2. CASE ~(p \in 1..Len(stmts) /\ p # NoStmt)
    <3>1. above = stmts
      BY <2>2, <1>2
    <3> HIDE DEF above
    <3> QED
      BY <3>1, <1>2
  <2> QED
    BY <2>1, <2>2
<1> HIDE DEF above
<1>6. /\ stmts' \in Seq(Nodes) /\ Len(stmts') = n /\ stmts'[n] = node /\ \A m \in 1..Len(stmts) : stmts'[m] = above[m]
  <2>1. /\ Append(above, node) \in Seq(Nodes) /\ Len(Append(above, node)) = Len(above) + 1
        /\ Append(above, node)[Len(above) + 1] = node
        /\ \A m \in 1..Len(above) : Append(above, node)[m] = above[m]
    BY <1>3, <1>5, AppendFacts
  <2> QED
    BY <2>1, <1>1, <1>5 DEF n
<1>7. \A m \in 1..Len(stmts') : NodeOK(stmts'[m], Len(stmts'))
  <2>1. \A m \in 1..n : m = n \/ m \in 1..Len(stmts)
    BY <1>2 DEF n
  <2> QED
    BY <2>1, <1>3, <1>5, <1>6
<1>8. stmts' # <<>>
  BY <1>2, <1>6 DEF n
<1> QED
  BY <1>1, <1>6, <1>7, <1>8 DEF SourceOK, NodeOK

LEMMA ParsedStep ==
  ASSUME SourceOK, Parsed
  PROVE  SemaOK'
<1>1. stmts' = stmts /\ kept' = [n \in DOMAIN stmts |-> Stmts(n)] /\ cfb' = [n \in DOMAIN stmts |-> "unknown"]
  BY DEF Parsed, source
<1>2. DOMAIN stmts = 1..Len(stmts)
  BY DEF SourceOK
<1>3. /\ kept' \in [1..Len(stmts) -> Seq(Nat)] /\ cfb' \in [1..Len(stmts) -> Behaviours]
      /\ \A n \in 1..Len(stmts) : kept'[n] = Stmts(n) /\ cfb'[n] = "unknown"
  BY <1>1, <1>2, NodeOf DEF Behaviours
<1>4. \A n \in 1..Len(stmts) : ~Visited(n)'
  BY <1>3 DEF Visited
<1>5. ASSUME NEW n \in 1..Len(stmts), Op(n) = "block" PROVE KeptOK(n)'
  <2>1. \A i \in 1..Len(Stmts(n)) : Stmts(n)[i] \in Children(n)
    BY <1>5, NodeOf
  <2>2. Children(n)' = Children(n) /\ kept'[n] = Stmts(n)
    BY <1>1, <1>3 DEF Children
  <2>3. ~Visited(n)'
    BY <1>4
  <2> QED
    BY <2>1, <2>2, <2>3 DEF KeptOK
<1> QED
  BY <1>1, <1>3, <1>4, <1>5 DEF SemaOK, Op

LEMMA LeastIn == ASSUME NEW T, T \subseteq Nat, T # {} PROVE \E x \in T : \A y \in T : x <= y
<1>1. PICK R : (\A x, y \in Nat : y < x => <<y, x>> \in R) /\ IsWellFoundedOn(R, Nat)
  <2>1. \A x, y \in Nat : y < x => <<y, x>> \in OpToRel(<, Nat)
    BY DEF OpToRel
  <2> QED
    BY <2>1, NatLessThanWellFounded, Zenon
<1>2. PICK x \in T : \A y \in T : ~(<<y, x>> \in R)
  BY <1>1, WFMin
<1>3. ASSUME NEW y \in T PROVE x <= y
  <2>1. ~(y < x)
    BY <1>1, <1>2, Zenon
  <2> QED
    BY <2>1
<1> QED
  BY <1>3

(* What is kept of a block: children, and none before the last one returns. *)
LEMMA UpToReturnFacts ==
  ASSUME SourceOK, NEW n \in 1..Len(stmts), Op(n) = "block"
  PROVE  /\ UpToReturn(n) \in Seq(Nat)
         /\ \A i \in 1..Len(UpToReturn(n)) :
              /\ UpToReturn(n)[i] \in Children(n)
              /\ i < Len(UpToReturn(n)) \/ Returning(n) = {} => cfb[UpToReturn(n)[i]] # "Return"
<1> DEFINE ss == Stmts(n)
           R == Returning(n)
           u == UpToReturn(n)
<1>1. ss \in Seq(Nat) /\ Len(ss) \in Nat /\ DOMAIN ss = 1..Len(ss) /\ \A i \in 1..Len(ss) : ss[i] \in Children(n)
  BY NodeOf
<1>2. R = {i \in 1..Len(ss) : cfb[ss[i]] = "Return"}
  BY <1>1 DEF Returning
<1>3. u = IF R = {} THEN ss ELSE SubSeq(ss, 1, Min(R))
  BY DEF UpToReturn
<1> HIDE DEF ss, R, u
<1>4. CASE R = {}
  <2>1. u = ss
    BY <1>3, <1>4
  <2>2. \A i \in 1..Len(ss) : cfb[ss[i]] # "Return"
    BY <1>2, <1>4
  <2> QED
    BY <2>1, <2>2, <1>1 DEF u, R
<1>5. CASE R # {}
  <2> DEFINE m == Min(R)
  <2>1. R \subseteq Nat
    BY <1>1, <1>2
  <2>2. \E x \in R : \A y \in R : x <= y
    BY <2>1, <1>5, LeastIn
  <2>3. m \in R /\ \A y \in R : m <= y
    BY <2>2 DEF Min
  <2> HIDE DEF m
  <2>4. m \in 1..Len(ss)
    BY <2>3, <1>2
  <2>5. u = SubSeq(ss, 1, m)
    BY <1>3, <1>5 DEF m
  <2>6. u \in Seq(Nat) /\ Len(u) = m /\ \A i \in 1..m : u[i] = ss[i] /\ i \in 1..Len(ss)
    BY <2>4, <2>5, <1>1
  <2>7. ASSUME NEW i \in 1..m PROVE u[i] \in Children(n) /\ (i < m => cfb[u[i]] # "Return")
    <3>1. u[i] = ss[i] /\ i \in 1..Len(ss)
      BY <2>6
    <3>2. i < m => i \notin R
      BY <2>3, <2>4
    <3> QED
      BY <3>1, <3>2, <1>1, <1>2
  <2> QED
    BY <2>6, <2>7, <1>5 DEF u, R
<1> QED
  BY <1>4, <1>5

LEMMA SemaStep ==
  ASSUME SourceOK, SemaOK, Sema
  PROVE  SemaOK' /\ UNCHANGED <<phase, source, blocks>>
<1>1. PICK n \in DOMAIN stmts : Due(n) /\ IF Op(n) = "block" THEN VisitBlock(n) ELSE VisitOther(n)
  BY DEF Sema
<1>2. UNCHANGED <<phase, source, blocks>> /\ stmts' = stmts
  BY DEF Sema, source
<1>3. n \in 1..Len(stmts) /\ ~Visited(n) /\ \A k \in Children(n) : Visited(k)
  BY <1>1 DEF SourceOK, Due
<1>4. /\ cfb \in [1..Len(stmts) -> Behaviours] /\ kept \in [1..Len(stmts) -> Seq(Nat)]
  BY DEF SemaOK
<1>5. PICK v \in {"MayContinue", "Return"} :
        /\ cfb' = [cfb EXCEPT ![n] = v]
        /\ Op(n) = "return" => v = "Return"
        /\ Op(n) = "block" => (v = "MayContinue" => Returning(n) = {}) /\ kept' = [kept EXCEPT ![n] = UpToReturn(n)]
        /\ Op(n) # "block" => kept' = kept
  <2>1. CASE Op(n) = "block"
    BY <2>1, <1>1 DEF VisitBlock
  <2>2. CASE Op(n) = "if"
    <3>1. /\ cfb' = [cfb EXCEPT ![n] = combineCFB(CfbOf(Then(n)), CfbOf(Else(n)))] /\ kept' = kept
      BY <2>2, <1>1 DEF VisitOther
    <3>2. stmts[n] \in Nodes /\ NodeOK(stmts[n], Len(stmts))
      BY <1>3, NodeOf
    <3>3. stmts[n].kids \in Seq(Nat) /\ Len(stmts[n].kids) = 2
      BY <3>2, <2>2 DEF Nodes, NodeOK, Op
    <3>4. Then(n) \in Range(stmts[n].kids) /\ Else(n) \in Range(stmts[n].kids)
      BY <3>3 DEF Then, Else, Range
    <3>5. \A s \in Range(stmts[n].kids) : CfbOf(s) \in {"MayContinue", "Return"}
      <4> SUFFICES ASSUME NEW s \in Range(stmts[n].kids), s # NoStmt PROVE cfb[s] \in {"MayContinue", "Return"}
        BY DEF CfbOf
      <4>1. s \in Children(n)
        BY DEF Children
      <4>2. s \in 1..Len(stmts)
        BY <4>1, <1>3, ChildFacts
      <4> QED
        BY <4>1, <4>2, <1>3, <1>4 DEF Visited, Behaviours
    <3>6. combineCFB(CfbOf(Then(n)), CfbOf(Else(n))) \in {"MayContinue", "Return"}
      BY <3>4, <3>5 DEF combineCFB
    <3> QED
      BY <3>1, <3>6, <2>2
  <2>3. CASE Op(n) = "return"
    BY <2>3, <1>1 DEF VisitOther
  <2>4. CASE Op(n) \notin {"block", "if", "return"}
    BY <2>4, <1>1 DEF VisitOther
  <2> QED
    BY <2>1, <2>2, <2>3, <2>4
<1>6. /\ cfb' \in [1..Len(stmts) -> Behaviours] /\ cfb'[n] = v /\ (\A m \in 1..Len(stmts) : m # n => cfb'[m] = cfb[m])
      /\ Visited(n)' /\ (\A m \in 1..Len(stmts) : m # n => Visited(m)' = Visited(m))
  BY <1>3, <1>4, <1>5 DEF Behaviours, Visited
<1>7. \A m : Children(m)' = Children(m) /\ Op(m)' = Op(m)
  BY <1>2 DEF Children, Op
<1>8. kept' \in [1..Len(stmts) -> Seq(Nat)] /\ \A m \in 1..Len(stmts) : m # n => kept'[m] = kept[m]
  <2>1. CASE Op(n) = "block"
    <3>1. UpToReturn(n) \in Seq(Nat)
      BY <2>1, <1>3, UpToReturnFacts
    <3> QED
      BY <3>1, <2>1, <1>3, <1>4, <1>5
  <2>2. CASE Op(n) # "block"
    BY <2>2, <1>4, <1>5
  <2> QED
    BY <2>1, <2>2
<1>9. ASSUME NEW m \in 1..Len(stmts) PROVE Visited(m)' => \A k \in Children(m) : Visited(k)'
  <2> SUFFICES ASSUME Visited(m)', NEW k \in Children(m) PROVE Visited(k)'
    OBVIOUS
  <2>1. k \in 1..Len(stmts)
    BY ChildFacts
  <2>2. Visited(k)
    <3>1. CASE m = n
      BY <3>1, <1>3
    <3>2. CASE m # n
      BY <3>2, <1>6 DEF SemaOK
    <3> QED
      BY <3>1, <3>2
  <2> QED
    BY <2>1, <2>2, <1>6
<1>10. ASSUME NEW m \in 1..Len(stmts), Op(m) = "return", Visited(m)' PROVE cfb'[m] = "Return"
  <2>1. CASE m = n
    BY <2>1, <1>5, <1>6, <1>10
  <2>2. CASE m # n
    BY <2>2, <1>6, <1>10 DEF SemaOK
  <2> QED
    BY <2>1, <2>2
<1>11. ASSUME NEW m \in 1..Len(stmts), Op(m) = "block" PROVE KeptOK(m)'
  <2>1. CASE m = n
    <3> DEFINE u == UpToReturn(n)
    <3>1. kept'[n] = u /\ (v = "MayContinue" => Returning(n) = {})
      BY <2>1, <1>3, <1>4, <1>5, <1>11
    <3>2. \A i \in 1..Len(u) : u[i] \in Children(n) /\ (i < Len(u) \/ Returning(n) = {} => cfb[u[i]] # "Return")
      BY <2>1, <1>3, <1>11, UpToReturnFacts
    <3> HIDE DEF u
    <3>3. ASSUME NEW i \in 1..Len(u), i < Len(u) \/ cfb'[n] = "MayContinue" PROVE cfb'[u[i]] = "MayContinue"
      <4>1. u[i] \in 1..Len(stmts)
        BY <3>2, <1>3, ChildFacts
      <4>2. Visited(u[i]) /\ u[i] # n
        BY <3>2, <1>3
      <4>3. cfb[u[i]] # "Return"
        BY <3>1, <3>2, <3>3, <1>6
      <4> QED
        BY <4>1, <4>2, <4>3, <1>4, <1>6 DEF Visited, Behaviours
    <3> QED
      BY <3>1, <3>2, <3>3, <2>1, <1>7 DEF KeptOK
  <2>2. CASE m # n
    <3>1. KeptOK(m) /\ kept'[m] = kept[m] /\ cfb'[m] = cfb[m] /\ Visited(m)' = Visited(m)
      BY <2>2, <1>6, <1>8, <1>11 DEF SemaOK
    <3>2. ASSUME NEW i \in 1..Len(kept[m]), Visited(m) PROVE cfb'[kept[m][i]] = cfb[kept[m][i]]
      <4>1. kept[m][i] \in Children(m)
        BY <3>1 DEF KeptOK
      <4>2. kept[m][i] \in 1..Len(stmts) /\ Visited(kept[m][i])
        BY <4>1, <3>2, ChildFacts
      <4> QED
        BY <4>2, <1>3, <1>6
    <3> QED
      BY <3>1, <3>2, <1>7 DEF KeptOK
  <2> QED
    BY <2>1, <2>2
<1>12. SemaOK'
  BY <1>2, <1>6, <1>7, <1>8, <1>9, <1>10, <1>11 DEF SemaOK
<1> QED
  BY <1>2, <1>12
-----------------------------------------------------------------------------
(*                              The invariant                              *)

LEMMA InvAtTheStart == Init => LowInv
<1> SUFFICES ASSUME Init PROVE LowInv
  OBVIOUS
<1>1. phase = "parse" /\ family \in Families /\ stmts = <<>> /\ slots = <<<<NoStmt, 1>>>> /\ Fresh
  BY DEF Init, Fresh
<1>2. SourceOK /\ slots # <<>>
  BY <1>1 DEF SourceOK
<1> QED
  BY <1>1, <1>2 DEF LowInv

LEMMA Carried ==
  ASSUME NextOK, stmts' = stmts, cfb' = cfb, isVoid' = isVoid
  PROVE  LowerOK(preds, code, mature, cur, tasks)'
<1>1. /\ GraphOK(preds', code', mature', cur') /\ TasksOK(tasks', Len(preds')) /\ Fit(tasks')
      /\ Open(preds', cur', tasks') /\ Matured(preds', mature', tasks')
  BY DEF NextOK, LowerOK
<1>2. GraphOK(preds, code, mature, cur)' /\ Matured(preds, mature, tasks)'
  BY <1>1 DEF GraphOK, Matured, Joins, Sets, Loops, Targets
<1>3. TasksOK(tasks, Len(preds))'
  BY <1>1 DEF TasksOK, TaskOK, Visited
<1>4. Fit(tasks)'
  BY <1>1 DEF Fit, Fits, DemandsFirst, Demands, Continues, CfbOf
<1>5. Open(preds, cur, tasks)'
  BY <1>1 DEF Open, DemandsFirst, Demands, Continues, CfbOf, NoExit, Sets, Targets
<1> QED
  BY <1>2, <1>3, <1>4, <1>5 DEF LowerOK

LEMMA SameSource ==
  ASSUME SourceOK, UNCHANGED source PROVE SourceOK'
  BY DEF SourceOK, source, NodeOK

LEMMA SameSema ==
  ASSUME SemaOK, UNCHANGED <<source, sema>> PROVE SemaOK'
  BY DEF SemaOK, source, sema, Visited, Children, Op, KeptOK

LEMMA AcceptStep ==
  ASSUME SourceOK, SemaOK, Fresh, stmts # <<>>, Accept, phase' = "lower"
  PROVE  NextOK
<1>1. /\ Visited(1) /\ tasks' = <<StmtTask(1)>> /\ preds' = <<<<>>, <<>>>> /\ code' = <<<<>>, <<>>>>
      /\ mature' = {} /\ cur' = 2
  BY DEF Accept, blocks, Fresh, FirstBlock
<1> DEFINE p == <<<<>>, <<>>>>
           t == StmtTask(1)
           T == <<t>>
<1>2. 1 \in 1..Len(stmts)
  BY DEF SourceOK
<1>3. /\ p \in Seq(Seq(Edges)) /\ p \in Seq(Seq(Nat)) /\ Len(p) = 2
      /\ \A b \in 1..2 : p[b] = <<>>
  OBVIOUS
<1> HIDE DEF p
<1>4. GraphOK(p, p, {}, 2)
  BY <1>3 DEF GraphOK
<1>5. \A b : NoExit(p, b)
  BY <1>3 DEF NoExit
<1>6. t \in Chores /\ t.do = "stmt" /\ t.n = 1
  BY DEF StmtTask, Chores
<1> HIDE DEF t
<1>7. TaskOK(t, 2)
  BY <1>1, <1>2, <1>6 DEF TaskOK
<1>8. T \in Seq(Chores) /\ Len(T) = 1 /\ T[1] = t
  BY <1>6
<1>9. Behind(T, 1) = <<>>
  BY <1>8 DEF Behind
<1> HIDE DEF T
<1>10. TasksOK(T, 2)
  BY <1>7, <1>8 DEF TasksOK
<1>11. Fits(t, <<>>)
  BY <1>6 DEF Fits, DemandsFirst
<1>12. Fit(T)
  BY <1>8, <1>9, <1>11 DEF Fit
<1>13. \A dos : "stmt" \notin dos => Targets(T, dos) = {}
  BY <1>6, <1>8, TargetsAre
<1>14. Sets(T) = {} /\ Joins(T) = {} /\ Loops(T) = {}
  BY <1>13 DEF Sets, Joins, Loops
<1>15. 3..Len(p) = {}
  BY <1>3
<1>16. LowerOK(p, p, {}, 2, T)
  BY <1>3, <1>4, <1>5, <1>10, <1>12, <1>14, <1>15 DEF LowerOK, Open, Matured
<1> QED
  BY <1>1, <1>16, Zenon DEF NextOK, p, t, T

(* The phases that follow do not change the source. *)
LateStep ==
  \/ FinishMethod \/ Scan \/ ScanDone \/ (\E b \in DOMAIN preds : SplitBlock(b)) \/ Run
  \/ MoveStmts \/ MoveGraph \/ \E v \in BOOLEAN : Agree(v)

LEMMA LateSteps ==
  ASSUME LateStep
  PROVE  UNCHANGED source /\ phase' \notin {"parse", "sema", "lower"}
<1>1. CASE FinishMethod
  BY <1>1 DEF FinishMethod
<1>2. CASE Scan
  BY <1>2 DEF Scan
<1>3. CASE ScanDone
  BY <1>3 DEF ScanDone
<1>4. CASE \E b \in DOMAIN preds : SplitBlock(b)
  BY <1>4 DEF SplitBlock
<1>5. CASE Run
  BY <1>5 DEF Run
<1>6. CASE MoveStmts
  BY <1>6 DEF MoveStmts
<1>7. CASE MoveGraph
  BY <1>7 DEF MoveGraph
<1>8. CASE \E v \in BOOLEAN : Agree(v)
  BY <1>8 DEF Agree
<1> QED
  BY <1>1, <1>2, <1>3, <1>4, <1>5, <1>6, <1>7, <1>8 DEF LateStep

BuildStep ==
  LowerExpr \/ LowerReturn \/ LowerBlock \/ LowerIf \/ SetCurBlock \/ Jump \/ LowerWhile \/ LowerEndLoop

LEMMA BuildSteps ==
  ASSUME LowInv, BuildStep
  PROVE  phase = "lower" /\ phase' = "lower" /\ UNCHANGED <<source, sema>> /\ NextOK /\ StaysClosed
<1>1. phase = "lower" /\ phase' = "lower" /\ UNCHANGED <<source, sema>>
  BY DEF BuildStep, LowerExpr, LowerReturn, LowerBlock, LowerIf, SetCurBlock, Jump, LowerWhile, LowerEndLoop, DoStmt, Do
<1>2. SourceOK /\ SemaOK /\ LowerOK(preds, code, mature, cur, tasks)
  BY <1>1 DEF LowInv
<1>3. NextOK /\ StaysClosed
  BY <1>2, ExprLowered, ReturnLowered, BlockLowered, IfLowered, BlockSet, BranchJumped, WhileLowered, LoopEnded
     DEF BuildStep
<1> QED
  BY <1>1, <1>3

LEMMA StepsAre ==
  ASSUME [Next]_vars
  PROVE  \/ \E k \in family.kinds \cup family.roots : Parse(k)
         \/ Parsed \/ Sema \/ Accept \/ BuildStep \/ LateStep \/ UNCHANGED vars
  BY DEF Next, BuildStep, LateStep, Stopped

LEMMA InvStep == LowInv /\ [Next]_vars => LowInv'
<1> SUFFICES ASSUME LowInv, [Next]_vars PROVE LowInv'
  OBVIOUS
<1>0. SourceOK
  BY DEF LowInv
<1>1. ASSUME NEW k \in family.kinds \cup family.roots, Parse(k) PROVE LowInv'
  <2>1. SourceOK' /\ stmts' # <<>> /\ UNCHANGED <<phase, blocks>>
    BY <1>0, <1>1, ParseStep
  <2>2. phase = "parse"
    BY <1>1 DEF Parse
  <2>3. Fresh'
    BY <2>1, <2>2 DEF LowInv, Fresh, blocks
  <2> QED
    BY <2>1, <2>2, <2>3 DEF LowInv
<1>2. CASE Parsed
  <2>1. phase = "parse" /\ slots = <<>> /\ phase' = "sema" /\ UNCHANGED <<source, blocks>>
    BY <1>2 DEF Parsed
  <2>2. SemaOK' /\ SourceOK'
    BY <2>1, <1>0, <1>2, ParsedStep, SameSource
  <2>3. Fresh' /\ stmts' # <<>>
    BY <2>1 DEF LowInv, Fresh, blocks, source
  <2> QED
    BY <2>1, <2>2, <2>3 DEF LowInv
<1>3. CASE Sema
  <2>1. phase = "sema" /\ Fresh /\ stmts # <<>> /\ SemaOK
    BY <1>3 DEF Sema, LowInv
  <2>2. SemaOK' /\ UNCHANGED <<phase, source, blocks>>
    BY <2>1, <1>0, <1>3, SemaStep
  <2>3. SourceOK' /\ Fresh' /\ stmts' # <<>> /\ phase' = "sema"
    BY <2>1, <2>2, <1>0, SameSource DEF Fresh, blocks, source
  <2> QED
    BY <2>2, <2>3 DEF LowInv
<1>4. CASE Accept
  <2>1. phase = "sema" /\ Fresh /\ stmts # <<>> /\ SemaOK /\ phase' \in {"error", "lower"} /\ UNCHANGED <<source, sema>>
    BY <1>4 DEF Accept, LowInv
  <2>2. SourceOK' /\ SemaOK' /\ stmts' = stmts /\ cfb' = cfb /\ isVoid' = isVoid
    BY <2>1, <1>0, SameSource, SameSema DEF source, sema
  <2>3. phase' = "lower" => LowerOK(preds, code, mature, cur, tasks)'
    BY <2>1, <2>2, <1>0, <1>4, AcceptStep, Carried
  <2> QED
    BY <2>1, <2>2, <2>3 DEF LowInv
<1>5. CASE BuildStep
  <2>1. phase = "lower" /\ phase' = "lower" /\ UNCHANGED <<source, sema>> /\ NextOK
    BY <1>5, BuildSteps
  <2>2. stmts # <<>> /\ SemaOK
    BY <2>1 DEF LowInv
  <2>3. SourceOK' /\ SemaOK' /\ stmts' = stmts /\ cfb' = cfb /\ isVoid' = isVoid
    BY <2>1, <2>2, <1>0, SameSource, SameSema DEF source, sema
  <2>4. LowerOK(preds, code, mature, cur, tasks)'
    BY <2>1, <2>3, Carried
  <2> QED
    BY <2>1, <2>2, <2>3, <2>4 DEF LowInv
<1>6. CASE LateStep
  <2>1. UNCHANGED source /\ phase' \notin {"parse", "sema", "lower"}
    BY <1>6, LateSteps
  <2>2. SourceOK'
    BY <2>1, <1>0, SameSource
  <2> QED
    BY <2>1, <2>2 DEF LowInv
<1>7. CASE UNCHANGED vars
  <2>1. UNCHANGED <<source, sema, blocks, phase, tasks>>
    BY <1>7 DEF vars
  <2>2. SourceOK' /\ stmts' = stmts /\ slots' = slots /\ cfb' = cfb /\ isVoid' = isVoid
    BY <2>1, <1>0, SameSource DEF source, sema
  <2>3. Fresh => Fresh'
    BY <2>1 DEF Fresh, blocks
  <2>4. SemaOK => SemaOK'
    BY <2>1, SameSema
  <2>5. LowerOK(preds, code, mature, cur, tasks) => LowerOK(preds, code, mature, cur, tasks)'
    <3> SUFFICES ASSUME LowerOK(preds, code, mature, cur, tasks) PROVE LowerOK(preds, code, mature, cur, tasks)'
      OBVIOUS
    <3>1. preds' = preds /\ code' = code /\ mature' = mature /\ cur' = cur /\ tasks' = tasks
      BY <2>1 DEF blocks
    <3>2. NextOK
      BY <3>1 DEF NextOK
    <3> QED
      BY <3>2, <2>2, Carried
  <2> QED
    BY <2>1, <2>2, <2>3, <2>4, <2>5 DEF LowInv
<1> QED
  BY <1>1, <1>2, <1>3, <1>4, <1>5, <1>6, <1>7, StepsAre

(* While a method is built (firm_visitor.cpp:853-934), a block that was    *)
(* left keeps its exits and its code, a matured block takes no further     *)
(* predecessor, and when construction ends every block but the first is    *)
(* mature: for statements nested in any way, whatever they return.         *)
THEOREM BlocksClosed == Spec => BlocksStayClosed
<1>1. ASSUME LowInv, [Next]_vars PROVE [phase = "lower" => StaysClosed]_vars
  <2> SUFFICES ASSUME phase = "lower", ~UNCHANGED vars PROVE StaysClosed
    OBVIOUS
  <2>1. CASE BuildStep
    BY <2>1, <1>1, BuildSteps
  <2>2. CASE LateStep
    <3>1. FinishMethod
      BY <2>2 DEF LateStep, Scan, ScanDone, SplitBlock, Run, MoveStmts, MoveGraph, Agree
    <3>2. stmts # <<>> /\ SourceOK /\ LowerOK(preds, code, mature, cur, tasks)
      BY <1>1 DEF LowInv
    <3> QED
      BY <3>1, <3>2, MethodFinished
  <2>3. ~Parsed /\ ~Sema /\ ~Accept /\ \A k : ~Parse(k)
    BY DEF Parsed, Sema, Accept, Parse
  <2> QED
    BY <2>1, <2>2, <2>3, <1>1, StepsAre
<1>2. Spec => []LowInv
  BY InvAtTheStart, InvStep, PTL DEF Spec
<1> QED
  BY <1>1, <1>2, PTL DEF Spec, BlocksStayClosed
-----------------------------------------------------------------------------
(*                    No critical edge: the invariant                      *)

(* Whether code goes on behind a statement is the same for the statement    *)
(* and for what it ends with.                                               *)
CfbOK == \A n \in 1..Len(stmts) : Visited(n) =>
  /\ Op(n) \in {"expr", "while"} => Continues(n)
  /\ Op(n) = "if" /\ (Continues(Then(n)) \/ Continues(Else(n))) => Continues(n)
  /\ Op(n) = "block" /\ ~Continues(n) => Len(kept[n]) > 0 /\ ~Continues(kept[n][Len(kept[n])])

(* The blocks of the tasks T in which code goes on. *)
Live(T) == {T[i].b : i \in {j \in 1..Len(T) : T[j].do = "set" /\ DemandsFirst(Behind(T, j))}}

(* Task t before the tasks T: where a statement does not return, code goes  *)
(* on behind it or in the block that it jumps to.                           *)
GoesOn(t, T) ==
  /\ t.do = "stmt" /\ Continues(t.n) => DemandsFirst(T)
  /\ t.do = "jmp" /\ Continues(t.n) => t.b \in Live(T)
AllGoOn(T) == \A i \in 1..Len(T) : GoesOn(T[i], Behind(T, i))

Entered(p, b) == \E i \in 1..Len(p[b]) : IsReal(p[b][i])

(* No code leads into a block in which code does not go on. *)
Idle(p, T) == \A b \in Sets(T) : b \in Live(T) \/ ~Entered(p, b)

(* S holds with a block all the blocks it is entered from.  From every      *)
(* block that is entered a way leads into X: it is in all such sets with X. *)
BackClosed(p, S) ==
  \A b \in 1..Len(p) : b \in S => \A i \in 1..Len(p[b]) : IsReal(p[b][i]) => p[b][i].src \in S
Leads(p, X) == \A S : X \subseteq S /\ BackClosed(p, S) => \A b \in 1..Len(p) : Entered(p, b) => b \in S

Kept(al) == {EndBlock} \cup Range(al)
Unfinished(c, T) == Live(T) \cup (IF DemandsFirst(T) THEN {c} ELSE {})

LeadOK(p, c, al, T) ==
  /\ al \in Seq(1..Len(p)) /\ AllGoOn(T) /\ Idle(p, T)
  /\ \A b \in Loops(T) : Entered(p, b)
  /\ Leads(p, Kept(al) \cup Unfinished(c, T))

(* Edge i into block b comes from c. *)
Way(p, b, i, c) == b \in 1..Len(p) /\ i \in 1..Len(p[b]) /\ IsReal(p[b][i]) /\ p[b][i].src = c

FlowOK(p) ==
  /\ p \in Seq(Seq(Edges)) /\ Len(p) >= 2
  /\ \A b \in 1..Len(p) : \A i \in 1..Len(p[b]) : p[b][i].src \in 1..Len(p)

CountsOK(k) ==
  /\ DOMAIN numBlockSuccs \subseteq 1..k
  /\ \A c \in DOMAIN numBlockSuccs : numBlockSuccs[c] \in Nat

(* During the scan: what was counted and what is in the queue. *)
Found == DOMAIN numBlockPreds \cup Range(newBlocks)
ScanOK ==
  /\ FlowOK(preds) /\ CountsOK(Len(preds))
  /\ alive \in Seq(1..Len(preds)) /\ Leads(preds, Kept(alive))
  /\ newBlocks \in Seq(1..Len(preds)) /\ DOMAIN numBlockPreds \subseteq 1..Len(preds)
  /\ Kept(alive) \subseteq Found
  /\ \A b \in DOMAIN numBlockPreds :
       /\ numBlockPreds[b] = Len(preds[b])
       /\ \A i \in 1..Len(preds[b]) : IsReal(preds[b][i]) => preds[b][i].src \in Found
  /\ \A c \in 1..Len(preds) : \A b \in DOMAIN numBlockPreds : \A i \in 1..Len(preds[b]) : Way(preds, b, i, c) =>
       /\ SuccsOf(c) >= 1
       /\ \A d \in DOMAIN numBlockPreds : \A j \in 1..Len(preds[d]) :
            Way(preds, d, j, c) /\ (d # b \/ j # i) => SuccsOf(c) >= 2

(* While edges are split. *)
TwoWays(p, c) ==
  \E b, d \in 1..Len(p) : \E i \in 1..Len(p[b]) : \E j \in 1..Len(p[d]) :
    Way(p, b, i, c) /\ Way(p, d, j, c) /\ (d # b \/ j # i)
TwoCounted(p) == \A c \in 1..Len(p) : TwoWays(p, c) => SuccsOf(c) >= 2
SplitOK ==
  /\ FlowOK(preds) /\ CountsOK(Len(preds)) /\ TwoCounted(preds)
  /\ DOMAIN numBlockPreds \subseteq 1..Len(preds)
  /\ \A b \in DOMAIN numBlockPreds :
       \/ numBlockPreds[b] = Len(preds[b])
       \/ numBlockPreds[b] = 0 /\ \A i \in 1..Len(preds[b]) : ~IsCritical(preds[b][i])
  /\ \A b \in 1..Len(preds) : Entered(preds, b) => b \in DOMAIN numBlockPreds \/ Len(preds[b]) = 1

Unscanned == newBlocks = <<>> /\ numBlockPreds = <<>> /\ numBlockSuccs = <<>>
FlowInv ==
  /\ phase \in {"parse", "sema", "lower"} => Unscanned
  /\ phase \in {"parse", "sema"} => alive = <<>>
  /\ phase = "sema" => CfbOK
  /\ phase = "lower" => CfbOK /\ LeadOK(preds, cur, alive, tasks)
  /\ phase = "scan" => ScanOK
  /\ phase = "split" => SplitOK
  /\ NoCriticalEdges
-----------------------------------------------------------------------------
(*                         Where code goes on                              *)

(* C is the task t and then the tasks T. *)
Linked(C, t, T) ==
  /\ C # <<>> /\ (DemandsFirst(C) <=> Demands(t))
  /\ Live(C) = (IF t.do = "set" /\ DemandsFirst(T) THEN {t.b} ELSE {}) \cup Live(T)
  /\ AllGoOn(C) <=> GoesOn(t, T) /\ AllGoOn(T)

LEMMA LiveAre ==
  ASSUME NEW T
  PROVE  \A b : b \in Live(T) <=> \E i \in 1..Len(T) : T[i].do = "set" /\ DemandsFirst(Behind(T, i)) /\ T[i].b = b
  BY DEF Live

LEMMA LiveAreSets == ASSUME NEW T PROVE Live(T) \subseteq Sets(T)
  BY LiveAre, TargetsAre DEF Sets

LEMMA LinkedCons ==
  ASSUME NEW t \in Chores, NEW T \in Seq(Chores), NEW C, C = <<t>> \o T
  PROVE  Linked(C, t, T)
<1> DEFINE s == <<t>>
<1>1. s \in Seq(Chores) /\ Len(s) = 1 /\ C = s \o T
  OBVIOUS
<1>2. Behind(C, 1) = T /\ C[1] = t /\ Len(C) = 1 + Len(T) /\ C # <<>>
  BY BehindFirst
<1> HIDE DEF s
<1>3. ASSUME NEW i \in 1..Len(T) PROVE C[1 + i] = T[i] /\ Behind(C, 1 + i) = Behind(T, i)
  <2>1. i \in 0..Len(T)
    OBVIOUS
  <2>2. Behind(s \o T, Len(s) + i) = Behind(T, i)
    BY <2>1, <1>1, BehindConcat
  <2>3. (s \o T)[Len(s) + i] = T[i]
    BY <1>1, ConcatFacts
  <2> QED
    BY <2>2, <2>3, <1>1
<1>4. Len(T) \in Nat
  OBVIOUS
<1>5. \A j \in 1..Len(C) : j = 1 \/ (j - 1 \in 1..Len(T) /\ 1 + (j - 1) = j)
  BY <1>2, <1>4
<1>6. 1 \in 1..Len(C) /\ \A i \in 1..Len(T) : 1 + i \in 1..Len(C)
  BY <1>2, <1>4
<1>7. Live(C) = (IF t.do = "set" /\ DemandsFirst(T) THEN {t.b} ELSE {}) \cup Live(T)
  <2>1. ASSUME NEW b \in Live(C) PROVE (t.do = "set" /\ DemandsFirst(T) /\ t.b = b) \/ b \in Live(T)
    <3>1. PICK j \in 1..Len(C) : C[j].do = "set" /\ DemandsFirst(Behind(C, j)) /\ C[j].b = b
      BY LiveAre
    <3>2. CASE j = 1
      BY <3>1, <3>2, <1>2
    <3>3. CASE j - 1 \in 1..Len(T) /\ 1 + (j - 1) = j
      <4>1. C[j] = T[j - 1] /\ Behind(C, j) = Behind(T, j - 1)
        BY <3>3, <1>3
      <4> QED
        BY <4>1, <3>1, <3>3, LiveAre
    <3> QED
      BY <3>2, <3>3, <1>5
  <2>2. ASSUME NEW b \in Live(T) PROVE b \in Live(C)
    <3>1. PICK i \in 1..Len(T) : T[i].do = "set" /\ DemandsFirst(Behind(T, i)) /\ T[i].b = b
      BY LiveAre
    <3>2. 1 + i \in 1..Len(C) /\ C[1 + i] = T[i] /\ Behind(C, 1 + i) = Behind(T, i)
      BY <1>3, <1>6
    <3> QED
      BY <3>1, <3>2, LiveAre, ZenonT(60)
  <2>3. ASSUME t.do = "set", DemandsFirst(T) PROVE t.b \in Live(C)
    <3>1. C[1].do = "set" /\ DemandsFirst(Behind(C, 1)) /\ C[1].b = t.b
      BY <2>3, <1>2
    <3> HIDE <1>2
    <3> QED
      BY <3>1, <1>6, LiveAre
  <2> QED
    BY <2>1, <2>2, <2>3
<1>8. AllGoOn(C) <=> GoesOn(t, T) /\ AllGoOn(T)
  <2>1. ASSUME AllGoOn(C) PROVE GoesOn(t, T) /\ AllGoOn(T)
    <3>1. GoesOn(t, T)
      BY <2>1, <1>2, <1>6 DEF AllGoOn
    <3>2. \A i \in 1..Len(T) : GoesOn(T[i], Behind(T, i))
      <4> SUFFICES ASSUME NEW i \in 1..Len(T) PROVE GoesOn(T[i], Behind(T, i))
        OBVIOUS
      <4>1. GoesOn(C[1 + i], Behind(C, 1 + i))
        BY <2>1, <1>6 DEF AllGoOn
      <4> QED
        BY <4>1, <1>3
    <3> QED
      BY <3>1, <3>2 DEF AllGoOn
  <2>2. ASSUME GoesOn(t, T), AllGoOn(T) PROVE AllGoOn(C)
    <3> SUFFICES ASSUME NEW j \in 1..Len(C) PROVE GoesOn(C[j], Behind(C, j))
      BY DEF AllGoOn
    <3>1. CASE j = 1
      BY <3>1, <2>2, <1>2
    <3>2. CASE j - 1 \in 1..Len(T) /\ 1 + (j - 1) = j
      <4>1. C[j] = T[j - 1] /\ Behind(C, j) = Behind(T, j - 1)
        BY <3>2, <1>3
      <4> QED
        BY <4>1, <3>2, <2>2 DEF AllGoOn
    <3> QED
      BY <3>1, <3>2, <1>5
  <2> QED
    BY <2>1, <2>2
<1>9. DemandsFirst(C) <=> Demands(t)
  BY <1>2 DEF DemandsFirst
<1> QED
  BY <1>2, <1>7, <1>8, <1>9 DEF Linked

LEMMA NextLinked ==
  ASSUME LowerOK(preds, code, mature, cur, tasks), tasks # <<>>
  PROVE  Linked(tasks, Due1, Rest) /\ Due1 \in Chores /\ Rest \in Seq(Chores)
<1>1. tasks \in Seq(Chores)
  BY DEF LowerOK, TasksOK
<1>2. Due1 \in Chores /\ Rest \in Seq(Chores) /\ tasks = <<Due1>> \o Rest
  BY <1>1, HeadTailProperties DEF Due1, Rest
<1> QED
  BY <1>2, LinkedCons

BranchLive(C, T, s, b) ==
  AllGoOn(C) /\ ~DemandsFirst(C) /\ Live(C) = (IF s # NoStmt THEN {b} ELSE {}) \cup Live(T)

(* A branch in block b that ends in a jump to block j, before the tasks T. *)
LEMMA BranchGoesOn ==
  ASSUME NEW T \in Seq(Chores), AllGoOn(T), ~DemandsFirst(T), NEW s \in Nat, NEW b \in Nat, NEW j \in Nat,
         s # NoStmt /\ Continues(s) => j \in Live(T), NEW C, C = Branch(s, b, j) \o T
  PROVE  BranchLive(C, T, s, b)
<1>1. CASE s = NoStmt
  <2>1. C = T
    BY <1>1 DEF Branch
  <2> QED
    BY <2>1, <1>1 DEF BranchLive
<1>2. CASE s # NoStmt
  <2> DEFINE c == JmpTo(s, j)
             t == StmtTask(s)
             a == SetBlock(b)
             T1 == <<c>> \o T
             T2 == <<t>> \o T1
             T3 == <<a>> \o T2
  <2>1. /\ c.do = "jmp" /\ c.n = s /\ c.b = j /\ t.do = "stmt" /\ t.n = s /\ a.do = "set" /\ a.b = b
    BY TaskFields
  <2>2. a \in Chores /\ t \in Chores /\ c \in Chores
    BY DEF SetBlock, StmtTask, JmpTo, Chores, NoStmt
  <2>3. C = <<a, t, c>> \o T
    BY <1>2 DEF Branch
  <2> HIDE DEF a, t, c
  <2>4. <<a, t, c>> \o T = <<a>> \o (<<t>> \o (<<c>> \o T))
    BY <2>2, ThreeInFront, Zenon
  <2>5. C = T3
    BY <2>3, <2>4, Zenon
  <2>6. T1 \in Seq(Chores)
    BY <2>2
  <2>7. Linked(T1, c, T)
    BY <2>2, LinkedCons, Zenon
  <2> HIDE DEF T1
  <2>8. T2 \in Seq(Chores)
    BY <2>2, <2>6
  <2>9. Linked(T2, t, T1)
    BY <2>2, <2>6, LinkedCons, Zenon
  <2> HIDE DEF T2
  <2>10. Linked(T3, a, T2)
    BY <2>2, <2>8, LinkedCons, Zenon
  <2> HIDE DEF T3
  <2>11. AllGoOn(T1) /\ Live(T1) = Live(T) /\ (DemandsFirst(T1) <=> Continues(s))
    BY <2>1, <2>7, <1>2 DEF Linked, GoesOn, Demands
  <2>12. AllGoOn(T2) /\ Live(T2) = Live(T) /\ DemandsFirst(T2)
    BY <2>1, <2>9, <2>11 DEF Linked, GoesOn, Demands
  <2>13. AllGoOn(T3) /\ Live(T3) = {b} \cup Live(T) /\ ~DemandsFirst(T3)
    BY <2>1, <2>10, <2>12 DEF Linked, GoesOn, Demands
  <2> QED
    BY <2>5, <2>13, <1>2 DEF BranchLive
<1> QED
  BY <1>1, <1>2
-----------------------------------------------------------------------------
(*                          Where the ways lead                            *)

(* q is p with the edge e into b. *)
EdgeIn(q, p, b, e) ==
  /\ q \in Seq(Seq(Edges)) /\ Len(q) = Len(p)
  /\ \A c \in 1..Len(p) : Entered(q, c) <=> Entered(p, c) \/ (c = b /\ IsReal(e))
  /\ \A S : BackClosed(q, S) => BackClosed(p, S) /\ (b \in S /\ IsReal(e) => e.src \in S)

LEMMA EdgeAdded ==
  ASSUME NEW p \in Seq(Seq(Edges)), NEW b \in 1..Len(p), NEW e \in Edges, NEW q, q = AddPred(p, b, e)
  PROVE  EdgeIn(q, p, b, e)
<1> DEFINE new == Append(p[b], e)
<1>1. /\ p[b] \in Seq(Edges) /\ new \in Seq(Edges) /\ Len(new) = Len(p[b]) + 1 /\ Len(p[b]) \in Nat
      /\ new[Len(p[b]) + 1] = e /\ \A i \in 1..Len(p[b]) : new[i] = p[b][i]
  BY GraphTyped, AppendFacts
<1> HIDE DEF new
<1>2. /\ q \in Seq(Seq(Edges)) /\ Len(q) = Len(p) /\ q[b] = new /\ \A c \in 1..Len(p) : c # b => q[c] = p[c]
  <2>1. q = [p EXCEPT ![b] = new]
    BY DEF AddPred, new
  <2> QED
    BY <2>1, <1>1
<1>3. \A i \in 1..Len(new) : i \in 1..Len(p[b]) \/ i = Len(p[b]) + 1
  BY <1>1
<1>4. Len(p[b]) + 1 \in 1..Len(new) /\ \A i \in 1..Len(p[b]) : i \in 1..Len(new)
  BY <1>1
<1>5. ASSUME NEW c \in 1..Len(p) PROVE Entered(q, c) <=> Entered(p, c) \/ (c = b /\ IsReal(e))
  <2>1. CASE c # b
    BY <2>1, <1>2 DEF Entered
  <2>2. CASE c = b
    <3>1. Entered(q, c) => Entered(p, c) \/ IsReal(e)
      BY <2>2, <1>1, <1>2, <1>3 DEF Entered
    <3>2. Entered(p, c) => Entered(q, c)
      BY <2>2, <1>1, <1>2, <1>4 DEF Entered
    <3>3. IsReal(e) => Entered(q, c)
      BY <2>2, <1>1, <1>2, <1>4 DEF Entered
    <3> QED
      BY <3>1, <3>2, <3>3, <2>2
  <2> QED
    BY <2>1, <2>2
<1>6. ASSUME NEW S, BackClosed(q, S) PROVE BackClosed(p, S) /\ (b \in S /\ IsReal(e) => e.src \in S)
  <2>1. ASSUME NEW c \in 1..Len(p), c \in S, NEW i \in 1..Len(p[c]), IsReal(p[c][i]) PROVE p[c][i].src \in S
    <3>1. CASE c # b
      BY <3>1, <2>1, <1>2, <1>6 DEF BackClosed
    <3>2. CASE c = b
      <4>1. i \in 1..Len(q[c]) /\ q[c][i] = p[c][i] /\ c \in 1..Len(q)
        BY <3>2, <1>1, <1>2, <1>4
      <4> QED
        BY <4>1, <2>1, <1>6 DEF BackClosed
    <3> QED
      BY <3>1, <3>2
  <2>2. ASSUME b \in S, IsReal(e) PROVE e.src \in S
    <3>1. Len(p[b]) + 1 \in 1..Len(q[b]) /\ q[b][Len(p[b]) + 1] = e /\ b \in 1..Len(q)
      BY <1>1, <1>2, <1>4
    <3> DEFINE l == Len(p[b]) + 1
    <3> HIDE DEF l
    <3>2. l \in 1..Len(q[b]) /\ q[b][l] = e
      BY <3>1 DEF l
    <3> QED
      BY <3>1, <3>2, <2>2, <1>6 DEF BackClosed
  <2> QED
    BY <2>1, <2>2 DEF BackClosed
<1> QED
  BY <1>2, <1>5, <1>6 DEF EdgeIn

(* q is p with k new blocks. *)
BlocksIn(q, p, k) ==
  /\ q \in Seq(Seq(Edges)) /\ Len(q) = Len(p) + k
  /\ \A c \in 1..Len(q) : Entered(q, c) <=> c \in 1..Len(p) /\ Entered(p, c)
  /\ \A S : BackClosed(q, S) => BackClosed(p, S)

LEMMA BlocksAdded ==
  ASSUME NEW p \in Seq(Seq(Edges)), NEW k \in Nat, NEW q, q = Grow(p, k)
  PROVE  BlocksIn(q, p, k)
<1>1. /\ q \in Seq(Seq(Edges)) /\ Len(q) = Len(p) + k /\ Len(p) \in Nat
      /\ \A c \in 1..Len(p) : q[c] = p[c]
      /\ \A c \in (Len(p) + 1)..(Len(p) + k) : q[c] = <<>>
  <2>1. <<>> \in Seq(Edges)
    OBVIOUS
  <2> QED
    BY <2>1, GrowFacts, ZenonT(60)
<1>2. \A c \in 1..Len(q) : c \in 1..Len(p) \/ (c \notin 1..Len(p) /\ c \in (Len(p) + 1)..(Len(p) + k))
  BY <1>1
<1>3. \A c \in 1..Len(p) : c \in 1..Len(q)
  BY <1>1
<1>4. ASSUME NEW c \in 1..Len(q) PROVE Entered(q, c) <=> c \in 1..Len(p) /\ Entered(p, c)
  <2>1. CASE c \in 1..Len(p)
    BY <2>1, <1>1 DEF Entered
  <2>2. CASE c \notin 1..Len(p) /\ c \in (Len(p) + 1)..(Len(p) + k)
    <3>1. q[c] = <<>>
      BY <2>2, <1>1
    <3>2. 1..Len(q[c]) = {}
      BY <3>1
    <3> QED
      BY <2>2, <3>2 DEF Entered
  <2> QED
    BY <2>1, <2>2, <1>2
<1>5. \A S : BackClosed(q, S) => BackClosed(p, S)
  BY <1>1, <1>3 DEF BackClosed
<1> QED
  BY <1>1, <1>4, <1>5 DEF BlocksIn

LEMMA LeadsOn ==
  ASSUME NEW p, NEW X, Leads(p, X), NEW q, NEW Y,
         \A S : Y \subseteq S /\ BackClosed(q, S) =>
           /\ BackClosed(p, S) /\ X \subseteq S
           /\ \A b \in 1..Len(q) : Entered(q, b) => (b \in 1..Len(p) /\ Entered(p, b)) \/ b \in S
  PROVE  Leads(q, Y)
  BY DEF Leads

NextLead == LeadOK(preds', cur', alive', tasks')

(* What a task takes from the invariant. *)
LEMMA NextLeads ==
  ASSUME LowerOK(preds, code, mature, cur, tasks), LeadOK(preds, cur, alive, tasks), tasks # <<>>
  PROVE  /\ GoesOn(Due1, Rest) /\ AllGoOn(Rest)
         /\ Live(tasks) = (IF Due1.do = "set" /\ DemandsFirst(Rest) THEN {Due1.b} ELSE {}) \cup Live(Rest)
         /\ (DemandsFirst(tasks) <=> Demands(Due1)) /\ (Due1.do = "stmt" => Demands(Due1))
  BY NextLinked DEF LeadOK, Linked, Demands

LEMMA ExprLeads ==
  ASSUME CfbOK, LowerOK(preds, code, mature, cur, tasks), LeadOK(preds, cur, alive, tasks), LowerExpr
  PROVE  NextLead
<1>1. /\ Do("stmt") /\ Due1.do = "stmt" /\ tasks' = Rest /\ preds' = preds /\ cur' = cur /\ alive' = alive
      /\ Op(Due1.n) = "expr" /\ tasks # <<>>
  BY DEF LowerExpr, DoStmt, Do, Due1, Rest
<1>2. /\ Due1.n \in 1..Len(stmts) /\ Visited(Due1.n) /\ Sets(Rest) = Sets(tasks) /\ Loops(Rest) = Loops(tasks)
  BY <1>1, StmtFacts
<1>3. Continues(Due1.n)
  BY <1>1, <1>2 DEF CfbOK
<1>4. /\ GoesOn(Due1, Rest) /\ AllGoOn(Rest) /\ Live(tasks) = Live(Rest) /\ DemandsFirst(tasks)
  BY <1>1, NextLeads
<1>5. DemandsFirst(Rest)
  BY <1>1, <1>3, <1>4 DEF GoesOn
<1> QED
  BY <1>1, <1>2, <1>4, <1>5 DEF NextLead, LeadOK, Idle, Unfinished

LEMMA ReturnLeads ==
  ASSUME LowerOK(preds, code, mature, cur, tasks), LeadOK(preds, cur, alive, tasks), LowerReturn
  PROVE  NextLead
<1> DEFINE e == Edge(cur, "ret")
<1>1. /\ Do("stmt") /\ Due1.do = "stmt" /\ tasks' = Rest /\ cur' = cur /\ alive' = alive /\ tasks # <<>>
      /\ preds' = AddPred(preds, EndBlock, e)
  BY DEF LowerReturn, DoStmt, Do, Due1, Rest
<1>2. Sets(Rest) = Sets(tasks) /\ Loops(Rest) = Loops(tasks)
  BY <1>1, StmtFacts
<1>3. AllGoOn(Rest) /\ Live(tasks) = Live(Rest)
  BY <1>1, NextLeads
<1>4. e \in Edges /\ e.src = cur /\ IsReal(e)
  BY LowerFacts DEF Edges, Edge, IsReal
<1> HIDE DEF e
<1>5. preds \in Seq(Seq(Edges)) /\ EndBlock \in 1..Len(preds)
  BY LowerFacts DEF EndBlock
<1>6. EdgeIn(preds', preds, EndBlock, e)
  BY <1>1, <1>4, <1>5, EdgeAdded
<1>7. /\ Len(preds') = Len(preds)
      /\ \A c \in 1..Len(preds) : Entered(preds', c) <=> Entered(preds, c) \/ c = EndBlock
      /\ \A S : BackClosed(preds', S) => BackClosed(preds, S) /\ (EndBlock \in S => cur \in S)
  BY <1>4, <1>6 DEF EdgeIn
<1>8. Leads(preds', Kept(alive) \cup Unfinished(cur, Rest))
  <2> DEFINE X == Kept(alive) \cup Unfinished(cur, tasks)
             Y == Kept(alive) \cup Unfinished(cur, Rest)
  <2>1. Leads(preds, X)
    BY DEF LeadOK
  <2>2. EndBlock \in Y /\ X \subseteq Y \cup {cur}
    BY <1>3 DEF Kept, Unfinished
  <2> HIDE DEF X, Y
  <2>3. ASSUME NEW S, Y \subseteq S, BackClosed(preds', S)
        PROVE  /\ BackClosed(preds, S) /\ X \subseteq S
               /\ \A b \in 1..Len(preds') : Entered(preds', b) => (b \in 1..Len(preds) /\ Entered(preds, b)) \/ b \in S
    BY <2>2, <2>3, <1>7
  <2>4. Leads(preds', Y)
    BY <2>1, <2>3, LeadsOn
  <2> QED
    BY <2>4 DEF Y
<1>9. Sets(tasks) \subseteq 3..Len(preds) /\ Loops(tasks) \subseteq 3..Len(preds)
  <2>1. TasksOK(tasks, Len(preds))
    BY DEF LowerOK
  <2> QED
    BY <2>1, AllTargetsIn DEF TasksTargetsIn
<1>10. Idle(preds', Rest) /\ \A b \in Loops(Rest) : Entered(preds', b)
  <2>1. \A b \in 3..Len(preds) : b \in 1..Len(preds) /\ b # EndBlock
    BY LowerFacts DEF EndBlock
  <2> QED
    BY <2>1, <1>2, <1>3, <1>7, <1>9 DEF Idle, LeadOK
<1> QED
  BY <1>1, <1>3, <1>7, <1>8, <1>10 DEF NextLead, LeadOK

LEMMA SetLeads ==
  ASSUME LowerOK(preds, code, mature, cur, tasks), LeadOK(preds, cur, alive, tasks), SetCurBlock
  PROVE  NextLead
<1>1. /\ tasks # <<>> /\ Due1.do = "set" /\ tasks' = Rest /\ preds' = preds /\ alive' = alive /\ cur' = Due1.b
  BY DEF SetCurBlock, Do, Due1, Rest
<1>2. Fits(Due1, Rest) /\ Sets(tasks) = {Due1.b} \cup Sets(Rest) /\ Loops(tasks) = Loops(Rest)
  BY <1>1, NextTask
<1>3. Due1.b \notin Sets(Rest)
  BY <1>1, <1>2 DEF Fits
<1>4. /\ AllGoOn(Rest) /\ Live(tasks) = (IF DemandsFirst(Rest) THEN {Due1.b} ELSE {}) \cup Live(Rest)
      /\ ~DemandsFirst(tasks)
  BY <1>1, NextLeads DEF Demands
<1>5. Unfinished(cur, tasks) = Unfinished(Due1.b, Rest)
  BY <1>4 DEF Unfinished
<1>6. Idle(preds, Rest)
  BY <1>2, <1>3, <1>4 DEF Idle, LeadOK
<1> QED
  BY <1>1, <1>2, <1>4, <1>5, <1>6 DEF NextLead, LeadOK

LEMMA JumpLeads ==
  ASSUME LowerOK(preds, code, mature, cur, tasks), LeadOK(preds, cur, alive, tasks), Jump
  PROVE  NextLead
<1> DEFINE e == Edge(cur, "jmp")
<1>1. /\ tasks # <<>> /\ Due1.do = "jmp" /\ tasks' = Rest /\ cur' = cur /\ alive' = alive
      /\ preds' = IF cfb[Due1.n] = "MayContinue" THEN AddPred(preds, Due1.b, e) ELSE preds
  BY DEF Jump, Do, Due1, Rest
<1>2. TaskOK(Due1, Len(preds)) /\ Sets(tasks) = Sets(Rest) /\ Loops(tasks) = Loops(Rest)
  BY <1>1, NextTask
<1>3. Due1.b \in 1..Len(preds) /\ (Continues(Due1.n) <=> cfb[Due1.n] = "MayContinue")
  BY <1>1, <1>2 DEF TaskOK, Continues, CfbOf, NoStmt
<1>4. /\ GoesOn(Due1, Rest) /\ AllGoOn(Rest) /\ Live(tasks) = Live(Rest)
      /\ DemandsFirst(tasks) <=> Continues(Due1.n)
  BY <1>1, NextLeads DEF Demands
<1>5. CASE ~Continues(Due1.n)
  <2>1. preds' = preds
    BY <1>1, <1>3, <1>5
  <2>2. Kept(alive) \cup Unfinished(cur, tasks) \subseteq Kept(alive) \cup Unfinished(cur, Rest)
    BY <1>4, <1>5 DEF Unfinished
  <2>3. Leads(preds, Kept(alive) \cup Unfinished(cur, Rest))
    BY <2>2 DEF LeadOK, Leads
  <2> QED
    BY <2>1, <2>3, <1>1, <1>2, <1>4 DEF NextLead, LeadOK, Idle
<1>6. CASE Continues(Due1.n)
  <2>1. Due1.b \in Live(Rest)
    BY <1>1, <1>4, <1>6 DEF GoesOn
  <2>2. e \in Edges /\ e.src = cur /\ IsReal(e) /\ preds \in Seq(Seq(Edges)) /\ preds' = AddPred(preds, Due1.b, e)
    BY <1>1, <1>3, <1>6, LowerFacts DEF Edges, Edge, IsReal
  <2> HIDE DEF e
  <2>3. EdgeIn(preds', preds, Due1.b, e)
    BY <2>2, <1>3, EdgeAdded
  <2>4. /\ Len(preds') = Len(preds)
        /\ \A c \in 1..Len(preds) : Entered(preds', c) <=> Entered(preds, c) \/ c = Due1.b
        /\ \A S : BackClosed(preds', S) => BackClosed(preds, S) /\ (Due1.b \in S => cur \in S)
    BY <2>2, <2>3 DEF EdgeIn
  <2> DEFINE X == Kept(alive) \cup Unfinished(cur, tasks)
             Y == Kept(alive) \cup Unfinished(cur, Rest)
  <2>5. Leads(preds, X) /\ Due1.b \in Y /\ X \subseteq Y \cup {cur}
    BY <2>1, <1>4 DEF Unfinished, LeadOK
  <2> HIDE DEF X, Y
  <2>6. ASSUME NEW S, Y \subseteq S, BackClosed(preds', S)
        PROVE  /\ BackClosed(preds, S) /\ X \subseteq S
               /\ \A b \in 1..Len(preds') : Entered(preds', b) => (b \in 1..Len(preds) /\ Entered(preds, b)) \/ b \in S
    BY <2>4, <2>5, <2>6
  <2>7. Leads(preds', Y)
    BY <2>5, <2>6, LeadsOn
  <2>8. Sets(Rest) \subseteq 1..Len(preds) /\ Loops(Rest) \subseteq 1..Len(preds)
    <3>1. TasksTargetsIn(Rest, Len(preds)) /\ 3..Len(preds) \subseteq 1..Len(preds)
      BY <1>1, NextTask, LowerFacts
    <3> QED
      BY <3>1 DEF TasksTargetsIn
  <2>9. Idle(preds', Rest) /\ \A b \in Loops(Rest) : Entered(preds', b)
    BY <2>1, <2>4, <2>8, <1>2, <1>4 DEF Idle, LeadOK
  <2> QED
    BY <2>4, <2>7, <2>9, <1>1, <1>4 DEF NextLead, LeadOK, Y
<1> QED
  BY <1>5, <1>6

LEMMA EndLoopLeads ==
  ASSUME LowerOK(preds, code, mature, cur, tasks), LeadOK(preds, cur, alive, tasks), LowerEndLoop
  PROVE  NextLead
<1> DEFINE e == Edge(cur, "jmp")
<1>1. /\ tasks # <<>> /\ Due1.do = "endloop" /\ tasks' = Rest /\ cur' = cur /\ alive' = Append(alive, cur)
      /\ preds' = AddPred(preds, Due1.b, e) \/ preds' = preds
  BY DEF LowerEndLoop, Do, Due1, Rest
<1>2. /\ TaskOK(Due1, Len(preds)) /\ Sets(tasks) = Sets(Rest) /\ Loops(tasks) = {Due1.b} \cup Loops(Rest)
  BY <1>1, NextTask
<1>3. Due1.b \in 1..Len(preds) /\ Entered(preds, Due1.b)
  BY <1>1, <1>2 DEF TaskOK, LeadOK
<1>4. AllGoOn(Rest) /\ Live(tasks) = Live(Rest)
  BY <1>1, NextLeads
<1>5. e \in Edges /\ preds \in Seq(Seq(Edges)) /\ cur \in 1..Len(preds)
  BY LowerFacts DEF Edges, Edge
<1> HIDE DEF e
<1>6. /\ Len(preds') = Len(preds)
      /\ \A c \in 1..Len(preds) : Entered(preds', c) <=> Entered(preds, c)
      /\ \A S : BackClosed(preds', S) => BackClosed(preds, S)
  <2>1. CASE preds' = preds
    BY <2>1
  <2>2. CASE preds' = AddPred(preds, Due1.b, e)
    <3>1. EdgeIn(preds', preds, Due1.b, e)
      BY <2>2, <1>3, <1>5, EdgeAdded
    <3> QED
      BY <3>1, <1>3 DEF EdgeIn
  <2> QED
    BY <2>1, <2>2, <1>1
<1>7. alive' \in Seq(1..Len(preds)) /\ Range(alive) \cup {cur} \subseteq Range(alive')
  <2>1. alive \in Seq(1..Len(preds))
    BY DEF LeadOK
  <2>2. /\ alive' \in Seq(1..Len(preds)) /\ Len(alive') = Len(alive) + 1 /\ Len(alive) \in Nat
        /\ alive'[Len(alive) + 1] = cur /\ \A i \in 1..Len(alive) : alive'[i] = alive[i]
    BY <2>1, <1>1, <1>5, AppendFacts
  <2>3. DOMAIN alive' = 1..Len(alive') /\ DOMAIN alive = 1..Len(alive)
    BY <2>1, <2>2
  <2>4. Len(alive) + 1 \in DOMAIN alive' /\ \A i \in DOMAIN alive : i \in DOMAIN alive'
    BY <2>2, <2>3
  <2>5. cur \in Range(alive')
    BY <2>2, <2>4 DEF Range
  <2>6. \A x \in Range(alive) : x \in Range(alive')
    BY <2>2, <2>3, <2>4 DEF Range
  <2> QED
    BY <2>2, <2>5, <2>6
<1> DEFINE X == Kept(alive) \cup Unfinished(cur, tasks)
           Y == Kept(alive') \cup Unfinished(cur, Rest)
<1>8. Leads(preds, X) /\ X \subseteq Y
  BY <1>4, <1>7 DEF Unfinished, Kept, LeadOK
<1> HIDE DEF X, Y
<1>9. Leads(preds', Y)
  <2>1. ASSUME NEW S, Y \subseteq S, BackClosed(preds', S)
        PROVE  /\ BackClosed(preds, S) /\ X \subseteq S
               /\ \A b \in 1..Len(preds') : Entered(preds', b) => (b \in 1..Len(preds) /\ Entered(preds, b)) \/ b \in S
    BY <2>1, <1>6, <1>8
  <2> QED
    BY <2>1, <1>8, LeadsOn
<1>10. Sets(Rest) \subseteq 1..Len(preds) /\ Loops(Rest) \subseteq 1..Len(preds)
  <2>1. TasksTargetsIn(Rest, Len(preds)) /\ 3..Len(preds) \subseteq 1..Len(preds)
    BY <1>1, NextTask, LowerFacts
  <2> QED
    BY <2>1 DEF TasksTargetsIn
<1>11. Idle(preds', Rest) /\ \A b \in Loops(Rest) : Entered(preds', b)
  BY <1>2, <1>4, <1>6, <1>10 DEF Idle, LeadOK
<1> QED
  BY <1>1, <1>4, <1>6, <1>7, <1>9, <1>11 DEF NextLead, LeadOK, Y

(* C is P and then T. *)
Joined(C, P, T) ==
  /\ C \in Seq(Chores) /\ Len(C) = Len(P) + Len(T) /\ Len(P) \in Nat /\ Len(T) \in Nat
  /\ (\A i \in 1..Len(P) : C[i] = P[i]) /\ (\A i \in 1..Len(T) : C[Len(P) + i] = T[i])
  /\ \A i \in 0..Len(T) : Behind(C, Len(P) + i) = Behind(T, i)

LEMMA JoinedIs ==
  ASSUME NEW P \in Seq(Chores), NEW T \in Seq(Chores), NEW C, C = P \o T
  PROVE  Joined(C, P, T)
<1>1. /\ C \in Seq(Chores) /\ Len(C) = Len(P) + Len(T) /\ Len(P) \in Nat /\ Len(T) \in Nat
      /\ (\A i \in 1..Len(P) : C[i] = P[i]) /\ \A i \in 1..Len(T) : C[Len(P) + i] = T[i]
  BY ConcatFacts
<1>2. \A i \in 0..Len(T) : Behind(C, Len(P) + i) = Behind(T, i)
  BY BehindConcat
<1> QED
  BY <1>1, <1>2 DEF Joined

(* Statements in front of the tasks T. *)
LEMMA StmtsInFront ==
  ASSUME NEW P \in Seq(Chores), NEW T \in Seq(Chores), \A i \in 1..Len(P) : P[i].do = "stmt", AllGoOn(T),
         P # <<>> /\ Continues(P[Len(P)].n) => DemandsFirst(T), NEW C, Joined(C, P, T)
  PROVE  /\ Live(C) = Live(T) /\ AllGoOn(C)
         /\ DemandsFirst(C) <=> P # <<>> \/ DemandsFirst(T)
<1>1. /\ C \in Seq(Chores) /\ Len(C) = Len(P) + Len(T) /\ Len(P) \in Nat /\ Len(T) \in Nat
      /\ (\A i \in 1..Len(P) : C[i] = P[i]) /\ \A i \in 1..Len(T) : C[Len(P) + i] = T[i]
  BY DEF Joined
<1>2. \A i \in 0..Len(T) : Behind(C, Len(P) + i) = Behind(T, i)
  BY DEF Joined
<1>3. ASSUME NEW i \in 1..Len(T)
      PROVE  Len(P) + i \in 1..Len(C) /\ C[Len(P) + i] = T[i] /\ Behind(C, Len(P) + i) = Behind(T, i)
  <2>1. i \in 0..Len(T) /\ Len(P) + i \in 1..Len(C)
    BY <1>1
  <2> QED
    BY <2>1, <1>1, <1>2
<1>4. ASSUME NEW j \in 1..Len(C) PROVE j \in 1..Len(P) \/ \E i \in 1..Len(T) : j = Len(P) + i
  <2>1. j \in 1..(Len(P) + Len(T))
    BY <1>1
  <2> QED
    BY <2>1, <1>1, SplitIndex
<1>5. Live(C) = Live(T)
  <2>1. ASSUME NEW b \in Live(C) PROVE b \in Live(T)
    <3>1. PICK j \in 1..Len(C) : C[j].do = "set" /\ DemandsFirst(Behind(C, j)) /\ C[j].b = b
      BY LiveAre
    <3>2. j \notin 1..Len(P)
      BY <3>1, <1>1
    <3>3. PICK i \in 1..Len(T) : j = Len(P) + i
      BY <3>2, <1>4
    <3>4. C[j] = T[i] /\ Behind(C, j) = Behind(T, i)
      BY <3>3, <1>3
    <3> QED
      BY <3>1, <3>4, LiveAre
  <2>2. ASSUME NEW b \in Live(T) PROVE b \in Live(C)
    <3>1. PICK i \in 1..Len(T) : T[i].do = "set" /\ DemandsFirst(Behind(T, i)) /\ T[i].b = b
      BY LiveAre
    <3> DEFINE j == Len(P) + i
    <3>2. j \in 1..Len(C) /\ C[j] = T[i] /\ Behind(C, j) = Behind(T, i)
      BY <1>3
    <3> HIDE DEF j
    <3> QED
      BY <3>1, <3>2, LiveAre
  <2> QED
    BY <2>1, <2>2
<1>6. ASSUME NEW j \in 1..Len(C) PROVE GoesOn(C[j], Behind(C, j))
  <2>1. CASE j \in 1..Len(P) /\ j < Len(P)
    <3> DEFINE u == Behind(C, j)
    <3>1. j + 1 \in 1..Len(P) /\ j + 1 \in 1..Len(C)
      BY <2>1, <1>1
    <3>2. u # <<>> /\ u[1] = C[j + 1]
      <4>1. u \in Seq(Chores) /\ Len(u) = Len(C) - j /\ Len(C) - j > 0
        BY <3>1, <1>1 DEF Behind
      <4>2. u[1] = C[j + 1]
        BY <3>1, <1>1 DEF Behind
      <4> QED
        BY <4>1, <4>2
    <3>3. C[j + 1].do = "stmt" /\ C[j].do = "stmt"
      BY <3>1, <2>1, <1>1
    <3> HIDE DEF u
    <3>4. DemandsFirst(u)
      BY <3>2, <3>3 DEF DemandsFirst, Demands
    <3> QED
      BY <3>3, <3>4 DEF GoesOn, u
  <2>2. CASE j \in 1..Len(P) /\ ~(j < Len(P))
    <3>1. j = Len(P) /\ j = Len(P) + 0 /\ 0 \in 0..Len(T) /\ P # <<>>
      BY <2>2, <1>1
    <3>2. Behind(C, j) = T
      BY <3>1, <1>2, BehindAll
    <3>3. C[j] = P[Len(P)] /\ C[j].do = "stmt"
      BY <3>1, <2>2, <1>1
    <3> QED
      BY <3>1, <3>2, <3>3 DEF GoesOn
  <2>3. CASE \E i \in 1..Len(T) : j = Len(P) + i
    <3>1. PICK i \in 1..Len(T) : j = Len(P) + i
      BY <2>3
    <3>2. C[j] = T[i] /\ Behind(C, j) = Behind(T, i)
      BY <3>1, <1>3
    <3> QED
      BY <3>2 DEF AllGoOn
  <2> QED
    BY <2>1, <2>2, <2>3, <1>4
<1>7. DemandsFirst(C) <=> P # <<>> \/ DemandsFirst(T)
  <2>1. CASE P = <<>>
    <3>1. Len(P) = 0 /\ 0 \in 0..Len(T)
      BY <2>1, <1>1
    <3>2. Behind(C, 0) = Behind(T, 0)
      BY <3>1, <1>2
    <3>3. C = T
      BY <3>2, <1>1, BehindAll
    <3> QED
      BY <3>3, <2>1
  <2>2. CASE P # <<>>
    <3>1. 1 \in 1..Len(P) /\ C # <<>>
      BY <2>2, <1>1
    <3>2. C[1].do = "stmt"
      BY <3>1, <1>1
    <3> QED
      BY <3>1, <3>2, <2>2 DEF DemandsFirst, Demands
  <2> QED
    BY <2>1, <2>2
<1> QED
  BY <1>5, <1>6, <1>7 DEF AllGoOn

LEMMA BlockLeads ==
  ASSUME SourceOK, SemaOK, CfbOK, LowerOK(preds, code, mature, cur, tasks), LeadOK(preds, cur, alive, tasks), LowerBlock
  PROVE  NextLead
<1> DEFINE n == Due1.n
           ss == kept[n]
           P == [i \in 1..Len(ss) |-> StmtTask(ss[i])]
<1>1. /\ Do("stmt") /\ Due1.do = "stmt" /\ preds' = preds /\ cur' = cur /\ alive' = alive
      /\ Op(n) = "block" /\ tasks' = P \o Rest /\ tasks # <<>>
  BY DEF LowerBlock, DoStmt, Do, Due1, Rest, blocks
<1>2. n \in 1..Len(stmts) /\ Visited(n) /\ Sets(Rest) = Sets(tasks) /\ Loops(Rest) = Loops(tasks)
  BY <1>1, StmtFacts
<1>3. Rest \in Seq(Chores) /\ GoesOn(Due1, Rest) /\ AllGoOn(Rest) /\ Live(tasks) = Live(Rest) /\ DemandsFirst(tasks)
  BY <1>1, NextLeads, NextLinked
<1>4. ss \in Seq(Nat) /\ Len(ss) \in Nat
  <2>1. kept[n] \in Seq(Nat)
    BY <1>2 DEF SemaOK
  <2> QED
    BY <2>1
<1>5. /\ Continues(n) => DemandsFirst(Rest)
      /\ ~Continues(n) => Len(ss) > 0 /\ ~Continues(ss[Len(ss)])
  BY <1>1, <1>2, <1>3 DEF GoesOn, CfbOK
<1> HIDE DEF n, ss
<1>6. P \in Seq(Chores) /\ Len(P) = Len(ss) /\ \A i \in 1..Len(P) : P[i].do = "stmt" /\ P[i].n = ss[i]
  <2>1. \A i \in 1..Len(ss) : ss[i] \in Nat
    BY <1>4
  <2>2. \A i \in 1..Len(ss) : StmtTask(ss[i]) \in Chores
    BY <2>1 DEF StmtTask, Chores
  <2>3. P \in Seq(Chores) /\ Len(P) = Len(ss) /\ \A i \in 1..Len(P) : P[i] = StmtTask(ss[i])
    BY <2>2, <1>4
  <2> HIDE DEF P
  <2> QED
    BY <2>3, TaskFields
<1> HIDE DEF P
<1>7. P # <<>> /\ Continues(P[Len(P)].n) => DemandsFirst(Rest)
  <2> SUFFICES ASSUME P # <<>>, Continues(P[Len(P)].n) PROVE DemandsFirst(Rest)
    OBVIOUS
  <2>1. Len(P) \in 1..Len(P)
    BY <1>6
  <2>2. P[Len(P)].n = ss[Len(ss)]
    BY <2>1, <1>6
  <2> QED
    BY <2>2, <1>5
<1>8. /\ Live(tasks') = Live(Rest) /\ AllGoOn(tasks')
      /\ DemandsFirst(tasks') <=> P # <<>> \/ DemandsFirst(Rest)
  <2>1. Joined(tasks', P, Rest)
    BY <1>1, <1>3, <1>6, JoinedIs
  <2> QED
    BY <2>1, <1>3, <1>6, <1>7, StmtsInFront
<1>9. DemandsFirst(tasks')
  <2>1. CASE Continues(n)
    BY <2>1, <1>5, <1>8
  <2>2. CASE ~Continues(n)
    <3>1. P # <<>>
      BY <2>2, <1>5, <1>6
    <3> QED
      BY <3>1, <1>8
  <2> QED
    BY <2>1, <2>2
<1>10. Sets(tasks') = Sets(tasks) /\ Loops(tasks') = Loops(tasks)
  <2>1. ASSUME NEW dos, "stmt" \notin dos PROVE Targets(tasks', dos) = Targets(Rest, dos)
    <3>1. Targets(tasks', dos) = Targets(P, dos) \cup Targets(Rest, dos)
      BY <1>1, <1>3, <1>6, TargetsConcat
    <3>2. Targets(P, dos) = {}
      BY <2>1, <1>6, TargetsAre
    <3> QED
      BY <3>1, <3>2
  <2>2. "stmt" \notin {"set"} /\ "stmt" \notin {"endloop"}
    OBVIOUS
  <2> QED
    BY <2>1, <2>2, <1>2 DEF Sets, Loops
<1> QED
  BY <1>1, <1>3, <1>8, <1>9, <1>10 DEF NextLead, LeadOK, Idle, Unfinished

LEMMA LongerSeq == ASSUME NEW S, NEW T, S \subseteq T, NEW s \in Seq(S) PROVE s \in Seq(T)
  OBVIOUS

(* q is p with the edge e into b and then the edge f into c. *)
EdgesIn(q, p, b, e, c, f) ==
  /\ q \in Seq(Seq(Edges)) /\ Len(q) = Len(p)
  /\ \A d \in 1..Len(p) : Entered(q, d) <=> Entered(p, d) \/ (d = b /\ IsReal(e)) \/ (d = c /\ IsReal(f))
  /\ \A S : BackClosed(q, S) => /\ BackClosed(p, S) /\ (b \in S /\ IsReal(e) => e.src \in S)
                                /\ (c \in S /\ IsReal(f) => f.src \in S)

LEMMA EdgesAdded ==
  ASSUME NEW p \in Seq(Seq(Edges)), NEW b \in 1..Len(p), NEW e \in Edges, NEW c \in 1..Len(p), NEW f \in Edges,
         NEW q, q = AddPred(AddPred(p, b, e), c, f)
  PROVE  EdgesIn(q, p, b, e, c, f)
<1> DEFINE g == AddPred(p, b, e)
<1>1. EdgeIn(g, p, b, e) /\ q = AddPred(g, c, f)
  BY EdgeAdded
<1> HIDE DEF g
<1>2. g \in Seq(Seq(Edges)) /\ Len(g) = Len(p) /\ c \in 1..Len(g)
  BY <1>1 DEF EdgeIn
<1>3. EdgeIn(q, g, c, f)
  BY <1>1, <1>2, EdgeAdded
<1> QED
  BY <1>1, <1>2, <1>3 DEF EdgeIn, EdgesIn

(* The tasks of an if statement before the tasks T: code goes on in the     *)
(* branches and, if it goes on in T, in the block after the statement.      *)
IfLive(C, T, s1, s2, tb, eb, after) ==
  /\ AllGoOn(C) /\ ~DemandsFirst(C)
  /\ Live(C) = (IF s1 # NoStmt THEN {tb} ELSE {}) \cup (IF s2 # NoStmt THEN {eb} ELSE {})
                 \cup (IF DemandsFirst(T) THEN {after} ELSE {}) \cup Live(T)

LEMMA IfTasksGoOn ==
  ASSUME NEW s1 \in Nat, NEW s2 \in Nat, NEW tb \in Nat, NEW eb \in Nat, NEW after \in Nat, NEW T \in Seq(Chores),
         AllGoOn(T), Continues(s1) \/ Continues(s2) => DemandsFirst(T), NEW C, C = IfList(s1, s2, tb, eb, after, T)
  PROVE  IfLive(C, T, s1, s2, tb, eb, after)
<1> DEFINE t == SetBlock(after)
           T1 == <<t>> \o T
           B2 == Branch(s2, eb, after)
           T2 == B2 \o T1
           B1 == Branch(s1, tb, after)
           T3 == B1 \o T2
<1>1. t \in Chores /\ t.do = "set" /\ t.b = after
  BY TaskFields DEF SetBlock, Chores, NoStmt
<1>2. C = T3
  <2>1. IfListIs(s1, s2, tb, eb, after, T)
    BY IfTasksAre
  <2> QED
    BY <2>1, Zenon DEF IfListIs
<1>3. ASSUME NEW x \in Nat, NEW y \in Nat PROVE Branch(x, y, after) \in Seq(Chores)
  <2>1. SetBlock(y) \in Chores /\ StmtTask(x) \in Chores /\ JmpTo(x, after) \in Chores
    BY DEF SetBlock, StmtTask, JmpTo, Chores, NoStmt
  <2> QED
    BY <2>1 DEF Branch
<1>4. B1 \in Seq(Chores) /\ B2 \in Seq(Chores)
  BY <1>3
<1> HIDE DEF t
<1>5. T1 \in Seq(Chores)
  BY <1>1
<1>6. Linked(T1, t, T)
  BY <1>1, LinkedCons, Zenon
<1> HIDE DEF T1
<1>7. /\ AllGoOn(T1) /\ ~DemandsFirst(T1)
      /\ Live(T1) = (IF DemandsFirst(T) THEN {after} ELSE {}) \cup Live(T)
  BY <1>1, <1>6 DEF Linked, GoesOn, Demands
<1>8. Continues(s1) \/ Continues(s2) => after \in Live(T1)
  BY <1>7
<1>9. T2 \in Seq(Chores)
  <2> HIDE DEF B2
  <2> QED
    BY <1>4, <1>5, ConcatFacts
<1>10. BranchLive(T2, T1, s2, eb)
  <2>1. T2 = Branch(s2, eb, after) \o T1
    OBVIOUS
  <2> HIDE DEF T2
  <2> QED
    BY <2>1, <1>5, <1>7, <1>8, BranchGoesOn, Zenon
<1> HIDE DEF T2
<1>11. BranchLive(T3, T2, s1, tb)
  <2>1. T3 = Branch(s1, tb, after) \o T2
    OBVIOUS
  <2>2. s1 # NoStmt /\ Continues(s1) => after \in Live(T2)
    BY <1>8, <1>10 DEF BranchLive
  <2>3. AllGoOn(T2) /\ ~DemandsFirst(T2)
    BY <1>10 DEF BranchLive
  <2> HIDE DEF T3
  <2> QED
    BY <2>1, <2>2, <2>3, <1>9, BranchGoesOn, Zenon
<1> HIDE DEF T3
<1>12. IfLive(T3, T, s1, s2, tb, eb, after)
  BY <1>7, <1>10, <1>11 DEF IfLive, BranchLive
<1> QED
  BY <1>2, <1>12, Zenon

LEMMA CondLeads ==
  ASSUME SourceOK, NEW n \in 1..Len(stmts)
  PROVE  IsReal(CondEdges(n)[1]) \/ IsReal(CondEdges(n)[2])
<1>1. Cond(n) \in {"c", "true", "false"}
  <2>1. stmts[n] \in Nodes
    BY DEF SourceOK
  <2> QED
    BY <2>1 DEF Nodes, Cond
<1> QED
  BY <1>1 DEF CondEdges, Edge, IsReal

LEMMA IfLeads ==
  ASSUME SourceOK, SemaOK, CfbOK, LowerOK(preds, code, mature, cur, tasks), LeadOK(preds, cur, alive, tasks), LowerIf
  PROVE  NextLead
<1> DEFINE n == Due1.n
           s1 == Then(n)
           s2 == Else(n)
           k == Len(preds)
           after == k + 1
           tb == IF s1 # NoStmt THEN after + 1 ELSE after
           eb == IF s2 # NoStmt THEN tb + 1 ELSE after
           e1 == CondEdges(n)[1]
           e2 == CondEdges(n)[2]
           new == 1 + (IF s1 # NoStmt THEN 1 ELSE 0) + (IF s2 # NoStmt THEN 1 ELSE 0)
           g == Grow(preds, new)
<1>1. /\ Do("stmt") /\ Due1.do = "stmt" /\ Op(n) = "if" /\ cur' = cur /\ alive' = alive
      /\ preds' = AddPred(AddPred(g, tb, e1), eb, e2)
      /\ tasks' = IfList(s1, s2, tb, eb, after, Rest)
  BY DEF LowerIf, DoStmt, Do, Due1, Rest, IfList, Branch
<1>2. /\ tasks # <<>> /\ n \in 1..Len(stmts) /\ Visited(n) /\ Sets(Rest) = Sets(tasks) /\ Loops(Rest) = Loops(tasks)
  BY <1>1, StmtFacts
<1>3. TasksOK(Rest, k) /\ Fit(Rest) /\ TasksTargetsIn(Rest, k)
  BY <1>2, NextTask
<1>4. /\ s1 \in 0..Len(stmts) /\ (s1 # NoStmt => Visited(s1)) /\ s2 \in 0..Len(stmts) /\ (s2 # NoStmt => Visited(s2))
  BY <1>1, <1>2, BranchesOfIf
<1>5. e1 \in Edges /\ e1.src = cur /\ e2 \in Edges /\ e2.src = cur /\ (IsReal(e1) \/ IsReal(e2))
  <2>1. cur \in Nat
    BY LowerFacts
  <2> QED
    BY <2>1, <1>2, CondEdgesFacts, CondLeads
<1>6. /\ k \in Nat /\ k >= 2 /\ cur \in 1..k /\ preds \in Seq(Seq(Edges)) /\ Len(preds) = k
  BY LowerFacts
<1>7. Rest \in Seq(Chores) /\ GoesOn(Due1, Rest) /\ AllGoOn(Rest) /\ Live(tasks) = Live(Rest) /\ DemandsFirst(tasks)
  BY <1>1, <1>2, NextLeads, NextLinked
<1>8. Continues(s1) \/ Continues(s2) => DemandsFirst(Rest)
  BY <1>1, <1>2, <1>7 DEF CfbOK, GoesOn
<1>9. Continues(NoStmt)
  BY DEF Continues, CfbOf
<1> HIDE DEF n, s1, s2, k, e1, e2
<1>10. /\ new \in Nat /\ after \in 3..(k + new) /\ tb \in 3..(k + new) /\ eb \in 3..(k + new)
       /\ after > k /\ tb > k /\ eb > k
       /\ (tb # after <=> s1 # NoStmt) /\ (eb # after <=> s2 # NoStmt)
  <2>1. (s1 # NoStmt) \in BOOLEAN /\ (s2 # NoStmt) \in BOOLEAN
    OBVIOUS
  <2> QED
    BY <2>1, <1>6, IfBlocks
<1>11. IfTasks(tasks', Rest, k, new, after, tb, eb, s1, s2)
  BY <1>1, <1>3, <1>4, <1>6, IfTasksFit
<1> HIDE DEF after, tb, eb, new
<1>12. after \in Nat /\ tb \in Nat /\ eb \in Nat /\ s1 \in Nat /\ s2 \in Nat
  BY <1>4, <1>6, <1>10
<1>13. IfLive(tasks', Rest, s1, s2, tb, eb, after)
  BY <1>1, <1>7, <1>8, <1>12, IfTasksGoOn
<1>14. BlocksIn(g, preds, new)
  BY <1>6, <1>10, BlocksAdded
<1> HIDE DEF g
<1>15. EdgesIn(preds', g, tb, e1, eb, e2)
  <2>1. tb \in 1..Len(g) /\ eb \in 1..Len(g) /\ g \in Seq(Seq(Edges))
    BY <1>6, <1>10, <1>14 DEF BlocksIn
  <2> QED
    BY <2>1, <1>1, <1>5, EdgesAdded
<1>16. /\ Len(preds') = k + new /\ Len(g) = k + new
       /\ \A d \in 1..(k + new) : Entered(preds', d) => (d \in 1..k /\ Entered(preds, d)) \/ d = tb \/ d = eb
       /\ \A d \in 1..(k + new) : d \in 1..k /\ Entered(preds, d) => Entered(preds', d)
       /\ \A S : BackClosed(preds', S) => BackClosed(preds, S) /\ (tb \in S /\ eb \in S => cur \in S)
  BY <1>5, <1>6, <1>14, <1>15 DEF EdgesIn, BlocksIn
<1>17. /\ AllGoOn(tasks') /\ ~DemandsFirst(tasks') /\ Live(Rest) \subseteq Live(tasks')
       /\ tb \in Live(tasks') /\ eb \in Live(tasks') /\ Unfinished(cur, tasks') = Live(tasks')
  BY <1>8, <1>9, <1>10, <1>13 DEF IfLive, Unfinished
<1> DEFINE X == Kept(alive) \cup Unfinished(cur, tasks)
           Y == Kept(alive) \cup Unfinished(cur, tasks')
<1>18. Leads(preds, X) /\ tb \in Y /\ eb \in Y /\ X \subseteq Y \cup {cur}
  BY <1>7, <1>17 DEF LeadOK, Unfinished
<1> HIDE DEF X, Y
<1>19. Leads(preds', Y)
  <2>1. ASSUME NEW S, Y \subseteq S, BackClosed(preds', S)
        PROVE  /\ BackClosed(preds, S) /\ X \subseteq S
               /\ \A b \in 1..Len(preds') : Entered(preds', b) => (b \in 1..Len(preds) /\ Entered(preds, b)) \/ b \in S
    BY <2>1, <1>6, <1>16, <1>18
  <2> QED
    BY <2>1, <1>18, LeadsOn
<1>20. 1..k \subseteq 1..(k + new) /\ \A d \in 3..k : d \in 1..k
  BY <1>6, <1>10
<1>21. alive' \in Seq(1..Len(preds'))
  <2>1. alive \in Seq(1..k)
    BY DEF LeadOK, k
  <2>2. alive \in Seq(1..(k + new))
    BY <2>1, <1>20, LongerSeq
  <2> QED
    BY <2>2, <1>1, <1>16
<1>22. Sets(Rest) \subseteq 1..k /\ Loops(Rest) \subseteq 1..k
  BY <1>3, <1>20 DEF TasksTargetsIn
<1>23. \A b \in Loops(tasks') : Entered(preds', b)
  <2>1. Loops(tasks') = Loops(Rest)
    BY <1>11 DEF IfTasks
  <2> QED
    BY <2>1, <1>2, <1>16, <1>20, <1>22 DEF LeadOK
<1>24. Idle(preds', tasks')
  <2> SUFFICES ASSUME NEW b \in Sets(tasks'), Entered(preds', b) PROVE b \in Live(tasks')
    BY DEF Idle
  <2>1. b = after \/ b = tb \/ b = eb \/ b \in Sets(Rest)
    BY <1>11 DEF IfTasks
  <2>2. after \in 1..(k + new) /\ after \notin 1..k
    BY <1>6, <1>10
  <2>3. CASE b = after
    BY <2>2, <2>3, <1>16, <1>17
  <2>4. CASE b \in Sets(Rest)
    <3>1. b \in 1..k /\ b \in 1..(k + new) /\ b \in Sets(tasks)
      BY <2>4, <1>2, <1>20, <1>22
    <3>2. b = tb \/ b = eb \/ Entered(preds, b)
      BY <3>1, <1>16
    <3>3. Entered(preds, b) => b \in Live(tasks)
      BY <3>1 DEF LeadOK, Idle
    <3> QED
      BY <3>2, <3>3, <1>7, <1>17
  <2> QED
    BY <2>1, <2>3, <2>4, <1>17
<1> QED
  BY <1>1, <1>17, <1>19, <1>21, <1>23, <1>24 DEF NextLead, LeadOK, Y

(* The tasks of a loop before the tasks T: code goes on in the body and, if *)
(* it goes on in T, in the block after the loop.                            *)
WhileLive(C, T, after) ==
  /\ AllGoOn(C) /\ DemandsFirst(C)
  /\ Live(C) = (IF DemandsFirst(T) THEN {after} ELSE {}) \cup Live(T)

LEMMA WhileTasksGoOn ==
  ASSUME NEW s \in Nat, NEW pre \in Nat, NEW after \in Nat, NEW T \in Seq(Chores), AllGoOn(T),
         NEW C, C = WhileList(s, pre, after, T)
  PROVE  WhileLive(C, T, after)
<1> DEFINE c == SetBlock(after)
           t == EndLoop(s, pre)
           a == StmtTask(s)
           T1 == <<c>> \o T
           T2 == <<t>> \o T1
           T3 == <<a>> \o T2
<1>1. /\ a \in Chores /\ t \in Chores /\ c \in Chores
      /\ c.do = "set" /\ c.b = after /\ t.do = "endloop" /\ t.n = s /\ a.do = "stmt" /\ a.n = s
  <2>1. a \in Chores /\ t \in Chores /\ c \in Chores
    BY DEF StmtTask, EndLoop, SetBlock, Chores, NoStmt
  <2> QED
    BY <2>1, TaskFields
<1>2. C = IF s = NoStmt THEN T2 ELSE T3
  <2>1. WhileListIs(s, pre, after, T)
    BY WhileTasksAre
  <2> QED
    BY <2>1, Zenon DEF WhileListIs
<1> HIDE DEF a, t, c
<1>3. T1 \in Seq(Chores)
  BY <1>1
<1>4. Linked(T1, c, T)
  BY <1>1, LinkedCons, Zenon
<1> HIDE DEF T1
<1>5. T2 \in Seq(Chores)
  BY <1>1, <1>3
<1>6. Linked(T2, t, T1)
  BY <1>1, <1>3, LinkedCons, Zenon
<1> HIDE DEF T2
<1>7. Linked(T3, a, T2)
  BY <1>1, <1>5, LinkedCons, Zenon
<1> HIDE DEF T3
<1>8. AllGoOn(T1) /\ Live(T1) = (IF DemandsFirst(T) THEN {after} ELSE {}) \cup Live(T)
  BY <1>1, <1>4 DEF Linked, GoesOn
<1>9. AllGoOn(T2) /\ Live(T2) = Live(T1) /\ (DemandsFirst(T2) <=> Continues(s))
  BY <1>1, <1>6, <1>8 DEF Linked, GoesOn, Demands
<1>10. AllGoOn(T3) /\ Live(T3) = Live(T1) /\ DemandsFirst(T3)
  BY <1>1, <1>7, <1>9 DEF Linked, GoesOn, Demands
<1>11. WhileLive(T3, T, after)
  BY <1>8, <1>10 DEF WhileLive
<1>12. s = NoStmt => WhileLive(T2, T, after)
  BY <1>8, <1>9 DEF WhileLive, Continues, CfbOf
<1> QED
  BY <1>2, <1>11, <1>12, Zenon

(* The ways of a loop: from c through the pre-header and the header. *)
LoopIn(q, p, c, pre, header, loop, after) ==
  /\ Len(q) = Len(p) + 4
  /\ \A d \in 1..Len(q) : Entered(q, d) => (d \in 1..Len(p) /\ Entered(p, d)) \/ d \in {pre, header, loop, after}
  /\ \A d \in 1..Len(q) : (d \in 1..Len(p) /\ Entered(p, d)) \/ d = pre => Entered(q, d)
  /\ \A S : BackClosed(q, S) /\ loop \in S /\ after \in S => BackClosed(p, S) /\ {c, pre, header} \subseteq S

LEMMA LoopAdded ==
  ASSUME NEW p \in Seq(Seq(Edges)), NEW c \in Nat, NEW pre \in 1..(Len(p) + 4), NEW header \in 1..(Len(p) + 4),
         NEW loop \in 1..(Len(p) + 4), NEW after \in 1..(Len(p) + 4),
         NEW e1 \in Edges, NEW e2 \in Edges, e1.src = header, e2.src = header, IsReal(e1) \/ IsReal(e2), NEW q,
         q = AddPred(AddPred(AddPred(AddPred(Grow(p, 4), pre, Edge(c, "jmp")), header, Edge(pre, "jmp")), loop, e1), after, e2)
  PROVE  LoopIn(q, p, c, pre, header, loop, after)
<1> DEFINE j1 == Edge(c, "jmp")
           j2 == Edge(pre, "jmp")
           four == 4
           g == Grow(p, four)
           h == AddPred(AddPred(g, pre, j1), header, j2)
<1>1. q = AddPred(AddPred(h, loop, e1), after, e2)
  OBVIOUS
<1>2. Len(p) \in Nat
  OBVIOUS
<1>3. j1 \in Edges /\ j2 \in Edges /\ IsReal(j1) /\ IsReal(j2) /\ j1.src = c /\ j2.src = pre
  BY <1>2 DEF Edge, Edges, IsReal
<1> HIDE DEF four, j1, j2
<1>4. BlocksIn(g, p, four)
  <2>1. four \in Nat
    BY DEF four
  <2> QED
    BY <2>1, BlocksAdded
<1> HIDE DEF g
<1>5. g \in Seq(Seq(Edges)) /\ Len(g) = Len(p) + 4
  BY <1>4 DEF BlocksIn, four
<1>6. EdgesIn(h, g, pre, j1, header, j2)
  <2>1. pre \in 1..Len(g) /\ header \in 1..Len(g)
    BY <1>5
  <2>2. h = AddPred(AddPred(g, pre, j1), header, j2)
    OBVIOUS
  <2> HIDE DEF h
  <2> QED
    BY <2>1, <2>2, <1>3, <1>5, EdgesAdded
<1> HIDE DEF h
<1>7. h \in Seq(Seq(Edges)) /\ Len(h) = Len(p) + 4
  BY <1>5, <1>6 DEF EdgesIn
<1>8. EdgesIn(q, h, loop, e1, after, e2)
  <2>1. loop \in 1..Len(h) /\ after \in 1..Len(h)
    BY <1>7
  <2> QED
    BY <2>1, <1>1, <1>7, EdgesAdded
<1>9. Len(q) = Len(p) + 4
  BY <1>7, <1>8 DEF EdgesIn
<1>10. \A d \in 1..(Len(p) + 4) : Entered(g, d) <=> d \in 1..Len(p) /\ Entered(p, d)
  BY <1>4, <1>5 DEF BlocksIn
<1>11. \A d \in 1..(Len(p) + 4) : Entered(h, d) <=> Entered(g, d) \/ d = pre \/ d = header
  BY <1>3, <1>5, <1>6 DEF EdgesIn
<1>12. /\ \A d \in 1..(Len(p) + 4) : Entered(q, d) => Entered(h, d) \/ d = loop \/ d = after
       /\ \A d \in 1..(Len(p) + 4) : Entered(h, d) => Entered(q, d)
  BY <1>7, <1>8 DEF EdgesIn
<1>13. ASSUME NEW S, BackClosed(q, S), loop \in S, after \in S
       PROVE  BackClosed(p, S) /\ {c, pre, header} \subseteq S
  <2>1. BackClosed(h, S) /\ header \in S
    BY <1>8, <1>13 DEF EdgesIn
  <2>2. BackClosed(g, S) /\ pre \in S
    BY <2>1, <1>3, <1>6 DEF EdgesIn
  <2>3. c \in S
    BY <2>1, <2>2, <1>3, <1>6 DEF EdgesIn
  <2>4. BackClosed(p, S)
    BY <2>2, <1>4 DEF BlocksIn
  <2> QED
    BY <2>1, <2>2, <2>3, <2>4
<1> QED
  BY <1>9, <1>10, <1>11, <1>12, <1>13 DEF LoopIn

LEMMA WhileLeads ==
  ASSUME SourceOK, SemaOK, CfbOK, LowerOK(preds, code, mature, cur, tasks), LeadOK(preds, cur, alive, tasks), LowerWhile
  PROVE  NextLead
<1> DEFINE n == Due1.n
           s == Body(n)
           k == Len(preds)
           pre == k + 1
           header == pre + 1
           loop == pre + 2
           after == pre + 3
           c1 == CondEdges(n)[1]
           c2 == CondEdges(n)[2]
           e1 == [c1 EXCEPT !.src = header]
           e2 == [c2 EXCEPT !.src = header]
<1>1. /\ Do("stmt") /\ Due1.do = "stmt" /\ Op(n) = "while" /\ cur' = loop /\ alive' = alive
      /\ preds' = AddPred(AddPred(AddPred(AddPred(Grow(preds, 4), pre, Edge(cur, "jmp")), header, Edge(pre, "jmp")), loop, e1), after, e2)
      /\ tasks' = WhileList(s, pre, after, Rest)
  BY DEF LowerWhile, DoStmt, Do, Due1, Rest, WhileList
<1>2. /\ tasks # <<>> /\ n \in 1..Len(stmts) /\ Visited(n) /\ Sets(Rest) = Sets(tasks) /\ Loops(Rest) = Loops(tasks)
  BY <1>1, StmtFacts
<1>3. TasksOK(Rest, k) /\ Fit(Rest) /\ TasksTargetsIn(Rest, k)
  BY <1>2, NextTask
<1>4. s \in 0..Len(stmts) /\ (s # NoStmt => Visited(s))
  BY <1>1, <1>2, BodyOfWhile
<1>5. k \in Nat /\ k >= 2 /\ cur \in 1..k /\ preds \in Seq(Seq(Edges)) /\ Len(preds) = k
  BY LowerFacts
<1>6. e1 \in Edges /\ e1.src = header /\ e2 \in Edges /\ e2.src = header /\ (IsReal(e1) \/ IsReal(e2))
  <2>1. cur \in Nat /\ header \in Nat
    BY <1>5
  <2>2. c1 \in Edges /\ c2 \in Edges /\ (IsReal(c1) \/ IsReal(c2))
    BY <2>1, <1>2, CondEdgesFacts, CondLeads
  <2> HIDE DEF header, c1, c2
  <2> QED
    BY <2>1, <2>2 DEF Edges, IsReal
<1>7. Rest \in Seq(Chores) /\ GoesOn(Due1, Rest) /\ AllGoOn(Rest) /\ Live(tasks) = Live(Rest) /\ DemandsFirst(tasks)
  BY <1>1, <1>2, NextLeads, NextLinked
<1>8. DemandsFirst(Rest)
  BY <1>1, <1>2, <1>7 DEF CfbOK, GoesOn
<1> HIDE DEF n, s, k, e1, e2
<1>9. /\ pre \in 3..(k + 4) /\ header \in 3..(k + 4) /\ loop \in 3..(k + 4) /\ after \in 3..(k + 4)
      /\ pre > k /\ header > k /\ loop > k /\ after > k /\ k + 4 \in Nat /\ k <= k + 4
  BY <1>5
<1> HIDE DEF pre, header, loop, after
<1>10. WhileTasks(tasks', Rest, pre, after, k + 4)
  BY <1>1, <1>3, <1>4, <1>5, <1>9, WhileTasksFit
<1>11. WhileLive(tasks', Rest, after)
  <2>1. s \in Nat /\ pre \in Nat /\ after \in Nat
    BY <1>4, <1>9
  <2> QED
    BY <2>1, <1>1, <1>7, WhileTasksGoOn
<1>12. /\ pre \in 1..(k + 4) /\ header \in 1..(k + 4) /\ loop \in 1..(k + 4) /\ after \in 1..(k + 4)
       /\ pre \notin 1..k /\ header \notin 1..k /\ loop \notin 1..k /\ after \notin 1..k
       /\ 1..k \subseteq 1..(k + 4) /\ \A d \in 3..k : d \in 1..k
  BY <1>5, <1>9
<1>13. LoopIn(preds', preds, cur, pre, header, loop, after)
  <2>1. cur \in Nat /\ \A b \in {pre, header, loop, after} : b \in 1..(Len(preds) + 4)
    BY <1>5, <1>12
  <2> QED
    BY <2>1, <1>1, <1>5, <1>6, LoopAdded
<1>14. /\ Len(preds') = k + 4
       /\ \A d \in 1..(k + 4) : Entered(preds', d) => (d \in 1..k /\ Entered(preds, d)) \/ d \in {pre, header, loop, after}
       /\ \A d \in 1..(k + 4) : (d \in 1..k /\ Entered(preds, d)) \/ d = pre => Entered(preds', d)
       /\ \A S : BackClosed(preds', S) /\ loop \in S /\ after \in S => BackClosed(preds, S) /\ {cur, pre, header} \subseteq S
  BY <1>5, <1>13 DEF LoopIn
<1>15. /\ AllGoOn(tasks') /\ Live(tasks') = {after} \cup Live(Rest) /\ Unfinished(loop, tasks') = {loop, after} \cup Live(Rest)
  BY <1>8, <1>11 DEF WhileLive, Unfinished
<1> DEFINE X == Kept(alive) \cup Unfinished(cur, tasks)
           Y == Kept(alive) \cup Unfinished(loop, tasks')
<1>16. Leads(preds, X) /\ loop \in Y /\ after \in Y /\ X \subseteq Y \cup {cur}
  BY <1>7, <1>15 DEF LeadOK, Unfinished
<1> HIDE DEF X, Y
<1>17. Leads(preds', Y)
  <2>1. ASSUME NEW S, Y \subseteq S, BackClosed(preds', S)
        PROVE  /\ BackClosed(preds, S) /\ X \subseteq S
               /\ \A b \in 1..Len(preds') : Entered(preds', b) => (b \in 1..Len(preds) /\ Entered(preds, b)) \/ b \in S
    <3>1. loop \in S /\ after \in S
      BY <2>1, <1>16
    <3>2. BackClosed(preds, S) /\ {cur, pre, header} \subseteq S
      BY <3>1, <2>1, <1>14
    <3>3. X \subseteq S
      BY <3>2, <2>1, <1>16
    <3> QED
      BY <3>1, <3>2, <3>3, <1>5, <1>14
  <2> QED
    BY <2>1, <1>16, LeadsOn
<1>18. alive' \in Seq(1..Len(preds'))
  <2>1. alive \in Seq(1..k)
    BY DEF LeadOK, k
  <2>2. alive \in Seq(1..(k + 4))
    BY <2>1, <1>12, LongerSeq, ZenonT(60)
  <2> QED
    BY <2>2, <1>1, <1>14
<1>19. Sets(Rest) \subseteq 1..k /\ Loops(Rest) \subseteq 1..k
  BY <1>3, <1>12 DEF TasksTargetsIn
<1>20. Sets(tasks') = {after} \cup Sets(Rest) /\ Loops(tasks') = {pre} \cup Loops(Rest)
  BY <1>10 DEF WhileTasks
<1>21. \A b \in Loops(tasks') : Entered(preds', b)
  BY <1>2, <1>12, <1>14, <1>19, <1>20 DEF LeadOK
<1>22. Idle(preds', tasks')
  <2> SUFFICES ASSUME NEW b \in Sets(Rest), Entered(preds', b) PROVE b \in Live(Rest)
    BY <1>15, <1>20 DEF Idle
  <2>1. b \in 1..k /\ b \in 1..(k + 4) /\ b \in Sets(tasks) /\ b \notin {pre, header, loop, after}
    BY <1>2, <1>12, <1>19
  <2>2. Entered(preds, b)
    BY <2>1, <1>14
  <2> QED
    BY <2>1, <2>2, <1>7 DEF LeadOK, Idle
<1> QED
  BY <1>1, <1>15, <1>17, <1>18, <1>21, <1>22 DEF NextLead, LeadOK, Y
-----------------------------------------------------------------------------
(*                                The scan                                 *)

LEMMA FinishLeads ==
  ASSUME LowerOK(preds, code, mature, cur, tasks), LeadOK(preds, cur, alive, tasks), Unscanned, FinishMethod
  PROVE  ScanOK'
<1> DEFINE may == isVoid /\ cfb[1] = "MayContinue"
           e == Edge(cur, "ret")
           k == Len(preds)
<1>1. /\ tasks = <<>> /\ alive' = alive /\ newBlocks' = <<EndBlock>> \o alive
      /\ numBlockPreds' = <<>> /\ numBlockSuccs' = <<>>
      /\ preds' = IF may THEN AddPred(preds, EndBlock, e) ELSE preds
  BY DEF FinishMethod, Unscanned
<1>2. may <=> DemandsFirst(tasks)
  BY <1>1 DEF DemandsFirst, Continues, CfbOf, NoStmt
<1>3. Live(tasks) = {}
  <2>1. 1..Len(tasks) = {}
    BY <1>1
  <2> QED
    BY <2>1, LiveAre
<1>4. /\ preds \in Seq(Seq(Edges)) /\ k \in Nat /\ k >= 2 /\ cur \in 1..k /\ EndBlock \in 1..k
      /\ alive \in Seq(1..k) /\ GraphOK(preds, code, mature, cur)
  BY LowerFacts DEF LeadOK, EndBlock
<1>5. e \in Edges /\ e.src = cur /\ IsReal(e)
  BY <1>4 DEF Edges, Edge, IsReal
<1> HIDE DEF may, e
<1>6. Len(preds') = k /\ preds' \in Seq(Seq(Edges)) /\ \A b \in 1..k : \A i \in 1..Len(preds'[b]) : preds'[b][i].src \in 1..k
  <2>1. CASE ~may
    BY <2>1, <1>1, <1>4 DEF GraphOK
  <2>2. CASE may
    <3> DEFINE X == {cur}
               B == {EndBlock}
    <3>1. e.src \in X /\ EndBlock \in B
      BY <1>5
    <3> HIDE DEF X, B
    <3>2. Grown(preds, preds', X, B) /\ Len(preds') = k
      BY <3>1, <2>2, <1>1, <1>4, <1>5, GrownEdge
    <3>3. ASSUME NEW b \in 1..k, NEW i \in 1..Len(preds'[b]) PROVE preds'[b][i].src \in 1..k
      <4>1. b \in 1..Len(preds')
        BY <3>2
      <4>2. i <= Len(preds[b]) \/ preds'[b][i].src \in X
        BY <4>1, <3>2 DEF Grown
      <4>3. CASE i <= Len(preds[b])
        <5>1. i \in 1..Len(preds[b])
          BY <4>3, <1>4, GraphTyped
        <5>2. preds'[b][i] = preds[b][i]
          BY <5>1, <3>2 DEF Grown
        <5> QED
          BY <5>1, <5>2, <1>4 DEF GraphOK
      <4>4. CASE preds'[b][i].src \in X
        BY <4>4, <1>4 DEF X
      <4> QED
        BY <4>2, <4>3, <4>4
    <3>4. preds' \in Seq(Seq(Edges))
      BY <3>2 DEF Grown
    <3> QED
      BY <3>2, <3>3, <3>4
  <2> QED
    BY <2>1, <2>2
<1>7. FlowOK(preds')
  BY <1>4, <1>6 DEF FlowOK
<1>8. Leads(preds', Kept(alive))
  <2> DEFINE X == Kept(alive) \cup Unfinished(cur, tasks)
             Y == Kept(alive)
  <2>1. Leads(preds, X) /\ EndBlock \in Y
    BY DEF LeadOK, Kept
  <2>2. X \subseteq Y \cup (IF may THEN {cur} ELSE {})
    BY <1>2, <1>3 DEF Unfinished
  <2> HIDE DEF X, Y
  <2>3. CASE ~may
    <3>1. X \subseteq Y /\ preds' = preds
      BY <2>2, <2>3, <1>1
    <3>2. Leads(preds, Y)
      BY <3>1, <2>1 DEF Leads
    <3> QED
      BY <3>1, <3>2 DEF Y
  <2>4. CASE may
    <3>1. EdgeIn(preds', preds, EndBlock, e)
      BY <2>4, <1>1, <1>4, <1>5, EdgeAdded
    <3>2. /\ \A c \in 1..k : Entered(preds', c) <=> Entered(preds, c) \/ c = EndBlock
          /\ \A S : BackClosed(preds', S) => BackClosed(preds, S) /\ (EndBlock \in S => cur \in S)
      BY <3>1, <1>5 DEF EdgeIn
    <3>3. ASSUME NEW S, Y \subseteq S, BackClosed(preds', S)
          PROVE  /\ BackClosed(preds, S) /\ X \subseteq S
                 /\ \A b \in 1..Len(preds') : Entered(preds', b) => (b \in 1..Len(preds) /\ Entered(preds, b)) \/ b \in S
      BY <3>2, <3>3, <2>1, <2>2, <1>6
    <3>4. Leads(preds', Y)
      BY <3>3, <2>1, LeadsOn
    <3> QED
      BY <3>4 DEF Y
  <2> QED
    BY <2>3, <2>4
<1> HIDE DEF k
<1>9. newBlocks' \in Seq(1..k) /\ Kept(alive) \subseteq Range(newBlocks')
  <2> DEFINE s == <<EndBlock>>
             S == 1..k
  <2>1. s \in Seq(S) /\ Len(s) = 1 /\ s[1] = EndBlock
    BY <1>4
  <2>2. newBlocks' = s \o alive /\ alive \in Seq(S)
    BY <1>1, <1>4
  <2> HIDE DEF s, S
  <2>3. /\ s \o alive \in Seq(S) /\ Len(s \o alive) = Len(s) + Len(alive) /\ Len(alive) \in Nat
        /\ \A i \in 1..Len(s) : (s \o alive)[i] = s[i]
        /\ \A i \in 1..Len(alive) : (s \o alive)[Len(s) + i] = alive[i]
    <3>1. s \in Seq(S) /\ alive \in Seq(S)
      BY <2>1, <2>2
    <3> QED
      BY <3>1, ConcatFacts
  <2> DEFINE q == newBlocks'
  <2>4. /\ q \in Seq(S) /\ Len(q) = 1 + Len(alive) /\ q[1] = EndBlock /\ \A i \in 1..Len(alive) : q[1 + i] = alive[i]
    <3>1. 1 \in 1..Len(s)
      BY <2>1
    <3> QED
      BY <3>1, <2>1, <2>2, <2>3
  <2> HIDE DEF q
  <2>5. DOMAIN q = 1..(1 + Len(alive)) /\ DOMAIN alive = 1..Len(alive)
    BY <2>2, <2>4
  <2>6. EndBlock \in Range(q)
    <3>1. 1 \in DOMAIN q
      BY <2>3, <2>5
    <3> QED
      BY <3>1, <2>4 DEF Range
  <2>7. ASSUME NEW x \in Range(alive) PROVE x \in Range(q)
    <3>1. PICK i \in 1..Len(alive) : x = alive[i]
      BY <2>5 DEF Range
    <3>2. 1 + i \in DOMAIN q /\ q[1 + i] = x
      BY <3>1, <2>3, <2>4, <2>5
    <3> QED
      BY <3>2 DEF Range
  <2> QED
    BY <2>4, <2>6, <2>7 DEF Kept, q, S
<1>10. DOMAIN numBlockPreds' = {} /\ DOMAIN numBlockSuccs' = {}
  BY <1>1
<1>11. FlowOK(preds)' /\ Leads(preds, Kept(alive))'
  BY <1>1, <1>7, <1>8 DEF FlowOK, Leads, BackClosed, Entered, IsReal, Kept, EndBlock
<1>12. CountsOK(Len(preds))'
  BY <1>10 DEF CountsOK
<1>13. (alive \in Seq(1..Len(preds)))' /\ (newBlocks \in Seq(1..Len(preds)))'
  BY <1>1, <1>4, <1>6, <1>9 DEF k
<1>14. (Kept(alive) \subseteq Found)'
  BY <1>1, <1>9 DEF Found, Kept, Range
<1> QED
  BY <1>10, <1>11, <1>12, <1>13, <1>14 DEF ScanOK

(* What holds at first and is kept by every step holds at the end. *)
LEMMA UpTo ==
  ASSUME NEW n \in Nat, NEW S, 0 \in S, \A k \in 1..n : k - 1 \in S => k \in S
  PROVE  \A k \in 0..n : k \in S
<1> DEFINE T == {k \in 0..n : k \notin S}
<1> SUFFICES ASSUME T # {} PROVE FALSE
  OBVIOUS
<1>1. PICK k \in T : \A j \in T : k <= j
  <2>1. T \subseteq Nat
    OBVIOUS
  <2> HIDE DEF T
  <2> QED
    BY <2>1, LeastIn
<1>2. k \in 1..n /\ k \notin S
  OBVIOUS
<1>3. k - 1 \in 0..n /\ k - 1 \notin T
  BY <1>1, <1>2
<1> QED
  BY <1>2, <1>3

(* For each k up to n: the values v[i] of the i up to k that are in K. *)
Filtering(n, g, K, v) ==
  g = [k \in 0..n |-> IF k = 0 THEN <<>> ELSE IF k \in K THEN Append(g[k - 1], v[k]) ELSE g[k - 1]]

LEMMA FilteringExists == ASSUME NEW K, NEW v PROVE \A n \in Nat : \E g : Filtering(n, g, K, v)
<1> DEFINE S == {n \in Nat : \E g : Filtering(n, g, K, v)}
<1>1. 0 \in S
  <2> DEFINE g == [k \in 0..0 |-> <<>>]
  <2>1. Filtering(0, g, K, v)
    BY DEF Filtering
  <2> QED
    BY <2>1
<1>2. ASSUME NEW n \in Nat \ {0}, n - 1 \in S PROVE n \in S
  <2>1. PICK g : Filtering(n - 1, g, K, v)
    BY <1>2
  <2> DEFINE more == IF n \in K THEN Append(g[n - 1], v[n]) ELSE g[n - 1]
             h == [k \in 0..n |-> IF k = n THEN more ELSE g[k]]
  <2>2. ASSUME NEW k \in 0..n
        PROVE  h[k] = IF k = 0 THEN <<>> ELSE IF k \in K THEN Append(h[k - 1], v[k]) ELSE h[k - 1]
    <3>1. k # 0 => h[k - 1] = g[k - 1]
      OBVIOUS
    <3>2. k # n => g[k] = IF k = 0 THEN <<>> ELSE IF k \in K THEN Append(g[k - 1], v[k]) ELSE g[k - 1]
      <4> DEFINE w(i) == IF i = 0 THEN <<>> ELSE IF i \in K THEN Append(g[i - 1], v[i]) ELSE g[i - 1]
      <4>1. g = [i \in 0..(n - 1) |-> w(i)]
        BY <2>1 DEF Filtering
      <4>2. k # n => k \in 0..(n - 1)
        OBVIOUS
      <4> HIDE DEF w
      <4>3. k # n => g[k] = w(k)
        BY <4>1, <4>2
      <4> QED
        BY <4>3 DEF w
    <3>3. CASE k = n
      <4>1. h[k] = more /\ k # 0
        BY <3>3
      <4>2. more = IF k \in K THEN Append(h[k - 1], v[k]) ELSE h[k - 1]
        BY <4>1, <3>1, <3>3, Zenon
      <4> HIDE DEF more, h
      <4> QED
        BY <4>1, <4>2, Zenon
    <3>4. CASE k # n
      <4>1. h[k] = g[k]
        BY <3>4
      <4> HIDE DEF h
      <4> QED
        BY <4>1, <3>1, <3>2, <3>4, Zenon
    <3> QED
      BY <3>3, <3>4
  <2>3. Filtering(n, h, K, v)
    BY <2>2 DEF Filtering
  <2> QED
    BY <2>3
<1>3. SUFFICES ASSUME NEW n \in Nat PROVE n \in S
  OBVIOUS
<1>4. \A k \in 1..n : k - 1 \in S => k \in S
  BY <1>2
<1>5. \A k \in 0..n : k \in S
  <2> HIDE DEF S
  <2> QED
    BY <1>1, <1>4, UpTo
<1> QED
  BY <1>5

(* The values of the i up to k are there, in order, and no others. *)
FilteredUpTo(k, g, K, v, S) ==
  /\ g[k] \in Seq(S) /\ Len(g[k]) \in Nat
  /\ \A i \in 1..k : Len(g[i]) \in 0..Len(g[k]) /\ (i \in K => Len(g[i]) >= 1 /\ g[k][Len(g[i])] = v[i])
  /\ \A j \in 1..Len(g[k]) : \E i \in 1..k : i \in K /\ Len(g[i]) = j

LEMMA FilteredFurther ==
  ASSUME NEW k \in Nat \ {0}, NEW g, NEW K, NEW v, NEW S, FilteredUpTo(k - 1, g, K, v, S), v[k] \in S,
         g[k] = IF k \in K THEN Append(g[k - 1], v[k]) ELSE g[k - 1]
  PROVE  FilteredUpTo(k, g, K, v, S)
<1> DEFINE a == g[k - 1]
           b == g[k]
<1>1. /\ a \in Seq(S) /\ Len(a) \in Nat
      /\ \A i \in 1..(k - 1) : Len(g[i]) \in 0..Len(a) /\ (i \in K => Len(g[i]) >= 1 /\ a[Len(g[i])] = v[i])
      /\ \A j \in 1..Len(a) : \E i \in 1..(k - 1) : i \in K /\ Len(g[i]) = j
  BY DEF FilteredUpTo
<1>2. \A i \in 1..k : i \in 1..(k - 1) \/ i = k
  OBVIOUS
<1>3. (\A i \in 1..(k - 1) : i \in 1..k) /\ k \in 1..k
  OBVIOUS
<1>4. CASE k \notin K
  <2>1. b = a
    BY <1>4
  <2>2. \A i \in 1..k : Len(g[i]) \in 0..Len(b) /\ (i \in K => Len(g[i]) >= 1 /\ b[Len(g[i])] = v[i])
    BY <2>1, <1>1, <1>2, <1>4
  <2>3. \A j \in 1..Len(b) : \E i \in 1..k : i \in K /\ Len(g[i]) = j
    BY <2>1, <1>1, <1>3
  <2> QED
    BY <2>1, <2>2, <2>3, <1>1 DEF FilteredUpTo
<1>5. CASE k \in K
  <2>1. b = Append(a, v[k])
    BY <1>5
  <2> HIDE DEF a
  <2>2. /\ b \in Seq(S) /\ Len(b) = Len(a) + 1 /\ b[Len(a) + 1] = v[k] /\ \A i \in 1..Len(a) : b[i] = a[i]
    <3> DEFINE c == Append(a, v[k])
    <3>1. c \in Seq(S) /\ Len(c) = Len(a) + 1 /\ c[Len(a) + 1] = v[k] /\ \A i \in 1..Len(a) : c[i] = a[i]
      BY <1>1, AppendFacts
    <3>2. b = c
      BY <2>1
    <3> HIDE DEF b, c
    <3> QED
      BY <3>1, <3>2
  <2> HIDE DEF b
  <2>3. ASSUME NEW i \in 1..k PROVE Len(g[i]) \in 0..Len(b) /\ (i \in K => Len(g[i]) >= 1 /\ b[Len(g[i])] = v[i])
    <3>1. CASE i \in 1..(k - 1)
      <4>1. Len(g[i]) \in 0..Len(a) /\ (i \in K => Len(g[i]) >= 1 /\ a[Len(g[i])] = v[i])
        BY <3>1, <1>1
      <4>2. Len(g[i]) \in 0..Len(b) /\ (Len(g[i]) >= 1 => Len(g[i]) \in 1..Len(a))
        BY <4>1, <2>2, <1>1
      <4> QED
        BY <4>1, <4>2, <2>2
    <3>2. CASE i = k
      <4>1. Len(g[i]) = Len(a) + 1
        BY <3>2, <2>2 DEF b
      <4> QED
        BY <4>1, <3>2, <2>2, <1>1
    <3> QED
      BY <3>1, <3>2, <1>2
  <2>4. ASSUME NEW j \in 1..Len(b) PROVE \E i \in 1..k : i \in K /\ Len(g[i]) = j
    <3>1. CASE j \in 1..Len(a)
      BY <3>1, <1>1, <1>3
    <3>2. CASE j = Len(a) + 1
      <4>1. Len(g[k]) = j
        BY <3>2, <2>2 DEF b
      <4> QED
        BY <4>1, <1>3, <1>5
    <3>3. j \in 1..Len(a) \/ j = Len(a) + 1
      BY <2>2, <1>1
    <3> QED
      BY <3>1, <3>2, <3>3
  <2>5. Len(b) \in Nat
    BY <2>2, <1>1
  <2> QED
    BY <2>2, <2>3, <2>4, <2>5 DEF FilteredUpTo, b
<1> QED
  BY <1>4, <1>5

LEMMA Filtered ==
  ASSUME NEW n \in Nat, NEW g, NEW K, NEW v, NEW S, \A i \in 1..n : v[i] \in S, Filtering(n, g, K, v)
  PROVE  \A k \in 0..n : FilteredUpTo(k, g, K, v, S)
<1> DEFINE R == {k \in 0..n : FilteredUpTo(k, g, K, v, S)}
<1>1. /\ g[0] = <<>>
      /\ \A k \in 1..n : g[k] = IF k \in K THEN Append(g[k - 1], v[k]) ELSE g[k - 1]
  <2>1. \A k \in 0..n : g[k] = IF k = 0 THEN <<>> ELSE IF k \in K THEN Append(g[k - 1], v[k]) ELSE g[k - 1]
    BY DEF Filtering
  <2>2. 0 \in 0..n /\ \A k \in 1..n : k \in 0..n /\ k # 0
    OBVIOUS
  <2> QED
    BY <2>1, <2>2
<1>2. 0 \in R
  <2>1. Len(g[0]) = 0 /\ g[0] \in Seq(S) /\ 1..0 = {}
    BY <1>1
  <2> QED
    BY <2>1 DEF FilteredUpTo
<1>3. ASSUME NEW k \in 1..n, k - 1 \in R PROVE k \in R
  <2>1. /\ k \in Nat \ {0} /\ k \in 0..n /\ FilteredUpTo(k - 1, g, K, v, S) /\ v[k] \in S
        /\ g[k] = IF k \in K THEN Append(g[k - 1], v[k]) ELSE g[k - 1]
    BY <1>1, <1>3
  <2>2. FilteredUpTo(k, g, K, v, S)
    BY <2>1, FilteredFurther
  <2> QED
    BY <2>1, <2>2
<1>4. \A k \in 0..n : k \in R
  <2> HIDE DEF R
  <2> QED
    BY <1>2, <1>3, UpTo
<1> QED
  BY <1>4

Sourcing(g, es) ==
  g = [i \in 0..Len(es) |-> IF i = 0 THEN <<>> ELSE IF IsReal(es[i]) THEN Append(g[i - 1], es[i].src) ELSE g[i - 1]]

LEMMA SourcesFacts ==
  ASSUME NEW es \in Seq(Edges), NEW S, \A i \in 1..Len(es) : es[i].src \in S
  PROVE  /\ Sources(es) \in Seq(S)
         /\ \A i \in 1..Len(es) : IsReal(es[i]) => es[i].src \in Range(Sources(es))
<1> DEFINE n == Len(es)
           K == {i \in 1..n : IsReal(es[i])}
           v == [i \in 1..n |-> es[i].src]
           f == CHOOSE g : Sourcing(g, es)
<1>0. n \in Nat
  OBVIOUS
<1>1. \E g : Sourcing(g, es)
  <2>1. PICK g : Filtering(n, g, K, v)
    BY <1>0, FilteringExists
  <2>2. ASSUME NEW i \in 0..n
        PROVE  (IF i = 0 THEN <<>> ELSE IF i \in K THEN Append(g[i - 1], v[i]) ELSE g[i - 1])
                 = (IF i = 0 THEN <<>> ELSE IF IsReal(es[i]) THEN Append(g[i - 1], es[i].src) ELSE g[i - 1])
    <3>1. i # 0 => (i \in K <=> IsReal(es[i])) /\ v[i] = es[i].src
      BY <1>0
    <3> HIDE DEF K, v
    <3> QED
      BY <3>1, Zenon
  <2> HIDE DEF K, v
  <2>3. Sourcing(g, es)
    BY <2>1, <2>2, Zenon DEF Filtering, Sourcing
  <2> QED
    BY <2>3
<1>2. Sources(es) = f[n]
  BY DEF Sources, Sourcing
<1>3. Sourcing(f, es)
  BY <1>1
<1> HIDE DEF f
<1>4. Filtering(n, f, K, v)
  <2>2. ASSUME NEW i \in 0..n
        PROVE  (IF i = 0 THEN <<>> ELSE IF i \in K THEN Append(f[i - 1], v[i]) ELSE f[i - 1])
                 = (IF i = 0 THEN <<>> ELSE IF IsReal(es[i]) THEN Append(f[i - 1], es[i].src) ELSE f[i - 1])
    <3>1. i # 0 => (i \in K <=> IsReal(es[i])) /\ v[i] = es[i].src
      BY <1>0
    <3> HIDE DEF K, v
    <3> QED
      BY <3>1, Zenon
  <2> HIDE DEF K, v
  <2> QED
    BY <1>3, <2>2, Zenon DEF Filtering, Sourcing
<1>5. FilteredUpTo(n, f, K, v, S)
  <2>1. (\A i \in 1..n : v[i] \in S) /\ n \in 0..n
    BY <1>0
  <2> HIDE DEF K, v, n
  <2> QED
    BY <2>1, <1>0, <1>4, Filtered
<1>6. /\ f[n] \in Seq(S) /\ Len(f[n]) \in Nat
      /\ \A i \in 1..n : Len(f[i]) \in 0..Len(f[n]) /\ (i \in K => Len(f[i]) >= 1 /\ f[n][Len(f[i])] = v[i])
  BY <1>5 DEF FilteredUpTo
<1>7. ASSUME NEW i \in 1..n, IsReal(es[i]) PROVE es[i].src \in Range(f[n])
  <2>1. i \in K /\ v[i] = es[i].src
    BY <1>7
  <2>2. Len(f[i]) \in 1..Len(f[n]) /\ f[n][Len(f[i])] = es[i].src
    BY <2>1, <1>6
  <2>3. DOMAIN f[n] = 1..Len(f[n])
    BY <1>6
  <2> QED
    BY <2>2, <2>3 DEF Range
<1> QED
  BY <1>2, <1>6, <1>7

LEMMA Counting ==
  ASSUME NEW E, IsFiniteSet(E)
  PROVE  /\ Cardinality(E) \in Nat
         /\ \A x \in E : Cardinality(E) >= 1
         /\ \A x, y \in E : x # y => Cardinality(E) >= 2
<1>1. Cardinality(E) \in Nat
  BY FS_CardinalityType
<1>2. ASSUME NEW x \in E PROVE Cardinality(E) >= 1
  <2>1. Cardinality(E) # 0
    BY FS_EmptySet
  <2> QED
    BY <2>1, <1>1
<1>3. ASSUME NEW x \in E, NEW y \in E, x # y PROVE Cardinality(E) >= 2
  <2>1. Cardinality(E) # 0
    BY FS_EmptySet
  <2>2. Cardinality(E) # 1
    BY <1>3, FS_Singleton
  <2> QED
    BY <2>1, <2>2, <1>1
<1> QED
  BY <1>1, <1>2, <1>3

(* The queue without its first block. *)
LEMMA QueueTail ==
  ASSUME NEW S, NEW q \in Seq(S), q # <<>>
  PROVE  /\ Head(q) \in S /\ Tail(q) \in Seq(S) /\ Range(q) = {Head(q)} \cup Range(Tail(q))
<1>1. /\ Head(q) = q[1] /\ Head(q) \in S /\ Tail(q) \in Seq(S) /\ Len(q) \in Nat /\ Len(q) >= 1
      /\ Len(Tail(q)) = Len(q) - 1 /\ \A i \in 1..Len(Tail(q)) : Tail(q)[i] = q[i + 1]
  BY HeadTailProperties
<1> DEFINE t == Tail(q)
<1>2. DOMAIN q = 1..Len(q) /\ DOMAIN t = 1..(Len(q) - 1)
  BY <1>1
<1> HIDE DEF t
<1>3. ASSUME NEW i \in 1..Len(q) PROVE i = 1 \/ (i - 1 \in 1..(Len(q) - 1) /\ (i - 1) + 1 = i)
  BY <1>1
<1>4. \A x \in Range(q) : x = Head(q) \/ x \in Range(t)
  <2> SUFFICES ASSUME NEW i \in 1..Len(q), i # 1 PROVE q[i] \in Range(t)
    BY <1>1, <1>2 DEF Range
  <2>1. i - 1 \in DOMAIN t /\ t[i - 1] = q[i]
    BY <1>1, <1>2, <1>3 DEF t
  <2> QED
    BY <2>1 DEF Range
<1>5. \A x \in Range(t) : x \in Range(q)
  <2> SUFFICES ASSUME NEW i \in 1..(Len(q) - 1) PROVE t[i] \in Range(q)
    BY <1>2 DEF Range
  <2>1. i + 1 \in DOMAIN q /\ t[i] = q[i + 1]
    BY <1>1, <1>2 DEF t
  <2> QED
    BY <2>1 DEF Range
<1>6. Head(q) \in Range(q)
  BY <1>1, <1>2 DEF Range
<1> QED
  BY <1>1, <1>4, <1>5, <1>6 DEF t

LEMMA RangeConcat ==
  ASSUME NEW S, NEW s \in Seq(S), NEW t \in Seq(S), NEW q, q = s \o t
  PROVE  q \in Seq(S) /\ Range(s) \cup Range(t) \subseteq Range(q)
<1>1. /\ s \o t \in Seq(S) /\ Len(s \o t) = Len(s) + Len(t) /\ Len(s) \in Nat /\ Len(t) \in Nat
      /\ \A i \in 1..Len(s) : (s \o t)[i] = s[i]
      /\ \A i \in 1..Len(t) : (s \o t)[Len(s) + i] = t[i]
  BY ConcatFacts
<1> DEFINE r == s \o t
<1>2. q = r /\ DOMAIN r = 1..(Len(s) + Len(t)) /\ DOMAIN s = 1..Len(s) /\ DOMAIN t = 1..Len(t)
  BY <1>1
<1>3. /\ r \in Seq(S) /\ (\A i \in 1..Len(s) : r[i] = s[i]) /\ \A i \in 1..Len(t) : r[Len(s) + i] = t[i]
  BY <1>1
<1> HIDE DEF r
<1>4. (\A i \in 1..Len(s) : i \in DOMAIN r) /\ \A i \in 1..Len(t) : Len(s) + i \in DOMAIN r
  BY <1>1, <1>2
<1>5. \A x \in Range(s) : x \in Range(r)
  BY <1>2, <1>3, <1>4 DEF Range
<1>6. \A x \in Range(t) : x \in Range(r)
  BY <1>2, <1>3, <1>4 DEF Range
<1> QED
  BY <1>2, <1>3, <1>5, <1>6

(* The edges into b that come from c. *)
EdgesFrom(b, c) == {i \in DOMAIN preds[b] : IsReal(preds[b][i]) /\ preds[b][i].src = c}

LEMMA EdgesFromFacts ==
  ASSUME FlowOK(preds), NEW b \in 1..Len(preds), NEW c
  PROVE  /\ IsFiniteSet(EdgesFrom(b, c)) /\ DOMAIN preds[b] = 1..Len(preds[b])
         /\ \A i \in 1..Len(preds[b]) : Way(preds, b, i, c) <=> i \in EdgesFrom(b, c)
<1>1. DOMAIN preds[b] = 1..Len(preds[b]) /\ Len(preds[b]) \in Nat
  BY GraphTyped DEF FlowOK
<1>2. IsFiniteSet(1..Len(preds[b]))
  BY <1>1, FS_Interval
<1>3. EdgesFrom(b, c) \in SUBSET (1..Len(preds[b]))
  BY <1>1 DEF EdgesFrom
<1>4. IsFiniteSet(EdgesFrom(b, c))
  BY <1>2, <1>3, FS_Subset
<1>5. \A i \in 1..Len(preds[b]) : Way(preds, b, i, c) <=> i \in EdgesFrom(b, c)
  BY <1>1 DEF Way, EdgesFrom
<1> QED
  BY <1>1, <1>4, <1>5

(* A block that is not counted yet: its predecessors join the queue, and    *)
(* the ways into it are added to the ways out of the blocks they come from. *)
ScansBlock(b) ==
  /\ newBlocks' = Tail(newBlocks) \o Sources(preds[b])
  /\ numBlockPreds' = [c \in DOMAIN numBlockPreds \cup {b} |-> IF c = b THEN Len(preds[b]) ELSE numBlockPreds[c]]
  /\ numBlockSuccs' = [c \in DOMAIN numBlockSuccs \cup Range(Sources(preds[b])) |->
                         SuccsOf(c) + Cardinality(EdgesFrom(b, c))]

LEMMA SuccsCounted ==
  ASSUME ScanOK, NEW b \in 1..Len(preds), ScansBlock(b)
  PROVE  /\ DOMAIN numBlockSuccs' \subseteq 1..Len(preds) /\ (\A c \in DOMAIN numBlockSuccs' : numBlockSuccs'[c] \in Nat)
         /\ \A c \in 1..Len(preds) : /\ SuccsOf(c) \in Nat /\ Cardinality(EdgesFrom(b, c)) \in Nat
                                     /\ SuccsOf(c)' = SuccsOf(c) + Cardinality(EdgesFrom(b, c))
<1> DEFINE found == Sources(preds[b])
           D == DOMAIN numBlockSuccs \cup Range(found)
           k == Len(preds)
<1>1. /\ FlowOK(preds) /\ preds \in Seq(Seq(Edges)) /\ DOMAIN numBlockSuccs \subseteq 1..k
      /\ \A c \in DOMAIN numBlockSuccs : numBlockSuccs[c] \in Nat
  BY DEF ScanOK, FlowOK, CountsOK
<1>2. \A c : SuccsOf(c) \in Nat
  BY <1>1 DEF SuccsOf
<1>3. ASSUME NEW c PROVE Cardinality(EdgesFrom(b, c)) \in Nat
  <2>1. IsFiniteSet(EdgesFrom(b, c))
    BY <1>1, EdgesFromFacts
  <2> QED
    BY <2>1, FS_CardinalityType
<1>4. preds[b] \in Seq(Edges) /\ DOMAIN preds[b] = 1..Len(preds[b]) /\ \A i \in 1..Len(preds[b]) : preds[b][i].src \in 1..k
  BY <1>1, GraphTyped DEF FlowOK
<1>5. found \in Seq(1..k) /\ \A i \in 1..Len(preds[b]) : IsReal(preds[b][i]) => preds[b][i].src \in Range(found)
  BY <1>4, SourcesFacts
<1>6. Range(found) \subseteq 1..k
  BY <1>5 DEF Range
<1>7. numBlockSuccs' = [c \in D |-> SuccsOf(c) + Cardinality(EdgesFrom(b, c))]
  BY DEF ScansBlock
<1> HIDE DEF found
<1>8. DOMAIN numBlockSuccs' = D /\ D \subseteq 1..k
  BY <1>1, <1>6, <1>7
<1>9. \A c \in D : numBlockSuccs'[c] = SuccsOf(c) + Cardinality(EdgesFrom(b, c))
  BY <1>7
<1>10. ASSUME NEW c, c \notin D PROVE SuccsOf(c) = 0 /\ Cardinality(EdgesFrom(b, c)) = 0
  <2>1. SuccsOf(c) = 0
    BY <1>10 DEF SuccsOf
  <2>2. EdgesFrom(b, c) = {}
    BY <1>4, <1>5, <1>10 DEF EdgesFrom
  <2> QED
    BY <2>1, <2>2, FS_EmptySet
<1> HIDE DEF D
<1>11. ASSUME NEW c PROVE SuccsOf(c)' = SuccsOf(c) + Cardinality(EdgesFrom(b, c))
  <2>1. SuccsOf(c)' = IF c \in D THEN numBlockSuccs'[c] ELSE 0
    BY <1>8 DEF SuccsOf
  <2>2. CASE c \in D
    BY <2>1, <2>2, <1>9
  <2>3. CASE c \notin D
    BY <2>1, <2>3, <1>10
  <2> QED
    BY <2>2, <2>3
<1>12. \A c \in D : numBlockSuccs'[c] \in Nat
  BY <1>2, <1>3, <1>9
<1> QED
  BY <1>2, <1>3, <1>8, <1>11, <1>12

LEMMA BlockScanned ==
  ASSUME ScanOK, newBlocks # <<>>, ScansBlock(Head(newBlocks)), UNCHANGED <<preds, alive>>
  PROVE  ScanOK'
<1> DEFINE b == Head(newBlocks)
           k == Len(preds)
           found == Sources(preds[b])
           D == DOMAIN numBlockPreds
<1>1. /\ FlowOK(preds) /\ preds \in Seq(Seq(Edges)) /\ alive \in Seq(1..k) /\ Leads(preds, Kept(alive))
      /\ newBlocks \in Seq(1..k) /\ D \subseteq 1..k /\ Kept(alive) \subseteq Found
  BY DEF ScanOK, FlowOK
<1>2. b \in 1..k /\ Tail(newBlocks) \in Seq(1..k) /\ Range(newBlocks) = {b} \cup Range(Tail(newBlocks))
  BY <1>1, QueueTail
<1>3. preds' = preds /\ alive' = alive
  OBVIOUS
<1>4. /\ DOMAIN numBlockSuccs' \subseteq 1..Len(preds) /\ (\A c \in DOMAIN numBlockSuccs' : numBlockSuccs'[c] \in Nat)
      /\ \A c \in 1..k : /\ SuccsOf(c) \in Nat /\ Cardinality(EdgesFrom(b, c)) \in Nat
                         /\ SuccsOf(c)' = SuccsOf(c) + Cardinality(EdgesFrom(b, c))
  BY <1>2, SuccsCounted
<1>5. found \in Seq(1..k) /\ \A i \in 1..Len(preds[b]) : IsReal(preds[b][i]) => preds[b][i].src \in Range(found)
  <2>1. preds[b] \in Seq(Edges) /\ \A i \in 1..Len(preds[b]) : preds[b][i].src \in 1..k
    BY <1>1, <1>2, GraphTyped DEF FlowOK
  <2> QED
    BY <2>1, SourcesFacts
<1>6. newBlocks' \in Seq(1..k) /\ Range(Tail(newBlocks)) \cup Range(found) \subseteq Range(newBlocks')
  <2>1. newBlocks' = Tail(newBlocks) \o found
    BY DEF ScansBlock
  <2> HIDE DEF found
  <2> QED
    BY <2>1, <1>2, <1>5, RangeConcat
<1>7. /\ DOMAIN numBlockPreds' = D \cup {b} /\ numBlockPreds'[b] = Len(preds[b])
      /\ \A c \in D : c # b => numBlockPreds'[c] = numBlockPreds[c]
  <2>1. numBlockPreds' = [c \in D \cup {b} |-> IF c = b THEN Len(preds[b]) ELSE numBlockPreds[c]]
    BY DEF ScansBlock
  <2> HIDE DEF b
  <2> QED
    BY <2>1
<1> HIDE DEF b, found, k
<1>8. Found' = D \cup {b} \cup Range(newBlocks')
  BY <1>7 DEF Found, Range
<1>9. Found \subseteq Found' /\ Range(found) \subseteq Found'
  <2>1. Found = D \cup Range(newBlocks)
    BY DEF Found
  <2> HIDE DEF D
  <2> QED
    BY <2>1, <1>2, <1>6, <1>8
<1> HIDE DEF D
<1>10. ASSUME NEW d \in D \cup {b}
       PROVE  /\ numBlockPreds'[d] = Len(preds[d])
              /\ \A i \in 1..Len(preds[d]) : IsReal(preds[d][i]) => preds[d][i].src \in Found'
  <2>1. CASE d = b
    BY <2>1, <1>5, <1>7, <1>9
  <2>2. CASE d \in D /\ d # b
    BY <2>2, <1>7, <1>9 DEF ScanOK, D
  <2> QED
    BY <2>1, <2>2
<1>11. ASSUME NEW c \in 1..k, NEW d \in D, NEW i \in 1..Len(preds[d]), Way(preds, d, i, c)
       PROVE  /\ SuccsOf(c) >= 1
              /\ \A x \in D : \A j \in 1..Len(preds[x]) : Way(preds, x, j, c) /\ (x # d \/ j # i) => SuccsOf(c) >= 2
  BY <1>11 DEF ScanOK, k, D
<1>12. ASSUME NEW c \in 1..k
       PROVE  /\ \A i \in 1..Len(preds[b]) : Way(preds, b, i, c) => Cardinality(EdgesFrom(b, c)) >= 1
              /\ \A i, j \in 1..Len(preds[b]) :
                   Way(preds, b, i, c) /\ Way(preds, b, j, c) /\ i # j => Cardinality(EdgesFrom(b, c)) >= 2
  <2>1. /\ IsFiniteSet(EdgesFrom(b, c)) /\ \A i \in 1..Len(preds[b]) : Way(preds, b, i, c) <=> i \in EdgesFrom(b, c)
    BY <1>1, <1>2, EdgesFromFacts DEF k
  <2> QED
    BY <2>1, Counting
<1>13. ASSUME NEW c \in 1..k, NEW d \in D \cup {b}, NEW i \in 1..Len(preds[d]), Way(preds, d, i, c)
       PROVE  /\ SuccsOf(c)' >= 1
              /\ \A x \in D \cup {b} : \A j \in 1..Len(preds[x]) :
                   Way(preds, x, j, c) /\ (x # d \/ j # i) => SuccsOf(c)' >= 2
  <2> DEFINE s == SuccsOf(c)
             m == Cardinality(EdgesFrom(b, c))
             t == SuccsOf(c)'
  <2>1. s \in Nat /\ m \in Nat /\ t = s + m
    BY <1>4
  <2>2. d \in D => s >= 1
    BY <1>11, <1>13
  <2>3. d = b => m >= 1
    BY <1>12, <1>13
  <2> HIDE DEF s, m, t
  <2>4. t >= 1
    BY <2>1, <2>2, <2>3
  <2>5. ASSUME NEW x \in D \cup {b}, NEW j \in 1..Len(preds[x]), Way(preds, x, j, c), x # d \/ j # i PROVE t >= 2
    <3>1. x \in D => s >= 1
      BY <1>11, <2>5 DEF s
    <3>2. x = b => m >= 1
      BY <1>12, <2>5 DEF m
    <3>3. x \in D /\ d \in D => s >= 2
      BY <1>11, <1>13, <2>5 DEF s
    <3>4. x = b /\ d = b => m >= 2
      BY <1>12, <1>13, <2>5 DEF m
    <3> QED
      BY <3>1, <3>2, <3>3, <3>4, <2>1, <2>2, <2>3
  <2> QED
    BY <2>4, <2>5 DEF t
<1>14. FlowOK(preds)' /\ Leads(preds, Kept(alive))'
  <2>1. FlowOK(preds)'
    BY <1>1, <1>3 DEF FlowOK
  <2>2. Leads(preds', Kept(alive'))
    BY <1>1, <1>3
  <2>3. Leads(preds, Kept(alive))'
    BY <2>2 DEF Leads, BackClosed, Entered, IsReal, Kept, EndBlock
  <2> QED
    BY <2>1, <2>3
<1>15. CountsOK(Len(preds))'
  BY <1>3, <1>4 DEF CountsOK
<1>16. /\ (alive \in Seq(1..Len(preds)))' /\ (newBlocks \in Seq(1..Len(preds)))'
       /\ (DOMAIN numBlockPreds \subseteq 1..Len(preds))'
  BY <1>1, <1>2, <1>3, <1>6, <1>7 DEF k
<1>17. (Kept(alive) \subseteq Found)'
  <2>1. Kept(alive)' = Kept(alive)
    BY <1>3 DEF Kept
  <2> QED
    BY <2>1, <1>1, <1>9
<1>18. (\A d \in DOMAIN numBlockPreds :
          /\ numBlockPreds[d] = Len(preds[d])
          /\ \A i \in 1..Len(preds[d]) : IsReal(preds[d][i]) => preds[d][i].src \in Found)'
  BY <1>3, <1>7, <1>10
<1>19. (\A c \in 1..Len(preds) : \A d \in DOMAIN numBlockPreds : \A i \in 1..Len(preds[d]) : Way(preds, d, i, c) =>
          /\ SuccsOf(c) >= 1
          /\ \A x \in DOMAIN numBlockPreds : \A j \in 1..Len(preds[x]) :
               Way(preds, x, j, c) /\ (x # d \/ j # i) => SuccsOf(c) >= 2)'
  BY <1>3, <1>7, <1>13 DEF k
<1> QED
  BY <1>14, <1>15, <1>16, <1>17, <1>18, <1>19 DEF ScanOK

LEMMA ScanStep ==
  ASSUME ScanOK, Scan
  PROVE  ScanOK'
<1> DEFINE b == Head(newBlocks)
           k == Len(preds)
<1>1. newBlocks # <<>> /\ UNCHANGED <<preds, alive>>
  BY DEF Scan, blocks
<1>2. CASE ~Counted(b)
  <2>1. ScansBlock(b)
    BY <1>2 DEF Scan, ScansBlock, EdgesFrom
  <2> QED
    BY <2>1, <1>1, BlockScanned
<1>3. CASE Counted(b)
  <2>1. newBlocks' = Tail(newBlocks) /\ numBlockPreds' = numBlockPreds /\ numBlockSuccs' = numBlockSuccs
    BY <1>3 DEF Scan
  <2>2. preds' = preds /\ alive' = alive
    BY <1>1
  <2>3. /\ FlowOK(preds) /\ CountsOK(k) /\ alive \in Seq(1..k) /\ Leads(preds, Kept(alive))
        /\ newBlocks \in Seq(1..k) /\ DOMAIN numBlockPreds \subseteq 1..k /\ Kept(alive) \subseteq Found
    BY DEF ScanOK
  <2>4. Tail(newBlocks) \in Seq(1..k) /\ Range(newBlocks) = {b} \cup Range(Tail(newBlocks))
    BY <2>3, <1>1, QueueTail
  <2>5. Found' = Found
    <3>1. Found' = DOMAIN numBlockPreds \cup Range(Tail(newBlocks))
      BY <2>1 DEF Found, Range
    <3> QED
      BY <3>1, <2>4, <1>3 DEF Found, Counted
  <2>6. FlowOK(preds)' /\ CountsOK(Len(preds))'
    BY <2>1, <2>2, <2>3 DEF FlowOK, CountsOK
  <2>7. Leads(preds, Kept(alive))'
    <3>1. Leads(preds', Kept(alive'))
      BY <2>2, <2>3
    <3> QED
      BY <3>1 DEF Leads, BackClosed, Entered, IsReal, Kept, EndBlock
  <2>8. (Kept(alive) \subseteq Found)'
    <3>1. Kept(alive)' = Kept(alive)
      BY <2>2 DEF Kept
    <3> QED
      BY <3>1, <2>3, <2>5
  <2>9. /\ (alive \in Seq(1..Len(preds)))' /\ (newBlocks \in Seq(1..Len(preds)))'
        /\ (DOMAIN numBlockPreds \subseteq 1..Len(preds))'
    BY <2>1, <2>2, <2>3, <2>4
  <2>10. (\A d \in DOMAIN numBlockPreds :
            /\ numBlockPreds[d] = Len(preds[d])
            /\ \A i \in 1..Len(preds[d]) : IsReal(preds[d][i]) => preds[d][i].src \in Found)'
    <3>1. \A d \in DOMAIN numBlockPreds :
            /\ numBlockPreds[d] = Len(preds[d])
            /\ \A i \in 1..Len(preds[d]) : IsReal(preds[d][i]) => preds[d][i].src \in Found
      BY DEF ScanOK
    <3> QED
      BY <3>1, <2>1, <2>2, <2>5
  <2>11. (\A c \in 1..Len(preds) : \A d \in DOMAIN numBlockPreds : \A i \in 1..Len(preds[d]) : Way(preds, d, i, c) =>
            /\ SuccsOf(c) >= 1
            /\ \A x \in DOMAIN numBlockPreds : \A j \in 1..Len(preds[x]) :
                 Way(preds, x, j, c) /\ (x # d \/ j # i) => SuccsOf(c) >= 2)'
    <3>1. \A c : SuccsOf(c)' = SuccsOf(c)
      BY <2>1 DEF SuccsOf
    <3>2. \A c \in 1..Len(preds) : \A d \in DOMAIN numBlockPreds : \A i \in 1..Len(preds[d]) : Way(preds, d, i, c) =>
            /\ SuccsOf(c) >= 1
            /\ \A x \in DOMAIN numBlockPreds : \A j \in 1..Len(preds[x]) :
                 Way(preds, x, j, c) /\ (x # d \/ j # i) => SuccsOf(c) >= 2
      BY DEF ScanOK
    <3> QED
      BY <3>1, <3>2, <2>1, <2>2
  <2> QED
    BY <2>6, <2>7, <2>8, <2>9, <2>10, <2>11 DEF ScanOK
<1> QED
  BY <1>2, <1>3

(* When the queue is empty, every block that is entered has been counted. *)
LEMMA AllScanned ==
  ASSUME ScanOK, newBlocks = <<>>
  PROVE  SplitOK
<1> DEFINE D == DOMAIN numBlockPreds
           k == Len(preds)
<1>1. Found = D
  <2>1. Range(newBlocks) = {}
    BY DEF Range
  <2> QED
    BY <2>1 DEF Found
<1>2. /\ FlowOK(preds) /\ CountsOK(k) /\ Leads(preds, Kept(alive)) /\ Kept(alive) \subseteq D /\ D \subseteq 1..k
      /\ \A b \in D : /\ numBlockPreds[b] = Len(preds[b])
                      /\ \A i \in 1..Len(preds[b]) : IsReal(preds[b][i]) => preds[b][i].src \in D
  BY <1>1 DEF ScanOK
<1>3. BackClosed(preds, D)
  BY <1>2 DEF BackClosed
<1> HIDE DEF D
<1>4. \A b \in 1..k : Entered(preds, b) => b \in D
  BY <1>2, <1>3 DEF Leads
<1>5. TwoCounted(preds)
  <2> SUFFICES ASSUME NEW c \in 1..k, TwoWays(preds, c) PROVE SuccsOf(c) >= 2
    BY DEF TwoCounted
  <2>1. PICK b \in 1..k, d \in 1..k :
          \E i \in 1..Len(preds[b]) : \E j \in 1..Len(preds[d]) :
            Way(preds, b, i, c) /\ Way(preds, d, j, c) /\ (d # b \/ j # i)
    BY DEF TwoWays
  <2>2. PICK i \in 1..Len(preds[b]), j \in 1..Len(preds[d]) :
          Way(preds, b, i, c) /\ Way(preds, d, j, c) /\ (d # b \/ j # i)
    BY <2>1
  <2>3. Entered(preds, b) /\ Entered(preds, d)
    BY <2>2 DEF Entered, Way
  <2>4. b \in D /\ d \in D
    BY <2>3, <1>4
  <2> QED
    BY <2>2, <2>4 DEF ScanOK, D
<1> QED
  BY <1>2, <1>4, <1>5 DEF SplitOK, D

LEMMA SameQueue ==
  ASSUME ScanOK, UNCHANGED <<preds, alive, newBlocks, numBlockPreds, numBlockSuccs>>
  PROVE  ScanOK'
<1>1. (\A c : SuccsOf(c)' = SuccsOf(c)) /\ Found' = Found /\ Kept(alive)' = Kept(alive)
  BY DEF SuccsOf, Found, Kept, Range
<1>2. FlowOK(preds)' /\ CountsOK(Len(preds))'
  BY DEF ScanOK, FlowOK, CountsOK
<1>3. Leads(preds, Kept(alive))'
  BY <1>1 DEF ScanOK, Leads, BackClosed, Entered, IsReal
<1>4. /\ (alive \in Seq(1..Len(preds)))' /\ (newBlocks \in Seq(1..Len(preds)))'
      /\ (DOMAIN numBlockPreds \subseteq 1..Len(preds))' /\ (Kept(alive) \subseteq Found)'
  BY <1>1 DEF ScanOK
<1>5. (\A d \in DOMAIN numBlockPreds :
         /\ numBlockPreds[d] = Len(preds[d])
         /\ \A i \in 1..Len(preds[d]) : IsReal(preds[d][i]) => preds[d][i].src \in Found)'
  BY <1>1 DEF ScanOK
<1>6. (\A c \in 1..Len(preds) : \A d \in DOMAIN numBlockPreds : \A i \in 1..Len(preds[d]) : Way(preds, d, i, c) =>
         /\ SuccsOf(c) >= 1
         /\ \A x \in DOMAIN numBlockPreds : \A j \in 1..Len(preds[x]) :
              Way(preds, x, j, c) /\ (x # d \/ j # i) => SuccsOf(c) >= 2)'
  BY <1>1 DEF ScanOK
<1> QED
  BY <1>2, <1>3, <1>4, <1>5, <1>6 DEF ScanOK

LEMMA SameSplit ==
  ASSUME SplitOK, UNCHANGED <<preds, numBlockPreds, numBlockSuccs>>
  PROVE  SplitOK'
<1>1. \A c : SuccsOf(c)' = SuccsOf(c)
  BY DEF SuccsOf
<1>2. \A e : IsCritical(e)' = IsCritical(e)
  BY <1>1 DEF IsCritical
<1>3. FlowOK(preds)' /\ CountsOK(Len(preds))' /\ (DOMAIN numBlockPreds \subseteq 1..Len(preds))'
  BY DEF SplitOK, FlowOK, CountsOK
<1>4. TwoCounted(preds)'
  <2>1. \A c \in 1..Len(preds) : TwoWays(preds, c) => SuccsOf(c) >= 2
    BY DEF SplitOK, TwoCounted
  <2>2. \A c : TwoWays(preds, c)' = TwoWays(preds, c)
    BY DEF TwoWays, Way, IsReal
  <2> QED
    BY <2>1, <2>2, <1>1 DEF TwoCounted
<1>5. (\A b \in DOMAIN numBlockPreds :
         \/ numBlockPreds[b] = Len(preds[b])
         \/ numBlockPreds[b] = 0 /\ \A i \in 1..Len(preds[b]) : ~IsCritical(preds[b][i]))'
  BY <1>2 DEF SplitOK
<1>6. (\A b \in 1..Len(preds) : Entered(preds, b) => b \in DOMAIN numBlockPreds \/ Len(preds[b]) = 1)'
  BY DEF SplitOK, Entered
<1> QED
  BY <1>3, <1>4, <1>5, <1>6 DEF SplitOK

LEMMA ScanDoneStep ==
  ASSUME ScanOK, ScanDone
  PROVE  SplitOK'
<1>1. newBlocks = <<>> /\ UNCHANGED <<preds, numBlockPreds, numBlockSuccs>>
  BY DEF ScanDone, blocks, scan
<1> QED
  BY <1>1, AllScanned, SameSplit
-----------------------------------------------------------------------------
(*                         Splitting the edges                             *)

Splitting(g, b) ==
  g = [i \in 0..Len(preds[b]) |-> IF i = 0 THEN <<>> ELSE IF IsCritical(preds[b][i]) THEN Append(g[i - 1], preds[b][i])
                                  ELSE g[i - 1]]

(* The critical edges into b are all there, each in a place of its own. *)
CriticalOK(b, new, at) ==
  /\ new \in Seq(Edges) /\ Len(new) \in Nat
  /\ \A i \in 1..Len(preds[b]) : IsCritical(preds[b][i]) => at[i] \in 1..Len(new) /\ new[at[i]] = preds[b][i]
  /\ \A j \in 1..Len(new) : \E i \in 1..Len(preds[b]) : IsCritical(preds[b][i]) /\ at[i] = j
  /\ \A i, j \in 1..Len(preds[b]) :
       IsCritical(preds[b][i]) /\ IsCritical(preds[b][j]) /\ i < j => at[i] < at[j]

Places(b) == [i \in 1..Len(preds[b]) |-> Len(Critical(b)[i])]

LEMMA CriticalFacts ==
  ASSUME FlowOK(preds), NEW b \in 1..Len(preds)
  PROVE  CriticalOK(b, Critical(b)[Len(preds[b])], Places(b))
<1> DEFINE n == Len(preds[b])
           K == {i \in 1..n : IsCritical(preds[b][i])}
           v == preds[b]
           f == CHOOSE g : Splitting(g, b)
           at == Places(b)
<1>0. n \in Nat /\ (\A i \in 1..n : v[i] \in Edges)
  BY GraphTyped DEF FlowOK
<1>1. \E g : Splitting(g, b)
  <2>1. PICK g : Filtering(n, g, K, v)
    BY <1>0, FilteringExists
  <2>2. ASSUME NEW i \in 0..n
        PROVE  (IF i = 0 THEN <<>> ELSE IF i \in K THEN Append(g[i - 1], v[i]) ELSE g[i - 1])
                 = (IF i = 0 THEN <<>> ELSE IF IsCritical(preds[b][i]) THEN Append(g[i - 1], preds[b][i]) ELSE g[i - 1])
    <3>1. i # 0 => (i \in K <=> IsCritical(preds[b][i]))
      BY <1>0
    <3> HIDE DEF K
    <3> QED
      BY <3>1, Zenon
  <2> HIDE DEF K
  <2>3. Splitting(g, b)
    BY <2>1, <2>2, Zenon DEF Filtering, Splitting
  <2> QED
    BY <2>3
<1>2. Critical(b) = f
  BY DEF Critical, Splitting
<1>3. Splitting(f, b)
  BY <1>1
<1> HIDE DEF f
<1>4. Filtering(n, f, K, v)
  <2>2. ASSUME NEW i \in 0..n
        PROVE  (IF i = 0 THEN <<>> ELSE IF i \in K THEN Append(f[i - 1], v[i]) ELSE f[i - 1])
                 = (IF i = 0 THEN <<>> ELSE IF IsCritical(preds[b][i]) THEN Append(f[i - 1], preds[b][i]) ELSE f[i - 1])
    <3>1. i # 0 => (i \in K <=> IsCritical(preds[b][i]))
      BY <1>0
    <3> HIDE DEF K
    <3> QED
      BY <3>1, Zenon
  <2> HIDE DEF K
  <2> QED
    BY <1>3, <2>2, Zenon DEF Filtering, Splitting
<1>5. at = [i \in 1..n |-> Len(f[i])]
  BY <1>2 DEF Places
<1>6. \A i \in 1..n : i \in K <=> IsCritical(preds[b][i])
  OBVIOUS
<1> HIDE DEF K, v, n
<1>7. \A k \in 0..n : FilteredUpTo(k, f, K, v, Edges)
  BY <1>0, <1>4, Filtered
<1>8. \A i \in 1..n : at[i] = Len(f[i])
  BY <1>5
<1> HIDE DEF at
<1>9. /\ f[n] \in Seq(Edges) /\ Len(f[n]) \in Nat
      /\ \A i \in 1..n : Len(f[i]) \in 0..Len(f[n]) /\ (i \in K => Len(f[i]) >= 1 /\ f[n][Len(f[i])] = v[i])
      /\ \A j \in 1..Len(f[n]) : \E i \in 1..n : i \in K /\ Len(f[i]) = j
  <2>1. n \in 0..n
    BY <1>0
  <2>2. FilteredUpTo(n, f, K, v, Edges)
    BY <2>1, <1>7
  <2> QED
    BY <2>2 DEF FilteredUpTo
<1>10. ASSUME NEW i \in 1..n, NEW j \in 1..n, j \in K, i < j PROVE at[i] < at[j]
  <2>1. j - 1 \in 0..n /\ i \in 1..(j - 1) /\ j \in 0..n /\ j # 0
    BY <1>0, <1>10
  <2>2. FilteredUpTo(j - 1, f, K, v, Edges)
    BY <2>1, <1>7
  <2>3. f[j - 1] \in Seq(Edges) /\ Len(f[j - 1]) \in Nat /\ Len(f[i]) \in 0..Len(f[j - 1])
    BY <2>1, <2>2 DEF FilteredUpTo
  <2>4. f[j] = Append(f[j - 1], v[j])
    <3> DEFINE w(l) == IF l = 0 THEN <<>> ELSE IF l \in K THEN Append(f[l - 1], v[l]) ELSE f[l - 1]
    <3>1. f = [l \in 0..n |-> w(l)]
      BY <1>4 DEF Filtering
    <3> HIDE DEF w
    <3>2. f[j] = w(j)
      BY <3>1, <2>1
    <3> QED
      BY <3>2, <2>1, <1>10 DEF w
  <2>5. Len(f[j]) = Len(f[j - 1]) + 1
    <3> DEFINE a == f[j - 1]
               c == Append(a, v[j])
    <3>1. v[j] \in Edges /\ a \in Seq(Edges)
      BY <2>3, <1>0
    <3> HIDE DEF a
    <3>2. Len(c) = Len(a) + 1
      BY <3>1, AppendFacts
    <3>3. f[j] = c
      BY <2>4 DEF a
    <3> HIDE DEF c
    <3> QED
      BY <3>2, <3>3 DEF a
  <2> QED
    BY <2>3, <2>5, <1>8
<1>11. \A i \in 1..n : i \in K => at[i] \in 1..Len(f[n]) /\ f[n][at[i]] = v[i]
  BY <1>8, <1>9
<1>12. \A j \in 1..Len(f[n]) : \E i \in 1..n : i \in K /\ at[i] = j
  BY <1>8, <1>9
<1>13. CriticalOK(b, f[n], at)
  BY <1>6, <1>9, <1>10, <1>11, <1>12 DEF CriticalOK, n, v
<1> QED
  BY <1>2, <1>13 DEF at, n

(* q is the graph p after its edges into b were split: the critical ones    *)
(* come out of new blocks, each of which has one of them as its only        *)
(* predecessor.                                                             *)
SplitInto(p, q, b, new, at) ==
  /\ q \in Seq(Seq(Edges)) /\ Len(q) = Len(p) + Len(new)
  /\ \A d \in 1..Len(p) : d # b => q[d] = p[d]
  /\ Len(q[b]) = Len(p[b])
  /\ \A i \in 1..Len(p[b]) : IsCritical(p[b][i]) => q[b][i] = Edge(Len(p) + at[i], "jmp")
  /\ \A i \in 1..Len(p[b]) : ~IsCritical(p[b][i]) => q[b][i] = p[b][i]
  /\ \A j \in 1..Len(new) : q[Len(p) + j] = <<new[j]>>

LEMMA SeqFrom == ASSUME NEW S, NEW n \in Nat, NEW f \in [1..n -> S] PROVE f \in Seq(S) /\ Len(f) = n
  OBVIOUS

LEMMA SplitsInto ==
  ASSUME FlowOK(preds), NEW b \in 1..Len(preds), SplitBlock(b)
  PROVE  SplitInto(preds, preds', b, Critical(b)[Len(preds[b])], Places(b))
<1> DEFINE k == Len(preds)
           n == Len(preds[b])
           at == Places(b)
           new == Critical(b)[n]
           es == SplitEdges(b)
           s == [preds EXCEPT ![b] = es]
           t == [i \in 1..Len(new) |-> <<new[i]>>]
<1>1. /\ preds \in Seq(Seq(Edges)) /\ k \in Nat /\ n \in Nat /\ DOMAIN preds[b] = 1..n
      /\ \A i \in 1..n : preds[b][i] \in Edges
  BY GraphTyped DEF FlowOK
<1>2. CriticalOK(b, new, at)
  BY CriticalFacts
<1>3. preds' = s \o t
  BY DEF SplitBlock
<1>4. \A i \in 1..n : at[i] = Len(Critical(b)[i])
  BY DEF Places
<1>5. es = [i \in 1..n |-> IF IsCritical(preds[b][i]) THEN Edge(k + at[i], "jmp") ELSE preds[b][i]]
  <2>1. \A i \in 1..n : (IF IsCritical(preds[b][i]) THEN Edge(k + Len(Critical(b)[i]), "jmp") ELSE preds[b][i])
                          = (IF IsCritical(preds[b][i]) THEN Edge(k + at[i], "jmp") ELSE preds[b][i])
    BY <1>4
  <2> HIDE DEF at
  <2> QED
    BY <2>1, <1>1 DEF SplitEdges
<1> HIDE DEF at, new
<1>6. ASSUME NEW i \in 1..n
      PROVE  /\ IsCritical(preds[b][i]) => es[i] = Edge(k + at[i], "jmp") /\ es[i] \in Edges
             /\ ~IsCritical(preds[b][i]) => es[i] = preds[b][i] /\ es[i] \in Edges
  <2> DEFINE w(l) == IF IsCritical(preds[b][l]) THEN Edge(k + at[l], "jmp") ELSE preds[b][l]
  <2>1. es = [l \in 1..n |-> w(l)]
    BY <1>5
  <2> HIDE DEF w, es
  <2>2. es[i] = w(i)
    BY <2>1
  <2>3. IsCritical(preds[b][i]) => k + at[i] \in Nat
    <3>1. IsCritical(preds[b][i]) => at[i] \in 1..Len(new) /\ Len(new) \in Nat
      BY <1>2 DEF CriticalOK
    <3> QED
      BY <3>1, <1>1
  <2>4. IsCritical(preds[b][i]) => Edge(k + at[i], "jmp") \in Edges
    BY <2>3 DEF Edge, Edges
  <2>5. preds[b][i] \in Edges
    BY <1>1
  <2> QED
    BY <2>2, <2>4, <2>5, Zenon DEF w
<1>7. es \in Seq(Edges) /\ Len(es) = n
  <2>1. \A i \in 1..n : es[i] \in Edges
    BY <1>6, Zenon
  <2>2. es = [i \in 1..n |-> es[i]]
    <3> DEFINE w(l) == IF IsCritical(preds[b][l]) THEN Edge(k + at[l], "jmp") ELSE preds[b][l]
    <3>1. es = [l \in 1..n |-> w(l)]
      BY <1>5
    <3> HIDE DEF w, es
    <3> QED
      BY <3>1
  <2> HIDE DEF es
  <2>3. es \in [1..n -> Edges]
    BY <2>1, <2>2
  <2> QED
    BY <2>3, <1>1, SeqFrom, Zenon
<1> HIDE DEF es
<1>8. s \in Seq(Seq(Edges)) /\ Len(s) = k /\ s[b] = es /\ \A d \in 1..k : d # b => s[d] = preds[d]
  BY <1>1, <1>7
<1>9. t \in Seq(Seq(Edges)) /\ Len(t) = Len(new) /\ \A j \in 1..Len(new) : t[j] = <<new[j]>>
  <2>1. Len(new) \in Nat /\ \A j \in 1..Len(new) : new[j] \in Edges
    BY <1>2 DEF CriticalOK
  <2>2. \A j \in 1..Len(new) : <<new[j]>> \in Seq(Edges)
    BY <2>1
  <2> QED
    BY <2>1, <2>2
<1> HIDE DEF s, t
<1>10. /\ s \o t \in Seq(Seq(Edges)) /\ Len(s \o t) = Len(s) + Len(t)
       /\ \A i \in 1..Len(s) : (s \o t)[i] = s[i]
       /\ \A i \in 1..Len(t) : (s \o t)[Len(s) + i] = t[i]
  <2>1. s \in Seq(Seq(Edges))
    BY <1>8
  <2>2. t \in Seq(Seq(Edges))
    BY <1>9
  <2> QED
    BY <2>1, <2>2, ConcatFacts
<1> DEFINE q == s \o t
<1>11. preds' = q
  BY <1>3
<1>12. /\ q \in Seq(Seq(Edges)) /\ Len(q) = k + Len(new)
       /\ \A i \in 1..k : q[i] = s[i]
       /\ \A i \in 1..Len(new) : q[k + i] = t[i]
  BY <1>8, <1>9, <1>10
<1> HIDE DEF q
<1>13. /\ \A d \in 1..k : d # b => q[d] = preds[d]
       /\ q[b] = es
       /\ \A j \in 1..Len(new) : q[k + j] = <<new[j]>>
  BY <1>8, <1>9, <1>12
<1>14. SplitInto(preds, q, b, new, at)
  <2>1. Len(q[b]) = n
    BY <1>13, <1>7
  <2>2. /\ \A i \in 1..n : IsCritical(preds[b][i]) => q[b][i] = Edge(k + at[i], "jmp")
        /\ \A i \in 1..n : ~IsCritical(preds[b][i]) => q[b][i] = preds[b][i]
    BY <1>13, <1>6, Zenon
  <2> QED
    BY <2>1, <2>2, <1>12, <1>13, Zenon DEF SplitInto
<1> QED
  BY <1>11, <1>14, Zenon DEF at, new

(* Edge j into d, after the split, is edge i into e before it. *)
WasEdge(p, b, at, d, j, e, i) ==
  \/ d = e /\ j = i /\ ~(e = b /\ IsCritical(p[b][i]))
  \/ e = b /\ IsCritical(p[b][i]) /\ d = Len(p) + at[i] /\ j = 1

LEMMA SplitEdge ==
  ASSUME FlowOK(preds), NEW b \in 1..Len(preds), NEW new, NEW at, CriticalOK(b, new, at),
         NEW q, SplitInto(preds, q, b, new, at), NEW d \in 1..Len(q), NEW j \in 1..Len(q[d])
  PROVE  \/ \E e \in 1..Len(preds) : \E i \in 1..Len(preds[e]) :
              q[d][j] = preds[e][i] /\ WasEdge(preds, b, at, d, j, e, i)
         \/ d = b /\ j \in 1..Len(preds[b]) /\ IsCritical(preds[b][j]) /\ q[d][j] = Edge(Len(preds) + at[j], "jmp")
              /\ at[j] \in 1..Len(new)
<1> DEFINE k == Len(preds)
<1>1. k \in Nat /\ Len(new) \in Nat /\ Len(q) = k + Len(new) /\ d \in 1..(k + Len(new))
  BY GraphTyped DEF FlowOK, CriticalOK, SplitInto
<1>2. CASE d \in 1..k /\ d # b
  <2>1. q[d] = preds[d]
    BY <1>2 DEF SplitInto
  <2>2. j \in 1..Len(preds[d]) /\ q[d][j] = preds[d][j]
    BY <2>1
  <2>3. WasEdge(preds, b, at, d, j, d, j)
    BY <1>2 DEF WasEdge
  <2> QED
    BY <2>2, <2>3, <1>2
<1>3. CASE d = b /\ ~IsCritical(preds[b][j])
  <2>1. j \in 1..Len(preds[b])
    BY <1>3 DEF SplitInto
  <2>2. q[b][j] = preds[b][j]
    BY <2>1, <1>3 DEF SplitInto
  <2>3. WasEdge(preds, b, at, b, j, b, j)
    BY <1>3 DEF WasEdge
  <2> QED
    BY <2>1, <2>2, <2>3, <1>3
<1>4. CASE d = b /\ IsCritical(preds[b][j])
  <2>1. j \in 1..Len(preds[b])
    BY <1>4 DEF SplitInto
  <2>2. q[b][j] = Edge(k + at[j], "jmp")
    BY <2>1, <1>4 DEF SplitInto
  <2>3. at[j] \in 1..Len(new)
    BY <2>1, <1>4 DEF CriticalOK
  <2> QED
    BY <2>1, <2>2, <2>3, <1>4
<1>5. CASE d \notin 1..k
  <2>1. d - k \in 1..Len(new) /\ d = k + (d - k)
    BY <1>1, <1>5
  <2>2. PICK m \in 1..Len(new) : d = k + m
    BY <2>1
  <2>3. q[d] = <<new[m]>>
    BY <2>2 DEF SplitInto
  <2>4. j = 1 /\ q[d][j] = new[m]
    BY <2>3
  <2>5. PICK i \in 1..Len(preds[b]) : IsCritical(preds[b][i]) /\ at[i] = m
    BY DEF CriticalOK
  <2>6. new[m] = preds[b][i]
    BY <2>5 DEF CriticalOK
  <2>7. WasEdge(preds, b, at, d, j, b, i)
    BY <2>2, <2>4, <2>5 DEF WasEdge
  <2> QED
    BY <2>4, <2>6, <2>7
<1> QED
  BY <1>2, <1>3, <1>4, <1>5

(* Splitting makes no block more of a branch, and no new block is one. *)
LEMMA SplitTwoCounted ==
  ASSUME FlowOK(preds), CountsOK(Len(preds)), TwoCounted(preds), NEW b \in 1..Len(preds), NEW new, NEW at,
         CriticalOK(b, new, at), NEW q, SplitInto(preds, q, b, new, at)
  PROVE  TwoCounted(q)
<1> DEFINE k == Len(preds)
<1>1. k \in Nat /\ Len(new) \in Nat /\ Len(q) = k + Len(new)
  BY GraphTyped DEF FlowOK, CriticalOK, SplitInto
<1> SUFFICES ASSUME NEW c \in 1..Len(q), TwoWays(q, c) PROVE SuccsOf(c) >= 2
  BY DEF TwoCounted
<1>2. PICK x \in 1..Len(q), y \in 1..Len(q) :
        \E i \in 1..Len(q[x]) : \E j \in 1..Len(q[y]) : Way(q, x, i, c) /\ Way(q, y, j, c) /\ (y # x \/ j # i)
  BY DEF TwoWays
<1>3. PICK i \in 1..Len(q[x]), j \in 1..Len(q[y]) : Way(q, x, i, c) /\ Way(q, y, j, c) /\ (y # x \/ j # i)
  BY <1>2
<1>4. ASSUME NEW d \in 1..Len(q), NEW l \in 1..Len(q[d]), Way(q, d, l, c)
      PROVE  IF c \in 1..k
             THEN \E e \in 1..k : \E m \in 1..Len(preds[e]) : Way(preds, e, m, c) /\ WasEdge(preds, b, at, d, l, e, m)
             ELSE d = b /\ l \in 1..Len(preds[b]) /\ IsCritical(preds[b][l]) /\ c = k + at[l]
  <2>1. q[d][l].src = c /\ IsReal(q[d][l])
    BY <1>4 DEF Way
  <2>2. CASE \E e \in 1..k : \E m \in 1..Len(preds[e]) :
               q[d][l] = preds[e][m] /\ WasEdge(preds, b, at, d, l, e, m)
    <3>1. PICK e \in 1..k : \E m \in 1..Len(preds[e]) :
                 q[d][l] = preds[e][m] /\ WasEdge(preds, b, at, d, l, e, m)
      BY <2>2
    <3>2. PICK m \in 1..Len(preds[e]) : q[d][l] = preds[e][m] /\ WasEdge(preds, b, at, d, l, e, m)
      BY <3>1
    <3>3. preds[e][m].src = c /\ IsReal(preds[e][m])
      BY <3>2, <2>1
    <3>4. c \in 1..k
      BY <3>3 DEF FlowOK
    <3>5. Way(preds, e, m, c)
      BY <3>3 DEF Way
    <3> QED
      BY <3>2, <3>4, <3>5
  <2>3. CASE d = b /\ l \in 1..Len(preds[b]) /\ IsCritical(preds[b][l]) /\ q[d][l] = Edge(k + at[l], "jmp")
               /\ at[l] \in 1..Len(new)
    <3>1. c = k + at[l]
      BY <2>1, <2>3 DEF Edge
    <3>2. c \notin 1..k
      BY <3>1, <2>3, <1>1, SMTT(60)
    <3> QED
      BY <2>3, <3>1, <3>2
  <2> QED
    BY <2>2, <2>3, SplitEdge
<1>5. CASE c \in 1..k
  <2>1. PICK e \in 1..k, f \in 1..k :
          /\ \E m \in 1..Len(preds[e]) : Way(preds, e, m, c) /\ WasEdge(preds, b, at, x, i, e, m)
          /\ \E m \in 1..Len(preds[f]) : Way(preds, f, m, c) /\ WasEdge(preds, b, at, y, j, f, m)
    BY <1>3, <1>4, <1>5
  <2>2. PICK m \in 1..Len(preds[e]), n \in 1..Len(preds[f]) :
          /\ Way(preds, e, m, c) /\ WasEdge(preds, b, at, x, i, e, m)
          /\ Way(preds, f, n, c) /\ WasEdge(preds, b, at, y, j, f, n)
    BY <2>1
  <2>3. f # e \/ n # m
    BY <1>3, <2>2 DEF WasEdge
  <2>4. TwoWays(preds, c)
    BY <2>2, <2>3 DEF TwoWays
  <2> QED
    BY <2>4, <1>5 DEF TwoCounted
<1>6. CASE c \notin 1..k
  <2>1. /\ x = b /\ i \in 1..Len(preds[b]) /\ IsCritical(preds[b][i]) /\ c = k + at[i]
        /\ y = b /\ j \in 1..Len(preds[b]) /\ IsCritical(preds[b][j]) /\ c = k + at[j]
    BY <1>3, <1>4, <1>6
  <2>2. i # j /\ i \in Nat /\ j \in Nat /\ at[i] \in Nat /\ at[j] \in Nat
    <3>1. at[i] \in 1..Len(new) /\ at[j] \in 1..Len(new)
      BY <2>1 DEF CriticalOK
    <3> QED
      BY <3>1, <2>1, <1>1, <1>3, SMTT(60)
  <2>3. at[i] = at[j]
    BY <2>1, <2>2, <1>1
  <2>4. (i < j => at[i] < at[j]) /\ (j < i => at[j] < at[i])
    BY <2>1 DEF CriticalOK
  <2>5. FALSE
    BY <2>2, <2>3, <2>4
  <2> QED
    BY <2>5
<1> QED
  BY <1>5, <1>6

LEMMA SplitStep ==
  ASSUME SplitOK, NEW b \in 1..Len(preds), SplitBlock(b)
  PROVE  SplitOK'
<1> DEFINE k == Len(preds)
           new == Critical(b)[Len(preds[b])]
           at == Places(b)
           q == preds'
<1>1. FlowOK(preds) /\ CountsOK(k) /\ TwoCounted(preds) /\ DOMAIN numBlockPreds \subseteq 1..k
  BY DEF SplitOK
<1>2. CriticalOK(b, new, at)
  BY <1>1, CriticalFacts
<1>3. SplitInto(preds, q, b, new, at)
  BY <1>1, SplitsInto
<1> HIDE DEF new, at
<1>4. k \in Nat /\ Len(new) \in Nat /\ Len(q) = k + Len(new) /\ q \in Seq(Seq(Edges))
  BY <1>1, <1>2, <1>3, GraphTyped DEF FlowOK, CriticalOK, SplitInto
<1>5. /\ b \in DOMAIN numBlockPreds /\ numBlockPreds' = [numBlockPreds EXCEPT ![b] = 0]
      /\ numBlockSuccs' = numBlockSuccs
  BY DEF SplitBlock, Counted
<1>6. /\ DOMAIN numBlockPreds' = DOMAIN numBlockPreds /\ numBlockPreds'[b] = 0
      /\ \A d \in DOMAIN numBlockPreds : d # b => numBlockPreds'[d] = numBlockPreds[d]
  BY <1>5
<1>7. (\A c : SuccsOf(c)' = SuccsOf(c)) /\ (\A e : IsCritical(e)' = IsCritical(e))
  <2>1. \A c : SuccsOf(c)' = SuccsOf(c)
    BY <1>5 DEF SuccsOf
  <2> QED
    BY <2>1 DEF IsCritical
<1>8. \A e \in 1..k : e \in 1..Len(q)
  BY <1>4
<1>9. FlowOK(q)
  <2>1. ASSUME NEW d \in 1..Len(q), NEW j \in 1..Len(q[d]) PROVE q[d][j].src \in 1..Len(q)
    <3>1. CASE \E e \in 1..k : \E i \in 1..Len(preds[e]) : q[d][j] = preds[e][i]
      <4>1. PICK e \in 1..k : \E i \in 1..Len(preds[e]) : q[d][j] = preds[e][i]
        BY <3>1
      <4>2. PICK i \in 1..Len(preds[e]) : q[d][j] = preds[e][i]
        BY <4>1
      <4>3. preds[e][i].src \in 1..k
        BY <1>1 DEF FlowOK
      <4> QED
        BY <4>2, <4>3, <1>8
    <3>2. CASE q[d][j] = Edge(k + at[j], "jmp") /\ at[j] \in 1..Len(new)
      <4>1. q[d][j].src = k + at[j]
        BY <3>2 DEF Edge
      <4>2. k + at[j] \in 1..Len(q)
        BY <3>2, <1>4, SMTT(60)
      <4> QED
        BY <4>1, <4>2
    <3> QED
      BY <3>1, <3>2, <1>1, <1>2, <1>3, SplitEdge
  <2>2. Len(preds) >= 2
    BY <1>1 DEF FlowOK
  <2>3. Len(q) >= 2
    BY <2>2, <1>4
  <2> QED
    BY <2>1, <2>3, <1>4 DEF FlowOK
<1>10. CountsOK(Len(preds))'
  BY <1>1, <1>5, <1>8 DEF CountsOK
<1>11. TwoCounted(q)
  BY <1>1, <1>2, <1>3, SplitTwoCounted
<1>12. ASSUME NEW d \in DOMAIN numBlockPreds
       PROVE  \/ numBlockPreds'[d] = Len(q[d])
              \/ numBlockPreds'[d] = 0 /\ \A i \in 1..Len(q[d]) : ~IsCritical(q[d][i])
  <2>1. CASE d # b
    <3>1. q[d] = preds[d] /\ numBlockPreds'[d] = numBlockPreds[d]
      BY <2>1, <1>1, <1>3, <1>6 DEF SplitInto
    <3>2. \/ numBlockPreds[d] = Len(preds[d])
          \/ numBlockPreds[d] = 0 /\ \A i \in 1..Len(preds[d]) : ~IsCritical(preds[d][i])
      BY DEF SplitOK
    <3> QED
      BY <3>1, <3>2
  <2>2. CASE d = b
    <3>1. ASSUME NEW i \in 1..Len(q[b]) PROVE ~IsCritical(q[b][i])
      <4>1. i \in 1..Len(preds[b])
        BY <1>3 DEF SplitInto
      <4>2. CASE ~IsCritical(preds[b][i])
        <5>1. q[b][i] = preds[b][i]
          BY <4>1, <4>2, <1>3 DEF SplitInto
        <5> QED
          BY <4>2, <5>1
      <4>3. CASE IsCritical(preds[b][i])
        <5>1. q[b][i] = Edge(k + at[i], "jmp") /\ at[i] \in 1..Len(new)
          BY <4>1, <4>3, <1>2, <1>3 DEF SplitInto, CriticalOK
        <5>2. q[b][i].src = k + at[i]
          BY <5>1 DEF Edge
        <5>3. k + at[i] \notin 1..k
          BY <5>1, <1>4
        <5>4. k + at[i] \notin DOMAIN numBlockSuccs
          BY <5>3, <1>1 DEF CountsOK
        <5>5. SuccsOf(q[b][i].src) = 0
          BY <5>2, <5>4 DEF SuccsOf
        <5> QED
          BY <5>5 DEF IsCritical
      <4> QED
        BY <4>2, <4>3
    <3> QED
      BY <3>1, <2>2, <1>6
  <2> QED
    BY <2>1, <2>2
<1>13. ASSUME NEW d \in 1..Len(q), Entered(q, d) PROVE d \in DOMAIN numBlockPreds \/ Len(q[d]) = 1
  <2>1. CASE d = b
    BY <2>1, <1>5
  <2>2. CASE d \in 1..k /\ d # b
    <3>1. q[d] = preds[d]
      BY <2>2, <1>3 DEF SplitInto
    <3>2. Entered(preds, d)
      BY <3>1, <1>13 DEF Entered
    <3> QED
      BY <3>1, <3>2, <2>2 DEF SplitOK
  <2>3. CASE d \notin 1..k
    <3>1. d - k \in 1..Len(new) /\ d = k + (d - k)
      BY <2>3, <1>4
    <3>2. PICK m \in 1..Len(new) : d = k + m
      BY <3>1
    <3>3. q[d] = <<new[m]>>
      BY <3>2, <1>3 DEF SplitInto
    <3> QED
      BY <3>3
  <2> QED
    BY <2>1, <2>2, <2>3
<1>14. FlowOK(preds)' /\ TwoCounted(preds)'
  <2>1. FlowOK(preds)'
    BY <1>9 DEF FlowOK
  <2>2. TwoCounted(preds)'
    <3>1. \A c \in 1..Len(q) : TwoWays(q, c) => SuccsOf(c) >= 2
      BY <1>11 DEF TwoCounted
    <3>2. \A c : TwoWays(preds, c)' = TwoWays(q, c)
      BY DEF TwoWays, Way, IsReal
    <3> QED
      BY <3>1, <3>2, <1>7 DEF TwoCounted
  <2> QED
    BY <2>1, <2>2
<1>15. (DOMAIN numBlockPreds \subseteq 1..Len(preds))'
  BY <1>1, <1>6, <1>8
<1>16. (\A d \in DOMAIN numBlockPreds :
         \/ numBlockPreds[d] = Len(preds[d])
         \/ numBlockPreds[d] = 0 /\ \A i \in 1..Len(preds[d]) : ~IsCritical(preds[d][i]))'
  BY <1>6, <1>7, <1>12
<1>17. (\A d \in 1..Len(preds) : Entered(preds, d) => d \in DOMAIN numBlockPreds \/ Len(preds[d]) = 1)'
  BY <1>6, <1>13 DEF Entered
<1> QED
  BY <1>10, <1>14, <1>15, <1>16, <1>17 DEF SplitOK

(* A set that has more than one element has two. *)
LEMMA TwoElements ==
  ASSUME NEW S, Cardinality(S) > 1
  PROVE  \E x, y \in S : x # y
<1> SUFFICES ASSUME \A x, y \in S : x = y PROVE FALSE
  OBVIOUS
<1>1. CASE S = {}
  BY <1>1, FS_EmptySet
<1>2. CASE S # {}
  <2>1. PICK x \in S : TRUE
    BY <1>2
  <2>2. S = {x}
    BY <2>1
  <2> QED
    BY <2>2, FS_Singleton
<1> QED
  BY <1>1, <1>2

NoneCritical ==
  \A b \in DOMAIN preds : Cardinality(Exits(b)) > 1 =>
    \A x \in Exits(b) : Cardinality({i \in DOMAIN preds[x[1]] : IsReal(preds[x[1]][i])}) = 1

(* When all blocks have been dealt with, no critical edge is left. *)
LEMMA AllSplit ==
  ASSUME SplitOK, \A b \in DOMAIN numBlockPreds : numBlockPreds[b] <= 1
  PROVE  NoneCritical
<1> DEFINE k == Len(preds)
<1>1. /\ preds \in Seq(Seq(Edges)) /\ FlowOK(preds) /\ CountsOK(k) /\ TwoCounted(preds)
      /\ DOMAIN numBlockPreds \subseteq 1..k
  BY DEF SplitOK, FlowOK
<1> SUFFICES ASSUME NEW b \in DOMAIN preds, Cardinality(Exits(b)) > 1, NEW x \in Exits(b)
             PROVE  Cardinality({i \in DOMAIN preds[x[1]] : IsReal(preds[x[1]][i])}) = 1
  BY DEF NoneCritical
<1>2. b \in 1..k
  BY <1>1
<1>3. \A z : z \in Exits(b) <=> ExitAt(preds, b, z)
  <2>1. Exits(b) = ExitsOf(preds, b)
    BY DEF Exits, ExitsOf, On
  <2> QED
    BY <2>1, <1>1, ExitsAre
<1>4. SuccsOf(b) >= 2 /\ SuccsOf(b) \in Nat
  <2>1. PICK y, z \in Exits(b) : y # z
    BY TwoElements
  <2>2. ExitAt(preds, b, y) /\ ExitAt(preds, b, z)
    BY <1>3
  <2>3. PICK c \in 1..k, d \in 1..k :
          /\ \E i \in 1..Len(preds[c]) : y = <<c, i>> /\ preds[c][i].src = b /\ preds[c][i].on # "bad"
          /\ \E i \in 1..Len(preds[d]) : z = <<d, i>> /\ preds[d][i].src = b /\ preds[d][i].on # "bad"
    BY <2>2 DEF ExitAt
  <2>4. PICK i \in 1..Len(preds[c]), j \in 1..Len(preds[d]) :
          /\ y = <<c, i>> /\ preds[c][i].src = b /\ preds[c][i].on # "bad"
          /\ z = <<d, j>> /\ preds[d][j].src = b /\ preds[d][j].on # "bad"
    BY <2>3
  <2>5. d # c \/ j # i
    BY <2>1, <2>4
  <2>6. TwoWays(preds, b)
    BY <2>4, <2>5 DEF TwoWays, Way, IsReal
  <2>7. SuccsOf(b) \in Nat
    BY <1>1 DEF SuccsOf, CountsOK
  <2> QED
    BY <2>6, <2>7, <1>1, <1>2 DEF TwoCounted
<1>5. PICK c \in 1..k : \E i \in 1..Len(preds[c]) : x = <<c, i>> /\ preds[c][i].src = b /\ preds[c][i].on # "bad"
  BY <1>3 DEF ExitAt
<1>6. PICK i \in 1..Len(preds[c]) : x = <<c, i>> /\ preds[c][i].src = b /\ preds[c][i].on # "bad"
  BY <1>5
<1>7. IsReal(preds[c][i]) /\ IsCritical(preds[c][i])
  BY <1>4, <1>6 DEF IsReal, IsCritical
<1>8. Len(preds[c]) \in Nat /\ DOMAIN preds[c] = 1..Len(preds[c])
  BY <1>1, GraphTyped
<1>9. Len(preds[c]) = 1
  <2>1. c \in DOMAIN numBlockPreds \/ Len(preds[c]) = 1
    BY <1>7 DEF SplitOK, Entered
  <2>2. CASE c \in DOMAIN numBlockPreds
    <3>1. numBlockPreds[c] = Len(preds[c]) \/ (\A l \in 1..Len(preds[c]) : ~IsCritical(preds[c][l]))
      BY <2>2 DEF SplitOK
    <3>2. numBlockPreds[c] = Len(preds[c])
      BY <3>1, <1>7
    <3>3. Len(preds[c]) <= 1
      BY <3>2, <2>2
    <3> DEFINE n == Len(preds[c])
    <3>4. n \in Nat /\ i \in 1..n /\ n <= 1
      BY <3>3, <1>8
    <3> HIDE DEF n
    <3>5. n = 1
      BY <3>4
    <3> QED
      BY <3>5 DEF n
  <2> QED
    BY <2>1, <2>2
<1>10. x[1] = c
  BY <1>6
<1>11. i = 1
  BY <1>9
<1>12. {l \in DOMAIN preds[c] : IsReal(preds[c][l])} = {1}
  BY <1>7, <1>8, <1>9, <1>11
<1> QED
  BY <1>10, <1>12, FS_Singleton

LEMMA SameGraph ==
  ASSUME NoneCritical, preds' = preds
  PROVE  NoneCritical'
<1>1. \A b : Exits(b)' = Exits(b)
  BY DEF Exits, On
<1> QED
  BY <1>1 DEF NoneCritical, IsReal
-----------------------------------------------------------------------------
(*                    Which statements code goes on behind                 *)

(* What is kept of a block that returns ends with a statement that does. *)
LEMMA UpToReturnEnds ==
  ASSUME SourceOK, NEW n \in 1..Len(stmts), Op(n) = "block", Returning(n) # {}
  PROVE  /\ Len(UpToReturn(n)) > 0 /\ UpToReturn(n)[Len(UpToReturn(n))] \in Children(n)
         /\ cfb[UpToReturn(n)[Len(UpToReturn(n))]] = "Return"
<1> DEFINE ss == Stmts(n)
           R == Returning(n)
           u == UpToReturn(n)
           m == Min(R)
<1>1. ss \in Seq(Nat) /\ Len(ss) \in Nat /\ DOMAIN ss = 1..Len(ss) /\ \A i \in 1..Len(ss) : ss[i] \in Children(n)
  BY NodeOf
<1>2. R = {i \in 1..Len(ss) : cfb[ss[i]] = "Return"}
  BY <1>1 DEF Returning
<1>3. u = SubSeq(ss, 1, m)
  BY DEF UpToReturn
<1>4. R # {}
  OBVIOUS
<1> HIDE DEF ss, R, u
<1>5. R \subseteq Nat
  BY <1>1, <1>2
<1>6. \E x \in R : \A y \in R : x <= y
  BY <1>4, <1>5, LeastIn
<1>7. m \in R
  BY <1>6 DEF Min
<1> HIDE DEF m
<1>8. m \in 1..Len(ss) /\ cfb[ss[m]] = "Return"
  BY <1>2, <1>7
<1>9. Len(u) = m /\ u[m] = ss[m]
  BY <1>1, <1>3, <1>8
<1>10. Len(u) > 0 /\ u[Len(u)] \in Children(n) /\ cfb[u[Len(u)]] = "Return"
  BY <1>1, <1>8, <1>9
<1> QED
  BY <1>10 DEF u

(* The parts of a statement are its children, or missing. *)
LEMMA PartsOf ==
  ASSUME SourceOK, NEW n \in 1..Len(stmts), Op(n) = "if"
  PROVE  \A s \in {Then(n), Else(n)} : s = NoStmt \/ s \in Children(n)
<1>1. stmts[n] \in Nodes /\ NodeOK(stmts[n], Len(stmts))
  BY NodeOf
<1>2. stmts[n].kids \in Seq(Nat) /\ Len(stmts[n].kids) = 2
  BY <1>1 DEF Nodes, NodeOK, Op
<1>3. Then(n) \in Range(stmts[n].kids) /\ Else(n) \in Range(stmts[n].kids)
  BY <1>2 DEF Then, Else, Range
<1> QED
  BY <1>3 DEF Children

LEMMA ParsedCfb ==
  ASSUME SourceOK, Parsed
  PROVE  CfbOK'
<1>1. stmts' = stmts /\ cfb' = [n \in DOMAIN stmts |-> "unknown"] /\ DOMAIN stmts = 1..Len(stmts)
  BY DEF Parsed, source, SourceOK
<1>2. \A n \in 1..Len(stmts) : ~Visited(n)'
  BY <1>1 DEF Visited
<1> QED
  BY <1>1, <1>2 DEF CfbOK

LEMMA SemaCfb ==
  ASSUME SourceOK, SemaOK, CfbOK, Sema
  PROVE  CfbOK'
<1>1. PICK n \in DOMAIN stmts : Due(n) /\ IF Op(n) = "block" THEN VisitBlock(n) ELSE VisitOther(n)
  BY DEF Sema
<1>2. stmts' = stmts
  BY DEF Sema, source
<1>3. n \in 1..Len(stmts) /\ ~Visited(n) /\ \A k \in Children(n) : Visited(k)
  BY <1>1 DEF SourceOK, Due
<1>4. /\ cfb \in [1..Len(stmts) -> Behaviours] /\ kept \in [1..Len(stmts) -> Seq(Nat)]
  BY DEF SemaOK
<1>5. PICK v :
        /\ cfb' = [cfb EXCEPT ![n] = v]
        /\ Op(n) \in {"expr", "while"} => v = "MayContinue"
        /\ Op(n) = "if" => v = combineCFB(CfbOf(Then(n)), CfbOf(Else(n)))
        /\ Op(n) = "block" => (v # "MayContinue" => Returning(n) # {}) /\ kept' = [kept EXCEPT ![n] = UpToReturn(n)]
        /\ Op(n) # "block" => kept' = kept
  BY <1>1 DEF VisitBlock, VisitOther
<1>6. /\ cfb'[n] = v /\ (\A m \in 1..Len(stmts) : m # n => cfb'[m] = cfb[m])
      /\ (\A m \in 1..Len(stmts) : m # n => Visited(m)' = Visited(m))
  BY <1>3, <1>4, <1>5 DEF Visited
<1>7. \A m : Children(m)' = Children(m) /\ Op(m)' = Op(m) /\ Then(m)' = Then(m) /\ Else(m)' = Else(m)
  BY <1>2 DEF Children, Op, Then, Else
<1>8. \A m \in 1..Len(stmts) : m # n => kept'[m] = kept[m]
  BY <1>3, <1>4, <1>5
(* Behind the children of a visited statement nothing changes. *)
<1>9. ASSUME NEW s, s = NoStmt \/ (s \in 1..Len(stmts) /\ Visited(s)) PROVE Continues(s)' = Continues(s)
  <2>1. CASE s = NoStmt
    BY <2>1 DEF Continues, CfbOf
  <2>2. CASE s \in 1..Len(stmts) /\ Visited(s)
    BY <2>2, <1>3, <1>6 DEF Continues, CfbOf
  <2> QED
    BY <2>1, <2>2, <1>9
<1> SUFFICES ASSUME NEW m \in 1..Len(stmts), Visited(m)'
             PROVE  (/\ Op(m) \in {"expr", "while"} => Continues(m)
                     /\ Op(m) = "if" /\ (Continues(Then(m)) \/ Continues(Else(m))) => Continues(m)
                     /\ Op(m) = "block" /\ ~Continues(m) =>
                          Len(kept[m]) > 0 /\ ~Continues(kept[m][Len(kept[m])]))'
  BY <1>2 DEF CfbOK
<1>10. \A k \in Children(m) : k \in 1..Len(stmts) /\ Visited(k)
  <2>1. \A k \in Children(m) : k \in 1..Len(stmts)
    BY ChildFacts
  <2>2. m # n => Visited(m)
    BY <1>6
  <2> QED
    BY <2>1, <2>2, <1>3 DEF SemaOK
<1>11. Op(m) = "if" => Continues(Then(m))' = Continues(Then(m)) /\ Continues(Else(m))' = Continues(Else(m))
  <2> SUFFICES ASSUME Op(m) = "if"
               PROVE  Continues(Then(m))' = Continues(Then(m)) /\ Continues(Else(m))' = Continues(Else(m))
    OBVIOUS
  <2>1. \A s \in {Then(m), Else(m)} : s = NoStmt \/ (s \in 1..Len(stmts) /\ Visited(s))
    BY <1>10, PartsOf
  <2>2. Then(m)' = Then(m) /\ Else(m)' = Else(m)
    BY <1>7
  <2>3. CfbOf(Then(m))' = (IF Then(m) = NoStmt THEN "MayContinue" ELSE cfb'[Then(m)])
    BY <2>2 DEF CfbOf
  <2>4. CfbOf(Else(m))' = (IF Else(m) = NoStmt THEN "MayContinue" ELSE cfb'[Else(m)])
    BY <2>2 DEF CfbOf
  <2>5. \A s \in {Then(m), Else(m)} : s # NoStmt => cfb'[s] = cfb[s]
    BY <2>1, <1>3, <1>6
  <2> QED
    BY <2>3, <2>4, <2>5 DEF Continues, CfbOf
<1>12. m # NoStmt /\ (Continues(m)' <=> cfb'[m] = "MayContinue")
  BY DEF Continues, CfbOf, NoStmt
<1>13. CASE m # n
  <2>1. Visited(m) /\ cfb'[m] = cfb[m] /\ kept'[m] = kept[m]
    BY <1>6, <1>8, <1>13
  <2>2. Continues(m)' = Continues(m)
    BY <2>1, <1>9
  <2>3. ASSUME Op(m) = "block", ~Continues(m)
        PROVE  Len(kept'[m]) > 0 /\ ~Continues(kept[m][Len(kept[m])])'
    <3> DEFINE s == kept[m][Len(kept[m])]
    <3>1. Len(kept[m]) > 0 /\ ~Continues(s)
      BY <2>1, <2>3 DEF CfbOK
    <3>2. kept[m] \in Seq(Nat)
      BY <1>4
    <3>3. Len(kept[m]) \in 1..Len(kept[m])
      BY <3>1, <3>2
    <3>4. s \in Children(m)
      BY <3>3, <2>3 DEF SemaOK, KeptOK
    <3>5. s \in 1..Len(stmts) /\ Visited(s)
      BY <3>4, <1>10
    <3>6. s # n /\ s # NoStmt /\ cfb'[s] = cfb[s]
      BY <3>5, <1>3, <1>6 DEF NoStmt
    <3>7. kept'[m][Len(kept'[m])] = s
      BY <2>1
    <3> HIDE DEF s
    <3>8. cfb[s] # "MayContinue"
      BY <3>1, <3>6 DEF Continues, CfbOf
    <3> QED
      BY <2>1, <3>1, <3>6, <3>7, <3>8 DEF Continues, CfbOf
  <2> QED
    BY <2>1, <2>2, <2>3, <1>7, <1>11 DEF CfbOK
<1>14. CASE m = n
  <2>1. Op(m) \in {"expr", "while"} => Continues(m)'
    BY <1>5, <1>6, <1>12, <1>14
  <2>2. Op(m) = "if" /\ (Continues(Then(m)) \/ Continues(Else(m))) => Continues(m)'
    BY <1>5, <1>6, <1>12, <1>14 DEF combineCFB, Continues
  <2>3. ASSUME Op(m) = "block", ~Continues(m)'
        PROVE  (Len(kept[m]) > 0 /\ ~Continues(kept[m][Len(kept[m])]))'
    <3> DEFINE u == UpToReturn(n)
               s == u[Len(u)]
    <3>1. Returning(n) # {} /\ kept'[n] = u
      BY <2>3, <1>3, <1>4, <1>5, <1>6, <1>12, <1>14
    <3>2. Len(u) > 0 /\ s \in Children(n) /\ cfb[s] = "Return"
      BY <2>3, <3>1, <1>3, <1>14, UpToReturnEnds
    <3> HIDE DEF u
    <3>3. kept'[m] = u /\ kept'[m][Len(kept'[m])] = s
      BY <3>1, <1>14
    <3>4. s \in 1..Len(stmts) /\ Visited(s)
      BY <3>2, <1>10, <1>14
    <3>5. s # NoStmt /\ cfb'[s] = "Return"
      BY <3>2, <3>4, <1>3, <1>6 DEF NoStmt
    <3> HIDE DEF s
    <3> QED
      BY <3>2, <3>3, <3>5 DEF Continues, CfbOf
  <2> QED
    BY <2>1, <2>2, <2>3, <1>7, <1>11
<1> QED
  BY <1>13, <1>14

LEMMA SameCfb ==
  ASSUME CfbOK, UNCHANGED <<source, sema>> PROVE CfbOK'
  BY DEF CfbOK, source, sema, Visited, Op, Then, Else, Continues, CfbOf

LEMMA AcceptLeads ==
  ASSUME SourceOK, Fresh, alive = <<>>, CfbOK, Accept, phase' = "lower"
  PROVE  NextLead
<1> DEFINE p == <<<<>>, <<>>>>
           t == StmtTask(1)
           T == <<t>>
<1>1. tasks' = T /\ preds' = p /\ cur' = 2 /\ alive' = <<>> /\ (isVoid \/ cfb[1] = "Return")
  BY DEF Accept, blocks, Fresh, FirstBlock
<1>2. Len(p) = 2 /\ \A b \in 1..2 : p[b] = <<>>
  OBVIOUS
<1> HIDE DEF p
<1>3. t \in Chores /\ t.do = "stmt" /\ t.n = 1
  BY DEF StmtTask, Chores
<1> HIDE DEF t
<1>4. T \in Seq(Chores) /\ T = <<t>> \o <<>> /\ <<>> \in Seq(Chores) /\ Len(T) = 1 /\ T[1] = t
  BY <1>3
<1> HIDE DEF T
<1>5. Behind(T, 1) = <<>>
  BY <1>4 DEF Behind
<1>6. GoesOn(t, <<>>)
  <2>1. Continues(1) => cfb[1] = "MayContinue"
    BY DEF Continues, CfbOf, NoStmt
  <2>2. Continues(1) => isVoid
    BY <2>1, <1>1
  <2> QED
    BY <2>2, <1>3 DEF GoesOn, DemandsFirst
<1>7. AllGoOn(T)
  BY <1>4, <1>5, <1>6 DEF AllGoOn
<1>8. \A dos : "stmt" \notin dos => Targets(T, dos) = {}
  BY <1>3, <1>4, TargetsAre
<1>9. Sets(T) = {} /\ Loops(T) = {}
  BY <1>8 DEF Sets, Loops
<1>10. \A b \in 1..Len(p) : ~Entered(p, b)
  BY <1>2 DEF Entered
<1>11. Idle(p, T) /\ \A X : Leads(p, X)
  BY <1>9, <1>10 DEF Idle, Leads
<1>12. LeadOK(p, 2, <<>>, T)
  BY <1>7, <1>9, <1>11 DEF LeadOK
<1> QED
  BY <1>1, <1>12 DEF NextLead

LEMMA LeadCarried ==
  ASSUME NextLead, stmts' = stmts, cfb' = cfb, isVoid' = isVoid
  PROVE  LeadOK(preds, cur, alive, tasks)'
<1>1. \A n : Continues(n)' = Continues(n)
  BY DEF Continues, CfbOf
<1>2. /\ alive' \in Seq(1..Len(preds')) /\ AllGoOn(tasks') /\ Idle(preds', tasks')
      /\ \A b \in Loops(tasks') : Entered(preds', b)
      /\ Leads(preds', Kept(alive') \cup Unfinished(cur', tasks'))
  BY DEF NextLead, LeadOK
<1>3. DemandsFirst(tasks)' = DemandsFirst(tasks') /\ \A i : DemandsFirst(Behind(tasks, i))' = DemandsFirst(Behind(tasks', i))
  BY DEF DemandsFirst, Demands, Behind, Continues, CfbOf
<1>4. Live(tasks)' = Live(tasks')
  BY DEF Live, DemandsFirst, Demands, Continues, CfbOf, Behind
<1>5. AllGoOn(tasks)'
  BY <1>2, ZenonT(60) DEF AllGoOn, GoesOn, Live, DemandsFirst, Demands, Continues, CfbOf, Behind
<1>6. Idle(preds, tasks)' /\ (\A b \in Loops(tasks) : Entered(preds, b))'
  BY <1>2, <1>4 DEF Idle, Entered, Sets, Loops, Targets, IsReal
<1>7. Leads(preds, Kept(alive) \cup Unfinished(cur, tasks))'
  <2>1. (Kept(alive) \cup Unfinished(cur, tasks))' = Kept(alive') \cup Unfinished(cur', tasks')
    BY <1>3, <1>4 DEF Kept, Unfinished, EndBlock
  <2> QED
    BY <2>1, <1>2 DEF Leads, BackClosed, Entered, IsReal
<1> QED
  BY <1>2, <1>5, <1>6, <1>7 DEF LeadOK

LEMMA LeadSteps ==
  ASSUME LowInv, FlowInv, BuildStep
  PROVE  NextLead /\ UNCHANGED scan
<1>1. phase = "lower"
  BY DEF BuildStep, LowerExpr, LowerReturn, LowerBlock, LowerIf, SetCurBlock, Jump, LowerWhile, LowerEndLoop, DoStmt, Do
<1>2. SourceOK /\ SemaOK /\ CfbOK /\ LowerOK(preds, code, mature, cur, tasks) /\ LeadOK(preds, cur, alive, tasks)
  BY <1>1 DEF LowInv, FlowInv
<1>3. NextLead
  BY <1>2, ExprLeads, ReturnLeads, BlockLeads, IfLeads, SetLeads, JumpLeads, WhileLeads, EndLoopLeads DEF BuildStep
<1>4. UNCHANGED scan
  BY DEF BuildStep, LowerExpr, LowerReturn, LowerBlock, LowerIf, SetCurBlock, Jump, LowerWhile, LowerEndLoop
<1> QED
  BY <1>3, <1>4

LEMMA SameScan == ASSUME Unscanned, UNCHANGED scan PROVE Unscanned'
  BY DEF Unscanned, scan

LEMMA FlowAtTheStart == Init => FlowInv
  BY DEF Init, FlowInv, Unscanned, NoCriticalEdges

LEMMA FlowStep == LowInv /\ FlowInv /\ [Next]_vars => FlowInv'
<1> SUFFICES ASSUME LowInv, FlowInv, [Next]_vars PROVE FlowInv'
  OBVIOUS
<1>0. SourceOK
  BY DEF LowInv
<1>1. ASSUME NEW k \in family.kinds \cup family.roots, Parse(k) PROVE FlowInv'
  <2>1. phase = "parse" /\ phase' = "parse" /\ UNCHANGED <<blocks, scan>>
    BY <1>1 DEF Parse
  <2>2. Unscanned' /\ alive' = <<>>
    BY <2>1, SameScan DEF FlowInv, blocks
  <2> QED
    BY <2>1, <2>2 DEF FlowInv, NoCriticalEdges
<1>2. CASE Parsed
  <2>1. phase = "parse" /\ phase' = "sema" /\ UNCHANGED <<blocks, scan>>
    BY <1>2 DEF Parsed
  <2>2. Unscanned' /\ alive' = <<>>
    BY <2>1, SameScan DEF FlowInv, blocks
  <2>3. CfbOK'
    BY <1>0, <1>2, ParsedCfb
  <2> QED
    BY <2>1, <2>2, <2>3 DEF FlowInv, NoCriticalEdges
<1>3. CASE Sema
  <2>1. phase = "sema" /\ phase' = "sema" /\ UNCHANGED <<blocks, scan>>
    BY <1>3 DEF Sema
  <2>2. Unscanned' /\ alive' = <<>>
    BY <2>1, SameScan DEF FlowInv, blocks
  <2>3. SemaOK /\ CfbOK
    BY <2>1 DEF LowInv, FlowInv
  <2>4. CfbOK'
    BY <2>3, <1>0, <1>3, SemaCfb
  <2> QED
    BY <2>1, <2>2, <2>4 DEF FlowInv, NoCriticalEdges
<1>4. CASE Accept
  <2>1. phase = "sema" /\ phase' \in {"error", "lower"} /\ UNCHANGED <<source, sema, blocks, scan>>
    BY <1>4 DEF Accept
  <2>2. Unscanned' /\ alive = <<>> /\ CfbOK /\ Fresh
    BY <2>1, SameScan DEF FlowInv, LowInv
  <2>3. CfbOK' /\ stmts' = stmts /\ cfb' = cfb /\ isVoid' = isVoid
    BY <2>1, <2>2, SameCfb DEF source, sema
  <2>4. phase' = "lower" => LeadOK(preds, cur, alive, tasks)'
    BY <2>2, <2>3, <1>0, <1>4, AcceptLeads, LeadCarried
  <2> QED
    BY <2>1, <2>2, <2>3, <2>4 DEF FlowInv, NoCriticalEdges
<1>5. CASE BuildStep
  <2>1. phase = "lower" /\ phase' = "lower" /\ UNCHANGED <<source, sema>>
    BY <1>5, BuildSteps
  <2>2. NextLead /\ UNCHANGED scan
    BY <1>5, LeadSteps
  <2>3. Unscanned' /\ CfbOK
    BY <2>1, <2>2, SameScan DEF FlowInv
  <2>4. CfbOK' /\ stmts' = stmts /\ cfb' = cfb /\ isVoid' = isVoid
    BY <2>1, <2>3, SameCfb DEF source, sema
  <2>5. LeadOK(preds, cur, alive, tasks)'
    BY <2>2, <2>4, LeadCarried
  <2> QED
    BY <2>1, <2>3, <2>4, <2>5 DEF FlowInv, NoCriticalEdges
<1>6. CASE LateStep
  <2>1. CASE FinishMethod
    <3>1. phase = "lower" /\ phase' = "scan"
      BY <2>1 DEF FinishMethod
    <3>2. LowerOK(preds, code, mature, cur, tasks) /\ LeadOK(preds, cur, alive, tasks) /\ Unscanned
      BY <3>1 DEF LowInv, FlowInv
    <3>3. ScanOK'
      BY <3>2, <2>1, FinishLeads
    <3> QED
      BY <3>1, <3>3 DEF FlowInv, NoCriticalEdges
  <2>2. CASE Scan
    <3>1. phase = "scan" /\ phase' = "scan"
      BY <2>2 DEF Scan
    <3>2. ScanOK'
      BY <3>1, <2>2, ScanStep DEF FlowInv
    <3> QED
      BY <3>1, <3>2 DEF FlowInv, NoCriticalEdges
  <2>3. CASE ScanDone
    <3>1. phase = "scan" /\ phase' = "split"
      BY <2>3 DEF ScanDone
    <3>2. SplitOK'
      BY <3>1, <2>3, ScanDoneStep DEF FlowInv
    <3> QED
      BY <3>1, <3>2 DEF FlowInv, NoCriticalEdges
  <2>4. CASE \E b \in DOMAIN preds : SplitBlock(b)
    <3>1. PICK b \in DOMAIN preds : SplitBlock(b)
      BY <2>4
    <3>2. phase = "split" /\ phase' = "split"
      BY <3>1 DEF SplitBlock
    <3>3. SplitOK
      BY <3>2 DEF FlowInv
    <3>4. b \in 1..Len(preds)
      BY <3>3 DEF SplitOK, FlowOK
    <3>5. SplitOK'
      BY <3>1, <3>3, <3>4, SplitStep
    <3> QED
      BY <3>2, <3>5 DEF FlowInv, NoCriticalEdges
  <2>5. CASE Run
    <3>1. phase = "split" /\ phase' = "run" /\ preds' = preds /\ \A b \in DOMAIN numBlockPreds : numBlockPreds[b] <= 1
      BY <2>5 DEF Run, blocks
    <3>2. NoneCritical
      BY <3>1, AllSplit DEF FlowInv
    <3>3. NoneCritical'
      BY <3>1, <3>2, SameGraph
    <3> QED
      BY <3>1, <3>3 DEF FlowInv, NoCriticalEdges, NoneCritical
  <2>6. CASE MoveStmts \/ MoveGraph \/ \E v \in BOOLEAN : Agree(v)
    <3>1. phase = "run" /\ phase' \in {"run", "done"} /\ preds' = preds
      BY <2>6 DEF MoveStmts, MoveGraph, Agree, blocks
    <3>2. NoneCritical
      BY <3>1 DEF FlowInv, NoCriticalEdges, NoneCritical
    <3>3. NoneCritical'
      BY <3>1, <3>2, SameGraph
    <3> QED
      BY <3>1, <3>3 DEF FlowInv, NoCriticalEdges, NoneCritical
  <2> QED
    BY <1>6, <2>1, <2>2, <2>3, <2>4, <2>5, <2>6 DEF LateStep
<1>7. CASE UNCHANGED vars
  <2>1. /\ UNCHANGED <<source, sema, scan>> /\ phase' = phase /\ preds' = preds /\ cur' = cur /\ alive' = alive
        /\ tasks' = tasks
    BY <1>7 DEF vars, blocks
  <2>2. stmts' = stmts /\ cfb' = cfb /\ isVoid' = isVoid
    BY <2>1 DEF source, sema
  <2>3. /\ newBlocks' = newBlocks /\ numBlockPreds' = numBlockPreds /\ numBlockSuccs' = numBlockSuccs
    BY <2>1 DEF scan
  <2>4. CfbOK => CfbOK'
    BY <2>1, SameCfb
  <2>5. LeadOK(preds, cur, alive, tasks) => LeadOK(preds, cur, alive, tasks)'
    BY <2>1, <2>2, LeadCarried DEF NextLead
  <2>6. ScanOK => ScanOK'
    BY <2>1, <2>3, SameQueue
  <2>7. SplitOK => SplitOK'
    BY <2>1, <2>3, SameSplit
  <2>8. NoneCritical => NoneCritical'
    BY <2>1, SameGraph
  <2>9. Unscanned => Unscanned'
    BY <2>1, SameScan
  <2> QED
    BY <2>1, <2>4, <2>5, <2>6, <2>7, <2>8, <2>9 DEF FlowInv, NoCriticalEdges, NoneCritical
<1> QED
  BY <1>1, <1>2, <1>3, <1>4, <1>5, <1>6, <1>7, StepsAre

(* After remove_critical_edges (firm_visitor.cpp:42-94) no block with two   *)
(* ways out leads to a block with two ways in, for statements nested in any *)
(* way: the search backwards from the end block and from the blocks that    *)
(* keep_alive holds (926) meets every block that has a predecessor, so the  *)
(* counts that decide which edges are split are those of the whole graph.   *)
THEOREM NoCritical == Spec => []NoCriticalEdges
<1>1. LowInv /\ FlowInv => NoCriticalEdges
  BY DEF FlowInv
<1>2. Spec => [](LowInv /\ FlowInv)
  BY InvAtTheStart, InvStep, FlowAtTheStart, FlowStep, PTL DEF Spec
<1> QED
  BY <1>1, <1>2, PTL
=============================================================================
