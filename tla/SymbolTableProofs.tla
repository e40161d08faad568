------------------------- MODULE SymbolTableProofs -------------------------
(***************************************************************************)
(* Proofs about SymbolTable.tla, for any symbols, definitions, addresses   *)
(* and any length of the undo log.                                         *)
(***************************************************************************)
EXTENDS SymbolTable, SequenceTheorems, WellFoundedInduction, TLAPS

(* The scopes partition the undo log: their starting points grow towards   *)
(* the innermost scope and none lies beyond the end of the log.            *)
LogPartitioned ==
  /\ \A n \in 1..Len(scopes) : scopes[n].oldSize <= Len(changes)
  /\ \A m, n \in 1..Len(scopes) : m <= n => scopes[m].oldSize <= scopes[n].oldSize
  /\ pc = "leaving" => scopes # <<>>

(* No two live scopes share an address: the allocator hands out the        *)
(* address of a live object to nobody.                                     *)
AddrsDistinct ==
  \A m, n \in 1..Len(scopes) : scopes[m].addr = scopes[n].addr => m = n

(* Change j is the last of the first k changes that inserted s, and it was *)
(* made in scope n.                                                        *)
LastInsert(j, n, k, s) ==
  /\ j \in 1..k
  /\ n \in 0..Len(scopes)
  /\ changes[j].sym = s
  /\ \A i \in (j + 1)..k : changes[i].sym # s
  /\ SegStart(n) < j
  /\ n < Len(scopes) => j <= scopes[n + 1].oldSize

AddrOf(n) == IF n = 0 THEN NullScope ELSE scopes[n].addr

(* The pair (d, a) is right for symbol s after the first k changes: both   *)
(* null if none of them inserted s, otherwise a definition and the scope   *)
(* in which the last of them was made.                                     *)
Bound(k, s, d, a) ==
  \/ d = NullDef /\ a = NullScope /\ \A j \in 1..k : changes[j].sym # s
  \/ d \in Defs /\ \E n \in 0..Len(scopes), j \in 1..k : LastInsert(j, n, k, s) /\ a = AddrOf(n)

(* The pair a symbol caches is right for the whole log, the pair a Change  *)
(* saved is right for the log before it.                                   *)
BindingsExact ==
  /\ \A s \in Symbols : Bound(Len(changes), s, currentDef[s], currentScope[s])
  /\ \A k \in 1..Len(changes) :
       Bound(k - 1, changes[k].sym, changes[k].prevDef, changes[k].prevScope)

IInv == TypeOK /\ LogPartitioned /\ AddrsDistinct /\ BindingsExact

LEMMA InitIInv == Init => IInv
<1> SUFFICES ASSUME Init PROVE IInv
  OBVIOUS
<1> USE DEF Init
<1>1. TypeOK
  BY DEF TypeOK
<1>2. LogPartitioned
  BY DEF LogPartitioned
<1>3. AddrsDistinct
  BY DEF AddrsDistinct
<1>4. BindingsExact
  BY DEF BindingsExact, Bound
<1> QED
  BY <1>1, <1>2, <1>3, <1>4 DEF IInv

LEMMA AppendFacts ==
  ASSUME NEW S, NEW q \in Seq(S), NEW e \in S
  PROVE  /\ Append(q, e) \in Seq(S)
         /\ Len(Append(q, e)) = Len(q) + 1
         /\ \A i \in 1..Len(q) : Append(q, e)[i] = q[i]
         /\ Append(q, e)[Len(q) + 1] = e
  OBVIOUS

LEMMA FrontFacts ==
  ASSUME NEW S, NEW q \in Seq(S), Len(q) > 0
  PROVE  /\ SubSeq(q, 1, Len(q) - 1) \in Seq(S)
         /\ Len(SubSeq(q, 1, Len(q) - 1)) = Len(q) - 1
         /\ \A i \in 1..(Len(q) - 1) : SubSeq(q, 1, Len(q) - 1)[i] = q[i]
<1>1. Len(q) \in Nat /\ \A i \in 1..(Len(q) - 1) : q[i] \in S
  OBVIOUS
<1> QED
  <2>1. 1 \in Int /\ Len(q) - 1 \in Int
    BY <1>1
  <2>2. /\ SubSeq(q, 1, Len(q) - 1) \in Seq(S)
        /\ Len(SubSeq(q, 1, Len(q) - 1)) = IF 1 <= Len(q) - 1 THEN Len(q) - 1 - 1 + 1 ELSE 0
        /\ \A i \in 1..(Len(q) - 1 - 1 + 1) : SubSeq(q, 1, Len(q) - 1)[i] = q[1 + i - 1]
    BY <1>1, <2>1, SubSeqProperties
  <2>3. Len(q) - 1 - 1 + 1 = Len(q) - 1 /\ \A i \in 1..(Len(q) - 1) : 1 + i - 1 = i
    BY <1>1
  <2>4. Len(SubSeq(q, 1, Len(q) - 1)) = Len(q) - 1
    <3> DEFINE l == Len(SubSeq(q, 1, Len(q) - 1))
               m == Len(q)
    <3>1. l = (IF 1 <= m - 1 THEN m - 1 - 1 + 1 ELSE 0) /\ m \in Nat /\ m > 0
      BY <1>1, <2>2
    <3> HIDE DEF l, m
    <3>2. l = m - 1
      BY <3>1
    <3> QED
      BY <3>2 DEF l, m
  <2>5. ASSUME NEW i \in 1..(Len(q) - 1) PROVE SubSeq(q, 1, Len(q) - 1)[i] = q[i]
    BY <2>2, <2>3
  <2> QED
    BY <2>2, <2>4, <2>5

(* The fields of the records that the log and the scope chain hold. *)
LEMMA FieldTypes ==
  ASSUME TypeOK
  PROVE  /\ Len(changes) \in Nat /\ Len(scopes) \in Nat
         /\ scopes # <<>> <=> Len(scopes) > 0
         /\ \A n \in 1..Len(scopes) : scopes[n].addr \in Addrs /\ scopes[n].oldSize \in Nat
         /\ \A k \in 1..Len(changes) :
               /\ changes[k] \in Change
               /\ changes[k].sym \in Symbols
               /\ changes[k].prevDef \in Defs \cup {NullDef}
               /\ changes[k].prevScope \in Addrs \cup {NullScope}
<1>1. /\ Len(changes) \in Nat /\ Len(scopes) \in Nat
      /\ scopes # <<>> <=> Len(scopes) > 0
      /\ \A n \in 1..Len(scopes) : scopes[n] \in Scope
      /\ \A k \in 1..Len(changes) : changes[k] \in Change
  BY DEF TypeOK
<1>2. \A c \in Scope : c.addr \in Addrs /\ c.oldSize \in Nat
  BY DEF Scope
<1>3. \A c \in Change : /\ c.sym \in Symbols /\ c.prevDef \in Defs \cup {NullDef}
                        /\ c.prevScope \in Addrs \cup {NullScope}
  BY DEF Change
<1> QED
  BY <1>1, <1>2, <1>3

(* What each action does to the log and to the chain, element by element. *)
LEMMA EnterEffect ==
  ASSUME TypeOK, EnterScope
  PROVE  \E a \in Addrs \ LiveAddrs :
           /\ scopes' \in Seq(Scope) /\ Len(scopes') = Len(scopes) + 1
           /\ \A n \in 1..Len(scopes) : scopes'[n] = scopes[n]
           /\ scopes'[Len(scopes) + 1].addr = a
           /\ scopes'[Len(scopes) + 1].oldSize = Len(changes)
<1>1. PICK a \in Addrs \ LiveAddrs : scopes' = Append(scopes, [addr |-> a, oldSize |-> Len(changes)])
  BY DEF EnterScope
<1> DEFINE e == [addr |-> a, oldSize |-> Len(changes)]
<1>2. e \in Scope /\ e.addr = a /\ e.oldSize = Len(changes)
  BY FieldTypes DEF Scope
<1>3. scopes \in Seq(Scope) /\ scopes' = Append(scopes, e)
  BY <1>1 DEF TypeOK
<1> HIDE DEF e
<1> QED
  BY <1>2, <1>3, AppendFacts

LEMMA InsertEffect ==
  ASSUME TypeOK, NEW s \in Symbols, NEW d \in Defs, Insert(s, d)
  PROVE  /\ changes' \in Seq(Change) /\ Len(changes') = Len(changes) + 1
         /\ \A k \in 1..Len(changes) : changes'[k] = changes[k]
         /\ changes'[Len(changes) + 1].sym = s
         /\ changes'[Len(changes) + 1].prevDef = currentDef[s]
         /\ changes'[Len(changes) + 1].prevScope = currentScope[s]
<1> DEFINE e == [sym |-> s, prevDef |-> currentDef[s], prevScope |-> currentScope[s]]
<1>1. /\ e \in Change /\ e.sym = s
      /\ e.prevDef = currentDef[s] /\ e.prevScope = currentScope[s]
  BY DEF TypeOK, Change
<1>2. changes \in Seq(Change) /\ changes' = Append(changes, e)
  BY DEF Insert, TypeOK
<1> HIDE DEF e
<1> QED
  BY <1>1, <1>2, AppendFacts

LEMMA PopEffect ==
  ASSUME TypeOK, LogPartitioned, PopChange
  PROVE  /\ changes' \in Seq(Change) /\ Len(changes) > 0 /\ Len(changes') = Len(changes) - 1
         /\ \A k \in 1..(Len(changes) - 1) : changes'[k] = changes[k]
<1>1. Len(changes) > 0
  BY FieldTypes DEF PopChange, LogPartitioned
<1> QED
  BY <1>1, FrontFacts DEF PopChange, TypeOK

LEMMA FreeEffect ==
  ASSUME TypeOK, LogPartitioned, FreeScope
  PROVE  /\ scopes' \in Seq(Scope) /\ Len(scopes) > 0 /\ Len(scopes') = Len(scopes) - 1
         /\ \A n \in 1..(Len(scopes) - 1) : scopes'[n] = scopes[n]
<1>1. Len(scopes) > 0
  BY FieldTypes DEF FreeScope, LogPartitioned
<1> QED
  BY <1>1, FrontFacts DEF FreeScope, TypeOK

LEMMA TypePreserved == TypeOK /\ LogPartitioned /\ [Next]_vars => TypeOK'
<1> SUFFICES ASSUME TypeOK, LogPartitioned, [Next]_vars PROVE TypeOK'
  OBVIOUS
<1>1. CASE EnterScope
  BY <1>1, EnterEffect DEF EnterScope, TypeOK
<1>2. ASSUME NEW s \in Symbols, NEW d \in Defs, Insert(s, d) PROVE TypeOK'
  <2>1. ScopePtr \in Addrs \cup {NullScope}
    BY FieldTypes DEF ScopePtr
  <2>2. currentDef' \in [Symbols -> Defs \cup {NullDef}]
    BY <1>2 DEF Insert, TypeOK
  <2>3. currentScope' \in [Symbols -> Addrs \cup {NullScope}]
    BY <1>2, <2>1 DEF Insert, TypeOK
  <2> QED
    BY <1>2, <2>2, <2>3, InsertEffect DEF Insert, TypeOK
<1>3. CASE LeaveScope
  BY <1>3 DEF LeaveScope, TypeOK
<1>4. CASE PopChange
  <2> DEFINE c == changes[Len(changes)]
  <2>1. /\ c.sym \in Symbols /\ c.prevDef \in Defs \cup {NullDef}
        /\ c.prevScope \in Addrs \cup {NullScope}
    BY <1>4, PopEffect, FieldTypes
  <2>2. currentDef' \in [Symbols -> Defs \cup {NullDef}]
    BY <1>4, <2>1 DEF PopChange, TypeOK
  <2>3. currentScope' \in [Symbols -> Addrs \cup {NullScope}]
    BY <1>4, <2>1 DEF PopChange, TypeOK
  <2> QED
    BY <1>4, <2>2, <2>3, PopEffect DEF PopChange, TypeOK
<1>5. CASE FreeScope
  BY <1>5, FreeEffect DEF FreeScope, TypeOK
<1>6. CASE UNCHANGED vars
  BY <1>6 DEF vars, TypeOK
<1> QED
  BY <1>1, <1>2, <1>3, <1>4, <1>5, <1>6 DEF Next

LEMMA PartitionPreserved == TypeOK /\ LogPartitioned /\ [Next]_vars => LogPartitioned'
<1> SUFFICES ASSUME TypeOK, LogPartitioned, [Next]_vars PROVE LogPartitioned'
  OBVIOUS
<1> USE FieldTypes
<1>1. CASE EnterScope
  BY <1>1, EnterEffect DEF EnterScope, LogPartitioned
<1>2. ASSUME NEW s \in Symbols, NEW d \in Defs, Insert(s, d) PROVE LogPartitioned'
  BY <1>2, InsertEffect DEF Insert, LogPartitioned
<1>3. CASE LeaveScope
  BY <1>3 DEF LeaveScope, LogPartitioned
<1>4. CASE PopChange
  <2>1. \A n \in 1..Len(scopes) : scopes[n].oldSize <= scopes[Len(scopes)].oldSize
    BY <1>4 DEF PopChange, LogPartitioned
  <2>2. \A n \in 1..Len(scopes) : scopes[n].oldSize <= Len(changes) - 1
    BY <1>4, <2>1 DEF PopChange, LogPartitioned
  <2> QED
    BY <1>4, <2>2, PopEffect DEF PopChange, LogPartitioned
<1>5. CASE FreeScope
  BY <1>5, FreeEffect, SMTT(60) DEF FreeScope, LogPartitioned
<1>6. CASE UNCHANGED vars
  BY <1>6 DEF vars, LogPartitioned
<1> QED
  BY <1>1, <1>2, <1>3, <1>4, <1>5, <1>6 DEF Next

LEMMA DistinctPreserved ==
  TypeOK /\ LogPartitioned /\ AddrsDistinct /\ [Next]_vars => AddrsDistinct'
<1> SUFFICES ASSUME TypeOK, LogPartitioned, AddrsDistinct, [Next]_vars PROVE AddrsDistinct'
  OBVIOUS
<1> USE FieldTypes
<1>1. CASE EnterScope
  <2>1. \A n \in 1..Len(scopes) : scopes[n].addr \in LiveAddrs
    BY DEF LiveAddrs
  <2> QED
    BY <1>1, <2>1, EnterEffect DEF AddrsDistinct
<1>2. CASE FreeScope
  BY <1>2, FreeEffect, SMTT(60) DEF AddrsDistinct
<1>3. CASE scopes' = scopes
  BY <1>3 DEF AddrsDistinct
<1> QED
  BY <1>1, <1>2, <1>3 DEF Next, vars, Insert, LeaveScope, PopChange

(* Whether a pair is right for the first k changes depends on these        *)
(* changes and on the scopes they were made in, and on nothing else.       *)
LEMMA BoundFrame ==
  ASSUME TypeOK, TypeOK', NEW k \in 0..Len(changes), NEW s, NEW d, NEW a,
         \A j \in 1..k : changes'[j] = changes[j],
         \A j \in 1..k, n \in 0..Len(scopes) :
           LastInsert(j, n, k, s) => LastInsert(j, n, k, s)' /\ AddrOf(n)' = AddrOf(n),
         Bound(k, s, d, a)
  PROVE  Bound(k, s, d, a)'
<1>1. CASE d = NullDef /\ a = NullScope /\ \A j \in 1..k : changes[j].sym # s
  BY <1>1 DEF Bound
<1>2. ASSUME NEW n \in 0..Len(scopes), NEW j \in 1..k, d \in Defs,
             LastInsert(j, n, k, s), a = AddrOf(n)
      PROVE  Bound(k, s, d, a)'
  <2>1. LastInsert(j, n, k, s)' /\ AddrOf(n)' = AddrOf(n)
    BY <1>2
  <2>2. n \in 0..Len(scopes')
    BY <2>1 DEF LastInsert
  <2> QED
    BY <1>2, <2>1, <2>2 DEF Bound
<1> QED
  BY <1>1, <1>2 DEF Bound

(* A change to another symbol leaves the pair of s right. *)
Skippable ==
  \A k \in 1..Len(changes) : \A s, d, a :
    changes[k].sym # s => (Bound(k - 1, s, d, a) <=> Bound(k, s, d, a))

LEMMA BoundSkip == TypeOK => Skippable
<1> SUFFICES ASSUME TypeOK, NEW k \in 1..Len(changes), NEW s, NEW d, NEW a, changes[k].sym # s
             PROVE  Bound(k - 1, s, d, a) <=> Bound(k, s, d, a)
  BY DEF Skippable
<1>1. \A j \in 1..k : changes[j].sym = s => j \in 1..(k - 1)
  OBVIOUS
<1>2. (\A j \in 1..(k - 1) : changes[j].sym # s) <=> (\A j \in 1..k : changes[j].sym # s)
  BY <1>1
<1>3. ASSUME NEW n, NEW j \in 1..k
      PROVE  LastInsert(j, n, k - 1, s) <=> LastInsert(j, n, k, s)
  <2>1. changes[j].sym = s => (j \in 1..(k - 1) <=> j \in 1..k)
    BY <1>1
  <2>2. (\A i \in (j + 1)..(k - 1) : changes[i].sym # s) <=>
        (\A i \in (j + 1)..k : changes[i].sym # s)
    OBVIOUS
  <2> QED
    BY <2>1, <2>2 DEF LastInsert
<1>4. ASSUME NEW n, NEW j \in 1..k, LastInsert(j, n, k, s) PROVE j \in 1..(k - 1)
  BY <1>1, <1>4 DEF LastInsert
<1>5. \A j \in 1..(k - 1) : j \in 1..k
  OBVIOUS
<1> QED
  BY <1>2, <1>3, <1>4, <1>5 DEF Bound

LEMMA BindingsPreserved == IInv /\ [Next]_vars => BindingsExact'
<1> SUFFICES ASSUME TypeOK, LogPartitioned, BindingsExact, [Next]_vars PROVE BindingsExact'
  BY DEF IInv
<1>0. TypeOK'
  BY TypePreserved
<1> USE FieldTypes
<1>1. CASE EnterScope
  <2>1. changes' = changes /\ currentScope' = currentScope /\ currentDef' = currentDef
    BY <1>1 DEF EnterScope
  <2>2. ASSUME NEW k \in 0..Len(changes), NEW s, NEW d, NEW a, Bound(k, s, d, a)
        PROVE  Bound(k, s, d, a)'
    <3>1. ASSUME NEW j \in 1..k, NEW n \in 0..Len(scopes), LastInsert(j, n, k, s)
          PROVE  LastInsert(j, n, k, s)' /\ AddrOf(n)' = AddrOf(n)
      <4>1. /\ n \in 0..Len(scopes') /\ SegStart(n)' = SegStart(n) /\ AddrOf(n)' = AddrOf(n)
            /\ n = Len(scopes) => scopes'[n + 1].oldSize = Len(changes)
            /\ n < Len(scopes) => scopes'[n + 1] = scopes[n + 1]
        BY <1>1, EnterEffect, SMTT(60) DEF SegStart, AddrOf
      <4> QED
        BY <2>1, <3>1, <4>1 DEF LastInsert
    <3> QED
      BY <1>0, <2>1, <2>2, <3>1, BoundFrame
  <2> QED
    BY <2>1, <2>2 DEF BindingsExact
<1>2. ASSUME NEW s \in Symbols, NEW d \in Defs, Insert(s, d) PROVE BindingsExact'
  <2>0. PICK L \in Nat : L = Len(changes)
    OBVIOUS
  <2>9. PICK N \in Nat : N = Len(scopes)
    OBVIOUS
  <2>1. /\ scopes' = scopes /\ currentScope'[s] = ScopePtr /\ currentDef'[s] = d
        /\ \A t \in Symbols : t # s => /\ currentScope'[t] = currentScope[t]
                                       /\ currentDef'[t] = currentDef[t]
    BY <1>2 DEF Insert, TypeOK
  <2>2. /\ Len(changes') = L + 1 /\ \A k \in 1..L : changes'[k] = changes[k]
        /\ changes'[L + 1].sym = s /\ changes'[L + 1].prevDef = currentDef[s]
        /\ changes'[L + 1].prevScope = currentScope[s]
    BY <2>0, <1>2, InsertEffect
  <2>3. ASSUME NEW k \in 0..L, NEW t, NEW e, NEW a, Bound(k, t, e, a)
        PROVE  Bound(k, t, e, a)'
    <3>1. ASSUME NEW j \in 1..k, NEW n \in 0..Len(scopes), LastInsert(j, n, k, t)
          PROVE  LastInsert(j, n, k, t)' /\ AddrOf(n)' = AddrOf(n)
      BY <2>0, <2>1, <2>2, <3>1 DEF LastInsert, SegStart, AddrOf
    <3> QED
      BY <1>0, <2>0, <2>2, <2>3, <3>1, BoundFrame
  <2>4. Bound(L + 1, s, d, ScopePtr)'
    <3>1. SegStart(N)' < L + 1
      BY <2>0, <2>9, <2>1 DEF SegStart, LogPartitioned
    <3>2. LastInsert(L + 1, N, L + 1, s)'
      BY <2>0, <2>9, <2>1, <2>2, <3>1 DEF LastInsert
    <3>3. ScopePtr' = AddrOf(N)'
      BY <2>9, <2>1 DEF ScopePtr, AddrOf
    <3>4. N \in 0..Len(scopes') /\ L + 1 \in 1..(L + 1)
      BY <2>0, <2>9, <2>1
    <3> QED
      BY <3>2, <3>3, <3>4, <2>1 DEF Bound
  <2>5. ASSUME NEW t \in Symbols
        PROVE  Bound(Len(changes), t, currentDef[t], currentScope[t])'
    <3>1. CASE t = s
      BY <2>1, <2>2, <2>4, <3>1 DEF ScopePtr
    <3>2. CASE t # s
      <4>1. Bound(L, t, currentDef[t], currentScope[t])'
        BY <2>0, <2>1, <2>3, <3>2 DEF BindingsExact
      <4>2. changes'[L + 1].sym # t /\ L + 1 \in 1..Len(changes') /\ L + 1 - 1 = L
        BY <2>2, <3>2
      <4>3. (TypeOK => Skippable)'
        BY BoundSkip, PTL
      <4> QED
        BY <1>0, <2>2, <4>1, <4>2, <4>3 DEF Skippable
    <3> QED
      BY <3>1, <3>2
  <2>6. ASSUME NEW k \in 1..Len(changes')
        PROVE  Bound(k - 1, changes[k].sym, changes[k].prevDef, changes[k].prevScope)'
    <3>1. CASE k = L + 1
      BY <2>0, <2>2, <2>3, <3>1 DEF BindingsExact
    <3>2. CASE k \in 1..L
      BY <2>0, <2>2, <2>3, <3>2 DEF BindingsExact
    <3> QED
      BY <2>2, <3>1, <3>2
  <2> QED
    BY <2>5, <2>6 DEF BindingsExact
<1>3. CASE LeaveScope
  BY <1>3 DEF LeaveScope, BindingsExact, Bound, LastInsert, SegStart, AddrOf
<1>4. CASE PopChange
  <2> DEFINE L == Len(changes)
             c == changes[L]
  <2>1. /\ L \in Nat /\ L > 0 /\ scopes' = scopes /\ Len(changes') = L - 1
        /\ \A k \in 1..(L - 1) : changes'[k] = changes[k]
        /\ c.sym \in Symbols /\ currentScope'[c.sym] = c.prevScope
        /\ currentDef'[c.sym] = c.prevDef
        /\ \A t \in Symbols : t # c.sym => /\ currentScope'[t] = currentScope[t]
                                           /\ currentDef'[t] = currentDef[t]
    BY <1>4, PopEffect DEF PopChange, TypeOK
  <2>2. ASSUME NEW k \in 0..(L - 1), NEW t, NEW e, NEW a, Bound(k, t, e, a)
        PROVE  Bound(k, t, e, a)'
    <3>1. ASSUME NEW j \in 1..k, NEW n \in 0..Len(scopes), LastInsert(j, n, k, t)
          PROVE  LastInsert(j, n, k, t)' /\ AddrOf(n)' = AddrOf(n)
      BY <2>1, <3>1 DEF LastInsert, SegStart, AddrOf
    <3>2. k \in 0..Len(changes) /\ \A j \in 1..k : changes'[j] = changes[j]
      BY <2>1
    <3> QED
      BY <1>0, <2>2, <3>1, <3>2, BoundFrame
  <2>3. ASSUME NEW t \in Symbols
        PROVE  Bound(L - 1, t, currentDef'[t], currentScope'[t])
    <3>1. CASE t = c.sym
      BY <2>1, <3>1 DEF BindingsExact
    <3>2. CASE t # c.sym
      <4>1. Bound(L, t, currentDef[t], currentScope[t]) /\ L \in 1..Len(changes)
        BY <2>1 DEF BindingsExact
      <4> QED
        BY <2>1, <3>2, <4>1, BoundSkip DEF Skippable
    <3> QED
      BY <3>1, <3>2
  <2>4. ASSUME NEW t \in Symbols
        PROVE  Bound(Len(changes), t, currentDef[t], currentScope[t])'
    BY <2>1, <2>2, <2>3
  <2>5. ASSUME NEW k \in 1..Len(changes')
        PROVE  Bound(k - 1, changes[k].sym, changes[k].prevDef, changes[k].prevScope)'
    BY <2>1, <2>2 DEF BindingsExact
  <2> QED
    BY <2>4, <2>5 DEF BindingsExact
<1>5. CASE FreeScope
  <2> DEFINE N == Len(scopes)
  <2>1. /\ N \in Nat /\ N > 0 /\ Len(scopes') = N - 1
        /\ changes' = changes /\ currentScope' = currentScope /\ currentDef' = currentDef
        /\ \A n \in 1..(N - 1) : scopes'[n] = scopes[n]
        /\ Len(changes) <= scopes[N].oldSize
    BY <1>5, FreeEffect DEF FreeScope
  <2>2. ASSUME NEW k \in 0..Len(changes), NEW t, NEW e, NEW a, Bound(k, t, e, a)
        PROVE  Bound(k, t, e, a)'
    <3>1. ASSUME NEW j \in 1..k, NEW n \in 0..Len(scopes), LastInsert(j, n, k, t)
          PROVE  LastInsert(j, n, k, t)' /\ AddrOf(n)' = AddrOf(n)
      <4>1. n # N
        BY <2>1, <3>1 DEF LastInsert, SegStart
      <4>2. n \in 0..(N - 1) /\ n < N /\ (n < N - 1 => n + 1 \in 1..(N - 1))
        BY <2>1, <4>1
      <4>3. SegStart(n)' = SegStart(n) /\ AddrOf(n)' = AddrOf(n)
        BY <2>1, <4>2 DEF SegStart, AddrOf
      <4>4. n < Len(scopes') => j <= scopes'[n + 1].oldSize
        BY <2>1, <3>1, <4>2 DEF LastInsert
      <4> QED
        BY <2>1, <3>1, <4>2, <4>3, <4>4 DEF LastInsert
    <3> QED
      BY <1>0, <2>1, <2>2, <3>1, BoundFrame
  <2> QED
    BY <2>1, <2>2, SMTT(60) DEF BindingsExact
<1>6. CASE UNCHANGED vars
  BY <1>6 DEF vars, BindingsExact, Bound, LastInsert, SegStart, AddrOf
<1> QED
  BY <1>1, <1>2, <1>3, <1>4, <1>5, <1>6 DEF Next

LEMMA SpecIInv == Spec => []IInv
<1>1. IInv /\ [Next]_vars => IInv'
  BY TypePreserved, PartitionPreserved, DistinctPreserved, BindingsPreserved DEF IInv
<1> QED
  BY InitIInv, <1>1, PTL DEF Spec

(* Every cached pair, every Change and every Scope of symboltable.hpp has   *)
(* its type in every reachable state: no pop runs on an empty log or chain. *)
THEOREM TypeCorrect == Spec => []TypeOK
  BY SpecIInv, PTL DEF IInv

(* The pointer comparison of isDefinedInCurrentScope() (symboltable.cpp:53) *)
(* is safe from address reuse: no symbol and no Change ever refers to a     *)
(* freed Scope, however scopes are nested and names are redeclared.         *)
THEOREM NoDangling == Spec => []NoDanglingScope
<1>1. IInv => NoDanglingScope
  <2> SUFFICES ASSUME IInv PROVE NoDanglingScope
    OBVIOUS
  <2>1. ASSUME NEW k, NEW s, NEW d, NEW a, Bound(k, s, d, a)
        PROVE  a \in LiveAddrs \cup {NullScope}
    BY <2>1, FieldTypes DEF IInv, Bound, AddrOf, LiveAddrs
  <2> QED
    BY <2>1 DEF IInv, BindingsExact, NoDanglingScope
<1> QED
  BY SpecIInv, <1>1, PTL
-----------------------------------------------------------------------------
LEMMA LeastNat ==
  ASSUME NEW T, T \subseteq Nat, T # {}
  PROVE  \E x \in T : \A y \in T : x <= y
<1>1. PICK R : (\A x, y \in Nat : y < x => <<y, x>> \in R) /\ IsWellFoundedOn(R, Nat)
  <2>1. \A x, y \in Nat : y < x => <<y, x>> \in OpToRel(<, Nat)
    BY DEF OpToRel
  <2> QED
    BY <2>1, NatLessThanWellFounded, Zenon
<1>2. PICK x \in T : \A y \in T : ~(<<y, x>> \in R)
  BY <1>1, WFMin
<1>3. ASSUME NEW y \in T PROVE ~(y < x)
  BY <1>1, <1>2, Zenon
<1>4. ASSUME NEW y \in T PROVE x <= y
  <2>1. x \in Nat /\ y \in Nat
    OBVIOUS
  <2> QED
    BY <1>3, <2>1
<1> QED
  BY <1>4

(* IsNextChange and DefAt for a log q and definitions c given as arguments, *)
(* so that the logs before and after a step can be compared.               *)
NextIn(q, i, k, s) == /\ i \in (k + 1)..Len(q)
                      /\ q[i].sym = s
                      /\ \A j \in (k + 1)..(i - 1) : q[j].sym # s
DefIn(q, c, k, s) == IF \E i \in 1..Len(q) : NextIn(q, i, k, s)
                     THEN q[CHOOSE i \in 1..Len(q) : NextIn(q, i, k, s)].prevDef
                     ELSE c[s]

LEMMA DefAtIsDefIn ==
  ASSUME NEW k, NEW s
  PROVE  /\ DefAt(k, s) = DefIn(changes, currentDef, k, s)
         /\ DefAt(k, s)' = DefIn(changes', currentDef', k, s)
  BY DEF DefAt, DefIn, IsNextChange, NextIn

(* If the log changes s after its first k entries, it does so a first time. *)
LEMMA NextExists ==
  ASSUME NEW q, Len(q) \in Nat, NEW k \in Nat, NEW s,
         NEW j \in (k + 1)..Len(q), q[j].sym = s
  PROVE  \E i \in 1..Len(q) : NextIn(q, i, k, s)
<1> DEFINE T == {i \in (k + 1)..Len(q) : q[i].sym = s}
<1>1. T \subseteq Nat /\ j \in T
  OBVIOUS
<1>2. PICK i \in T : \A h \in T : i <= h
  BY <1>1, LeastNat
<1>3. i \in (k + 1)..Len(q) /\ q[i].sym = s /\ i \in 1..Len(q)
  OBVIOUS
<1>4. ASSUME NEW h \in (k + 1)..(i - 1) PROVE q[h].sym # s
  BY <1>2, <1>3
<1> QED
  BY <1>3, <1>4 DEF NextIn

LEMMA NextUnique ==
  ASSUME NEW q, Len(q) \in Nat, NEW k \in Nat, NEW s, NEW c,
         NEW i \in 1..Len(q), NextIn(q, i, k, s)
  PROVE  DefIn(q, c, k, s) = q[i].prevDef
<1>1. ASSUME NEW j \in 1..Len(q), NextIn(q, j, k, s) PROVE j = i
  BY <1>1 DEF NextIn
<1>2. (CHOOSE j \in 1..Len(q) : NextIn(q, j, k, s)) = i
  BY <1>1
<1> QED
  BY <1>2 DEF DefIn

LEMMA NoNext ==
  ASSUME NEW q, Len(q) \in Nat, NEW k \in Nat, NEW s, NEW c,
         \A j \in (k + 1)..Len(q) : q[j].sym # s
  PROVE  DefIn(q, c, k, s) = c[s]
<1>1. ~ \E i \in 1..Len(q) : NextIn(q, i, k, s)
  BY DEF NextIn
<1> QED
  BY <1>1 DEF DefIn

(* One more change, which saves the definition it overwrites, leaves what  *)
(* every symbol meant at every earlier length as it was.                   *)
OneMore(q, c, r, d) ==
  /\ Len(q) \in Nat /\ Len(r) = Len(q) + 1
  /\ \A j \in 1..Len(q) : r[j] = q[j]
  /\ r[Len(r)].prevDef = c[r[Len(r)].sym]
  /\ \A t \in Symbols : t # r[Len(r)].sym => d[t] = c[t]

LEMMA DefInPush ==
  ASSUME NEW q, NEW c, NEW r, NEW d, OneMore(q, c, r, d), NEW k \in 0..Len(q), NEW s \in Symbols
  PROVE  DefIn(r, d, k, s) = DefIn(q, c, k, s)
<1> USE DEF OneMore
<1>1. CASE \E i \in 1..Len(q) : NextIn(q, i, k, s)
  <2>1. PICK i \in 1..Len(q) : NextIn(q, i, k, s)
    BY <1>1
  <2>2. i \in 1..Len(r) /\ r[i] = q[i] /\ NextIn(r, i, k, s)
    BY <2>1 DEF NextIn
  <2>3. DefIn(q, c, k, s) = q[i].prevDef
    BY <2>1, NextUnique
  <2>4. DefIn(r, d, k, s) = r[i].prevDef
    BY <2>2, NextUnique
  <2> QED
    BY <2>2, <2>3, <2>4
<1>2. CASE ~ \E i \in 1..Len(q) : NextIn(q, i, k, s)
  <2>1. \A j \in (k + 1)..Len(q) : q[j].sym # s
    BY <1>2, NextExists
  <2>2. DefIn(q, c, k, s) = c[s]
    BY <2>1, NoNext
  <2>3. CASE r[Len(r)].sym = s
    <3>1. Len(r) \in 1..Len(r) /\ NextIn(r, Len(r), k, s)
      BY <2>1, <2>3 DEF NextIn
    <3>2. DefIn(r, d, k, s) = r[Len(r)].prevDef
      BY <3>1, NextUnique
    <3> QED
      BY <2>2, <2>3, <3>2
  <2>4. CASE r[Len(r)].sym # s
    <3>1. \A j \in (k + 1)..Len(r) : r[j].sym # s
      BY <2>1, <2>4
    <3>2. DefIn(r, d, k, s) = d[s]
      BY <3>1, NoNext
    <3> QED
      BY <2>2, <2>4, <3>2
  <2> QED
    BY <2>3, <2>4
<1> QED
  BY <1>1, <1>2
-----------------------------------------------------------------------------
(* The segments of the log: where a scope's changes start and end. *)
LEMMA Segments ==
  ASSUME TypeOK, LogPartitioned
  PROVE  /\ \A n \in 0..Len(scopes) : /\ SegStart(n) \in Nat /\ SegEnd(n) \in Nat
                                      /\ SegStart(n) <= SegEnd(n)
                                      /\ SegEnd(n) <= Len(changes)
         /\ \A m, n \in 0..Len(scopes) : m < n => SegEnd(m) <= SegStart(n)
<1> USE FieldTypes
<1>1. ASSUME NEW n \in 0..Len(scopes)
      PROVE  /\ SegStart(n) \in Nat /\ SegEnd(n) \in Nat
             /\ SegStart(n) <= SegEnd(n) /\ SegEnd(n) <= Len(changes)
  BY DEF SegStart, SegEnd, LogPartitioned
<1>2. ASSUME NEW m \in 0..Len(scopes), NEW n \in 0..Len(scopes), m < n
      PROVE  SegEnd(m) <= SegStart(n)
  <2>1. m + 1 \in 1..Len(scopes) /\ n \in 1..Len(scopes) /\ m + 1 <= n /\ m < Len(scopes)
    BY <1>2
  <2> QED
    BY <2>1 DEF SegStart, SegEnd, LogPartitioned
<1> QED
  BY <1>1, <1>2

(* A symbol that the first k changes inserted had a definition then. *)
LEMMA DefinedAt ==
  ASSUME IInv, NEW k \in 0..Len(changes), NEW s \in Symbols,
         NEW j \in 1..k, changes[j].sym = s
  PROVE  DefAt(k, s) \in Defs
<1> USE FieldTypes DEF IInv
<1>0. Len(changes) \in Nat /\ k \in Nat
  OBVIOUS
<1>1. ASSUME NEW m \in Nat, m >= k, NEW d, NEW a, Bound(m, s, d, a) PROVE d \in Defs
  <2>1. j \in 1..m
    BY <1>1
  <2> QED
    BY <1>1, <2>1 DEF Bound
<1>2. CASE \E i \in 1..Len(changes) : NextIn(changes, i, k, s)
  <2>1. PICK i \in 1..Len(changes) : NextIn(changes, i, k, s)
    BY <1>2
  <2>2. DefAt(k, s) = changes[i].prevDef
    BY <1>0, <2>1, NextUnique, DefAtIsDefIn
  <2>3. i - 1 \in Nat /\ i - 1 >= k /\ changes[i].sym = s
    BY <2>1 DEF NextIn
  <2> QED
    BY <1>1, <2>2, <2>3 DEF BindingsExact
<1>3. CASE ~ \E i \in 1..Len(changes) : NextIn(changes, i, k, s)
  <2>1. DefAt(k, s) = currentDef[s]
    BY <1>3, DefAtIsDefIn DEF DefIn
  <2> QED
    BY <1>0, <1>1, <2>1 DEF BindingsExact
<1> QED
  BY <1>2, <1>3

(* A frame declares exactly the symbols its scope's changes inserted. *)
LEMMA FrameValue ==
  ASSUME IInv, NEW n \in 0..Len(scopes), NEW s \in Symbols
  PROVE  /\ ~ChangedIn(n, s) => Frame(n)[s] = NullDef
         /\ ChangedIn(n, s) => Frame(n)[s] = DefAt(SegEnd(n), s) /\ Frame(n)[s] \in Defs
<1>1. Frame(n)[s] = IF ChangedIn(n, s) THEN DefAt(SegEnd(n), s) ELSE NullDef
  BY DEF Frame
<1>2. ASSUME ChangedIn(n, s) PROVE DefAt(SegEnd(n), s) \in Defs
  <2>1. PICK j \in (SegStart(n) + 1)..SegEnd(n) : changes[j].sym = s
    BY <1>2 DEF ChangedIn
  <2>2. SegEnd(n) \in 0..Len(changes) /\ j \in 1..SegEnd(n)
    BY Segments, FieldTypes DEF IInv
  <2> QED
    BY <2>1, <2>2, DefinedAt
<1> QED
  BY <1>1, <1>2

LEMMA FramesFacts ==
  ASSUME IInv
  PROVE  /\ Depth \in Nat /\ Len(Frames) = Depth + 1
         /\ \A i \in 1..(Depth + 1) : Frames[i] = Frame(i - 1)
<1>1. Depth \in Nat
  BY FieldTypes DEF IInv, Depth, LogPartitioned
<1> QED
  BY <1>1 DEF Frames

LEMMA MeansInnermost ==
  ASSUME IInv, pc = "ready", NEW s \in Symbols
  PROVE  Env!Means(s, currentDef[s])
<1> DEFINE N == Len(scopes)
           d == currentDef[s]
<1>0. /\ N \in Nat /\ Len(changes) \in Nat /\ Len(Frames) = N + 1
      /\ \A i \in 1..(N + 1) : Frames[i] = Frame(i - 1) /\ i - 1 \in 0..N
  BY FramesFacts, FieldTypes DEF IInv, Depth
<1>1. Bound(Len(changes), s, d, currentScope[s])
  BY DEF IInv, BindingsExact
<1>2. ASSUME \A j \in 1..Len(changes) : changes[j].sym # s
      PROVE  \A i \in 1..(N + 1) : Frames[i][s] = NullDef
  <2>1. ASSUME NEW n \in 0..N PROVE ~ChangedIn(n, s)
    BY <1>2, Segments, FieldTypes DEF ChangedIn, IInv
  <2> QED
    BY <1>0, <2>1, FrameValue
<1>3. ASSUME NEW n \in 0..N, NEW j \in 1..Len(changes), d \in Defs,
             LastInsert(j, n, Len(changes), s)
      PROVE  \E i \in 1..(N + 1) : /\ Frames[i][s] = d /\ d # NullDef
                                   /\ \A h \in (i + 1)..(N + 1) : Frames[h][s] = NullDef
  <2>1. /\ changes[j].sym = s /\ SegStart(n) < j /\ j <= SegEnd(n)
        /\ \A i \in (j + 1)..Len(changes) : changes[i].sym # s
    BY <1>3 DEF LastInsert, SegEnd
  <2>2. SegStart(n) \in Nat /\ SegEnd(n) \in Nat /\ SegEnd(n) <= Len(changes)
    BY Segments DEF IInv
  <2>3. ChangedIn(n, s)
    BY <2>1, <2>2 DEF ChangedIn
  <2>4. DefAt(SegEnd(n), s) = d
    <3>1. \A i \in (SegEnd(n) + 1)..Len(changes) : changes[i].sym # s
      BY <1>0, <2>1, <2>2
    <3> QED
      BY <1>0, <2>2, <3>1, NoNext, DefAtIsDefIn
  <2>5. ASSUME NEW m \in 0..N, n < m PROVE ~ChangedIn(m, s)
    <3>1. j <= SegStart(m) /\ SegStart(m) \in Nat /\ SegEnd(m) \in Nat /\ SegEnd(m) <= Len(changes)
      BY <2>1, <2>2, <2>5, Segments DEF IInv
    <3> QED
      BY <1>0, <2>1, <3>1 DEF ChangedIn
  <2>6. n + 1 \in 1..(N + 1) /\ Frames[n + 1][s] = d /\ d # NullDef
    BY <1>0, <1>3, <2>3, <2>4, FrameValue, NullsAssumption
  <2>7. ASSUME NEW h \in (n + 1 + 1)..(N + 1) PROVE Frames[h][s] = NullDef
    <3>1. h - 1 \in 0..N /\ n < h - 1 /\ h \in 1..(N + 1)
      BY <1>0
    <3> QED
      BY <1>0, <2>5, <3>1, FrameValue
  <2> QED
    BY <2>6, <2>7
<1> QED
  BY <1>0, <1>1, <1>2, <1>3 DEF Bound, Env!Means

LEMMA DefinedHere ==
  ASSUME IInv, pc = "ready", scopes # <<>>, NEW s \in Symbols
  PROVE  isDefinedInCurrentScope(s) <=> Env!DeclaredHere(s)
<1> DEFINE N == Len(scopes)
<1>0. /\ N \in Nat /\ N > 0 /\ Len(changes) \in Nat /\ Len(Frames) = N + 1
      /\ N \in 0..N /\ Frames[N + 1] = Frame(N) /\ ScopePtr = scopes[N].addr
      /\ scopes[N].addr \in Addrs
  BY FramesFacts, FieldTypes DEF IInv, Depth, ScopePtr
<1>1. Env!DeclaredHere(s) <=> ChangedIn(N, s)
  BY <1>0, FrameValue, NullsAssumption DEF Env!DeclaredHere
<1>2. Bound(Len(changes), s, currentDef[s], currentScope[s])
  BY DEF IInv, BindingsExact
<1>3. /\ SegStart(N) \in Nat /\ SegEnd(N) = Len(changes)
      /\ \A n \in 0..N : n < N => SegEnd(n) \in Nat /\ SegEnd(n) <= SegStart(N)
  BY <1>0, Segments DEF IInv, SegEnd
<1>4. CASE currentScope[s] = NullScope /\ \A j \in 1..Len(changes) : changes[j].sym # s
  <2>1. ~ChangedIn(N, s)
    BY <1>3, <1>4 DEF ChangedIn
  <2> QED
    BY <1>0, <1>1, <1>4, <2>1, NullsAssumption DEF isDefinedInCurrentScope
<1>5. ASSUME NEW n \in 0..N, NEW j \in 1..Len(changes),
             LastInsert(j, n, Len(changes), s), currentScope[s] = AddrOf(n)
      PROVE  isDefinedInCurrentScope(s) <=> ChangedIn(N, s)
  <2>1. /\ changes[j].sym = s /\ SegStart(n) < j /\ j <= SegEnd(n)
        /\ \A i \in (j + 1)..Len(changes) : changes[i].sym # s
    BY <1>5 DEF LastInsert, SegEnd
  <2>2. CASE n = N
    <3>1. ChangedIn(N, s)
      BY <1>3, <2>1, <2>2 DEF ChangedIn
    <3>2. currentScope[s] = ScopePtr
      BY <1>0, <1>5, <2>2 DEF AddrOf
    <3> QED
      BY <3>1, <3>2 DEF isDefinedInCurrentScope
  <2>3. CASE n # N
    <3>1. j <= SegStart(N)
      BY <1>0, <1>3, <2>1, <2>3
    <3>2. ~ChangedIn(N, s)
      BY <1>3, <2>1, <3>1 DEF ChangedIn
    <3>3. currentScope[s] # ScopePtr
      BY <1>0, <1>5, <2>3, FieldTypes, NullsAssumption DEF AddrOf, AddrsDistinct, IInv
    <3> QED
      BY <3>2, <3>3 DEF isDefinedInCurrentScope
  <2> QED
    BY <2>2, <2>3
<1> QED
  BY <1>1, <1>2, <1>4, <1>5 DEF Bound

(* The two queries of symboltable.cpp:48-54 answer what the nested scopes    *)
(* say, in every state in which the semantic analysis can ask them.         *)
THEOREM QueriesCorrect == Spec => []QueriesAgree
<1>1. IInv => QueriesAgree
  BY MeansInnermost, DefinedHere DEF QueriesAgree, lookup
<1> QED
  BY SpecIInv, <1>1, PTL
-----------------------------------------------------------------------------
(* What a step does to what symbols meant at earlier lengths of the log. *)
LEMMA DefAtInsert ==
  ASSUME TypeOK, NEW s \in Symbols, NEW d \in Defs, Insert(s, d),
         NEW k \in 0..Len(changes), NEW t \in Symbols
  PROVE  DefAt(k, t)' = DefAt(k, t)
<1>1. /\ Len(changes) \in Nat /\ Len(changes') = Len(changes) + 1
      /\ \A j \in 1..Len(changes) : changes'[j] = changes[j]
      /\ changes'[Len(changes')].prevDef = currentDef[changes'[Len(changes')].sym]
      /\ \A u \in Symbols : u # changes'[Len(changes')].sym => currentDef'[u] = currentDef[u]
  BY InsertEffect, FieldTypes DEF Insert, TypeOK
<1>2. PICK q, r, c, e : q = changes /\ r = changes' /\ c = currentDef /\ e = currentDef'
  OBVIOUS
<1>3. OneMore(q, c, r, e) /\ k \in 0..Len(q)
  BY <1>1, <1>2 DEF OneMore
<1>4. DefIn(r, e, k, t) = DefIn(q, c, k, t)
  BY <1>3, DefInPush
<1> QED
  BY <1>2, <1>4, DefAtIsDefIn

LEMMA DefAtPop ==
  ASSUME TypeOK, LogPartitioned, PopChange, NEW k \in 0..(Len(changes) - 1), NEW t \in Symbols
  PROVE  DefAt(k, t)' = DefAt(k, t)
<1>1. /\ Len(changes') \in Nat /\ Len(changes) = Len(changes') + 1
      /\ \A j \in 1..Len(changes') : changes[j] = changes'[j]
      /\ changes[Len(changes)].prevDef = currentDef'[changes[Len(changes)].sym]
      /\ \A u \in Symbols : u # changes[Len(changes)].sym => currentDef[u] = currentDef'[u]
  BY PopEffect, FieldTypes DEF PopChange, TypeOK
<1>2. PICK q, r, c, e : q = changes' /\ r = changes /\ c = currentDef' /\ e = currentDef
  OBVIOUS
<1>3. OneMore(q, c, r, e) /\ k \in 0..Len(q)
  BY <1>1, <1>2 DEF OneMore
<1>4. DefIn(r, e, k, t) = DefIn(q, c, k, t)
  BY <1>3, DefInPush
<1> QED
  BY <1>2, <1>4, DefAtIsDefIn

(* A frame stays as it is while its segment of the log and the meanings at *)
(* the segment's end stay as they are.                                     *)
LEMMA FrameKept ==
  ASSUME IInv, NEW n \in 0..Len(scopes),
         SegStart(n)' = SegStart(n), SegEnd(n)' = SegEnd(n),
         \A k \in 1..SegEnd(n) : changes'[k] = changes[k],
         \A k \in Nat : k = SegEnd(n) => \A t \in Symbols : DefAt(k, t)' = DefAt(k, t)
  PROVE  Frame(n)' = Frame(n)
<1>1. SegStart(n) \in Nat /\ SegEnd(n) \in Nat
  BY Segments DEF IInv
<1>2. PICK k \in Nat : k = SegEnd(n)
  BY <1>1
<1>3. ASSUME NEW t \in Symbols PROVE ChangedIn(n, t)' <=> ChangedIn(n, t)
  BY <1>1 DEF ChangedIn
<1>4. ASSUME NEW t \in Symbols PROVE DefAt(SegEnd(n), t)' = DefAt(SegEnd(n), t)
  <2>1. DefAt(SegEnd(n), t)' = DefAt(k, t)' /\ DefAt(SegEnd(n), t) = DefAt(k, t)
    BY <1>2 DEF DefAt, IsNextChange
  <2> QED
    BY <1>2, <2>1
<1> QED
  BY <1>3, <1>4 DEF Frame

FrameSet == [Symbols -> Defs \cup {NullDef}]

LEMMA FramesType ==
  IInv => /\ Frames \in Seq(FrameSet) /\ Depth \in Nat /\ Len(Frames) = Depth + 1
          /\ \A i \in 1..(Depth + 1) : Frames[i] = Frame(i - 1)
<1> SUFFICES ASSUME IInv PROVE Frames \in Seq(FrameSet)
  BY FramesFacts
<1>1. ASSUME NEW n \in 0..Len(scopes) PROVE Frame(n) \in FrameSet
  <2>1. ASSUME NEW s \in Symbols PROVE Frame(n)[s] \in Defs \cup {NullDef}
    BY FrameValue
  <2> QED
    BY <2>1 DEF Frame, FrameSet
<1>2. Depth \in Nat /\ \A i \in 1..(Depth + 1) : i - 1 \in 0..Len(scopes)
  BY FramesFacts, FieldTypes DEF Depth, IInv, LogPartitioned
<1> QED
  BY <1>1, <1>2 DEF Frames

(* The refinement step by step. *)
LEMMA RefineInit == Init => Env!Init
<1> SUFFICES ASSUME Init PROVE Env!Init
  OBVIOUS
<1>1. Depth = 0 /\ Len(changes) = 0 /\ Len(scopes) = 0
  BY DEF Init, Depth
<1>2. Frame(0) = Env!NoDecls
  <2>1. ASSUME NEW s \in Symbols PROVE ~ChangedIn(0, s)
    BY <1>1 DEF ChangedIn, SegStart, SegEnd
  <2> QED
    BY <2>1 DEF Frame, Env!NoDecls
<1>3. Frames = [i \in 1..1 |-> Frame(i - 1)]
  BY <1>1 DEF Frames
<1>4. Frames = [i \in 1..1 |-> Env!NoDecls]
  BY <1>2, <1>3
<1> QED
  BY <1>4 DEF Env!Init

LEMMA FramesKept ==
  ASSUME IInv, IInv', Depth' = Depth, \A n \in 0..Depth : Frame(n)' = Frame(n)
  PROVE  Frames' = Frames
<1>1. Depth \in Nat /\ \A i \in 1..(Depth + 1) : i - 1 \in 0..Depth
  BY FramesFacts
<1> QED
  BY <1>1 DEF Frames

LEMMA RefineEnter ==
  ASSUME IInv, IInv', EnterScope
  PROVE  Env!Enter
<1>0. PICK N \in Nat : N = Len(scopes)
  BY FieldTypes DEF IInv
<1>1. /\ changes' = changes /\ currentDef' = currentDef /\ Len(changes) \in Nat
      /\ Depth = N /\ Depth' = N + 1 /\ Len(scopes') = N + 1
      /\ \A n \in 1..N : scopes'[n] = scopes[n]
      /\ scopes'[N + 1].oldSize = Len(changes)
  BY <1>0, EnterEffect, FieldTypes DEF EnterScope, Depth, IInv
<1>2. ASSUME NEW n \in 0..N PROVE Frame(n)' = Frame(n)
  <2>1. SegStart(n)' = SegStart(n) /\ SegEnd(n)' = SegEnd(n)
    BY <1>0, <1>1 DEF SegStart, SegEnd
  <2>2. \A k \in Nat, t \in Symbols : DefAt(k, t)' = DefAt(k, t)
    BY <1>1, DefAtIsDefIn
  <2> QED
    BY <1>0, <1>1, <2>1, <2>2, FrameKept
<1>3. Frame(N + 1)' = Env!NoDecls
  <2>1. ASSUME NEW s \in Symbols PROVE ~ChangedIn(N + 1, s)'
    BY <1>1 DEF ChangedIn, SegStart, SegEnd
  <2> QED
    BY <2>1 DEF Frame, Env!NoDecls
<1>4. /\ Frames \in Seq(FrameSet) /\ Len(Frames) = N + 1
      /\ \A i \in 1..(N + 1) : Frames[i] = Frame(i - 1)
  BY <1>1, FramesType
<1>5. /\ Frames' \in Seq(FrameSet) /\ Len(Frames') = N + 2
      /\ \A i \in 1..(N + 2) : Frames'[i] = Frame(i - 1)'
  <2>1. (IInv => /\ Frames \in Seq(FrameSet) /\ Depth \in Nat /\ Len(Frames) = Depth + 1
                 /\ \A i \in 1..(Depth + 1) : Frames[i] = Frame(i - 1))'
    BY FramesType, PTL
  <2> QED
    BY <1>1, <2>1
<1>6. Env!NoDecls \in FrameSet
  BY DEF Env!NoDecls, FrameSet
<1>7. /\ Append(Frames, Env!NoDecls) \in Seq(FrameSet)
      /\ Len(Append(Frames, Env!NoDecls)) = N + 2
      /\ \A i \in 1..(N + 1) : Append(Frames, Env!NoDecls)[i] = Frames[i]
      /\ Append(Frames, Env!NoDecls)[N + 2] = Env!NoDecls
  <2>1. /\ Append(Frames, Env!NoDecls) \in Seq(FrameSet)
        /\ Len(Append(Frames, Env!NoDecls)) = Len(Frames) + 1
        /\ \A i \in 1..Len(Frames) : Append(Frames, Env!NoDecls)[i] = Frames[i]
        /\ Append(Frames, Env!NoDecls)[Len(Frames) + 1] = Env!NoDecls
    BY <1>4, <1>6, AppendFacts
  <2> QED
    BY <1>4, <2>1
<1>8. ASSUME NEW i \in 1..(N + 2) PROVE Frames'[i] = Append(Frames, Env!NoDecls)[i]
  <2>1. CASE i = N + 2
    <3>1. i - 1 = N + 1
      BY <2>1
    <3> QED
      BY <1>3, <1>5, <1>7, <2>1, <3>1
  <2>2. CASE i \in 1..(N + 1)
    <3>1. i - 1 \in 0..N
      BY <2>2
    <3> QED
      BY <1>2, <1>4, <1>5, <1>7, <2>2, <3>1
  <2>3. i = N + 2 \/ i \in 1..(N + 1)
    OBVIOUS
  <2> QED
    BY <2>1, <2>2, <2>3, Zenon
<1>9. Frames' = Append(Frames, Env!NoDecls)
  BY <1>5, <1>7, <1>8, SeqEqual
<1> QED
  BY <1>9 DEF Env!Enter

LEMMA RefineLeave ==
  ASSUME IInv, IInv', LeaveScope
  PROVE  Env!Leave
<1>0. PICK N \in Nat : N = Len(scopes)
  BY FieldTypes DEF IInv
<1>1. /\ changes' = changes /\ currentDef' = currentDef /\ scopes' = scopes
      /\ Depth = N /\ N > 0 /\ Depth' = N - 1
  BY <1>0, FieldTypes DEF LeaveScope, Depth, IInv
<1>2. ASSUME NEW n PROVE Frame(n)' = Frame(n)
  BY <1>1 DEF Frame, ChangedIn, SegStart, SegEnd, DefAt, IsNextChange
<1>4. /\ Frames \in Seq(FrameSet) /\ Len(Frames) = N + 1
      /\ \A i \in 1..(N + 1) : Frames[i] = Frame(i - 1)
  BY <1>1, FramesType
<1>5. /\ Frames' \in Seq(FrameSet) /\ Len(Frames') = N
      /\ \A i \in 1..N : Frames'[i] = Frame(i - 1)'
  <2>1. (IInv => /\ Frames \in Seq(FrameSet) /\ Depth \in Nat /\ Len(Frames) = Depth + 1
                 /\ \A i \in 1..(Depth + 1) : Frames[i] = Frame(i - 1))'
    BY FramesType, PTL
  <2> QED
    BY <1>1, <2>1
<1>6. /\ SubSeq(Frames, 1, Len(Frames) - 1) \in Seq(FrameSet)
      /\ Len(SubSeq(Frames, 1, Len(Frames) - 1)) = Len(Frames) - 1
      /\ \A i \in 1..(Len(Frames) - 1) : SubSeq(Frames, 1, Len(Frames) - 1)[i] = Frames[i]
  <2>1. Len(Frames) > 0
    BY <1>4
  <2> QED
    BY <1>4, <2>1, FrontFacts
<1>7. Frames' = SubSeq(Frames, 1, Len(Frames) - 1)
  <2> DEFINE F == SubSeq(Frames, 1, Len(Frames) - 1)
  <2>1. F \in Seq(FrameSet) /\ Len(F) = N /\ \A i \in 1..N : F[i] = Frames[i]
    BY <1>4, <1>6
  <2> HIDE DEF F
  <2>2. \A i \in 1..N : Frames'[i] = F[i]
    BY <1>2, <1>4, <1>5, <2>1
  <2>3. Frames' = F
    BY <1>5, <2>1, <2>2, SeqEqual
  <2> QED
    BY <2>3 DEF F
<1> QED
  BY <1>1, <1>4, <1>7 DEF Env!Leave

LEMMA RefineInsert ==
  ASSUME IInv, IInv', NEW s \in Symbols, NEW d \in Defs, Insert(s, d)
  PROVE  Env!Declare(s, d)
<1>0. PICK N \in Nat, L \in Nat : N = Len(scopes) /\ L = Len(changes)
  BY FieldTypes DEF IInv
<1>1. /\ Depth = N /\ Depth' = N /\ scopes' = scopes
      /\ Len(changes') = L + 1 /\ changes'[L + 1].sym = s
      /\ \A k \in 1..L : changes'[k] = changes[k]
      /\ currentDef'[s] = d
      /\ \A t \in Symbols : t # s => currentDef'[t] = currentDef[t]
  BY <1>0, InsertEffect, FieldTypes DEF Insert, Depth, IInv, TypeOK
<1>2. ASSUME NEW n \in 0..N, n < N PROVE Frame(n)' = Frame(n)
  <2>1. /\ SegStart(n)' = SegStart(n) /\ SegEnd(n)' = SegEnd(n)
        /\ SegEnd(n) \in Nat /\ SegEnd(n) <= L
    BY <1>0, <1>1, <1>2, Segments DEF SegStart, SegEnd, IInv
  <2>2. \A k \in Nat : k = SegEnd(n) => \A t \in Symbols : DefAt(k, t)' = DefAt(k, t)
    BY <1>0, <2>1, DefAtInsert DEF IInv
  <2> QED
    BY <1>0, <1>1, <2>1, <2>2, FrameKept
<1>3. /\ SegStart(N)' = SegStart(N) /\ SegEnd(N)' = L + 1 /\ SegEnd(N) = L
      /\ SegStart(N) \in Nat /\ SegStart(N) <= L
  BY <1>0, <1>1, Segments DEF SegStart, SegEnd, IInv
<1>4. ASSUME NEW t \in Symbols, t # s PROVE Frame(N)'[t] = Frame(N)[t]
  <2>1. ChangedIn(N, t)' <=> ChangedIn(N, t)
    BY <1>1, <1>3, <1>4 DEF ChangedIn
  <2>2. DefAt(L, t) = currentDef[t]
    <3>1. \A j \in (L + 1)..Len(changes) : changes[j].sym # t
      BY <1>0
    <3> QED
      BY <1>0, <3>1, NoNext, DefAtIsDefIn
  <2>3. DefAt(L + 1, t)' = currentDef'[t]
    <3>1. Len(changes') \in Nat /\ \A j \in (L + 1 + 1)..Len(changes') : changes'[j].sym # t
      BY <1>1
    <3> QED
      BY <3>1, NoNext, DefAtIsDefIn
  <2>4. /\ Frame(N)[t] = IF ChangedIn(N, t) THEN DefAt(L, t) ELSE NullDef
        /\ Frame(N)'[t] = IF ChangedIn(N, t)' THEN DefAt(L + 1, t)' ELSE NullDef
    <3>1. DefAt(SegEnd(N), t)' = DefAt(L + 1, t)'
      BY <1>3 DEF DefAt, IsNextChange
    <3> QED
      BY <1>3, <3>1 DEF Frame
  <2> QED
    BY <1>1, <1>4, <2>1, <2>2, <2>3, <2>4
<1>5. Frame(N)'[s] = d
  <2>1. ChangedIn(N, s)'
    BY <1>1, <1>3 DEF ChangedIn
  <2>2. DefAt(L + 1, s)' = d
    <3>1. Len(changes') \in Nat /\ \A j \in (L + 1 + 1)..Len(changes') : changes'[j].sym # s
      BY <1>1
    <3> QED
      BY <1>1, <3>1, NoNext, DefAtIsDefIn
  <2>3. DefAt(SegEnd(N), s)' = DefAt(L + 1, s)'
    BY <1>3 DEF DefAt, IsNextChange
  <2> QED
    BY <2>1, <2>2, <2>3 DEF Frame
<1>6. Frame(N)' = [Frame(N) EXCEPT ![s] = d]
  <2>1. Frame(N)' = [t \in Symbols |-> Frame(N)'[t]] /\ Frame(N) = [t \in Symbols |-> Frame(N)[t]]
    BY DEF Frame
  <2> DEFINE f == Frame(N)
             g == Frame(N)'
  <2>2. /\ f = [t \in Symbols |-> f[t]] /\ g = [t \in Symbols |-> g[t]]
        /\ g[s] = d /\ \A t \in Symbols : t # s => g[t] = f[t]
    BY <1>4, <1>5, <2>1
  <2> HIDE DEF f, g
  <2>3. g = [f EXCEPT ![s] = d]
    BY <2>2
  <2> QED
    BY <2>3 DEF f, g
<1>7. /\ Len(Frames) = N + 1 /\ Frames = [i \in 1..(N + 1) |-> Frame(i - 1)]
      /\ Frames' = [i \in 1..(N + 1) |-> Frame(i - 1)']
  BY <1>1, FramesFacts DEF Frames
<1>8. ASSUME NEW i \in 1..(N + 1)
      PROVE  Frame(i - 1)' = [Frames EXCEPT ![N + 1] = [Frames[N + 1] EXCEPT ![s] = d]][i]
  <2>1. CASE i = N + 1
    <3>1. i - 1 = N /\ Frames[N + 1] = Frame(N)
      BY <1>7, <2>1
    <3> QED
      BY <1>6, <1>7, <2>1, <3>1
  <2>2. CASE i # N + 1
    <3>1. i - 1 \in 0..N /\ i - 1 < N
      BY <2>2
    <3> QED
      BY <1>2, <1>7, <2>2, <3>1
  <2> QED
    BY <2>1, <2>2
<1>9. Frames' = [Frames EXCEPT ![N + 1] = [Frames[N + 1] EXCEPT ![s] = d]]
  BY <1>7, <1>8
<1> QED
  BY <1>7, <1>9 DEF Env!Declare

LEMMA RefinePop ==
  ASSUME IInv, IInv', PopChange
  PROVE  Frames' = Frames
<1>0. PICK N \in Nat, L \in Nat : N = Len(scopes) /\ L = Len(changes)
  BY FieldTypes DEF IInv
<1>1. /\ N > 0 /\ Depth = N - 1 /\ Depth' = N - 1 /\ scopes' = scopes
      /\ \A k \in 1..(L - 1) : changes'[k] = changes[k]
      /\ scopes[N].oldSize \in Nat /\ scopes[N].oldSize < L
  BY <1>0, PopEffect, FieldTypes DEF PopChange, Depth, IInv, LogPartitioned
<1>2. ASSUME NEW n \in 0..(N - 1) PROVE Frame(n)' = Frame(n)
  <2>1. /\ SegStart(n)' = SegStart(n) /\ SegEnd(n)' = SegEnd(n)
        /\ SegEnd(n) \in Nat /\ SegEnd(n) <= L - 1
    <3>1. n \in 0..N /\ N \in 0..N /\ n < N /\ SegStart(N) = scopes[N].oldSize
      BY <1>1 DEF SegStart
    <3>2. SegEnd(n) \in Nat /\ SegEnd(n) <= SegStart(N)
      BY <1>0, <3>1, Segments DEF IInv
    <3> QED
      BY <1>0, <1>1, <3>1, <3>2 DEF SegStart, SegEnd
  <2>2. \A k \in Nat : k = SegEnd(n) => \A t \in Symbols : DefAt(k, t)' = DefAt(k, t)
    BY <1>0, <2>1, DefAtPop DEF IInv
  <2> QED
    BY <1>0, <1>1, <2>1, <2>2, FrameKept, SMTT(60)
<1> QED
  BY <1>1, <1>2, FramesKept

LEMMA RefineFree ==
  ASSUME IInv, IInv', FreeScope
  PROVE  Frames' = Frames
<1>0. PICK N \in Nat : N = Len(scopes)
  BY FieldTypes DEF IInv
<1>1. /\ N > 0 /\ Depth = N - 1 /\ Depth' = N - 1
      /\ changes' = changes /\ currentDef' = currentDef /\ Len(scopes') = N - 1
      /\ \A n \in 1..(N - 1) : scopes'[n] = scopes[n]
      /\ Len(changes) \in Nat /\ scopes[N].oldSize = Len(changes)
  BY <1>0, FreeEffect, FieldTypes DEF FreeScope, Depth, IInv, LogPartitioned
<1>2. ASSUME NEW n \in 0..(N - 1) PROVE Frame(n)' = Frame(n)
  <2>1. SegStart(n)' = SegStart(n) /\ SegEnd(n)' = SegEnd(n)
    <3>1. CASE n = N - 1
      BY <1>0, <1>1, <3>1 DEF SegStart, SegEnd
    <3>2. CASE n < N - 1
      <4>1. n + 1 \in 1..(N - 1)
        BY <3>2
      <4> QED
        BY <1>0, <1>1, <3>2, <4>1 DEF SegStart, SegEnd
    <3> QED
      BY <3>1, <3>2
  <2>2. \A k \in Nat, t \in Symbols : DefAt(k, t)' = DefAt(k, t)
    BY <1>1, DefAtIsDefIn
  <2> QED
    BY <1>0, <1>1, <2>1, <2>2, FrameKept
<1> QED
  BY <1>1, <1>2, FramesKept

(* enterScope(), insert() and leaveScope() with its undo loop implement     *)
(* lexically nested scopes: the undo log of symboltable.hpp:94-110 loses    *)
(* no outer declaration and resurrects no inner one, for any program.       *)
THEOREM ImplementsScopedEnv == Spec => RefinesScopedEnv
<1>1. IInv /\ IInv' /\ [Next]_vars => [Env!Next]_Frames
  <2> SUFFICES ASSUME IInv, IInv', [Next]_vars PROVE [Env!Next]_Frames
    OBVIOUS
  <2>1. CASE EnterScope
    BY <2>1, RefineEnter DEF Env!Next
  <2>2. ASSUME NEW s \in Symbols, NEW d \in Defs, Insert(s, d) PROVE Env!Next
    BY <2>2, RefineInsert DEF Env!Next
  <2>3. CASE LeaveScope
    BY <2>3, RefineLeave DEF Env!Next
  <2>4. CASE PopChange
    BY <2>4, RefinePop
  <2>5. CASE FreeScope
    BY <2>5, RefineFree
  <2>6. CASE UNCHANGED vars
    BY <2>6 DEF vars, Frames, Depth, Frame, ChangedIn, SegStart, SegEnd, DefAt, IsNextChange
  <2> QED
    BY <2>1, <2>2, <2>3, <2>4, <2>5, <2>6 DEF Next
<1> QED
  BY <1>1, RefineInit, SpecIInv, PTL DEF Spec, Env!Spec, RefinesScopedEnv
=============================================================================
