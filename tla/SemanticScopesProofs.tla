------------------------ MODULE SemanticScopesProofs ------------------------
(***************************************************************************)
(* Proofs about SemanticScopes.tla, for any names, fields, parameters,     *)
(* variables and blocks.                                                   *)
(***************************************************************************)
EXTENDS SemanticScopes, SymbolTableProofs, FiniteSetTheorems

Declaration == [sym : Symbols, def : Definitions, level : Nat]

TableCall == {enterScope, leaveScope} \cup {insert(s, d) : s \in Symbols, d \in Definitions}

VisitTypeOK ==
  /\ TypeOK /\ LogPartitioned
  /\ live \in Seq(Declaration) /\ calls \in Seq(TableCall)
  /\ nParams \in 0..MaxParams /\ currentLocalVarDeclNr \in 0..MaxLocals /\ blocks \in Nat
  /\ method \in {"none", "regular", "main"}

(* The calls that are left to make: none, maybe one enterScope and then     *)
(* (after e calls) one insert for each declaration that the table lacks,    *)
(* or as many leaveScopes as there are scopes to leave.                     *)
InsertsPending(e) ==
  /\ pc = "ready"
  /\ Len(changes) <= Len(live) /\ Len(calls) = e + (Len(live) - Len(changes))
  /\ e = 1 => calls[1] = enterScope
  /\ \A i \in 1..(Len(live) - Len(changes)) :
       calls[e + i] = insert(live[Len(changes) + i].sym, live[Len(changes) + i].def)
LeavesPending ==
  /\ Len(calls) >= 1 /\ Len(calls) <= Len(scopes)
  /\ \A i \in 1..Len(calls) : calls[i] = leaveScope
  /\ Len(live) = SegEnd(Len(scopes) - Len(calls))
Pending == InsertsPending(0) \/ InsertsPending(1) \/ LeavesPending

(* The number of scopes once the calls are made, and the number that the    *)
(* visitor has reason to expect.                                            *)
Height == IF calls = <<>> \/ calls[1].do = "insert" THEN Len(scopes)
          ELSE IF calls[1].do = "enter" THEN Len(scopes) + 1
          ELSE Len(scopes) - Len(calls)
Around == IF at = "program" THEN 0
          ELSE IF at \in {"class", "afterMain"} THEN 1
          ELSE blocks + (IF method = "regular" THEN 2 ELSE 1)
HeightExact ==
  /\ IF at = "error" THEN Ready ELSE Height = Around
  /\ at \in {"program", "class", "afterMain", "params", "body", "error"}
  /\ at = "params" => blocks = 0 /\ method # "none"
  /\ at = "body" => blocks >= 1 /\ method # "none"
  /\ at \in {"program", "class", "afterMain"} => blocks = 0
  /\ at = "program" => live = <<>>

(* A declaration is at level n or deeper iff it came after scope n began.   *)
Start(n) == IF n <= Len(scopes) THEN scopes[n].oldSize ELSE Len(changes)
LevelsExact ==
  \A k \in 1..Len(live) :
    /\ live[k].level >= 1 /\ live[k].level <= Height
    /\ \A n \in 1..Height : live[k].level >= n <=> k > Start(n)

(* d is what s means after the first k changes: nothing, or what the last   *)
(* declaration of s among them says, unless that one is being left.         *)
RightDef(k, s, d) ==
  \/ \E j \in 1..k : j > Len(live) /\ changes[j].sym = s
  \/ d = NullDef /\ \A j \in 1..k : changes[j].sym # s
  \/ \E j \in 1..k : /\ j <= Len(live) /\ changes[j].sym = s /\ d = live[j].def
                     /\ \A i \in (j + 1)..k : changes[i].sym # s
MeaningsExact ==
  /\ \A j \in 1..Len(changes) : j <= Len(live) => live[j].sym = changes[j].sym
  /\ \A s \in Symbols : RightDef(Len(changes), s, currentDef[s])
  /\ \A k \in 1..Len(changes) : RightDef(k - 1, changes[k].sym, changes[k].prevDef)

(* Variables and parameters that are in scope have been counted; outside    *)
(* methods there are only fields and the argument of main.                  *)
DeclsCounted ==
  \A k \in 1..Len(live) :
    LET d == live[k].def
    IN /\ d \in Locals => d[2] < currentLocalVarDeclNr
       /\ d \in Params => d[2] <= nParams /\ method = "regular"
       /\ live[k].level <= 1 => d \in Fields \cup {MainArg}
RefsUsable ==
  /\ ReferencesUsable
  /\ resolved # NoRef => at \in {"body", "error"}

VisitInv == /\ VisitTypeOK /\ Pending /\ HeightExact /\ LevelsExact /\ MeaningsExact
            /\ DeclsCounted /\ RefsUsable
-----------------------------------------------------------------------------
(*                               Types                                     *)

LEMMA TailFacts ==
  ASSUME NEW S, NEW q \in Seq(S), q # <<>>
  PROVE  /\ Len(q) \in Nat /\ Len(q) >= 1 /\ Head(q) = q[1] /\ q[1] \in S
         /\ Tail(q) \in Seq(S) /\ Len(Tail(q)) = Len(q) - 1
         /\ \A i \in 1..(Len(q) - 1) : Tail(q)[i] = q[i + 1]
  OBVIOUS

LEMMA LongNotEmpty == ASSUME NEW S, NEW q \in Seq(S), q # <<>> PROVE Len(q) \in Nat /\ Len(q) >= 1
  OBVIOUS

LEMMA LiveFacts ==
  ASSUME VisitTypeOK
  PROVE  /\ Len(live) \in Nat /\ Len(calls) \in Nat /\ Len(changes) \in Nat /\ Len(scopes) \in Nat
         /\ \A k \in 1..Len(live) : /\ live[k] \in Declaration
                                    /\ live[k].sym \in Symbols /\ live[k].def \in Definitions
                                    /\ live[k].level \in Nat
<1>1. \A k \in 1..Len(live) : live[k] \in Declaration
  BY DEF VisitTypeOK
<1>2. \A d \in Declaration : d.sym \in Symbols /\ d.def \in Definitions /\ d.level \in Nat
  BY DEF Declaration
<1>3. Len(live) \in Nat /\ Len(calls) \in Nat
  BY DEF VisitTypeOK
<1> QED
  BY <1>1, <1>2, <1>3, FieldTypes DEF VisitTypeOK

LEMMA CallKinds ==
  /\ enterScope.do = "enter" /\ leaveScope.do = "leave"
  /\ \A s, d : insert(s, d).do = "insert" /\ insert(s, d).sym = s /\ insert(s, d).def = d
  BY DEF enterScope, leaveScope, insert

LEMMA NextCall ==
  ASSUME VisitTypeOK, calls # <<>>
  PROVE  /\ Head(calls) = calls[1] /\ Len(calls) >= 1
         /\ InsertsPending(1) => calls[1].do = "enter"
         /\ InsertsPending(0) => calls[1].do = "insert"
         /\ LeavesPending => calls[1].do = "leave"
<1>1. Head(calls) = calls[1] /\ Len(calls) \in Nat /\ Len(calls) >= 1
  BY TailFacts DEF VisitTypeOK
<1>2. InsertsPending(1) => calls[1].do = "enter"
  BY CallKinds DEF InsertsPending
<1>3. InsertsPending(0) => calls[1].do = "insert"
  <2> SUFFICES ASSUME InsertsPending(0) PROVE calls[1].do = "insert"
    OBVIOUS
  <2>1. 1 \in 1..(Len(live) - Len(changes)) /\ 0 + 1 = 1
    BY <1>1, LiveFacts DEF InsertsPending
  <2>2. calls[1] = insert(live[Len(changes) + 1].sym, live[Len(changes) + 1].def)
    BY <2>1 DEF InsertsPending
  <2> QED
    BY <2>2, CallKinds
<1>4. LeavesPending => calls[1].do = "leave"
  BY <1>1, CallKinds DEF LeavesPending
<1> QED
  BY <1>1, <1>2, <1>3, <1>4

(* The next call tells which calls are left.                               *)
LEMMA PendingKind ==
  ASSUME VisitTypeOK, Pending, calls # <<>>
  PROVE  /\ Head(calls).do = "enter" => InsertsPending(1)
         /\ Head(calls).do = "insert" => InsertsPending(0)
         /\ Head(calls).do = "leave" => LeavesPending
  BY NextCall DEF Pending

(* The calls left to make after the next, when that one is enterScope, and  *)
(* all of them when it is insert, bring the table up to live.               *)
LEMMA InsertsLeft ==
  ASSUME VisitTypeOK, Pending, calls # <<>>, NEW C \in Nat, NEW K \in Nat,
         C = Len(changes), K = Len(calls)
  PROVE  /\ Head(calls).do = "enter" =>
              /\ InsertsPending(1) /\ pc = "ready" /\ Len(live) = C + (K - 1)
              /\ \A i \in 1..(K - 1) : calls[1 + i] = insert(live[C + i].sym, live[C + i].def)
         /\ Head(calls).do = "insert" =>
              /\ InsertsPending(0) /\ pc = "ready" /\ Len(live) = C + K
              /\ \A i \in 1..K : calls[i] = insert(live[C + i].sym, live[C + i].def)
<1>0. PICK L \in Nat : L = Len(live)
  BY LiveFacts
<1>1. ASSUME InsertsPending(1)
      PROVE  /\ pc = "ready" /\ L = C + (K - 1)
             /\ \A i \in 1..(K - 1) : calls[1 + i] = insert(live[C + i].sym, live[C + i].def)
  <2>1. C <= L /\ K = 1 + (L - C) /\ pc = "ready"
    BY <1>0, <1>1 DEF InsertsPending
  <2>2. L - C = K - 1 /\ L = C + (K - 1)
    BY <2>1
  <2>3. \A i \in 1..(L - C) : calls[1 + i] = insert(live[C + i].sym, live[C + i].def)
    BY <1>0, <1>1 DEF InsertsPending
  <2> QED
    BY <2>1, <2>2, <2>3
<1>2. ASSUME InsertsPending(0)
      PROVE  /\ pc = "ready" /\ L = C + K
             /\ \A i \in 1..K : calls[i] = insert(live[C + i].sym, live[C + i].def)
  <2>1. C <= L /\ K = 0 + (L - C) /\ pc = "ready"
    BY <1>0, <1>2 DEF InsertsPending
  <2>2. L - C = K /\ L = C + K /\ \A i \in 1..K : 0 + i = i
    BY <2>1
  <2>3. \A i \in 1..(L - C) : calls[0 + i] = insert(live[C + i].sym, live[C + i].def)
    BY <1>0, <1>2 DEF InsertsPending
  <2> QED
    BY <2>1, <2>2, <2>3
<1>3. /\ Head(calls).do = "enter" => InsertsPending(1)
      /\ Head(calls).do = "insert" => InsertsPending(0)
  BY PendingKind
<1> QED
  BY <1>0, <1>1, <1>2, <1>3

LEMMA HeightOf ==
  VisitTypeOK => /\ InsertsPending(0) => Height = Len(scopes)
                 /\ InsertsPending(1) => Height = Len(scopes) + 1
                 /\ LeavesPending => Height = Len(scopes) - Len(calls)
<1> SUFFICES ASSUME VisitTypeOK
             PROVE  /\ InsertsPending(0) => Height = Len(scopes)
                    /\ InsertsPending(1) => Height = Len(scopes) + 1
                    /\ LeavesPending => Height = Len(scopes) - Len(calls)
  OBVIOUS
<1>1. CASE calls = <<>>
  <2>1. Len(calls) = 0
    BY <1>1
  <2>2. ~InsertsPending(1) /\ ~LeavesPending
    BY <2>1, LiveFacts DEF InsertsPending, LeavesPending
  <2> QED
    BY <1>1, <2>2 DEF Height
<1>2. CASE calls # <<>>
  BY <1>2, NextCall DEF Height
<1> QED
  BY <1>1, <1>2

LEMMA ReadyFacts ==
  ASSUME VisitTypeOK, Pending, Ready
  PROVE  pc = "ready" /\ Len(live) = Len(changes) /\ Height = Len(scopes) /\ Len(calls) = 0
<1>1. Len(calls) = 0
  BY DEF Ready
<1>2. InsertsPending(0)
  BY <1>1 DEF Pending, InsertsPending, LeavesPending
<1> QED
  BY <1>1, <1>2, LiveFacts DEF Ready, Height, InsertsPending
-----------------------------------------------------------------------------
(*                       What a name means                                 *)

LEMMA RightFrame ==
  ASSUME NEW k \in Nat, NEW s, NEW d,
         Len(live) \in Nat, Len(live') \in Nat,
         \A j \in 1..k : /\ changes'[j].sym = changes[j].sym
                         /\ j <= Len(live') /\ j <= Len(live) => live'[j] = live[j]
                         /\ j > Len(live) => j > Len(live'),
         RightDef(k, s, d)
  PROVE  RightDef(k, s, d)'
<1>1. CASE \E j \in 1..k : j > Len(live) /\ changes[j].sym = s
  BY <1>1 DEF RightDef
<1>2. CASE d = NullDef /\ \A j \in 1..k : changes[j].sym # s
  BY <1>2 DEF RightDef
<1>3. ASSUME NEW j \in 1..k, j <= Len(live), changes[j].sym = s, d = live[j].def,
             \A i \in (j + 1)..k : changes[i].sym # s
      PROVE  RightDef(k, s, d)'
  <2>1. CASE j > Len(live')
    BY <1>3, <2>1 DEF RightDef
  <2>2. CASE j <= Len(live')
    <3>1. live'[j] = live[j] /\ \A i \in (j + 1)..k : changes'[i].sym # s
      BY <1>3, <2>2
    <3> QED
      BY <1>3, <2>2, <3>1 DEF RightDef
  <2> QED
    BY <2>1, <2>2
<1> QED
  BY <1>1, <1>2, <1>3 DEF RightDef

(* A change to another name does not change what s means.                  *)
RightSkippable == \A k \in Nat : \A s, d : changes[k + 1].sym # s => (RightDef(k, s, d) <=> RightDef(k + 1, s, d))

LEMMA RightSkip == RightSkippable
<1> SUFFICES ASSUME NEW k \in Nat, NEW s, NEW d, changes[k + 1].sym # s
             PROVE  RightDef(k, s, d) <=> RightDef(k + 1, s, d)
  BY DEF RightSkippable
<1>1. \A j \in 1..(k + 1) : changes[j].sym = s => j \in 1..k
  OBVIOUS
<1>2. \A j \in 1..k : j \in 1..(k + 1)
  OBVIOUS
<1>3. ASSUME NEW j \in 1..k
      PROVE (\A i \in (j + 1)..k : changes[i].sym # s) <=> (\A i \in (j + 1)..(k + 1) : changes[i].sym # s)
  OBVIOUS
<1> QED
  BY <1>1, <1>2, <1>3 DEF RightDef

(* The meanings stay right when declarations are taken off the end of live, *)
(* or added there, and the table stays as it is.                           *)
LEMMA MeaningsKept ==
  ASSUME VisitTypeOK, MeaningsExact, Len(live') \in Nat, UNCHANGED <<changes, currentDef>>,
         Len(live) = Len(changes) \/ live' = live,
         \A j \in 1..Len(changes) : j <= Len(live') /\ j <= Len(live) => live'[j] = live[j]
  PROVE  MeaningsExact'
<1> USE LiveFacts
<1>1. changes' = changes /\ currentDef' = currentDef
  OBVIOUS
<1>2. ASSUME NEW k \in Nat, k <= Len(changes), NEW s, NEW d, RightDef(k, s, d) PROVE RightDef(k, s, d)'
  <2>1. \A j \in 1..k : /\ changes'[j].sym = changes[j].sym
                        /\ j <= Len(live') /\ j <= Len(live) => live'[j] = live[j]
                        /\ j > Len(live) => j > Len(live')
    BY <1>1, <1>2
  <2> QED
    BY <1>2, <2>1, RightFrame
<1>3. \A j \in 1..Len(changes') : j <= Len(live') => live'[j].sym = changes'[j].sym
  BY <1>1 DEF MeaningsExact
<1>4. \A s \in Symbols : RightDef(Len(changes), s, currentDef[s])'
  BY <1>1, <1>2 DEF MeaningsExact
<1>5. ASSUME NEW k \in 1..Len(changes') PROVE RightDef(k - 1, changes[k].sym, changes[k].prevDef)'
  BY <1>1, <1>2 DEF MeaningsExact
<1> QED
  BY <1>3, <1>4, <1>5 DEF MeaningsExact
-----------------------------------------------------------------------------
(*                      The calls of the table                             *)

LEMMA LevelsKept ==
  ASSUME LevelsExact, live' = live, Height' = Height, \A n \in 1..Height : Start(n)' = Start(n)
  PROVE  LevelsExact'
  BY DEF LevelsExact

LEMMA StillTyped ==
  ASSUME VisitTypeOK, UNCHANGED visitor, TypeOK', LogPartitioned', calls' \in Seq(TableCall)
  PROVE  VisitTypeOK'
  BY DEF visitor, VisitTypeOK, Declaration

(* A call that leaves the height and the levels alone changes nothing that  *)
(* the visitor knows.                                                       *)
LEMMA CallKeeps ==
  ASSUME VisitInv, UNCHANGED visitor, calls # <<>>,
         TypeOK', LogPartitioned', calls' \in Seq(TableCall),
         Height' = Height, \A n \in 1..Height : Start(n)' = Start(n),
         Pending', MeaningsExact'
  PROVE  VisitInv'
<1>1. UNCHANGED <<at, method, nParams, currentLocalVarDeclNr, blocks, live, resolved>>
  BY DEF visitor
<1>2. VisitTypeOK'
  BY StillTyped DEF VisitInv
<1>3. at # "error"
  BY DEF VisitInv, HeightExact, Ready
<1>4. HeightExact'
  BY <1>1, <1>3 DEF VisitInv, HeightExact, Around
<1>5. LevelsExact'
  BY <1>1, LevelsKept DEF VisitInv
<1>6. DeclsCounted'
  BY <1>1 DEF VisitInv, DeclsCounted
<1>7. RefsUsable'
  BY <1>1 DEF VisitInv, RefsUsable, ReferencesUsable
<1> QED
  BY <1>2, <1>4, <1>5, <1>6, <1>7 DEF VisitInv

LEMMA EnterKeeps ==
  ASSUME VisitInv, UNCHANGED visitor, calls # <<>>,
         Head(calls).do = "enter", EnterScope, calls' = Tail(calls)
  PROVE  VisitInv'
<1>0. VisitTypeOK /\ Pending /\ MeaningsExact /\ TypeOK /\ LogPartitioned /\ calls \in Seq(TableCall)
  BY DEF VisitInv, VisitTypeOK
<1>1. TypeOK' /\ LogPartitioned'
  BY <1>0, TypePreserved, PartitionPreserved DEF Next
<1>2. PICK C \in Nat, N \in Nat, K \in Nat : C = Len(changes) /\ N = Len(scopes) /\ K = Len(calls)
  BY <1>0, LiveFacts
<1>3. /\ calls' \in Seq(TableCall) /\ Len(calls') = K - 1 /\ K >= 1
      /\ \A i \in 1..(K - 1) : calls'[i] = calls[i + 1]
  BY <1>0, <1>2, TailFacts
<1>4. /\ Len(scopes') = N + 1 /\ \A n \in 1..N : scopes'[n] = scopes[n]
      /\ scopes'[N + 1].oldSize = C
      /\ changes' = changes /\ currentDef' = currentDef /\ pc' = pc
  BY <1>0, <1>2, EnterEffect DEF EnterScope
<1>5. /\ pc = "ready" /\ Len(live) = C + (K - 1)
      /\ \A i \in 1..(K - 1) : calls[1 + i] = insert(live[C + i].sym, live[C + i].def)
  BY <1>0, <1>2, InsertsLeft
<1>6. live' = live
  BY DEF visitor
<1>7. \A i \in 1..(K - 1) : calls'[i] = insert(live[C + i].sym, live[C + i].def)
  <2>1. \A i \in 1..(K - 1) : i + 1 = 1 + i
    OBVIOUS
  <2> QED
    BY <1>3, <1>5, <2>1
<1>8. InsertsPending(0)'
  <2>1. \A i \in 1..(K - 1) : 0 + i = i
    OBVIOUS
  <2>2. Len(live') - Len(changes') = K - 1 /\ Len(changes') <= Len(live')
    BY <1>2, <1>3, <1>4, <1>5, <1>6
  <2> QED
    BY <1>2, <1>3, <1>4, <1>5, <1>6, <1>7, <2>1, <2>2 DEF InsertsPending
<1>9. Height = N + 1
  BY <1>0, <1>2, PendingKind, HeightOf
<1>10. Height' = N + 1
  <2>1. VisitTypeOK'
    BY <1>0, <1>1, <1>3, StillTyped
  <2>2. (VisitTypeOK /\ InsertsPending(0) => Height = Len(scopes))'
    BY HeightOf, PTL
  <2> QED
    BY <1>4, <1>8, <2>1, <2>2
<1>11. \A n \in 1..Height : Start(n)' = Start(n)
  BY <1>2, <1>4, <1>9 DEF Start
<1>12. MeaningsExact'
  BY <1>0, <1>4, <1>6, LiveFacts, MeaningsKept
<1> QED
  BY <1>1, <1>3, <1>8, <1>9, <1>10, <1>11, <1>12, CallKeeps DEF Pending

LEMMA InsertKeeps ==
  ASSUME VisitInv, UNCHANGED visitor, calls # <<>>,
         Head(calls).do = "insert", Insert(Head(calls).sym, Head(calls).def), calls' = Tail(calls)
  PROVE  VisitInv'
<1>0. VisitTypeOK /\ Pending /\ MeaningsExact /\ TypeOK /\ LogPartitioned /\ calls \in Seq(TableCall)
  BY DEF VisitInv, VisitTypeOK
<1>1. PICK C \in Nat, N \in Nat, K \in Nat : C = Len(changes) /\ N = Len(scopes) /\ K = Len(calls)
  BY <1>0, LiveFacts
<1>2. /\ calls' \in Seq(TableCall) /\ Len(calls') = K - 1 /\ K >= 1
      /\ \A i \in 1..(K - 1) : calls'[i] = calls[i + 1]
  BY <1>0, <1>1, TailFacts
<1>3. /\ pc = "ready" /\ Len(live) = C + K
      /\ \A i \in 1..K : calls[i] = insert(live[C + i].sym, live[C + i].def)
  BY <1>0, <1>1, InsertsLeft
<1>4. PICK s, d : s = live[C + 1].sym /\ d = live[C + 1].def
  OBVIOUS
<1>5. s \in Symbols /\ d \in Definitions /\ d \in Defs
  BY <1>0, <1>1, <1>2, <1>3, <1>4, LiveFacts, VisitorAssumption
<1>6. Insert(s, d)
  <2>1. Head(calls) = calls[1] /\ calls[1] = insert(s, d)
    BY <1>0, <1>1, <1>2, <1>3, <1>4, PendingKind
  <2>2. Head(calls).sym = s /\ Head(calls).def = d
    BY <2>1, CallKinds
  <2> QED
    BY <2>2
<1>7. TypeOK' /\ LogPartitioned'
  BY <1>0, <1>5, <1>6, TypePreserved, PartitionPreserved DEF Next
<1>8. /\ Len(changes') = C + 1 /\ \A k \in 1..C : changes'[k] = changes[k]
      /\ changes'[C + 1].sym = s /\ changes'[C + 1].prevDef = currentDef[s]
  BY <1>0, <1>1, <1>5, <1>6, InsertEffect
<1>9. /\ scopes' = scopes /\ pc' = pc /\ currentDef'[s] = d
      /\ \A t \in Symbols : t # s => currentDef'[t] = currentDef[t]
  BY <1>0, <1>5, <1>6 DEF Insert, TypeOK
<1>10. live' = live
  BY DEF visitor
<1>11. \A i \in 1..(K - 1) : calls'[i] = insert(live[C + 1 + i].sym, live[C + 1 + i].def)
  <2> SUFFICES ASSUME NEW i \in 1..(K - 1)
               PROVE calls'[i] = insert(live[C + 1 + i].sym, live[C + 1 + i].def)
    OBVIOUS
  <2>1. i + 1 \in 1..K /\ C + (i + 1) = C + 1 + i
    BY <1>1
  <2> QED
    BY <1>2, <1>3, <2>1
<1>12. InsertsPending(0)'
  <2>1. \A i \in 1..(K - 1) : 0 + i = i
    OBVIOUS
  <2>2. Len(live') - Len(changes') = K - 1 /\ Len(changes') <= Len(live')
    BY <1>1, <1>2, <1>3, <1>8, <1>10
  <2>3. \A i \in 1..(K - 1) :
          calls'[0 + i] = insert(live'[Len(changes') + i].sym, live'[Len(changes') + i].def)
    BY <1>8, <1>10, <1>11, <2>1
  <2>4. Len(calls') = 0 + (Len(live') - Len(changes'))
    BY <1>1, <1>2, <2>2
  <2> QED
    BY <1>3, <1>9, <2>2, <2>3, <2>4 DEF InsertsPending
<1>13. Height = N
  BY <1>0, <1>1, PendingKind, HeightOf
<1>14. Height' = N
  <2>1. VisitTypeOK'
    BY <1>0, <1>2, <1>7, StillTyped
  <2>2. (VisitTypeOK /\ InsertsPending(0) => Height = Len(scopes))'
    BY HeightOf, PTL
  <2> QED
    BY <1>1, <1>9, <1>12, <2>1, <2>2
<1>15. \A n \in 1..Height : Start(n)' = Start(n)
  BY <1>1, <1>9, <1>13 DEF Start
<1>16. MeaningsExact'
  <2>1. ASSUME NEW k \in 0..C, NEW t, NEW e, RightDef(k, t, e) PROVE RightDef(k, t, e)'
    <3>1. Len(live) \in Nat /\ Len(live') \in Nat
      BY <1>0, <1>10, LiveFacts
    <3>2. \A j \in 1..k : /\ changes'[j].sym = changes[j].sym
                          /\ j <= Len(live') /\ j <= Len(live) => live'[j] = live[j]
                          /\ j > Len(live) => j > Len(live')
      BY <1>8, <1>10
    <3>3. k \in Nat
      BY <2>1
    <3> QED
      BY <2>1, <3>1, <3>2, <3>3, RightFrame
  <2>2. RightDef(C + 1, s, d)'
    <3>1. C + 1 \in 1..(C + 1) /\ C + 1 <= Len(live') /\ (C + 1 + 1)..(C + 1) = {}
      BY <1>1, <1>2, <1>3, <1>10
    <3>2. changes'[C + 1].sym = s /\ d = live'[C + 1].def
      BY <1>4, <1>8, <1>10
    <3> QED
      BY <3>1, <3>2 DEF RightDef
  <2>3. ASSUME NEW t \in Symbols PROVE RightDef(C + 1, t, currentDef[t])'
    <3>1. CASE t = s
      BY <1>9, <2>2, <3>1
    <3>2. CASE t # s
      <4>1. RightDef(C, t, currentDef[t])'
        BY <1>0, <1>1, <1>9, <2>1, <3>2 DEF MeaningsExact
      <4>2. RightSkippable'
        BY RightSkip, PTL
      <4> QED
        BY <1>8, <3>2, <4>1, <4>2 DEF RightSkippable
    <3> QED
      BY <3>1, <3>2
  <2>4. ASSUME NEW k \in 1..(C + 1) PROVE RightDef(k - 1, changes[k].sym, changes[k].prevDef)'
    <3>1. CASE k = C + 1
      <4>1. RightDef(C, s, currentDef[s])
        BY <1>0, <1>1, <1>5 DEF MeaningsExact
      <4>2. k - 1 = C /\ C \in 0..C
        BY <3>1
      <4> QED
        BY <1>8, <2>1, <3>1, <4>1, <4>2
    <3>2. CASE k \in 1..C
      <4>1. RightDef(k - 1, changes[k].sym, changes[k].prevDef)
        BY <1>0, <1>1, <3>2 DEF MeaningsExact
      <4>2. k - 1 \in 0..C /\ changes'[k] = changes[k]
        BY <1>8, <3>2
      <4> QED
        BY <2>1, <4>1, <4>2
    <3> QED
      BY <3>1, <3>2
  <2>5. \A j \in 1..(C + 1) : j <= Len(live') => live'[j].sym = changes'[j].sym
    BY <1>0, <1>1, <1>4, <1>8, <1>10 DEF MeaningsExact
  <2> QED
    BY <1>8, <2>3, <2>4, <2>5 DEF MeaningsExact
<1> QED
  BY <1>2, <1>7, <1>12, <1>13, <1>14, <1>15, <1>16, CallKeeps DEF Pending

LEMMA BeginLeaveKeeps ==
  ASSUME VisitInv, UNCHANGED visitor, calls # <<>>,
         Head(calls).do = "leave", LeaveScope, UNCHANGED calls
  PROVE  VisitInv'
<1>0. VisitTypeOK /\ Pending /\ MeaningsExact /\ TypeOK /\ LogPartitioned /\ calls \in Seq(TableCall)
  BY DEF VisitInv, VisitTypeOK
<1>1. TypeOK' /\ LogPartitioned'
  BY <1>0, TypePreserved, PartitionPreserved DEF Next
<1>2. UNCHANGED <<changes, currentDef, scopes, live, calls>>
  BY DEF LeaveScope, visitor
<1>3. LeavesPending
  BY <1>0, PendingKind
<1>4. LeavesPending'
  BY <1>2, <1>3 DEF LeavesPending, SegEnd
<1>5. Height' = Height /\ \A n \in 1..Height : Start(n)' = Start(n)
  BY <1>2 DEF Height, Start
<1>6. MeaningsExact'
  BY <1>0, <1>2, LiveFacts, MeaningsKept
<1>7. calls' \in Seq(TableCall)
  BY <1>0
<1> QED
  BY <1>1, <1>4, <1>5, <1>6, <1>7, CallKeeps DEF Pending

LEMMA PopKeeps ==
  ASSUME VisitInv, UNCHANGED visitor, calls # <<>>,
         Head(calls).do = "leave", PopChange, UNCHANGED calls
  PROVE  VisitInv'
<1>0. VisitTypeOK /\ Pending /\ MeaningsExact /\ TypeOK /\ LogPartitioned /\ calls \in Seq(TableCall)
  BY DEF VisitInv, VisitTypeOK
<1>1. TypeOK' /\ LogPartitioned'
  BY <1>0, TypePreserved, PartitionPreserved DEF Next
<1>2. PICK C \in Nat, N \in Nat, K \in Nat : C = Len(changes) /\ N = Len(scopes) /\ K = Len(calls)
  BY <1>0, LiveFacts
<1>3. UNCHANGED <<scopes, live, calls>>
  BY DEF PopChange, visitor
<1>4. C > 0 /\ Len(changes') = C - 1 /\ \A k \in 1..(C - 1) : changes'[k] = changes[k]
  BY <1>0, <1>2, PopEffect
<1>5. PICK c : c = changes[C]
  OBVIOUS
<1>6. c.sym \in Symbols /\ C \in 1..C
  BY <1>0, <1>2, <1>4, <1>5, FieldTypes
<1>7. /\ currentDef'[c.sym] = c.prevDef
      /\ \A t \in Symbols : t # c.sym => currentDef'[t] = currentDef[t]
  BY <1>0, <1>2, <1>5, <1>6 DEF PopChange, TypeOK
<1>8. LeavesPending /\ N - K < N
  BY <1>0, <1>2, PendingKind DEF LeavesPending
<1>9. LeavesPending'
  BY <1>2, <1>3, <1>8 DEF LeavesPending, SegEnd
<1>10. Height' = Height /\ Height = N - K
  BY <1>0, <1>2, <1>3, <1>8, HeightOf DEF Height
<1>11. \A n \in 1..Height : Start(n)' = Start(n)
  BY <1>2, <1>3, <1>10 DEF Start
<1>12. MeaningsExact'
  <2>1. ASSUME NEW k \in 0..(C - 1), NEW t, NEW e, RightDef(k, t, e) PROVE RightDef(k, t, e)'
    <3>1. Len(live) \in Nat /\ Len(live') \in Nat
      BY <1>0, <1>3, LiveFacts
    <3>2. \A j \in 1..k : /\ changes'[j].sym = changes[j].sym
                          /\ j <= Len(live') /\ j <= Len(live) => live'[j] = live[j]
                          /\ j > Len(live) => j > Len(live')
      BY <1>3, <1>4
    <3>3. k \in Nat
      BY <2>1
    <3> QED
      BY <2>1, <3>1, <3>2, <3>3, RightFrame
  <2>2. ASSUME NEW t \in Symbols PROVE RightDef(C - 1, t, currentDef'[t])
    <3>1. CASE t = c.sym
      BY <1>0, <1>2, <1>5, <1>6, <1>7, <3>1 DEF MeaningsExact
    <3>2. CASE t # c.sym
      <4>1. RightDef(C, t, currentDef[t])
        BY <1>0, <1>2 DEF MeaningsExact
      <4>2. C - 1 \in Nat /\ (C - 1) + 1 = C
        BY <1>4
      <4>3. RightDef(C - 1, t, currentDef[t])
        BY <1>5, <3>2, <4>1, <4>2, RightSkip DEF RightSkippable
      <4> QED
        BY <1>7, <3>2, <4>3
    <3> QED
      BY <3>1, <3>2
  <2>3. ASSUME NEW t \in Symbols PROVE RightDef(C - 1, t, currentDef[t])'
    <3>1. C - 1 \in 0..(C - 1)
      BY <1>4
    <3> QED
      BY <2>1, <2>2, <3>1
  <2>4. ASSUME NEW k \in 1..(C - 1) PROVE RightDef(k - 1, changes[k].sym, changes[k].prevDef)'
    <3>1. RightDef(k - 1, changes[k].sym, changes[k].prevDef) /\ k - 1 \in 0..(C - 1)
      BY <1>0, <1>2 DEF MeaningsExact
    <3> QED
      BY <1>4, <2>1, <3>1
  <2>5. ASSUME NEW j \in 1..(C - 1), j <= Len(live') PROVE live'[j].sym = changes'[j].sym
    <3>1. j \in 1..C /\ changes'[j] = changes[j]
      BY <1>4
    <3>2. live[j].sym = changes[j].sym
      BY <1>0, <1>2, <1>3, <2>5, <3>1 DEF MeaningsExact
    <3> QED
      BY <1>3, <3>1, <3>2
  <2> QED
    BY <1>4, <2>3, <2>4, <2>5 DEF MeaningsExact
<1>13. calls' \in Seq(TableCall)
  BY <1>0, <1>3
<1> QED
  BY <1>1, <1>9, <1>10, <1>11, <1>12, <1>13, CallKeeps DEF Pending

LEMMA FreeKeeps ==
  ASSUME VisitInv, UNCHANGED visitor, calls # <<>>,
         Head(calls).do = "leave", FreeScope, calls' = Tail(calls)
  PROVE  VisitInv'
<1>0. VisitTypeOK /\ Pending /\ MeaningsExact /\ TypeOK /\ LogPartitioned /\ calls \in Seq(TableCall)
  BY DEF VisitInv, VisitTypeOK
<1>1. TypeOK' /\ LogPartitioned'
  BY <1>0, TypePreserved, PartitionPreserved DEF Next
<1>2. PICK C \in Nat, N \in Nat, K \in Nat : C = Len(changes) /\ N = Len(scopes) /\ K = Len(calls)
  BY <1>0, LiveFacts
<1>3. /\ calls' \in Seq(TableCall) /\ Len(calls') = K - 1 /\ K >= 1
      /\ \A i \in 1..(K - 1) : calls'[i] = calls[i + 1]
  BY <1>0, <1>2, TailFacts
<1>4. UNCHANGED <<changes, currentDef, live>> /\ pc' = "ready"
  BY DEF FreeScope, visitor
<1>5. /\ N > 0 /\ Len(scopes') = N - 1 /\ \A n \in 1..(N - 1) : scopes'[n] = scopes[n]
      /\ scopes[N].oldSize = C
  <2>1. N > 0 /\ Len(scopes') = N - 1 /\ \A n \in 1..(N - 1) : scopes'[n] = scopes[n]
    BY <1>0, <1>2, FreeEffect
  <2>2. scopes[N].oldSize <= C /\ scopes[N].oldSize \in Nat
    BY <1>0, <1>2, <2>1, FieldTypes DEF LogPartitioned
  <2>3. C <= scopes[N].oldSize
    BY <1>2 DEF FreeScope
  <2> QED
    BY <2>1, <2>2, <2>3
<1>6. /\ K <= N /\ Len(live) = SegEnd(N - K) /\ \A i \in 1..K : calls[i] = leaveScope
  BY <1>0, <1>2, PendingKind DEF LeavesPending
<1>7. Height = N - K
  BY <1>0, <1>2, PendingKind, HeightOf
<1>8. VisitTypeOK'
  BY <1>0, <1>1, <1>3, StillTyped
<1>9. /\ (VisitTypeOK /\ InsertsPending(0) => Height = Len(scopes))'
      /\ (VisitTypeOK /\ LeavesPending => Height = Len(scopes) - Len(calls))'
  BY HeightOf, PTL
<1>10. Pending' /\ Height' = N - K
  <2>1. CASE K = 1
    <3>1. Len(live') = C
      BY <1>2, <1>4, <1>5, <1>6, <2>1 DEF SegEnd
    <3>2. InsertsPending(0)'
      BY <1>2, <1>3, <1>4, <2>1, <3>1 DEF InsertsPending
    <3> QED
      BY <1>5, <1>8, <1>9, <2>1, <3>2 DEF Pending
  <2>2. CASE K # 1
    <3>1. SegEnd(N - K) = scopes[N - K + 1].oldSize
      BY <1>2, <1>3, <1>6 DEF SegEnd
    <3>2. SegEnd(N - K)' = scopes[N - K + 1].oldSize
      <4>1. N - K < N - 1 /\ N - K + 1 \in 1..(N - 1)
        BY <1>3, <1>6, <2>2
      <4> QED
        BY <1>5, <4>1 DEF SegEnd
    <3>3. \A i \in 1..(K - 1) : calls'[i] = leaveScope
      <4> SUFFICES ASSUME NEW i \in 1..(K - 1) PROVE calls'[i] = leaveScope
        OBVIOUS
      <4>1. i + 1 \in 1..K
        OBVIOUS
      <4> QED
        BY <1>3, <1>6, <4>1
    <3>4. Len(scopes') - Len(calls') = N - K /\ Len(calls') >= 1 /\ Len(calls') <= Len(scopes')
      BY <1>3, <1>5, <1>6, <2>2
    <3>5. LeavesPending'
      BY <1>3, <1>4, <1>6, <3>1, <3>2, <3>3, <3>4 DEF LeavesPending
    <3> QED
      BY <1>8, <1>9, <3>4, <3>5 DEF Pending
  <2> QED
    BY <2>1, <2>2
<1>11. \A n \in 1..Height : Start(n)' = Start(n)
  BY <1>2, <1>3, <1>5, <1>6, <1>7 DEF Start
<1>12. MeaningsExact'
  BY <1>0, <1>4, LiveFacts, MeaningsKept
<1> QED
  BY <1>1, <1>3, <1>7, <1>10, <1>11, <1>12, CallKeeps

LEMMA CallInv == ASSUME VisitInv, Call PROVE VisitInv'
  BY EnterKeeps, InsertKeeps, BeginLeaveKeeps, PopKeeps, FreeKeeps DEF Call
-----------------------------------------------------------------------------
(*            What a visit does to the calls and declarations              *)

LEMMA KindsDiffer ==
  /\ \A d \in Fields \cup {MainArg} : d \notin Locals /\ d \notin Params
  /\ \A d \in Locals : d \notin Params /\ d \notin Fields /\ d # MainArg /\ d[2] \in Nat
  /\ \A d \in Params : d \notin Fields /\ d # MainArg /\ d[2] \in Nat
  BY VisitorAssumption DEF Fields, Locals, Params, MainArg

(* A visit that enters a scope.                                            *)
LEMMA ScopeEntered ==
  ASSUME VisitInv, Ready, UNCHANGED <<vars, live>>, calls' = <<enterScope>>
  PROVE  /\ calls' \in Seq(TableCall) /\ TypeOK' /\ LogPartitioned' /\ live' \in Seq(Declaration)
         /\ Pending' /\ Height' = Len(scopes) + 1 /\ LevelsExact' /\ MeaningsExact'
<1>0. VisitTypeOK /\ Pending /\ LevelsExact /\ MeaningsExact /\ TypeOK /\ LogPartitioned
      /\ live \in Seq(Declaration)
  BY DEF VisitInv, VisitTypeOK
<1>1. pc = "ready" /\ Len(live) = Len(changes) /\ Height = Len(scopes)
  BY <1>0, ReadyFacts
<1>2. PICK C \in Nat, N \in Nat : C = Len(changes) /\ N = Len(scopes)
  BY <1>0, LiveFacts
<1>3. UNCHANGED <<changes, scopes, pc, live, currentDef>>
  BY DEF vars
<1>4. calls' \in Seq(TableCall) /\ Len(calls') = 1 /\ calls'[1] = enterScope /\ calls' # <<>>
  BY DEF TableCall
<1>5. InsertsPending(1)'
  <2>1. Len(live') - Len(changes') = 0 /\ Len(changes') <= Len(live')
    BY <1>1, <1>2, <1>3
  <2> QED
    BY <1>1, <1>3, <1>4, <2>1 DEF InsertsPending
<1>6. Height' = N + 1
  BY <1>2, <1>3, <1>4, CallKinds DEF Height
<1>7. LevelsExact'
  <2> SUFFICES ASSUME NEW k \in 1..Len(live')
               PROVE  /\ live'[k].level >= 1 /\ live'[k].level <= N + 1
                      /\ \A n \in 1..(N + 1) : live'[k].level >= n <=> k > Start(n)'
    BY <1>6 DEF LevelsExact
  <2>1. PICK l \in Nat : l = live[k].level
    BY <1>0, <1>3, LiveFacts
  <2>2. l >= 1 /\ l <= N /\ \A n \in 1..N : l >= n <=> k > Start(n)
    BY <1>0, <1>1, <1>2, <1>3, <2>1 DEF LevelsExact
  <2>3. \A n \in 1..N : Start(n)' = Start(n)
    BY <1>2, <1>3 DEF Start
  <2>4. Start(N + 1)' = C
    BY <1>2, <1>3 DEF Start
  <2>5. k <= C /\ k \in Nat
    BY <1>1, <1>2, <1>3
  <2>6. ASSUME NEW n \in 1..(N + 1) PROVE l >= n <=> k > Start(n)'
    <3>1. CASE n = N + 1
      BY <2>2, <2>4, <2>5, <3>1
    <3>2. CASE n \in 1..N
      BY <2>2, <2>3, <3>2
    <3> QED
      BY <3>1, <3>2
  <2> QED
    BY <1>3, <2>1, <2>2, <2>6
<1>8. MeaningsExact'
  BY <1>0, <1>3, LiveFacts, MeaningsKept
<1>9. TypeOK' /\ LogPartitioned'
  BY <1>0, TypePreserved, PartitionPreserved
<1> QED
  BY <1>0, <1>2, <1>3, <1>4, <1>5, <1>6, <1>7, <1>8, <1>9 DEF Pending

(* A visit that declares a name in the innermost scope.                    *)
LEMMA NameDeclared ==
  ASSUME VisitInv, Ready, UNCHANGED vars, Len(scopes) >= 1,
         NEW s \in Symbols, NEW d \in Definitions,
         calls' = <<insert(s, d)>>, live' = Append(live, Decl(s, d, Len(scopes)))
  PROVE  /\ calls' \in Seq(TableCall) /\ TypeOK' /\ LogPartitioned' /\ live' \in Seq(Declaration)
         /\ Pending' /\ Height' = Len(scopes) /\ LevelsExact' /\ MeaningsExact'
         /\ Len(live') = Len(live) + 1 /\ Len(live) \in Nat
         /\ \A k \in 1..Len(live) : live'[k] = live[k]
         /\ live'[Len(live) + 1].def = d /\ live'[Len(live) + 1].level = Len(scopes)
<1>0. VisitTypeOK /\ Pending /\ LevelsExact /\ MeaningsExact /\ TypeOK /\ LogPartitioned
      /\ live \in Seq(Declaration)
  BY DEF VisitInv, VisitTypeOK
<1>1. pc = "ready" /\ Len(live) = Len(changes) /\ Height = Len(scopes)
  BY <1>0, ReadyFacts
<1>2. PICK C \in Nat, N \in Nat : C = Len(changes) /\ N = Len(scopes) /\ C = Len(live)
  BY <1>0, <1>1, LiveFacts
<1>3. UNCHANGED <<changes, scopes, pc, currentDef>>
  BY DEF vars
<1>4. PICK e : e = Decl(s, d, Len(scopes))
  OBVIOUS
<1>5. e \in Declaration /\ e.sym = s /\ e.def = d /\ e.level = N
  BY <1>2, <1>4 DEF Decl, Declaration
<1>6. /\ live' \in Seq(Declaration) /\ Len(live') = C + 1
      /\ \A k \in 1..C : live'[k] = live[k]
      /\ live'[C + 1] = e
  BY <1>0, <1>2, <1>4, <1>5, AppendFacts
<1>7. calls' \in Seq(TableCall) /\ Len(calls') = 1 /\ calls'[1] = insert(s, d) /\ calls' # <<>>
  BY DEF TableCall
<1>8. InsertsPending(0)'
  <2>7. Len(live') = C + 1
    BY <1>6
  <2>8. Len(changes') = C
    BY <1>2, <1>3
  <2>0. PICK l \in Nat, c \in Nat : l = Len(live') /\ c = Len(changes') /\ l = C + 1 /\ c = C
    BY <2>7, <2>8
  <2>1. Len(live') - Len(changes') = 1 /\ Len(changes') <= Len(live') /\ Len(changes') + 1 = C + 1
    <3>1. l - c = 1 /\ c <= l /\ c + 1 = C + 1
      BY <2>0
    <3> QED
      BY <2>0, <3>1
  <2>2. \A i \in 1..1 : i = 1 /\ 0 + i = 1
    OBVIOUS
  <2>3. \A i \in 1..1 : calls'[0 + i] = insert(live'[Len(changes') + i].sym, live'[Len(changes') + i].def)
    BY <1>5, <1>6, <1>7, <2>1, <2>2
  <2>4. Len(calls') = 0 + (Len(live') - Len(changes')) /\ pc' = "ready"
    BY <1>1, <1>3, <1>7, <2>1
  <2> QED
    BY <2>1, <2>3, <2>4 DEF InsertsPending
<1>9. Height' = N
  BY <1>2, <1>3, <1>7, CallKinds DEF Height
<1>10. LevelsExact'
  <2> SUFFICES ASSUME NEW k \in 1..Len(live')
               PROVE  /\ live'[k].level >= 1 /\ live'[k].level <= N
                      /\ \A n \in 1..N : live'[k].level >= n <=> k > Start(n)'
    BY <1>9 DEF LevelsExact
  <2>1. \A n \in 1..N : Start(n)' = Start(n)
    BY <1>2, <1>3 DEF Start
  <2>2. CASE k \in 1..C
    <3>1. PICK l : l = live[k].level
      OBVIOUS
    <3>2. l >= 1 /\ l <= N /\ \A n \in 1..N : l >= n <=> k > Start(n)
      BY <1>0, <1>1, <1>2, <2>2, <3>1 DEF LevelsExact
    <3>3. live'[k].level = l
      BY <1>6, <2>2, <3>1
    <3> QED
      BY <2>1, <3>2, <3>3
  <2>3. CASE k = C + 1
    <3>1. ASSUME NEW n \in 1..N PROVE Start(n) \in Nat /\ Start(n) <= C
      BY <1>0, <1>2, FieldTypes DEF Start, LogPartitioned
    <3>2. \A n \in 1..N : N >= n <=> k > Start(n)'
      BY <2>1, <2>3, <3>1
    <3> QED
      BY <1>2, <1>5, <1>6, <2>3, <3>2
  <2> QED
    BY <1>6, <2>2, <2>3, SMTT(60)
<1>11. MeaningsExact'
  <2>1. Len(live') \in Nat /\ \A j \in 1..Len(changes) : live'[j] = live[j]
    BY <1>2, <1>6
  <2> QED
    BY <1>0, <1>1, <1>3, <2>1, MeaningsKept
<1>12. TypeOK' /\ LogPartitioned'
  BY <1>0, TypePreserved, PartitionPreserved
<1> QED
  BY <1>2, <1>5, <1>6, <1>7, <1>8, <1>9, <1>10, <1>11, <1>12 DEF Pending
(* The declarations up to a level are those before the next scope began.   *)
LEMMA UpToPrefix ==
  ASSUME VisitInv, Ready, NEW h \in Nat, h < Len(scopes)
  PROVE  /\ SegEnd(h) \in Nat /\ SegEnd(h) <= Len(live)
         /\ UpTo(h) = SubSeq(live, 1, SegEnd(h))
         /\ \A k \in 1..Len(live) : live[k].level <= h <=> k <= SegEnd(h)
<1>0. VisitTypeOK /\ Pending /\ LevelsExact /\ TypeOK /\ LogPartitioned
  BY DEF VisitInv, VisitTypeOK
<1>1. Len(live) = Len(changes) /\ Height = Len(scopes)
  BY <1>0, ReadyFacts
<1>2. PICK C \in Nat, N \in Nat : C = Len(live) /\ N = Len(scopes)
  BY <1>0, LiveFacts
<1>3. h + 1 \in 1..N /\ SegEnd(h) = scopes[h + 1].oldSize /\ Start(h + 1) = scopes[h + 1].oldSize
  BY <1>2 DEF SegEnd, Start
<1>4. PICK m \in Nat : m = SegEnd(h) /\ m = Start(h + 1) /\ m <= C
  BY <1>0, <1>1, <1>2, <1>3, FieldTypes DEF LogPartitioned
<1>5. ASSUME NEW k \in 1..C PROVE live[k].level <= h <=> k <= m
  <2>1. PICK l \in Nat : l = live[k].level
    BY <1>0, <1>2, LiveFacts
  <2>2. l >= h + 1 <=> k > m
    BY <1>0, <1>1, <1>2, <1>3, <1>4, <2>1 DEF LevelsExact
  <2> QED
    BY <2>1, <2>2
<1>6. {i \in 1..Len(live) : live[i].level <= h} = 1..m
  BY <1>2, <1>4, <1>5
<1>7. Cardinality(1..m) = m
  BY FS_Interval
<1> QED
  BY <1>2, <1>4, <1>5, <1>6, <1>7 DEF UpTo

(* A visit that leaves K scopes.                                           *)
LEMMA ScopesLeft ==
  ASSUME VisitInv, Ready, UNCHANGED vars, NEW K \in Nat, K >= 1, K <= Len(scopes),
         calls' \in Seq(TableCall), Len(calls') = K, \A i \in 1..K : calls'[i] = leaveScope,
         live' = UpTo(Len(scopes) - K)
  PROVE  /\ TypeOK' /\ LogPartitioned' /\ live' \in Seq(Declaration)
         /\ Pending' /\ Height' = Len(scopes) - K /\ LevelsExact' /\ MeaningsExact'
         /\ Len(live') \in Nat /\ Len(live') <= Len(live)
         /\ \A k \in 1..Len(live') : live'[k] = live[k] /\ live[k].level <= Len(scopes) - K
<1>0. VisitTypeOK /\ Pending /\ LevelsExact /\ MeaningsExact /\ TypeOK /\ LogPartitioned
      /\ live \in Seq(Declaration)
  BY DEF VisitInv, VisitTypeOK
<1>1. pc = "ready" /\ Len(live) = Len(changes) /\ Height = Len(scopes)
  BY <1>0, ReadyFacts
<1>2. PICK C \in Nat, N \in Nat : C = Len(live) /\ N = Len(scopes)
  BY <1>0, LiveFacts
<1>3. PICK h \in Nat : h = N - K /\ h < N
  BY <1>2
<1>4. UNCHANGED <<changes, scopes, pc, currentDef>>
  BY DEF vars
<1>5. PICK m \in Nat : /\ m = SegEnd(h) /\ m <= C
                       /\ UpTo(h) = SubSeq(live, 1, m)
                       /\ \A k \in 1..C : live[k].level <= h <=> k <= m
  BY <1>2, <1>3, UpToPrefix
<1>6. live' = SubSeq(live, 1, m)
  BY <1>2, <1>3, <1>5
<1>7. /\ live' \in Seq(Declaration) /\ Len(live') = m
      /\ \A k \in 1..m : live'[k] = live[k]
  <2>1. \A i \in 1..m : live[i] \in Declaration
    BY <1>0, <1>2, <1>5, LiveFacts
  <2>2. /\ SubSeq(live, 1, m) \in Seq(Declaration)
        /\ Len(SubSeq(live, 1, m)) = IF 1 <= m THEN m - 1 + 1 ELSE 0
        /\ \A i \in 1..(m - 1 + 1) : SubSeq(live, 1, m)[i] = live[1 + i - 1]
    BY <2>1, SubSeqProperties
  <2>3. m - 1 + 1 = m /\ (IF 1 <= m THEN m - 1 + 1 ELSE 0) = m /\ \A i \in 1..m : 1 + i - 1 = i
    OBVIOUS
  <2> QED
    BY <1>6, <2>2, <2>3
<1>8. SegEnd(h)' = m
  BY <1>2, <1>3, <1>4, <1>5 DEF SegEnd
<1>9. LeavesPending'
  BY <1>2, <1>3, <1>4, <1>7, <1>8 DEF LeavesPending
<1>10. Height' = h
  <2>1. calls'[1] = leaveScope /\ calls' # <<>>
    OBVIOUS
  <2> QED
    BY <1>2, <1>3, <1>4, <2>1, CallKinds DEF Height
<1>11. LevelsExact'
  <2> SUFFICES ASSUME NEW k \in 1..m
               PROVE  /\ live'[k].level >= 1 /\ live'[k].level <= h
                      /\ \A n \in 1..h : live'[k].level >= n <=> k > Start(n)'
    BY <1>7, <1>10 DEF LevelsExact
  <2>1. PICK l : l = live[k].level /\ k \in 1..C
    BY <1>5
  <2>2. l >= 1 /\ \A n \in 1..N : l >= n <=> k > Start(n)
    BY <1>0, <1>1, <1>2, <2>1 DEF LevelsExact
  <2>3. l <= h
    BY <1>5, <2>1
  <2>4. live'[k].level = l
    BY <1>7, <2>1
  <2>5. \A n \in 1..h : n \in 1..N /\ Start(n)' = Start(n)
    BY <1>2, <1>3, <1>4 DEF Start
  <2> QED
    BY <2>2, <2>3, <2>4, <2>5
<1>12. MeaningsExact'
  <2>1. Len(live') \in Nat /\ \A j \in 1..Len(changes) : j <= Len(live') => live'[j] = live[j]
    BY <1>7
  <2> QED
    BY <1>0, <1>1, <1>4, <2>1, MeaningsKept
<1>13. TypeOK' /\ LogPartitioned'
  BY <1>0, TypePreserved, PartitionPreserved
<1>14. \A k \in 1..m : live[k].level <= h
  BY <1>5
<1> QED
  BY <1>2, <1>3, <1>5, <1>7, <1>9, <1>10, <1>11, <1>12, <1>13, <1>14 DEF Pending
-----------------------------------------------------------------------------
(*                              The visits                                 *)

LEMMA VisitFacts ==
  ASSUME VisitInv, Ready, at # "error"
  PROVE  /\ Len(scopes) \in Nat /\ Len(live) \in Nat /\ Len(live) = Len(changes)
         /\ Len(scopes) = Around
         /\ nParams \in 0..MaxParams /\ currentLocalVarDeclNr \in 0..MaxLocals /\ blocks \in Nat
         /\ MaxParams \in Nat /\ MaxLocals \in Nat
         /\ method \in {"none", "regular", "main"}
         /\ \A k \in 1..Len(live) : /\ live[k].def \in Definitions
                                    /\ live[k].level \in Nat /\ live[k].level <= Len(scopes)
<1>1. VisitTypeOK /\ Pending /\ HeightExact /\ LevelsExact
  BY DEF VisitInv
<1>2. Height = Len(scopes) /\ Len(live) = Len(changes)
  BY <1>1, ReadyFacts
<1>3. Height = Around
  BY <1>1 DEF HeightExact
<1> QED
  BY <1>1, <1>2, <1>3, LiveFacts, VisitorAssumption DEF VisitTypeOK, LevelsExact

LEMMA ErrorKeeps == ASSUME VisitInv, Ready, Error PROVE VisitInv'
<1>1. UNCHANGED <<vars, calls, method, nParams, currentLocalVarDeclNr, blocks, live, resolved>> /\ at' = "error"
  BY DEF Error
<1>2. UNCHANGED <<currentDef, currentScope, changes, scopes, pc>>
  BY <1>1 DEF vars
<1>3. VisitTypeOK /\ Pending /\ HeightExact /\ LevelsExact /\ MeaningsExact /\ DeclsCounted /\ RefsUsable
  BY DEF VisitInv
<1>4. VisitTypeOK'
  BY <1>1, <1>2, <1>3 DEF VisitTypeOK, TypeOK, LogPartitioned, Declaration, TableCall, Change, Scope
<1>5. Pending'
  BY <1>1, <1>2, <1>3 DEF Pending, InsertsPending, LeavesPending, SegEnd
<1>6. HeightExact'
  BY <1>1, <1>3 DEF HeightExact, Ready
<1>7. LevelsExact'
  BY <1>1, <1>2, <1>3 DEF LevelsExact, Height, Start
<1>8. MeaningsExact'
  BY <1>1, <1>2, <1>3, LiveFacts, MeaningsKept
<1>9. DeclsCounted'
  BY <1>1, <1>3 DEF DeclsCounted
<1>10. RefsUsable'
  BY <1>1, <1>3 DEF RefsUsable, ReferencesUsable
<1> QED
  BY <1>4, <1>5, <1>6, <1>7, <1>8, <1>9, <1>10 DEF VisitInv

(* Methods start with nothing but fields and the argument of main in scope. *)
LEMMA OnlyFields ==
  ASSUME VisitInv, Ready, at \in {"program", "class"}
  PROVE  \A k \in 1..Len(live) : /\ live[k].def \in Fields \cup {MainArg}
                                 /\ live[k].def \notin Locals /\ live[k].def \notin Params
<1>0. at # "error"
  OBVIOUS
<1>1. Len(scopes) <= 1 /\ Len(scopes) \in Nat
  <2>1. Len(scopes) = Around
    BY <1>0, VisitFacts
  <2>2. Around = 0 \/ Around = 1
    BY DEF Around
  <2> QED
    BY <2>1, <2>2
<1>2. \A k \in 1..Len(live) : live[k].level <= 1
  BY <1>0, <1>1, VisitFacts
<1>3. \A k \in 1..Len(live) : live[k].def \in Fields \cup {MainArg}
  BY <1>2 DEF VisitInv, DeclsCounted
<1> QED
  BY <1>3, KindsDiffer

LEMMA RegularKeeps == ASSUME VisitInv, VisitRegularMethod PROVE VisitInv'
<1>1. /\ Ready /\ at = "class" /\ at' = "params" /\ method' = "regular"
      /\ nParams' = 0 /\ currentLocalVarDeclNr' = 0 /\ calls' = <<enterScope>>
      /\ UNCHANGED <<vars, live>> /\ blocks' = blocks /\ resolved' = resolved
  BY DEF VisitRegularMethod
<1>2. /\ calls' \in Seq(TableCall) /\ TypeOK' /\ LogPartitioned' /\ live' \in Seq(Declaration)
      /\ Pending' /\ Height' = Len(scopes) + 1 /\ LevelsExact' /\ MeaningsExact'
  BY <1>1, ScopeEntered
<1>3. Len(scopes) = 1 /\ blocks = 0 /\ MaxParams \in Nat /\ MaxLocals \in Nat
  BY <1>1, VisitFacts DEF Around, VisitInv, HeightExact
<1>4. VisitTypeOK'
  BY <1>1, <1>2, <1>3 DEF VisitTypeOK
<1>5. HeightExact'
  BY <1>1, <1>2, <1>3 DEF HeightExact, Around
<1>6. DeclsCounted'
  BY <1>1, OnlyFields DEF DeclsCounted
<1>7. RefsUsable'
  BY <1>1 DEF VisitInv, RefsUsable, ReferencesUsable
<1> QED
  BY <1>2, <1>4, <1>5, <1>6, <1>7 DEF VisitInv

LEMMA MainKeeps == ASSUME VisitInv, NEW s \in Symbols, VisitMainMethod(s) PROVE VisitInv'
<1>1. /\ Ready /\ at = "class" /\ at' = "params" /\ method' = "main"
      /\ nParams' = 0 /\ currentLocalVarDeclNr' = 0 /\ calls' = <<insert(s, MainArg)>>
      /\ live' = Append(live, Decl(s, MainArg, 1))
      /\ UNCHANGED vars /\ blocks' = blocks /\ resolved' = resolved
  BY DEF VisitMainMethod
<1>2. Len(scopes) = 1 /\ blocks = 0 /\ MaxParams \in Nat /\ MaxLocals \in Nat
  BY <1>1, VisitFacts DEF Around, VisitInv, HeightExact
<1>3. MainArg \in Definitions
  BY DEF Definitions
<1>4. /\ calls' \in Seq(TableCall) /\ TypeOK' /\ LogPartitioned' /\ live' \in Seq(Declaration)
      /\ Pending' /\ Height' = 1 /\ LevelsExact' /\ MeaningsExact'
      /\ Len(live') = Len(live) + 1 /\ Len(live) \in Nat
      /\ \A k \in 1..Len(live) : live'[k] = live[k]
      /\ live'[Len(live) + 1].def = MainArg
  BY <1>1, <1>2, <1>3, NameDeclared
<1>5. VisitTypeOK'
  BY <1>1, <1>2, <1>4 DEF VisitTypeOK
<1>6. HeightExact'
  BY <1>1, <1>2, <1>4 DEF HeightExact, Around
<1>7. DeclsCounted'
  <2>1. ASSUME NEW k \in 1..Len(live')
        PROVE  live'[k].def \in Fields \cup {MainArg}
    <3>1. CASE k \in 1..Len(live)
      BY <1>1, <1>4, <3>1, OnlyFields
    <3>2. CASE k = Len(live) + 1
      BY <1>4, <3>2
    <3> QED
      BY <1>4, <3>1, <3>2
  <2> QED
    BY <2>1, KindsDiffer DEF DeclsCounted
<1>8. RefsUsable'
  BY <1>1 DEF VisitInv, RefsUsable, ReferencesUsable
<1> QED
  BY <1>4, <1>5, <1>6, <1>7, <1>8 DEF VisitInv

LEMMA ParameterKeeps == ASSUME VisitInv, NEW s \in Symbols, VisitParameter(s) PROVE VisitInv'
<1>1. Ready /\ at = "params" /\ method = "regular" /\ nParams < MaxParams
  BY DEF VisitParameter
<1>2. CASE isDefinedInCurrentScope(s)
  BY <1>1, <1>2, ErrorKeeps DEF VisitParameter
<1>3. CASE ~isDefinedInCurrentScope(s)
  <2>1. PICK d : d = <<"param", nParams + 1>>
    OBVIOUS
  <2>2. /\ nParams' = nParams + 1 /\ calls' = <<insert(s, d)>>
        /\ live' = Append(live, Decl(s, d, 2))
        /\ UNCHANGED vars /\ at' = at /\ method' = method /\ blocks' = blocks
        /\ currentLocalVarDeclNr' = currentLocalVarDeclNr /\ resolved' = resolved
    BY <1>3, <2>1 DEF VisitParameter
  <2>3. /\ Len(scopes) = 2 /\ blocks = 0 /\ MaxParams \in Nat /\ nParams \in 0..MaxParams
        /\ currentLocalVarDeclNr \in 0..MaxLocals
    BY <1>1, VisitFacts DEF Around, VisitInv, HeightExact
  <2>4. d \in Params /\ d \in Definitions /\ d[2] = nParams + 1 /\ nParams \in Nat
    BY <1>1, <2>1, <2>3 DEF Params, Definitions
  <2>5. /\ calls' \in Seq(TableCall) /\ TypeOK' /\ LogPartitioned' /\ live' \in Seq(Declaration)
        /\ Pending' /\ Height' = 2 /\ LevelsExact' /\ MeaningsExact'
        /\ Len(live') = Len(live) + 1 /\ Len(live) \in Nat
        /\ \A k \in 1..Len(live) : live'[k] = live[k]
        /\ live'[Len(live) + 1].def = d /\ live'[Len(live) + 1].level = 2
    BY <1>1, <2>2, <2>3, <2>4, NameDeclared
  <2>6. VisitTypeOK'
    BY <1>1, <2>2, <2>3, <2>5 DEF VisitTypeOK
  <2>7. HeightExact'
    BY <1>1, <2>2, <2>3, <2>5 DEF HeightExact, Around
  <2>8. DeclsCounted'
    <3>1. ASSUME NEW k \in 1..Len(live'), NEW e, e = live'[k].def
          PROVE  /\ e \in Locals => e[2] < currentLocalVarDeclNr
                 /\ e \in Params => e[2] <= nParams + 1
                 /\ live'[k].level <= 1 => e \in Fields \cup {MainArg}
      <4>1. CASE k \in 1..Len(live)
        <5>1. e = live[k].def /\ live'[k].level = live[k].level
          BY <2>5, <3>1, <4>1
        <5>2. /\ e \in Locals => e[2] < currentLocalVarDeclNr
              /\ e \in Params => e[2] <= nParams
              /\ live[k].level <= 1 => e \in Fields \cup {MainArg}
          BY <4>1, <5>1 DEF VisitInv, DeclsCounted
        <5> QED
          BY <2>4, <5>1, <5>2, KindsDiffer
      <4>2. CASE k = Len(live) + 1
        BY <2>4, <2>5, <3>1, <4>2, KindsDiffer
      <4> QED
        BY <2>5, <4>1, <4>2
    <3> QED
      BY <1>1, <2>2, <3>1 DEF DeclsCounted
  <2>9. RefsUsable'
    BY <1>1, <2>2 DEF VisitInv, RefsUsable, ReferencesUsable
  <2> QED
    BY <2>5, <2>6, <2>7, <2>8, <2>9 DEF VisitInv
<1> QED
  BY <1>2, <1>3

LEMMA BlockKeeps == ASSUME VisitInv, EnterBlock PROVE VisitInv'
<1>1. /\ Ready /\ at \in {"params", "body"} /\ at' = "body" /\ blocks' = blocks + 1
      /\ calls' = <<enterScope>> /\ UNCHANGED <<vars, live>> /\ method' = method
      /\ nParams' = nParams /\ currentLocalVarDeclNr' = currentLocalVarDeclNr /\ resolved' = resolved
  BY DEF EnterBlock
<1>2. /\ calls' \in Seq(TableCall) /\ TypeOK' /\ LogPartitioned' /\ live' \in Seq(Declaration)
      /\ Pending' /\ Height' = Len(scopes) + 1 /\ LevelsExact' /\ MeaningsExact'
  BY <1>1, ScopeEntered
<1>3. /\ Len(scopes) = blocks + (IF method = "regular" THEN 2 ELSE 1) /\ blocks \in Nat
      /\ method # "none" /\ method \in {"regular", "main", "none"}
      /\ nParams \in 0..MaxParams /\ currentLocalVarDeclNr \in 0..MaxLocals
  BY <1>1, VisitFacts DEF Around, VisitInv, HeightExact
<1>4. VisitTypeOK'
  BY <1>1, <1>2, <1>3 DEF VisitTypeOK
<1>5. HeightExact'
  BY <1>1, <1>2, <1>3 DEF HeightExact, Around
<1>6. DeclsCounted'
  BY <1>1 DEF VisitInv, DeclsCounted
<1>7. RefsUsable'
  BY <1>1 DEF VisitInv, RefsUsable, ReferencesUsable
<1> QED
  BY <1>2, <1>4, <1>5, <1>6, <1>7 DEF VisitInv

LEMMA VariableKeeps == ASSUME VisitInv, NEW s \in Symbols, VisitVariableDeclaration(s) PROVE VisitInv'
<1>1. Ready /\ at = "body" /\ currentLocalVarDeclNr < MaxLocals
  BY DEF VisitVariableDeclaration
<1>2. PICK d : d = <<"local", currentLocalVarDeclNr>>
  OBVIOUS
<1>3. CASE isDefinedInCurrentScope(s) \/ (lookup(s) # NullDef /\ ~IsField(lookup(s)))
  BY <1>1, <1>3, ErrorKeeps DEF VisitVariableDeclaration
<1>4. CASE ~(isDefinedInCurrentScope(s) \/ (lookup(s) # NullDef /\ ~IsField(lookup(s))))
  <2>1. PICK N : N = Len(scopes)
    OBVIOUS
  <2>2. /\ calls' = <<insert(s, d)>> /\ live' = Append(live, Decl(s, d, Len(scopes)))
        /\ currentLocalVarDeclNr' = currentLocalVarDeclNr + 1
        /\ UNCHANGED vars /\ at' = at /\ method' = method /\ blocks' = blocks
        /\ nParams' = nParams /\ resolved' = resolved
    BY <1>2, <1>4 DEF VisitVariableDeclaration, Level
  <2>3. /\ N = blocks + (IF method = "regular" THEN 2 ELSE 1) /\ blocks \in Nat /\ blocks >= 1
        /\ method # "none" /\ method \in {"regular", "main", "none"} /\ MaxLocals \in Nat
        /\ nParams \in 0..MaxParams /\ currentLocalVarDeclNr \in 0..MaxLocals
    BY <1>1, <2>1, VisitFacts DEF Around, VisitInv, HeightExact
  <2>4. N \in Nat /\ N >= 2
    BY <2>3
  <2>5. d \in Locals /\ d \in Definitions /\ d[2] = currentLocalVarDeclNr /\ currentLocalVarDeclNr \in Nat
    BY <1>1, <1>2, <2>3 DEF Locals, Definitions
  <2>6. /\ calls' \in Seq(TableCall) /\ TypeOK' /\ LogPartitioned' /\ live' \in Seq(Declaration)
        /\ Pending' /\ Height' = N /\ LevelsExact' /\ MeaningsExact'
        /\ Len(live') = Len(live) + 1 /\ Len(live) \in Nat
        /\ \A k \in 1..Len(live) : live'[k] = live[k]
        /\ live'[Len(live) + 1].def = d /\ live'[Len(live) + 1].level = N
    <3>1. Len(scopes) >= 1
      BY <2>1, <2>4
    <3> QED
      BY <1>1, <2>1, <2>2, <2>5, <3>1, NameDeclared
  <2>7. VisitTypeOK'
    BY <1>1, <2>2, <2>3, <2>6 DEF VisitTypeOK
  <2>8. HeightExact'
    BY <1>1, <2>2, <2>3, <2>6 DEF HeightExact, Around
  <2>9. DeclsCounted'
    <3>1. ASSUME NEW k \in 1..Len(live'), NEW e, e = live'[k].def
          PROVE  /\ e \in Locals => e[2] < currentLocalVarDeclNr + 1
                 /\ e \in Params => e[2] <= nParams /\ method = "regular"
                 /\ live'[k].level <= 1 => e \in Fields \cup {MainArg}
      <4>1. CASE k \in 1..Len(live)
        <5>1. e = live[k].def /\ live'[k].level = live[k].level
          BY <2>6, <3>1, <4>1
        <5>2. /\ e \in Locals => e[2] < currentLocalVarDeclNr
              /\ e \in Params => e[2] <= nParams /\ method = "regular"
              /\ live[k].level <= 1 => e \in Fields \cup {MainArg}
          BY <4>1, <5>1 DEF VisitInv, DeclsCounted
        <5> QED
          BY <2>5, <5>1, <5>2, KindsDiffer
      <4>2. CASE k = Len(live) + 1
        BY <2>4, <2>5, <2>6, <3>1, <4>2, KindsDiffer
      <4> QED
        BY <2>6, <4>1, <4>2
    <3> QED
      BY <2>2, <3>1 DEF DeclsCounted
  <2>10. RefsUsable'
    <3>1. RefsUsable
      BY DEF VisitInv
    <3>2. resolved.def \in Locals => resolved.def[2] \in Nat
      BY KindsDiffer
    <3> QED
      BY <1>1, <2>2, <2>5, <3>1, <3>2 DEF RefsUsable, ReferencesUsable
  <2> QED
    BY <2>6, <2>7, <2>8, <2>9, <2>10 DEF VisitInv
<1> QED
  BY <1>3, <1>4

(* The meaning of a name is the definition of a declaration in scope.      *)
LEMMA MeansLive ==
  ASSUME VisitInv, Ready, NEW s \in Symbols
  PROVE  \/ currentDef[s] = NullDef /\ \A k \in 1..Len(live) : live[k].sym # s
         \/ \E k \in 1..Len(live) : /\ live[k].sym = s /\ currentDef[s] = live[k].def
                                    /\ \A i \in (k + 1)..Len(live) : live[i].sym # s
<1>0. VisitTypeOK /\ Pending /\ MeaningsExact
  BY DEF VisitInv
<1>1. PICK C \in Nat : C = Len(live) /\ C = Len(changes)
  BY <1>0, ReadyFacts, LiveFacts
<1>2. \A j \in 1..C : live[j].sym = changes[j].sym
  BY <1>0, <1>1 DEF MeaningsExact
<1>3. RightDef(C, s, currentDef[s])
  BY <1>0, <1>1 DEF MeaningsExact
<1>4. CASE currentDef[s] = NullDef /\ \A j \in 1..C : changes[j].sym # s
  BY <1>1, <1>2, <1>4
<1>5. ASSUME NEW j \in 1..C, changes[j].sym = s, currentDef[s] = live[j].def,
             \A i \in (j + 1)..C : changes[i].sym # s
      PROVE  \E k \in 1..C : /\ live[k].sym = s /\ currentDef[s] = live[k].def
                             /\ \A i \in (k + 1)..C : live[i].sym # s
  <2>1. \A i \in (j + 1)..C : i \in 1..C
    BY <1>5
  <2>2. \A i \in (j + 1)..C : live[i].sym # s
    BY <1>2, <1>5, <2>1
  <2> QED
    BY <1>2, <1>5, <2>2
<1>6. ~ \E j \in 1..C : j > C /\ changes[j].sym = s
  OBVIOUS
<1> QED
  BY <1>1, <1>3, <1>4, <1>5, <1>6 DEF RightDef

LEMMA ReferenceKeeps == ASSUME VisitInv, NEW s \in Symbols, VisitVarRef(s) PROVE VisitInv'
<1>1. Ready /\ at = "body"
  BY DEF VisitVarRef
<1>2. PICK d : d = lookup(s)
  OBVIOUS
<1>3. CASE d \in {NullDef, MainArg} \/ (method = "main" /\ IsField(d))
  BY <1>1, <1>2, <1>3, ErrorKeeps DEF VisitVarRef
<1>4. CASE ~(d \in {NullDef, MainArg} \/ (method = "main" /\ IsField(d)))
  <2>1. /\ resolved' = [sym |-> s, def |-> d, static |-> method = "main"]
        /\ UNCHANGED <<vars, calls, at, method, nParams, currentLocalVarDeclNr, blocks, live>>
    BY <1>2, <1>4 DEF VisitVarRef
  <2>2. PICK k \in 1..Len(live) : d = live[k].def
    BY <1>1, <1>2, <1>4, MeansLive DEF lookup
  <2>3. /\ d \in Locals => d[2] < currentLocalVarDeclNr
        /\ d \in Params => d[2] <= nParams /\ method = "regular"
        /\ d \in Definitions
    BY <1>1, <2>2, VisitFacts DEF VisitInv, DeclsCounted
  <2>4. method = "main" => d \in Locals
    BY <1>4, <2>3 DEF Definitions, IsField
  <2>5. ReferencesUsable'
    <3>1. resolved'.def = d /\ (resolved'.static <=> method = "main")
      BY <2>1
    <3> QED
      BY <2>1, <2>3, <2>4, <3>1 DEF ReferencesUsable
  <2>6. RefsUsable'
    BY <1>1, <2>1, <2>5 DEF RefsUsable
  <2>7. VisitTypeOK /\ Pending /\ HeightExact /\ LevelsExact /\ MeaningsExact /\ DeclsCounted
    BY DEF VisitInv
  <2>8. UNCHANGED <<currentDef, currentScope, changes, scopes, pc>>
    BY <2>1 DEF vars
  <2>9. VisitTypeOK'
    BY <2>1, <2>7, <2>8 DEF VisitTypeOK, TypeOK, LogPartitioned, Declaration, TableCall, Change, Scope
  <2>10. Pending'
    BY <2>1, <2>7, <2>8 DEF Pending, InsertsPending, LeavesPending, SegEnd
  <2>11. HeightExact'
    BY <2>1, <2>7, <2>8 DEF HeightExact, Ready, Height, Around
  <2>12. LevelsExact'
    BY <2>1, <2>7, <2>8 DEF LevelsExact, Height, Start
  <2>13. MeaningsExact'
    BY <2>1, <2>7, <2>8, LiveFacts, MeaningsKept
  <2>14. DeclsCounted'
    BY <2>1, <2>7 DEF DeclsCounted
  <2> QED
    BY <2>6, <2>9, <2>10, <2>11, <2>12, <2>13, <2>14 DEF VisitInv
<1> QED
  BY <1>3, <1>4

(* Leaving scopes uncovers only declarations that were already counted.    *)
LEMMA CountedLeft ==
  ASSUME VisitInv, Len(live') \in Nat, Len(live) \in Nat, Len(live') <= Len(live),
         \A k \in 1..Len(live') : live'[k] = live[k],
         nParams' = nParams, currentLocalVarDeclNr' = currentLocalVarDeclNr,
         method' = method \/ \A k \in 1..Len(live') : live[k].level <= 1
  PROVE  DeclsCounted'
<1>1. ASSUME NEW k \in 1..Len(live'), NEW e, e = live'[k].def
      PROVE  /\ e \in Locals => e[2] < currentLocalVarDeclNr
             /\ e \in Params => e[2] <= nParams /\ method' = "regular"
             /\ live'[k].level <= 1 => e \in Fields \cup {MainArg}
  <2>1. k \in 1..Len(live) /\ e = live[k].def /\ live'[k] = live[k]
    BY <1>1
  <2>2. /\ e \in Locals => e[2] < currentLocalVarDeclNr
        /\ e \in Params => e[2] <= nParams /\ method = "regular"
        /\ live[k].level <= 1 => e \in Fields \cup {MainArg}
    BY <2>1 DEF VisitInv, DeclsCounted
  <2> QED
    BY <2>1, <2>2, KindsDiffer
<1> QED
  BY <1>1 DEF DeclsCounted

LEMMA LeaveBlockKeeps == ASSUME VisitInv, LeaveBlock PROVE VisitInv'
<1>1. /\ Ready /\ at = "body" /\ blocks' = blocks - 1 /\ resolved' = NoRef
      /\ at' = (IF blocks > 1 THEN "body" ELSE IF method = "main" THEN "afterMain" ELSE "class")
      /\ method' = (IF blocks > 1 THEN method ELSE "none")
      /\ UNCHANGED vars /\ nParams' = nParams /\ currentLocalVarDeclNr' = currentLocalVarDeclNr
  BY DEF LeaveBlock
<1>2. PICK N : N = Len(scopes)
  OBVIOUS
<1>3. /\ N = blocks + (IF method = "regular" THEN 2 ELSE 1) /\ blocks \in Nat /\ blocks >= 1
      /\ method # "none" /\ method \in {"regular", "main", "none"}
      /\ nParams \in 0..MaxParams /\ currentLocalVarDeclNr \in 0..MaxLocals
      /\ Len(live) \in Nat
  BY <1>1, <1>2, VisitFacts DEF Around, VisitInv, HeightExact
<1>4. N \in Nat
  BY <1>3
<1>5. PICK K \in Nat : K = IF blocks = 1 /\ method = "regular" THEN 2 ELSE 1
  OBVIOUS
<1>6. K >= 1 /\ K <= N
  BY <1>3, <1>5
<1>7. live' = UpTo(N - K)
  <2>1. CASE blocks = 1 /\ method = "regular"
    <3>1. N - K = 1
      BY <1>3, <1>5, <2>1
    <3> QED
      BY <2>1, <3>1 DEF LeaveBlock
  <2>2. CASE ~(blocks = 1 /\ method = "regular")
    BY <1>2, <1>5, <2>2 DEF LeaveBlock, Level
  <2> QED
    BY <2>1, <2>2
<1>8. calls' \in Seq(TableCall) /\ Len(calls') = K /\ \A i \in 1..K : calls'[i] = leaveScope
  <2>1. leaveScope \in TableCall
    BY DEF TableCall
  <2>2. CASE blocks = 1 /\ method = "regular"
    <3>1. calls' = <<leaveScope, leaveScope>> /\ K = 2
      BY <1>5, <2>2 DEF LeaveBlock
    <3> QED
      BY <2>1, <3>1
  <2>3. CASE ~(blocks = 1 /\ method = "regular")
    <3>1. calls' = <<leaveScope>> /\ K = 1
      BY <1>5, <2>3 DEF LeaveBlock
    <3> QED
      BY <2>1, <3>1
  <2> QED
    BY <2>2, <2>3
<1>9. /\ TypeOK' /\ LogPartitioned' /\ live' \in Seq(Declaration)
      /\ Pending' /\ Height' = N - K /\ LevelsExact' /\ MeaningsExact'
      /\ Len(live') \in Nat /\ Len(live') <= Len(live)
      /\ \A k \in 1..Len(live') : live'[k] = live[k] /\ live[k].level <= N - K
  BY <1>1, <1>2, <1>6, <1>7, <1>8, ScopesLeft
<1>10. VisitTypeOK'
  <2>1. blocks - 1 \in Nat
    BY <1>3
  <2> QED
    BY <1>1, <1>3, <1>8, <1>9, <2>1 DEF VisitTypeOK
<1>11. HeightExact'
  <2>1. CASE blocks > 1
    <3>1. /\ at' = "body" /\ method' = method /\ blocks' = blocks - 1 /\ blocks - 1 >= 1
          /\ Height' = (blocks - 1) + (IF method = "regular" THEN 2 ELSE 1)
      BY <1>1, <1>3, <1>5, <1>9, <2>1
    <3> QED
      BY <1>3, <3>1 DEF HeightExact, Around
  <2>2. CASE ~(blocks > 1)
    <3>1. at' \in {"afterMain", "class"} /\ blocks' = 0 /\ Height' = 1
      BY <1>1, <1>3, <1>5, <1>9, <2>2
    <3> QED
      BY <3>1 DEF HeightExact, Around
  <2> QED
    BY <2>1, <2>2
<1>12. DeclsCounted'
  <2>1. method' = method \/ \A k \in 1..Len(live') : live[k].level <= 1
    <3>1. CASE blocks > 1
      BY <1>1, <3>1
    <3>2. CASE ~(blocks > 1)
      <4>1. N - K = 1
        BY <1>3, <1>5, <3>2
      <4> QED
        BY <1>9, <4>1
    <3> QED
      BY <3>1, <3>2
  <2> QED
    BY <1>1, <1>3, <1>9, <2>1, CountedLeft
<1>13. RefsUsable'
  BY <1>1 DEF RefsUsable, ReferencesUsable, NoRef
<1> QED
  BY <1>9, <1>10, <1>11, <1>12, <1>13 DEF VisitInv

LEMMA LeaveClassKeeps == ASSUME VisitInv, LeaveClass PROVE VisitInv'
<1>1. /\ Ready /\ at \in {"class", "afterMain"} /\ at' = "program" /\ calls' = <<leaveScope>>
      /\ live' = <<>> /\ UNCHANGED vars /\ method' = method /\ nParams' = nParams
      /\ currentLocalVarDeclNr' = currentLocalVarDeclNr /\ blocks' = blocks /\ resolved' = resolved
  BY DEF LeaveClass
<1>2. at # "error" /\ Around = 1
  BY <1>1 DEF Around
<1>3. /\ Len(scopes) = 1 /\ blocks = 0 /\ Len(live) \in Nat
      /\ nParams \in 0..MaxParams /\ currentLocalVarDeclNr \in 0..MaxLocals
      /\ method \in {"none", "regular", "main"}
  BY <1>1, <1>2, VisitFacts DEF VisitInv, HeightExact
<1>4. SegEnd(0) = 0
  <2>0. 0 \in Nat /\ 0 < Len(scopes)
    BY <1>3
  <2>1. /\ SegEnd(0) \in Nat /\ SegEnd(0) <= Len(live)
        /\ \A k \in 1..Len(live) : live[k].level <= 0 <=> k <= SegEnd(0)
    BY <1>1, <2>0, UpToPrefix
  <2>2. PICK m \in Nat : m = SegEnd(0)
    BY <2>1
  <2>3. CASE m >= 1
    <3>1. 1 \in 1..Len(live) /\ 1 <= m
      BY <1>3, <2>1, <2>2, <2>3
    <3>2. live[1].level <= 0 /\ live[1].level >= 1 /\ live[1].level \in Nat
      BY <1>1, <1>2, <2>1, <2>2, <3>1, VisitFacts DEF VisitInv, LevelsExact
    <3> QED
      BY <3>2
  <2> QED
    BY <2>2, <2>3
<1>5. UpTo(0) = <<>>
  <2>1. UpTo(0) = SubSeq(live, 1, 0)
    <3>1. 0 \in Nat /\ 0 < Len(scopes)
      BY <1>3
    <3> QED
      BY <1>1, <1>4, <3>1, UpToPrefix
  <2>2. live \in Seq(Declaration)
    BY DEF VisitInv, VisitTypeOK
  <2> QED
    BY <2>1, <2>2
<1>6. calls' \in Seq(TableCall) /\ Len(calls') = 1 /\ \A i \in 1..1 : calls'[i] = leaveScope
  BY <1>1 DEF TableCall
<1>7. /\ TypeOK' /\ LogPartitioned' /\ live' \in Seq(Declaration)
      /\ Pending' /\ Height' = 0 /\ LevelsExact' /\ MeaningsExact'
  <2>1. Len(scopes) - 1 = 0
    BY <1>3
  <2>2. live' = UpTo(Len(scopes) - 1)
    BY <1>1, <1>5, <2>1
  <2> QED
    BY <1>1, <1>3, <1>6, <2>1, <2>2, ScopesLeft
<1>8. VisitTypeOK'
  BY <1>1, <1>3, <1>6, <1>7 DEF VisitTypeOK
<1>9. HeightExact'
  BY <1>1, <1>3, <1>7 DEF HeightExact, Around
<1>10. DeclsCounted'
  BY <1>1 DEF DeclsCounted
<1>11. RefsUsable'
  BY <1>1 DEF VisitInv, RefsUsable, ReferencesUsable
<1> QED
  BY <1>7, <1>8, <1>9, <1>10, <1>11 DEF VisitInv

LEMMA ClassKeeps == ASSUME VisitInv, NEW fields \in FieldLists, VisitClass(fields) PROVE VisitInv'
<1> DEFINE inserts == [i \in 1..Len(fields) |-> insert(fields[i], <<"field", fields[i]>>)]
           decls == [i \in 1..Len(fields) |-> Decl(fields[i], <<"field", fields[i]>>, 1)]
<1>1. /\ Ready /\ at = "program" /\ at' = "class"
      /\ UNCHANGED vars /\ method' = method /\ nParams' = nParams
      /\ currentLocalVarDeclNr' = currentLocalVarDeclNr /\ blocks' = blocks /\ resolved' = resolved
  BY DEF VisitClass
<1>2. calls' = <<enterScope>> \o inserts /\ live' = decls
  BY DEF VisitClass
<1>3. PICK n \in Nat : n = Len(fields) /\ \A i \in 1..n : fields[i] \in Symbols
  BY VisitorAssumption
<1>4. \A i \in 1..n : <<"field", fields[i]>> \in Fields /\ <<"field", fields[i]>> \in Definitions
  BY <1>3 DEF Fields, Definitions
<1>5. \A i \in 1..n : inserts[i] = insert(fields[i], <<"field", fields[i]>>)
                   /\ decls[i] = Decl(fields[i], <<"field", fields[i]>>, 1)
  BY <1>3
<1>6. \A i \in 1..n : inserts[i] \in TableCall /\ decls[i] \in Declaration
  BY <1>3, <1>4, <1>5 DEF TableCall, Declaration, Decl
<1>7. /\ inserts \in Seq(TableCall) /\ Len(inserts) = n
      /\ decls \in Seq(Declaration) /\ Len(decls) = n
  BY <1>3, <1>6
<1> HIDE DEF inserts, decls
<1>8. /\ calls' \in Seq(TableCall) /\ Len(calls') = 1 + n /\ calls'[1] = enterScope
      /\ \A i \in 1..n : calls'[1 + i] = inserts[i]
  <2>1. <<enterScope>> \in Seq(TableCall) /\ Len(<<enterScope>>) = 1 /\ <<enterScope>>[1] = enterScope
    BY DEF TableCall
  <2>2. /\ Len(<<enterScope>> \o inserts) = Len(<<enterScope>>) + Len(inserts)
        /\ <<enterScope>> \o inserts \in Seq(TableCall)
        /\ \A i \in 1..(Len(<<enterScope>>) + Len(inserts)) :
             (<<enterScope>> \o inserts)[i] = IF i <= Len(<<enterScope>>) THEN <<enterScope>>[i]
                                              ELSE inserts[i - Len(<<enterScope>>)]
    BY <1>7, <2>1, ConcatProperties
  <2>3. /\ Len(calls') = 1 + n /\ calls' \in Seq(TableCall)
        /\ \A i \in 1..(1 + n) : calls'[i] = IF i <= 1 THEN <<enterScope>>[i] ELSE inserts[i - 1]
    BY <1>2, <1>7, <2>1, <2>2
  <2>4. calls'[1] = enterScope
    BY <1>3, <2>1, <2>3
  <2>5. ASSUME NEW i \in 1..n PROVE calls'[1 + i] = inserts[i]
    <3>1. 1 + i \in 1..(1 + n) /\ ~(1 + i <= 1) /\ (1 + i) - 1 = i
      BY <1>3
    <3> QED
      BY <2>3, <3>1
  <2> QED
    BY <2>3, <2>4, <2>5
<1>9. PICK q : q = calls'
  OBVIOUS
<1>10. PICK r : r = live'
  OBVIOUS
<1>11. /\ q \in Seq(TableCall) /\ Len(q) = 1 + n /\ q[1] = enterScope
       /\ \A i \in 1..n : q[1 + i] = inserts[i]
       /\ r \in Seq(Declaration) /\ Len(r) = n /\ \A i \in 1..n : r[i] = decls[i]
  BY <1>2, <1>7, <1>8, <1>9, <1>10
<1>12. \A i \in 1..n : /\ r[i].sym = fields[i] /\ r[i].def = <<"field", fields[i]>> /\ r[i].level = 1
                       /\ q[1 + i] = insert(r[i].sym, r[i].def)
  <2>1. ASSUME NEW i \in 1..n
        PROVE  /\ r[i].sym = fields[i] /\ r[i].def = <<"field", fields[i]>> /\ r[i].level = 1
               /\ q[1 + i] = insert(r[i].sym, r[i].def)
    <3>1. r[i] = Decl(fields[i], <<"field", fields[i]>>, 1)
      BY <1>5, <1>11
    <3>2. r[i].sym = fields[i] /\ r[i].def = <<"field", fields[i]>> /\ r[i].level = 1
      BY <3>1 DEF Decl
    <3>3. q[1 + i] = insert(fields[i], <<"field", fields[i]>>)
      BY <1>5, <1>11
    <3> QED
      BY <3>2, <3>3
  <2> QED
    BY <2>1
<1>13. /\ Len(scopes) = 0 /\ Len(changes) = 0 /\ pc = "ready" /\ blocks = 0
       /\ nParams \in 0..MaxParams /\ currentLocalVarDeclNr \in 0..MaxLocals
       /\ method \in {"none", "regular", "main"}
  <2>1. Around = 0 /\ live = <<>> /\ blocks = 0
    BY <1>1 DEF Around, VisitInv, HeightExact
  <2>2. pc = "ready"
    BY <1>1, ReadyFacts DEF VisitInv
  <2> QED
    BY <1>1, <2>1, <2>2, VisitFacts
<1>14. UNCHANGED <<changes, scopes, pc, currentDef>>
  BY <1>1 DEF vars
<1>15. TypeOK /\ LogPartitioned /\ MeaningsExact /\ VisitTypeOK /\ Pending
  BY DEF VisitInv, VisitTypeOK
<1>16. TypeOK' /\ LogPartitioned'
  BY <1>1, <1>15, TypePreserved, PartitionPreserved
<1>17. InsertsPending(1)'
  <2>1. \A i \in 1..n : 0 + i = i
    OBVIOUS
  <2>2. /\ pc' = "ready" /\ Len(changes') = 0 /\ Len(changes') <= Len(r) /\ Len(r) - Len(changes') = n
    BY <1>11, <1>13, <1>14
  <2>3. \A i \in 1..n : q[1 + i] = insert(r[Len(changes') + i].sym, r[Len(changes') + i].def)
    BY <1>12, <2>1, <2>2
  <2>4. Len(q) = 1 + (Len(r) - Len(changes'))
    BY <1>11, <2>2
  <2> QED
    BY <1>9, <1>10, <1>11, <2>2, <2>3, <2>4 DEF InsertsPending
<1>18. Height' = 1
  <2>1. q # <<>> /\ q[1].do = "enter"
    BY <1>11, CallKinds
  <2> QED
    BY <1>9, <1>13, <1>14, <2>1 DEF Height
<1>19. LevelsExact'
  <2>1. Start(1)' = 0
    BY <1>13, <1>14 DEF Start
  <2>2. ASSUME NEW k \in 1..n
        PROVE  /\ r[k].level >= 1 /\ r[k].level <= 1
               /\ \A i \in 1..1 : r[k].level >= i <=> k > Start(i)'
    BY <1>12, <2>1
  <2> QED
    BY <1>10, <1>11, <1>18, <2>2 DEF LevelsExact
<1>20. MeaningsExact'
  <2>1. Len(live) = Len(changes)
    BY <1>1, <1>15, ReadyFacts
  <2>2. Len(live') \in Nat /\ \A j \in 1..Len(changes) : FALSE
    BY <1>10, <1>11, <1>13
  <2> QED
    BY <1>14, <1>15, <2>1, <2>2, MeaningsKept
<1>21. VisitTypeOK'
  BY <1>1, <1>9, <1>10, <1>11, <1>13, <1>16 DEF VisitTypeOK
<1>22. HeightExact'
  BY <1>1, <1>13, <1>18 DEF HeightExact, Around
<1>23. DeclsCounted'
  <2>1. \A k \in 1..n : r[k].def \in Fields \cup {MainArg}
    BY <1>4, <1>12
  <2> QED
    BY <1>10, <1>11, <2>1, KindsDiffer DEF DeclsCounted
<1>24. RefsUsable'
  BY <1>1 DEF VisitInv, RefsUsable, ReferencesUsable
<1> QED
  BY <1>17, <1>19, <1>20, <1>21, <1>22, <1>23, <1>24 DEF VisitInv, Pending
-----------------------------------------------------------------------------
(*                            The theorems                                 *)

LEMMA InitVisit == VisitInit => VisitInv
<1> SUFFICES ASSUME VisitInit PROVE VisitInv
  OBVIOUS
<1> USE DEF VisitInit, VisitorInit
<1>1. Init /\ Len(changes) = 0 /\ Len(scopes) = 0 /\ Len(live) = 0 /\ Len(calls) = 0
  BY DEF Init
<1>2. VisitTypeOK
  BY InitIInv, VisitorAssumption DEF IInv, VisitTypeOK
<1>3. Pending
  BY <1>1 DEF Pending, InsertsPending, Init
<1>4. HeightExact
  BY <1>1 DEF HeightExact, Height, Around
<1>5. LevelsExact
  BY <1>1 DEF LevelsExact
<1>6. MeaningsExact
  BY <1>1 DEF MeaningsExact, RightDef, Init
<1>7. DeclsCounted
  BY <1>1 DEF DeclsCounted
<1>8. RefsUsable
  BY DEF RefsUsable, ReferencesUsable
<1> QED
  BY <1>2, <1>3, <1>4, <1>5, <1>6, <1>7, <1>8 DEF VisitInv

LEMMA IdleKeeps == ASSUME VisitInv, UNCHANGED visitVars PROVE VisitInv'
<1>1. UNCHANGED <<currentDef, currentScope, changes, scopes, pc, calls, at, method, nParams,
                  currentLocalVarDeclNr, blocks, live, resolved>>
  BY DEF visitVars, vars, visitor
<1>2. VisitTypeOK /\ Pending /\ HeightExact /\ LevelsExact /\ MeaningsExact /\ DeclsCounted /\ RefsUsable
  BY DEF VisitInv
<1>3. VisitTypeOK'
  BY <1>1, <1>2 DEF VisitTypeOK, TypeOK, LogPartitioned, Declaration, TableCall, Change, Scope
<1>4. Pending'
  BY <1>1, <1>2 DEF Pending, InsertsPending, LeavesPending, SegEnd
<1>5. HeightExact' /\ LevelsExact'
  BY <1>1, <1>2 DEF HeightExact, Ready, Height, Around, LevelsExact, Start
<1>6. MeaningsExact'
  BY <1>1, <1>2, LiveFacts, MeaningsKept
<1>7. DeclsCounted' /\ RefsUsable'
  BY <1>1, <1>2 DEF DeclsCounted, RefsUsable, ReferencesUsable
<1> QED
  BY <1>3, <1>4, <1>5, <1>6, <1>7 DEF VisitInv

LEMMA SpecVisitInv == VisitSpec => []VisitInv
<1>1. VisitInv /\ [VisitNext]_visitVars => VisitInv'
  <2> SUFFICES ASSUME VisitInv, [VisitNext]_visitVars PROVE VisitInv'
    OBVIOUS
  <2>1. CASE VisitNext
    BY <2>1, CallInv, RegularKeeps, BlockKeeps, LeaveBlockKeeps, LeaveClassKeeps, IdleKeeps, ClassKeeps,
       ParameterKeeps, MainKeeps, VariableKeeps, ReferenceKeeps DEF VisitNext, Rejected
  <2> QED
    BY <2>1, IdleKeeps
<1> QED
  BY <1>1, InitVisit, PTL DEF VisitSpec

(* Between two visits every name means its innermost declaration in scope,  *)
(* and nothing of a block, method or class that is over, for any class,     *)
(* method and nesting of blocks (semantic_visitor.cpp:21-107).              *)
THEOREM NamesResolve == VisitSpec => []NamesMeanInnermost
<1>1. VisitInv => NamesMeanInnermost
  <2> SUFFICES ASSUME VisitInv, Ready, NEW s \in Symbols PROVE currentDef[s] = Innermost(s)
    BY DEF NamesMeanInnermost, lookup
  <2>1. PICK C \in Nat : C = Len(live)
    BY LiveFacts DEF VisitInv
  <2>2. CASE currentDef[s] = NullDef /\ \A k \in 1..C : live[k].sym # s
    BY <2>1, <2>2 DEF Innermost, LiveDefs
  <2>3. ASSUME NEW k \in 1..C, live[k].sym = s, currentDef[s] = live[k].def,
               \A i \in (k + 1)..C : live[i].sym # s
        PROVE  currentDef[s] = Innermost(s)
    <3>1. k \in LiveDefs(s) /\ \A j \in LiveDefs(s) : j <= k /\ j \in 1..C
      BY <2>1, <2>3 DEF LiveDefs
    <3>2. (CHOOSE i \in LiveDefs(s) : \A j \in LiveDefs(s) : j <= i) = k
      <4>1. ASSUME NEW i \in LiveDefs(s), \A j \in LiveDefs(s) : j <= i PROVE i = k
        <5>1. i <= k /\ k <= i /\ i \in 1..C
          BY <3>1, <4>1
        <5> QED
          BY <5>1
      <4>2. \E i \in LiveDefs(s) : \A j \in LiveDefs(s) : j <= i
        BY <3>1
      <4> QED
        BY <4>1, <4>2
    <3> QED
      <4>1. LiveDefs(s) # {}
        BY <3>1
      <4> QED
        BY <2>3, <3>2, <4>1 DEF Innermost
  <2> QED
    BY <2>1, <2>2, <2>3, MeansLive
<1> QED
  BY <1>1, SpecVisitInv, PTL

(* The code of main refers to neither a field nor its argument, and every   *)
(* reference is to a variable that the method's graph has                   *)
(* (semantic_visitor.cpp:120-121, 152-162; firm_visitor.cpp:643-654).       *)
THEOREM ReferencesResolve == VisitSpec => []ReferencesUsable
  BY SpecVisitInv, PTL DEF VisitInv, RefsUsable
=============================================================================
