-------------------------- MODULE PhiLoweringProofs --------------------------
(***************************************************************************)
(* Proofs about PhiLowering.tla, for every control flow graph whose blocks *)
(* with Phis have two predecessors that end in a Jmp, every number of Phis *)
(* in SSA form, every order of visits and every path of execution.         *)
(***************************************************************************)
EXTENDS PhiLowering, TLAPS, NaturalsInduction, WellFoundedInduction

(* The move that gives Phi n its i-th operand, and the one that saves n.    *)
PhiMove(n, i) == Move(Source(ops[n][i]), <<"slot", n>>)
SaveMove(n) == Move(<<"slot", n>>, <<"tmp", n>>)
Enters(b, i) == {n \in Phis : PredBlock(n, i) = b}
EdgeMoves(b) == {PhiMove(n, 1) : n \in Enters(b, 1)} \cup {PhiMove(n, 2) : n \in Enters(b, 2)}
SaveMoves(b) == {SaveMove(n) : n \in {n \in Phis : NodeBlock[n] = b}}

TypeOK ==
  /\ ops \in Methods
  /\ worklist \in Seq(Phis)
  /\ block \in Blocks

(* The moves at the end of a block belong to Phis of the block it jumps to, *)
(* those at the start to its own Phis; none of a Phi visited is missing.    *)
MovesWellPlaced ==
  /\ phiInstrs = [b \in Blocks |-> phiInstrs[b]]
  /\ startPhi = [b \in Blocks |-> startPhi[b]]
  /\ \A b \in Blocks : phiInstrs[b] \in Seq(EdgeMoves(b)) /\ startPhi[b] \in Seq(SaveMoves(b))
Has(code_, move) == \E k \in 1..Len(code_) : code_[k] = move
MovesComplete ==
  \A n \in Phis : n \in Range(worklist) \/
    /\ \A i \in 1..2 : Has(phiInstrs[PredBlock(n, i)], PhiMove(n, i))
    /\ writeInTmpSlot(n) => Has(startPhi[NodeBlock[n]], SaveMove(n))

(* What the stack holds: nodes other than Phis always, Phis and the copies  *)
(* that are read where the block of the Phi dominates.                      *)
Running ==
  /\ slot = [n \in Nodes |-> slot[n]] /\ tmp = [n \in Nodes |-> tmp[n]]
  /\ \A n \in Nodes : n \notin Phis => slot[n] = ssa[n]
  /\ \A n \in Consts : ssa[n] = ConstValue[n]
  /\ \A n \in Phis : NodeBlock[n] \in Dominators[block] =>
       slot[n] = ssa[n] /\ (writeInTmpSlot(n) => tmp[n] = ssa[n])

Generated == MovesWellPlaced /\ MovesComplete /\ (pc = "run" => worklist = <<>>)

IInv == TypeOK /\ pc \in {"codegen", "abort", "run"} /\ (SwapsStartInPredecessor => Generated /\ Running)
-----------------------------------------------------------------------------
(*                            Execution of moves                           *)


LEMMA LeastIn == ASSUME NEW T, T \subseteq Nat, T # {} PROVE \E x \in T : \A y \in T : x <= y
<1>1. PICK R : (\A x, y \in Nat : y < x => <<y, x>> \in R) /\ IsWellFoundedOn(R, Nat)
  <2>1. \A x, y \in Nat : y < x => <<y, x>> \in OpToRel(<, Nat)
    BY DEF OpToRel
  <2> QED
    BY <2>1, NatLessThanWellFounded, Zenon
<1>2. PICK x \in T : \A y \in T : ~(<<y, x>> \in R)
  BY <1>1, WFMin
<1>3. ASSUME NEW y \in T PROVE x <= y
  <2>1. ~(y < x)
    BY <1>1, <1>2, Zenon
  <2> QED
    BY <2>1
<1> QED
  BY <1>3

(* What holds at first and is kept by every move holds at the end. *)
LEMMA UpTo ==
  ASSUME NEW n \in Nat, NEW S, 0 \in S, \A k \in 1..n : k - 1 \in S => k \in S
  PROVE  \A k \in 0..n : k \in S
<1> DEFINE T == {k \in 0..n : k \notin S}
<1> SUFFICES ASSUME T # {} PROVE FALSE
  OBVIOUS
<1>1. PICK k \in T : \A j \in T : k <= j
  <2>1. T \subseteq Nat
    OBVIOUS
  <2> HIDE DEF T
  <2> QED
    BY <2>1, LeastIn
<1>2. k \in 1..n /\ k \notin S
  OBVIOUS
<1>3. k - 1 \in 0..n /\ k - 1 \notin T
  BY <1>1, <1>2
<1> QED
  BY <1>2, <1>3

(* The states of the stack after the first n moves. *)
Performing(n, g, m, moves) ==
  g = [k \in 0..n |-> IF k = 0 THEN m ELSE Perform(g[k - 1], moves[k])]

LEMMA PerformingExists == ASSUME NEW m, NEW moves PROVE \A n \in Nat : \E g : Performing(n, g, m, moves)
<1> DEFINE S == {n \in Nat : \E g : Performing(n, g, m, moves)}
<1>1. 0 \in S
  <2> DEFINE g == [k \in 0..0 |-> m]
  <2>1. Performing(0, g, m, moves)
    BY DEF Performing
  <2> QED
    BY <2>1
<1>2. ASSUME NEW n \in Nat \ {0}, n - 1 \in S PROVE n \in S
  <2>1. PICK g : Performing(n - 1, g, m, moves)
    BY <1>2
  <2> DEFINE h == [k \in 0..n |-> IF k = n THEN Perform(g[n - 1], moves[n]) ELSE g[k]]
  <2>2. ASSUME NEW k \in 0..n
        PROVE  h[k] = IF k = 0 THEN m ELSE Perform(h[k - 1], moves[k])
    <3>1. k # 0 => h[k - 1] = g[k - 1]
      OBVIOUS
    <3>2. k # n => g[k] = IF k = 0 THEN m ELSE Perform(g[k - 1], moves[k])
      BY <2>1 DEF Performing
    <3> QED
      BY <3>1, <3>2
  <2>3. Performing(n, h, m, moves)
    BY <2>2 DEF Performing
  <2> QED
    BY <2>3
<1>3. SUFFICES ASSUME NEW n \in Nat PROVE n \in S
  OBVIOUS
<1>4. \A k \in 1..n : k - 1 \in S => k \in S
  BY <1>2
<1>5. \A k \in 0..n : k \in S
  <2> HIDE DEF S
  <2> QED
    BY <1>1, <1>4, UpTo
<1> QED
  BY <1>5

LEMMA PerformLoop ==
  ASSUME NEW m, NEW moves, Len(moves) \in Nat
  PROVE  \E g : /\ g[0] = m
                /\ \A k \in 1..Len(moves) : g[k] = Perform(g[k - 1], moves[k])
                /\ PerformAll(m, moves) = g[Len(moves)]
<1> DEFINE f == CHOOSE g : Performing(Len(moves), g, m, moves)
<1>1. Performing(Len(moves), f, m, moves)
  BY PerformingExists
<1>2. PerformAll(m, moves) = f[Len(moves)]
  BY DEF PerformAll, Performing
<1> HIDE DEF f
<1>3. f[0] = m /\ \A k \in 1..Len(moves) : f[k] = Perform(f[k - 1], moves[k])
  BY <1>1 DEF Performing
<1> QED
  BY <1>2, <1>3

(* A stack as a record, whose fields are functions on the nodes. *)
Stack(s, t) == [slot |-> s, tmp |-> t]
OnNodes(s) == s = [n \in Nodes |-> s[n]]
Set(s, n, v) == [x \in Nodes |-> IF x = n THEN v ELSE s[x]]

LEMMA PerformSlot ==
  ASSUME NEW s, OnNodes(s), NEW t, NEW src, NEW n \in Nodes
  PROVE  Perform(Stack(s, t), Move(src, <<"slot", n>>)) = Stack(Set(s, n, Load(Stack(s, t), src)), t)
<1> DEFINE v == Load(Stack(s, t), src)
<1>1. Perform(Stack(s, t), Move(src, <<"slot", n>>)) = [Stack(s, t) EXCEPT !.slot[n] = v]
  BY DEF Perform, Move
<1> HIDE DEF v
<1>2. [Stack(s, t) EXCEPT !.slot[n] = v] = Stack([s EXCEPT ![n] = v], t)
  BY DEF Stack
<1>3. [s EXCEPT ![n] = v] = Set(s, n, v)
  BY DEF OnNodes, Set
<1> QED
  BY <1>1, <1>2, <1>3 DEF v

LEMMA PerformTmp ==
  ASSUME NEW s, NEW t, OnNodes(t), NEW src, NEW n \in Nodes
  PROVE  Perform(Stack(s, t), Move(src, <<"tmp", n>>)) = Stack(s, Set(t, n, Load(Stack(s, t), src)))
<1> DEFINE v == Load(Stack(s, t), src)
<1>1. Perform(Stack(s, t), Move(src, <<"tmp", n>>)) = [Stack(s, t) EXCEPT !.tmp[n] = v]
  BY DEF Perform, Move
<1> HIDE DEF v
<1>2. [Stack(s, t) EXCEPT !.tmp[n] = v] = Stack(s, [t EXCEPT ![n] = v])
  BY DEF Stack
<1>3. [t EXCEPT ![n] = v] = Set(t, n, v)
  BY DEF OnNodes, Set
<1> QED
  BY <1>1, <1>2, <1>3 DEF v

(* No move into a Phi reads the slot of a Phi. *)
LEMMA SourceLoads ==
  ASSUME NEW s, NEW t, NEW p \in Nodes
  PROVE  Load(Stack(s, t), Source(p)) =
           IF p \in Phis THEN t[p] ELSE IF p \in Consts THEN ConstValue[p] ELSE s[p]
  BY DEF Load, Source, getNodeOp, Stack

(* The moves at the end of a block give each Phi that one of them writes    *)
(* the value that its operand has before all of them.                       *)
LEMMA EdgeMovesPerformed ==
  ASSUME TypeOK, NEW s, OnNodes(s), NEW t, NEW b \in Blocks, NEW moves \in Seq(EdgeMoves(b)), NEW V,
         \A i \in 1..2 : \A n \in Enters(b, i) : Load(Stack(s, t), Source(ops[n][i])) = V[n]
  PROVE  \E u : /\ PerformAll(Stack(s, t), moves) = Stack(u, t) /\ OnNodes(u)
                /\ \A n \in Nodes : u[n] = s[n] \/ (u[n] = V[n] /\ \E i \in 1..2 : n \in Enters(b, i))
                /\ \A i \in 1..2 : \A n \in Enters(b, i) : Has(moves, PhiMove(n, i)) => u[n] = V[n]
<1>1. PICK g : /\ g[0] = Stack(s, t)
               /\ \A k \in 1..Len(moves) : g[k] = Perform(g[k - 1], moves[k])
               /\ PerformAll(Stack(s, t), moves) = g[Len(moves)]
  BY PerformLoop
<1> DEFINE Good(k, u) ==
      /\ g[k] = Stack(u, t) /\ OnNodes(u)
      /\ \A n \in Nodes : u[n] = s[n] \/ (u[n] = V[n] /\ \E i \in 1..2 : n \in Enters(b, i))
      /\ \A i \in 1..2 : \A n \in Enters(b, i) :
           (\E j \in 1..k : moves[j] = PhiMove(n, i)) => u[n] = V[n]
           S == {k \in 0..Len(moves) : \E u : Good(k, u)}
<1>2. 0 \in S
  <2>1. Good(0, s)
    BY <1>1
  <2> QED
    BY <2>1
<1>3. ASSUME NEW k \in 1..Len(moves), k - 1 \in S PROVE k \in S
  <2>1. PICK u : Good(k - 1, u)
    BY <1>3
  <2>2. PICK i \in 1..2, n \in Phis : n \in Enters(b, i) /\ moves[k] = PhiMove(n, i)
    BY DEF EdgeMoves, Enters
  <2>3. n \in Phis /\ n \in Nodes /\ ops[n][i] \in Nodes
    BY <2>2, PhiLoweringAssumption DEF Enters, Nodes, TypeOK
  <2>4. Load(Stack(u, t), Source(ops[n][i])) = V[n]
    <3>1. Load(Stack(u, t), Source(ops[n][i])) = Load(Stack(s, t), Source(ops[n][i]))
      <4> DEFINE p == ops[n][i]
      <4>1. p \in Phis \/ u[p] = s[p]
        BY <2>1, <2>3 DEF Enters
      <4>2. p \in Nodes
        BY <2>3
      <4> HIDE DEF p
      <4>3. Load(Stack(u, t), Source(p)) = Load(Stack(s, t), Source(p))
        BY <4>1, <4>2, SourceLoads
      <4> QED
        BY <4>3 DEF p
    <3> QED
      BY <3>1, <2>2
  <2> DEFINE w == Set(u, n, V[n])
  <2>5. g[k] = Stack(w, t)
    <3>1. g[k] = Perform(Stack(u, t), Move(Source(ops[n][i]), <<"slot", n>>))
      BY <1>1, <2>1, <2>2 DEF PhiMove
    <3> QED
      BY <3>1, <2>1, <2>3, <2>4, PerformSlot
  <2>6. OnNodes(w) /\ \A x \in Nodes : w[x] = IF x = n THEN V[n] ELSE u[x]
    BY DEF OnNodes, Set
  <2> HIDE DEF w
  <2>7. \A x \in Nodes : w[x] = s[x] \/ (w[x] = V[x] /\ \E h \in 1..2 : x \in Enters(b, h))
    BY <2>1, <2>2, <2>6
  <2>8. ASSUME NEW h \in 1..2, NEW x \in Enters(b, h), \E j \in 1..k : moves[j] = PhiMove(x, h)
        PROVE  w[x] = V[x]
    <3>1. x \in Nodes
      BY DEF Enters, Nodes
    <3>2. CASE x = n
      BY <3>1, <3>2, <2>6
    <3>3. CASE x # n
      <4>1. PhiMove(x, h) # PhiMove(n, i)
        BY <3>3 DEF PhiMove, Move
      <4>2. \E j \in 1..(k - 1) : moves[j] = PhiMove(x, h)
        BY <4>1, <2>8, <2>2
      <4> QED
        BY <4>2, <3>1, <3>3, <2>1, <2>6
    <3> QED
      BY <3>2, <3>3
  <2>9. Good(k, w)
    BY <2>5, <2>6, <2>7, <2>8
  <2> QED
    BY <2>9
<1>4. Len(moves) \in S
  <2>1. Len(moves) \in Nat /\ \A k \in 1..Len(moves) : k - 1 \in S => k \in S
    BY <1>3
  <2> HIDE DEF S
  <2>2. \A k \in 0..Len(moves) : k \in S
    BY <1>2, <2>1, UpTo
  <2> QED
    BY <2>1, <2>2
<1>5. PICK u : Good(Len(moves), u)
  BY <1>4
<1> QED
  BY <1>1, <1>5 DEF Has

(* The moves at the start of a block save Phis of the block. *)
LEMMA SaveMovesPerformed ==
  ASSUME NEW s, NEW t, OnNodes(t), NEW b \in Blocks, NEW moves \in Seq(SaveMoves(b))
  PROVE  \E u : /\ PerformAll(Stack(s, t), moves) = Stack(s, u) /\ OnNodes(u)
                /\ \A n \in Nodes : u[n] = t[n] \/ (n \in Phis /\ NodeBlock[n] = b /\ u[n] = s[n])
                /\ \A n \in Phis : Has(moves, SaveMove(n)) => u[n] = s[n]
<1>1. PICK g : /\ g[0] = Stack(s, t)
               /\ \A k \in 1..Len(moves) : g[k] = Perform(g[k - 1], moves[k])
               /\ PerformAll(Stack(s, t), moves) = g[Len(moves)]
  BY PerformLoop
<1> DEFINE Good(k, u) ==
      /\ g[k] = Stack(s, u) /\ OnNodes(u)
      /\ \A n \in Nodes : u[n] = t[n] \/ (n \in Phis /\ NodeBlock[n] = b /\ u[n] = s[n])
      /\ \A n \in Phis : (\E j \in 1..k : moves[j] = SaveMove(n)) => u[n] = s[n]
           S == {k \in 0..Len(moves) : \E u : Good(k, u)}
<1>2. 0 \in S
  <2>1. Good(0, t)
    BY <1>1
  <2> QED
    BY <2>1
<1>3. ASSUME NEW k \in 1..Len(moves), k - 1 \in S PROVE k \in S
  <2>1. PICK u : Good(k - 1, u)
    BY <1>3
  <2>2. PICK n \in Phis : NodeBlock[n] = b /\ moves[k] = SaveMove(n)
    BY DEF SaveMoves
  <2>3. n \in Nodes
    BY DEF Nodes
  <2>4. Load(Stack(s, u), <<"slot", n>>) = s[n]
    BY DEF Load, Stack
  <2> DEFINE w == Set(u, n, s[n])
  <2>5. g[k] = Stack(s, w)
    <3>1. g[k] = Perform(Stack(s, u), Move(<<"slot", n>>, <<"tmp", n>>))
      BY <1>1, <2>1, <2>2 DEF SaveMove
    <3> QED
      BY <3>1, <2>1, <2>3, <2>4, PerformTmp
  <2>6. OnNodes(w) /\ \A x \in Nodes : w[x] = IF x = n THEN s[n] ELSE u[x]
    BY DEF OnNodes, Set
  <2> HIDE DEF w
  <2>7. \A x \in Nodes : w[x] = t[x] \/ (x \in Phis /\ NodeBlock[x] = b /\ w[x] = s[x])
    BY <2>1, <2>2, <2>6
  <2>8. ASSUME NEW x \in Phis, \E j \in 1..k : moves[j] = SaveMove(x)
        PROVE  w[x] = s[x]
    <3>1. x \in Nodes
      BY DEF Nodes
    <3>2. CASE x = n
      BY <3>1, <3>2, <2>6
    <3>3. CASE x # n
      <4>1. SaveMove(x) # SaveMove(n)
        BY <3>3 DEF SaveMove, Move
      <4>2. \E j \in 1..(k - 1) : moves[j] = SaveMove(x)
        BY <4>1, <2>8, <2>2
      <4> QED
        BY <4>2, <3>1, <3>3, <2>1, <2>6
    <3> QED
      BY <3>2, <3>3
  <2>9. Good(k, w)
    BY <2>5, <2>6, <2>7, <2>8
  <2> QED
    BY <2>9
<1>4. Len(moves) \in S
  <2>1. Len(moves) \in Nat /\ \A k \in 1..Len(moves) : k - 1 \in S => k \in S
    BY <1>3
  <2> HIDE DEF S
  <2>2. \A k \in 0..Len(moves) : k \in S
    BY <1>2, <2>1, UpTo
  <2> QED
    BY <2>1, <2>2
<1>5. PICK u : Good(Len(moves), u)
  BY <1>4
<1> QED
  BY <1>1, <1>5 DEF Has
-----------------------------------------------------------------------------
(*                           Code generation                               *)

LEMMA PhiFacts ==
  ASSUME TypeOK, NEW n \in Phis
  PROVE  /\ NodeBlock[n] \in Blocks /\ n \in Nodes
         /\ PredBlock(n, 1) \in Blocks /\ PredBlock(n, 2) \in Blocks
         /\ PredBlock(n, 1) # PredBlock(n, 2)
         /\ \A i \in 1..2 : ops[n][i] \in Nodes
<1>1. n \in Nodes
  BY DEF Nodes
<1>2. NodeBlock[n] \in Blocks
  BY <1>1, PhiLoweringAssumption
<1>3. CfgPreds[NodeBlock[n]] \in Seq(Blocks) /\ Len(CfgPreds[NodeBlock[n]]) = 2
  BY <1>2, PhiLoweringAssumption
<1>4. PredBlock(n, 1) \in Blocks /\ PredBlock(n, 2) \in Blocks
  BY <1>3 DEF PredBlock
<1>5. PredBlock(n, 1) # PredBlock(n, 2)
  BY PhiLoweringAssumption DEF PredBlock
<1>6. \A i \in 1..2 : ops[n][i] \in Nodes
  BY PhiLoweringAssumption DEF TypeOK
<1> QED
  BY <1>1, <1>2, <1>4, <1>5, <1>6

(* Visiting a Phi, swapped or not, puts one move at the end of each         *)
(* predecessor, provided swaps start there, and saves what other Phis read. *)
LEMMA VisitEffect ==
  ASSUME TypeOK, MovesWellPlaced, SwapsStartInPredecessor, NEW n \in Phis,
         IF isSwap(n) THEN generateSwapPhi(n) ELSE generateNormalPhi(n)
  PROVE  /\ pc' = pc
         /\ phiInstrs' = [b \in Blocks |->
              IF b = PredBlock(n, 1) THEN Append(phiInstrs[b], PhiMove(n, 1))
              ELSE IF b = PredBlock(n, 2) THEN Append(phiInstrs[b], PhiMove(n, 2))
              ELSE phiInstrs[b]]
         /\ \/ startPhi' = startPhi /\ ~writeInTmpSlot(n)
            \/ startPhi' = [b \in Blocks |-> IF b = NodeBlock[n] THEN Append(startPhi[b], SaveMove(n))
                                             ELSE startPhi[b]]
<1>1. SaveOld(n) = [b \in Blocks |-> IF b = NodeBlock[n] THEN Append(startPhi[b], SaveMove(n))
                                     ELSE startPhi[b]]
  BY PhiFacts DEF SaveOld, SaveMove, MovesWellPlaced
<1>2. CASE ~isSwap(n)
  <2>1. generateNormalPhi(n)
    BY <1>2
  <2> QED
    BY <2>1, <1>1 DEF generateNormalPhi, PhiMove
<1>3. CASE isSwap(n)
  <2> DEFINE i == SwapIndex(n)
  <2>1. generateSwapPhi(n) /\ SwapAsserts(n) /\ NodeBlock[ops[n][3 - i]] = PredBlock(n, 3 - i)
    BY <1>3 DEF SwapsStartInPredecessor
  <2>2. i \in 1..2 /\ ops[n][i] \in Phis /\ ops[n][3 - i] \notin Phis
    BY <2>1 DEF SwapAsserts, SwapIndex
  <2>3. PhiMove(n, i) = Move(<<"tmp", ops[n][i]>>, <<"slot", n>>)
    BY <2>2 DEF PhiMove, Source
  <2>4. PhiMove(n, 3 - i) = Move(getNodeOp(ops[n][3 - i]), <<"slot", n>>)
    BY <2>2 DEF PhiMove, Source
  <2> DEFINE one == [phiInstrs EXCEPT ![PredBlock(n, i)] = Append(@, PhiMove(n, i))]
             two == [one EXCEPT ![PredBlock(n, 3 - i)] = Append(@, PhiMove(n, 3 - i))]
  <2>5. startPhi' = SaveOld(n) /\ phiInstrs' = two /\ pc' = pc
    BY <2>1, <2>3, <2>4 DEF generateSwapPhi
  <2>6. /\ PredBlock(n, i) \in Blocks /\ PredBlock(n, 3 - i) \in Blocks
        /\ PredBlock(n, i) # PredBlock(n, 3 - i)
    BY <2>2, PhiFacts
  <2>7. phiInstrs = [b \in Blocks |-> phiInstrs[b]]
    BY DEF MovesWellPlaced
  <2>8. two = [b \in Blocks |->
                IF b = PredBlock(n, i) THEN Append(phiInstrs[b], PhiMove(n, i))
                ELSE IF b = PredBlock(n, 3 - i) THEN Append(phiInstrs[b], PhiMove(n, 3 - i))
                ELSE phiInstrs[b]]
    <3> DEFINE p == PredBlock(n, i)
               q == PredBlock(n, 3 - i)
               x == PhiMove(n, i)
               y == PhiMove(n, 3 - i)
    <3>1. p \in Blocks /\ q \in Blocks /\ p # q
      BY <2>6
    <3> HIDE DEF p, q, x, y, i
    <3>2. [[phiInstrs EXCEPT ![p] = Append(@, x)] EXCEPT ![q] = Append(@, y)]
            = [b \in Blocks |-> IF b = p THEN Append(phiInstrs[b], x)
                                ELSE IF b = q THEN Append(phiInstrs[b], y) ELSE phiInstrs[b]]
      BY <2>7, <3>1
    <3> QED
      BY <3>2 DEF p, q, x, y
  <2>9. i = 1 \/ i = 2
    BY <2>2
  <2> HIDE DEF i
  <2>10. two = [b \in Blocks |->
              IF b = PredBlock(n, 1) THEN Append(phiInstrs[b], PhiMove(n, 1))
              ELSE IF b = PredBlock(n, 2) THEN Append(phiInstrs[b], PhiMove(n, 2))
              ELSE phiInstrs[b]]
    <3>1. CASE i = 1
      <4>1. 3 - 1 = 2
        OBVIOUS
      <4> QED
        BY <3>1, <4>1, <2>8
    <3>2. CASE i = 2
      <4>1. 3 - 2 = 1
        OBVIOUS
      <4>2. two = [b \in Blocks |->
                IF b = PredBlock(n, 2) THEN Append(phiInstrs[b], PhiMove(n, 2))
                ELSE IF b = PredBlock(n, 1) THEN Append(phiInstrs[b], PhiMove(n, 1))
                ELSE phiInstrs[b]]
        BY <3>2, <4>1, <2>8
      <4>3. PredBlock(n, 1) # PredBlock(n, 2)
        BY PhiFacts
      <4> HIDE DEF two
      <4> QED
        BY <4>2, <4>3
    <3> QED
      BY <2>9, <3>1, <3>2
  <2> HIDE DEF two
  <2> QED
    BY <2>5, <2>10, <1>1
<1> QED
  BY <1>2, <1>3

LEMMA HasAppend ==
  ASSUME NEW S, NEW c \in Seq(S), NEW x \in S
  PROVE  /\ Append(c, x) \in Seq(S) /\ Has(Append(c, x), x)
         /\ \A y : Has(c, y) => Has(Append(c, x), y)
<1> DEFINE d == Append(c, x)
<1>1. d \in Seq(S) /\ Len(d) = Len(c) + 1 /\ Len(c) \in Nat
  OBVIOUS
<1>2. d[Len(d)] = x /\ \A k \in 1..Len(c) : d[k] = c[k]
  OBVIOUS
<1> HIDE DEF d
<1>3. Has(d, x)
  BY <1>1, <1>2 DEF Has
<1>4. ASSUME NEW y, Has(c, y) PROVE Has(d, y)
  BY <1>1, <1>2, <1>4 DEF Has
<1> QED
  BY <1>1, <1>3, <1>4 DEF d

(* ops never changes, and so neither do the definitions that read it. *)
LEMMA OpsKept ==
  ASSUME UNCHANGED ops
  PROVE  /\ \A n, i : PhiMove(n, i)' = PhiMove(n, i)
         /\ \A n : (writeInTmpSlot(n)' <=> writeInTmpSlot(n))
         /\ \A b : EdgeMoves(b)' = EdgeMoves(b)
         /\ SwapsStartInPredecessor' <=> SwapsStartInPredecessor
<1>1. \A n, i : PhiMove(n, i)' = PhiMove(n, i)
  BY DEF PhiMove, Move, Source, getNodeOp
<1>2. \A n : (writeInTmpSlot(n)' <=> writeInTmpSlot(n))
  BY DEF writeInTmpSlot
<1>3. \A b : EdgeMoves(b)' = EdgeMoves(b)
  BY DEF EdgeMoves, Enters, PredBlock, PhiMove, Move, Source, getNodeOp
<1>4. SwapsStartInPredecessor' <=> SwapsStartInPredecessor
  BY DEF SwapsStartInPredecessor, SwapAsserts, SwapIndex, isSwap, PredBlock
<1> QED
  BY <1>1, <1>2, <1>3, <1>4

LEMMA VisitKeeps ==
  ASSUME TypeOK, Generated, SwapsStartInPredecessor, VisitPhi
  PROVE  Generated'
<1> DEFINE n == Head(worklist)
<1>1. worklist \in Seq(Phis) /\ worklist # <<>> /\ worklist' = Tail(worklist) /\ UNCHANGED ops /\ pc = "codegen"
  BY DEF VisitPhi, TypeOK
<1>2. n \in Phis
  BY <1>1
<1>3. IF isSwap(n) THEN generateSwapPhi(n) ELSE generateNormalPhi(n)
  BY DEF VisitPhi
<1>4. Range(worklist) \subseteq Range(worklist') \cup {n}
  <2>1. ASSUME NEW k \in DOMAIN worklist PROVE worklist[k] = n \/ worklist[k] \in Range(worklist')
    <3>1. k \in 1..Len(worklist) /\ Len(worklist') = Len(worklist) - 1
      BY <1>1
    <3>2. CASE k = 1
      BY <3>2, <1>1
    <3>3. CASE k # 1
      <4>1. k - 1 \in 1..Len(worklist') /\ worklist'[k - 1] = worklist[k]
        BY <3>1, <3>3, <1>1
      <4>2. k - 1 \in DOMAIN worklist'
        BY <4>1, <1>1
      <4> QED
        BY <4>1, <4>2 DEF Range
    <3> QED
      BY <3>2, <3>3
  <2> QED
    BY <2>1 DEF Range
<1> HIDE DEF n
<1>5. /\ pc' = pc
      /\ phiInstrs' = [b \in Blocks |->
           IF b = PredBlock(n, 1) THEN Append(phiInstrs[b], PhiMove(n, 1))
           ELSE IF b = PredBlock(n, 2) THEN Append(phiInstrs[b], PhiMove(n, 2))
           ELSE phiInstrs[b]]
      /\ \/ startPhi' = startPhi /\ ~writeInTmpSlot(n)
         \/ startPhi' = [b \in Blocks |-> IF b = NodeBlock[n] THEN Append(startPhi[b], SaveMove(n))
                                          ELSE startPhi[b]]
  BY <1>2, <1>3, VisitEffect DEF Generated
<1>6. /\ NodeBlock[n] \in Blocks /\ PredBlock(n, 1) \in Blocks /\ PredBlock(n, 2) \in Blocks
      /\ PredBlock(n, 1) # PredBlock(n, 2)
  BY <1>2, PhiFacts
<1>7. \A i \in 1..2 : PhiMove(n, i) \in EdgeMoves(PredBlock(n, i))
  BY <1>2 DEF EdgeMoves, Enters
<1>8. SaveMove(n) \in SaveMoves(NodeBlock[n])
  BY <1>2 DEF SaveMoves
<1>9. \A b \in Blocks : phiInstrs[b] \in Seq(EdgeMoves(b)) /\ startPhi[b] \in Seq(SaveMoves(b))
  BY DEF Generated, MovesWellPlaced
<1>10. ASSUME NEW b \in Blocks
       PROVE  phiInstrs'[b] \in Seq(EdgeMoves(b)) /\ \A y : Has(phiInstrs[b], y) => Has(phiInstrs'[b], y)
  <2>1. CASE b = PredBlock(n, 1)
    <3>1. phiInstrs'[b] = Append(phiInstrs[b], PhiMove(n, 1))
      BY <1>5, <2>1
    <3>2. PhiMove(n, 1) \in EdgeMoves(b)
      BY <1>7, <2>1
    <3> QED
      BY <3>1, <3>2, <1>9, HasAppend
  <2>2. CASE b = PredBlock(n, 2)
    <3>1. phiInstrs'[b] = Append(phiInstrs[b], PhiMove(n, 2))
      BY <1>5, <1>6, <2>2
    <3>2. PhiMove(n, 2) \in EdgeMoves(b)
      BY <1>7, <2>2
    <3> QED
      BY <3>1, <3>2, <1>9, HasAppend
  <2>3. CASE b # PredBlock(n, 1) /\ b # PredBlock(n, 2)
    BY <2>3, <1>5, <1>9
  <2> QED
    BY <2>1, <2>2, <2>3
<1>11. \A i \in 1..2 : Has(phiInstrs'[PredBlock(n, i)], PhiMove(n, i))
  <2>1. phiInstrs'[PredBlock(n, 1)] = Append(phiInstrs[PredBlock(n, 1)], PhiMove(n, 1))
    BY <1>5, <1>6
  <2>2. phiInstrs'[PredBlock(n, 2)] = Append(phiInstrs[PredBlock(n, 2)], PhiMove(n, 2))
    BY <1>5, <1>6
  <2>3. Has(phiInstrs'[PredBlock(n, 1)], PhiMove(n, 1))
    BY <2>1, <1>6, <1>7, <1>9, HasAppend
  <2>4. Has(phiInstrs'[PredBlock(n, 2)], PhiMove(n, 2))
    BY <2>2, <1>6, <1>7, <1>9, HasAppend
  <2> QED
    BY <2>3, <2>4
<1>12. ASSUME NEW b \in Blocks
       PROVE  startPhi'[b] \in Seq(SaveMoves(b)) /\ \A y : Has(startPhi[b], y) => Has(startPhi'[b], y)
  <2>1. CASE b = NodeBlock[n] /\ startPhi' # startPhi
    <3>1. startPhi'[b] = Append(startPhi[b], SaveMove(n))
      BY <1>5, <2>1
    <3> QED
      BY <3>1, <2>1, <1>8, <1>9, HasAppend
  <2>2. CASE b # NodeBlock[n] \/ startPhi' = startPhi
    <3>1. startPhi'[b] = startPhi[b]
      BY <1>5, <2>2
    <3> QED
      BY <3>1, <1>9
  <2> QED
    BY <2>1, <2>2
<1>13. writeInTmpSlot(n) => Has(startPhi'[NodeBlock[n]], SaveMove(n))
  <2> SUFFICES ASSUME writeInTmpSlot(n) PROVE Has(startPhi'[NodeBlock[n]], SaveMove(n))
    OBVIOUS
  <2>1. startPhi'[NodeBlock[n]] = Append(startPhi[NodeBlock[n]], SaveMove(n))
    BY <1>5, <1>6
  <2> QED
    BY <2>1, <1>6, <1>8, <1>9, HasAppend
<1>14. phiInstrs' = [b \in Blocks |-> phiInstrs'[b]] /\ startPhi' = [b \in Blocks |-> startPhi'[b]]
  <2>1. startPhi = [b \in Blocks |-> startPhi[b]]
    BY DEF Generated, MovesWellPlaced
  <2> QED
    BY <2>1, <1>5
<1>15. MovesWellPlaced'
  <2>1. \A b \in Blocks : phiInstrs'[b] \in Seq(EdgeMoves(b)') /\ startPhi'[b] \in Seq(SaveMoves(b))
    BY <1>1, <1>10, <1>12, OpsKept
  <2> QED
    BY <2>1, <1>14 DEF MovesWellPlaced, SaveMoves, SaveMove
<1>16. ASSUME NEW p \in Phis, p \notin Range(worklist')
       PROVE  /\ \A i \in 1..2 : Has(phiInstrs'[PredBlock(p, i)], PhiMove(p, i))
              /\ writeInTmpSlot(p) => Has(startPhi'[NodeBlock[p]], SaveMove(p))
  <2>1. CASE p = n
    BY <2>1, <1>11, <1>13
  <2>2. CASE p # n
    <3>1. p \notin Range(worklist)
      BY <2>2, <1>16, <1>4
    <3>2. /\ \A i \in 1..2 : Has(phiInstrs[PredBlock(p, i)], PhiMove(p, i))
          /\ writeInTmpSlot(p) => Has(startPhi[NodeBlock[p]], SaveMove(p))
      BY <3>1 DEF Generated, MovesComplete
    <3>3. NodeBlock[p] \in Blocks /\ \A i \in 1..2 : PredBlock(p, i) \in Blocks
      BY PhiFacts
    <3> QED
      BY <3>2, <3>3, <1>10, <1>12
  <2> QED
    BY <2>1, <2>2
<1>17. MovesComplete'
  <2>1. ASSUME NEW p \in Phis, p \notin Range(worklist')
        PROVE  /\ \A i \in 1..2 : Has(phiInstrs'[PredBlock(p, i)], PhiMove(p, i)')
               /\ writeInTmpSlot(p)' => Has(startPhi'[NodeBlock[p]], SaveMove(p))
    BY <2>1, <1>16, <1>1, OpsKept
  <2> QED
    BY <2>1 DEF MovesComplete, Has, SaveMove, PredBlock, Range
<1>18. pc' # "run"
  BY <1>1, <1>5
<1> QED
  BY <1>15, <1>17, <1>18 DEF Generated
-----------------------------------------------------------------------------
(*                              Execution                                  *)

(* A block from which a Phi gets an operand jumps only to that Phi's block. *)
LEMMA EdgeOfPhi ==
  ASSUME NEW b \in Blocks, NEW i \in 1..Len(CfgPreds[b]), NEW n \in Phis, NEW j \in 1..2,
         PredBlock(n, j) = CfgPreds[b][i]
  PROVE  NodeBlock[n] = b /\ j = i
<1>1. NodeBlock[n] = b
  BY PhiLoweringAssumption DEF PredBlock
<1>2. Len(CfgPreds[b]) = 2 /\ CfgPreds[b][1] # CfgPreds[b][2]
  BY <1>1, PhiLoweringAssumption
<1> QED
  BY <1>1, <1>2 DEF PredBlock

(* The operand of a Phi on the edge that is taken is where its move looks.  *)
LEMMA OperandLoaded ==
  ASSUME TypeOK, Running, NEW n \in Phis, NEW i \in 1..2, PredBlock(n, i) = block
  PROVE  Load(Stack(slot, tmp), Source(ops[n][i])) = ssa[ops[n][i]]
<1> DEFINE p == ops[n][i]
<1>1. p \in Nodes
  BY PhiFacts
<1>2. NodeBlock[p] \in Dominators[block]
  BY PhiLoweringAssumption DEF TypeOK, PredBlock
<1>3. writeInTmpSlot(p)
  BY DEF writeInTmpSlot
<1> HIDE DEF p
<1>4. ASSUME p \in Phis PROVE Load(Stack(slot, tmp), Source(p)) = ssa[p]
  BY <1>1, <1>2, <1>3, <1>4, SourceLoads DEF Running
<1>5. ASSUME p \notin Phis PROVE Load(Stack(slot, tmp), Source(p)) = ssa[p]
  BY <1>1, <1>5, SourceLoads DEF Running
<1>6. Load(Stack(slot, tmp), Source(p)) = ssa[p]
  BY <1>4, <1>5
<1> QED
  BY <1>6 DEF p

LEMMA JumpKeeps ==
  ASSUME TypeOK, Generated, Running, NEW b \in Blocks, NEW i \in 1..Len(CfgPreds[b]), Jump(b, i)
  PROVE  Running'
<1>1. pc = "run" /\ worklist = <<>> /\ CfgPreds[b][i] = block /\ block' = b /\ UNCHANGED <<code, pc>>
  BY DEF Jump, Generated
<1> DEFINE after == PerformAll(PerformAll(Mem, phiInstrs[block]), startPhi[b])
           written == {d \in Defs : NodeBlock[d] = b}
<1>2. PICK fresh \in [written -> Values] :
        /\ slot' = [n \in Nodes |-> IF n \in DOMAIN fresh THEN fresh[n] ELSE after.slot[n]]
        /\ tmp' = after.tmp
        /\ ssa' = [n \in Nodes |-> IF n \in DOMAIN fresh THEN fresh[n]
                                   ELSE IF n \in Phis /\ NodeBlock[n] = b THEN ssa[ops[n][i]]
                                   ELSE ssa[n]]
  BY DEF Jump
<1>3. Mem = Stack(slot, tmp) /\ OnNodes(slot) /\ OnNodes(tmp) /\ block \in Blocks
  BY DEF Mem, Stack, OnNodes, TypeOK, Running
<1> DEFINE V == [n \in Phis |-> ssa[ops[n][i]]]
<1>4. \A j \in 1..2 : \A n \in Enters(block, j) :
        n \in Phis /\ NodeBlock[n] = b /\ j = i /\ PredBlock(n, j) = block
  BY <1>1, EdgeOfPhi DEF Enters
<1>5. \A j \in 1..2 : \A n \in Enters(block, j) : Load(Stack(slot, tmp), Source(ops[n][j])) = V[n]
  BY <1>4, OperandLoaded
<1>6. phiInstrs[block] \in Seq(EdgeMoves(block)) /\ startPhi[b] \in Seq(SaveMoves(b))
  BY <1>3 DEF Generated, MovesWellPlaced
<1>7. PICK u : /\ PerformAll(Stack(slot, tmp), phiInstrs[block]) = Stack(u, tmp) /\ OnNodes(u)
               /\ \A n \in Nodes : u[n] = slot[n] \/ (u[n] = V[n] /\ \E j \in 1..2 : n \in Enters(block, j))
               /\ \A j \in 1..2 : \A n \in Enters(block, j) :
                    Has(phiInstrs[block], PhiMove(n, j)) => u[n] = V[n]
  <2> HIDE DEF V
  <2> QED
    BY <1>3, <1>5, <1>6, EdgeMovesPerformed
<1>8. PICK w : /\ PerformAll(Stack(u, tmp), startPhi[b]) = Stack(u, w) /\ OnNodes(w)
               /\ \A n \in Nodes : w[n] = tmp[n] \/ (n \in Phis /\ NodeBlock[n] = b /\ w[n] = u[n])
               /\ \A n \in Phis : Has(startPhi[b], SaveMove(n)) => w[n] = u[n]
  BY <1>3, <1>6, SaveMovesPerformed
<1>9. after = Stack(u, w)
  BY <1>3, <1>7, <1>8
<1>10. after.slot = u /\ after.tmp = w
  BY <1>9 DEF Stack
<1> HIDE DEF after
<1>11. DOMAIN fresh = written /\ tmp' = w
  BY <1>2, <1>10
<1>12. \A n \in Nodes : slot'[n] = IF n \in written THEN fresh[n] ELSE u[n]
  BY <1>2, <1>10, <1>11
<1>13. \A n \in Nodes : ssa'[n] = IF n \in written THEN fresh[n]
                                  ELSE IF n \in Phis /\ NodeBlock[n] = b THEN ssa[ops[n][i]]
                                  ELSE ssa[n]
  BY <1>2, <1>11
<1>14. \A n \in Phis : n \in Nodes /\ n \notin written
  BY PhiLoweringAssumption DEF Nodes
<1>15. slot' = [n \in Nodes |-> slot'[n]] /\ tmp' = [n \in Nodes |-> tmp'[n]]
  BY <1>2, <1>8, <1>11 DEF OnNodes
<1>16. ASSUME NEW n \in Nodes, n \notin Phis PROVE slot'[n] = ssa'[n]
  <2>1. u[n] = slot[n]
    BY <1>16, <1>4, <1>7
  <2>2. slot[n] = ssa[n]
    BY <1>16 DEF Running
  <2> QED
    BY <2>1, <2>2, <1>12, <1>13, <1>16
<1>17. ASSUME NEW n \in Consts PROVE ssa'[n] = ConstValue[n]
  <2>1. n \in Nodes /\ n \notin Phis /\ n \notin written
    BY PhiLoweringAssumption DEF Nodes
  <2> QED
    BY <2>1, <1>13 DEF Running
<1>18. ASSUME NEW n \in Phis, NodeBlock[n] \in Dominators[b]
       PROVE  slot'[n] = ssa'[n] /\ (writeInTmpSlot(n) => tmp'[n] = ssa'[n])
  <2>1. CASE NodeBlock[n] = b
    <3>1. Len(CfgPreds[b]) = 2
      BY <2>1, PhiLoweringAssumption
    <3>2. i \in 1..2 /\ PredBlock(n, i) = block
      BY <3>1, <2>1, <1>1 DEF PredBlock
    <3>3. n \in Enters(block, i)
      BY <3>2 DEF Enters
    <3>4. Range(worklist) = {}
      BY <1>1 DEF Range
    <3>5. Has(phiInstrs[block], PhiMove(n, i)) /\ (writeInTmpSlot(n) => Has(startPhi[b], SaveMove(n)))
      BY <3>2, <3>4, <2>1 DEF Generated, MovesComplete
    <3>6. u[n] = ssa[ops[n][i]]
      BY <3>2, <3>3, <3>5, <1>7
    <3>7. slot'[n] = u[n] /\ ssa'[n] = ssa[ops[n][i]]
      BY <2>1, <1>12, <1>13, <1>14
    <3>8. writeInTmpSlot(n) => tmp'[n] = u[n]
      BY <3>5, <1>8, <1>11
    <3> QED
      BY <3>6, <3>7, <3>8
  <2>2. CASE NodeBlock[n] # b
    <3>1. NodeBlock[n] \in Dominators[block]
      BY <2>2, <1>18, <1>1, PhiLoweringAssumption
    <3>2. slot[n] = ssa[n] /\ (writeInTmpSlot(n) => tmp[n] = ssa[n])
      BY <3>1 DEF Running
    <3>3. u[n] = slot[n]
      BY <2>2, <1>4, <1>7, <1>14
    <3>4. w[n] = tmp[n]
      BY <2>2, <1>8, <1>14
    <3>5. slot'[n] = u[n] /\ ssa'[n] = ssa[n] /\ tmp'[n] = w[n]
      BY <2>2, <1>11, <1>12, <1>13, <1>14
    <3> QED
      BY <3>2, <3>3, <3>4, <3>5
  <2> QED
    BY <2>1, <2>2
<1>19. Running'
  <2>1. \A n : (writeInTmpSlot(n)' <=> writeInTmpSlot(n))
    BY <1>1, OpsKept DEF code
  <2>2. ASSUME NEW n \in Phis, NodeBlock[n] \in Dominators[block']
        PROVE  slot'[n] = ssa'[n] /\ (writeInTmpSlot(n)' => tmp'[n] = ssa'[n])
    BY <2>1, <2>2, <1>1, <1>18
  <2> QED
    BY <2>2, <1>15, <1>16, <1>17 DEF Running
<1> QED
  BY <1>19
-----------------------------------------------------------------------------
LEMMA InitHolds == ASSUME Init PROVE IInv
<1>1. TypeOK
  <2>1. worklist \in Seq(Phis) /\ ops \in Methods /\ block \in Blocks
    BY PhiLoweringAssumption DEF Init
  <2> QED
    BY <2>1 DEF Init, TypeOK
<1>2. MovesWellPlaced
  BY DEF Init, MovesWellPlaced
<1>3. MovesComplete
  <2>1. Range(worklist) = Phis
    BY PhiLoweringAssumption DEF Init
  <2> QED
    BY <2>1 DEF MovesComplete
<1>4. Running
  <2>1. \A n \in Phis : NodeBlock[n] \notin Dominators[block]
    <3>1. ASSUME NEW n \in Phis PROVE NodeBlock[n] # Start
      <4>1. Len(CfgPreds[NodeBlock[n]]) = 2 /\ CfgPreds[Start] = <<>>
        BY PhiLoweringAssumption
      <4>2. Len(CfgPreds[Start]) = 0
        BY <4>1
      <4> QED
        BY <4>1, <4>2
    <3>2. Dominators[block] = {Start}
      BY PhiLoweringAssumption DEF Init
    <3> QED
      BY <3>1, <3>2
  <2>2. slot = ssa /\ \A n \in Consts : ssa[n] = ConstValue[n]
    BY DEF Init, Nodes
  <2>3. slot = [n \in Nodes |-> slot[n]] /\ tmp = [n \in Nodes |-> tmp[n]]
    BY DEF Init
  <2> QED
    BY <2>1, <2>2, <2>3 DEF Running
<1>5. pc = "codegen"
  BY DEF Init
<1> QED
  BY <1>1, <1>2, <1>3, <1>4, <1>5 DEF IInv, Generated

LEMMA VisitTypes == ASSUME TypeOK, VisitPhi PROVE TypeOK' /\ UNCHANGED <<ops, memory>>
<1>1. worklist' \in Seq(Phis) /\ UNCHANGED <<ops, memory>>
  BY DEF VisitPhi, TypeOK
<1> QED
  BY <1>1 DEF TypeOK, memory

LEMMA SameMemory == ASSUME Running, UNCHANGED <<ops, memory>> PROVE Running'
<1>1. UNCHANGED <<ops, block, slot, tmp, ssa>>
  BY DEF memory
<1> QED
  BY <1>1 DEF Running, writeInTmpSlot

LEMMA SameCode ==
  ASSUME Generated, UNCHANGED <<ops, worklist, phiInstrs, startPhi>>, pc' = "run" => worklist = <<>>
  PROVE  Generated'
<1>1. /\ \A n, i : PhiMove(n, i)' = PhiMove(n, i)
      /\ \A n : (writeInTmpSlot(n)' <=> writeInTmpSlot(n))
      /\ \A b : EdgeMoves(b)' = EdgeMoves(b)
  BY OpsKept
<1>2. MovesWellPlaced'
  BY <1>1 DEF Generated, MovesWellPlaced, SaveMoves, SaveMove
<1>3. MovesComplete'
  BY <1>1 DEF Generated, MovesComplete, Has, SaveMove, PredBlock, Range
<1> QED
  BY <1>2, <1>3 DEF Generated

LEMMA NextHolds == ASSUME IInv, [Next]_vars PROVE IInv'
<1> USE DEF IInv
<1>1. CASE VisitPhi
  <2>1. TypeOK' /\ UNCHANGED <<ops, memory>>
    BY <1>1, VisitTypes
  <2>2. pc' \in {"codegen", "abort", "run"}
    BY <1>1 DEF VisitPhi, generateSwapPhi, generateNormalPhi
  <2>3. ASSUME SwapsStartInPredecessor' PROVE Generated' /\ Running'
    <3>1. SwapsStartInPredecessor
      BY <2>1, <2>3, OpsKept
    <3> QED
      BY <3>1, <2>1, <1>1, VisitKeeps, SameMemory
  <2> QED
    BY <2>1, <2>2, <2>3
<1>2. CASE StartRun
  <2>1. UNCHANGED <<code, memory>> /\ pc' = "run" /\ worklist = <<>>
    BY <1>2 DEF StartRun
  <2>2. TypeOK'
    BY <2>1 DEF code, memory, TypeOK
  <2>3. ASSUME SwapsStartInPredecessor' PROVE Generated' /\ Running'
    <3>1. SwapsStartInPredecessor
      BY <2>1, <2>3, OpsKept DEF code
    <3>2. Running'
      BY <3>1, <2>1, SameMemory DEF code
    <3> QED
      BY <3>1, <3>2, <2>1, SameCode DEF code
  <2> QED
    BY <2>1, <2>2, <2>3
<1>3. ASSUME NEW b \in Blocks, NEW i \in 1..Len(CfgPreds[b]), Jump(b, i) PROVE IInv'
  <2>1. UNCHANGED <<code, pc>> /\ pc = "run"
    BY <1>3 DEF Jump
  <2>2. TypeOK'
    BY <1>3 DEF Jump, code, TypeOK
  <2>3. ASSUME SwapsStartInPredecessor' PROVE Generated' /\ Running'
    <3>1. SwapsStartInPredecessor
      BY <2>1, <2>3, OpsKept DEF code
    <3>2. Generated'
      BY <3>1, <2>1, SameCode DEF code, Generated
    <3> QED
      BY <3>1, <3>2, <1>3, JumpKeeps
  <2> QED
    BY <2>1, <2>2, <2>3
<1>4. CASE UNCHANGED vars \/ Halt
  <2>1. UNCHANGED vars
    BY <1>4 DEF Halt
  <2>2. UNCHANGED <<ops, memory>> /\ UNCHANGED <<ops, worklist, phiInstrs, startPhi>> /\ UNCHANGED pc
    BY <2>1 DEF vars, memory
  <2>3. TypeOK' /\ pc' \in {"codegen", "abort", "run"}
    BY <2>2 DEF TypeOK, memory
  <2>4. ASSUME SwapsStartInPredecessor' PROVE Generated' /\ Running'
    <3>1. SwapsStartInPredecessor
      BY <2>2, <2>4, OpsKept
    <3>2. pc' = "run" => worklist = <<>>
      BY <3>1, <2>2 DEF Generated
    <3> QED
      BY <3>1, <3>2, <2>2, SameCode, SameMemory
  <2> QED
    BY <2>3, <2>4
<1> QED
  BY <1>1, <1>2, <1>3, <1>4 DEF Next

(* The moves that visitPhi leaves in the blocks (asm_pass.cpp:529-780) give *)
(* every Phi, on every path, the value that SSA gives it.                   *)
THEOREM PhisLowered == Spec => []PhisCorrect
<1>1. Init => IInv
  BY InitHolds
<1>2. IInv /\ [Next]_vars => IInv'
  BY NextHolds
<1>3. IInv => PhisCorrect
  BY DEF IInv, Running, PhisCorrect, SlotsHoldSSA
<1> QED
  BY <1>1, <1>2, <1>3, PTL DEF Spec
=============================================================================
