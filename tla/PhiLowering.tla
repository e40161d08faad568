---------------------------- MODULE PhiLowering ----------------------------
(***************************************************************************)
(* Out of SSA: AsmMethodPass::visitPhi and generateNormalPhi,              *)
(* generateSwapPhi (asm_pass.cpp).  Every node has a stack slot; a Phi is  *)
(* resolved by moves at the end of its predecessor blocks, and a Phi that  *)
(* other Phis read also has a tmp slot, a copy of its slot made at the     *)
(* start of its block.  BasicBlock::flattenInstrs (asm.hpp) fixes the      *)
(* order: startPhiInstrs, instrs, phiInstrs, jumpInstrs.                   *)
(*                                                                         *)
(* First each Phi of a method is visited (VisitPhi), then the resulting    *)
(* moves are executed along any path of the control flow graph, next to    *)
(* the meaning of SSA: entering a block gives all its Phis, at once, the   *)
(* values their operands have on that edge.                                *)
(*                                                                         *)
(* After remove_critical_edges (module StmtLowering) the two predecessors  *)
(* of a Phi's block are different blocks that end in a Jmp to it, so the   *)
(* case needsLabels (generateBoolPhi) does not arise here.                 *)
(***************************************************************************)
EXTENDS Naturals, Sequences, FiniteSets, SequencesExt

CONSTANTS Blocks, Start,  \* the blocks; the start block holds the constants
          CfgPreds,       \* block |-> its predecessors, in order (two, one or none)
          Dominators,     \* block |-> the blocks that dominate it, itself included
          Phis,           \* the Phi nodes
          Defs,           \* other nodes, computed when their block runs
          Consts,         \* Const nodes
          NodeBlock,      \* node |-> its block (get_nodes_block)
          Methods,        \* the possible operands: functions Phi |-> <<node, node>>
          Orders,         \* the orders in which the worklist may visit the Phis
          Values,         \* values at run time
          ConstValue      \* Const node |-> its value

Nodes == Phis \cup Defs \cup Consts

(* A method in SSA form, after remove_critical_edges: a block with Phis has *)
(* two predecessors, which end in a Jmp to it; the block of a Phi's operand *)
(* dominates the end of the predecessor the operand comes from.             *)
ASSUME PhiLoweringAssumption ==
  /\ Phis \cap Defs = {} /\ Phis \cap Consts = {} /\ Defs \cap Consts = {}
  /\ NodeBlock \in [Nodes -> Blocks] /\ \A c \in Consts : NodeBlock[c] = Start
  /\ Start \in Blocks /\ CfgPreds[Start] = <<>> /\ Dominators[Start] = {Start}
  /\ \A b \in Blocks : CfgPreds[b] \in Seq(Blocks)
  /\ \A b \in Blocks : \A i \in 1..Len(CfgPreds[b]) :
       Dominators[b] \subseteq Dominators[CfgPreds[b][i]] \cup {b}
  /\ \A p \in Phis : LET preds == CfgPreds[NodeBlock[p]]
                     IN /\ Len(preds) = 2 /\ preds[1] # preds[2]
                        /\ \A b \in Blocks \ {NodeBlock[p]} : \A i \in 1..Len(CfgPreds[b]) :
                             CfgPreds[b][i] # preds[1] /\ CfgPreds[b][i] # preds[2]
  /\ Methods \subseteq [Phis -> Nodes \X Nodes]
  /\ \A m \in Methods, p \in Phis, i \in 1..2 :
       NodeBlock[m[p][i]] \in Dominators[CfgPreds[NodeBlock[p]][i]]
  /\ \A w \in Orders : w \in Seq(Phis) /\ Range(w) = Phis

VARIABLES ops,       \* the method: the operands of each Phi
          worklist,  \* Phis still to visit
          startPhi,  \* block |-> startPhiInstrs
          phiInstrs, \* block |-> phiInstrs
          pc,        \* "codegen", "abort" (an assert failed), "run"
          block,     \* the block whose instrs run now
          slot, tmp, \* the stack: slots and tmp slots
          ssa        \* the value each node has by the meaning of SSA

vars == <<ops, worklist, startPhi, phiInstrs, pc, block, slot, tmp, ssa>>
code == <<ops, worklist, startPhi, phiInstrs>>
memory == <<block, slot, tmp, ssa>>

Junk == 0   \* whatever an unwritten slot holds

(* A move between locations: <<"slot", n>>, <<"tmp", n>>, <<"imm", v>>.     *)
Move(src, dst) == [src |-> src, dst |-> dst]
getNodeOp(n) == IF n \in Consts THEN <<"imm", ConstValue[n]>> ELSE <<"slot", n>>

Init ==
  /\ ops \in Methods
  /\ worklist \in Orders
  /\ startPhi = [b \in Blocks |-> <<>>]
  /\ phiInstrs = [b \in Blocks |-> <<>>]
  /\ pc = "codegen"
  /\ block = Start
  /\ slot = [n \in Nodes |-> IF n \in Consts THEN ConstValue[n] ELSE Junk]
  /\ tmp = [n \in Nodes |-> Junk]
  /\ ssa = slot
-----------------------------------------------------------------------------
(*                            Code generation                              *)

PredBlock(n, i) == CfgPreds[NodeBlock[n]][i]

(* Two Phis of one block, each an operand of the other. *)
isSwap(n) == \E i, x \in 1..2 : LET pred == ops[n][i]
                                IN /\ pred \in Phis
                                   /\ ops[pred][x] = n
                                   /\ NodeBlock[pred] = NodeBlock[n]

writeInTmpSlotNever(n) == FALSE

(* Some Phi reads n. *)
writeInTmpSlot(n) == \E p \in Phis, i \in 1..2 : ops[p][i] = n

(* Copy a Phi's value to its tmp slot when its block starts. *)
SaveOld(n) == [startPhi EXCEPT ![NodeBlock[n]] =
                 Append(@, Move(<<"slot", n>>, <<"tmp", n>>))]

(* An operand that is a Phi is read from its tmp slot. *)
Source(pred) == IF pred \in Phis THEN <<"tmp", pred>> ELSE getNodeOp(pred)

generateNormalPhi(n) ==
  /\ startPhi' = IF writeInTmpSlot(n) THEN SaveOld(n) ELSE startPhi
  /\ phiInstrs' = [b \in Blocks |->
       IF b = PredBlock(n, 1)
       THEN Append(phiInstrs[b], Move(Source(ops[n][1]), <<"slot", n>>))
       ELSE IF b = PredBlock(n, 2)
       THEN Append(phiInstrs[b], Move(Source(ops[n][2]), <<"slot", n>>))
       ELSE phiInstrs[b]]
  /\ pc' = pc

(* The operand taken for the partner of the swap: the first, if a Phi.      *)
SwapIndex(n) == IF ops[n][1] \in Phis THEN 1 ELSE 2

SwapAsserts(n) ==
  LET phiPred == ops[n][SwapIndex(n)]
      otherPred == ops[n][3 - SwapIndex(n)]
  IN /\ phiPred \in Phis /\ otherPred \notin Phis
     /\ NodeBlock[phiPred] = NodeBlock[n]
     /\ NodeBlock[otherPred] # NodeBlock[n]

(* The partner is read from its tmp slot at the end of the predecessor; the *)
(* other operand is written at the end of the block of that operand.        *)
generateSwapPhi(n) ==
  LET i == SwapIndex(n)
      phiPred == ops[n][i]
      otherPred == ops[n][3 - i]
      fromPhi == [phiInstrs EXCEPT ![PredBlock(n, i)] =
                    Append(@, Move(<<"tmp", phiPred>>, <<"slot", n>>))]
  IN IF SwapAsserts(n)
     THEN /\ startPhi' = SaveOld(n)
          /\ phiInstrs' = [fromPhi EXCEPT ![NodeBlock[otherPred]] =
                             Append(@, Move(getNodeOp(otherPred), <<"slot", n>>))]
          /\ pc' = pc
     ELSE pc' = "abort" /\ UNCHANGED <<startPhi, phiInstrs>>

VisitPhi ==
  /\ pc = "codegen"
  /\ worklist # <<>>
  /\ worklist' = Tail(worklist)
  /\ LET n == Head(worklist)
     IN IF isSwap(n) THEN generateSwapPhi(n) ELSE generateNormalPhi(n)
  /\ UNCHANGED <<ops, memory>>

(* The code is complete; the start block runs. *)
StartRun ==
  /\ pc = "codegen"
  /\ worklist = <<>>
  /\ pc' = "run"
  /\ UNCHANGED <<code, memory>>
-----------------------------------------------------------------------------
(*                              Execution                                  *)

Mem == [slot |-> slot, tmp |-> tmp]
Load(m, loc) == CASE loc[1] = "imm" -> loc[2]
                  [] loc[1] = "slot" -> m.slot[loc[2]]
                  [] loc[1] = "tmp" -> m.tmp[loc[2]]
Perform(m, move) ==
  IF move.dst[1] = "slot" THEN [m EXCEPT !.slot[move.dst[2]] = Load(m, move.src)]
  ELSE [m EXCEPT !.tmp[move.dst[2]] = Load(m, move.src)]
PerformAll(m, moves) ==
  LET after[k \in 0..Len(moves)] == IF k = 0 THEN m ELSE Perform(after[k - 1], moves[k])
  IN after[Len(moves)]

(* The jump from block to b, its i-th predecessor edge: the phiInstrs of    *)
(* block, the startPhiInstrs of b, then the nodes of b are computed.        *)
Jump(b, i) ==
  /\ pc = "run"
  /\ CfgPreds[b][i] = block
  /\ \E fresh \in [{d \in Defs : NodeBlock[d] = b} -> Values] :
       LET after == PerformAll(PerformAll(Mem, phiInstrs[block]), startPhi[b])
       IN /\ slot' = [n \in Nodes |-> IF n \in DOMAIN fresh THEN fresh[n] ELSE after.slot[n]]
          /\ tmp' = after.tmp
          /\ ssa' = [n \in Nodes |->
                       IF n \in DOMAIN fresh THEN fresh[n]
                       ELSE IF n \in Phis /\ NodeBlock[n] = b THEN ssa[ops[n][i]]
                       ELSE ssa[n]]
  /\ block' = b
  /\ UNCHANGED <<code, pc>>

(* A method returns, or its compilation was aborted. *)
Halt == /\ pc = "abort" \/ (pc = "run" /\ \A b \in Blocks : block \notin Range(CfgPreds[b]))
        /\ UNCHANGED vars

Next == \/ VisitPhi \/ StartRun \/ Halt
        \/ \E b \in Blocks : \E i \in 1..Len(CfgPreds[b]) : Jump(b, i)

Spec == Init /\ [][Next]_vars
-----------------------------------------------------------------------------
(* In the current block every Phi whose block dominates it has its SSA      *)
(* value in its slot.                                                       *)
SlotsHoldSSA == pc = "run" =>
  \A n \in Phis : NodeBlock[n] \in Dominators[block] => slot[n] = ssa[n]

(* The initial value of every swapped Phi is computed in the predecessor    *)
(* block it comes from, and is no Phi.                                      *)
SwapsStartInPredecessor ==
  \A n \in Phis : isSwap(n) =>
     SwapAsserts(n) /\ NodeBlock[ops[n][3 - SwapIndex(n)]] = PredBlock(n, 3 - SwapIndex(n))

(* The moves implement the simultaneous assignment of Phis (asm_pass.cpp:    *)
(* 529-780): lost copies, swaps, rotations of three, Phis read by the Phis   *)
(* of an inner loop.  Excepted are methods with a swap whose initial value   *)
(* comes from elsewhere: see SwapsReinitialised, and the asserts 691-692,    *)
(* which fail when that value is a Phi of an outer loop.                     *)
PhisCorrect == SwapsStartInPredecessor => SlotsHoldSSA

(* The initial value of a swapped Phi is moved where the comment of          *)
(* generateSwapPhi (asm_pass.cpp:719) says, "in the predecessor basic        *)
(* blocks", so each time the loop is entered the Phi starts with it.         *)
SwapsReinitialised == SlotsHoldSSA
=============================================================================
