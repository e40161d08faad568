----------------------------- MODULE MC_Backend -----------------------------
(* Two questions about the code generation, one instance: a behaviour       *)
(* either lowers the Phis of a method (PhiLowering) or selects and          *)
(* optimizes the instructions of a block (AsmOptimizer); the other machine  *)
(* stays in one of its initial states.                                      *)
EXTENDS PhiLowering, TLC

VARIABLES machine, family, phase, nodes, phis, exit, live, instrs, jumpInstrs, promised, flattenedInstrs

(* Nested loops, as visitWhileStatement builds them:                        *)
(*   s -> h; h -> b, e; b -> k; k -> c, f; c -> k; f -> h,                  *)
(* with the pre-headers h, whose Phis are x, y, z, and k, whose Phis are v  *)
(* and w.  A Phi is never its own operand: libfirm puts its other operand   *)
(* in the place of such one.                                                *)
MCBlocks == {"s", "h", "b", "e", "k", "c", "f"}
MCPreds == [s |-> <<>>, h |-> <<"s", "f">>, b |-> <<"h">>, e |-> <<"h">>,
            k |-> <<"b", "c">>, c |-> <<"k">>, f |-> <<"k">>]
MCDominators == [s |-> {"s"}, h |-> {"s", "h"}, e |-> {"s", "h", "e"}, b |-> {"s", "h", "b"},
                 k |-> {"s", "h", "b", "k"}, c |-> {"s", "h", "b", "k", "c"},
                 f |-> {"s", "h", "b", "k", "f"}]
MCPhis == {"x", "y", "z", "v", "w"}
MCDefs == {"db", "dc"}
MCConsts == {"one", "two"}
MCNodeBlock == [x |-> "h", y |-> "h", z |-> "h", v |-> "k", w |-> "k",
                db |-> "b", dc |-> "c", one |-> "s", two |-> "s"]

(* Lost copies, swaps and rotations of three in the outer loop.             *)
OneLoop == {[x |-> <<"one", i>>, y |-> <<"two", j>>, z |-> <<"one", k>>,
             v |-> <<"x", "dc">>, w |-> <<"y", "v">>] :
               i \in {"y", "z", "db", "v"}, j \in {"x", "z", "one"}, k \in {"x", "y", "w"}}

(* Phis that read each other across the loops.                              *)
AcrossLoops == {[x |-> <<"one", i>>, y |-> <<"two", "db">>, z |-> <<"one", "y">>,
                 v |-> <<j, k>>, w |-> <<l, m>>] :
                   i \in {"v", "w", "db"},
                   j \in {"x", "one", "db"}, k \in {"w", "x", "dc"},
                   l \in {"x", "two"}, m \in {"v", "x", "y"}}

MCMethods == OneLoop \cup AcrossLoops
MCOrders == {<<"x", "y", "z", "v", "w">>, <<"w", "v", "z", "y", "x">>, <<"y", "w", "x", "z", "v">>}

MCConstValue == [one |-> 1, two |-> 2]
MCValues == {1, 2}

(* Families of blocks for AsmOptimizer. *)
Family(operators, consts, maxNodes, maxPhis, exits) ==
  [ops |-> operators, consts |-> consts, maxNodes |-> maxNodes, maxPhis |-> maxPhis, exits |-> exits]

MCFamilies ==
  {Family({"add", "sub", "minus"}, {0, 1}, 2, 0, {"cond", "return"}),
   Family({"add"}, {1}, 2, 3, {"jump"}),
   Family({"addr", "load", "store", "add"}, {0, 1}, 3, 1, {"jump", "return"}),
   Family({"addr", "load", "store", "add"}, {8}, 4, 0, {"jump"}),
   Family({"div", "mod", "sub", "mul"}, {1}, 2, 1, {"jump", "return"}),
   Family({"call", "add"}, {1}, 3, 0, {"jump", "return"}),
   Family({"print", "read", "flush", "allocate"}, {1}, 1, 1, {"jump", "return"})}

Optimizer == INSTANCE AsmOptimizer WITH Families <- MCFamilies, code <- flattenedInstrs

asmVars == <<family, phase, nodes, phis, exit, live, instrs, jumpInstrs, promised, flattenedInstrs>>

BackendInit ==
  \/ /\ machine = "phis" /\ family = CHOOSE f \in MCFamilies : TRUE
     /\ Init /\ Optimizer!Init
  \/ /\ machine = "block" /\ ops = CHOOSE m \in Methods : TRUE
     /\ worklist = CHOOSE w \in Orders : TRUE
     /\ Init /\ Optimizer!Init
BackendNext ==
  \/ machine = "phis" /\ Next /\ UNCHANGED <<machine, asmVars>>
  \/ machine = "block" /\ Optimizer!Next /\ UNCHANGED <<machine, vars>>
BackendSpec == BackendInit /\ [][BackendNext]_<<machine, vars, asmVars>>
-----------------------------------------------------------------------------
(* Every instruction exists, and no pass counts down from the size of an    *)
(* empty block.                                                             *)
Encodable == Optimizer!Encodable

(* Each pass leaves what the block does as it was. *)
SameEffect == Optimizer!SameEffect
=============================================================================
