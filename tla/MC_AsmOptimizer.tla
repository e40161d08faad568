-------------------------- MODULE MC_AsmOptimizer ---------------------------
EXTENDS AsmOptimizer

(* Blocks that call the runtime twice. *)
CallBlocks == {[ops |-> {"read", "flush"}, consts |-> {1}, maxNodes |-> 2, maxPhis |-> 0, exits |-> {"return"}],
               [ops |-> {"print"}, consts |-> {1}, maxNodes |-> 2, maxPhis |-> 0, exits |-> {"jump"}]}
=============================================================================
