----------------------------- MODULE MC_Symbols -----------------------------
(* The symbol table called by the visits of the semantic analysis, or       *)
(* called in every order: by one visit that never ends and may make any     *)
(* call (AnyCall).                                                          *)
EXTENDS SemanticScopes

CONSTANTS TableAddrs, TableChanges

(* A class has up to two fields.                                            *)
MCFieldLists == {<<>>} \cup {<<s>> : s \in Symbols} \cup {f \in Symbols \X Symbols : f[1] # f[2]}

(* Two definitions are enough to tell a right answer from a wrong one.      *)
Table == INSTANCE SymbolTable WITH Defs <- {<<"local", 0>>, <<"local", 1>>},
                                   Addrs <- TableAddrs, MaxChanges <- TableChanges
AnyCall == [do |-> "any"]

SymbolsInit == Init /\ VisitorInit /\ calls \in {<<>>, <<AnyCall>>}

SymbolsNext == \/ VisitNext
               \/ calls = <<AnyCall>> /\ Table!Next /\ UNCHANGED <<calls, visitor>>

SymbolsSpec == SymbolsInit /\ [][SymbolsNext]_visitVars
=============================================================================
