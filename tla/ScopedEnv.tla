----------------------------- MODULE ScopedEnv -----------------------------
(***************************************************************************)
(* What the symbol table promises to the semantic analysis: lexically      *)
(* nested scopes.  Each scope is a frame that holds only the declarations  *)
(* made in it; a name means its innermost declaration.  There is no undo   *)
(* log, no per-symbol cache and no scope pointer here: those are how       *)
(* SymbolTable.tla (symboltable.hpp/.cpp) implements the promise.          *)
(***************************************************************************)
EXTENDS Naturals, Sequences

CONSTANTS Symbols,  \* the interned names
          Defs,     \* the definitions a name can be bound to
          NullDef   \* nullptr, no member of Defs: not defined

VARIABLE frames     \* frames[1] is outside every scope, the last is current

NoDecls == [s \in Symbols |-> NullDef]

TypeOK == /\ frames \in Seq([Symbols -> Defs \cup {NullDef}])
          /\ Len(frames) > 0

Init == frames = <<NoDecls>>

Enter == frames' = Append(frames, NoDecls)

Declare(s, d) == frames' = [frames EXCEPT ![Len(frames)][s] = d]

Leave == /\ Len(frames) > 1
         /\ frames' = SubSeq(frames, 1, Len(frames) - 1)

Next == Enter \/ Leave \/ \E s \in Symbols, d \in Defs : Declare(s, d)

Spec == Init /\ [][Next]_frames

(* d is what s means in the current scope: the declaration of the innermost *)
(* frame that has one, or NullDef when no frame declares s.                 *)
Means(s, d) ==
  \/ \E i \in 1..Len(frames) :
        /\ frames[i][s] = d /\ d # NullDef
        /\ \A j \in (i+1)..Len(frames) : frames[j][s] = NullDef
  \/ d = NullDef /\ \A i \in 1..Len(frames) : frames[i][s] = NullDef

DeclaredHere(s) == frames[Len(frames)][s] # NullDef
=============================================================================
