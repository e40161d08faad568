---------------------------- MODULE SymbolTable ----------------------------
(***************************************************************************)
(* The symbol table of the semantic analysis (symboltable.hpp,             *)
(* symboltable.cpp).  Every interned Symbol caches the definition and the  *)
(* scope it is bound to now; insert() saves the old pair in a Change and   *)
(* leaveScope() destroys the Changes made since the scope was entered,     *)
(* last one first, each destructor writing its saved pair back.            *)
(*                                                                         *)
(* A Scope is a heap object: its address may be handed out again as soon   *)
(* as leaveScope() has freed it, and isDefinedInCurrentScope() compares    *)
(* addresses.  Each iteration of the loop in leaveScope() is one step, so  *)
(* that the order of the destructors matters.                              *)
(***************************************************************************)
EXTENDS Naturals, Sequences

CONSTANTS Symbols,    \* the interned names (StringTable::symbols)
          Defs,       \* ast nodes that are Definitions
          NullDef,    \* a null Definition*
          Addrs,      \* addresses the allocator hands out for Scopes
          NullScope,  \* a null Scope*
          MaxChanges  \* bound: length of the undo log

ASSUME NullsAssumption == NullDef \notin Defs /\ NullScope \notin Addrs

VARIABLES currentDef,   \* Symbol::currentDef, of every symbol
          currentScope, \* Symbol::currentScope, of every symbol
          changes,      \* SymbolTable::changes, newest last
          scopes,       \* the chain from SymbolTable::currentScope, innermost last
          pc            \* "ready", or "leaving": inside the loop of leaveScope()

vars == <<currentDef, currentScope, changes, scopes, pc>>

Change == [sym : Symbols, prevDef : Defs \cup {NullDef},
           prevScope : Addrs \cup {NullScope}]
Scope == [addr : Addrs, oldSize : Nat]

TypeOK == /\ currentDef \in [Symbols -> Defs \cup {NullDef}]
          /\ currentScope \in [Symbols -> Addrs \cup {NullScope}]
          /\ changes \in Seq(Change)
          /\ scopes \in Seq(Scope)
          /\ pc \in {"ready", "leaving"}

LiveAddrs == {scopes[i].addr : i \in 1..Len(scopes)}

(* SymbolTable::currentScope.get() *)
ScopePtr == IF scopes = <<>> THEN NullScope ELSE scopes[Len(scopes)].addr

Init == /\ currentDef = [s \in Symbols |-> NullDef]
        /\ currentScope = [s \in Symbols |-> NullScope]
        /\ changes = <<>>
        /\ scopes = <<>>
        /\ pc = "ready"

-----------------------------------------------------------------------------
EnterScopeOffByOne ==
  /\ pc = "ready"
  /\ \E a \in Addrs \ LiveAddrs :
        scopes' = Append(scopes, [addr |-> a,
                                  oldSize |-> IF changes = <<>> THEN 0 ELSE Len(changes) - 1])
  /\ UNCHANGED <<currentDef, currentScope, changes, pc>>

EnterScope ==
  /\ pc = "ready"
  /\ \E a \in Addrs \ LiveAddrs :
        scopes' = Append(scopes, [addr |-> a, oldSize |-> Len(changes)])
  /\ UNCHANGED <<currentDef, currentScope, changes, pc>>

(* insert(): the constructor of Change saves the pair and overwrites it. *)
Insert(s, d) ==
  /\ pc = "ready"
  /\ Len(changes) < MaxChanges
  /\ changes' = Append(changes, [sym |-> s, prevDef |-> currentDef[s],
                                 prevScope |-> currentScope[s]])
  /\ currentDef' = [currentDef EXCEPT ![s] = d]
  /\ currentScope' = [currentScope EXCEPT ![s] = ScopePtr]
  /\ UNCHANGED <<scopes, pc>>

(* leaveScope() is called; the callers pair it with enterScope(). *)
LeaveScope ==
  /\ pc = "ready"
  /\ scopes # <<>>
  /\ pc' = "leaving"
  /\ UNCHANGED <<currentDef, currentScope, changes, scopes>>

(* What std::deque::resize might do: destroy the oldest Change first. *)
PopOldestChange ==
  /\ pc = "leaving"
  /\ Len(changes) > scopes[Len(scopes)].oldSize
  /\ LET k == scopes[Len(scopes)].oldSize + 1
         c == changes[k]
     IN /\ currentDef' = [currentDef EXCEPT ![c.sym] = c.prevDef]
        /\ currentScope' = [currentScope EXCEPT ![c.sym] = c.prevScope]
        /\ changes' = SubSeq(changes, 1, k - 1) \o SubSeq(changes, k + 1, Len(changes))
  /\ UNCHANGED <<scopes, pc>>

PopChangeKeepScope ==
  /\ pc = "leaving"
  /\ Len(changes) > scopes[Len(scopes)].oldSize
  /\ LET c == changes[Len(changes)]
     IN currentDef' = [currentDef EXCEPT ![c.sym] = c.prevDef]
  /\ changes' = SubSeq(changes, 1, Len(changes) - 1)
  /\ UNCHANGED <<currentScope, scopes, pc>>

(* One iteration: changes.pop_back() runs the destructor of the newest Change. *)
PopChange ==
  /\ pc = "leaving"
  /\ Len(changes) > scopes[Len(scopes)].oldSize
  /\ LET c == changes[Len(changes)]
     IN /\ currentDef' = [currentDef EXCEPT ![c.sym] = c.prevDef]
        /\ currentScope' = [currentScope EXCEPT ![c.sym] = c.prevScope]
  /\ changes' = SubSeq(changes, 1, Len(changes) - 1)
  /\ UNCHANGED <<scopes, pc>>

(* The loop is over: currentScope becomes the parent, the Scope is freed. *)
FreeScope ==
  /\ pc = "leaving"
  /\ Len(changes) <= scopes[Len(scopes)].oldSize
  /\ scopes' = SubSeq(scopes, 1, Len(scopes) - 1)
  /\ pc' = "ready"
  /\ UNCHANGED <<currentDef, currentScope, changes>>

Next == \/ EnterScope \/ LeaveScope \/ PopChange \/ FreeScope
        \/ \E s \in Symbols, d \in Defs : Insert(s, d)

Spec == Init /\ [][Next]_vars

-----------------------------------------------------------------------------
lookup(s) == currentDef[s]

isDefinedInCurrentScope(s) == currentScope[s] = ScopePtr
-----------------------------------------------------------------------------
(* The changes made in scope number n (0 stands for outside every scope)  *)
(* are changes[k] for k in SegStart(n)+1 .. SegEnd(n).                     *)
SegStart(n) == IF n = 0 THEN 0 ELSE scopes[n].oldSize
SegEnd(n) == IF n < Len(scopes) THEN scopes[n + 1].oldSize ELSE Len(changes)
ChangedIn(n, s) == \E k \in (SegStart(n) + 1)..SegEnd(n) : changes[k].sym = s

(* The oldest change to s after the first k changes. *)
IsNextChange(i, k, s) == /\ i \in (k + 1)..Len(changes)
                         /\ changes[i].sym = s
                         /\ \A j \in (k + 1)..(i - 1) : changes[j].sym # s

(* What currentDef[s] and currentScope[s] were when the log had k entries,  *)
(* and will be again once it is unwound to that length.                     *)
DefAt(k, s) == IF \E i \in 1..Len(changes) : IsNextChange(i, k, s)
               THEN changes[CHOOSE i \in 1..Len(changes) : IsNextChange(i, k, s)].prevDef
               ELSE currentDef[s]
ScopeAt(k, s) == IF \E i \in 1..Len(changes) : IsNextChange(i, k, s)
                 THEN changes[CHOOSE i \in 1..Len(changes) : IsNextChange(i, k, s)].prevScope
                 ELSE currentScope[s]

(* The frames the table stands for.  From the moment leaveScope() is called *)
(* the innermost scope counts as left.                                      *)
Frame(n) == [s \in Symbols |-> IF ChangedIn(n, s) THEN DefAt(SegEnd(n), s) ELSE NullDef]
Depth == IF pc = "leaving" THEN Len(scopes) - 1 ELSE Len(scopes)
Frames == [i \in 1..(Depth + 1) |-> Frame(i - 1)]

Env == INSTANCE ScopedEnv WITH frames <- Frames

(* Entering, inserting and leaving do to the table exactly what they do to  *)
(* lexically nested scopes: the undo log of symboltable.hpp:94-110 loses    *)
(* and resurrects no declaration of an outer scope.                         *)
RefinesScopedEnv == Env!Spec

(* lookup() and isDefinedInCurrentScope(), the two queries of               *)
(* symboltable.cpp:48-54, answer for every name what the nested scopes say  *)
(* (the second is meaningful only inside a scope: outside, null equals null).*)
QueriesAgree ==
  pc = "ready" => \A s \in Symbols :
                 /\ Env!Means(s, lookup(s))
                 /\ scopes # <<>> => (isDefinedInCurrentScope(s) <=> Env!DeclaredHere(s))

(* No symbol and no saved Change holds the address of a freed Scope, so an  *)
(* address that the allocator reuses is never mistaken for the old scope    *)
(* (the pointer comparison of symboltable.cpp:53).                          *)
NoDanglingScope ==
  /\ \A s \in Symbols : currentScope[s] \in LiveAddrs \cup {NullScope}
  /\ \A k \in 1..Len(changes) : changes[k].prevScope \in LiveAddrs \cup {NullScope}

=============================================================================
