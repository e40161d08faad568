--------------------------- MODULE SemanticScopes ---------------------------
(***************************************************************************)
(* Name resolution in the semantic analysis: how SemanticVisitor           *)
(* (semantic_visitor.cpp) drives the symbol table while it walks classes,  *)
(* methods, blocks, declarations and references.  The program is chosen    *)
(* node by node: each action is the visit of one AST node that the grammar *)
(* allows at that point.                                                   *)
(*                                                                         *)
(* A visit makes calls of the SymbolTable (calls), which run before the    *)
(* next visit; leaveScope() takes several steps.                           *)
(***************************************************************************)
EXTENDS SymbolTable, FiniteSets

CONSTANTS MaxParams,   \* bound: parameters of a method
          MaxLocals,   \* bound: variable declarations in a method
          MaxBlocks,   \* bound: nesting of blocks
          FieldLists   \* the fields that a class may have

(* Definitions: fields, parameters and variables (numbered), the argument   *)
(* of main (dummyMainArgDef).                                               *)
Fields == {"field"} \X Symbols
Locals == {"local"} \X (0..(MaxLocals - 1))
Params == {"param"} \X (1..MaxParams)
MainArg == <<"arg", 0>>
Definitions == Fields \cup Locals \cup Params \cup {MainArg}

(* No two fields of a class have the same name: they are sorted and compared *)
(* before the table sees them.                                               *)
ASSUME VisitorAssumption ==
  /\ MaxParams \in Nat /\ MaxLocals \in Nat
  /\ Definitions \subseteq Defs
  /\ \A f \in FieldLists : /\ f \in Seq(Symbols)
                           /\ \A i, j \in 1..Len(f) : f[i] = f[j] => i = j

VARIABLES calls,    \* calls of the table the current visit still makes
          at,       \* "program", "class", "params", "body", "afterMain", "error"
          method,   \* currentMethod: "none", "regular", "main"
          nParams, currentLocalVarDeclNr,
          blocks,   \* blocks that are open in the method
          live,     \* ghost: the declarations in scope, oldest first
          resolved  \* the last reference and what it was resolved to

visitor == <<at, method, nParams, currentLocalVarDeclNr, blocks, live, resolved>>
visitVars == <<vars, calls, visitor>>

enterScope == [do |-> "enter"]
leaveScope == [do |-> "leave"]
insert(s, d) == [do |-> "insert", sym |-> s, def |-> d]

(* A declaration as Java sees it; level is the number of scopes around it.  *)
Decl(s, d, level) == [sym |-> s, def |-> d, level |-> level]
UpTo(level) == SubSeq(live, 1, Cardinality({i \in 1..Len(live) : live[i].level <= level}))

NoRef == [sym |-> "none", def |-> NullDef, static |-> FALSE]

VisitorInit ==
  /\ at = "program" /\ method = "none"
  /\ nParams = 0 /\ currentLocalVarDeclNr = 0 /\ blocks = 0
  /\ live = <<>> /\ resolved = NoRef

VisitInit == Init /\ calls = <<>> /\ VisitorInit
-----------------------------------------------------------------------------
(*                      The calls of a visit                               *)

Call ==
  /\ calls # <<>>
  /\ \/ /\ Head(calls).do = "enter" /\ EnterScope /\ calls' = Tail(calls)
     \/ /\ Head(calls).do = "insert" /\ Insert(Head(calls).sym, Head(calls).def)
        /\ calls' = Tail(calls)
     \/ /\ Head(calls).do = "leave" /\ LeaveScope /\ UNCHANGED calls
     \/ /\ Head(calls).do = "leave" /\ PopChange /\ UNCHANGED calls
     \/ /\ Head(calls).do = "leave" /\ FreeScope /\ calls' = Tail(calls)
  /\ UNCHANGED visitor

Ready == calls = <<>>

(* error() throws; the analysis is over. *)
Error == /\ at' = "error"
         /\ UNCHANGED <<vars, calls, method, nParams, currentLocalVarDeclNr, blocks, live, resolved>>

-----------------------------------------------------------------------------
(*                           Visits                                        *)

(* visitClass, visitFieldList: the class scope with its fields. *)
VisitClass(fields) ==
  /\ Ready /\ at = "program"
  /\ at' = "class"
  /\ calls' = <<enterScope>> \o [i \in 1..Len(fields) |-> insert(fields[i], <<"field", fields[i]>>)]
  /\ live' = [i \in 1..Len(fields) |-> Decl(fields[i], <<"field", fields[i]>>, 1)]
  /\ UNCHANGED <<vars, method, nParams, currentLocalVarDeclNr, blocks, resolved>>

(* visitRegularMethod: all of them come before the main method. *)
VisitRegularMethod ==
  /\ Ready /\ at = "class"
  /\ at' = "params" /\ method' = "regular"
  /\ nParams' = 0 /\ currentLocalVarDeclNr' = 0
  /\ calls' = <<enterScope>>
  /\ UNCHANGED <<vars, blocks, live, resolved>>

VisitParameter(s) ==
  /\ Ready /\ at = "params" /\ method = "regular" /\ nParams < MaxParams
  /\ IF isDefinedInCurrentScope(s)
     THEN Error
     ELSE /\ nParams' = nParams + 1
          /\ calls' = <<insert(s, <<"param", nParams + 1>>)>>
          /\ live' = Append(live, Decl(s, <<"param", nParams + 1>>, 2))
          /\ UNCHANGED <<vars, at, method, currentLocalVarDeclNr, blocks, resolved>>

(* visitMainMethod: the argument goes into the scope of the class.          *)
VisitMainMethod(s) ==
  /\ Ready /\ at = "class"
  /\ at' = "params" /\ method' = "main"
  /\ nParams' = 0 /\ currentLocalVarDeclNr' = 0
  /\ calls' = <<insert(s, MainArg)>>
  /\ live' = Append(live, Decl(s, MainArg, 1))
  /\ UNCHANGED <<vars, blocks, resolved>>

(* visitBlock, up to its statements; also the block of a method. *)
EnterBlock ==
  /\ Ready
  /\ at = "params" \/ (at = "body" /\ blocks < MaxBlocks)
  /\ at' = "body"
  /\ blocks' = blocks + 1
  /\ calls' = <<enterScope>>
  /\ UNCHANGED <<vars, method, nParams, currentLocalVarDeclNr, live, resolved>>

Level == Len(scopes)
IsField(d) == d \in Fields

(* visitVariableDeclaration: only a field may be hidden. *)
VisitVariableDeclaration(s) ==
  /\ Ready /\ at = "body" /\ currentLocalVarDeclNr < MaxLocals
  /\ LET prev == lookup(s)
         d == <<"local", currentLocalVarDeclNr>>
     IN IF isDefinedInCurrentScope(s) \/ (prev # NullDef /\ ~IsField(prev))
        THEN Error
        ELSE /\ calls' = <<insert(s, d)>>
             /\ live' = Append(live, Decl(s, d, Level))
             /\ currentLocalVarDeclNr' = currentLocalVarDeclNr + 1
             /\ UNCHANGED <<vars, at, method, nParams, blocks, resolved>>

VisitVarRefAnyField(s) ==
  /\ Ready /\ at = "body"
  /\ LET def == lookup(s)
     IN IF def \in {NullDef, MainArg}
        THEN Error
        ELSE /\ resolved' = [sym |-> s, def |-> def, static |-> method = "main"]
             /\ UNCHANGED <<vars, calls, at, method, nParams, currentLocalVarDeclNr, blocks, live>>

(* visitVarRef; the name System is not among the symbols.                   *)
VisitVarRef(s) ==
  /\ Ready /\ at = "body"
  /\ LET def == lookup(s)
     IN IF def \in {NullDef, MainArg} \/ (method = "main" /\ IsField(def))
        THEN Error
        ELSE /\ resolved' = [sym |-> s, def |-> def, static |-> method = "main"]
             /\ UNCHANGED <<vars, calls, at, method, nParams, currentLocalVarDeclNr, blocks, live>>

LeaveBlockKeepsParams ==
  /\ Ready /\ at = "body"
  /\ blocks' = blocks - 1
  /\ at' = IF blocks > 1 THEN "body" ELSE IF method = "main" THEN "afterMain" ELSE "class"
  /\ method' = IF blocks > 1 THEN method ELSE "none"
  /\ calls' = <<leaveScope>>
  /\ live' = IF blocks = 1 /\ method = "regular" THEN UpTo(1) ELSE UpTo(Level - 1)
  /\ resolved' = NoRef
  /\ UNCHANGED <<vars, nParams, currentLocalVarDeclNr>>

(* The end of a block, and with the outermost one the end of the method:    *)
(* a regular method also leaves the scope of its parameters.                *)
LeaveBlock ==
  /\ Ready /\ at = "body"
  /\ blocks' = blocks - 1
  /\ at' = IF blocks > 1 THEN "body" ELSE IF method = "main" THEN "afterMain" ELSE "class"
  /\ method' = IF blocks > 1 THEN method ELSE "none"
  /\ calls' = IF blocks = 1 /\ method = "regular" THEN <<leaveScope, leaveScope>> ELSE <<leaveScope>>
  /\ live' = IF blocks = 1 /\ method = "regular" THEN UpTo(1) ELSE UpTo(Level - 1)
  /\ resolved' = NoRef
  /\ UNCHANGED <<vars, nParams, currentLocalVarDeclNr>>

(* The end of visitClass; more than one main method is an error before any  *)
(* is visited.                                                              *)
LeaveClass ==
  /\ Ready /\ at \in {"class", "afterMain"}
  /\ at' = "program"
  /\ calls' = <<leaveScope>>
  /\ live' = <<>>
  /\ UNCHANGED <<vars, method, nParams, currentLocalVarDeclNr, blocks, resolved>>

Rejected == at = "error" /\ UNCHANGED visitVars

VisitNext ==
  \/ Call \/ VisitRegularMethod \/ EnterBlock \/ LeaveBlock \/ LeaveClass \/ Rejected
  \/ \E f \in FieldLists : VisitClass(f)
  \/ \E s \in Symbols : \/ VisitParameter(s) \/ VisitMainMethod(s)
                        \/ VisitVariableDeclaration(s) \/ VisitVarRef(s)

VisitSpec == VisitInit /\ [][VisitNext]_visitVars
-----------------------------------------------------------------------------
LiveDefs(s) == {i \in 1..Len(live) : live[i].sym = s}
Innermost(s) == IF LiveDefs(s) = {} THEN NullDef
                ELSE live[CHOOSE i \in LiveDefs(s) : \A j \in LiveDefs(s) : j <= i].def

(* Between two visits a name means its innermost declaration in scope, and   *)
(* nothing of a method or class that is over (semantic_visitor.cpp:21-107).  *)
NamesMeanInnermost == Ready => \A s \in Symbols : lookup(s) = Innermost(s)

(* The code of main uses neither a field nor its argument, and a reference   *)
(* is to a variable that the number of the graph's variables covers          *)
(* (semantic_visitor.cpp:120-121, 152-162; firm_visitor.cpp:643-654).        *)
ReferencesUsable == resolved # NoRef =>
  /\ resolved.static => resolved.def \in Locals
  /\ resolved.def \in Locals => resolved.def[2] < currentLocalVarDeclNr
  /\ resolved.def \in Params => resolved.def[2] <= nParams
=============================================================================
