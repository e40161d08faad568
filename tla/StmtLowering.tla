---------------------------- MODULE StmtLowering ----------------------------
(***************************************************************************)
(* From the statements of a method to its control flow graph.  The parser  *)
(* builds the statement tree, SemanticVisitor computes for every statement *)
(* whether it always returns (cfb) and erases what follows it, FirmVisitor *)
(* creates the blocks, and remove_critical_edges splits edges.  The graph  *)
(* is then executed side by side with the statements, unpruned.            *)
(*                                                                         *)
(* Expressions are events; how a condition becomes control flow is the     *)
(* subject of BoolLowering.                                                *)
(***************************************************************************)
EXTENDS Naturals, Sequences, SequencesExt, FiniteSets, FiniteSetsExt

CONSTANTS Families   \* the kinds of methods to choose from, records
                     \*   kinds     the statements: [op, cond, shape], see below
                     \*   roots     the blocks that are bodies of methods
                     \*   maxNodes  bound: statements in a method

ASSUME FamiliesAssumption ==
  \A f \in Families : \A k \in f.kinds \cup f.roots :
    /\ k \in [op : {"expr", "return", "block", "if", "while"}, cond : {"c", "true", "false"},
              shape : Seq(BOOLEAN)]
    /\ k.op = "if" => Len(k.shape) = 2
    /\ k.op = "while" => Len(k.shape) = 1

(* op is "expr", "return", "block", "if" or "while"; cond is "c" (decided   *)
(* at run time), "true" or "false"; shape says which children are there:    *)
(* then and else, the body, the statements of a block.  An empty statement  *)
(* is no child (parseStmt returns nullptr).                                 *)
NoStmt == 0

VARIABLES phase,   \* "parse", "sema", "lower", "scan", "split", "run", "done", "error"
          family,  \* one of Families
          isVoid,  \* the return type is void (or the method is main)
          stmts,   \* the statements in source order, 1 is the body
          slots,   \* children the parser has still to read
          cfb,     \* ControlFlowBehavior of the statements visited so far
          kept,    \* of a block: the statements that were not erased
          preds,   \* of each block: the edges into it, in order
          code,    \* of each block: the expressions evaluated in it
          mature,  \* the blocks that take no more predecessors
          cur,     \* the current block
          alive,   \* the blocks that End keeps alive
          tasks,   \* what the visitor methods that are active have still to do
          newBlocks, numBlockPreds, numBlockSuccs,   \* remove_critical_edges
          block, pos, todo   \* execution: block and position; statements to run

source == <<family, isVoid, stmts, slots>>
sema == <<cfb, kept>>
blocks == <<preds, code, mature, cur, alive>>
scan == <<newBlocks, numBlockPreds, numBlockSuccs>>
exec == <<block, pos, todo>>
vars == <<phase, source, sema, blocks, tasks, scan, exec>>

EndBlock == 1
FirstBlock == 2

Init ==
  /\ phase = "parse" /\ family \in Families /\ isVoid \in BOOLEAN
  /\ stmts = <<>> /\ slots = <<<<NoStmt, 1>>>>
  /\ cfb = <<>> /\ kept = <<>>
  /\ preds = <<<<>>, <<>>>> /\ code = <<<<>>, <<>>>>
  /\ mature = {} /\ cur = FirstBlock /\ alive = <<>>
  /\ tasks = <<>>
  /\ newBlocks = <<>> /\ numBlockPreds = <<>> /\ numBlockSuccs = <<>>
  /\ block = FirstBlock /\ pos = 1 /\ todo = <<>>
-----------------------------------------------------------------------------
(*                              Parser                                     *)

Op(n) == stmts[n].op
Cond(n) == stmts[n].cond
Stmts(n) == stmts[n].kids
Children(n) == Range(stmts[n].kids) \ {NoStmt}
Then(n) == stmts[n].kids[1]
Else(n) == stmts[n].kids[2]
Body(n) == stmts[n].kids[1]

(* The children of p with child n in place i; a block has no empty places. *)
WithChild(p, i, n) ==
  IF Op(p) = "block" THEN Append(Stmts(p), n) ELSE [stmts[p].kids EXCEPT ![i] = n]

(* parseBlockStatement, parseStmt: the next statement, of kind k. *)
Parse(k) ==
  LET n == Len(stmts) + 1
      parent == Head(slots)[1]
      present == SetToSortSeq({i \in DOMAIN k.shape : k.shape[i]}, <)
      node == [op |-> k.op, cond |-> k.cond,
               kids |-> IF k.op = "block" THEN <<>> ELSE [i \in DOMAIN k.shape |-> NoStmt]]
      above == IF parent = NoStmt THEN stmts
               ELSE [stmts EXCEPT ![parent].kids = WithChild(parent, Head(slots)[2], n)]
  IN /\ phase = "parse" /\ slots # <<>>
     /\ (parent = NoStmt) => k \in family.roots
     /\ n + Len(slots) - 1 + Len(present) <= family.maxNodes
     /\ stmts' = Append(above, node)
     /\ slots' = [i \in 1..Len(present) |-> <<n, present[i]>>] \o Tail(slots)
     /\ UNCHANGED <<phase, family, isVoid, sema, blocks, tasks, scan, exec>>

Parsed ==
  /\ phase = "parse" /\ slots = <<>>
  /\ phase' = "sema"
  /\ kept' = [n \in DOMAIN stmts |-> Stmts(n)]
  /\ cfb' = [n \in DOMAIN stmts |-> "unknown"]
  /\ UNCHANGED <<source, blocks, tasks, scan, exec>>
-----------------------------------------------------------------------------
(*                          SemanticVisitor                                *)

(* The statement whose visit ends next: children first, in order. *)
Visited(n) == cfb[n] # "unknown"
Due(n) == ~Visited(n) /\ \A k \in Children(n) : Visited(k)

CfbOf(n) == IF n = NoStmt THEN "MayContinue" ELSE cfb[n]

combineCFBEither(c1, c2) == IF "Return" \in {c1, c2} THEN "Return" ELSE "MayContinue"

combineCFB(c1, c2) == IF c1 = c2 THEN c1 ELSE "MayContinue"

(* The statements of a block up to the first one that always returns. *)
Returning(n) == {i \in DOMAIN Stmts(n) : cfb[Stmts(n)[i]] = "Return"}
UpToReturn(n) == IF Returning(n) = {} THEN Stmts(n) ELSE SubSeq(Stmts(n), 1, Min(Returning(n)))

(* visitBlock, after its statements were visited. *)
VisitBlock(n) ==
  /\ cfb' = [cfb EXCEPT ![n] = IF Returning(n) = {} THEN "MayContinue" ELSE "Return"]
  /\ kept' = [kept EXCEPT ![n] = UpToReturn(n)]

(* visitIfStatement, visitWhileStatement, visitReturnStatement; other       *)
(* statements keep the value they are created with.                         *)
VisitOther(n) ==
  /\ cfb' = [cfb EXCEPT ![n] = CASE Op(n) = "if" -> combineCFB(CfbOf(Then(n)), CfbOf(Else(n)))
                                 [] Op(n) = "return" -> "Return"
                                 [] OTHER -> "MayContinue"]
  /\ UNCHANGED kept

Sema ==
  /\ phase = "sema" /\ ~Visited(1)
  /\ \E n \in DOMAIN stmts :
       /\ Due(n) /\ \A m \in DOMAIN stmts : Due(m) => n <= m
       /\ IF Op(n) = "block" THEN VisitBlock(n) ELSE VisitOther(n)
  /\ UNCHANGED <<phase, source, blocks, tasks, scan, exec>>

StmtTask(n) == [do |-> "stmt", n |-> n, b |-> 0]
SetBlock(b) == [do |-> "set", n |-> NoStmt, b |-> b]
JmpTo(n, b) == [do |-> "jmp", n |-> n, b |-> b]
EndLoop(n, b) == [do |-> "endloop", n |-> n, b |-> b]

(* The end of visitRegularMethod: "Non-Void method must return a value on   *)
(* every path"; otherwise FirmVisitor gets the method.                      *)
Accept ==
  /\ phase = "sema" /\ Visited(1)
  /\ IF ~isVoid /\ cfb[1] # "Return"
     THEN phase' = "error" /\ UNCHANGED tasks
     ELSE phase' = "lower" /\ tasks' = <<StmtTask(1)>>
  /\ UNCHANGED <<source, sema, blocks, scan, exec>>
-----------------------------------------------------------------------------
(*                            FirmVisitor                                  *)

Edge(b, on) == [src |-> b, on |-> on]

(* The edges out of the current block that a condition creates; a literal   *)
(* makes a jump and a Bad.                                                  *)
CondEdges(n) == CASE Cond(n) = "c" -> <<Edge(cur, "true"), Edge(cur, "false")>>
                  [] Cond(n) = "true" -> <<Edge(cur, "jmp"), Edge(cur, "bad")>>
                  [] Cond(n) = "false" -> <<Edge(cur, "bad"), Edge(cur, "jmp")>>
Evaluate(n, b) == IF Cond(n) = "c" THEN [code EXCEPT ![b] = Append(@, n)] ELSE code

(* p with edge e into block b *)
AddPred(p, b, e) == [p EXCEPT ![b] = Append(@, e)]
Grow(s, k) == s \o [i \in 1..k |-> <<>>]

Do(what) == phase = "lower" /\ tasks # <<>> /\ Head(tasks).do = what
DoStmt(op) == Do("stmt") /\ Op(Head(tasks).n) = op

(* visitExpressionStatement, visitVariableDeclaration *)
LowerExpr ==
  /\ DoStmt("expr")
  /\ code' = [code EXCEPT ![cur] = Append(@, Head(tasks).n)]
  /\ tasks' = Tail(tasks)
  /\ UNCHANGED <<phase, source, sema, preds, mature, cur, alive, scan, exec>>

(* visitReturnStatement *)
LowerReturn ==
  /\ DoStmt("return")
  /\ code' = [code EXCEPT ![cur] = Append(@, Head(tasks).n)]
  /\ preds' = AddPred(preds, EndBlock, Edge(cur, "ret"))
  /\ tasks' = Tail(tasks)
  /\ UNCHANGED <<phase, source, sema, mature, cur, alive, scan, exec>>

LowerBlock ==
  /\ DoStmt("block")
  /\ LET ss == kept[Head(tasks).n]
     IN tasks' = [i \in 1..Len(ss) |-> StmtTask(ss[i])] \o Tail(tasks)
  /\ UNCHANGED <<phase, source, sema, blocks, scan, exec>>

(* visitIfStatement, up to the branches; a missing branch is the block      *)
(* after the statement.                                                     *)
LowerIf ==
  /\ DoStmt("if")
  /\ LET n == Head(tasks).n
         after == Len(preds) + 1
         has(s) == s # NoStmt
         thenBlock == IF has(Then(n)) THEN after + 1 ELSE after
         elseBlock == IF has(Else(n)) THEN thenBlock + 1 ELSE after
         es == CondEdges(n)
         new == 1 + (IF has(Then(n)) THEN 1 ELSE 0) + (IF has(Else(n)) THEN 1 ELSE 0)
         branch(s, b) == IF has(s) THEN <<SetBlock(b), StmtTask(s), JmpTo(s, after)>> ELSE <<>>
     IN /\ preds' = AddPred(AddPred(Grow(preds, new), thenBlock, es[1]), elseBlock, es[2])
        /\ code' = Grow(Evaluate(n, cur), new)
        /\ mature' = mature \cup ({thenBlock, elseBlock} \ {after})
        /\ tasks' = branch(Then(n), thenBlock) \o branch(Else(n), elseBlock)
                      \o <<SetBlock(after)>> \o Tail(tasks)
  /\ UNCHANGED <<phase, source, sema, cur, alive, scan, exec>>

(* Where the code goes on; mature_immBlock is idempotent. *)
SetCurBlock ==
  /\ Do("set")
  /\ cur' = Head(tasks).b
  /\ mature' = mature \cup {Head(tasks).b}
  /\ tasks' = Tail(tasks)
  /\ UNCHANGED <<phase, source, sema, preds, code, alive, scan, exec>>

(* The end of a branch. *)
Jump ==
  /\ Do("jmp")
  /\ preds' = IF cfb[Head(tasks).n] = "MayContinue"
              THEN AddPred(preds, Head(tasks).b, Edge(cur, "jmp")) ELSE preds
  /\ tasks' = Tail(tasks)
  /\ UNCHANGED <<phase, source, sema, code, mature, cur, alive, scan, exec>>

WhileMaturesPreHeader(pre) == pre..(pre + 3)

WhileMatures(pre) == (pre + 1)..(pre + 3)

(* visitWhileStatement, up to the body: pre-header, header, loop and the    *)
(* block after it; the pre-header is matured last.                          *)
LowerWhile ==
  /\ DoStmt("while")
  /\ LET n == Head(tasks).n
         pre == Len(preds) + 1
         header == pre + 1
         loop == pre + 2
         after == pre + 3
         entered == AddPred(AddPred(Grow(preds, 4), pre, Edge(cur, "jmp")), header, Edge(pre, "jmp"))
         es == [i \in 1..2 |-> [CondEdges(n)[i] EXCEPT !.src = header]]
     IN /\ preds' = AddPred(AddPred(entered, loop, es[1]), after, es[2])
        /\ code' = [Grow(code, 4) EXCEPT ![header] = IF Cond(n) = "c" THEN <<n>> ELSE <<>>]
        /\ mature' = mature \cup WhileMatures(pre)
        /\ cur' = loop
        /\ tasks' = (IF Body(n) = NoStmt THEN <<>> ELSE <<StmtTask(Body(n))>>)
                      \o <<EndLoop(Body(n), pre), SetBlock(after)>> \o Tail(tasks)
  /\ UNCHANGED <<phase, source, sema, alive, scan, exec>>

LowerEndLoopNoKeep ==
  /\ Do("endloop")
  /\ preds' = IF CfbOf(Head(tasks).n) = "MayContinue"
              THEN AddPred(preds, Head(tasks).b, Edge(cur, "jmp")) ELSE preds
  /\ mature' = mature \cup {Head(tasks).b}
  /\ tasks' = Tail(tasks)
  /\ UNCHANGED <<phase, source, sema, code, cur, alive, scan, exec>>

(* The end of visitWhileStatement: keep_alive, the jump back to the         *)
(* pre-header unless the body returns.                                      *)
LowerEndLoop ==
  /\ Do("endloop")
  /\ alive' = Append(alive, cur)
  /\ preds' = IF CfbOf(Head(tasks).n) = "MayContinue"
              THEN AddPred(preds, Head(tasks).b, Edge(cur, "jmp")) ELSE preds
  /\ mature' = mature \cup {Head(tasks).b}
  /\ tasks' = Tail(tasks)
  /\ UNCHANGED <<phase, source, sema, code, cur, scan, exec>>

(* The end of visitRegularMethod and visitMainMethod: the return at the end *)
(* of a void method; irg_finalize_cons matures the end block.               *)
FinishMethod ==
  /\ phase = "lower" /\ tasks = <<>>
  /\ preds' = IF isVoid /\ cfb[1] = "MayContinue"
              THEN AddPred(preds, EndBlock, Edge(cur, "ret")) ELSE preds
  /\ mature' = mature \cup {cur, EndBlock}
  /\ phase' = "scan"
  /\ newBlocks' = <<EndBlock>> \o alive
  /\ UNCHANGED <<source, sema, code, cur, alive, tasks, numBlockPreds, numBlockSuccs, exec>>
-----------------------------------------------------------------------------
(*                        remove_critical_edges                            *)

Counted(b) == b \in DOMAIN numBlockPreds
IsReal(e) == e.on # "bad"
SuccsOf(b) == IF b \in DOMAIN numBlockSuccs THEN numBlockSuccs[b] ELSE 0

(* The blocks that the edges es come from; a Bad has no block. *)
Sources(es) ==
  LET found[i \in 0..Len(es)] == IF i = 0 THEN <<>>
                                 ELSE IF IsReal(es[i]) THEN Append(found[i - 1], es[i].src)
                                 ELSE found[i - 1]
  IN found[Len(es)]

(* The next block of the queue. *)
Scan ==
  /\ phase = "scan" /\ newBlocks # <<>>
  /\ LET b == Head(newBlocks)
         found == Sources(preds[b])
         edges(c) == {i \in DOMAIN preds[b] : IsReal(preds[b][i]) /\ preds[b][i].src = c}
     IN IF Counted(b)
        THEN newBlocks' = Tail(newBlocks) /\ UNCHANGED <<numBlockPreds, numBlockSuccs>>
        ELSE /\ newBlocks' = Tail(newBlocks) \o found
             /\ numBlockPreds' = [c \in DOMAIN numBlockPreds \cup {b} |->
                                    IF c = b THEN Len(preds[b]) ELSE numBlockPreds[c]]
             /\ numBlockSuccs' = [c \in DOMAIN numBlockSuccs \cup Range(found) |->
                                    SuccsOf(c) + Cardinality(edges(c))]
  /\ UNCHANGED <<phase, source, sema, blocks, tasks, exec>>

ScanDone ==
  /\ phase = "scan" /\ newBlocks = <<>>
  /\ phase' = "split"
  /\ UNCHANGED <<source, sema, blocks, tasks, scan, exec>>

IsCritical(e) == IsReal(e) /\ SuccsOf(e.src) > 1

(* For each number of edges into b: the critical ones among them. *)
Critical(b) ==
  LET crit[i \in 0..Len(preds[b])] == IF i = 0 THEN <<>>
                                      ELSE IF IsCritical(preds[b][i]) THEN Append(crit[i - 1], preds[b][i])
                                      ELSE crit[i - 1]
  IN crit

(* The new predecessors of block b: the i-th critical edge goes through the *)
(* i-th new block, in the place of the old edge.                            *)
SplitEdges(b) ==
  [i \in DOMAIN preds[b] |-> IF IsCritical(preds[b][i])
                             THEN Edge(Len(preds) + Len(Critical(b)[i]), "jmp")
                             ELSE preds[b][i]]

(* One block of numBlockPreds, an unordered_map: any order. *)
SplitBlock(b) ==
  LET new == Critical(b)[Len(preds[b])]
  IN /\ phase = "split" /\ Counted(b) /\ numBlockPreds[b] > 1
     /\ preds' = [preds EXCEPT ![b] = SplitEdges(b)] \o [i \in 1..Len(new) |-> <<new[i]>>]
     /\ code' = Grow(code, Len(new))
     /\ numBlockPreds' = [numBlockPreds EXCEPT ![b] = 0]
     /\ UNCHANGED <<phase, source, sema, mature, cur, alive, tasks, newBlocks, numBlockSuccs, exec>>

Run ==
  /\ phase = "split" /\ \A b \in DOMAIN numBlockPreds : numBlockPreds[b] <= 1
  /\ phase' = "run"
  /\ todo' = <<1>>
  /\ UNCHANGED <<source, sema, blocks, tasks, scan, block, pos>>
-----------------------------------------------------------------------------
(*                             Execution                                   *)

On(x) == preds[x[1]][x[2]].on
Exits(b) == {x \in UNION {{c} \X DOMAIN preds[c] : c \in DOMAIN preds} :
               preds[x[1]][x[2]].src = b /\ On(x) # "bad"}
Ons(b) == {On(x) : x \in Exits(b)}
Via(b, on) == (CHOOSE x \in Exits(b) : On(x) = on)[1]

(* What happens next in the graph: a statement, "end" for the return that   *)
(* was added, "stuck"; or the block is left by a jump.                      *)
InCode == pos <= Len(code[block])
GraphMoves == ~InCode /\ Ons(block) = {"jmp"}
GraphEvent == CASE InCode -> <<code[block][pos]>>
                [] ~InCode /\ Ons(block) = {"ret"} -> <<NoStmt>>
                [] OTHER -> <<>>

(* The same for the statements. *)
Decided(n) == Op(n) \in {"if", "while"} /\ Cond(n) # "c"
StmtsMove == todo # <<>> /\ (Op(Head(todo)) = "block" \/ Decided(Head(todo)))
StmtEvent == IF todo = <<>> THEN <<NoStmt>> ELSE <<Head(todo)>>

Only(s) == IF s = NoStmt THEN <<>> ELSE <<s>>
Outcome(n, v) == IF Op(n) = "while"
                 THEN IF v THEN Only(Body(n)) \o <<n>> ELSE <<>>
                 ELSE IF v THEN Only(Then(n)) ELSE Only(Else(n))

MoveStmts ==
  /\ phase = "run" /\ StmtsMove
  /\ LET n == Head(todo)
     IN todo' = (IF Op(n) = "block" THEN Stmts(n) ELSE Outcome(n, Cond(n) = "true")) \o Tail(todo)
  /\ UNCHANGED <<phase, source, sema, blocks, tasks, scan, block, pos>>

MoveGraph ==
  /\ phase = "run" /\ GraphMoves
  /\ block' = Via(block, "jmp")
  /\ pos' = 1
  /\ UNCHANGED <<phase, source, sema, blocks, tasks, scan, todo>>

(* Both evaluate the same expression; a condition has one outcome. *)
Agree(v) ==
  /\ phase = "run" /\ ~StmtsMove /\ ~GraphMoves /\ StmtEvent = GraphEvent
  /\ LET n == StmtEvent[1]
         op == IF n = NoStmt THEN "return" ELSE Op(n)
     IN \/ /\ op = "expr" /\ v
           /\ pos' = pos + 1 /\ todo' = Tail(todo) /\ UNCHANGED <<phase, block>>
        \/ /\ op \in {"if", "while"}
           /\ block' = Via(block, IF v THEN "true" ELSE "false") /\ pos' = 1
           /\ todo' = Outcome(n, v) \o Tail(todo) /\ UNCHANGED phase
        \/ /\ op = "return" /\ v
           /\ phase' = "done" /\ UNCHANGED <<block, pos, todo>>
  /\ UNCHANGED <<source, sema, blocks, tasks, scan>>

Stopped == phase \in {"done", "error"} /\ UNCHANGED vars

Next ==
  \/ \E k \in family.kinds \cup family.roots : Parse(k)
  \/ Parsed \/ Sema \/ Accept
  \/ LowerExpr \/ LowerReturn \/ LowerBlock \/ LowerIf \/ SetCurBlock \/ Jump
  \/ LowerWhile \/ LowerEndLoop \/ FinishMethod
  \/ Scan \/ ScanDone \/ (\E b \in DOMAIN preds : SplitBlock(b)) \/ Run
  \/ MoveStmts \/ MoveGraph \/ (\E v \in BOOLEAN : Agree(v)) \/ Stopped

Spec == Init /\ [][Next]_vars
-----------------------------------------------------------------------------
(* Executing the graph evaluates the same expressions in the same order as  *)
(* executing the statements, and returns where they return: the erased      *)
(* statements were dead, a method that must return a value never falls off  *)
(* its end (semantic_visitor.cpp:82-85, 97-106; firm_visitor.cpp:853-934).  *)
SameBehaviour ==
  (phase = "run" /\ ~StmtsMove /\ ~GraphMoves) => StmtEvent = GraphEvent

(* A block is left once, and nothing is added to a block after its jump     *)
(* (the cfb tests of firm_visitor.cpp:873-885, 927-929, 190, 220); a matured *)
(* block gets no further predecessor, and every block that the visitor       *)
(* created is matured when construction ends (196-198, 228-230, 864-932).    *)
StaysClosed ==
  /\ \A b \in DOMAIN preds : Exits(b) # {} =>
       Ons(b)' = Ons(b) /\ Cardinality(Exits(b)') = Cardinality(Exits(b)) /\ code'[b] = code[b]
  /\ \A b \in mature : preds'[b] = preds[b]
  /\ phase' # "lower" => DOMAIN preds' \ {FirstBlock} \subseteq mature'
BlocksStayClosed == [][phase = "lower" => StaysClosed]_vars

(* After remove_critical_edges no block with two ways out leads to a block  *)
(* with two ways in, also in loops that never end and in code that is never *)
(* reached (firm_visitor.cpp:42-94).                                        *)
NoCriticalEdges == phase \in {"run", "done"} =>
  \A b \in DOMAIN preds : Cardinality(Exits(b)) > 1 =>
    \A x \in Exits(b) : Cardinality({i \in DOMAIN preds[x[1]] : IsReal(preds[x[1]][i])}) = 1
=============================================================================
