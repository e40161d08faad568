------------------------------ MODULE FrontEnd ------------------------------
(***************************************************************************)
(* The front end (parser.cpp, compiler.cpp): a text is parsed and then, as *)
(* the option says, printed (--print-ast, twice as test/ast_idempotency.sh *)
(* does), checked (--check), or checked and translated (--compile-firm);   *)
(* the translation of the first method of the first class is then run.     *)
(***************************************************************************)
EXTENDS PrettyPrinter

(* A family is a sequence of slots, each with a sequence of pieces of text, *)
(* between two fixed texts; its texts have one piece from each of the first *)
(* m slots, m >= min.                                                       *)
CONSTANTS Families,
          SystemName, OutName, InName, PrintlnName, WriteName, FlushName, ReadName, MainName,
          ToggleName

VARIABLES pass,      \* of the compiler over the text
          option,    \* "print", "check", "compile"
          program,   \* what the parser returned, once it has
          firstTree, \* ghost: the tree of the first pass
          firstText  \* ghost: the output of the first pass

VARIABLES currentProgram, visiting, currentClass, currentMethod, mainMethodCount, verdict
Checker == INSTANCE TypeCheck

checkVars == <<currentProgram, visiting, currentClass, currentMethod, mainMethodCount, verdict>>

VARIABLES phase, todo, st, val, bytes, bases, trace
Translator == INSTANCE FirmMemory WITH ast <- currentProgram

memVars == <<phase, todo, st, val, bytes, bases, trace>>
frontVars == <<tokens, pass, option, program, firstTree, firstText, checkVars, memVars>>

(* The texts of a sequence of slots are numbered: digits choose the pieces. *)
TextCount(slots) == FoldLeft(LAMBDA n, slot : n * Len(slot), 1, slots)
NthText(slots, number) ==
  FoldLeft(LAMBDA t, slot : [rest |-> t.rest \div Len(slot), text |-> t.text \o slot[1 + (t.rest % Len(slot))]],
           [rest |-> number, text |-> <<>>], slots).text

(* Some text of family f. *)
TextOf(f) ==
  \E m \in f.min..Len(f.slots) :
    LET slots == SubSeq(f.slots, 1, m)
    IN \E number \in 0..(TextCount(slots) - 1) : tokens = f.before \o NthText(slots, number) \o f.after

FrontInit ==
  /\ \E f \in DOMAIN Families : TextOf(Families[f]) /\ option = Families[f].option
  /\ pass = "parse" /\ program = Failed
  /\ firstTree = NoNode /\ firstText = <<>>
  /\ Checker!CheckInit(NoNode)
  /\ Translator!MemInit

(* parseProgram; an error ends the compiler. *)
ParseText ==
  /\ pass \in {"parse", "reparse"}
  /\ program' = parseProgram
  /\ pass' = CASE program'.pos = 0 -> "error"
               [] pass = "reparse" -> "reprint"
               [] option = "print" -> "print"
               [] OTHER -> "check"
  /\ currentProgram' = program'.node
  /\ UNCHANGED <<tokens, option, firstTree, firstText, visiting, currentClass, currentMethod,
                 mainMethodCount, verdict, memVars>>

PrintTree ==
  /\ pass = "print"
  /\ firstTree' = program.node /\ firstText' = visitProgram(program.node)
  /\ tokens' = firstText' /\ program' = Failed
  /\ pass' = "reparse"
  /\ UNCHANGED <<option, checkVars, memVars>>

PrintAgain ==
  /\ pass = "reprint"
  /\ tokens' = visitProgram(program.node)
  /\ pass' = "done"
  /\ UNCHANGED <<option, program, firstTree, firstText, checkVars, memVars>>

CheckTree ==
  /\ pass = "check"
  /\ Checker!CheckNext
  /\ UNCHANGED <<tokens, pass, option, program, firstTree, firstText, memVars>>

(* Only what the analysis accepted is translated. *)
TranslateTree ==
  /\ pass = "check" /\ option = "compile" /\ verdict = "accepted"
  /\ Translator!MemNext
  /\ UNCHANGED <<tokens, pass, option, program, firstTree, firstText, checkVars>>

FrontNext == ParseText \/ PrintTree \/ PrintAgain \/ CheckTree \/ TranslateTree
FrontSpec == FrontInit /\ [][FrontNext]_frontVars
-----------------------------------------------------------------------------
Grammar_ == INSTANCE Grammar
Typing == INSTANCE Typing

(* A minus that became the sign of a literal to which a postfix belongs. *)
SignedPostfix ==
  \E i \in DOMAIN tokens : /\ tokens[i].type \in {".", "["} /\ i > 2
                           /\ tokens[i - 1].type = "IntLiteral" /\ tokens[i - 2].type = "-"

(* parseProgram accepts exactly the texts of the language and builds the     *)
(* tree the grammar gives them: operators group by precedence and to the    *)
(* left, assignments to the right, an else belongs to the nearest if, a     *)
(* declaration is told from an expression by two tokens of lookahead.  The  *)
(* language is that of doc/grammar.txt, except that no comma follows the    *)
(* last parameter of a method, where the document asks for one and the      *)
(* parser refuses it (Grammar, ParameterLists).                             *)
ParsesLanguage ==
  pass \in {"print", "error"} /\ option = "print" /\ ~SignedPostfix =>
    Grammar_!Programs = IF pass = "error" THEN {} ELSE {program.node}

(* test/ast_idempotency.sh: what --print-ast writes is accepted, and         *)
(* printing it again writes the same.                                       *)
PrintIsIdempotent ==
  /\ pass = "error" => firstText = <<>>
  /\ pass = "done" => tokens = firstText

(* The tree as printed: branches and bodies are blocks, blocks without       *)
(* statements are empty, an else without statements is gone, members are    *)
(* sorted.                                                                  *)
RECURSIVE PrintedStmt(_)
PrintedBody(s) ==
  IF s = NoNode THEN Block(<<>>) ELSE IF s.n = "Block" THEN PrintedStmt(s) ELSE Block(<<PrintedStmt(s)>>)
PrintedStmt(s) ==
  CASE s.n = "Block" -> Block(IF s.blank THEN <<>> ELSE [i \in DOMAIN s.stmts |-> PrintedStmt(s.stmts[i])])
    [] s.n = "WhileStatement" -> [s EXCEPT !.body = PrintedBody(@)]
    [] s.n = "IfStatement" ->
         [s EXCEPT !.then = PrintedBody(@),
                   !.else = IF @ = NoNode \/ (@.n = "Block" /\ @.blank) THEN NoNode ELSE PrintedBody(@)]
    [] OTHER -> s
PrintedMethods(ms) == [i \in DOMAIN ms |-> [SortedByName(ms)[i] EXCEPT !.block = PrintedStmt(@)]]
PrintedClass(c) == [c EXCEPT !.fields = SortedByName(@), !.methods = PrintedMethods(@),
                             !.mains = PrintedMethods(@)]
Printed(p) == [p EXCEPT !.classes = [i \in DOMAIN @ |-> PrintedClass(SortedByName(@)[i])]]

(* An operator to the left of "." or "[", which needs parentheses that only  *)
(* an operator around it makes the printer write.                           *)
RECURSIVE OperatorUnderPostfix(_)
OperatorUnderPostfix(e) ==
  CASE e.n \in {"FieldAccess", "ArrayAccess", "MethodInvocation"} ->
         \/ e.left.n \in {"BinaryExpression", "UnaryExpression"} \/ OperatorUnderPostfix(e.left)
         \/ e.n = "ArrayAccess" /\ OperatorUnderPostfix(e.index)
         \/ e.n = "MethodInvocation" /\ \E i \in DOMAIN e.args : OperatorUnderPostfix(e.args[i])
    [] e.n = "BinaryExpression" -> OperatorUnderPostfix(e.left) \/ OperatorUnderPostfix(e.right)
    [] e.n \in {"UnaryExpression", "ExpressionStatement", "ReturnStatement"} -> OperatorUnderPostfix(e.expr)
    [] e.n = "NewArrayExpression" -> OperatorUnderPostfix(e.size)
    [] e.n = "VariableDeclaration" -> OperatorUnderPostfix(e.init)
    [] e.n = "WhileStatement" -> OperatorUnderPostfix(e.cond) \/ OperatorUnderPostfix(e.body)
    [] e.n = "IfStatement" -> \/ OperatorUnderPostfix(e.cond) \/ OperatorUnderPostfix(e.then)
                              \/ OperatorUnderPostfix(e.else)
    [] e.n = "Block" -> \E i \in DOMAIN e.stmts : OperatorUnderPostfix(e.stmts[i])
    [] OTHER -> FALSE
Methods(p) == UNION {ToSet(p.classes[i].methods) \cup ToSet(p.classes[i].mains) : i \in DOMAIN p.classes}

(* The output of --print-ast stands for the same program: the parentheses     *)
(* the printer places, and the flag it carries from one expression to the   *)
(* next, change no grouping, whatever the statements before left the flag   *)
(* at.  Not so for an operator under a postfix, where visitFieldAccess and   *)
(* its like ask for no parentheses.                                         *)
PrintKeepsProgram ==
  pass = "reprint" /\ (\A m \in Methods(firstTree) : ~OperatorUnderPostfix(m.block)) =>
    program.node = Printed(firstTree)

(* System that is not the start of a call on System.out or System.in. *)
StraySystem ==
  \E i \in DOMAIN tokens :
    /\ tokens[i] = Ident(SystemName)
    /\ ~(/\ At(i + 1).type = "." /\ At(i + 2) \in {Ident(OutName), Ident(InName)}
         /\ At(i + 3).type = "." /\ At(i + 5).type = "(")

(* The semantic analysis accepts exactly the well typed programs, whatever  *)
(* the order of the classes in which it visits them and however it came by  *)
(* the representation of a type.                                            *)
AcceptsWellTyped ==
  verdict # "none" /\ ~StraySystem => (verdict = "accepted" <=> Typing!WellTyped(program.node))

(* In whatever order the graph's operations run that its edges allow, the    *)
(* compiled method makes the calls Java makes, in that order and with those  *)
(* arguments, traps where Java throws, and leaves the same objects, arrays   *)
(* and result: operands are loaded before what follows can change them, no   *)
(* load, store, division or call leaves the chain of the store, and no two   *)
(* fields or elements share a byte.                                         *)
SameMemory == Translator!SameMemory
=============================================================================
