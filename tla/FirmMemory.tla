----------------------------- MODULE FirmMemory -----------------------------
(***************************************************************************)
(* How FirmVisitor (firm_visitor.cpp, firm_visitor.hpp) translates         *)
(* variables, fields, arrays, calls and allocations: the nodes it builds,  *)
(* the chain of memory operations, the layout of objects, and the stack of *)
(* values that are loaded when they are needed.  The graph is then         *)
(* executed as Firm allows: an operation runs when its operands have, in   *)
(* any order.  Control flow is the subject of BoolLowering, StmtLowering.  *)
(***************************************************************************)
EXTENDS Ast, TLC

CONSTANTS SystemName, OutName, InName, PrintlnName, WriteName, FlushName, ReadName, MainName,
          ToggleName     \* the int field that a method of the program changes

VARIABLES ast,           \* the program that the semantic analysis accepted
          phase,         \* "idle", "visit", "run", "return" or "trap"
          todo,          \* statements the visitor has not visited yet
          st,            \* of the visitor: graph, store, vars, stack
          val,           \* of the operations executed so far
          bytes, bases,  \* of the memory; where the k-th allocation starts
          trace          \* the calls made

memVars == <<phase, todo, st, val, bytes, bases, trace>>

Typer == INSTANCE TypeCheck WITH currentProgram <- ast, visiting <- "end", currentClass <- 1,
                                 currentMethod <- 1, mainMethodCount <- 1, verdict <- "accepted"

(* The method that is translated is the first one. *)
cls == ast.classes[1]
method == cls.methods[1]
params == method.params
-----------------------------------------------------------------------------
(*                          Types and layout                               *)

calculateSize(t) == CASE t.kind \in {"Array", "Class"} -> 8 [] t.kind = "Bool" -> 1 [] t.kind = "Int" -> 4

(* sem::Type::getArrayInnerType. *)
getArrayInnerType(t) ==
  IF t.dimension = 1 THEN [t EXCEPT !.dimension = 0, !.kind = t.innerKind, !.innerKind = "Unresolved"]
  ELSE [t EXCEPT !.dimension = @ - 1]

FieldSize(f) == calculateSize(Typer!getSemaType(f.type))
(* visitClass: each field starts where the one before it ends. *)
Offset(c, i) == FoldLeft(LAMBDA n, f : n + FieldSize(f), 0, SubSeq(c.fields, 1, i - 1))
ClassSize(c) == Offset(c, Len(c.fields) + 1)
FieldIndex(c, f) == CHOOSE i \in DOMAIN c.fields : c.fields[i].name = f

(* The targetType that the semantic analysis left in a node. *)
ScopeOf(ss) ==
  [i \in DOMAIN cls.fields |-> Typer!Declared(cls.fields[i].name, "field", Typer!getSemaType(cls.fields[i].type), 1)]
    \o [i \in DOMAIN params |-> Typer!Declared(params[i].name, "param", Typer!getSemaType(params[i].type), 2)]
    \o [i \in DOMAIN ss |-> Typer!Declared(ss[i].name, "local", Typer!getSemaType(ss[i].type), 3)]
IsDeclaration(s) == s.n = "VariableDeclaration"
varDecls == SelectSeq(method.block.stmts, IsDeclaration)
targetType(e) ==
  Typer!visitExpression([class |-> cls.name, method |-> "regular", ret |-> Typer!Unresolved,
                         scope |-> ScopeOf(varDecls), level |-> 3], e).type
classOf(t) == Typer!findClassByName(t.name)
-----------------------------------------------------------------------------
(*                 Nodes, values, and the current store                    *)

(* mem is the memory operand, 0 for none; num a constant, offset or size. *)
Node(op, ins, num) == [op |-> op, mem |-> 0, ins |-> ins, num |-> num]
RValue(node) == [v |-> "rvalue", node |-> node, size |-> 0]
VarValue(i) == [v |-> "var", node |-> i, size |-> 0]
FieldValue(node, size) == [v |-> "field", node |-> node, size |-> size]
ArrayValue(node, size) == [v |-> "array", node |-> node, size |-> size]

Emit(s, node) == [s EXCEPT !.graph = Append(@, node)]
Latest(s) == Len(s.graph)
(* A node on the memory chain: its Proj M becomes the current store. *)
EmitMem(s, node) == LET t == Emit(s, [node EXCEPT !.mem = s.store]) IN [t EXCEPT !.store = Latest(t)]

pushNode(s, value) == [s EXCEPT !.stack = Append(@, value)]
PushLatest(s) == pushNode(s, RValue(Latest(s)))
popNode(s, n) == [s EXCEPT !.stack = SubSeq(@, 1, Len(@) - n)]
Top(s, k) == s.stack[Len(s.stack) + 1 - k]      \* k = 1: the top
TopNodes(s, n) == [i \in 1..n |-> Top(s, n + 1 - i).node]

Load(s, addr, size) == EmitMem(s, Node("Load", <<addr>>, size))

(* popNode()->load(), the result left on the stack. *)
load(s) ==
  LET t == Top(s, 1)
  IN CASE t.v = "rvalue" -> s
       [] t.v = "var" -> pushNode(popNode(s, 1), RValue(s.vars[t.node]))
       [] t.v \in {"field", "array"} -> PushLatest(Load(popNode(s, 1), t.node, t.size))

(* Value::store *)
store(s, value, node) ==
  IF value.v = "var" THEN [s EXCEPT !.vars[value.node] = node]
  ELSE EmitMem(s, Node("Store", <<value.node, node>>, value.size))
-----------------------------------------------------------------------------
(*                            Expressions                                  *)

(* The arguments are the n values on top; no result is pushed for void. *)
EmitCall(s, name, n, result) ==
  LET t == EmitMem(popNode(s, n), [op |-> "Call", mem |-> 0, ins |-> TopNodes(s, n), num |-> name])
  IN IF result THEN PushLatest(t) ELSE pushNode(t, RValue(0))

nParams == 1 + Len(params)
localIndex(x) == nParams + (CHOOSE i \in DOMAIN varDecls : varDecls[i].name = x) - 1

(* The field f of the object at node. *)
PushMember(s, node, c, f) ==
  LET i == FieldIndex(c, f)
      t == Emit(s, Node("Member", <<node>>, Offset(c, i)))
  IN pushNode(t, FieldValue(Latest(t), FieldSize(c.fields[i])))

visitVarRef(s, e) ==
  IF \E i \in DOMAIN varDecls : varDecls[i].name = e.name THEN pushNode(s, VarValue(localIndex(e.name)))
  ELSE IF \E i \in DOMAIN params : params[i].name = e.name
  THEN pushNode(s, VarValue(CHOOSE i \in DOMAIN params : params[i].name = e.name))
  ELSE PushMember(s, 1, cls, e.name)      \* node 1 is this

visitFieldAccess(l, e) == PushMember(popNode(l, 1), Top(l, 1).node, classOf(targetType(e.left)), e.name)

visitArrayAccess(a, size) ==
  LET t == Emit(popNode(a, 2), Node("Sel", TopNodes(a, 2), size))
  IN pushNode(t, ArrayValue(Latest(t), size))

callocEntity == 0       \* no method has this name
(* allocate(count, size): the count is on top of the stack. *)
Allocate(s, size) ==
  EmitCall(PushLatest(Emit(s, Node("Const", <<>>, size))), callocEntity, 2, TRUE)
visitNewObjectExpression(s, e) ==
  Allocate(PushLatest(Emit(s, Node("Const", <<>>, 1))), ClassSize(Typer!findClassByName(e.name)))
visitNewArrayExpression(s, e) == Allocate(s, calculateSize(getArrayInnerType(Typer!getSemaType(e.type))))

(* Division is pinned and on the memory chain. *)
visitArithmetic(s, e) ==
  LET node == Node(e.op, TopNodes(s, 2), 0)
  IN PushLatest(IF e.op \in {"/", "%"} THEN EmitMem(popNode(s, 2), node) ELSE Emit(popNode(s, 2), node))

SystemCall(e) == /\ e.left.n = "FieldAccess" /\ e.left.left.n = "VarRef" /\ e.left.left.name = SystemName

visitMinus(s) == PushLatest(Emit(popNode(s, 1), Node("Minus", TopNodes(s, 1), 0)))
(* The assigned value is the value of the assignment. *)
visitAssignment(s) == pushNode(store(popNode(s, 2), Top(s, 2), Top(s, 1).node), Top(s, 1))

RECURSIVE visit(_, _), visitAll(_, _)
(* Each is loaded before the next is visited. *)
visitAll(s, es) == IF es = <<>> THEN s ELSE visitAll(load(visit(s, Head(es))), Tail(es))

LateLoad(s) == pushNode(load(popNode(s, 1)), Top(s, 1))
(* Mutant: the left operand is loaded when the right one has been visited. *)
visitOperandsLate(s, e) ==
  LateLoad(load(visit(visit(s, e.left), e.right)))
visitOperands(s, e) == load(visit(load(visit(s, e.left)), e.right))

visit(s, e) ==
  CASE e.n = "IntLiteral" -> PushLatest(Emit(s, Node("Const", <<>>, e.int)))
    [] e.n = "BoolLiteral" -> PushLatest(Emit(s, Node("Const", <<>>, IF e.bool THEN 1 ELSE 0)))
    [] e.n = "NullLiteral" -> PushLatest(Emit(s, Node("Const", <<>>, 0)))
    [] e.n = "ThisLiteral" -> pushNode(s, RValue(1))
    [] e.n = "VarRef" -> visitVarRef(s, e)
    [] e.n = "FieldAccess" -> visitFieldAccess(load(visit(s, e.left)), e)
    [] e.n = "ArrayAccess" -> visitArrayAccess(load(visit(load(visit(s, e.left)), e.index)),
                                               calculateSize(getArrayInnerType(targetType(e.left))))
    [] e.n = "NewObjectExpression" -> visitNewObjectExpression(s, e)
    [] e.n = "NewArrayExpression" -> visitNewArrayExpression(load(visit(s, e.size)), e)
    [] e.n = "UnaryExpression" -> visitMinus(load(visit(s, e.expr)))
    [] e.n = "BinaryExpression" ->
         IF e.op # "=" THEN visitArithmetic(visitOperands(s, e), e)
         ELSE visitAssignment(load(visit(visit(s, e.left), e.right)))
    [] e.n = "MethodInvocation" ->
         IF SystemCall(e) THEN EmitCall(visitAll(s, e.args), e.name, Len(e.args), e.name = ReadName)
         ELSE LET m == Typer!findMethodInClass(classOf(targetType(e.left)), e.name)
              IN EmitCall(visitAll(s, <<e.left>> \o e.args), e.name, 1 + Len(e.args),
                          Typer!getSemaType(m.type).kind # "Void")
-----------------------------------------------------------------------------
(*                         Statements, methods                             *)

(* Node 0 stands for no node: the memory the method starts with, a result   *)
(* that is not there, the value of a variable that was never set.           *)
Start == [graph |-> <<>>, store |-> 0, vars |-> <<>>, stack |-> <<>>]

(* visitClass: node 1 is the projection of this, the next are those of the  *)
(* parameters, which are the variables 1, 2, ...; 0 is this.                *)
EnterMethod(ms, n) ==
  [Start EXCEPT !.graph = [i \in 1..n |-> Node("Param", <<>>, i)],
                !.vars = [i \in 0..(n + Len(SelectSeq(ms, IsDeclaration)) - 1) |->
                            IF i \in 1..(n - 1) THEN i + 1 ELSE 0]]

visitReturnStatement(s) == Emit(popNode(s, 1), [Node("Return", TopNodes(s, 1), 0) EXCEPT !.mem = s.store])
visitVariableDeclaration(s, x) == [popNode(s, 1) EXCEPT !.vars[localIndex(x)] = Top(s, 1).node]

visitStatement(s, stmt) ==
  CASE stmt.n = "ExpressionStatement" -> popNode(visit(s, stmt.expr), 1)
    [] stmt.n = "ReturnStatement" -> visitReturnStatement(load(visit(s, stmt.expr)))
    [] stmt.n = "VariableDeclaration" ->
         IF stmt.init = NoNode THEN s
         ELSE visitVariableDeclaration(load(visit(s, stmt.init)), stmt.name)
-----------------------------------------------------------------------------
(*                        Execution of the graph                           *)

IsMemOp(n) == st.graph[n].op \in {"Load", "Store", "Call", "/", "%", "Return"}

(* The operations whose results n needs. *)
RECURSIVE Needs(_)
Needs(n) ==
  UNION {IF i = 0 THEN {} ELSE IF IsMemOp(i) THEN {i} ELSE Needs(i) : i \in ToSet(st.graph[n].ins)}
Before(n) == Needs(n) \cup ({st.graph[n].mem} \ {0})

(* The operations the Return waits for; the others are dead. *)
RECURSIVE Ancestors(_)
Ancestors(ns) == IF ns = {} THEN {} ELSE ns \cup Ancestors(UNION {Before(n) : n \in ns})
Live == Ancestors({Len(st.graph)})
Ready(n) == n \notin DOMAIN val /\ Before(n) \subseteq DOMAIN val

RECURSIVE Value(_)
Value(n) ==
  LET node == st.graph[n]
      in(i) == Value(node.ins[i])
  IN CASE n \in DOMAIN val -> val[n]
       [] node.op = "Const" -> node.num
       [] node.op = "Param" -> IF node.num = 1 THEN bases[1] ELSE node.num
       [] node.op = "Member" -> in(1) + node.num
       [] node.op = "Sel" -> in(1) + in(2) * node.num
       [] node.op = "Minus" -> -in(1)
       [] node.op = "+" -> in(1) + in(2)
       [] node.op = "-" -> in(1) - in(2)
       [] node.op = "*" -> in(1) * in(2)

FirstAddress == 100        \* below it, as around null, nothing is mapped
(* The bytes of a value; those of 0 are all alike. *)
Byte(v, k) == IF v = 0 THEN <<0, 0>> ELSE <<v, k>>
Mapped(addr, size) == addr..(addr + size - 1) \subseteq DOMAIN bytes
Torn == 1000
Read(addr, size) ==
  LET v == bytes[addr][1]
  IN IF \A k \in 0..(size - 1) : bytes[addr + k] = Byte(v, k) THEN v ELSE Torn
Written(mem, addr, size, v) == [a \in addr..(addr + size - 1) |-> Byte(v, a - addr)] @@ mem

Quotient(op, a, b) ==
  LET q == (IF a < 0 THEN -a ELSE a) \div (IF b < 0 THEN -b ELSE b)
      s == IF (a < 0) = (b < 0) THEN q ELSE -q
  IN IF op = "/" THEN s ELSE a - b * s

Trap == phase' = "trap" /\ UNCHANGED <<val, bytes, bases, trace>>
Result(n, v) == val' = (n :> v) @@ val

(* What a call returns, and what it does to the receiver's field. *)
Answer == Len(trace) % 2
ToggleOffset(c) == Offset(c, FieldIndex(c, ToggleName))
System(name) == name \in {PrintlnName, WriteName, FlushName, ReadName}
ExecuteAllocate(n, size) ==
  LET base == Max(DOMAIN bytes) + 1
  IN /\ bytes' = [a \in base..(base + size - 1) |-> <<0, 0>>] @@ bytes
     /\ bases' = Append(bases, base) /\ Result(n, base)
     /\ UNCHANGED <<trace, phase>>
ExecuteCall(n, name, args) ==
  LET addr == args[1] + ToggleOffset(cls)
  IN CASE name = callocEntity -> ExecuteAllocate(n, Max({1, args[1] * args[2]}))
       [] ~System(name) /\ ~Mapped(addr, 4) -> Trap
       [] OTHER -> /\ trace' = Append(trace, <<name>> \o args) /\ Result(n, Answer)
                   /\ bytes' = IF System(name) THEN bytes ELSE Written(bytes, addr, 4, 1 - Read(addr, 4))
                   /\ UNCHANGED <<bases, phase>>

Execute(n) ==
  LET node == st.graph[n]
      in == [i \in DOMAIN node.ins |-> Value(node.ins[i])]
  IN CASE node.op = "Load" ->
            IF Mapped(in[1], node.num)
            THEN Result(n, Read(in[1], node.num)) /\ UNCHANGED <<bytes, bases, trace, phase>> ELSE Trap
       [] node.op = "Store" ->
            IF Mapped(in[1], node.num)
            THEN /\ bytes' = Written(bytes, in[1], node.num, in[2])
                 /\ Result(n, 0) /\ UNCHANGED <<bases, trace, phase>>
            ELSE Trap
       [] node.op = "Call" -> ExecuteCall(n, node.num, in)
       [] node.op \in {"/", "%"} ->
            IF in[2] = 0 THEN Trap
            ELSE Result(n, Quotient(node.op, in[1], in[2])) /\ UNCHANGED <<bytes, bases, trace, phase>>
       [] node.op = "Return" -> phase' = "return" /\ Result(n, in[1]) /\ UNCHANGED <<bytes, bases, trace>>
-----------------------------------------------------------------------------
(*                              The machine                                *)

MemInit ==
  /\ phase = "idle" /\ todo = <<>> /\ st = Start
  /\ val = <<>> /\ bytes = <<>> /\ bases = <<>> /\ trace = <<>>

(* visitProgram, visitClass, and the object whose method will run. *)
VisitClass ==
  /\ phase = "idle"
  /\ phase' = "visit"
  /\ todo' = method.block.stmts
  /\ st' = EnterMethod(method.block.stmts, nParams)
  /\ bases' = <<FirstAddress>>
  /\ bytes' = [a \in FirstAddress..(FirstAddress + ClassSize(cls) - 1) |-> <<0, 0>>]
  /\ UNCHANGED <<val, trace>>

VisitStatement ==
  /\ phase = "visit"
  /\ st' = visitStatement(st, Head(todo))
  /\ todo' = Tail(todo)
  /\ phase' = IF todo' = <<>> THEN "run" ELSE "visit"
  /\ UNCHANGED <<val, bytes, bases, trace>>

RunOperation ==
  /\ phase = "run"
  /\ \E n \in Live : Ready(n) /\ Execute(n)
  /\ UNCHANGED <<todo, st>>

MemNext == VisitClass \/ VisitStatement \/ RunOperation
-----------------------------------------------------------------------------
Java == INSTANCE JavaEval
Expected == Java!Method(ast, cls.name, method)

(* The machine's value for the reference r or the number r. *)
Word(r, isRef) == IF isRef /\ r # 0 THEN bases[r] ELSE r
(* The object o of Java, byte for byte. *)
SameObject(o, k) ==
  \A key \in DOMAIN o.cells :
    LET inClass == Typer!findClassByName(o.class)
        f == FieldIndex(inClass, key)
        size == IF o.class = 0 THEN (IF o.refs = {} THEN 4 ELSE 8) ELSE FieldSize(inClass.fields[f])
        addr == bases[k] + (IF o.class = 0 THEN key * size ELSE Offset(inClass, f))
    IN Read(addr, size) = Word(o.cells[key], key \in o.refs)
SameEvent(event, e) ==
  IF System(e[1]) THEN event = e
  ELSE Len(event) = Len(e) /\ event[1] = e[1] /\ event[2] = bases[e[2]] /\ SubSeq(event, 3, Len(e)) = SubSeq(e, 3, Len(e))

(* In whatever order the graph's operations run that its edges allow, the    *)
(* method makes the calls Java makes, in that order and with those           *)
(* arguments, traps where Java throws, and leaves the same objects, arrays   *)
(* and result: operands are loaded before what follows can change them, no   *)
(* load, store, division or call leaves the chain of the store, and no two   *)
(* fields or elements share a byte.                                         *)
SameMemory ==
  phase \in {"return", "trap"} /\ Expected.s.stop # "undefined" =>
    LET x == Expected
    IN /\ phase = IF x.s.stop = "trap" THEN "trap" ELSE "return"
       /\ Len(trace) = Len(x.s.trace) /\ \A i \in DOMAIN trace : SameEvent(trace[i], x.s.trace[i])
       /\ Len(bases) = Len(x.s.objs) /\ \A k \in DOMAIN x.s.objs : SameObject(x.s.objs[k], k)
       /\ phase = "return" => val[Len(st.graph)] = x.v
=============================================================================
