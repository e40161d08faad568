------------------------------- MODULE Typing -------------------------------
(***************************************************************************)
(* When a program is well typed, as the language defines it: a reference   *)
(* for TypeCheck.  A type is a basic type and a number of brackets; the    *)
(* rules look at the program as a whole and in no order.                   *)
(***************************************************************************)
EXTENDS Ast, TLC

CONSTANTS SystemName, OutName, InName, PrintlnName, WriteName, FlushName, ReadName, MainName

Basic(b) == [basic |-> b, cls |-> 0, dims |-> 0]
Object(c) == [basic |-> "class", cls |-> c, dims |-> 0]
IntT == Basic("int")
BoolT == Basic("boolean")
VoidT == Basic("void")
NullT == Basic("null")
IsReference(t) == t.basic = "class" \/ t.dims > 0
ElementOf(t) == [t EXCEPT !.dims = @ - 1]

TypeNode(t) ==
  CASE t.n = "PrimitiveType" -> Basic(t.prim)
    [] t.n = "ClassType" -> Object(t.name)
    [] t.n = "ArrayType" ->
         [(IF t.elem.n = "ClassType" THEN Object(t.elem.name) ELSE Basic(t.elem.prim)) EXCEPT !.dims = t.dimension]

Fits(t, u) == t = u \/ (IsReference(t) /\ u = NullT)

Named(list, x) == {list[i] : i \in {j \in DOMAIN list : list[j].name = x}}
TypeExists(p, t) == t.basic = "class" => Named(p.classes, t.cls) # {}
ValueType(p, t) == TypeExists(p, t) /\ t.basic # "void"

(* The members x of kind "fields" or "methods" of the objects of type t. *)
Members(p, t, kind, x) ==
  IF t.dims > 0 \/ t.basic # "class" THEN {} ELSE UNION {Named(c[kind], x) : c \in Named(p.classes, t.cls)}

IsSystem(c, e, f) == /\ e.n = "FieldAccess" /\ e.name = f /\ e.left.n = "VarRef"
                     /\ e.left.name = SystemName /\ SystemName \notin DOMAIN c.locals
                     /\ SystemName \notin c.fields

(* The types of e: one, or none.  c is the context: the program, the class  *)
(* (0 in a static method), the types of the locals and the names of fields. *)
RECURSIVE Types(_, _)
Args(c, e) == [i \in DOMAIN e.args |-> Types(c, e.args[i])]
SystemCall(c, e) ==
  CASE IsSystem(c, e.left, OutName) /\ e.name \in {PrintlnName, WriteName} ->
         IF Args(c, e) = <<{IntT}>> THEN {VoidT} ELSE {}
    [] IsSystem(c, e.left, OutName) /\ e.name = FlushName -> IF e.args = <<>> THEN {VoidT} ELSE {}
    [] IsSystem(c, e.left, InName) /\ e.name = ReadName -> IF e.args = <<>> THEN {IntT} ELSE {}
    [] OTHER -> {}
Call(c, e) ==
  {TypeNode(m.type) : m \in
     {k \in UNION {Members(c.program, t, "methods", e.name) : t \in Types(c, e.left)} :
        /\ DOMAIN k.params = DOMAIN e.args
        /\ \A i \in DOMAIN e.args : \E t \in Types(c, e.args[i]) : Fits(TypeNode(k.params[i].type), t)}}

Types(c, e) ==
  CASE e.n = "IntLiteral" -> {IntT}
    [] e.n = "BoolLiteral" -> {BoolT}
    [] e.n = "NullLiteral" -> {NullT}
    [] e.n = "ThisLiteral" -> IF c.class = 0 THEN {} ELSE {Object(c.class)}
    [] e.n = "VarRef" ->
         IF e.name \in DOMAIN c.locals THEN {c.locals[e.name]} \ {NullT}
         ELSE IF c.class = 0 THEN {}
         ELSE {TypeNode(f.type) : f \in Members(c.program, Object(c.class), "fields", e.name)}
    [] e.n = "NewObjectExpression" -> IF TypeExists(c.program, Object(e.name)) THEN {Object(e.name)} ELSE {}
    [] e.n = "NewArrayExpression" ->
         IF ValueType(c.program, TypeNode(e.type)) /\ Types(c, e.size) = {IntT} THEN {TypeNode(e.type)} ELSE {}
    [] e.n = "FieldAccess" ->
         {TypeNode(f.type) : f \in UNION {Members(c.program, t, "fields", e.name) : t \in Types(c, e.left)}}
    [] e.n = "ArrayAccess" ->
         {ElementOf(t) : t \in {u \in Types(c, e.left) : u.dims > 0 /\ Types(c, e.index) = {IntT}}}
    [] e.n = "MethodInvocation" ->
         IF IsSystem(c, e.left, OutName) \/ IsSystem(c, e.left, InName) THEN SystemCall(c, e) ELSE Call(c, e)
    [] e.n = "UnaryExpression" -> Types(c, e.expr) \cap {IF e.op = "-" THEN IntT ELSE BoolT}
    [] e.n = "BinaryExpression" ->
         LET L == Types(c, e.left)
             R == Types(c, e.right)
             Both(t) == L = {t} /\ R = {t}
         IN CASE e.op \in {"+", "-", "*", "/", "%"} -> IF Both(IntT) THEN {IntT} ELSE {}
              [] e.op \in {"<", "<=", ">", ">="} -> IF Both(IntT) THEN {BoolT} ELSE {}
              [] e.op \in {"&&", "||"} -> IF Both(BoolT) THEN {BoolT} ELSE {}
              [] e.op = "=" ->
                   {t \in L : e.left.n \in {"VarRef", "FieldAccess", "ArrayAccess"} /\ \E u \in R : Fits(t, u)}
              [] e.op \in {"==", "!="} ->
                   IF \E t \in L, u \in R : t # VoidT /\ u # VoidT /\ (Fits(t, u) \/ Fits(u, t)) THEN {BoolT} ELSE {}
-----------------------------------------------------------------------------
RECURSIVE StmtOK(_, _), StmtsOK(_, _), Returns(_)
StmtsOK(c, ss) ==
  ss # <<>> =>
    /\ StmtOK(c, ss[1])
    /\ StmtsOK(IF ss[1].n = "VariableDeclaration"
               THEN [c EXCEPT !.locals = (ss[1].name :> TypeNode(ss[1].type)) @@ @] ELSE c, Tail(ss))

(* A variable is in scope in its own initializer. *)
DeclarationOK(c, s) ==
  LET t == TypeNode(s.type)
      inner == [c EXCEPT !.locals = (s.name :> t) @@ @]
  IN /\ s.name \notin DOMAIN c.locals
     /\ ValueType(c.program, t)
     /\ s.init # NoNode => \E u \in Types(inner, s.init) : Fits(t, u)

StmtOK(c, s) ==
  CASE s = NoNode -> TRUE
    [] s.n = "Block" -> StmtsOK(c, s.stmts)
    [] s.n = "ExpressionStatement" -> Types(c, s.expr) # {}
    [] s.n = "VariableDeclaration" -> DeclarationOK(c, s)
    [] s.n = "WhileStatement" -> Types(c, s.cond) = {BoolT} /\ StmtOK(c, s.body)
    [] s.n = "IfStatement" -> Types(c, s.cond) = {BoolT} /\ StmtOK(c, s.then) /\ StmtOK(c, s.else)
    [] s.n = "ReturnStatement" ->
         IF c.ret = VoidT THEN s.expr = NoNode
         ELSE s.expr # NoNode /\ \E t \in Types(c, s.expr) : Fits(c.ret, t)

(* No path through s goes on after it. *)
Returns(s) ==
  CASE s = NoNode -> FALSE
    [] s.n = "ReturnStatement" -> TRUE
    [] s.n = "Block" -> \E i \in DOMAIN s.stmts : Returns(s.stmts[i])
    [] s.n = "IfStatement" -> Returns(s.then) /\ Returns(s.else)
    [] OTHER -> FALSE

Unique(list) == \A i, j \in DOMAIN list : list[i].name = list[j].name => i = j
NamesOf(list) == {list[i].name : i \in DOMAIN list}
Context(p, k, class, ret, locals) ==
  [program |-> p, class |-> class, ret |-> ret, locals |-> locals, fields |-> NamesOf(k.fields)]

MethodOK(p, k, m) ==
  LET ParamType(x) == TypeNode((CHOOSE q \in Named(m.params, x) : TRUE).type)
  IN /\ Unique(m.params)
     /\ \A i \in DOMAIN m.params : ValueType(p, TypeNode(m.params[i].type))
     /\ TypeNode(m.type) = VoidT \/ (ValueType(p, TypeNode(m.type)) /\ Returns(m.block))
     /\ StmtOK(Context(p, k, k.name, TypeNode(m.type), [x \in NamesOf(m.params) |-> ParamType(x)]), m.block)

(* The argument of main is a name that may not be used. *)
MainOK(p, k, m) == StmtOK(Context(p, k, 0, VoidT, m.arg :> NullT), m.block)

ClassOK(p, k) ==
  /\ Unique(k.fields) /\ Unique(k.methods) /\ Len(k.mains) <= 1
  /\ NamesOf(k.methods) \cap NamesOf(k.mains) = {}
  /\ \A i \in DOMAIN k.fields : ValueType(p, TypeNode(k.fields[i].type))
  /\ \A i \in DOMAIN k.methods : MethodOK(p, k, k.methods[i])
  /\ \A i \in DOMAIN k.mains : MainOK(p, k, k.mains[i])

(* One class has a static method main.  Another class may have a static     *)
(* method of another name: parser.cpp:125 says of that name "must be main    *)
(* (check in semantic analysis)", but the analysis only counts the methods   *)
(* called main (semantic_visitor.cpp:65), and this definition follows it.    *)
WellTyped(p) ==
  /\ Unique(p.classes)
  /\ Cardinality({i \in DOMAIN p.classes : MainName \in NamesOf(p.classes[i].mains)}) = 1
  /\ \A i \in DOMAIN p.classes : ClassOK(p, p.classes[i])
=============================================================================
