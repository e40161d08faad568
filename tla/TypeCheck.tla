----------------------------- MODULE TypeCheck -----------------------------
(***************************************************************************)
(* The types of the semantic analysis (semantic_visitor.cpp, sem::Type).   *)
(* The classes are visited in the order of their names and each member     *)
(* when its turn comes, so a visit may use the declared type of a member   *)
(* that has not been checked yet.  What a name means is the subject of     *)
(* SemanticScopes; here it is the last declaration of that name in scope.  *)
(***************************************************************************)
EXTENDS Ast

CONSTANTS SystemName, OutName, InName, PrintlnName, WriteName, FlushName, ReadName, MainName

VARIABLES currentProgram,   \* its classes and members sorted once visited
          visiting,         \* "program", "fields", "methods", "method", "mains", "leave class", "end"
          currentClass,     \* index of the class
          currentMethod,    \* index of the regular method
          mainMethodCount,
          verdict           \* "none", "accepted", "error", "crash"

checkVars == <<currentProgram, visiting, currentClass, currentMethod, mainMethodCount, verdict>>
-----------------------------------------------------------------------------
(*                              sem::Type                                  *)

Unresolved == [kind |-> "Unresolved", innerKind |-> "Unresolved", name |-> 0, dimension |-> 0]
setKind(t, k) == [t EXCEPT !.kind = k]
setClass(t, c) == [t EXCEPT !.kind = "Class", !.name = c]
setArray(t, inner, dim, c) == [kind |-> "Array", innerKind |-> inner, name |-> c, dimension |-> dim]

isVoidArray(t) == t.kind = "Array" /\ t.innerKind = "Void"
isVoidOrVoidArray(t) == t.kind = "Void" \/ isVoidArray(t)

(* operator==: what the other kinds leave in innerKind, name and dimension *)
(* does not count.                                                         *)
TypeEq(a, b) ==
  CASE a.kind = "Class" -> b.kind = "Class" /\ a.name = b.name
    [] a.kind = "Array" -> /\ b.kind = "Array" /\ a.dimension = b.dimension
                           /\ a.innerKind = b.innerKind
                           /\ a.innerKind = "Class" => a.name = b.name
    [] OTHER -> a.kind = b.kind

(* operator>= *)
Assignable(a, b) == (a.kind \in {"Class", "Array"} /\ b.kind = "Null") \/ TypeEq(a, b)

PrimKind(p) == CASE p = "boolean" -> "Bool" [] p = "int" -> "Int" [] p = "void" -> "Void"
basicSemaType(t) ==
  IF t.n = "PrimitiveType" THEN setKind(Unresolved, PrimKind(t.prim)) ELSE setClass(Unresolved, t.name)
getSemaType(t) ==
  IF t.n # "ArrayType" THEN basicSemaType(t)
  ELSE LET inner == basicSemaType(t.elem) IN setArray(Unresolved, inner.kind, t.dimension, inner.name)
-----------------------------------------------------------------------------
(*                         Results of a visit                              *)

(* def: "System", "System.out" or "System.in" for the dummy definitions. *)
Typed(t) == [verdict |-> "ok", type |-> t, def |-> "declared"]
OfKind(k) == Typed(setKind(Unresolved, k))
Dummy(d) == [verdict |-> "ok", type |-> Unresolved, def |-> d]
Error == [verdict |-> "error", type |-> Unresolved, def |-> "none"]
(* A failed assertion, or a null pointer followed. *)
Crash == [verdict |-> "crash", type |-> Unresolved, def |-> "none"]

(* The first visit that does not return ends all; the rule if all return. *)
AfterChildren(rs, Rule(_)) ==
  IF \E i \in DOMAIN rs : rs[i].verdict # "ok"
  THEN SelectSeq(rs, LAMBDA r : r.verdict # "ok")[1] ELSE Rule(rs)

(* The binary search for the first element not less than x. *)
findByName(list, x) ==
  LET found == {i \in DOMAIN list : list[i].name = x}
  IN IF found = {} THEN NoNode ELSE list[CHOOSE i \in found : \A j \in found : i <= j]
findClassByName(c) == findByName(currentProgram.classes, c)
findMethodInClass(cls, m) == findByName(cls.methods, m)
findFieldInClass(cls, f) == findByName(cls.fields, f)

visitClassType(c) == IF findClassByName(c) = NoNode THEN Error ELSE Typed(Unresolved)
visitType(t) ==
  CASE t.n = "PrimitiveType" -> Typed(Unresolved)
    [] t.n = "ClassType" -> visitClassType(t.name)
    [] t.n = "ArrayType" -> IF t.elem.n = "ClassType" THEN visitClassType(t.elem.name) ELSE Typed(Unresolved)
-----------------------------------------------------------------------------
(*                            Expressions                                  *)

(* env.scope: the declarations in scope, the innermost last. *)
Declared(x, kind, type, level) == [name |-> x, kind |-> kind, type |-> type, level |-> level]
lookup(env, x) ==
  LET found == {i \in DOMAIN env.scope : env.scope[i].name = x}
  IN IF found = {} THEN Declared(x, "none", Unresolved, 0)
     ELSE env.scope[CHOOSE i \in found : \A j \in found : j <= i]

visitVarRef(env, e) ==
  LET def == lookup(env, e.name)
  IN CASE def.kind = "none" -> IF e.name = SystemName THEN Dummy("System") ELSE Error
       [] def.kind = "arg" -> Error
       [] def.kind = "field" /\ env.method = "main" -> Error
       [] OTHER -> Typed(def.type)

visitThisLiteral(env) ==
  IF env.method = "main" THEN Error ELSE Typed(setClass(Unresolved, env.class))

RValues == {"NewArrayExpression", "NewObjectExpression", "IntLiteral", "BoolLiteral", "NullLiteral",
            "ThisLiteral", "MethodInvocation", "BinaryExpression", "UnaryExpression"}

Comparable(l, r) == /\ l.kind # "Void" /\ r.kind # "Void"
                    /\ Assignable(l, r) \/ Assignable(r, l)

visitBinaryExpression(e, l, r) ==
  LET both(k) == l.type.kind = k /\ r.type.kind = k
      require(ok, result) == IF ok THEN result ELSE Error
  IN CASE e.op \in {"+", "-", "*", "/", "%"} -> require(both("Int"), OfKind("Int"))
       [] e.op \in {"<", "<=", ">", ">="} -> require(both("Int"), OfKind("Bool"))
       [] e.op \in {"||", "&&"} -> require(both("Bool"), OfKind("Bool"))
       [] e.op = "=" -> require(e.left.n \notin RValues /\ Assignable(l.type, r.type), Typed(l.type))
       [] e.op \in {"==", "!="} -> require(Comparable(l.type, r.type), OfKind("Bool"))

visitUnaryExpression(e, inner) ==
  LET k == IF e.op = "-" THEN "Int" ELSE "Bool"
  IN IF inner.type.kind = k THEN OfKind(k) ELSE Error

visitNewArrayExpression(e, size) ==
  IF size.type.kind # "Int" \/ isVoidOrVoidArray(getSemaType(e.type)) THEN Error
  ELSE Typed(getSemaType(e.type))

(* Mutant: the inner type never surfaces. *)
ElementTypeStaysArray(t) == [t EXCEPT !.dimension = @ - 1]
(* innerKind and name are left as they are. *)
ElementType(t) ==
  [t EXCEPT !.dimension = @ - 1, !.kind = IF t.dimension = 1 THEN t.innerKind ELSE t.kind]

visitArrayAccess(a, index) ==
  IF index.type.kind # "Int" \/ a.type.kind # "Array" THEN Error ELSE Typed(ElementType(a.type))

visitFieldAccess(e, l) ==
  CASE e.left.n = "VarRef" /\ l.def = "System" ->
         IF e.name = OutName THEN Dummy("System.out") ELSE IF e.name = InName THEN Dummy("System.in") ELSE Error
    [] e.left.n = "FieldAccess" /\ l.def \in {"System.out", "System.in"} -> Error
    [] l.type.kind # "Class" -> Error
    [] OTHER -> LET cls == findClassByName(l.type.name)
                    field == findFieldInClass(cls, e.name)
                IN IF cls = NoNode THEN Crash              \* assert(cls)
                   ELSE IF field = NoNode THEN Error ELSE Typed(getSemaType(field.type))

(* Calls on System.out and System.in. *)
visitSystemCall(e, stream, as) ==
  CASE stream = "System.out" /\ e.name \in {PrintlnName, WriteName} ->
         IF Len(as) = 1 /\ as[1].type.kind = "Int" THEN OfKind("Void") ELSE Error
    [] stream = "System.out" /\ e.name = FlushName -> IF as = <<>> THEN OfKind("Void") ELSE Error
    [] stream = "System.in" /\ e.name = ReadName -> IF as = <<>> THEN OfKind("Int") ELSE Error
    [] OTHER -> Error

(* A call on a variable looks the class and the method up twice. *)
visitMethodInvocation(e, l, as) ==
  IF e.left.n = "FieldAccess" /\ l.def \in {"System.out", "System.in"} THEN visitSystemCall(e, l.def, as)
  ELSE IF l.def = "System" \/ l.type.kind # "Class" THEN Error
  ELSE LET classDef == findClassByName(l.type.name)
           method == findMethodInClass(classDef, e.name)
       IN CASE classDef = NoNode -> Crash
            [] method = NoNode -> Error
            [] Len(method.params) # Len(as) -> Error
            [] \E i \in DOMAIN as : ~Assignable(getSemaType(method.params[i].type), as[i].type) -> Error
            [] OTHER -> Typed(getSemaType(method.type))

RECURSIVE visitExpression(_, _)
visitExpression(env, e) ==
  LET visit(child) == visitExpression(env, child)
  IN CASE e.n = "IntLiteral" -> OfKind("Int")
       [] e.n = "BoolLiteral" -> OfKind("Bool")
       [] e.n = "NullLiteral" -> OfKind("Null")
       [] e.n = "ThisLiteral" -> visitThisLiteral(env)
       [] e.n = "VarRef" -> visitVarRef(env, e)
       [] e.n = "NewObjectExpression" ->
            IF findClassByName(e.name) = NoNode THEN Error ELSE Typed(setClass(Unresolved, e.name))
       [] e.n = "NewArrayExpression" ->
            AfterChildren(<<visitType(e.type), visit(e.size)>>, LAMBDA rs : visitNewArrayExpression(e, rs[2]))
       [] e.n = "BinaryExpression" ->
            AfterChildren(<<visit(e.left), visit(e.right)>>, LAMBDA rs : visitBinaryExpression(e, rs[1], rs[2]))
       [] e.n = "UnaryExpression" -> AfterChildren(<<visit(e.expr)>>, LAMBDA rs : visitUnaryExpression(e, rs[1]))
       [] e.n = "FieldAccess" -> AfterChildren(<<visit(e.left)>>, LAMBDA rs : visitFieldAccess(e, rs[1]))
       [] e.n = "ArrayAccess" ->
            AfterChildren(<<visit(e.left), visit(e.index)>>, LAMBDA rs : visitArrayAccess(rs[1], rs[2]))
       [] e.n = "MethodInvocation" ->
            AfterChildren(<<visit(e.left)>> \o [i \in DOMAIN e.args |-> visit(e.args[i])],
                          LAMBDA rs : visitMethodInvocation(e, rs[1], Tail(rs)))
-----------------------------------------------------------------------------
(*                            Statements                                   *)

(* cfb: the statement returns on every path; env: what it declared. *)
Done(env, cfb) == [verdict |-> "ok", env |-> env, cfb |-> cfb]
Stop(env, v) == [verdict |-> v, env |-> env, cfb |-> FALSE]
Checked(env, r, ok, cfb) ==
  IF r.verdict # "ok" THEN Stop(env, r.verdict) ELSE IF ok THEN Done(env, cfb) ELSE Stop(env, "error")

(* The variable is in scope in its initializer, whose visit is value. *)
DeclareIn(env, s) == [env EXCEPT !.scope = Append(@, Declared(s.name, "local", getSemaType(s.type), env.level))]
Initialized(env, s, value) ==
  Checked(DeclareIn(env, s), AfterChildren(<<visitType(s.type), value>>, Last),
          /\ s.init # NoNode => Assignable(getSemaType(s.type), value.type)
          /\ ~isVoidOrVoidArray(getSemaType(s.type)), FALSE)
visitVariableDeclaration(env, s) ==
  LET prev == lookup(env, s.name)
  IN IF prev.kind # "none" /\ (prev.level = env.level \/ prev.kind # "field") THEN Stop(env, "error")
     ELSE Initialized(env, s, IF s.init = NoNode THEN OfKind("Unresolved")
                              ELSE visitExpression(DeclareIn(env, s), s.init))

ReturnsValue(env, e) == Checked(env, e, env.ret.kind # "Void" /\ Assignable(env.ret, e.type), TRUE)
visitReturnStatement(env, s) ==
  IF s.expr # NoNode THEN ReturnsValue(env, visitExpression(env, s.expr))
  ELSE IF env.ret.kind = "Void" THEN Done(env, TRUE) ELSE Stop(env, "error")

combineCFB(c1, c2) == c1 /\ c2

visitIfStatement(env, c, t, f) ==
  Checked(env, AfterChildren(<<c, t, f>>, Head), c.type.kind = "Bool", combineCFB(t.cfb, f.cfb))
visitWhileStatement(env, c, b) == Checked(env, AfterChildren(<<c, b>>, Head), c.type.kind = "Bool", FALSE)

RECURSIVE visitStatement(_, _)
visitBranch(env, s) == IF s = NoNode THEN Done(env, FALSE) ELSE visitStatement(env, s)

(* The statements after the first that returns are visited too, and then   *)
(* erased.                                                                 *)
Sequence(r, t) == [t EXCEPT !.cfb = r.cfb \/ t.cfb]
visitBlock(env, b) ==
  LET step(r, s) == IF r.verdict # "ok" THEN r ELSE Sequence(r, visitStatement(r.env, s))
      r == FoldLeft(step, Done([env EXCEPT !.level = @ + 1], FALSE), b.stmts)
  IN [r EXCEPT !.env = env]

visitStatement(env, s) ==
  CASE s.n = "Block" -> visitBlock(env, s)
    [] s.n = "ExpressionStatement" -> Checked(env, visitExpression(env, s.expr), TRUE, FALSE)
    [] s.n = "VariableDeclaration" -> visitVariableDeclaration(env, s)
    [] s.n = "ReturnStatement" -> visitReturnStatement(env, s)
    [] s.n = "IfStatement" ->
         visitIfStatement(env, visitExpression(env, s.cond), visitBranch(env, s.then), visitBranch(env, s.else))
    [] s.n = "WhileStatement" ->
         visitWhileStatement(env, visitExpression(env, s.cond), visitBranch(env, s.body))
-----------------------------------------------------------------------------
(*                         Members and classes                             *)

theClass == currentProgram.classes[currentClass]
HasDuplicates(list) == \E i, j \in DOMAIN list : i # j /\ list[i].name = list[j].name
ClassScope == [i \in DOMAIN theClass.fields |->
                 Declared(theClass.fields[i].name, "field", getSemaType(theClass.fields[i].type), 1)]
Env(method, ret, scope, level) ==
  [class |-> theClass.name, method |-> method, ret |-> ret, scope |-> scope, level |-> level]

visitParameter(env, p) ==
  LET prev == lookup(env, p.name)
  IN Checked([env EXCEPT !.scope = Append(@, Declared(p.name, "param", getSemaType(p.type), env.level))],
             visitType(p.type),
             ~(prev.kind # "none" /\ prev.level = env.level) /\ ~isVoidOrVoidArray(getSemaType(p.type)), FALSE)

visitBody(params, block) == IF params.verdict = "ok" THEN visitBlock(params.env, block) ELSE params
MethodVerdict(ret, body) ==
  IF body.verdict # "ok" THEN body.verdict
  ELSE IF isVoidArray(ret) \/ (ret.kind # "Void" /\ ~body.cfb) THEN "error" ELSE "ok"
visitRegularMethod(m) ==
  LET ret == getSemaType(m.type)
      step(r, p) == IF r.verdict # "ok" THEN r ELSE visitParameter(r.env, p)
      start == Checked(Env("regular", ret, ClassScope, 2), visitType(m.type), TRUE, FALSE)
  IN MethodVerdict(ret, visitBody(FoldLeft(step, start, m.params), m.block))

visitMainMethod(m) ==
  visitBlock(Env("main", setKind(Unresolved, "Void"),
                 Append(ClassScope, Declared(m.arg, "arg", Unresolved, 1)), 1), m.block).verdict

visitField(f) ==
  IF visitType(f.type).verdict = "ok" /\ ~isVoidOrVoidArray(getSemaType(f.type)) THEN "ok" ELSE "error"
-----------------------------------------------------------------------------
(*                              The walk                                   *)

(* p is a program not yet visited, NoNode if there is none. *)
CheckInit(p) ==
  /\ currentProgram = p /\ visiting = "program"
  /\ currentClass = 1 /\ currentMethod = 1 /\ mainMethodCount = 0
  /\ verdict = "none"

StopWith(v) == verdict' = v /\ UNCHANGED visiting
NextOr(v, next) == IF v # "ok" THEN StopWith(v) ELSE visiting' = next /\ UNCHANGED verdict
Require(ok) == IF ok THEN "ok" ELSE "error"
Running(at) == verdict = "none" /\ visiting = at
NextClass(c) == IF c <= Len(currentProgram.classes) THEN "fields" ELSE "end"

(* Classes sorted by checkForDuplicates, members by sortMembers. *)
sortMembers(c) == [c EXCEPT !.fields = SortedByName(@), !.methods = SortedByName(@)]
SortedProgram(p) == [p EXCEPT !.classes = [i \in DOMAIN @ |-> sortMembers(SortedByName(@)[i])]]

(* visitProgram: duplicate classes; then classes and members are sorted. *)
VisitProgram ==
  /\ Running("program")
  /\ currentProgram' = SortedProgram(currentProgram)
  /\ NextOr(Require(~HasDuplicates(currentProgram.classes)), NextClass(1))
  /\ UNCHANGED <<currentClass, currentMethod, mainMethodCount>>

VisitFieldList ==
  /\ Running("fields")
  /\ NextOr(Require(/\ ~HasDuplicates(theClass.fields)
                    /\ \A i \in DOMAIN theClass.fields : visitField(theClass.fields[i]) = "ok"), "methods")
  /\ UNCHANGED <<currentProgram, currentClass, currentMethod, mainMethodCount>>

NextMethod(m) == IF m <= Len(theClass.methods) THEN "method" ELSE "mains"

VisitMethodList ==
  /\ Running("methods")
  /\ NextOr(Require(~HasDuplicates(theClass.methods)), NextMethod(1))
  /\ currentMethod' = 1
  /\ UNCHANGED <<currentProgram, currentClass, mainMethodCount>>

VisitRegularMethod ==
  /\ Running("method")
  /\ NextOr(visitRegularMethod(theClass.methods[currentMethod]), NextMethod(currentMethod + 1))
  /\ currentMethod' = currentMethod + 1
  /\ UNCHANGED <<currentProgram, currentClass, mainMethodCount>>

(* At most one main method, of whatever name, in a class. *)
VisitMainMethodList ==
  /\ Running("mains")
  /\ IF Len(theClass.mains) # 1
     THEN NextOr(Require(theClass.mains = <<>>), "leave class") /\ UNCHANGED mainMethodCount
     ELSE /\ NextOr(visitMainMethod(theClass.mains[1]), "leave class")
          /\ mainMethodCount' = mainMethodCount + (IF theClass.mains[1].name = MainName THEN 1 ELSE 0)
  /\ UNCHANGED <<currentProgram, currentClass, currentMethod>>

(* The rest of visitClass: no method has the name of the main method. *)
LeaveClass ==
  /\ Running("leave class")
  /\ NextOr(Require(theClass.mains # <<>> => findMethodInClass(theClass, theClass.mains[1].name) = NoNode),
            NextClass(currentClass + 1))
  /\ currentClass' = currentClass + 1
  /\ UNCHANGED <<currentProgram, currentMethod, mainMethodCount>>

(* The rest of visitProgram. *)
LeaveProgram ==
  /\ Running("end")
  /\ StopWith(IF mainMethodCount = 1 THEN "accepted" ELSE "error")
  /\ UNCHANGED <<currentProgram, currentClass, currentMethod, mainMethodCount>>

CheckNext == \/ VisitProgram \/ VisitFieldList \/ VisitMethodList \/ VisitRegularMethod
             \/ VisitMainMethodList \/ LeaveClass \/ LeaveProgram
=============================================================================
