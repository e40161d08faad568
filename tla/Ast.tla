-------------------------------- MODULE Ast --------------------------------
(***************************************************************************)
(* The syntax tree (ast.hpp).  A node is a record whose field n names its  *)
(* class; locations and the links that the semantic analysis sets are left *)
(* out.  A name is its rank in the order of strings.                       *)
(***************************************************************************)
EXTENDS Integers, Sequences, SequencesExt, FiniteSets

CONSTANTS MaxInt,           \* the largest int32_t (bound: a small one)
          StringName        \* the name "String"

(* A null pointer in place of a node. *)
NoNode == [n |-> "null"]

PrimitiveType(p) == [n |-> "PrimitiveType", prim |-> p]
ClassType(c) == [n |-> "ClassType", name |-> c]
ArrayType(elem, dim) == [n |-> "ArrayType", elem |-> elem, dimension |-> dim]

VarRef(x) == [n |-> "VarRef", name |-> x]
IntLiteral(v) == [n |-> "IntLiteral", int |-> v]
BoolLiteral(b) == [n |-> "BoolLiteral", bool |-> b]
NullLiteral == [n |-> "NullLiteral"]
ThisLiteral == [n |-> "ThisLiteral"]
NewObjectExpression(c) == [n |-> "NewObjectExpression", name |-> c]
NewArrayExpression(t, s) == [n |-> "NewArrayExpression", type |-> t, size |-> s]
MethodInvocation(l, m, as) == [n |-> "MethodInvocation", left |-> l, name |-> m, args |-> as]
FieldAccess(l, f) == [n |-> "FieldAccess", left |-> l, name |-> f]
ArrayAccess(a, i) == [n |-> "ArrayAccess", left |-> a, index |-> i]
(* The operations are named by their tokens (getOpForToken). *)
BinaryExpression(op, l, r) == [n |-> "BinaryExpression", op |-> op, left |-> l, right |-> r]
UnaryExpression(op, e) == [n |-> "UnaryExpression", op |-> op, expr |-> e]

ExpressionStatement(e) == [n |-> "ExpressionStatement", expr |-> e]
IfStatement(c, t, e) == [n |-> "IfStatement", cond |-> c, then |-> t, else |-> e]
WhileStatement(c, s) == [n |-> "WhileStatement", cond |-> c, body |-> s]
ReturnStatement(e) == [n |-> "ReturnStatement", expr |-> e]
VariableDeclaration(t, x, e) == [n |-> "VariableDeclaration", type |-> t, name |-> x, init |-> e]
(* blank: containsNothingExceptOneSingleLonelyEmptyExpression *)
Block(ss) == [n |-> "Block", stmts |-> ss,
              blank |-> \A i \in DOMAIN ss : ss[i].n = "Block" /\ ss[i].blank]

Field(t, x) == [n |-> "Field", type |-> t, name |-> x]
Parameter(t, x, i) == [n |-> "Parameter", type |-> t, name |-> x, idx |-> i]
RegularMethod(t, m, ps, b) == [n |-> "RegularMethod", type |-> t, name |-> m, params |-> ps, block |-> b]
MainMethod(m, a, b) == [n |-> "MainMethod", name |-> m, arg |-> a, block |-> b]
Class(c, fs, ms, mains) == [n |-> "Class", name |-> c, fields |-> fs, methods |-> ms, mains |-> mains]
Program(cs) == [n |-> "Program", classes |-> cs]

(* acceptChildren of Program, FieldList, MethodList and MainMethodList sorts *)
(* the list by name before it visits the elements; std::sort of so few      *)
(* elements is an insertion sort, which is stable.                          *)
SortedByName(s) ==
  LET Before(i, j) == s[i].name < s[j].name \/ (s[i].name = s[j].name /\ i < j)
  IN [k \in DOMAIN s |->
        s[CHOOSE i \in DOMAIN s : Cardinality({j \in DOMAIN s : Before(j, i)}) = k - 1]]
=============================================================================
