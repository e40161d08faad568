---------------------------- MODULE MC_FrontEnd ----------------------------
EXTENDS FrontEnd

MCMaxInt == 7
x == Id(1)
num(v) == <<IntLit(v)>>
All(s) == FlattenSeq(s)
Family(before, pieces, max, after) ==
  [before |-> before, slots |-> [i \in 1..max |-> pieces], min |-> 0,
   after |-> after, option |-> "print"]

(* class 1 { public int 1 ( ) { ... } } *)
Method == All(<<T("class"), Id(1), T("{"), T("public"), T("int"), Id(1), T("("), T(")"), T("{")>>)
End == All(<<T("}"), T("}"), T("Eof")>>)
InMethod(pieces, max) == Family(Method, pieces, max, End)
InReturn(pieces, max) == Family(Method \o T("return"), pieces, max, T(";") \o End)
InClass(pieces, max) == Family(All(<<T("class"), Id(1), T("{")>>), pieces, max, T("}") \o T("Eof"))

PrintFamilies == <<
  \* operators of every precedence, prefixes, parentheses
  InReturn(<<x, x \o T("="), x \o T("||"), x \o T("&&"), x \o T("=="), x \o T("<"), x \o T("-"), x \o T("*"), T("-")>>, 4),
  InReturn(<<x, T("-"), T("*"), T("="), T("("), T(")")>>, 5),
  \* literals at the edge of int
  InReturn(<<T("-"), T("!"), num(7), num(8), T("("), T(")")>>, 4),
  \* members, calls, indices, new
  InReturn(<<x, T("."), T("["), T("]"), T("("), T(")"), T(",")>>, 5),
  Family(Method \o T("return") \o T("new"), <<x, T("int"), T("["), T("]"), T("("), T(")")>>, 5, T(";") \o End),
  \* statements
  InMethod(<<x \o T(";"), T(";"), T("{"), T("}"), T("else"), All(<<T("if"), T("("), x, T(")")>>),
             All(<<T("while"), T("("), x, T(")")>>)>>, 5),
  InMethod(<<x, T("["), T("]"), T("="), T(";"), T("int")>>, 5),
  \* the flag of the printer from one expression to the next
  InMethod(<<All(<<x, T("="), T("-"), num(1), T(";")>>), All(<<x, T("*"), num(1), T(";")>>),
             All(<<T("("), x, T("+"), x, T(")"), T("."), Id(2), T(";")>>),
             All(<<T("-"), x, T("["), num(1), T("]"), T(";")>>),
             All(<<Id(2), T("("), T("-"), num(1), T(","), x, T("+"), x, T(")"), T(";")>>),
             All(<<T("if"), T("("), T("-"), num(1), T("+"), x, T(")")>>), T("else")>>, 4),
  \* members and classes
  InClass(<<All(<<T("public"), T("int"), Id(2)>>), All(<<T("public"), Id(2), Id(1)>>), T(";"),
            T("(") \o T(")"), T("{") \o T("}"), T("throws") \o Id(1), T("[") \o T("]"),
            All(<<T("("), T("int"), Id(1), T(","), Id(2), Id(2), T(")")>>),
            All(<<T("public"), T("static"), T("void"), Id(1), T("("), Id(3), T("["), T("]"), Id(2), T(")")>>)>>, 4),
  Family(<<>>, <<All(<<T("class"), Id(1), T("{")>>), All(<<T("class"), Id(2), T("{")>>), T("}"),
            All(<<T("public"), T("int"), Id(1), T(";")>>), All(<<T("public"), Id(1), Id(2), T(";")>>),
            All(<<T("public"), T("void"), Id(1), T("("), T(")"), T("{"), T("}")>>)>>, 5, T("Eof"))
>>
-----------------------------------------------------------------------------
(* Texts for --check: one piece from each slot. *)

Slots(before, slots, after) ==
  [before |-> before, slots |-> slots, min |-> Len(slots), after |-> after, option |-> "check"]
Maybe(pieces) == <<(<<>>)>> \o pieces
Dot(f) == T(".") \o Id(f)
At0 == T("[") \o num(0) \o T("]")
Public(t, f) == T("public") \o t \o Id(f)
Nop == T("(") \o T(")") \o T("{") \o T("}")
Array(t) == t \o T("[") \o T("]")
MainClass(c) == All(<<T("class"), Id(c), T("{"), T("public"), T("static"), T("void"), Id(27), T("("), Id(3),
                     T("["), T("]"), Id(4), T(")"), T("{"), T("}"), T("}")>>)

(* Two classes, 1 and 2; fields int 5, boolean 6, 1 7, int[] 8, 1[][] 9, 2 10; *)
(* methods int 11(int, 1), void 12().                                        *)
Fields1 == All(<<Public(T("int"), 5), T(";"), Public(T("boolean"), 6), T(";"), Public(Id(1), 7), T(";"),
                Public(Array(T("int")), 8), T(";"), Public(Array(Array(Id(1))), 9), T(";"), Public(Id(2), 10), T(";")>>)
Methods1 == All(<<Public(T("int"), 11), T("("), T("int"), Id(4), T(","), Id(1), Id(5), T(")"), T("{"), T("return"),
                  Id(4), T(";"), T("}"), Public(T("void"), 12), Nop>>)
InClass1(ret) == All(<<T("class"), Id(1), T("{"), Fields1, Methods1, Public(ret, 13), T("("), T("int"), Id(14), T(","),
                       Array(Id(1)), Id(15), T(")"), T("{")>>)
EndClass1 == All(<<T("}"), T("}"), MainClass(2), T("Eof")>>)
Operands == <<Id(5), Id(6), Id(7), Id(8), Id(9), Id(10), Id(15), num(0), T("null"), T("this"),
              T("new") \o Id(1) \o T("(") \o T(")"), All(<<T("new"), T("int"), T("["), num(0), T("]")>>),
              Id(12) \o T("(") \o T(")")>>
Postfixed == Maybe(<<At0, Dot(7), At0 \o At0>>)

Param(t, p) == t \o Id(p)
Ret(e) == T("return") \o e \o T(";")
Types == <<T("int"), T("void"), Id(1), Id(2), Id(9), Array(T("void")), Array(Id(9)), Array(Id(2))>>

CheckFamilies == <<
  \* operators and assignments between operands of all types
  Slots(InClass1(T("void")), <<Maybe(<<T("!"), T("-")>>), Operands, Postfixed,
        <<T("="), T("=="), T("+"), T("<"), T("&&")>>, Operands, Postfixed>>, T(";") \o EndClass1),
  \* calls: receiver, method, arguments
  Slots(InClass1(T("boolean")) \o T("return"),
        <<Maybe(<<T("this") \o T("."), Id(15) \o At0 \o T("."), Id(10) \o T("."), T("null") \o T("."), Id(8) \o T(".")>>),
          <<Id(11), Id(12), Id(13)>>, <<T("(")>>, Maybe(<<num(0), T("null"), Id(7)>>),
          Maybe(<<T(","), T(",") \o T("this"), T(",") \o T("null"), T(",") \o Id(15)>>), <<T(")")>>,
          Maybe(<<T("==") \o num(0), T("==") \o T("null"), T("==") \o Id(12) \o T("(") \o T(")")>>)>>,
        T(";") \o EndClass1),
  \* System
  Slots(InClass1(T("void")),
        <<Maybe(<<All(<<T("int"), Id(20), T(";")>>), All(<<Id(1), Id(20), T(";")>>), Id(5) \o T("=")>>), <<Id(20), Id(7)>>,
          Maybe(<<Dot(21), Dot(22), Dot(5)>>), Maybe(<<Dot(23), Dot(24), Dot(25), Dot(26), Dot(5)>>),
          Maybe(<<T("(") \o T(")"), T("(") \o num(0) \o T(")"), T("(") \o Id(6) \o T(")"), T("==") \o Id(20)>>)>>,
        T(";") \o EndClass1),
  \* statements: conditions, declarations, blocks, paths that return
  Slots(InClass1(Array(T("int"))),
        [i \in 1..4 |-> Maybe(<<All(<<T("if"), T("("), Id(6), T(")")>>), T("else"), Ret(T("null")), Ret(num(0)),
            T("{"), T("}"), All(<<T("while"), T("("), Id(i + 4), T(")")>>), All(<<T("int"), Id(5 + (i % 2)), T("="), Id(5), T(";")>>)>>)],
        Ret(Id(8)) \o EndClass1),
  Slots(InClass1(T("int")),
        [i \in 1..4 |-> <<All(<<T("if"), T("("), Id(6), T(")")>>), T("else"), Ret(num(0)), Ret(<<>>), T("{"), T("}")>>], EndClass1),
  \* members whose types are missing, wrong or declared twice, used before they are checked
  Slots(<<>>, <<<<MainClass(1), T("class") \o Id(1) \o T("{") \o T("}")>>,
                <<All(<<T("class"), Id(2), T("{"), Public(T("int"), 5), T("("), Param(Id(4), 6), T(")"), T("{")>>),
                  All(<<T("class"), Id(4), T("{"), Public(T("int"), 5), T("("), Param(Id(4), 6), T(")"), T("{")>>),
                  All(<<T("class"), Id(2), T("{"), T("public"), T("static"), T("void"), Id(27), T("("), Id(3), T("["), T("]"), Id(6), T(")"), T("{")>>)>>,
                Maybe(<<Ret(Id(6) \o Dot(7)), Ret(All(<<Id(6), Dot(8), T("("), T(")")>>)), Ret(num(0))>>),
                Maybe(<<Ret(All(<<Id(6), Dot(7), Dot(7)>>)), Ret(All(<<Id(6), Dot(8), T("("), T(")"), At0>>)),
                        Ret(All(<<Id(6), Dot(8), T("("), T(")"), Dot(8), T("("), T(")")>>))>>),
                <<All(<<T("}"), T("}"), T("class"), Id(4), T("{"), T("public")>>), All(<<T("}"), T("}"), T("class"), Id(2), T("{"), T("public")>>)>>,
                Types, <<Id(7) \o T(";")>>, <<T("public")>>, Types, <<Id(8) \o T("("), Id(7) \o T("("), Id(7) \o T(";") \o Public(T("int"), 5) \o T("(")>>>>,
        All(<<T(")"), T("{"), Ret(T("null")), T("}"), T("}"), T("Eof")>>)),
  \* parameters, main methods
  Slots(All(<<T("class"), Id(2), T("{"), Public(T("void"), 5), T("(")>>),
        <<[i \in 1..8 |-> Param(Types[i], 5)], Maybe(<<T(",") \o Param(T("int"), 5), T(",") \o Param(Id(2), 6)>>),
          <<T(")") \o T("{")>>, Maybe(<<Param(T("int"), 5) \o T(";"), Param(T("void"), 7) \o T(";"), Param(Id(9), 7) \o T(";")>>),
          <<T("}") \o T("public") \o T("static") \o T("void")>>, <<Id(27), Id(5), Id(9)>>,
          <<All(<<T("("), Id(3), T("["), T("]"), Id(6), T(")"), T("{")>>)>>,
          Maybe(<<Id(6) \o T(";"), Param(T("int"), 6) \o T(";"), Id(8) \o T(";"), T("this") \o T(";"), Ret(<<>>), Ret(num(0))>>),
          <<T("}") \o Public(T("int"), 8) \o T(";") \o T("}")>>, Maybe(<<MainClass(1), MainClass(2)>>)>>, T("Eof"))
>>
-----------------------------------------------------------------------------
(* Texts for --compile-firm: the statements of method 11. *)
Index(i) == T("[") \o i \o T("]")
(* class 1 { boolean 4; int 5; 1 6; int[] 7; int 11(int 8, int 9) { 1 12 = new 1(); ... } *)
(*           int 13(int, int) {...} void 14() {} }                                       *)
Before11 == All(<<T("class"), Id(1), T("{"), Public(T("boolean"), 4), T(";"), Public(T("int"), 5), T(";"),
                  Public(Id(1), 6), T(";"), Public(Array(T("int")), 7), T(";"),
                  Public(T("int"), 11), T("("), T("int"), Id(8), T(","), T("int"), Id(9), T(")"), T("{"),
                  Id(1), Id(12), T("="), T("new"), Id(1), T("("), T(")"), T(";"),
                  Array(Array(T("int"))), Id(15), T("="), T("new"), T("int"), Index(num(2)), T("["), T("]"), T(";"),
                  T("int"), Id(16), T("="), num(1), T(";"), Id(7), T("="), Id(15), Index(num(1)), T("="),
                  T("new"), T("int"), Index(num(4)), T(";")>>)
After11 == All(<<T(";"), T("return"), Id(16), T("+"), Id(5), T(";"), T("}"),
                 Public(T("int"), 13), T("("), T("int"), Id(8), T(","), T("int"), Id(9), T(")"), T("{"),
                 T("return"), Id(5), T(";"), T("}"), Public(T("void"), 14), T("("), T(")"), T("{"), T("}"), T("}"),
                 T("class"), Id(2), T("{"), T("public"), T("static"), T("void"), Id(27), T("("), Id(3),
                 T("["), T("]"), Id(4), T(")"), T("{"), T("}"), T("}"), T("Eof")>>)

Call(a, b) == All(<<Id(13), T("("), a, T(","), b, T(")")>>)
Assign(l, r) == All(<<T("("), l, T("="), r, T(")")>>)
Places == <<Id(16), Id(5), Id(12) \o Dot(5), Id(7) \o Index(Id(5)), Id(15) \o Index(num(1)) \o Index(Id(16))>>
Values == Places \o <<num(1), T("-") \o Id(5), Assign(Id(16), num(0)), Assign(Id(5), num(2)), Call(Id(5), Id(16)),
                        Assign(Id(7) \o Index(num(1)), num(2)), All(<<Id(20), Dot(22), Dot(26), T("("), T(")")>>)>>
InMethod11(slots) == [Slots(Before11, slots, After11) EXCEPT !.option = "compile"]

CompileFamilies == <<
  \* place = operand op operand
  InMethod11(<<Places, <<T("=")>>, Values, <<T("+"), T("-"), T("/"), T("%")>>, Values>>),
  \* arguments
  InMethod11(<<<<T("this") \o T("."), Id(12) \o T("."), <<>>>>, <<Id(13) \o T("(")>>, Values, <<T(",")>>, Values, <<T(")")>>>>),
  InMethod11(<<<<Id(20) \o Dot(21)>>, <<Dot(23) \o T("("), Dot(24) \o T("(")>>, Values, Places, <<T(")")>>>>),
  InMethod11(<<<<Id(20) \o Dot(21)>>, <<Dot(23) \o T("("), Dot(24) \o T("(")>>, Values, <<T("*")>>, Values, <<T(")")>>>>),
  \* objects and places computed on the way
  InMethod11(<<<<Id(6), Id(12), Id(12) \o Dot(6)>>, <<T("=")>>, <<Id(12), T("this"), T("null"), All(<<T("new"), Id(1), T("("), T(")")>>)>>,
          <<T(";")>>,
          <<Assign(Id(12), T("this")) \o Dot(5), Id(6) \o Dot(5), Id(12) \o Dot(6) \o Dot(5), Id(7) \o Index(Assign(Id(5), num(1))),
            Id(12) \o Dot(4), Assign(Id(7), Id(15) \o Index(num(1))) \o Index(Id(16)), Assign(Id(6), Id(12)) \o Dot(7) \o Index(num(1))>>,
          <<T("=")>>, Values \o <<T("true"), T("null")>>>>),
  InMethod11(<<<<Id(12), Id(6), T("this")>>, <<Dot(14) \o T("(") \o T(")"), Dot(5) \o T("=") \o Id(12) \o Dot(5),
            Dot(7) \o T("=") \o All(<<T("new"), T("int"), Index(Id(16) \o T("+") \o Assign(Id(16), num(2)))>>),
            Dot(6) \o T("=") \o All(<<T("new"), Id(1), T("("), T(")")>>)>>,
          <<T(";") \o Id(20) \o Dot(21) \o Dot(25) \o T("(") \o T(")") \o T(";")>>, Places, <<T("=")>>, Values>>)
>>
-----------------------------------------------------------------------------
MCFamilies == PrintFamilies \o CheckFamilies \o CompileFamilies
=============================================================================
