-------------------------------- MODULE Asm ---------------------------------
(***************************************************************************)
(* Assembler instructions as asm.hpp represents them, and what a sequence  *)
(* of them does.  Values are symbolic, a base term plus a constant, so one *)
(* execution stands for all inputs.  Registers and stack slots hold one    *)
(* value each: the widths of moves (RegMode) are not modelled.             *)
(***************************************************************************)
EXTENDS Integers, Sequences, SequencesExt

(* Op: t is "imm", "reg", "ind" (o(r), memory) or "str" (a label).          *)
Imm(v) == [t |-> "imm", r |-> "none", o |-> v]
Reg(r) == [t |-> "reg", r |-> r, o |-> 0]
Ind(r, o) == [t |-> "ind", r |-> r, o |-> o]
Str(s) == [t |-> "str", r |-> s, o |-> 0]
NoOp == [t |-> "none", r |-> "none", o |-> 0]
Slot(o) == Ind("bp", o)

I2(m, a, b) == [mn |-> m, ops |-> <<a, b>>, nOps |-> 2]
I1(m, a) == [mn |-> m, ops |-> <<a, NoOp>>, nOps |-> 1]
I0(m) == [mn |-> m, ops |-> <<NoOp, NoOp>>, nOps |-> 0]
Mov(a, b) == I2("mov", a, b)

isMov(c) == c.mn = "mov"
isJmp(c) == c.mn \in {"jmp", "jt", "jf"}   \* jt, jf: on a relation, on its inverse
-----------------------------------------------------------------------------
(*                       What instructions do                              *)

Regs == {"ax", "bx", "cx", "dx", "bp", "sp", "si", "di", "r15"}

Val(b, k) == [b |-> b, k |-> k]
Num(k) == Val(<<"number">>, k)
IsNum(v) == v.b = <<"number">>
Plus(v, w) == IF IsNum(w) THEN Val(v.b, v.k + w.k)
              ELSE IF IsNum(v) THEN Val(w.b, v.k + w.k)
              ELSE Val(<<"plus", v.b, w.b>>, v.k + w.k)
Minus(v, w) == IF IsNum(w) THEN Val(v.b, v.k - w.k) ELSE Val(<<"minus", v.b, w.b>>, v.k - w.k)
Term(f, v, w) == Val(<<f, v, w>>, 0)

(* A machine: registers, stack slots by offset, the stores, calls and       *)
(* divisions so far, the last comparison.                                   *)
Machine(offsets) == [reg |-> [r \in Regs |-> Val(<<"reg", r>>, 0)],
                     slot |-> [o \in offsets |-> Val(<<"slot", o>>, 0)],
                     log |-> <<>>,
                     flags |-> <<"undefined">>]

Addr(m, op) == Val(m.reg[op.r].b, m.reg[op.r].k + op.o)
Read(m, op) == CASE op.t = "imm" -> Num(op.o)
                 [] op.t = "reg" -> m.reg[op.r]
                 [] op.t = "ind" /\ op.r = "bp" -> m.slot[op.o]
                 [] OTHER -> Val(<<"load", Addr(m, op), Len(m.log)>>, 0)
Write(m, op, v) == CASE op.t = "reg" -> [m EXCEPT !.reg[op.r] = v]
                     [] op.t = "ind" /\ op.r = "bp" -> [m EXCEPT !.slot[op.o] = v]
                     [] OTHER -> [m EXCEPT !.log = Append(@, <<"store", Addr(m, op), v>>)]

(* A call gets its arguments in di and si, or in memory; afterwards only    *)
(* the frame is what it was, no function of the program saves a register.   *)
DoCall(m, f) ==
  [m EXCEPT !.log = Append(@, CASE f = "print_int" -> <<"print", m.reg["di"]>>
                                [] f = "calloc" -> <<"allocate", m.reg["di"], m.reg["si"]>>
                                [] OTHER -> <<"call", f>>),
            !.reg = [r \in Regs |-> IF r \in {"bp", "sp"} THEN m.reg[r]
                                    ELSE Val(<<"after call", r, Len(m.log)>>, 0)]]

DoDiv(m, v) ==
  [m EXCEPT !.log = Append(@, <<"div", m.reg["ax"], v>>),
            !.reg["ax"] = Term("quotient", m.reg["ax"], v),
            !.reg["dx"] = Term("remainder", m.reg["ax"], v)]

Do(m, c) ==
  LET a == c.ops[1]
      b == c.ops[2]
  IN CASE c.mn = "mov" -> Write(m, b, Read(m, a))
       [] c.mn = "movslq" -> Write(m, b, Val(<<"extended", Read(m, a)>>, 0))
       [] c.mn = "add" -> Write(m, b, Plus(Read(m, b), Read(m, a)))
       [] c.mn = "sub" -> Write(m, b, Minus(Read(m, b), Read(m, a)))
       [] c.mn = "imul" -> Write(m, b, Term("times", Read(m, b), Read(m, a)))
       [] c.mn = "xor" -> IF a = b THEN Write(m, b, Num(0)) ELSE Write(m, b, Term("xor", Read(m, b), Read(m, a)))
       [] c.mn = "neg" -> Write(m, a, Val(<<"neg", Read(m, a)>>, 0))
       [] c.mn = "inc" -> Write(m, a, Plus(Read(m, a), Num(1)))
       [] c.mn = "dec" -> Write(m, a, Minus(Read(m, a), Num(1)))
       [] c.mn = "cmp" -> [m EXCEPT !.flags = <<"compared", Read(m, b), Read(m, a)>>]
       [] c.mn = "div" -> DoDiv(m, Read(m, a))
       [] c.mn = "call" -> DoCall(m, a.r)
       [] OTHER -> m   \* cqto prepares div; jumps: see Target

Run(code, offsets) == FoldLeft(Do, Machine(offsets), code)

(* Where the jumps of code lead when the relation of the last comparison    *)
(* holds or does not; next is the block that follows.                       *)
Target(code, holds, next) ==
  LET taken == SelectSeq(code, LAMBDA c : c.mn = "jmp" \/ c.mn = (IF holds THEN "jt" ELSE "jf"))
  IN IF taken = <<>> THEN next ELSE taken[1].ops[1].r
=============================================================================
