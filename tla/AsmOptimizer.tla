---------------------------- MODULE AsmOptimizer ----------------------------
(***************************************************************************)
(* One basic block from Firm nodes to optimised instructions: the          *)
(* instruction selection of AsmMethodPass (asm_pass.cpp) and the peephole  *)
(* passes (asm_optimizer.cpp) in the order of Compiler::lowerFirmGraphs.   *)
(* The block is chosen node by node.  What the optimised block does is     *)
(* compared with what the selected instructions do.                        *)
(***************************************************************************)
EXTENDS Asm, FiniteSets, FiniteSetsExt

CONSTANTS Families   \* the kinds of blocks to choose from, records
                     \*   ops       the nodes a block may have
                     \*   consts    the constants in it
                     \*   maxNodes  bound: nodes of the block
                     \*   maxPhis   bound: Phis of the following block
                     \*   exits     how it may end: "jump", "cond", "return"

(* A node is [op, a, b]: operands are constants or slots.  The i-th node    *)
(* has slot -8 * i, the j-th Phi slot -80 - 8 * j; this and an int are the  *)
(* parameters.                                                              *)
Def(i) == Slot(-8 * i)
Phi(j) == Slot(-80 - 8 * j)
This == Slot(16)
Arg == Slot(24)

VARIABLES family,   \* one of Families
          phase,    \* "nodes", "select", or the pass that comes next
          nodes, phis,   \* nodes; the operands copied to Phis at the end
          exit,     \* [kind, a, b, next]
          live,     \* slots of this block that other blocks read
          instrs, jumpInstrs,   \* BasicBlock
          promised, \* what the block does without optimisation
          code      \* flattenedInstrs

vars == <<family, phase, nodes, phis, exit, live, instrs, jumpInstrs, promised, code>>
source == <<family, nodes, phis, exit, live>>

Offsets == {-8 * i : i \in 1..family.maxNodes} \cup {-80 - 8 * j : j \in 1..family.maxPhis} \cup {16, 24}

Nothing == [log |-> <<>>]
NoExit == [kind |-> "none", a |-> NoOp, b |-> NoOp, next |-> "none"]

Init == /\ family \in Families
        /\ phase = "nodes" /\ nodes = <<>> /\ phis = <<>> /\ exit = NoExit /\ live = {}
        /\ instrs = <<>> /\ jumpInstrs = <<>> /\ promised = Nothing /\ code = <<>>
-----------------------------------------------------------------------------
(*                     The nodes of the block                              *)

Valued == {"add", "sub", "mul", "minus", "div", "mod", "load", "read", "call", "allocate"}
Ints == {Arg} \cup {Def(i) : i \in {j \in DOMAIN nodes : nodes[j].op \in Valued}}
Uses(o) == {i \in DOMAIN nodes : nodes[i].a = o \/ nodes[i].b = o}
(* The address of a field or an element is used once. *)
Addrs == {Def(i) : i \in {j \in DOMAIN nodes : nodes[j].op = "addr" /\ Uses(Def(j)) = {}}}
Sources == Ints \cup {Imm(v) : v \in family.consts}

Node(op, a, b) == [op |-> op, a |-> a, b |-> b]

(* The nodes FirmVisitor can put next. *)
NextNodes == UNION {
  {Node("add", a, b) : a \in Sources, b \in Ints},
  {Node(op, a, b) : op \in {"sub", "mul", "div", "mod"}, a \in Sources, b \in Sources},
  {Node("minus", a, NoOp) : a \in Ints},
  {Node("addr", Imm(o), This) : o \in family.consts},
  {Node("load", a, NoOp) : a \in Addrs},
  {Node("store", a, b) : a \in Addrs, b \in Sources},
  {Node(op, a, NoOp) : op \in {"print", "call"}, a \in Sources},
  {Node("allocate", a, Imm(size)) : a \in Sources, size \in family.consts},
  {Node("read", NoOp, NoOp), Node("flush", NoOp, NoOp)}}

AddNode(n) ==
  /\ Len(nodes) < family.maxNodes /\ phis = <<>>
  /\ n.op \in family.ops
  /\ Cardinality(Addrs) + (IF n.op = "addr" THEN 2 ELSE 1) <= family.maxNodes - Len(nodes) + Cardinality(Addrs \cap {n.a})
  /\ nodes' = Append(nodes, n)
  /\ UNCHANGED <<family, phase, phis, exit, live, instrs, jumpInstrs, promised, code>>

AddPhi(o) ==
  /\ Len(phis) < family.maxPhis /\ Addrs = {}
  /\ phis' = Append(phis, o)
  /\ UNCHANGED <<family, phase, nodes, exit, live, instrs, jumpInstrs, promised, code>>

(* Only nodes with an effect are in the graph without being used; an unused *)
(* remainder is left out, visitMod cannot select it.                        *)
Effects == {"store", "print", "flush", "read", "call", "allocate", "div"}
UsedBy(e, l, o) == Uses(o) # {} \/ o \in Range(phis) \cup {e.a, e.b} \cup l

(* The end of the block; next is the block that follows in the function.    *)
(* After a return no block reads a slot of this one.                        *)
End(e, l) ==
  /\ (e.kind = "return" => phis = <<>> /\ l = {})
  /\ \A i \in DOMAIN nodes : nodes[i].op \in Effects \/ UsedBy(e, l, Def(i))
  /\ exit' = e /\ live' = l /\ phase' = "select"
  /\ UNCHANGED <<family, nodes, phis, instrs, jumpInstrs, promised, code>>
-----------------------------------------------------------------------------
(*              Instruction selection (AsmMethodPass)                      *)

rax == Reg("ax")
rbx == Reg("bx")
rcx == Reg("cx")

(* The result of a call or a division is stored if it is used. *)
Result(r, d) == IF UsedBy(exit, live, d) THEN <<Mov(r, d)>> ELSE <<>>

(* Into rax or rcx, sign extended: visitDiv, visitMod. *)
Extend(o, r) == IF o.t = "imm" THEN <<Mov(o, r), I2("movslq", r, r)>> ELSE <<I2("movslq", o, r)>>

(* A call of a method has one parameter; more of them are the same two      *)
(* instructions again, at higher offsets.                                   *)
Select(n, d) ==
  CASE n.op \in {"add", "addr"} -> <<Mov(n.b, rbx), I2("add", n.a, rbx), Mov(rbx, d)>>
    [] n.op = "sub" -> <<Mov(n.a, rbx), I2("sub", n.b, rbx), Mov(rbx, d)>>
    [] n.op = "mul" -> <<Mov(n.b, rbx), I2("imul", n.a, rbx), Mov(rbx, d)>>
    [] n.op = "minus" -> <<Mov(n.a, rbx), I1("neg", rbx), Mov(rbx, d)>>
    [] n.op \in {"div", "mod"} -> Extend(n.a, rax) \o Extend(n.b, rcx) \o
         <<I0("cqto"), I1("div", rcx)>> \o Result(IF n.op = "div" THEN rax ELSE Reg("dx"), d)
    [] n.op = "load" -> <<Mov(n.a, rbx), Mov(Ind("bx", 0), rcx), Mov(rcx, d)>>
    [] n.op = "store" -> IF n.b.t = "imm" THEN <<Mov(n.a, rbx), Mov(n.b, Ind("bx", 0))>>
                         ELSE <<Mov(n.a, rbx), Mov(n.b, rcx), Mov(rcx, Ind("bx", 0))>>
    [] n.op = "print" -> <<Mov(n.a, Reg("di")), I1("call", Str("print_int"))>>
    [] n.op = "read" -> <<I1("call", Str("read_int"))>> \o Result(rax, d)
    [] n.op = "flush" -> <<I1("call", Str("flush_int"))>>
    [] n.op = "allocate" -> <<Mov(n.a, Reg("di")), Mov(n.b, Reg("si")), I1("call", Str("calloc"))>> \o Result(rax, d)
    [] n.op = "call" -> <<I2("sub", Imm(8), Reg("sp"))>>
         \o (IF n.a.t = "imm" THEN <<Mov(n.a, Ind("sp", 0))>> ELSE <<Mov(n.a, rcx), Mov(rcx, Ind("sp", 0))>>)
         \o <<I1("call", Str("f")), I2("add", Imm(8), Reg("sp"))>> \o Result(rax, d)

SelectNodes == FlattenSeq([i \in DOMAIN nodes |-> Select(nodes[i], Def(i))])

(* generateNormalPhi *)
PhiInstrs == FlattenSeq([j \in DOMAIN phis |->
  IF phis[j].t = "imm" THEN <<Mov(phis[j], Phi(j))>>
  ELSE <<Mov(phis[j], Reg("r15")), Mov(Reg("r15"), Phi(j))>>])

(* visitReturn, visitCmp, visitCond, visitJmp *)
ReturnInstrs == IF exit.kind = "return" THEN <<Mov(exit.a, rax)>> ELSE <<>>
JumpInstrs ==
  CASE exit.kind = "jump" -> <<I1("jmp", Str("T"))>>
    [] exit.kind = "return" -> <<I1("jmp", Str("end"))>>
    [] exit.kind = "cond" -> <<Mov(exit.a, rbx), I2("cmp", exit.b, rbx),
                               I1("jt", Str("T")), I1("jf", Str("F"))>>

(* What the rest of the program sees of a block. *)
Visible(c) ==
  LET m == Run(c, Offsets)
  IN [log |-> m.log,
      slots |-> [o \in live \cup {Phi(j) : j \in DOMAIN phis} |-> m.slot[o.o]],
      result |-> IF exit.kind = "return" THEN m.reg["ax"] ELSE Num(0),
      flags |-> IF exit.kind = "cond" THEN m.flags ELSE <<"undefined">>,
      sp |-> m.reg["sp"],
      target |-> [h \in BOOLEAN |-> Target(c, h, exit.next)]]

SelectBlock ==
  /\ phase = "select"
  /\ instrs' = SelectNodes \o ReturnInstrs
  /\ jumpInstrs' = JumpInstrs
  /\ promised' = Visible(instrs' \o PhiInstrs \o JumpInstrs)
  /\ phase' = "jump"
  /\ UNCHANGED <<source, code>>
-----------------------------------------------------------------------------
(*                     Before flattening                                   *)

(* AsmJumpOptimizer: the last jump, or the last but one, is to the next     *)
(* block.                                                                   *)
JumpOptimizer(js, next) ==
  LET n == Len(js)
  IN IF js[n].ops[1].r = next THEN RemoveAt(js, n)
     ELSE IF n >= 2 /\ isJmp(js[n - 1]) /\ js[n - 1].ops[1].r = next THEN RemoveAt(js, n - 1)
     ELSE js

SimpleReplace(c) ==
  IF c.mn = "add" /\ c.ops[1] = Imm(1) THEN I1("inc", c.ops[2])
  ELSE IF c.mn = "sub" /\ c.ops[1] = Imm(1) THEN I1("dec", c.ops[2])
  ELSE IF isMov(c) /\ c.ops[1] = Imm(0) /\ c.ops[2].t # "ind" THEN I2("xor", c.ops[2], c.ops[2])
  ELSE c

(* AsmSimpleOptimizer; the instruction after a removed one is not looked at. *)
RECURSIVE SimpleOptimizer(_, _)
SimpleOptimizer(c, i) ==
  IF i > Len(c) THEN c
  ELSE IF c[i].mn = "add" /\ c[i].ops[1] = Imm(0) THEN SimpleOptimizer(RemoveAt(c, i), i + 1)
  ELSE SimpleOptimizer([c EXCEPT ![i] = SimpleReplace(c[i])], i + 1)
-----------------------------------------------------------------------------
(*                          After flattening                               *)

Is(c, s, d) == isMov(c) /\ c.ops[1].t = s /\ c.ops[2].t = d

touchesReg(c, r) ==
  \/ c.nOps >= 1 /\ c.ops[1] = Reg(r) /\ c.mn \in {"inc", "dec", "div", "neg"}
  \/ c.nOps = 2 /\ c.mn # "cmp" /\ c.ops[2] = Reg(r)

(* mov reg, slot; mov slot, reg: the second mov goes. *)
Mov1(c, i) == IF Is(c[i], "reg", "ind") /\ Is(c[i + 1], "ind", "reg")
                 /\ c[i].ops[2] = c[i + 1].ops[1] /\ c[i].ops[1] = c[i + 1].ops[2]
              THEN RemoveAt(c, i + 1) ELSE c

(* mov reg1, slot; mov slot, reg2: the second mov takes reg1. *)
Mov2(c, i) == IF Is(c[i], "reg", "ind") /\ Is(c[i + 1], "ind", "reg")
                 /\ c[i].ops[2] = c[i + 1].ops[1] /\ c[i].ops[1] # c[i + 1].ops[2]
              THEN [c EXCEPT ![i + 1] = Mov(c[i].ops[1], c[i + 1].ops[2])] ELSE c

(* The same with an instruction between the two. *)
Mov3(c, i) ==
  LET m1 == c[i]
      m == c[i + 1]
      skip == /\ ~isMov(m) \/ (~touchesReg(m, m1.ops[1].r) /\ ~touchesReg(m, m1.ops[2].r))
              /\ i + 2 <= Len(c)
      k == i + (IF skip THEN 2 ELSE 1)
      m2 == c[k]
  IN IF ~Is(m1, "reg", "ind") \/ ~Is(m2, "ind", "reg") \/ m1.ops[2] # m2.ops[1] THEN c
     ELSE IF m1.ops[1] = m2.ops[2] THEN RemoveAt(c, k)
     ELSE [c EXCEPT ![k].ops[1] = m1.ops[1]]

(* mov slot, reg is redundant if one of the three instructions before it is *)
(* the same and none in between changes reg.  When the mov is removed, the  *)
(* pointer to it is left on the instruction behind it and the loop goes on. *)
(* (Behind the last instruction the code compares with the erased element,  *)
(* which makes a difference only if a second one of the three is the same;  *)
(* that is not modelled.)                                                   *)
MAX_LOOKBEHIND == 3
RECURSIVE LookBehind(_, _, _)
LookBehind(c, i, l) ==
  IF l > MAX_LOOKBEHIND \/ i - l < 1 \/ i > Len(c) THEN c
  ELSE LET m1 == c[i]
           m2 == c[i - l]
           sameMov == Is(m2, "ind", "reg") /\ m2.ops = m1.ops
       IN IF sameMov THEN LookBehind(RemoveAt(c, i), i, l + 1)
          ELSE IF touchesReg(m2, m1.ops[2].r) \/ touchesReg(m2, m1.ops[1].r) THEN c
          ELSE LookBehind(c, i, l + 1)

RECURSIVE Mov4(_, _)
Mov4(c, i) ==
  IF i <= 1 THEN c
  ELSE IF Is(c[i], "ind", "reg") /\ c[i].ops[1].r # c[i].ops[2].r
  THEN Mov4(LookBehind(c, i, 1), i - 1) ELSE Mov4(c, i - 1)

(* mov reg1, reg2; mov c(reg2), reg3: through reg1. *)
Mov5(c, i) == IF Is(c[i], "reg", "reg") /\ Is(c[i + 1], "ind", "reg") /\ c[i + 1].ops[1].r = c[i].ops[2].r
              THEN RemoveAt([c EXCEPT ![i + 1].ops[1].r = c[i].ops[1].r], i) ELSE c

(* mov slot, reg1; mov reg1, reg2: straight to reg2. *)
Mov6(c, i) == IF Is(c[i], "ind", "reg") /\ Is(c[i + 1], "reg", "reg") /\ c[i].ops[2] = c[i + 1].ops[1]
              THEN RemoveAt([c EXCEPT ![i].ops[2] = c[i + 1].ops[2]], i + 1) ELSE c

(* AsmArrayOptimizer: add $o, reg; ... (reg): the address takes the offset. *)
MAX_LOOKAHEAD == 3
RECURSIVE LookAhead(_, _, _, _, _, _)
LookAhead(c, i, r, o, l, remove) ==
  LET m == c[i + l]
  IN IF l > MAX_LOOKAHEAD \/ i + l > Len(c) THEN IF remove THEN RemoveAt(c, i) ELSE c
     ELSE IF isMov(m) /\ m.ops[1].t # "ind" /\ m.ops[2] = Ind(r, 0)
     THEN LookAhead([c EXCEPT ![i + l].ops[2].o = o], i, r, o, l + 1, TRUE)
     ELSE IF isMov(m) /\ m.ops[1].t = "ind" /\ m.ops[1].r = r
     THEN LookAhead([c EXCEPT ![i + l].ops[1].o = o], i, r, o, l + 1, TRUE)
     ELSE IF touchesReg(m, r) THEN IF remove THEN RemoveAt(c, i) ELSE c
     ELSE LookAhead(c, i, r, o, l + 1, remove)

ArrayOptimizer(c, i) ==
  IF c[i].mn = "add" /\ c[i].ops[1].t = "imm" /\ c[i].ops[2].t = "reg"
  THEN LookAhead(c, i, c[i].ops[2].r, c[i].ops[1].o, 1, FALSE)
  ELSE IF c[i].mn = "inc" /\ c[i].ops[1].t = "reg"
  THEN LookAhead(c, i, c[i].ops[1].r, 1, 1, FALSE)
  ELSE c

(* AsmAliasOptimizer: mov reg1, reg2; uses of reg2 become uses of reg1.     *)
Rename(o, dst, src) == IF o.t \in {"reg", "ind"} /\ o.r = dst THEN [o EXCEPT !.r = src] ELSE o

RECURSIVE Alias(_, _, _, _, _, _)
Alias(c, i, x, src, dst, remove) ==
  IF x >= Len(c) THEN IF remove THEN RemoveAt(c, i) ELSE c
  ELSE IF touchesReg(c[x], src) THEN c
  ELSE IF touchesReg(c[x], dst) THEN IF remove THEN RemoveAt(c, i) ELSE c
  ELSE IF c[x].nOps = 0 THEN Alias(c, i, x + 1, src, dst, remove)
  ELSE Alias([c EXCEPT ![x].ops = <<Rename(@[1], dst, src), IF c[x].nOps = 2 THEN Rename(@[2], dst, src) ELSE @[2]>>],
             i, x + 1, src, dst, TRUE)

AliasOptimizer(c, i) ==
  IF Is(c[i], "reg", "reg") /\ c[i].ops[2].r \notin {"di", "si"}
  THEN Alias(c, i, i + 1, c[i].ops[1].r, c[i].ops[2].r, FALSE) ELSE c

(* AsmArithOptimizer: add $a, reg; sub $b, reg. *)
ArithOptimizer(c, i) ==
  LET diff == c[i].ops[1].o - c[i + 1].ops[1].o
  IN IF /\ c[i].mn = "add" /\ c[i + 1].mn = "sub"
        /\ c[i].ops[1].t = "imm" /\ c[i + 1].ops[1].t = "imm"
        /\ c[i].ops[2].t = "reg" /\ c[i].ops[2] = c[i + 1].ops[2]
     THEN IF diff = 0 THEN RemoveAt(RemoveAt(c, i + 1), i)
          ELSE [RemoveAt(c, i + 1) EXCEPT ![i] = IF diff < 0 THEN I2("sub", Imm(-diff), c[i].ops[2])
                                                 ELSE I2("add", Imm(diff), c[i].ops[2])]
     ELSE c

(* A pass over all instructions but the last. *)
Pass(p, c, i) == CASE p = "mov1" -> Mov1(c, i) [] p = "mov2" -> Mov2(c, i) [] p = "mov3" -> Mov3(c, i)
                   [] p = "mov5" -> Mov5(c, i) [] p = "mov6" -> Mov6(c, i)
                   [] p = "array" -> ArrayOptimizer(c, i) [] p = "alias" -> AliasOptimizer(c, i)
                   [] p = "arith" -> ArithOptimizer(c, i)
RECURSIVE Loop(_, _, _)
Loop(p, c, i) == IF i >= Len(c) THEN c ELSE Loop(p, Pass(p, c, i), i + 1)

MovOptimizer(c) ==
  LET c3 == Loop("mov3", Loop("mov2", Loop("mov1", c, 1), 1), 1)
  IN Loop("mov6", Loop("mov5", Mov4(c3, Len(c3)), 1), 1)

UsedByMov(c) == {c[i].ops[1].o : i \in {j \in DOMAIN c : isMov(c[j]) /\ c[j].ops[1].t = "ind" /\ c[j].ops[1].o < 0}}

(* AsmStackOptimizer: a slot no instruction of the function has for its     *)
(* first operand is not written.                                            *)
UsedSlots(c) == {c[i].ops[1].o : i \in {j \in DOMAIN c : c[j].nOps >= 1 /\ c[j].ops[1].t = "ind" /\ c[j].ops[1].o < 0}}
StackOptimizer(c) ==
  LET used == UsedSlots(c) \cup {o.o : o \in live} \cup {Phi(j).o : j \in 1..family.maxPhis}
  IN SelectSeq(c, LAMBDA m : ~(isMov(m) /\ m.ops[2].t = "ind" /\ m.ops[2].o < 0 /\ m.ops[2].o \notin used))
-----------------------------------------------------------------------------
(* Mutant: AsmBlockOptimizer::run visits every block. *)
PassVisitsAll == TRUE

(* AsmBlockOptimizer::run skips blocks without instructions. *)
PassVisits == instrs # <<>>
BlockPass(p, c) == IF PassVisits THEN p ELSE c

Go(from, to, c) == phase = from /\ phase' = to /\ code' = c /\ UNCHANGED <<source, instrs, jumpInstrs, promised>>

OptimizeJumps ==
  /\ phase = "jump" /\ phase' = "simple"
  /\ jumpInstrs' = JumpOptimizer(jumpInstrs, exit.next)
  /\ UNCHANGED <<source, instrs, promised, code>>
OptimizeSimple ==
  /\ phase = "simple" /\ phase' = "mov"
  /\ instrs' = SimpleOptimizer(instrs, 1)
  /\ code' = instrs' \o PhiInstrs \o jumpInstrs
  /\ UNCHANGED <<source, jumpInstrs, promised>>

OptimizeMovs == Go("mov", "stack", BlockPass(MovOptimizer(code), code))
OptimizeStack == Go("stack", "array", StackOptimizer(code))
OptimizeArrays == Go("array", "mov again", BlockPass(Loop("array", code, 1), code))
OptimizeMovsAgain == Go("mov again", "alias", BlockPass(MovOptimizer(code), code))
OptimizeAliases == Go("alias", "arith", BlockPass(Loop("alias", code, 1), code))
OptimizeArith == Go("arith", "done", BlockPass(Loop("arith", code, 1), code))

ExitChoices ==
  {[kind |-> k, a |-> NoOp, b |-> NoOp, next |-> n] : k \in {"jump"} \cap family.exits, n \in {"T", "other"}}
  \cup {[kind |-> k, a |-> a, b |-> b, next |-> n] :
          k \in {"cond"} \cap family.exits, a \in Ints, b \in Sources, n \in {"T", "F", "other"}}
  \cup {[kind |-> k, a |-> a, b |-> NoOp, next |-> n] : k \in {"return"} \cap family.exits, a \in Sources, n \in {"end", "other"}}

Done == phase = "done" /\ UNCHANGED vars

Next ==
  \/ /\ phase = "nodes"
     /\ \/ \E n \in NextNodes : AddNode(n)
        \/ \E o \in Sources : AddPhi(o)
        \/ \E e \in ExitChoices, l \in SUBSET (Ints \ {Arg}) : End(e, l)
  \/ SelectBlock \/ OptimizeJumps \/ OptimizeSimple \/ OptimizeMovs \/ OptimizeStack
  \/ OptimizeArrays \/ OptimizeMovsAgain \/ OptimizeAliases \/ OptimizeArith \/ Done

Spec == Init /\ [][Next]_vars
-----------------------------------------------------------------------------
(* Every instruction exists: it has the operands it says it has, at most    *)
(* one of them is in memory and none writes to a constant ("only handle mov *)
(* $0, reg", asm_optimizer.cpp:137).  The block passes count up to size()-1 *)
(* of the flattened instructions, an unsigned number: a block they visit is *)
(* never empty, although run() asks the list before flattening and earlier  *)
(* passes remove instructions.                                              *)
Encodable ==
  /\ \A i \in DOMAIN code :
       /\ code[i].nOps = Cardinality({j \in 1..2 : code[i].ops[j].t # "none"})
       /\ Cardinality({j \in 1..2 : code[i].ops[j].t = "ind"}) <= 1
       /\ code[i].ops[2].t # "imm"
  /\ phase \in {"mov", "array", "mov again", "alias", "arith"} /\ PassVisits => code # <<>>

Optimizing == phase \in {"mov", "stack", "array", "mov again", "alias", "arith", "done"}

(* After each pass the block still stores, calls, divides, compares, jumps, *)
(* returns and leaves in the slots that others read what the selected       *)
(* instructions do (asm_optimizer.cpp).                                     *)
SameEffect == Optimizing => Visible(code) = promised
=============================================================================
