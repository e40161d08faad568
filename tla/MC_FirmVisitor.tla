--------------------------- MODULE MC_FirmVisitor ---------------------------
(* Two questions about the translation, one instance: a behaviour compiles  *)
(* either a condition (BoolLowering) or the statements of a method          *)
(* (StmtLowering); the other machine stays in one of its initial states.    *)
EXTENDS StmtLowering

VARIABLES machine, expr, use, input, cfg, result, boolBlock, boolPos, vals, env, trace, pc, outcome

boolVars == <<expr, use, input, cfg, result, boolBlock, boolPos, vals, env, trace, pc, outcome>>

(* The conditions: all expressions of three levels in which one operand of  *)
(* every "&&" or "||" of the second level is a leaf, and their negations    *)
(* and assignments.                                                         *)
Unary(S) == {[op |-> "not", e |-> e] : e \in S}
            \cup {[op |-> "asg", x |-> "c", e |-> e] : e \in S}
Binary(S, T) == {[op |-> o, l |-> l, r |-> r] : o \in {"and", "or"}, l \in S, r \in T}

E0 == {[op |-> "val", x |-> "a"], [op |-> "cmp", x |-> "b"], [op |-> "val", x |-> "c"],
       [op |-> "lit", v |-> 1], [op |-> "lit", v |-> 0]}
E1 == E0 \cup Unary(E0) \cup Binary(E0, E0)
E2 == E1 \cup Unary(E1) \cup Binary(E0, E1) \cup Binary(E1, E0)
MCExprs == E2 \cup Unary(E1 \cup Unary(E1))
MCUses == {"value", "branch", "empty if"}

(* The methods whose statements are lowered. *)
K(op, cond, shape) == [op |-> op, cond |-> cond, shape |-> shape]
Simple == {K("expr", "c", <<>>), K("return", "c", <<>>)}
Ifs == {K("if", "c", <<t, e>>) : t, e \in BOOLEAN}
Whiles == {K("while", "c", <<TRUE>>), K("while", "c", <<FALSE>>)}
Forever == {K("while", "true", <<TRUE>>), K("while", "false", <<TRUE>>), K("if", "true", <<TRUE, FALSE>>)}
Block(n) == K("block", "c", [i \in 1..n |-> TRUE])

(* All shapes in short methods; fewer shapes, nested deeper, in longer ones. *)
Short == [kinds |-> Simple \cup Ifs \cup Whiles \cup Forever \cup {Block(2)},
          roots |-> {Block(1), Block(2), Block(3)},
          maxNodes |-> 5]
Deep == [kinds |-> Simple \cup {K("if", "c", <<TRUE, FALSE>>),
                                K("while", "c", <<TRUE>>), K("while", "true", <<TRUE>>), Block(2)},
         roots |-> {Block(2)},
         maxNodes |-> 7]
MCFamilies == {Short, Deep}

Bool == INSTANCE BoolLowering WITH
  Exprs <- MCExprs, Uses <- MCUses, block <- boolBlock, pos <- boolPos

VisitorInit ==
  \/ /\ machine = "condition"
     /\ isVoid = TRUE /\ family = Short
     /\ Init /\ Bool!Init
  \/ /\ machine = "statements"
     /\ expr = [op |-> "lit", v |-> 1] /\ use = "value" /\ input = [x \in Bool!Names |-> 0]
     /\ Init /\ Bool!Init
VisitorNext ==
  \/ machine = "condition" /\ Bool!Next /\ UNCHANGED <<machine, vars>>
  \/ machine = "statements" /\ Next /\ UNCHANGED <<machine, boolVars>>
VisitorSpec == VisitorInit /\ [][VisitorNext]_<<machine, vars, boolVars>>
-----------------------------------------------------------------------------
(* A boolean expression is evaluated as Java does, except where a "!" of     *)
(* "&&" or "||" is used as a value.                                          *)
ShortCircuitCorrect == Bool!ShortCircuitCorrect

(* The same for every expression: "'Not' is implemented by switching         *)
(* Projection order" (firm_visitor.cpp:691).                                 *)
LoweringCorrect == Bool!LoweringCorrect

(* Out of every block that is executed leads exactly one way, and no block   *)
(* gets a predecessor once it was matured or is left immature.               *)
OneWayOut == Bool!OneWayOut
=============================================================================
