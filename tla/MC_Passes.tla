----------------------------- MODULE MC_Passes ------------------------------
(* Two passes, one instance: a behaviour either propagates constants in a   *)
(* method (ConstProp) or removes unused functions from a program (UnusedFn);*)
(* the other pass stays in one of its initial states.                       *)
EXTENDS UnusedFn, ConstProp

CONSTANT MaxCalls

(* Every program of a few functions whose bodies have at most MaxCalls      *)
(* calls: recursive, mutually recursive, repeated and builtin calls.        *)
MCBodies == BoundedSeq(Graphs \cup Builtins, MaxCalls)

-----------------------------------------------------------------------------
(* Graphs of the shapes FirmVisitor builds.                                 *)

N(op, ins, b, arg) == [op |-> op, ins |-> ins, block |-> b, arg |-> arg]

Frame0 ==
  "end" :> N("End", <<"bbody">>, "bend", 0)
  @@ "bend" :> N("Block", <<"ret">>, "bend", 0)
  @@ "bs" :> N("Block", <<>>, "bs", 0)
  @@ "start" :> N("Start", <<>>, "bs", 0)
  @@ "param" :> N("Proj", <<"start">>, "bs", "data")
  @@ "c0" :> N("Const", <<>>, "bs", 0)
  @@ "c1" :> N("Const", <<>>, "bs", 1)
  @@ "j0" :> N("Jmp", <<>>, "bs", 0)

(* x = init; y = yinit; while (x rel lim) { if (cl == cr) y = t; else y = e; x = back; } *)
(* return y;                                                                 *)
(* bs -> bpre; bpre -> bhead; bhead -> bbody0, bexit; bbody0 -> bthen, belse; *)
(* bthen, belse -> bbody; bbody -> bpre.                                     *)
LoopIf(init, yinit, rel, lim, cl, cr, t, e, back) ==
  Frame0
  @@ "bpre" :> N("Block", <<"j0", "jback">>, "bpre", 0)
  @@ "x" :> N("Phi", <<init, back>>, "bpre", 0)
  @@ "y" :> N("Phi", <<yinit, "z">>, "bpre", 0)
  @@ "jpre" :> N("Jmp", <<>>, "bpre", 0)
  @@ "bhead" :> N("Block", <<"jpre">>, "bhead", 0)
  @@ "cmp" :> N("Cmp", <<"x", lim>>, "bhead", rel)
  @@ "cond" :> N("Cond", <<"cmp">>, "bhead", 0)
  @@ "pt" :> N("Proj", <<"cond">>, "bhead", "true")
  @@ "pf" :> N("Proj", <<"cond">>, "bhead", "false")
  @@ "bif" :> N("Block", <<"pt">>, "bif", 0)
  @@ "cmpi" :> N("Cmp", <<cl, cr>>, "bif", "eq")
  @@ "condi" :> N("Cond", <<"cmpi">>, "bif", 0)
  @@ "pit" :> N("Proj", <<"condi">>, "bif", "true")
  @@ "pif" :> N("Proj", <<"condi">>, "bif", "false")
  @@ "bthen" :> N("Block", <<"pit">>, "bthen", 0)
  @@ "jthen" :> N("Jmp", <<>>, "bthen", 0)
  @@ "belse" :> N("Block", <<"pif">>, "belse", 0)
  @@ "jelse" :> N("Jmp", <<>>, "belse", 0)
  @@ "bbody" :> N("Block", <<"jthen", "jelse">>, "bbody", 0)
  @@ "z" :> N("Phi", <<t, e>>, "bbody", 0)
  @@ "xplus" :> N("Add", <<"x", "c1">>, "bbody", 0)
  @@ "ymul" :> N("Mul", <<"y", "c0">>, "bif", 0)
  @@ "xdiv" :> N("Div", <<"c1", "x">>, "bbody", 0)
  @@ "jback" :> N("Jmp", <<>>, "bbody", 0)
  @@ "bexit" :> N("Block", <<"pf">>, "bexit", 0)
  @@ "ret" :> N("Return", <<"y">>, "bexit", 0)

(* The same with if (true): the else block has a Bad for its predecessor.    *)
WithLiteral(g) == ("bthen" :> N("Block", <<"jif">>, "bthen", 0)
                   @@ "belse" :> N("Block", <<"badx">>, "belse", 0)
                   @@ "jif" :> N("Jmp", <<>>, "bif", 0)
                   @@ "badx" :> N("Bad", <<>>, "bs", 0)) @@ g

(* The same with while ((x = x + 1) rel lim): a cycle that is entered at the *)
(* Add, which is no loop breaker.                                            *)
WithIncrement(g) == ("xinc" :> N("Add", <<"x", "c1">>, "bhead", 0)
                     @@ "x" :> N("Phi", <<"c0", "xinc">>, "bpre", 0)
                     @@ "cmp" :> N("Cmp", <<"xinc", "c1">>, "bhead", "lt")) @@ g

(* The same with x = min / -1, or x = min % -1, for the smallest int: the    *)
(* quotient is the one that is no int.                                       *)
WithSmallest(g, op, min) == ("cmin" :> N("Const", <<>>, "bs", min)
                             @@ "cneg" :> N("Const", <<>>, "bs", -1)
                             @@ "xdiv" :> N(op, <<"cmin", "cneg">>, "bbody", 0)) @@ g

(* Nested loops: Phis a, b of the outer pre-header, d, f of the inner one.   *)
(* bs -> bpre -> bhead -> bpre2, bexit; bpre2 -> bhead2 -> bin, bbody;       *)
(* bin -> bpre2; bbody -> bpre.                                              *)
Nested(a1, a2, b2, cl, cr, d1, d2, f1, f2, dl, dr) ==
  Frame0
  @@ "bpre" :> N("Block", <<"j0", "jback">>, "bpre", 0)
  @@ "a" :> N("Phi", <<a1, a2>>, "bpre", 0)
  @@ "b" :> N("Phi", <<"c1", b2>>, "bpre", 0)
  @@ "jpre" :> N("Jmp", <<>>, "bpre", 0)
  @@ "bhead" :> N("Block", <<"jpre">>, "bhead", 0)
  @@ "cmp" :> N("Cmp", <<cl, cr>>, "bhead", "lt")
  @@ "cond" :> N("Cond", <<"cmp">>, "bhead", 0)
  @@ "pt" :> N("Proj", <<"cond">>, "bhead", "true")
  @@ "pf" :> N("Proj", <<"cond">>, "bhead", "false")
  @@ "bloop" :> N("Block", <<"pt">>, "bloop", 0)
  @@ "jloop" :> N("Jmp", <<>>, "bloop", 0)
  @@ "bpre2" :> N("Block", <<"jloop", "jin">>, "bpre2", 0)
  @@ "d" :> N("Phi", <<d1, d2>>, "bpre2", 0)
  @@ "f" :> N("Phi", <<f1, f2>>, "bpre2", 0)
  @@ "jpre2" :> N("Jmp", <<>>, "bpre2", 0)
  @@ "bhead2" :> N("Block", <<"jpre2">>, "bhead2", 0)
  @@ "cmp2" :> N("Cmp", <<dl, dr>>, "bhead2", "eq")
  @@ "cond2" :> N("Cond", <<"cmp2">>, "bhead2", 0)
  @@ "p2t" :> N("Proj", <<"cond2">>, "bhead2", "true")
  @@ "p2f" :> N("Proj", <<"cond2">>, "bhead2", "false")
  @@ "bin" :> N("Block", <<"p2t">>, "bin", 0)
  @@ "dsub" :> N("Sub", <<"d", "c1">>, "bin", 0)
  @@ "jin" :> N("Jmp", <<>>, "bin", 0)
  @@ "bbody" :> N("Block", <<"p2f">>, "bbody", 0)
  @@ "aneg" :> N("Minus", <<"a">>, "bbody", 0)
  @@ "jback" :> N("Jmp", <<>>, "bbody", 0)
  @@ "bexit" :> N("Block", <<"pf">>, "bexit", 0)
  @@ "ret" :> N("Return", <<"b">>, "bexit", 0)
-----------------------------------------------------------------------------
(* The methods on which constant propagation is run.                        *)

(* A loop around an if; also with the literal true for the if's condition.  *)
LoopIfGraphs ==
  LET general == {LoopIf("c0", yi, rel, lim, cl, cr, t, e, back) :
        yi \in {"c0", "c1"}, rel \in {"lt", "eq"}, lim \in {"c1", "param"},
        cl \in {"x", "y"}, cr \in {"c0", "y"}, t \in {"c0", "y"}, e \in {"c1", "x", "ymul"},
        back \in {"xdiv", "xplus", "z"}}
  IN general \cup {WithLiteral(LoopIf("c0", "c0", "lt", lim, "x", "c0", "y", "c1", back)) :
                     lim \in {"c1", "param"}, back \in {"xplus", "z"}}
             \cup {WithIncrement(LoopIf("c0", yi, "lt", "c1", cl, "y", t, e, "xinc")) :
                     yi \in {"c0", "c1"}, cl \in {"x", "xinc"}, t \in {"c0", "y"},
                     e \in {"c1", "xinc"}}

(* Nested loops. *)
NestedGraphs ==
  {Nested("c0", a2, b2, "a", cr, d1, d2, f1, "d", dl, "c0") :
     a2 \in {"aneg", "d", "b"}, b2 \in {"a", "f"}, cr \in {"c1", "b"}, d1 \in {"a", "b"},
     d2 \in {"dsub", "f"}, f1 \in {"b", "c1"}, dl \in {"d", "f"}}

SmallestGraphs(min) ==
  {WithSmallest(LoopIf("c0", "c1", "lt", lim, "x", cr, t, "x", "xdiv"), op, min) :
     lim \in {"c1", "param"}, cr \in {"c0", "cmin"}, t \in {"c0", "y"}, op \in {"Div", "Mod"}}

MethodGraphs(min) == LoopIfGraphs \cup NestedGraphs \cup SmallestGraphs(min)

MCIntMin == -2
MCMethods == MethodGraphs(MCIntMin)
-----------------------------------------------------------------------------

VARIABLE pass

PassesInit ==
  \/ /\ pass = "constants" /\ calls = [g \in Graphs |-> <<>>]
     /\ ProgramInit /\ PropInit
  \/ /\ pass = "functions" /\ graph = CHOOSE g \in Methods : TRUE
     /\ backwards = FALSE
     /\ PropInit /\ ProgramInit
PassesNext ==
  \/ pass = "constants" /\ PropNext /\ UNCHANGED <<pass, programVars>>
  \/ pass = "functions" /\ ProgramNext /\ UNCHANGED <<pass, propVars>>

(* A single thread runs a pass from its start to its end; how long the      *)
(* method then executes is another matter.                                  *)
RunPass == \/ /\ pass = "constants"
              /\ WalkDescend \/ WalkFinish \/ Work \/ SubstituteNodes
              /\ UNCHANGED <<pass, programVars>>
           \/ /\ pass = "functions" /\ ProgramNext /\ UNCHANGED <<pass, propVars>>

PassesSpec == /\ PassesInit /\ [][PassesNext]_<<pass, programVars, propVars>>
              /\ WF_<<pass, programVars, propVars>>(RunPass)
-----------------------------------------------------------------------------
(* Every pass ends.  visitNode may enqueue the node it visits again         *)
(* (const_prop_pass.hpp:126), and values and marks may go back (88-94);     *)
(* calls in a cycle enqueue a graph again and again, and only the early     *)
(* return of visitMethod drains them (unused_fn_remove_pass.hpp:52-55).     *)
WorklistsEmpty == <>(phase = "run" \/ pc = "done")
=============================================================================
