----------------------------- MODULE MC_AflRuns -----------------------------
(* The fuzzer and the processes around it, one instance: a behaviour runs   *)
(* targets (AflForkServer), minimizes a file (AflTmin) or reads the queue   *)
(* of another fuzzer (AflSync); the other machines stay in an initial state.*)
EXTENDS AflTmin, AflSync, AflForkServer

VARIABLE machine

MCFiles == {<<1, 1, 2, 1>>, <<1, 0, 2>>, <<2, 2, 2, 2>>, <<1, 2, 1, 2>>}

RunsInit ==
  /\ ForkInit /\ TminInit /\ SyncInit
  /\ machine \in {"fork server", "tmin", "sync"}
  /\ machine # "fork server" => mode = CHOOSE m \in Modes : TRUE
  /\ machine # "tmin" => in_data = CHOOSE f \in Files : TRUE
OfFork == machine = "fork server" /\ UNCHANGED <<machine, tminVars, syncVars>>
OfTmin == machine = "tmin" /\ UNCHANGED <<machine, forkVars, syncVars>>
OfSync == machine = "sync" /\ UNCHANGED <<machine, forkVars, tminVars>>
RunsNext == \/ OfFork /\ ForkNext
            \/ OfTmin /\ TminNext
            \/ OfSync /\ SyncNext
RunsSpec ==
  /\ RunsInit /\ [][RunsNext]_<<machine, forkVars, tminVars, syncVars>>
  /\ WF_forkVars(OfFork /\ Fuzzer) /\ WF_forkVars(OfFork /\ Server) /\ WF_forkVars(OfFork /\ Alarm)
=============================================================================
