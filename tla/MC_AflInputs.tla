---------------------------- MODULE MC_AflInputs ----------------------------
(* The inputs of the fuzzer, one instance: a behaviour works on the queue   *)
(* (AflQueue), or on one entry in its deterministic stages (AflStages),     *)
(* with dictionaries (AflDictionary) or with havoc (AflHavoc); the other    *)
(* machines stay in an initial state.                                       *)
EXTENDS AflHavoc, AflQueue, AflDictionary

VARIABLES machine, stage, buf, stage_pos, eff_stage, eff_cnt, tried, missed

stageVars == <<stage, buf, stage_pos, eff_stage, eff_cnt, tried, missed>>
-----------------------------------------------------------------------------
(* The queue of AflInputs.cfg: two bytes of bitmap and three entries, so    *)
(* that an entry loses one byte and keeps another; a variable target;      *)
(* inputs that are trimmed in one or two rounds.                           *)

(* Bytes of 5 bits, so that four of them fit into an integer.  The values   *)
(* are those of config.h for this width; ARITH_MAX is as long as 35 is: it  *)
(* reaches the bit before the second last of a byte.                        *)
Signed8 == {-16, -1, 0, 1, 2, 4, 8, 12, 15}
Signed16 == Signed8 \cup {-512, -17, 16, 31, 32, 64, 100, 511}
Signed32 == Signed16 \cup {-524288, -513, 512, 1023, 1024, 524287}
Unsigned(S, n) == {v % 2^(5 * n) : v \in S}
StageInputs ==
  {<<a>> : a \in {0, 1, 3, 28, 31}}
    \cup {<<a, b>> : a \in 0..31, b \in {0, 1, 2, 3, 15, 16, 28, 30, 31}}
    \cup {<<0, 1, 2>>, <<31, 31, 28>>}
    \cup {<<a, b, c, d>> : a \in {0, 28, 31, 3}, b \in {0, 31, 1}, c \in {0, 31, 28}, d \in {0, 1, 31}}
    \cup {<<0, 31, 31, 28, 3, 0, 31, 31>>, <<28, 0, 1, 31, 0, 0, 31, 16>>, <<31, 31, 31, 31, 31, 31, 0>>}
Stages == INSTANCE AflStages WITH
  in_buf <- buf, stage_cur <- stage_pos, eff_map <- eff_stage, W <- 5, ARITH_MAX <- 4,
  EFF_MAP_SCALE2 <- 1, EFF_MIN_LEN <- 7, EFF_MAX_PERC <- 60,
  interesting_8 <- Unsigned(Signed8, 1), interesting_16 <- Unsigned(Signed16, 2),
  interesting_32 <- Unsigned(Signed32, 4), Inputs <- StageInputs

(* Bytes 5 and 6 are the lower and the upper case of a letter. *)
DictFiles == {<<1, 2, 3, 1, 2, 2, 5>>, <<1, 1, 2, 6, 3, 3>>, <<1, 2, 3>>}
DictTokens == {{}, {<<5, 2>>, <<3>>}, {<<1, 6>>, <<1, 2, 3>>, <<4>>}}
DictEffMaps == {0..6, {0, 6}}
DictCksums == 0..2
DictBuiltin == {<<1, 6>>}
DictLower == [b \in 0..6 |-> IF b = 6 THEN 5 ELSE b]

(* Slow, average, fast and poor entries. *)
HavocEntries ==
  {[us |-> 1200, bits |-> 150, handicap |-> 0, depth |-> 2], [us |-> 100, bits |-> 100, handicap |-> 2, depth |-> 5],
   [us |-> 20, bits |-> 400, handicap |-> 5, depth |-> 30], [us |-> 450, bits |-> 30, handicap |-> 0, depth |-> 0]}
-----------------------------------------------------------------------------
InputsInit ==
  /\ machine \in {"queue", "stages", "dictionary", "havoc"}
  /\ IF machine = "queue" THEN QueueInit ELSE crash_mode = FALSE /\ import_first = FALSE /\ QueueInit
  /\ IF machine = "stages" THEN Stages!StageInit ELSE buf = <<0>> /\ Stages!StageInit
  /\ IF machine = "dictionary" THEN DictInit
     ELSE in_buf = <<1, 2, 3>> /\ extras = <<>> /\ eff_map = {0, 6} /\ DictInit
  /\ IF machine = "havoc" THEN HavocInit
     ELSE perf_score = 100 /\ queue_len = 1 /\ doing_det = TRUE /\ rlim = 1 /\ HavocInit
InputsNext ==
  \/ machine = "queue" /\ QueueNext /\ UNCHANGED <<machine, stageVars, dictVars, havocVars>>
  \/ machine = "stages" /\ Stages!StageNext /\ UNCHANGED <<machine, queueVars, dictVars, havocVars>>
  \/ machine = "dictionary" /\ DictNext /\ UNCHANGED <<machine, queueVars, stageVars, havocVars>>
  \/ machine = "havoc" /\ HavocNext /\ UNCHANGED <<machine, queueVars, stageVars, dictVars>>
InputsSpec == InputsInit /\ [][InputsNext]_<<machine, queueVars, stageVars, dictVars, havocVars>>
-----------------------------------------------------------------------------
(* What a stage leaves out because an earlier one could have made it was     *)
(* really run, if the bytes that it changes are marked in the effector map   *)
(* (the other bytes are left out on purpose), and it is no row of bits       *)
(* across bytes.                                                             *)
SkippedWasTried == Stages!SkippedWasTried
=============================================================================
