--------------------------- MODULE AflRunsProofs ---------------------------
(***************************************************************************)
(* Proofs about the fuzzer and the processes around it: AflForkServer.tla, *)
(* for any set of modes, any number of runs and of processes;              *)
(* AflTmin.tla, for all files, all lengths of blocks and any deterministic *)
(* target; AflSync.tla, for any number of files, any order in which the    *)
(* other fuzzer writes them and readdir returns them, and any number of    *)
(* scans, finished or cut short.                                           *)
(***************************************************************************)
EXTENDS AflForkServer, AflTmin, AflSync,
        FiniteSetTheorems, SequenceTheorems, NaturalsInduction, WellFoundedInduction, TLAPS

(***************************************************************************)
(* The fork server (AflForkServer.tla).  Nothing is claimed after a signal *)
(* to stop: the handler kills the child and the server wherever they are.  *)
(***************************************************************************)
FzStates == {"init", "handshake", "up", "idle", "request", "readPid", "arm", "wait",
             "forget", "disarm", "report", "fatal", "done"}
SvStates == {"none", "hello", "readCtl", "reapOld", "start", "sendPid", "wait", "sendStatus", "dead"}
PStates == {"none", "startup", "running", "stopped", "exited", "crashed", "killed", "reaped"}
Outcomes == {"open", "finished", "crashed", "noexec"}

ForkTypeOK ==
  /\ mode \in Modes /\ fz \in FzStates /\ sv \in SvStates
  /\ run \in 0..MaxRuns
  /\ server_child \in Pids \cup {0}
  /\ child_timed_out \in BOOLEAN /\ prev_timed_out \in BOOLEAN /\ stop_soon \in BOOLEAN
  /\ child_stopped \in BOOLEAN
  /\ timer \in {"on", "off"}
  /\ pstate \in [Pids -> PStates] /\ input \in [Pids -> Nat] /\ outcome \in [Runs -> Outcomes]

(* The process that works on the present run or is kept for the next one. *)
Cur == IF HasServer THEN server_child ELSE child_pid
NoOther == \A p \in Pids : p # Cur => pstate[p] \in {"none", "reaped"}
NoChild == \A p \in Pids : pstate[p] \in {"none", "reaped"}
Quiet == \A p \in Pids : pstate[p] \notin {"startup", "running"}

(* Where the server can be while the fuzzer is at fz. *)
InStep ==
  /\ fz = "init" => sv = "none"
  /\ fz = "handshake" => sv \in {"hello", "readCtl", "dead"}
  /\ fz \in {"up", "idle", "request", "done"} => sv \in {"readCtl", "dead"}
  /\ fz = "readPid" => sv \in SvStates \ {"none", "hello"}
  /\ fz \in {"arm", "wait"} => sv \in {"wait", "sendStatus", "readCtl"}
  /\ fz \in {"forget", "disarm", "report"} => sv = "readCtl"
  /\ fz = "fatal" => sv = "dead"

(* The request is under way: written, and not read yet. *)
Asked == fz = "readPid" /\ sv = "readCtl" /\ ctl_pipe # <<>>

(* What the pipes hold: at most the request, and the answers that the      *)
(* fuzzer has not read.                                                    *)
PipesInStep ==
  /\ Asked => ctl_pipe = <<prev_timed_out>>
  /\ ~Asked => ctl_pipe = <<>>
  /\ fz = "handshake" /\ sv = "hello" => st_pipe = <<>>
  /\ fz = "handshake" /\ sv = "readCtl" => st_pipe = <<"hello">>
  /\ fz = "handshake" /\ sv = "dead" => st_pipe = <<>> \/ st_pipe = <<"hello">>
  /\ fz = "readPid" /\ (Asked \/ sv \in {"reapOld", "start", "sendPid", "dead"}) => st_pipe = <<>>
  /\ fz = "readPid" /\ sv \in {"wait", "sendStatus"} => st_pipe = <<server_child>>
  /\ fz = "readPid" /\ sv = "readCtl" /\ ~Asked => st_pipe = <<server_child, server_status>>
  /\ fz \in {"arm", "wait"} /\ sv = "readCtl" => st_pipe = <<server_status>>
  /\ fz \in {"arm", "wait"} /\ sv # "readCtl" => st_pipe = <<>>
  /\ fz \notin {"handshake", "readPid", "arm", "wait"} => st_pipe = <<>>

(* A server that ended unasked did so before the first run, or because it  *)
(* could not fork.                                                         *)
DeadEarly ==
  sv = "dead" /\ fz \notin {"fatal", "done"} =>
    \/ run = 0
    \/ fz = "request" /\ run = 1
    \/ fz = "readPid"

(* Between two runs: no child, or one that stopped itself and that an      *)
(* alarm, of which the server will be told, may have killed since.         *)
Parked(told) ==
  IF child_stopped THEN /\ server_child \in Pids
                        /\ pstate[server_child] \in {"stopped", "killed"}
                        /\ pstate[server_child] = "killed" => told
  ELSE NoChild

(* How far the child has come with the present input. *)
Progress(s) ==
  /\ trace_bits \cap Runs \subseteq {run}
  /\ CASE s = "startup" -> outcome[run] = "open" /\ trace_bits \subseteq {Startup}
       [] s = "running" -> outcome[run] = "open" /\ trace_bits \subseteq {run}
       [] s = "stopped" -> outcome[run] = "finished" /\ trace_bits = {run}
       [] s = "exited" -> \/ outcome[run] = "finished" /\ trace_bits = {run}
                          \/ ~HasServer /\ outcome[run] = "noexec" /\ trace_bits = {EXEC_FAIL_SIG}
       [] s = "crashed" -> outcome[run] = "crashed" /\ EXEC_FAIL_SIG \notin trace_bits
       [] s = "killed" -> /\ child_timed_out /\ expired = run
                          /\ fz \in {"wait", "forget", "disarm", "report"}
       [] OTHER -> FALSE

(* The child works, and has ended with a status that the fuzzer may not    *)
(* have read.                                                              *)
Working == /\ Cur \in Pids /\ input[Cur] = run /\ run \in Runs
           /\ pstate[Cur] \in {"startup", "running", "stopped", "exited", "crashed", "killed"}
           /\ Progress(pstate[Cur])
Ended(s) == /\ run \in Runs /\ s \in {"stopped", "exited", "crashed", "killed"} /\ Progress(s)

(* The server's part. *)
Unasked == fz \in {"init", "handshake", "up", "idle", "request", "done"}
Begun == fz \in {"readPid", "arm", "wait"}
ChildInStep ==
  /\ fz \in {"init", "handshake", "up"} => ~child_stopped /\ run = 0 /\ child_pid = NotForked
  /\ Unasked /\ sv # "dead" => Parked(prev_timed_out)
  /\ Asked => Parked(prev_timed_out)
  /\ sv = "dead" => Quiet
  /\ sv = "reapOld" => child_stopped /\ Parked(TRUE)
  /\ sv = "start" => Parked(FALSE)
  /\ sv \in {"sendPid", "wait"} => Working /\ ~child_stopped
  /\ (sv = "sendStatus" \/ (Begun /\ sv = "readCtl" /\ ~Asked)) =>
       /\ Ended(server_status) /\ server_child \in Pids
       /\ child_stopped = (server_status = "stopped") /\ Parked(child_timed_out)
PidInStep ==
  /\ fz \in {"arm", "wait", "forget"} => child_pid = server_child
  /\ fz \in {"forget", "disarm", "report"} =>
       /\ child_stopped = (status = "stopped") /\ Parked(child_timed_out)
       /\ status = "stopped" => child_pid = server_child
  /\ fz \in {"disarm", "report"} /\ status # "stopped" => child_pid = 0
ServerStep == InStep /\ PipesInStep /\ DeadEarly /\ ChildInStep /\ PidInStep

(* Without a server the fuzzer is the parent. *)
ForkStep ==
  /\ sv = "none" /\ st_pipe = <<>> /\ ctl_pipe = <<>>
  /\ fz \notin {"init", "handshake", "up", "readPid"}
  /\ fz \in {"idle", "request", "done", "fatal", "forget", "disarm", "report"} => NoChild
  /\ fz \in {"arm", "wait"} => Working

(* A run is judged on its own: nothing of it exists before it begins, and  *)
(* what has become of it stays so until the next one begins.               *)
RunStep ==
  /\ \A r \in Runs : r > run => outcome[r] = "open"
  /\ timer = "on" => fz \in {"handshake", "up", "wait", "forget", "disarm"}
  /\ fz \in {"request", "readPid", "arm", "wait", "forget", "disarm", "report"} => run \in Runs
  /\ (fz = "request" \/ Asked \/ (fz = "readPid" /\ sv \in {"reapOld", "start"})) =>
       trace_bits = {} /\ outcome[run] = "open"
  /\ mode = "untimed" => timer = "off" /\ ~child_timed_out
  /\ fz = "request" /\ mode \notin Tools => ~child_timed_out
  /\ fz \in {"readPid", "arm"} /\ mode \notin Tools => ~child_timed_out
  /\ fz \in {"wait", "forget", "disarm", "report"} /\ child_timed_out => expired = run
  /\ fz \in {"forget", "disarm", "report"} => Ended(status)

Live == /\ child_pid \in Pids \cup {0, NotForked}
        /\ NoOther /\ RunStep /\ VerdictTrue
        /\ HasServer => ServerStep
        /\ ~HasServer => ForkStep

ForkInv == ForkTypeOK /\ (~stop_soon => Live)

LEMMA ForkInvInit == ForkInit => ForkInv
<1> SUFFICES ASSUME ForkInit PROVE ForkInv
  OBVIOUS
<1> USE ForkAssumption DEF ForkInit
<1>1. ForkTypeOK
  <2>1. pstate \in [Pids -> PStates] /\ input \in [Pids -> Nat] /\ outcome \in [Runs -> Outcomes]
    BY DEF PStates, Outcomes
  <2>2. run \in 0..MaxRuns /\ mode \in Modes /\ server_child \in Pids \cup {0}
    OBVIOUS
  <2>3. fz \in FzStates /\ sv \in SvStates /\ timer \in {"on", "off"}
    BY DEF FzStates, SvStates
  <2>4. /\ child_timed_out \in BOOLEAN /\ prev_timed_out \in BOOLEAN /\ stop_soon \in BOOLEAN
        /\ child_stopped \in BOOLEAN
    OBVIOUS
  <2> QED
    BY <2>1, <2>2, <2>3, <2>4 DEF ForkTypeOK
<1>2. NoOther /\ child_pid \in Pids \cup {0, NotForked}
  BY DEF NoOther
<1>6. VerdictTrue
  <2>1. ~(run > 0)
    OBVIOUS
  <2> QED
    BY <2>1, Zenon DEF VerdictTrue
<1>3. RunStep
  BY DEF RunStep, Asked, HasServer, Runs
<1>4. HasServer => ServerStep
  BY DEF ServerStep, InStep, PipesInStep, DeadEarly, ChildInStep, PidInStep, Asked, Unasked, Begun, Parked, NoChild, Quiet
<1>5. ~HasServer => ForkStep
  BY DEF ForkStep, NoChild
<1> QED
  BY <1>1, <1>2, <1>3, <1>4, <1>5, <1>6 DEF ForkInv, Live

LEMMA Updates ==
  ASSUME ForkTypeOK
  PROVE  /\ \A p : \A x \in PStates : [pstate EXCEPT ![p] = x] \in [Pids -> PStates]
         /\ \A r : \A x \in Outcomes : [outcome EXCEPT ![r] = x] \in [Runs -> Outcomes]
         /\ \A p : [input EXCEPT ![p] = run] \in [Pids -> Nat]
         /\ \A p : Killed(p) \in [Pids -> PStates]
         /\ {"startup", "running", "stopped", "exited", "crashed", "killed", "reaped"} \subseteq PStates
         /\ {"finished", "crashed", "noexec"} \subseteq Outcomes
<1>1. /\ {"startup", "running", "stopped", "exited", "crashed", "killed", "reaped"} \subseteq PStates
      /\ {"finished", "crashed", "noexec"} \subseteq Outcomes
  BY DEF PStates, Outcomes
<1>2. pstate \in [Pids -> PStates] /\ input \in [Pids -> Nat] /\ outcome \in [Runs -> Outcomes]
      /\ run \in Nat
  BY ForkAssumption DEF ForkTypeOK
<1>3. \A p : Killed(p) \in [Pids -> PStates]
  BY <1>1, <1>2 DEF Killed
<1> QED
  BY <1>1, <1>2, <1>3

(* The processes and how the inputs ended. *)
LEMMA ProcessTypes ==
  ASSUME ForkTypeOK, ForkNext
  PROVE  pstate' \in [Pids -> PStates] /\ input' \in [Pids -> Nat] /\ outcome' \in [Runs -> Outcomes]
<1>0. pstate \in [Pids -> PStates] /\ input \in [Pids -> Nat] /\ outcome \in [Runs -> Outcomes]
  BY DEF ForkTypeOK
<1> USE Updates DEF fuzzerVars, serverVars, processVars, childRest
<1>1. CASE UNCHANGED processVars
  BY <1>0, <1>1
<1>2. ASSUME NEW p, Forked(p), UNCHANGED outcome
      PROVE  pstate' \in [Pids -> PStates] /\ input' \in [Pids -> Nat] /\ outcome' \in [Runs -> Outcomes]
  <2>1. PICK x \in {"startup", "running"} : pstate' = [pstate EXCEPT ![p] = x]
    BY <1>2 DEF Forked
  <2> QED
    BY <1>0, <1>2, <2>1 DEF Forked
<1>3. CASE Fuzzer
  <2>1. CASE ForkTarget
    BY <1>0, <1>2, <2>1 DEF ForkTarget
  <2>2. CASE WaitTarget
    BY <1>0, <2>2 DEF WaitTarget
  <2>3. CASE UNCHANGED processVars
    BY <1>1, <2>3
  <2> QED
    BY <1>3, <2>1, <2>2, <2>3 DEF Fuzzer, InitForkserver, ReadHello, HandshakeFails, ServerIsUp, StartRun,
       RequestRun, ReadPid, ArmTimer, ReadStatus, ForgetChild, DisarmTimer, ReportRun, ExitFuzzer, ServerGone
<1>4. CASE Server
  <2>1. CASE ReapOldChild
    BY <1>0, <2>1 DEF ReapOldChild, Reaped
  <2>2. CASE ForkChild
    BY <1>0, <1>2, <2>2 DEF ForkChild
  <2>3. CASE ContinueChild
    <3>1. pstate' = [pstate EXCEPT ![server_child] = "running"] \/ pstate' = pstate
      BY <1>0, <2>3 DEF ContinueChild
    <3> QED
      BY <1>0, <2>3, <3>1 DEF ContinueChild
  <2>4. CASE WaitChild
    BY <1>0, <2>4 DEF WaitChild, Reaped
  <2>5. CASE UNCHANGED processVars
    BY <1>1, <2>5
  <2> QED
    BY <1>4, <2>1, <2>2, <2>3, <2>4, <2>5 DEF Server, SayHello, ReadControl, SendPid, SendStatus
<1>5. CASE Child
  <2>1. PICK p \in Pids : EnterLoop(p) \/ WorkOn(p) \/ FinishInput(p) \/ Crash(p) \/ ExecFails(p)
    BY <1>5 DEF Child
  <2>2. CASE EnterLoop(p) \/ WorkOn(p)
    BY <1>0, <2>2 DEF EnterLoop, WorkOn
  <2>3. CASE FinishInput(p)
    <3>1. PICK x \in {"exited", "stopped"} : pstate' = [pstate EXCEPT ![p] = x]
      BY <2>3 DEF FinishInput
    <3>2. input' = input /\ outcome' = [outcome EXCEPT ![input[p]] = "finished"]
      BY <2>3 DEF FinishInput
    <3> QED
      BY <1>0, <3>1, <3>2
  <2>4. CASE Crash(p)
    BY <1>0, <2>4 DEF Crash
  <2>5. CASE ExecFails(p)
    BY <1>0, <2>5 DEF ExecFails
  <2> QED
    BY <2>1, <2>2, <2>3, <2>4, <2>5
<1>6. CASE Alarm \/ handle_stop_sig
  <2>1. (pstate' = pstate \/ \E p : pstate' = Killed(p)) /\ input' = input /\ outcome' = outcome
    BY <1>6 DEF Alarm, handle_stop_sig, handle_timeout
  <2> QED
    BY <1>0, <2>1
<1> QED
  BY <1>3, <1>4, <1>5, <1>6 DEF ForkNext

(* The flags, which the code keeps as 0 and 1. *)
LEMMA FlagTypes ==
  ASSUME ForkTypeOK, ForkNext
  PROVE  /\ child_timed_out' \in BOOLEAN /\ prev_timed_out' \in BOOLEAN /\ stop_soon' \in BOOLEAN
         /\ child_stopped' \in BOOLEAN
<1>0. /\ child_timed_out \in BOOLEAN /\ prev_timed_out \in BOOLEAN /\ stop_soon \in BOOLEAN
      /\ child_stopped \in BOOLEAN
  BY DEF ForkTypeOK
<1> USE DEF ForkNext, Fuzzer, Server, Child, Alarm, handle_stop_sig, handle_timeout, InitForkserver, ReadHello,
     HandshakeFails, ServerIsUp, StartRun, ForkTarget, RequestRun, ReadPid, ArmTimer, ReadStatus, WaitTarget,
     ForgetChild, DisarmTimer, ReportRun, ExitFuzzer, ServerGone, SayHello, ReadControl, ReapOldChild, ForkChild,
     ContinueChild, SendPid, WaitChild, SendStatus, EnterLoop, WorkOn, FinishInput, Crash, ExecFails,
     fuzzerVars, serverVars, childRest, PrevTimedOut
<1>1. \/ child_timed_out' = child_timed_out \/ child_timed_out' = FALSE
      \/ child_timed_out' = (child_timed_out \/ child_pid > 0
           \/ (mode \notin Tools /\ child_pid = NotForked /\ sv \notin {"none", "dead"}) \/ mode \in Tools)
  OBVIOUS
<1>2. prev_timed_out' = prev_timed_out \/ prev_timed_out' = child_timed_out
  OBVIOUS
<1>3. stop_soon' = stop_soon \/ stop_soon' = TRUE
  OBVIOUS
<1>4. child_stopped' = child_stopped \/ child_stopped' = TRUE \/ child_stopped' = FALSE
  OBVIOUS
<1> QED
  <2>1. child_timed_out' \in BOOLEAN
    BY <1>0, <1>1, Zenon
  <2>2. prev_timed_out' \in BOOLEAN
    BY <1>0, <1>2, Zenon
  <2>3. stop_soon' \in BOOLEAN
    BY <1>0, <1>3, Zenon
  <2>4. child_stopped' \in BOOLEAN
    BY <1>0, <1>4, Zenon
  <2> QED
    BY <2>1, <2>2, <2>3, <2>4

LEMMA PlaceTypes ==
  ASSUME ForkTypeOK, ForkNext
  PROVE  /\ mode' = mode /\ mode' \in Modes /\ fz' \in FzStates /\ sv' \in SvStates
         /\ timer' \in {"on", "off"}
         /\ run' \in 0..MaxRuns /\ server_child' \in Pids \cup {0}
<1> USE DEF ForkNext, Fuzzer, Server, Child, Alarm, handle_stop_sig, handle_timeout, InitForkserver, ReadHello,
     HandshakeFails, ServerIsUp, StartRun, ForkTarget, RequestRun, ReadPid, ArmTimer, ReadStatus, WaitTarget,
     ForgetChild, DisarmTimer, ReportRun, ExitFuzzer, ServerGone, SayHello, ReadControl, ReapOldChild, ForkChild,
     ContinueChild, SendPid, WaitChild, SendStatus, EnterLoop, WorkOn, FinishInput, Crash, ExecFails,
     fuzzerVars, serverVars, childRest
<1>1. mode' = mode /\ mode' \in Modes
  BY DEF ForkTypeOK
<1>2. timer' \in {"on", "off"}
  BY DEF ForkTypeOK
<1>3. fz' \in FzStates
  <2>1. ASSUME Fuzzer PROVE fz' \in FzStates
    <3>1. ASSUME NEW x, x \in {"handshake", "up", "idle", "request", "readPid", "arm", "wait",
                               "forget", "disarm", "report", "fatal", "done"}
          PROVE  x \in FzStates
      BY <3>1 DEF FzStates
    <3> QED
      BY <2>1, <3>1
  <2>2. ASSUME ~Fuzzer PROVE fz' = fz
    BY <2>2
  <2> QED
    BY <2>1, <2>2 DEF ForkTypeOK
<1>4. sv' \in SvStates
  BY ZenonT(60) DEF ForkTypeOK, SvStates
<1>5. server_child' \in Pids \cup {0}
  BY DEF ForkTypeOK
<1>6. run' \in 0..MaxRuns
  <2>1. run' = run \/ (run' = run + 1 /\ run < MaxRuns)
    BY DEF write_to_testcase, MoreRuns
  <2>2. run \in 0..MaxRuns /\ MaxRuns \in Nat
    BY ForkAssumption DEF ForkTypeOK
  <2> HIDE DEF ForkNext
  <2> QED
    BY <2>1, <2>2
<1> QED
  BY <1>1, <1>2, <1>3, <1>4, <1>5, <1>6

LEMMA ForkTypes == ForkTypeOK /\ [ForkNext]_forkVars => ForkTypeOK'
<1>1. ASSUME ForkTypeOK, UNCHANGED forkVars PROVE ForkTypeOK'
  BY <1>1 DEF forkVars, ForkTypeOK
<1>2. ASSUME ForkTypeOK, ForkNext PROVE ForkTypeOK'
  BY <1>2, ProcessTypes, FlagTypes, PlaceTypes DEF ForkTypeOK
<1> QED
  BY <1>1, <1>2

LEMMA AppendOne ==
  ASSUME NEW S, NEW s \in Seq(S), NEW t \in Seq(S), NEW a \in S, NEW b \in S,
         Len(s) = 1, s[1] = a, Len(t) = 2, t[1] = a, t[2] = b
  PROVE  Append(s, b) = t
<1>1. /\ Append(s, b) \in Seq(S)
      /\ Len(Append(s, b)) = 2
      /\ Append(s, b)[1] = a /\ Append(s, b)[2] = b
  BY SMTT(60)
<1>2. \A i \in 1..2 : Append(s, b)[i] = t[i]
  <2>1. \A i \in 1..2 : i = 1 \/ i = 2
    OBVIOUS
  <2> QED
    BY <1>1, <2>1
<1> QED
  BY <1>1, <1>2, SeqEqual

(* What the pipes' operations do to the few messages they ever hold. *)
LEMMA PipeFacts ==
  ASSUME NEW a, NEW b
  PROVE  /\ Append(<<>>, a) = <<a>> /\ <<a>> # <<>>
         /\ Head(<<a>>) = a /\ Tail(<<a>>) = <<>>
         /\ Append(<<a>>, b) = <<a, b>> /\ <<a, b>> # <<>>
         /\ Head(<<a, b>>) = a /\ Tail(<<a, b>>) = <<b>>
<1>1. /\ <<a>> \in Seq({a, b}) /\ <<a, b>> \in Seq({a, b}) /\ a \in {a, b} /\ b \in {a, b}
      /\ Len(<<a>>) = 1 /\ <<a>>[1] = a /\ Len(<<a, b>>) = 2 /\ <<a, b>>[1] = a /\ <<a, b>>[2] = b
  OBVIOUS
<1>2. Append(<<a>>, b) = <<a, b>>
  BY <1>1, AppendOne
<1> QED
  BY <1>2

(* Where the fuzzer must be, given what the server does. *)
LEMMA WhereFuzzerIs ==
  ASSUME ForkTypeOK, InStep
  PROVE  /\ sv = "hello" => fz = "handshake"
         /\ sv \in {"reapOld", "start", "sendPid"} => fz = "readPid"
         /\ sv \in {"wait", "sendStatus"} => fz \in {"readPid", "arm", "wait"}
         /\ sv = "none" => fz = "init"
  BY DEF ForkTypeOK, FzStates, InStep

(* A child that runs works on the present run, and its parent knows. *)
LEMMA BusyChild ==
  ASSUME ForkTypeOK, Live, NEW p \in Pids, pstate[p] \in {"startup", "running"}
  PROVE  /\ p = Cur /\ Working
         /\ HasServer => sv \in {"sendPid", "wait"} /\ fz \in {"readPid", "arm", "wait"}
         /\ ~HasServer => fz \in {"arm", "wait"}
<1>1. p = Cur
  BY DEF Live, NoOther
<1>2. CASE HasServer
  <2>1. InStep /\ ChildInStep /\ PidInStep
    BY <1>2 DEF Live, ServerStep
  <2>2. ~NoChild /\ pstate[server_child] \notin {"stopped", "killed"}
    BY <1>1, <1>2 DEF NoChild, Cur
  <2>3. sv # "dead"
    BY <2>1 DEF ChildInStep, Quiet
  <2>4. fz \notin {"init", "handshake", "up", "idle", "request", "done", "forget", "disarm", "report"}
    BY <2>1, <2>2, <2>3 DEF ChildInStep, PidInStep, Unasked, Parked
  <2>5. fz \in {"readPid", "arm", "wait"}
    BY <2>1, <2>3, <2>4 DEF ForkTypeOK, FzStates, InStep
  <2>6. sv \notin {"reapOld", "start", "sendStatus", "readCtl"}
    BY <2>1, <2>2, <2>5 DEF ChildInStep, Begun, Parked
  <2>7. sv \in {"sendPid", "wait"}
    BY <2>1, <2>3, <2>5, <2>6 DEF InStep, SvStates
  <2> QED
    BY <1>1, <1>2, <2>1, <2>5, <2>7 DEF ChildInStep
<1>3. CASE ~HasServer
  <2>1. ForkStep
    BY <1>3 DEF Live
  <2>2. fz \in {"arm", "wait"}
    BY <2>1 DEF ForkStep, NoChild, ForkTypeOK, FzStates
  <2> QED
    BY <1>1, <1>3, <2>1, <2>2 DEF ForkStep
<1> QED
  BY <1>2, <1>3
-----------------------------------------------------------------------------
(* The steps, one lemma for each.  The parts of the invariant by name. *)
LEMMA LiveFacts ==
  ASSUME ForkTypeOK, Live
  PROVE  /\ child_pid \in Pids \cup {0, NotForked} /\ NoOther /\ RunStep /\ VerdictTrue
         /\ HasServer => /\ InStep /\ PipesInStep /\ DeadEarly /\ ChildInStep /\ PidInStep
                         /\ sv = "hello" => fz = "handshake"
                         /\ sv \in {"reapOld", "start", "sendPid"} => fz = "readPid"
                         /\ sv \in {"wait", "sendStatus"} => fz \in {"readPid", "arm", "wait"}
         /\ ~HasServer => ForkStep
  BY WhereFuzzerIs DEF Live, ServerStep

LEMMA InitForkserverLive ==
  ASSUME ForkTypeOK, ForkTypeOK', Live, ~stop_soon, InitForkserver
  PROVE  Live'
<1> USE ForkAssumption, LiveFacts DEF ForkTypeOK, InitForkserver, FzStates, SvStates, Cur, Parked, NoChild,
     Quiet, Progress, Working, Ended, Unasked, Begun, Asked, HasServer, fuzzerVars, serverVars,
     processVars, childRest, RunStep, InStep, PipesInStep, DeadEarly, ChildInStep, PidInStep, ForkStep
<1>1. HasServer
  OBVIOUS
<1>2. child_pid' \in Pids \cup {0, NotForked}
  BY <1>1
<1>3. NoOther'
  BY <1>1 DEF NoOther
<1>4. RunStep'
  BY <1>1 DEF NoOther
<1>5. VerdictTrue'
  BY <1>1 DEF NoOther, VerdictTrue
<1>6. InStep' /\ DeadEarly'
  BY <1>1 DEF NoOther
<1>7. PipesInStep'
  BY <1>1 DEF NoOther
<1>8. ChildInStep'
  BY <1>1 DEF NoOther
<1>9. PidInStep'
  BY <1>1 DEF NoOther
<1> QED
  BY <1>1, <1>2, <1>3, <1>4, <1>5, <1>6, <1>7, <1>8, <1>9 DEF Live, ServerStep

LEMMA ReadHelloLive ==
  ASSUME ForkTypeOK, ForkTypeOK', Live, ~stop_soon, ReadHello
  PROVE  Live'
<1> USE ForkAssumption, LiveFacts, PipeFacts DEF ForkTypeOK, ReadHello, FzStates, SvStates, Cur, Parked,
     NoChild, Quiet, Progress, Working, Ended, Unasked, Begun, Asked, HasServer, fuzzerVars, serverVars,
     processVars, childRest, RunStep, InStep, PipesInStep, DeadEarly, ChildInStep, PidInStep, ForkStep
<1>1. HasServer
  OBVIOUS
<1>2. child_pid' \in Pids \cup {0, NotForked}
  BY <1>1
<1>3. NoOther'
  BY <1>1 DEF NoOther
<1>4. RunStep'
  BY <1>1 DEF NoOther
<1>5. VerdictTrue'
  BY <1>1 DEF NoOther, VerdictTrue
<1>6. InStep' /\ DeadEarly'
  BY <1>1 DEF NoOther
<1>7. PipesInStep'
  BY <1>1 DEF NoOther
<1>8. ChildInStep'
  BY <1>1 DEF NoOther
<1>9. PidInStep'
  BY <1>1 DEF NoOther
<1> QED
  BY <1>1, <1>2, <1>3, <1>4, <1>5, <1>6, <1>7, <1>8, <1>9 DEF Live, ServerStep

LEMMA HandshakeFailsLive ==
  ASSUME ForkTypeOK, ForkTypeOK', Live, ~stop_soon, HandshakeFails
  PROVE  Live'
<1> USE ForkAssumption, LiveFacts DEF ForkTypeOK, HandshakeFails, FzStates, SvStates, Cur, Parked, NoChild,
     Quiet, Progress, Working, Ended, Unasked, Begun, Asked, HasServer, fuzzerVars, serverVars,
     processVars, childRest, RunStep, InStep, PipesInStep, DeadEarly, ChildInStep, PidInStep, ForkStep
<1>1. HasServer
  OBVIOUS
<1>2. child_pid' \in Pids \cup {0, NotForked}
  BY <1>1
<1>3. NoOther'
  BY <1>1 DEF NoOther
<1>4. RunStep'
  BY <1>1 DEF NoOther
<1>5. VerdictTrue'
  BY <1>1 DEF NoOther, VerdictTrue
<1>6. InStep' /\ DeadEarly'
  BY <1>1 DEF NoOther
<1>7. PipesInStep'
  BY <1>1 DEF NoOther
<1>8. ChildInStep'
  BY <1>1 DEF NoOther
<1>9. PidInStep'
  BY <1>1 DEF NoOther
<1> QED
  BY <1>1, <1>2, <1>3, <1>4, <1>5, <1>6, <1>7, <1>8, <1>9 DEF Live, ServerStep

LEMMA ServerIsUpLive ==
  ASSUME ForkTypeOK, ForkTypeOK', Live, ~stop_soon, ServerIsUp
  PROVE  Live'
<1> USE ForkAssumption, LiveFacts DEF ForkTypeOK, ServerIsUp, FzStates, SvStates, Cur, Parked, NoChild, Quiet,
     Progress, Working, Ended, Unasked, Begun, Asked, HasServer, fuzzerVars, serverVars, processVars,
     childRest, RunStep, InStep, PipesInStep, DeadEarly, ChildInStep, PidInStep, ForkStep
<1>1. HasServer
  OBVIOUS
<1>2. child_pid' \in Pids \cup {0, NotForked}
  BY <1>1
<1>3. NoOther'
  BY <1>1 DEF NoOther
<1>4. RunStep'
  BY <1>1 DEF NoOther
<1>5. VerdictTrue'
  BY <1>1 DEF NoOther, VerdictTrue
<1>6. InStep' /\ DeadEarly'
  BY <1>1 DEF NoOther
<1>7. PipesInStep'
  BY <1>1 DEF NoOther
<1>8. ChildInStep'
  BY <1>1 DEF NoOther
<1>9. PidInStep'
  BY <1>1 DEF NoOther
<1> QED
  BY <1>1, <1>2, <1>3, <1>4, <1>5, <1>6, <1>7, <1>8, <1>9 DEF Live, ServerStep

LEMMA StartRunLive ==
  ASSUME ForkTypeOK, ForkTypeOK', Live, ~stop_soon, StartRun
  PROVE  Live'
<1> USE ForkAssumption, LiveFacts DEF ForkTypeOK, StartRun, write_to_testcase, MoreRuns, FzStates, SvStates, Cur,
     Parked, NoChild, Quiet, Progress, Working, Ended, Unasked, Begun, Asked, HasServer, fuzzerVars,
     serverVars, processVars, childRest, RunStep, InStep, PipesInStep, DeadEarly, ChildInStep, PidInStep,
     ForkStep, Tools, NotForked, Startup, EXEC_FAIL_SIG, Runs, Pids
<1>1. child_pid' \in Pids \cup {0, NotForked}
  OBVIOUS
<1>2. NoOther'
  BY DEF NoOther
<1>3. RunStep'
  BY DEF NoOther
<1>4. VerdictTrue'
  BY DEF NoOther, VerdictTrue
<1>5. HasServer => (InStep' /\ DeadEarly')
  BY DEF NoOther
<1>6. HasServer => PipesInStep'
  BY DEF NoOther
<1>7. HasServer => ChildInStep'
  BY DEF NoOther
<1>8. HasServer => PidInStep'
  BY DEF NoOther
<1>9. ~HasServer => ForkStep'
  BY DEF NoOther
<1> QED
  BY <1>1, <1>2, <1>3, <1>4, <1>5, <1>6, <1>7, <1>8, <1>9 DEF Live, ServerStep

LEMMA ForkTargetLive ==
  ASSUME ForkTypeOK, ForkTypeOK', Live, ~stop_soon, ForkTarget
  PROVE  Live'
<1> USE ForkAssumption, LiveFacts DEF ForkTypeOK, ForkTarget, Forked, Fresh, FzStates, SvStates, Cur, Parked,
     NoChild, Quiet, Progress, Working, Ended, Unasked, Begun, Asked, HasServer, fuzzerVars, serverVars,
     processVars, childRest, RunStep, InStep, PipesInStep, DeadEarly, ChildInStep, PidInStep, ForkStep
<1>1. ~HasServer
  OBVIOUS
<1>2. child_pid' \in Pids \cup {0, NotForked}
  BY <1>1
<1>3. NoOther'
  BY <1>1 DEF NoOther
<1>4. RunStep'
  BY <1>1 DEF NoOther
<1>5. VerdictTrue'
  BY <1>1 DEF NoOther, VerdictTrue
<1>6. ForkStep'
  BY <1>1 DEF NoOther
<1> QED
  BY <1>1, <1>2, <1>3, <1>4, <1>5, <1>6 DEF Live, ServerStep

LEMMA RequestRunLive ==
  ASSUME ForkTypeOK, ForkTypeOK', Live, ~stop_soon, RequestRun
  PROVE  Live'
<1> USE ForkAssumption, LiveFacts, PipeFacts DEF ForkTypeOK, RequestRun, ServerGone, FzStates, SvStates, Cur,
     Parked, NoChild, Quiet, Progress, Working, Ended, Unasked, Begun, Asked, HasServer, fuzzerVars,
     serverVars, processVars, childRest, RunStep, InStep, PipesInStep, DeadEarly, ChildInStep, PidInStep,
     ForkStep
<1>1. HasServer
  OBVIOUS
<1>2. child_pid' \in Pids \cup {0, NotForked}
  BY <1>1
<1>3. NoOther'
  BY <1>1 DEF NoOther
<1>4. RunStep'
  BY <1>1 DEF NoOther
<1>5. VerdictTrue'
  BY <1>1 DEF NoOther, VerdictTrue
<1>6. InStep' /\ DeadEarly'
  BY <1>1 DEF NoOther
<1>7. PipesInStep'
  <2>1. st_pipe = <<>> /\ ctl_pipe = <<>>
    BY <1>1
  <2>2. CASE sv = "dead"
    BY <1>1, <2>1, <2>2
  <2>3. CASE sv # "dead"
    <3>1. sv' = "readCtl" /\ fz' = "readPid" /\ st_pipe' = <<>> /\ prev_timed_out' = prev_timed_out
      BY <1>1, <2>1, <2>3
    <3>2. ctl_pipe' = <<prev_timed_out>> /\ ctl_pipe' # <<>>
      <4>1. ctl_pipe' = Append(<<>>, prev_timed_out)
        BY <2>1, <2>3
      <4> QED
        BY <4>1
    <3> QED
      BY <3>1, <3>2
  <2> QED
    BY <2>2, <2>3
<1>8. ChildInStep'
  BY <1>1 DEF NoOther
<1>9. PidInStep'
  BY <1>1 DEF NoOther
<1>10. HasServer'
  BY <1>1
<1> HIDE ForkAssumption, LiveFacts, PipeFacts DEF ForkTypeOK, RequestRun, HasServer, RunStep, InStep, PipesInStep, DeadEarly,
     ChildInStep, PidInStep, ForkStep
<1> QED
  BY <1>2, <1>3, <1>4, <1>5, <1>6, <1>7, <1>8, <1>9, <1>10 DEF Live, ServerStep

LEMMA ReadPidLive ==
  ASSUME ForkTypeOK, ForkTypeOK', Live, ~stop_soon, ReadPid
  PROVE  Live'
<1> USE ForkAssumption, LiveFacts, PipeFacts DEF ForkTypeOK, ReadPid, ServerGone, FzStates, SvStates, Cur,
     Parked, NoChild, Quiet, Progress, Working, Ended, Unasked, Begun, Asked, HasServer, fuzzerVars,
     serverVars, processVars, childRest, RunStep, InStep, PipesInStep, DeadEarly, ChildInStep, PidInStep,
     ForkStep
<1>1. HasServer
  OBVIOUS
<1>2. child_pid' \in Pids \cup {0, NotForked}
  BY <1>1
<1>3. NoOther'
  BY <1>1 DEF NoOther
<1>4. RunStep'
  BY <1>1 DEF NoOther
<1>5. VerdictTrue'
  BY <1>1 DEF NoOther, VerdictTrue
<1>6. InStep' /\ DeadEarly'
  BY <1>1 DEF NoOther
<1>7. PipesInStep'
  <2>1. ctl_pipe' = ctl_pipe /\ sv' = sv /\ server_child' = server_child /\ server_status' = server_status
    OBVIOUS
  <2>2. CASE st_pipe = <<>>
    BY <1>1, <2>1, <2>2
  <2>3. CASE st_pipe # <<>>
    <3>1. fz' = "arm" /\ ~Asked /\ ctl_pipe = <<>> /\ sv \in {"wait", "sendStatus", "readCtl"}
      BY <1>1, <2>3
    <3>2. CASE sv = "readCtl"
      <4>1. st_pipe = <<server_child, server_status>>
        BY <1>1, <3>1, <3>2
      <4>2. st_pipe' = <<server_status>>
        BY <2>3, <4>1
      <4> QED
        BY <2>1, <3>1, <3>2, <4>2
    <3>3. CASE sv # "readCtl"
      <4>1. st_pipe = <<server_child>>
        BY <1>1, <3>1, <3>3
      <4>2. st_pipe' = <<>>
        BY <2>3, <4>1
      <4> QED
        BY <2>1, <3>1, <3>3, <4>2
    <3> QED
      BY <3>2, <3>3
  <2> QED
    BY <2>2, <2>3
<1>8. ChildInStep'
  BY <1>1 DEF NoOther
<1>9. PidInStep'
  BY <1>1 DEF NoOther
<1>10. HasServer'
  BY <1>1
<1> HIDE ForkAssumption, LiveFacts, PipeFacts DEF ForkTypeOK, ReadPid, HasServer, RunStep, InStep, PipesInStep, DeadEarly,
     ChildInStep, PidInStep, ForkStep
<1> QED
  BY <1>2, <1>3, <1>4, <1>5, <1>6, <1>7, <1>8, <1>9, <1>10 DEF Live, ServerStep

LEMMA ArmTimerLive ==
  ASSUME ForkTypeOK, ForkTypeOK', Live, ~stop_soon, ArmTimer
  PROVE  Live'
<1> USE ForkAssumption, LiveFacts DEF ForkTypeOK, ArmTimer, FzStates, SvStates, Cur, Parked, NoChild, Quiet,
     Progress, Working, Ended, Unasked, Begun, Asked, HasServer, fuzzerVars, serverVars, processVars,
     childRest, RunStep, InStep, PipesInStep, DeadEarly, ChildInStep, PidInStep, ForkStep, Tools, Showmap,
     NotForked, Startup, EXEC_FAIL_SIG, Runs, Pids
<1>1. child_pid' \in Pids \cup {0, NotForked}
  OBVIOUS
<1>2. NoOther'
  BY DEF NoOther
<1>3. RunStep'
  BY DEF NoOther
<1>4. VerdictTrue'
  BY DEF NoOther, VerdictTrue
<1>5. HasServer => (InStep' /\ DeadEarly')
  BY DEF NoOther
<1>6. HasServer => PipesInStep'
  <2> HIDE DEF Cur, Parked, NoChild, Quiet, Progress, Working, Ended, RunStep, DeadEarly, ChildInStep, PidInStep,
       ForkStep
  <2> QED
    BY SMTT(60)
<1>7. HasServer => ChildInStep'
  BY DEF NoOther
<1>8. HasServer => PidInStep'
  BY DEF NoOther
<1>9. ~HasServer => ForkStep'
  BY DEF NoOther
<1> QED
  BY <1>1, <1>2, <1>3, <1>4, <1>5, <1>6, <1>7, <1>8, <1>9 DEF Live, ServerStep

LEMMA ReadStatusLive ==
  ASSUME ForkTypeOK, ForkTypeOK', Live, ~stop_soon, ReadStatus
  PROVE  Live'
<1> USE ForkAssumption, LiveFacts, PipeFacts DEF ForkTypeOK, ReadStatus, ServerGone, FzStates, SvStates, Cur,
     Parked, NoChild, Quiet, Progress, Working, Ended, Unasked, Begun, Asked, HasServer, fuzzerVars,
     serverVars, processVars, childRest, RunStep, InStep, PipesInStep, DeadEarly, ChildInStep, PidInStep,
     ForkStep
<1>1. HasServer
  OBVIOUS
<1>2. child_pid' \in Pids \cup {0, NotForked}
  BY <1>1
<1>3. NoOther'
  BY <1>1 DEF NoOther
<1>4. RunStep'
  BY <1>1 DEF NoOther
<1>5. VerdictTrue'
  BY <1>1 DEF NoOther, VerdictTrue
<1>6. InStep' /\ DeadEarly'
  BY <1>1 DEF NoOther
<1>7. PipesInStep'
  <2>1. fz = "wait" /\ fz' \in {"forget", "fatal"} /\ ctl_pipe' = ctl_pipe
    OBVIOUS
  <2>2. ctl_pipe = <<>> /\ ~Asked'
    BY <1>1, <2>1
  <2>3. st_pipe' = <<>>
    <3>1. CASE st_pipe = <<>>
      BY <3>1
    <3>2. CASE st_pipe # <<>>
      <4>1. st_pipe = <<server_status>>
        BY <1>1, <2>1, <3>2
      <4> QED
        BY <3>2, <4>1
    <3> QED
      BY <3>1, <3>2
  <2> QED
    BY <2>1, <2>2, <2>3
<1>8. ChildInStep'
  BY <1>1 DEF NoOther
<1>9. PidInStep'
  BY <1>1 DEF NoOther
<1>10. HasServer'
  BY <1>1
<1> HIDE ForkAssumption, LiveFacts, PipeFacts DEF ForkTypeOK, ReadStatus, HasServer, RunStep, InStep, PipesInStep, DeadEarly,
     ChildInStep, PidInStep, ForkStep
<1> QED
  BY <1>2, <1>3, <1>4, <1>5, <1>6, <1>7, <1>8, <1>9, <1>10 DEF Live, ServerStep

LEMMA WaitTargetLive ==
  ASSUME ForkTypeOK, ForkTypeOK', Live, ~stop_soon, WaitTarget
  PROVE  Live'
<1> USE ForkAssumption, LiveFacts DEF ForkTypeOK, WaitTarget, Zombie, FzStates, SvStates, Cur, Parked,
     NoChild, Quiet, Progress, Working, Ended, Unasked, Begun, Asked, HasServer, fuzzerVars, serverVars,
     processVars, childRest, RunStep, InStep, PipesInStep, DeadEarly, ChildInStep, PidInStep, ForkStep
<1>1. ~HasServer
  OBVIOUS
<1>2. child_pid' \in Pids \cup {0, NotForked}
  BY <1>1
<1>3. NoOther'
  BY <1>1 DEF NoOther
<1>4. RunStep'
  BY <1>1 DEF NoOther
<1>5. VerdictTrue'
  BY <1>1 DEF NoOther, VerdictTrue
<1>6. ForkStep'
  BY <1>1 DEF NoOther
<1> QED
  BY <1>1, <1>2, <1>3, <1>4, <1>5, <1>6 DEF Live, ServerStep

LEMMA ForgetChildLive ==
  ASSUME ForkTypeOK, ForkTypeOK', Live, ~stop_soon, ForgetChild
  PROVE  Live'
<1> USE ForkAssumption, LiveFacts DEF ForkTypeOK, ForgetChild, FzStates, SvStates, Cur, Parked, NoChild,
     Quiet, Progress, Working, Ended, Unasked, Begun, Asked, HasServer, fuzzerVars, serverVars,
     processVars, childRest, RunStep, InStep, PipesInStep, DeadEarly, ChildInStep, PidInStep, ForkStep
<1>1. child_pid' \in Pids \cup {0, NotForked}
  OBVIOUS
<1>2. NoOther'
  BY DEF NoOther
<1>3. RunStep'
  BY DEF NoOther
<1>4. VerdictTrue'
  BY DEF NoOther, VerdictTrue
<1>5. HasServer => (InStep' /\ DeadEarly')
  BY DEF NoOther
<1>6. HasServer => PipesInStep'
  BY DEF NoOther
<1>7. HasServer => ChildInStep'
  BY DEF NoOther
<1>8. HasServer => PidInStep'
  BY DEF NoOther
<1>9. ~HasServer => ForkStep'
  BY DEF NoOther
<1> QED
  BY <1>1, <1>2, <1>3, <1>4, <1>5, <1>6, <1>7, <1>8, <1>9 DEF Live, ServerStep

LEMMA DisarmTimerLive ==
  ASSUME ForkTypeOK, ForkTypeOK', Live, ~stop_soon, DisarmTimer
  PROVE  Live'
<1> USE ForkAssumption, LiveFacts DEF ForkTypeOK, DisarmTimer, FzStates, SvStates, Cur, Parked, NoChild,
     Quiet, Progress, Working, Ended, Unasked, Begun, Asked, HasServer, fuzzerVars, serverVars,
     processVars, childRest, RunStep, InStep, PipesInStep, DeadEarly, ChildInStep, PidInStep, ForkStep
<1>1. child_pid' \in Pids \cup {0, NotForked}
  OBVIOUS
<1>2. NoOther'
  BY DEF NoOther
<1>3. RunStep'
  BY DEF NoOther
<1>4. VerdictTrue'
  BY DEF NoOther, VerdictTrue
<1>5. HasServer => (InStep' /\ DeadEarly')
  BY DEF NoOther
<1>6. HasServer => PipesInStep'
  BY DEF NoOther
<1>7. HasServer => ChildInStep'
  BY DEF NoOther
<1>8. HasServer => PidInStep'
  BY DEF NoOther
<1>9. ~HasServer => ForkStep'
  BY DEF NoOther
<1> QED
  BY <1>1, <1>2, <1>3, <1>4, <1>5, <1>6, <1>7, <1>8, <1>9 DEF Live, ServerStep

LEMMA ExitFuzzerLive ==
  ASSUME ForkTypeOK, ForkTypeOK', Live, ~stop_soon, ExitFuzzer
  PROVE  Live'
<1> USE ForkAssumption, LiveFacts DEF ForkTypeOK, ExitFuzzer, FzStates, SvStates, Cur, Parked, NoChild, Quiet,
     Progress, Working, Ended, Unasked, Begun, Asked, HasServer, fuzzerVars, serverVars, processVars,
     childRest, RunStep, InStep, PipesInStep, DeadEarly, ChildInStep, PidInStep, ForkStep
<1>1. child_pid' \in Pids \cup {0, NotForked}
  OBVIOUS
<1>2. NoOther'
  BY DEF NoOther
<1>3. RunStep'
  BY DEF NoOther
<1>4. VerdictTrue'
  BY DEF NoOther, VerdictTrue
<1>5. HasServer => (InStep' /\ DeadEarly')
  BY DEF NoOther
<1>6. HasServer => PipesInStep'
  BY DEF NoOther
<1>7. HasServer => ChildInStep'
  BY DEF NoOther
<1>8. HasServer => PidInStep'
  BY DEF NoOther
<1>9. ~HasServer => ForkStep'
  BY DEF NoOther
<1> QED
  BY <1>1, <1>2, <1>3, <1>4, <1>5, <1>6, <1>7, <1>8, <1>9 DEF Live, ServerStep

LEMMA SayHelloLive ==
  ASSUME ForkTypeOK, ForkTypeOK', Live, ~stop_soon, SayHello
  PROVE  Live'
<1> USE ForkAssumption, LiveFacts, PipeFacts DEF ForkTypeOK, SayHello, FzStates, SvStates, Cur, Parked,
     NoChild, Quiet, Progress, Working, Ended, Unasked, Begun, Asked, HasServer, fuzzerVars, serverVars,
     processVars, childRest, RunStep, InStep, PipesInStep, DeadEarly, ChildInStep, PidInStep, ForkStep
<1>1. HasServer
  OBVIOUS
<1>2. child_pid' \in Pids \cup {0, NotForked}
  BY <1>1
<1>3. NoOther'
  BY <1>1 DEF NoOther
<1>4. RunStep'
  BY <1>1 DEF NoOther
<1>5. VerdictTrue'
  BY <1>1 DEF NoOther, VerdictTrue
<1>6. InStep' /\ DeadEarly'
  BY <1>1 DEF NoOther
<1>7. PipesInStep'
  BY <1>1 DEF NoOther
<1>8. ChildInStep'
  BY <1>1 DEF NoOther
<1>9. PidInStep'
  BY <1>1 DEF NoOther
<1> QED
  BY <1>1, <1>2, <1>3, <1>4, <1>5, <1>6, <1>7, <1>8, <1>9 DEF Live, ServerStep

LEMMA ReadControlLive ==
  ASSUME ForkTypeOK, ForkTypeOK', Live, ~stop_soon, ReadControl
  PROVE  Live'
<1> USE ForkAssumption, LiveFacts, PipeFacts DEF ForkTypeOK, ReadControl, MustReap, FzStates, SvStates, Cur,
     Parked, NoChild, Quiet, Progress, Working, Ended, Unasked, Begun, Asked, HasServer, fuzzerVars,
     serverVars, processVars, childRest, RunStep, InStep, PipesInStep, DeadEarly, ChildInStep, PidInStep,
     ForkStep
<1>1. HasServer
  OBVIOUS
<1>2. child_pid' \in Pids \cup {0, NotForked}
  BY <1>1
<1>3. NoOther'
  BY <1>1 DEF NoOther
<1>4. RunStep'
  BY <1>1 DEF NoOther
<1>5. VerdictTrue'
  BY <1>1 DEF NoOther, VerdictTrue
<1>6. InStep' /\ DeadEarly'
  BY <1>1 DEF NoOther
<1>7. PipesInStep'
  BY <1>1, ZenonT(60) DEF NoOther
<1>8. ChildInStep'
  BY <1>1, ZenonT(60) DEF NoOther
<1>9. PidInStep'
  BY <1>1 DEF NoOther
<1> QED
  BY <1>1, <1>2, <1>3, <1>4, <1>5, <1>6, <1>7, <1>8, <1>9 DEF Live, ServerStep

LEMMA ReapOldChildLive ==
  ASSUME ForkTypeOK, ForkTypeOK', Live, ~stop_soon, ReapOldChild
  PROVE  Live'
<1> USE ForkAssumption, LiveFacts DEF ForkTypeOK, ReapOldChild, Reaped, Zombie, FzStates, SvStates, Cur,
     Parked, NoChild, Quiet, Progress, Working, Ended, Unasked, Begun, Asked, HasServer, fuzzerVars,
     serverVars, processVars, childRest, RunStep, InStep, PipesInStep, DeadEarly, ChildInStep, PidInStep,
     ForkStep
<1>1. HasServer
  OBVIOUS
<1>2. child_pid' \in Pids \cup {0, NotForked}
  BY <1>1
<1>3. NoOther'
  BY <1>1 DEF NoOther
<1>4. RunStep'
  BY <1>1 DEF NoOther
<1>5. VerdictTrue'
  BY <1>1 DEF NoOther, VerdictTrue
<1>6. InStep' /\ DeadEarly'
  BY <1>1 DEF NoOther
<1>7. PipesInStep'
  BY <1>1 DEF NoOther
<1>8. ChildInStep'
  BY <1>1 DEF NoOther
<1>9. PidInStep'
  BY <1>1 DEF NoOther
<1> QED
  BY <1>1, <1>2, <1>3, <1>4, <1>5, <1>6, <1>7, <1>8, <1>9 DEF Live, ServerStep

LEMMA ForkChildLive ==
  ASSUME ForkTypeOK, ForkTypeOK', Live, ~stop_soon, ForkChild
  PROVE  Live'
<1> USE ForkAssumption, LiveFacts DEF ForkTypeOK, ForkChild, Forked, Fresh, FzStates, SvStates, Cur, Parked,
     NoChild, Quiet, Progress, Working, Ended, Unasked, Begun, Asked, HasServer, fuzzerVars, serverVars,
     processVars, childRest, RunStep, InStep, PipesInStep, DeadEarly, ChildInStep, PidInStep, ForkStep
<1>1. HasServer
  OBVIOUS
<1>2. child_pid' \in Pids \cup {0, NotForked}
  BY <1>1
<1>3. NoOther'
  BY <1>1 DEF NoOther
<1>4. RunStep'
  BY <1>1 DEF NoOther
<1>5. VerdictTrue'
  BY <1>1 DEF NoOther, VerdictTrue
<1>6. InStep' /\ DeadEarly'
  BY <1>1 DEF NoOther
<1>7. PipesInStep'
  BY <1>1 DEF NoOther
<1>8. ChildInStep'
  BY <1>1 DEF NoOther
<1>9. PidInStep'
  BY <1>1 DEF NoOther
<1> QED
  BY <1>1, <1>2, <1>3, <1>4, <1>5, <1>6, <1>7, <1>8, <1>9 DEF Live, ServerStep

LEMMA ContinueChildLive ==
  ASSUME ForkTypeOK, ForkTypeOK', Live, ~stop_soon, ContinueChild
  PROVE  Live'
<1> USE ForkAssumption, LiveFacts DEF ForkTypeOK, ContinueChild, FzStates, SvStates, Cur, Parked, NoChild,
     Quiet, Progress, Working, Ended, Unasked, Begun, Asked, HasServer, fuzzerVars, serverVars,
     processVars, childRest, RunStep, InStep, PipesInStep, DeadEarly, ChildInStep, PidInStep, ForkStep
<1>1. HasServer
  OBVIOUS
<1>2. child_pid' \in Pids \cup {0, NotForked}
  BY <1>1
<1>3. NoOther'
  BY <1>1 DEF NoOther
<1>4. RunStep'
  BY <1>1 DEF NoOther
<1>5. VerdictTrue'
  BY <1>1 DEF NoOther, VerdictTrue
<1>6. InStep' /\ DeadEarly'
  BY <1>1 DEF NoOther
<1>7. PipesInStep'
  BY <1>1 DEF NoOther
<1>8. ChildInStep'
  BY <1>1 DEF NoOther
<1>9. PidInStep'
  BY <1>1 DEF NoOther
<1> QED
  BY <1>1, <1>2, <1>3, <1>4, <1>5, <1>6, <1>7, <1>8, <1>9 DEF Live, ServerStep

LEMMA SendPidLive ==
  ASSUME ForkTypeOK, ForkTypeOK', Live, ~stop_soon, SendPid
  PROVE  Live'
<1> USE ForkAssumption, LiveFacts, PipeFacts DEF ForkTypeOK, SendPid, FzStates, SvStates, Cur, Parked,
     NoChild, Quiet, Progress, Working, Ended, Unasked, Begun, Asked, HasServer, fuzzerVars, serverVars,
     processVars, childRest, RunStep, InStep, PipesInStep, DeadEarly, ChildInStep, PidInStep, ForkStep
<1>1. HasServer
  OBVIOUS
<1>2. child_pid' \in Pids \cup {0, NotForked}
  BY <1>1
<1>3. NoOther'
  BY <1>1 DEF NoOther
<1>4. RunStep'
  BY <1>1 DEF NoOther
<1>5. VerdictTrue'
  BY <1>1 DEF NoOther, VerdictTrue
<1>6. InStep' /\ DeadEarly'
  BY <1>1 DEF NoOther
<1>7. PipesInStep'
  BY <1>1 DEF NoOther
<1>8. ChildInStep'
  BY <1>1 DEF NoOther
<1>9. PidInStep'
  BY <1>1 DEF NoOther
<1> QED
  BY <1>1, <1>2, <1>3, <1>4, <1>5, <1>6, <1>7, <1>8, <1>9 DEF Live, ServerStep

LEMMA WaitChildLive ==
  ASSUME ForkTypeOK, ForkTypeOK', Live, ~stop_soon, WaitChild
  PROVE  Live'
<1> USE ForkAssumption, LiveFacts DEF ForkTypeOK, WaitChild, Reaped, Zombie, FzStates, SvStates, Cur, Parked,
     NoChild, Quiet, Progress, Working, Ended, Unasked, Begun, Asked, HasServer, fuzzerVars, serverVars,
     processVars, childRest, RunStep, InStep, PipesInStep, DeadEarly, ChildInStep, PidInStep, ForkStep
<1>1. HasServer
  OBVIOUS
<1>2. child_pid' \in Pids \cup {0, NotForked}
  BY <1>1
<1>3. NoOther'
  BY <1>1 DEF NoOther
<1>4. RunStep'
  BY <1>1 DEF NoOther
<1>5. VerdictTrue'
  BY <1>1 DEF NoOther, VerdictTrue
<1>6. InStep' /\ DeadEarly'
  BY <1>1 DEF NoOther
<1>7. PipesInStep'
  BY <1>1 DEF NoOther
<1>8. ChildInStep'
  BY <1>1 DEF NoOther
<1>9. PidInStep'
  BY <1>1 DEF NoOther
<1> QED
  BY <1>1, <1>2, <1>3, <1>4, <1>5, <1>6, <1>7, <1>8, <1>9 DEF Live, ServerStep

LEMMA SendStatusLive ==
  ASSUME ForkTypeOK, ForkTypeOK', Live, ~stop_soon, SendStatus
  PROVE  Live'
<1> USE ForkAssumption, LiveFacts, PipeFacts DEF ForkTypeOK, SendStatus, FzStates, SvStates, Cur, Parked,
     NoChild, Quiet, Progress, Working, Ended, Unasked, Begun, Asked, HasServer, fuzzerVars, serverVars,
     processVars, childRest, RunStep, InStep, PipesInStep, DeadEarly, ChildInStep, PidInStep, ForkStep
<1>1. HasServer
  OBVIOUS
<1>2. child_pid' \in Pids \cup {0, NotForked}
  BY <1>1
<1>3. NoOther'
  BY <1>1 DEF NoOther
<1>4. RunStep'
  BY <1>1 DEF NoOther
<1>5. VerdictTrue'
  BY <1>1 DEF NoOther, VerdictTrue
<1>6. InStep' /\ DeadEarly'
  BY <1>1 DEF NoOther
<1>7. PipesInStep'
  <2>1. /\ ctl_pipe' = <<>> /\ sv' = "readCtl" /\ fz' = fz /\ fz \in {"readPid", "arm", "wait"}
        /\ server_child' = server_child /\ server_status' = server_status
        /\ st_pipe' = Append(st_pipe, server_status)
    BY <1>1
  <2>2. CASE fz = "readPid"
    <3>1. st_pipe = <<server_child>>
      BY <1>1, <2>2
    <3>2. st_pipe' = <<server_child, server_status>>
      BY <2>1, <3>1, ZenonT(60)
    <3> QED
      BY <2>1, <2>2, <3>2
  <2>3. CASE fz # "readPid"
    <3>1. st_pipe = <<>>
      BY <1>1, <2>1, <2>3
    <3>2. st_pipe' = <<server_status>>
      BY <2>1, <3>1
    <3> QED
      BY <2>1, <2>3, <3>2
  <2> QED
    BY <2>2, <2>3
<1>8. ChildInStep'
  BY <1>1 DEF NoOther
<1>9. PidInStep'
  BY <1>1 DEF NoOther
<1> QED
  BY <1>1, <1>2, <1>3, <1>4, <1>5, <1>6, <1>7, <1>8, <1>9 DEF Live, ServerStep

LEMMA AlarmLive ==
  ASSUME ForkTypeOK, ForkTypeOK', Live, ~stop_soon, Alarm
  PROVE  Live'
<1> USE ForkAssumption, LiveFacts DEF ForkTypeOK, Alarm, handle_timeout, Killed, Alive, FzStates, SvStates,
     Cur, Parked, NoChild, Quiet, Progress, Working, Ended, Unasked, Begun, Asked, HasServer, fuzzerVars,
     serverVars, processVars, childRest, RunStep, InStep, PipesInStep, DeadEarly, ChildInStep, PidInStep,
     ForkStep, Tools, NotForked, Startup, EXEC_FAIL_SIG, Runs, Pids
<1>1. child_pid' \in Pids \cup {0, NotForked}
  OBVIOUS
<1>2. NoOther'
  BY DEF NoOther
<1>3. RunStep'
  BY DEF NoOther
<1>4. VerdictTrue'
  BY DEF NoOther, VerdictTrue
<1>5. HasServer => (InStep' /\ DeadEarly')
  BY DEF NoOther
<1>6. HasServer => PipesInStep'
  BY DEF NoOther
<1>7. HasServer => ChildInStep'
  <2> SUFFICES ASSUME HasServer PROVE ChildInStep'
    OBVIOUS
  <2>1. CASE fz \in {"handshake", "up"}
    <3>1. child_pid = NotForked /\ ~child_stopped /\ pstate' = pstate /\ (sv # "dead" => NoChild)
      BY <2>1
    <3> QED
      BY <2>1, <3>1
  <2>2. CASE fz = "wait"
    <3>1. /\ child_pid = server_child /\ sv' = sv /\ sv \in {"wait", "sendStatus", "readCtl"}
          /\ child_timed_out' = TRUE /\ expired' = run /\ server_child \in Pids /\ ~Asked
      <4>1. child_pid = server_child /\ sv \in {"wait", "sendStatus", "readCtl"} /\ ~Asked
        BY <2>2
      <4>2. server_child \in Pids
        BY <2>2, <4>1
      <4>3. child_pid > 0 /\ child_pid # NotForked
        BY <4>1, <4>2
      <4> QED
        BY <4>1, <4>2, <4>3
    <3>2. \/ pstate[server_child] \in Alive /\ pstate' = [pstate EXCEPT ![server_child] = "killed"]
          \/ pstate[server_child] \notin Alive /\ pstate' = pstate
      BY <2>2, <3>1
    <3>3. CASE sv = "wait"
      BY <2>2, <3>1, <3>2, <3>3 DEF PStates
    <3>4. CASE sv # "wait"
      <4>1. Ended(server_status) /\ child_stopped = (server_status = "stopped") /\ Parked(child_timed_out)
        BY <2>2, <3>1, <3>4
      <4>2. Ended(server_status)'
        BY <2>2, <3>1, <4>1
      <4>3. Parked(child_timed_out)'
        BY <3>1, <3>2, <4>1
      <4> QED
        BY <2>2, <3>1, <3>4, <4>1, <4>2, <4>3
    <3> QED
      BY <3>3, <3>4
  <2>3. CASE fz \in {"forget", "disarm"}
    <3>1. sv = "readCtl" /\ fz' = fz /\ child_pid # NotForked
      BY <2>3
    <3>2. sv' = "readCtl" /\ ~Unasked' /\ ~Begun' /\ ~Asked'
      BY <2>3, <3>1
    <3> QED
      BY <2>3, <3>1, <3>2
  <2> QED
    BY <2>1, <2>2, <2>3
<1>8. HasServer => PidInStep'
  <2> SUFFICES ASSUME HasServer PROVE PidInStep'
    OBVIOUS
  <2>1. /\ fz' = fz /\ child_pid' = child_pid /\ server_child' = server_child /\ child_stopped' = child_stopped
        /\ status' = status /\ fz \in {"handshake", "up", "wait", "forget", "disarm"}
    OBVIOUS
  <2>2. CASE fz \in {"handshake", "up", "wait"}
    <3>1. fz \in {"arm", "wait", "forget"} => child_pid = server_child
      BY <2>2
    <3> QED
      BY <2>1, <2>2, <3>1
  <2>3. CASE fz \in {"forget", "disarm"}
    <3>1. /\ child_stopped = (status = "stopped") /\ Parked(child_timed_out)
          /\ status = "stopped" => child_pid = server_child
          /\ fz = "forget" => child_pid = server_child
          /\ fz = "disarm" /\ status # "stopped" => child_pid = 0
      BY <2>3
    <3>2. Parked(child_timed_out)'
      <4>1. CASE child_stopped
        <5>1. server_child \in Pids /\ pstate[server_child] \in {"stopped", "killed"} /\ child_pid = server_child
          BY <3>1, <4>1
        <5>2. child_pid > 0 /\ child_pid # NotForked
          BY <5>1
        <5>3. child_timed_out' = TRUE /\ pstate' = Killed(server_child)
          BY <5>1, <5>2
        <5>4. pstate'[server_child] = "killed"
          BY <5>1, <5>3
        <5> QED
          BY <2>1, <4>1, <5>1, <5>3, <5>4
      <4>2. CASE ~child_stopped
        <5>1. NoChild
          BY <3>1, <4>2
        <5>2. pstate' = pstate
          BY <5>1
        <5> QED
          BY <2>1, <4>2, <5>1, <5>2
      <4> QED
        BY <4>1, <4>2
    <3> QED
      BY <2>1, <2>3, <3>1, <3>2
  <2> QED
    BY <2>1, <2>2, <2>3
<1>9. ~HasServer => ForkStep'
  <2> SUFFICES ASSUME ~HasServer PROVE ForkStep'
    OBVIOUS
  <2>1. sv = "none" /\ sv' = sv /\ st_pipe' = <<>> /\ ctl_pipe' = <<>> /\ fz' = fz /\ fz \in {"wait", "forget", "disarm"}
    OBVIOUS
  <2>2. CASE fz = "wait"
    <3>1. Working /\ child_pid \in Pids /\ child_pid' = child_pid /\ Cur' = child_pid
      BY <2>2
    <3>2. child_timed_out' = TRUE /\ expired' = run /\ run' = run /\ input' = input /\ outcome' = outcome
      <4>1. child_pid > 0 /\ child_pid # NotForked
        BY <3>1
      <4> QED
        BY <4>1
    <3>3. /\ trace_bits' = trace_bits /\ child_pid > 0 /\ ~HasServer' /\ pstate' = Killed(child_pid)
          /\ pstate \in [Pids -> PStates]
      BY <3>1
    <3>4. CASE pstate[child_pid] \in Alive
      <4>1. pstate'[child_pid] = "killed"
        BY <3>1, <3>3, <3>4
      <4> QED
        BY <2>1, <2>2, <3>1, <3>2, <3>3, <4>1
    <3>5. CASE pstate[child_pid] \notin Alive
      <4>1. pstate' = pstate
        BY <3>3, <3>5
      <4> QED
        BY <2>1, <2>2, <3>1, <3>2, <3>3, <4>1
    <3> QED
      BY <3>4, <3>5
  <2>3. CASE fz # "wait"
    <3>1. NoChild /\ pstate' = pstate
      BY <2>1, <2>3
    <3> QED
      BY <2>1, <2>3, <3>1
  <2> QED
    BY <2>2, <2>3
<1> QED
  BY <1>1, <1>2, <1>3, <1>4, <1>5, <1>6, <1>7, <1>8, <1>9 DEF Live, ServerStep

LEMMA EnterLoopLive ==
  ASSUME ForkTypeOK, ForkTypeOK', Live, ~stop_soon, NEW p \in Pids, EnterLoop(p)
  PROVE  Live'
<1>0. /\ p = Cur /\ Working
      /\ HasServer => sv \in {"sendPid", "wait"} /\ fz \in {"readPid", "arm", "wait"}
      /\ ~HasServer => fz \in {"arm", "wait"}
  BY BusyChild DEF EnterLoop
<1> USE ForkAssumption, LiveFacts DEF ForkTypeOK, EnterLoop, FzStates, SvStates, Cur, Parked, NoChild, Quiet,
     Progress, Working, Ended, Unasked, Begun, Asked, HasServer, fuzzerVars, serverVars, processVars,
     childRest, RunStep, InStep, PipesInStep, DeadEarly, ChildInStep, PidInStep, ForkStep, Tools,
     NotForked, Startup, EXEC_FAIL_SIG, Runs, Pids
<1>1. child_pid' \in Pids \cup {0, NotForked}
  BY <1>0
<1>2. NoOther'
  BY <1>0 DEF NoOther
<1>3. RunStep'
  BY <1>0 DEF NoOther
<1>4. VerdictTrue'
  BY <1>0 DEF NoOther, VerdictTrue
<1>5. HasServer => (InStep' /\ DeadEarly')
  BY <1>0 DEF NoOther
<1>6. HasServer => PipesInStep'
  BY <1>0 DEF NoOther
<1>7. HasServer => ChildInStep'
  BY <1>0, SMTT(60) DEF NoOther
<1>8. HasServer => PidInStep'
  BY <1>0 DEF NoOther
<1>9. ~HasServer => ForkStep'
  BY <1>0 DEF NoOther
<1> QED
  BY <1>1, <1>2, <1>3, <1>4, <1>5, <1>6, <1>7, <1>8, <1>9 DEF Live, ServerStep

LEMMA WorkOnLive ==
  ASSUME ForkTypeOK, ForkTypeOK', Live, ~stop_soon, NEW p \in Pids, WorkOn(p)
  PROVE  Live'
<1>0. /\ p = Cur /\ Working
      /\ HasServer => sv \in {"sendPid", "wait"} /\ fz \in {"readPid", "arm", "wait"}
      /\ ~HasServer => fz \in {"arm", "wait"}
  BY BusyChild DEF WorkOn
<1> USE ForkAssumption, LiveFacts DEF ForkTypeOK, WorkOn, FzStates, SvStates, Cur, Parked, NoChild, Quiet,
     Progress, Working, Ended, Unasked, Begun, Asked, HasServer, fuzzerVars, serverVars, processVars,
     childRest, RunStep, InStep, PipesInStep, DeadEarly, ChildInStep, PidInStep, ForkStep
<1>1. child_pid' \in Pids \cup {0, NotForked}
  BY <1>0
<1>2. NoOther'
  BY <1>0 DEF NoOther
<1>3. RunStep'
  BY <1>0 DEF NoOther
<1>4. VerdictTrue'
  BY <1>0 DEF NoOther, VerdictTrue
<1>5. HasServer => (InStep' /\ DeadEarly')
  BY <1>0 DEF NoOther
<1>6. HasServer => PipesInStep'
  BY <1>0 DEF NoOther
<1>7. HasServer => ChildInStep'
  BY <1>0 DEF NoOther
<1>8. HasServer => PidInStep'
  BY <1>0 DEF NoOther
<1>9. ~HasServer => ForkStep'
  BY <1>0 DEF NoOther
<1> QED
  BY <1>1, <1>2, <1>3, <1>4, <1>5, <1>6, <1>7, <1>8, <1>9 DEF Live, ServerStep

LEMMA FinishInputLive ==
  ASSUME ForkTypeOK, ForkTypeOK', Live, ~stop_soon, NEW p \in Pids, FinishInput(p)
  PROVE  Live'
<1>0. /\ p = Cur /\ Working
      /\ HasServer => sv \in {"sendPid", "wait"} /\ fz \in {"readPid", "arm", "wait"}
      /\ ~HasServer => fz \in {"arm", "wait"}
  BY BusyChild DEF FinishInput
<1> USE ForkAssumption, LiveFacts DEF ForkTypeOK, FinishInput, FzStates, SvStates, Cur, Parked, NoChild,
     Quiet, Progress, Working, Ended, Unasked, Begun, Asked, HasServer, fuzzerVars, serverVars,
     processVars, childRest, RunStep, InStep, PipesInStep, DeadEarly, ChildInStep, PidInStep, ForkStep
<1>1. child_pid' \in Pids \cup {0, NotForked}
  BY <1>0
<1>2. NoOther'
  BY <1>0 DEF NoOther
<1>3. RunStep'
  BY <1>0 DEF NoOther
<1>4. VerdictTrue'
  BY <1>0 DEF NoOther, VerdictTrue
<1>5. HasServer => (InStep' /\ DeadEarly')
  BY <1>0 DEF NoOther
<1>6. HasServer => PipesInStep'
  BY <1>0 DEF NoOther
<1>7. HasServer => ChildInStep'
  BY <1>0 DEF NoOther
<1>8. HasServer => PidInStep'
  BY <1>0 DEF NoOther
<1>9. ~HasServer => ForkStep'
  BY <1>0 DEF NoOther
<1> QED
  BY <1>1, <1>2, <1>3, <1>4, <1>5, <1>6, <1>7, <1>8, <1>9 DEF Live, ServerStep

LEMMA CrashLive ==
  ASSUME ForkTypeOK, ForkTypeOK', Live, ~stop_soon, NEW p \in Pids, Crash(p)
  PROVE  Live'
<1>0. /\ p = Cur /\ Working
      /\ HasServer => sv \in {"sendPid", "wait"} /\ fz \in {"readPid", "arm", "wait"}
      /\ ~HasServer => fz \in {"arm", "wait"}
  BY BusyChild DEF Crash
<1> USE ForkAssumption, LiveFacts DEF ForkTypeOK, Crash, FzStates, SvStates, Cur, Parked, NoChild, Quiet,
     Progress, Working, Ended, Unasked, Begun, Asked, HasServer, fuzzerVars, serverVars, processVars,
     childRest, RunStep, InStep, PipesInStep, DeadEarly, ChildInStep, PidInStep, ForkStep, Tools,
     NotForked, Startup, EXEC_FAIL_SIG, Runs, Pids
<1>1. child_pid' \in Pids \cup {0, NotForked}
  BY <1>0
<1>2. NoOther'
  BY <1>0 DEF NoOther
<1>3. RunStep'
  BY <1>0, SMTT(150) DEF NoOther
<1>4. VerdictTrue'
  BY <1>0 DEF NoOther, VerdictTrue
<1>5. HasServer => (InStep' /\ DeadEarly')
  BY <1>0 DEF NoOther
<1>6. HasServer => PipesInStep'
  BY <1>0 DEF NoOther
<1>7. HasServer => ChildInStep'
  BY <1>0, SMTT(60) DEF NoOther
<1>8. HasServer => PidInStep'
  BY <1>0 DEF NoOther
<1>9. ~HasServer => ForkStep'
  BY <1>0 DEF NoOther
<1> QED
  BY <1>1, <1>2, <1>3, <1>4, <1>5, <1>6, <1>7, <1>8, <1>9 DEF Live, ServerStep

LEMMA ExecFailsLive ==
  ASSUME ForkTypeOK, ForkTypeOK', Live, ~stop_soon, NEW p \in Pids, ExecFails(p)
  PROVE  Live'
<1>0. /\ p = Cur /\ Working
      /\ HasServer => sv \in {"sendPid", "wait"} /\ fz \in {"readPid", "arm", "wait"}
      /\ ~HasServer => fz \in {"arm", "wait"}
  BY BusyChild DEF ExecFails
<1> USE ForkAssumption, LiveFacts DEF ForkTypeOK, ExecFails, FzStates, SvStates, Cur, Parked, NoChild, Quiet,
     Progress, Working, Ended, Unasked, Begun, Asked, HasServer, fuzzerVars, serverVars, processVars,
     childRest, RunStep, InStep, PipesInStep, DeadEarly, ChildInStep, PidInStep, ForkStep, Tools,
     NotForked, Startup, EXEC_FAIL_SIG, Runs, Pids
<1>1. ~HasServer
  OBVIOUS
<1>2. child_pid' \in Pids \cup {0, NotForked}
  BY <1>0, <1>1
<1>3. NoOther'
  BY <1>0, <1>1 DEF NoOther
<1>4. RunStep'
  BY <1>0, <1>1 DEF NoOther
<1>5. VerdictTrue'
  BY <1>0, <1>1 DEF NoOther, VerdictTrue
<1>6. ForkStep'
  BY <1>0, <1>1 DEF NoOther
<1> QED
  BY <1>1, <1>2, <1>3, <1>4, <1>5, <1>6 DEF Live, ServerStep

(* The verdicts of run_target, for a run that has ended with a status. *)
LEMMA VerdictCases ==
  ASSUME ForkTypeOK, ~stop_soon, Ended(status)
  PROVE  /\ Verdict \in {"none", "crash", "hang", "error", "fatal"}
         /\ Verdict = "hang" => child_timed_out
         /\ Verdict \in {"crash", "error", "none"} => ~child_timed_out
         /\ Verdict = "crash" => status = "crashed"
         /\ Verdict \in {"error", "none"} => status \in {"stopped", "exited"}
         /\ Verdict = "error" => ExecFailed
         /\ Verdict = "none" => ~ExecFailed \/ HasServer
         /\ Verdict = "fatal" => ~HasServer
<1> USE ForkAssumption DEF ForkTypeOK, HasServer, Showmap
<1>1. status \in {"stopped", "exited", "crashed", "killed"} /\ (status = "killed" => child_timed_out)
  BY DEF Ended, Progress
<1>2. CASE mode \in Showmap
  <2>1. Verdict = ShowmapVerdict
    BY <1>2 DEF Verdict
  <2> QED
    BY <1>1, <1>2, <2>1 DEF ShowmapVerdict, Signalled
<1>3. CASE mode \in {"tmin", "analyze"}
  <2>1. Verdict = TminVerdict
    BY <1>3 DEF Verdict, AnalyzeVerdict
  <2> QED
    BY <1>1, <1>3, <2>1 DEF TminVerdict, Signalled
<1>4. CASE mode \in {"server", "persistent", "dumb"}
  <2>1. Verdict = FuzzerVerdict
    BY <1>4 DEF Verdict
  <2> QED
    BY <1>1, <1>4, <2>1 DEF FuzzerVerdict, Signalled
<1> QED
  BY <1>2, <1>3, <1>4

LEMMA ReportRunLive ==
  ASSUME ForkTypeOK, ForkTypeOK', Live, ~stop_soon, ReportRun
  PROVE  Live'
<1> USE ForkAssumption, LiveFacts
<1>0. /\ run \in Runs /\ Ended(status) /\ (child_timed_out => expired = run) /\ timer # "on"
      /\ \A r \in Runs : r > run => outcome[r] = "open"
  BY DEF ReportRun, RunStep
<1>1. /\ fz' = (IF Verdict = "fatal" THEN "fatal" ELSE "idle") /\ verdict' = Verdict
      /\ prev_timed_out' = child_timed_out
      /\ UNCHANGED <<mode, run, child_pid, child_timed_out, stop_soon, timer, status, serverVars,
                     ctl_pipe, st_pipe, trace_bits, processVars, expired>>
  BY DEF ReportRun, PrevTimedOut
<1>2. child_pid' \in Pids \cup {0, NotForked} /\ NoOther'
  BY <1>1 DEF NoOther, Cur, HasServer, serverVars, processVars
<1>3. RunStep'
  BY <1>0, <1>1 DEF RunStep, Asked, processVars
<1>4. VerdictTrue'
  <2>1. trace_bits \cap Runs \subseteq {run} /\ (status = "crashed" => outcome[run] = "crashed")
    BY <1>0 DEF Ended, Progress
  <2>2. run # EXEC_FAIL_SIG
    BY <1>0 DEF Runs, EXEC_FAIL_SIG
  <2>3. ASSUME status \in {"stopped", "exited"}
        PROVE  \/ outcome[run] = "finished" /\ trace_bits = {run} /\ ~ExecFailed
               \/ outcome[run] = "noexec" /\ ExecFailed /\ ~HasServer
    BY <1>0, <2>2, <2>3 DEF Ended, Progress, ExecFailed
  <2>4. ASSUME Verdict # "fatal"
        PROVE  \/ Verdict = "none" /\ outcome[run] = "finished" /\ trace_bits = {run}
               \/ Verdict = "crash" /\ outcome[run] = "crashed"
               \/ Verdict = "hang" /\ expired = run
               \/ Verdict = "error" /\ outcome[run] = "noexec"
    BY <1>0, <2>1, <2>3, <2>4, VerdictCases
  <2>5. Verdict = "fatal" => fz' # "idle"
    BY <1>1
  <2> QED
    BY <1>1, <2>1, <2>4, <2>5 DEF VerdictTrue, processVars
<1>5. HasServer => ServerStep'
  <2> SUFFICES ASSUME HasServer PROVE ServerStep'
    OBVIOUS
  <2>1. fz' = "idle" /\ sv' = "readCtl" /\ sv = "readCtl"
    BY <1>0, <1>1, VerdictCases DEF InStep, ReportRun, serverVars
  <2>2. ctl_pipe' = <<>> /\ st_pipe' = <<>>
    BY <1>1 DEF PipesInStep, Asked, ReportRun
  <2>3. Parked(prev_timed_out)'
    BY <1>1 DEF PidInStep, Parked, ReportRun, NoChild, serverVars, processVars
  <2> QED
    BY <2>1, <2>2, <2>3 DEF ServerStep, InStep, PipesInStep, DeadEarly, ChildInStep, PidInStep,
       Asked, Unasked, Begun
<1>6. ~HasServer => ForkStep'
  BY <1>1 DEF ForkStep, ReportRun, NoChild, serverVars, processVars
<1> QED
  BY <1>1, <1>2, <1>3, <1>4, <1>5, <1>6 DEF Live, HasServer

LEMMA ForkInvStep == ForkInv /\ [ForkNext]_forkVars => ForkInv'
<1> SUFFICES ASSUME ForkInv, [ForkNext]_forkVars, ~stop_soon' PROVE Live'
  BY ForkTypes DEF ForkInv
<1>1. ForkTypeOK /\ ForkTypeOK'
  BY ForkTypes DEF ForkInv
<1>2. CASE UNCHANGED forkVars
  <2>1. Live
    BY <1>2 DEF forkVars, ForkInv
  <2>2. /\ mode' = mode /\ fz' = fz /\ run' = run /\ child_pid' = child_pid /\ child_timed_out' = child_timed_out
        /\ prev_timed_out' = prev_timed_out /\ stop_soon' = stop_soon /\ timer' = timer /\ status' = status
        /\ verdict' = verdict /\ sv' = sv /\ server_child' = server_child /\ child_stopped' = child_stopped
        /\ server_status' = server_status /\ ctl_pipe' = ctl_pipe /\ st_pipe' = st_pipe
        /\ trace_bits' = trace_bits /\ pstate' = pstate /\ input' = input /\ outcome' = outcome
        /\ expired' = expired
    BY <1>2 DEF forkVars
  <2>3. (HasServer <=> HasServer') /\ Cur = Cur' /\ (Asked <=> Asked')
    BY <2>2 DEF HasServer, Cur, Asked
  <2>4. \A s : Progress(s) <=> Progress(s)'
    BY <2>2, <2>3 DEF Progress
  <2>5. (Working <=> Working') /\ (Ended(status) <=> Ended(status)') /\ (Ended(server_status) <=> Ended(server_status)')
    BY <2>2, <2>3, <2>4 DEF Working, Ended
  <2>6. NoOther' /\ (NoChild <=> NoChild') /\ (Quiet <=> Quiet') /\ VerdictTrue'
    BY <2>1, <2>2, <2>3 DEF Live, NoOther, NoChild, Quiet, VerdictTrue
  <2>7. RunStep'
    BY <2>1, <2>2, <2>3, <2>5 DEF Live, RunStep
  <2>8. HasServer' => ServerStep'
    <3>1. \A t : Parked(t) <=> Parked(t)'
      BY <2>2, <2>6 DEF Parked
    <3>2. SUFFICES ASSUME HasServer, ServerStep PROVE ServerStep'
      BY <2>1, <2>3 DEF Live
    <3>3. InStep' /\ PipesInStep' /\ DeadEarly'
      BY <2>2, <2>3, <3>2 DEF ServerStep, InStep, PipesInStep, DeadEarly
    <3>4. ChildInStep' /\ PidInStep'
      BY <2>2, <2>3, <2>5, <2>6, <3>1, <3>2, ZenonT(60) DEF ServerStep, ChildInStep, PidInStep, Unasked, Begun
    <3> QED
      BY <3>3, <3>4 DEF ServerStep
  <2>9. ~HasServer' => ForkStep'
    BY <2>1, <2>2, <2>3, <2>5, <2>6 DEF Live, ForkStep
  <2> QED
    BY <2>1, <2>2, <2>6, <2>7, <2>8, <2>9 DEF Live
<1>3. ASSUME ForkNext, ~handle_stop_sig PROVE ~stop_soon /\ Live
  <2>1. CASE Fuzzer
    <3>1. stop_soon' = stop_soon
      BY <2>1 DEF Fuzzer, InitForkserver, ReadHello, HandshakeFails, ServerIsUp, StartRun, ForkTarget, RequestRun,
         ReadPid, ArmTimer, ReadStatus, WaitTarget, ForgetChild, DisarmTimer, ReportRun, ExitFuzzer, ServerGone
    <3> QED
      BY <3>1 DEF ForkInv
  <2>2. CASE Server
    <3>1. stop_soon' = stop_soon
      BY <2>2 DEF Server, SayHello, ReadControl, ReapOldChild, ForkChild, ContinueChild, SendPid, WaitChild, SendStatus
    <3> QED
      BY <3>1 DEF ForkInv
  <2>3. CASE Child
    <3>1. stop_soon' = stop_soon
      BY <2>3 DEF Child, EnterLoop, WorkOn, FinishInput, Crash, ExecFails, childRest
    <3> QED
      BY <3>1 DEF ForkInv
  <2>4. CASE Alarm
    <3>1. stop_soon' = stop_soon
      BY <2>4 DEF Alarm
    <3> QED
      BY <3>1 DEF ForkInv
  <2> QED
    BY <1>3, <2>1, <2>2, <2>3, <2>4 DEF ForkNext
<1>4. ~handle_stop_sig
  BY DEF handle_stop_sig
<1>5. CASE Fuzzer
  BY <1>1, <1>3, <1>4, <1>5, InitForkserverLive, ReadHelloLive, HandshakeFailsLive, ServerIsUpLive, StartRunLive,
     ForkTargetLive, RequestRunLive, ReadPidLive, ArmTimerLive, ReadStatusLive, WaitTargetLive, ForgetChildLive,
     DisarmTimerLive, ReportRunLive, ExitFuzzerLive DEF Fuzzer, ForkNext
<1>6. CASE Server
  BY <1>1, <1>3, <1>4, <1>6, SayHelloLive, ReadControlLive, ReapOldChildLive, ForkChildLive, ContinueChildLive,
     SendPidLive, WaitChildLive, SendStatusLive DEF Server, ForkNext
<1>7. CASE Child
  BY <1>1, <1>3, <1>4, <1>7, EnterLoopLive, WorkOnLive, FinishInputLive, CrashLive, ExecFailsLive
     DEF Child, ForkNext
<1>8. CASE Alarm
  BY <1>1, <1>3, <1>4, <1>8, AlarmLive DEF ForkNext
<1> QED
  BY <1>2, <1>4, <1>5, <1>6, <1>7, <1>8 DEF ForkNext

LEMMA ForkSpecInv == ForkSpec => []ForkInv
  BY ForkInvInit, ForkInvStep, PTL DEF ForkSpec
-----------------------------------------------------------------------------
(* What run_target reports (afl-fuzz.c:2255-2452 and its copies in the      *)
(* tools) is true of the input of this run, for any number of runs and any  *)
(* interleaving of the fuzzer, the server, the child and the timer.         *)
THEOREM VerdictsTrue == ForkSpec => []VerdictTrue
<1>1. ForkInv => VerdictTrue
  <2>1. stop_soon => VerdictTrue
    BY Zenon DEF VerdictTrue
  <2> QED
    BY <2>1 DEF ForkInv, Live
<1> QED
  BY ForkSpecInv, <1>1, PTL

(* The server and the fuzzer never lose track of a child: at most one is    *)
(* not waited for, and none runs between two inputs.                        *)
THEOREM AtMostOneChild == ForkSpec => []OneChild
<1>1. ForkInv => OneChild
  <2> SUFFICES ASSUME ForkInv, ~stop_soon, sv # "dead" PROVE
        /\ Cardinality({p \in Pids : pstate[p] \notin {"none", "reaped"}}) <= 1
        /\ fz = "idle" => \A p \in Pids : pstate[p] \notin {"startup", "running"}
    BY DEF OneChild
  <2>1. ForkTypeOK /\ Live
    BY DEF ForkInv
  <2>2. Cardinality({p \in Pids : pstate[p] \notin {"none", "reaped"}}) <= 1
    <3> DEFINE S == {p \in Pids : pstate[p] \notin {"none", "reaped"}}
    <3>1. S \subseteq {Cur}
      BY <2>1 DEF Live, NoOther
    <3>2. IsFiniteSet({Cur}) /\ Cardinality({Cur}) = 1
      BY FS_Singleton
    <3> HIDE DEF S
    <3>3. Cardinality(S) <= Cardinality({Cur})
      BY <3>1, <3>2, FS_Subset
    <3> QED
      BY <3>2, <3>3 DEF S
  <2>3. ASSUME fz = "idle", NEW p \in Pids, pstate[p] \in {"startup", "running"} PROVE FALSE
    BY <2>1, <2>3, BusyChild
  <2> QED
    BY <2>2, <2>3
<1> QED
  BY ForkSpecInv, <1>1, PTL

(***************************************************************************)
(* The minimizer (AflTmin.tla): whatever afl-tmin writes cannot lose a     *)
(* byte.                                                                   *)
(***************************************************************************)
Byte == 0..255
Refused(t) == t \in DOMAIN known /\ ~known[t]
AllRefused == \A i \in DOMAIN in_data : Refused(WithoutByte(i))

(* In the last deletions of a pass, whose blocks are single bytes, all     *)
(* bytes before pos were tried, and what was tried before counts for the   *)
(* present file as long as the pass has changed nothing.                   *)
DeleteStep ==
  stage = "delete" =>
    /\ pos \in Nat /\ block \in Nat \ {0}
    /\ ~prev_del => block <= pos
    /\ block = 1 /\ ~changed_any => \A i \in DOMAIN in_data : i <= pos => Refused(WithoutByte(i))

TminInv ==
  /\ in_data \in Seq(Byte) /\ orig_len \in Nat /\ in_len <= orig_len
  /\ stage \notin {"dryRun", "fatal"} => in_data \in DOMAIN known /\ known[in_data]
  /\ DeleteStep
  /\ stage \in {"symbols", "characters"} /\ ~changed_any => AllRefused
  /\ stage = "done" => AllRefused
-----------------------------------------------------------------------------
(*                      Powers of two, and next_p2                         *)

LEMMA LeastIn ==
  ASSUME NEW T, T \subseteq Nat, T # {}
  PROVE  \E x \in T : \A y \in T : x <= y
<1>1. PICK R : (\A x, y \in Nat : y < x => <<y, x>> \in R) /\ IsWellFoundedOn(R, Nat)
  <2>1. \A x, y \in Nat : y < x => <<y, x>> \in OpToRel(<, Nat)
    BY DEF OpToRel
  <2> QED
    BY <2>1, NatLessThanWellFounded, Zenon
<1>2. PICK x \in T : \A y \in T : ~(<<y, x>> \in R)
  BY <1>1, WFMin
<1>3. ASSUME NEW y \in T PROVE ~(y < x)
  BY <1>1, <1>2, Zenon
<1>4. ASSUME NEW y \in T PROVE x <= y
  <2>1. x \in Nat /\ y \in Nat
    OBVIOUS
  <2> QED
    BY <1>3, <2>1
<1> QED
  BY <1>4

(* The first n doublings. *)
Doublings(n, g) == /\ g \in [0..n -> Nat]
                   /\ g[0] = 1
                   /\ \A k \in 1..n : g[k] = 2 * g[k - 1]

LEMMA DoublingsExist == \A n \in Nat : \E g : Doublings(n, g)
<1> DEFINE T == {n \in Nat : ~ \E g : Doublings(n, g)}
<1> SUFFICES ASSUME T # {} PROVE FALSE
  OBVIOUS
<1>1. PICK n \in T : \A m \in T : n <= m
  BY LeastIn
<1>2. n \in Nat /\ ~ \E g : Doublings(n, g)
  OBVIOUS
<1>3. CASE n = 0
  <2>1. Doublings(0, [k \in 0..0 |-> 1])
    BY DEF Doublings
  <2> QED
    BY <1>2, <1>3, <2>1
<1>4. CASE n # 0
  <2>1. n - 1 \in Nat /\ n - 1 \notin T
    BY <1>1, <1>2, <1>4
  <2>2. PICK g : Doublings(n - 1, g)
    BY <2>1
  <2> DEFINE h == [k \in 0..n |-> IF k = n THEN 2 * g[n - 1] ELSE g[k]]
  <2>3. h \in [0..n -> Nat]
    BY <1>2, <1>4, <2>2 DEF Doublings
  <2>4. h[0] = 1 /\ \A k \in 1..n : h[k] = 2 * h[k - 1]
    BY <1>2, <1>4, <2>2 DEF Doublings
  <2>5. Doublings(n, h)
    BY <2>3, <2>4 DEF Doublings
  <2> QED
    BY <1>2, <2>5
<1> QED
  BY <1>3, <1>4

LEMMA DoublingsAgree ==
  ASSUME NEW n \in Nat, NEW m \in Nat, n <= m, NEW g, NEW h, Doublings(n, g), Doublings(m, h)
  PROVE  \A k \in 0..n : g[k] = h[k]
<1> DEFINE T == {k \in 0..n : g[k] # h[k]}
<1> SUFFICES ASSUME T # {} PROVE FALSE
  OBVIOUS
<1>1. PICK k \in T : \A j \in T : k <= j
  <2>1. T \subseteq Nat
    OBVIOUS
  <2> HIDE DEF T
  <2> QED
    BY <2>1, LeastIn
<1>2. k \in 0..n /\ g[k] # h[k]
  OBVIOUS
<1>3. k # 0
  BY <1>2 DEF Doublings
<1>4. k - 1 \in 0..n /\ k - 1 \notin T
  BY <1>1, <1>2, <1>3
<1>5. g[k - 1] = h[k - 1]
  BY <1>4
<1> QED
  BY <1>2, <1>3, <1>5 DEF Doublings

(* The recursive function pow2 is what its equation says. *)
LEMMA Pow2Equation == pow2 = [k \in Nat |-> IF k = 0 THEN 1 ELSE 2 * pow2[k - 1]]
<1> DEFINE F(f) == [k \in Nat |-> IF k = 0 THEN 1 ELSE 2 * f[k - 1]]
<1> DEFINE G(k) == CHOOSE g : Doublings(k, g)
<1> DEFINE f == [k \in Nat |-> G(k)[k]]
<1>1. ASSUME NEW k \in Nat PROVE Doublings(k, G(k))
  BY DoublingsExist
<1>2. ASSUME NEW k \in Nat PROVE f[k] = IF k = 0 THEN 1 ELSE 2 * f[k - 1]
  <2>1. CASE k = 0
    BY <1>1, <2>1 DEF Doublings
  <2>2. CASE k # 0
    <3>1. k - 1 \in Nat
      BY <2>2
    <3>2. G(k)[k] = 2 * G(k)[k - 1]
      <4> HIDE DEF G
      <4> QED
        BY <1>1, <2>2 DEF Doublings
    <3>3. G(k - 1)[k - 1] = G(k)[k - 1]
      <4>1. Doublings(k - 1, G(k - 1)) /\ Doublings(k, G(k))
        BY <1>1, <3>1
      <4> HIDE DEF G
      <4> QED
        BY <3>1, <4>1, DoublingsAgree
    <3> HIDE DEF G
    <3> QED
      BY <2>2, <3>1, <3>2, <3>3
  <2> QED
    BY <2>1, <2>2
<1>3. f = F(f)
  <2> HIDE DEF G
  <2> QED
    BY <1>2
<1>4. \E e : e = F(e)
  BY <1>3
<1> HIDE DEF f
<1>5. pow2 = CHOOSE e : e = F(e)
  BY DEF pow2
<1> QED
  BY <1>4, <1>5

LEMMA Pow2Grows == \A k \in Nat : pow2[k] \in Nat /\ k < pow2[k]
<1> DEFINE T == {k \in Nat : ~(pow2[k] \in Nat /\ k < pow2[k])}
<1> SUFFICES ASSUME T # {} PROVE FALSE
  OBVIOUS
<1>1. PICK k \in T : \A j \in T : k <= j
  BY LeastIn
<1>2. k \in Nat /\ ~(pow2[k] \in Nat /\ k < pow2[k])
  OBVIOUS
<1>3. pow2[k] = IF k = 0 THEN 1 ELSE 2 * pow2[k - 1]
  BY <1>2, Pow2Equation
<1>4. k # 0
  BY <1>2, <1>3
<1>5. k - 1 \in Nat /\ k - 1 \notin T
  BY <1>1, <1>2, <1>4
<1>6. pow2[k - 1] \in Nat /\ k - 1 < pow2[k - 1]
  BY <1>5
<1> QED
  BY <1>2, <1>3, <1>4, <1>6

(* A block is never empty: the test for del_len = 0 (afl-tmin.c:460) only  *)
(* repeats this.                                                           *)
LEMMA NextP2Positive == ASSUME NEW v \in Nat PROVE next_p2(v) \in Nat \ {0} /\ v <= next_p2(v)
<1> DEFINE T == {k \in Nat : pow2[k] >= v}
<1> DEFINE First(k) == pow2[k] >= v /\ \A j \in 0..(k - 1) : pow2[j] < v
<1>1. v \in T
  BY Pow2Grows
<1>2. PICK k \in T : \A j \in T : k <= j
  BY <1>1, LeastIn
<1>3. k \in 0..v /\ pow2[k] >= v
  BY <1>1, <1>2
<1>4. ASSUME NEW j \in 0..(k - 1) PROVE pow2[j] < v
  <2>1. j \in Nat /\ j \notin T
    BY <1>2, <1>3
  <2> QED
    BY <2>1, Pow2Grows
<1>5. \E i \in 0..v : First(i)
  BY <1>3, <1>4
<1> DEFINE c == CHOOSE i \in 0..v : First(i)
<1>6. c \in 0..v /\ First(c)
  BY <1>5
<1>7. next_p2(v) = pow2[c]
  BY DEF next_p2
<1> HIDE DEF c
<1> QED
  BY <1>6, <1>7, Pow2Grows
-----------------------------------------------------------------------------
(*                       Files and trials                                  *)

LEMMA DivNat == ASSUME NEW a \in Nat, NEW d \in Nat \ {0} PROVE a \div d \in Nat
  OBVIOUS

LEMMA ZeroOrByte == 0 \in Byte /\ (in_data \in Seq(Byte) => \A i \in DOMAIN in_data : in_data[i] \in Byte)
<1>1. 0 \in Byte
  BY DEF Byte
<1> QED
  BY <1>1, LenProperties, ElementOfSeq

LEMMA LenNat == in_data \in Seq(Byte) => in_len \in Nat
  BY LenProperties DEF in_len

LEMMA InitTmin == TminInit => TminInv
<1> SUFFICES ASSUME TminInit PROVE TminInv
  OBVIOUS
<1>1. in_data \in Seq(Byte)
  BY TminAssumption DEF TminInit, Byte
<1>2. in_len \in Nat
  BY <1>1, LenNat
<1>3. orig_len = in_len /\ stage = "dryRun"
  BY DEF TminInit, in_len
<1> QED
  <2>1. in_len <= orig_len /\ orig_len \in Nat
    <3>1. PICK n \in Nat : n = in_len
      BY <1>2
    <3> QED
      BY <1>3, <3>1
  <2>2. DeleteStep
    BY <1>3 DEF DeleteStep
  <2> QED
    BY <1>1, <1>3, <2>1, <2>2 DEF TminInv

LEMMA SameLength ==
  ASSUME NEW s \in Seq(Byte), NEW t \in [DOMAIN s -> Byte]
  PROVE  t \in Seq(Byte) /\ Len(t) = Len(s)
<1>1. Len(s) \in Nat /\ DOMAIN s = 1..Len(s)
  BY LenProperties
<1>2. t \in [1..Len(s) -> Byte]
  BY <1>1
<1>3. t \in Seq(Byte)
  BY <1>1, <1>2
<1>4. DOMAIN t = 1..Len(t) /\ Len(t) \in Nat
  BY <1>3, LenProperties
<1> QED
  BY <1>1, <1>2, <1>3, <1>4

(* A file that was kept or refused stays so, and the trial decides t. *)
LEMMA TrialFacts ==
  ASSUME TminInv, stage \notin {"dryRun", "fatal"}, NEW t \in Seq(Byte), Len(t) <= in_len, Trial(t)
  PROVE  /\ in_data' \in Seq(Byte) /\ in_len' <= in_len
         /\ in_data' \in DOMAIN known' /\ known'[in_data']
         /\ \A u : Refused(u) => Refused(u)'
         /\ \/ in_data' = t /\ changed_any'
            \/ in_data' = in_data /\ (changed_any' => changed_any) /\ Refused(t)'
<1>1. PICK res \in BOOLEAN : /\ run_target(t, res)
                             /\ in_data' = IF res THEN t ELSE in_data
                             /\ changed_any' = (changed_any \/ res)
  BY DEF Trial
<1>2. /\ t \in DOMAIN known => res = known[t]
      /\ known' = [u \in DOMAIN known \cup {t} |-> IF u = t THEN res ELSE known[u]]
  BY <1>1 DEF run_target
<1>3. DOMAIN known' = DOMAIN known \cup {t} /\ known'[t] = res
  BY <1>2
<1>4. ASSUME NEW u \in DOMAIN known PROVE known'[u] = known[u]
  BY <1>2
<1>5. in_data \in Seq(Byte) /\ in_data \in DOMAIN known /\ known[in_data]
  BY DEF TminInv
<1>6. in_data' \in Seq(Byte) /\ in_len' <= in_len
  <2>1. in_len \in Nat
    BY <1>5, LenNat
  <2>2. CASE res = TRUE
    BY <1>1, <2>2 DEF in_len
  <2>3. CASE res = FALSE
    <3>1. in_data' = in_data
      BY <1>1, <2>3
    <3>2. in_len' = in_len
      BY <3>1 DEF in_len
    <3>3. PICK n \in Nat : n = in_len
      BY <2>1
    <3>4. in_len' <= in_len
      BY <3>2, <3>3
    <3> QED
      BY <1>5, <3>1, <3>4
  <2> QED
    BY <2>2, <2>3
<1>7. ASSUME NEW u, Refused(u) PROVE Refused(u)'
  BY <1>3, <1>4, <1>7 DEF Refused
<1>8. CASE res = TRUE
  BY <1>1, <1>3, <1>6, <1>7, <1>8
<1>9. CASE res = FALSE
  BY <1>1, <1>3, <1>4, <1>5, <1>6, <1>7, <1>9 DEF Refused
<1> QED
  BY <1>8, <1>9

(* The same for the stages that never look at the deletions. *)
LEMMA StageTrial ==
  ASSUME TminInv, NEW t \in [DOMAIN in_data -> Byte], Trial(t) \/ NoTrial,
         stage \in {"normalize", "symbols", "characters"}, UNCHANGED <<stage, orig_len>>
  PROVE  TminInv'
<1>1. in_data \in Seq(Byte) /\ orig_len \in Nat /\ in_len \in Nat /\ in_len <= orig_len
  BY LenNat DEF TminInv
<1>2. t \in Seq(Byte) /\ Len(t) = in_len
  BY <1>1, SameLength DEF in_len
<1>3. CASE Trial(t)
  <2>1. /\ in_data' \in Seq(Byte) /\ in_len' <= in_len
        /\ in_data' \in DOMAIN known' /\ known'[in_data']
        /\ \A u : Refused(u) => Refused(u)'
        /\ \/ in_data' = t /\ changed_any'
           \/ in_data' = in_data /\ (changed_any' => changed_any) /\ Refused(t)'
    <3>1. stage \notin {"dryRun", "fatal"}
      OBVIOUS
    <3>2. Len(t) <= in_len
      BY <1>1, <1>2
    <3> QED
      BY <1>2, <1>3, <3>1, <3>2, TrialFacts
  <2>2. in_len' \in Nat
    BY <2>1, LenProperties DEF in_len
  <2>3. in_data' \in Seq(Byte) /\ orig_len' \in Nat /\ in_len' <= orig_len'
    BY <1>1, <2>1, <2>2
  <2>4. stage' \in {"symbols", "characters"} /\ ~changed_any' => AllRefused'
    <3> SUFFICES ASSUME stage \in {"symbols", "characters"}, ~changed_any' PROVE AllRefused'
      OBVIOUS
    <3>1. in_data' = in_data
      BY <2>1
    <3>2. CASE changed_any
      BY <1>3, <3>2 DEF Trial
    <3>3. CASE ~changed_any
      <4>1. AllRefused
        BY <3>3 DEF TminInv
      <4> QED
        BY <2>1, <3>1, <4>1 DEF AllRefused, WithoutByte, in_len
    <3> QED
      BY <3>2, <3>3
  <2> QED
    BY <2>1, <2>3, <2>4 DEF TminInv, DeleteStep
<1>4. CASE NoTrial
  BY <1>4 DEF NoTrial, TminInv, DeleteStep, AllRefused, Refused, WithoutByte, in_len
<1> QED
  BY <1>3, <1>4
-----------------------------------------------------------------------------
(*                             The stages                                  *)

LEMMA DryRunKeeps == TminInv /\ DryRun => TminInv'
<1> SUFFICES ASSUME TminInv, DryRun PROVE TminInv'
  OBVIOUS
<1>1. stage' \in {"fatal", "normalize"} /\ in_data' = in_data /\ orig_len' = orig_len
  BY DEF DryRun
<1>2. in_data \in DOMAIN known' /\ known'[in_data]
  BY DEF DryRun
<1> QED
  BY <1>1, <1>2 DEF TminInv, DeleteStep, in_len

LEMMA NormalizeKeeps == TminInv /\ NormalizeBlock => TminInv'
<1> SUFFICES ASSUME TminInv, NormalizeBlock PROVE TminInv'
  OBVIOUS
<1> DEFINE B == (pos + 1)..(pos + Smaller(block, in_len - pos))
<1> DEFINE z == [i \in DOMAIN in_data |-> IF i \in B THEN 0 ELSE in_data[i]]
<1>1. in_data \in Seq(Byte)
  BY DEF TminInv
<1>2. z \in [DOMAIN in_data -> Byte]
  <2> HIDE DEF B
  <2> QED
    BY <1>1, ZeroOrByte
<1>3. PICK t \in [DOMAIN in_data -> Byte] : t = z
  BY <1>2
<1>4. Trial(z) \/ NoTrial
  BY DEF NormalizeBlock, Zeroed
<1>5. stage = "normalize" /\ UNCHANGED <<stage, orig_len>>
  BY DEF NormalizeBlock
<1> HIDE DEF z
<1>6. Trial(t) \/ NoTrial
  BY <1>3, <1>4
<1> QED
  BY <1>5, <1>6, StageTrial

LEMMA StartPassKeeps == TminInv /\ stage \notin {"dryRun", "fatal"} /\ StartPass => TminInv'
<1> SUFFICES ASSUME TminInv, stage \notin {"dryRun", "fatal"}, StartPass PROVE TminInv'
  OBVIOUS
<1>1. in_len \in Nat
  BY LenNat DEF TminInv
<1>2. in_len \div TRIM_START_STEPS \in Nat
  <2>1. TRIM_START_STEPS \in Nat \ {0}
    BY TminAssumption
  <2> QED
    BY <1>1, <2>1, DivNat
<1>3. block' \in Nat \ {0}
  BY <1>2, NextP2Positive DEF StartPass
<1>4. DeleteStep'
  <2>1. pos' = 0 /\ prev_del' = TRUE /\ in_data' = in_data
    BY DEF StartPass
  <2>2. ASSUME NEW i \in DOMAIN in_data, i <= 0 PROVE FALSE
    <3>1. DOMAIN in_data = 1..Len(in_data) /\ Len(in_data) \in Nat
      BY LenProperties DEF TminInv
    <3> QED
      BY <2>2, <3>1
  <2> QED
    BY <1>3, <2>1, <2>2 DEF DeleteStep
<1> QED
  BY <1>4 DEF StartPass, TminInv, in_len

LEMMA EndNormalizeKeeps == TminInv /\ EndNormalize => TminInv'
  BY StartPassKeeps DEF EndNormalize

(* What is skipped is the file with the byte before left out, which was    *)
(* refused.                                                                *)
LEMMA SameWithout ==
  ASSUME in_data \in Seq(Byte), NEW i \in 1..(in_len - 1), in_data[i] = in_data[i + 1]
  PROVE  WithoutByte(i) = WithoutByte(i + 1)
<1> DEFINE n == Len(in_data)
<1>1. n \in Nat /\ \A j \in 1..n : in_data[j] \in Byte
  BY LenProperties, ElementOfSeq
<1>2. i \in Nat /\ i >= 1 /\ i + 1 <= n
  BY <1>1 DEF in_len
<1> DEFINE a == SubSeq(in_data, 1, i - 1)
<1> DEFINE b == SubSeq(in_data, i + 1, n)
<1> DEFINE c == SubSeq(in_data, 1, i)
<1> DEFINE d == SubSeq(in_data, i + 2, n)
<1>3. a \in Seq(Byte) /\ Len(a) = i - 1 /\ \A j \in 1..(i - 1) : a[j] = in_data[j]
  <2>1. \A j \in 1..(i - 1) : in_data[j] \in Byte
    BY <1>1, <1>2
  <2> QED
    BY <1>1, <1>2, <2>1, SubSeqProperties
<1>4. b \in Seq(Byte) /\ Len(b) = n - i /\ \A j \in 1..(n - i) : b[j] = in_data[i + j]
  <2>1. \A j \in (i + 1)..n : in_data[j] \in Byte
    BY <1>1, <1>2
  <2> QED
    BY <1>1, <1>2, <2>1, SubSeqProperties
<1>5. c \in Seq(Byte) /\ Len(c) = i /\ \A j \in 1..i : c[j] = in_data[j]
  <2>1. \A j \in 1..i : in_data[j] \in Byte
    BY <1>1, <1>2
  <2> QED
    BY <1>1, <1>2, <2>1, SubSeqProperties
<1>6. d \in Seq(Byte) /\ Len(d) = n - i - 1 /\ \A j \in 1..(n - i - 1) : d[j] = in_data[i + 1 + j]
  <2>1. \A j \in (i + 2)..n : in_data[j] \in Byte
    BY <1>1, <1>2
  <2>2. /\ d \in Seq(Byte)
        /\ Len(d) = IF i + 2 <= n THEN n - (i + 2) + 1 ELSE 0
        /\ \A j \in 1..(n - (i + 2) + 1) : d[j] = in_data[(i + 2) + j - 1]
    BY <1>1, <1>2, <2>1, SubSeqProperties
  <2> QED
    BY <1>1, <1>2, <2>2
<1>7. WithoutByte(i) = a \o b
  BY DEF WithoutByte, in_len
<1>8. WithoutByte(i + 1) = c \o d
  <2>1. (i + 1) - 1 = i /\ (i + 1) + 1 = i + 2
    BY <1>2
  <2> QED
    BY <2>1 DEF WithoutByte, in_len
<1> HIDE DEF a, b, c, d, n
<1>9. /\ a \o b \in Seq(Byte) /\ Len(a \o b) = n - 1
      /\ \A j \in 1..(n - 1) : (a \o b)[j] = IF j <= i - 1 THEN a[j] ELSE b[j - (i - 1)]
  <2>1. Len(a) + Len(b) = n - 1
    BY <1>1, <1>2, <1>3, <1>4
  <2>2. /\ a \o b \in Seq(Byte) /\ Len(a \o b) = Len(a) + Len(b)
        /\ \A k \in 1..(Len(a) + Len(b)) : (a \o b)[k] = IF k <= Len(a) THEN a[k] ELSE b[k - Len(a)]
    BY <1>3, <1>4, ConcatProperties
  <2> QED
    BY <1>3, <1>4, <2>1, <2>2
<1>10. /\ c \o d \in Seq(Byte) /\ Len(c \o d) = n - 1
       /\ \A j \in 1..(n - 1) : (c \o d)[j] = IF j <= i THEN c[j] ELSE d[j - i]
  <2>1. Len(c) + Len(d) = n - 1
    BY <1>1, <1>2, <1>5, <1>6
  <2>2. /\ c \o d \in Seq(Byte) /\ Len(c \o d) = Len(c) + Len(d)
        /\ \A k \in 1..(Len(c) + Len(d)) : (c \o d)[k] = IF k <= Len(c) THEN c[k] ELSE d[k - Len(c)]
    BY <1>5, <1>6, ConcatProperties, ZenonT(60)
  <2> QED
    BY <1>5, <1>6, <2>1, <2>2
<1>11. ASSUME NEW j \in 1..(n - 1) PROVE (a \o b)[j] = (c \o d)[j]
  <2>1. j \in Nat /\ j >= 1 /\ j <= n - 1
    BY <1>1
  <2>2. (a \o b)[j] = (IF j <= i - 1 THEN a[j] ELSE b[j - (i - 1)])
    BY <1>9
  <2>3. (c \o d)[j] = (IF j <= i THEN c[j] ELSE d[j - i])
    BY <1>10
  <2>4. CASE j < i
    <3>1. a[j] = in_data[j] /\ c[j] = in_data[j]
      BY <1>2, <1>3, <1>5, <2>1, <2>4
    <3> QED
      BY <1>2, <2>1, <2>2, <2>3, <2>4, <3>1
  <2>5. CASE j = i
    <3>1. b[1] = in_data[i + 1] /\ c[i] = in_data[i]
      BY <1>1, <1>2, <1>4, <1>5
    <3>2. j - (i - 1) = 1 /\ ~(j <= i - 1) /\ j <= i
      BY <1>2, <2>1, <2>5
    <3> QED
      BY <2>2, <2>3, <2>5, <3>1, <3>2
  <2>6. CASE j > i
    <3>1. j - (i - 1) \in 1..(n - i) /\ j - i \in 1..(n - i - 1)
      BY <1>1, <1>2, <2>1, <2>6
    <3>2. b[j - (i - 1)] = in_data[i + (j - (i - 1))] /\ d[j - i] = in_data[i + 1 + (j - i)]
      BY <1>4, <1>6, <3>1
    <3>3. i + (j - (i - 1)) = j + 1 /\ i + 1 + (j - i) = j + 1 /\ ~(j <= i - 1) /\ ~(j <= i)
      BY <1>2, <2>1, <2>6
    <3> QED
      BY <2>2, <2>3, <3>2, <3>3
  <2>7. j < i \/ j = i \/ j > i
    BY <1>2, <2>1
  <2> QED
    BY <2>4, <2>5, <2>6, <2>7
<1> QED
  BY <1>7, <1>8, <1>9, <1>10, <1>11, SeqEqual

LEMMA SkippedSame ==
  ASSUME in_data \in Seq(Byte), pos \in Nat, pos >= 1, pos < in_len, block = 1, SameAsPrevious
  PROVE  in_data[pos] = in_data[pos + 1]
<1> DEFINE a == SubSeq(in_data, pos, pos)
<1> DEFINE b == SubSeq(in_data, pos + 1, pos + 1)
<1>1. in_len \in Nat /\ \A i \in 1..in_len : in_data[i] \in Byte
  BY LenNat, ElementOfSeq DEF in_len
<1>2. a = b
  <2>1. pos - block + 1 = pos
    OBVIOUS
  <2> QED
    BY <2>1 DEF SameAsPrevious
<1>3. \A i \in 1..(pos - pos + 1) : a[i] = in_data[pos + i - 1]
  <2>1. \A i \in pos..pos : in_data[i] \in Byte
    BY <1>1
  <2> QED
    BY <2>1, SubSeqProperties
<1>4. \A i \in 1..((pos + 1) - (pos + 1) + 1) : b[i] = in_data[(pos + 1) + i - 1]
  <2>1. \A i \in (pos + 1)..(pos + 1) : in_data[i] \in Byte
    BY <1>1
  <2> QED
    BY <2>1, SubSeqProperties
<1> HIDE DEF a, b
<1>5. a[1] = in_data[pos]
  <2>1. 1 \in 1..(pos - pos + 1) /\ pos + 1 - 1 = pos
    OBVIOUS
  <2> QED
    BY <1>3, <2>1
<1>6. b[1] = in_data[pos + 1]
  <2>1. 1 \in 1..((pos + 1) - (pos + 1) + 1) /\ (pos + 1) + 1 - 1 = pos + 1
    OBVIOUS
  <2> QED
    BY <1>4, <2>1
<1> QED
  BY <1>2, <1>5, <1>6

LEMMA SkipBlockKeeps == TminInv /\ SkipBlock => TminInv'
<1> SUFFICES ASSUME TminInv, SkipBlock PROVE TminInv'
  OBVIOUS
<1>1. /\ stage = "delete" /\ pos < in_len /\ ~prev_del /\ SameAsPrevious
      /\ pos' = pos + block
      /\ UNCHANGED <<stage, in_data, block, prev_del, changed_any, known, orig_len>>
  BY DEF SkipBlock, MaySkip
<1>2. /\ in_data \in Seq(Byte) /\ pos \in Nat /\ block \in Nat \ {0} /\ block <= pos
      /\ block = 1 /\ ~changed_any => \A i \in DOMAIN in_data : i <= pos => Refused(WithoutByte(i))
  BY <1>1 DEF TminInv, DeleteStep
<1>3. ASSUME block = 1, ~changed_any, NEW i \in DOMAIN in_data, i <= pos + 1
      PROVE Refused(WithoutByte(i))
  <2>1. in_len \in Nat /\ DOMAIN in_data = 1..in_len
    BY <1>2, LenProperties DEF in_len
  <2>2. pos >= 1 /\ pos \in 1..(in_len - 1) /\ pos \in DOMAIN in_data
    BY <1>1, <1>2, <1>3, <2>1
  <2>3. Refused(WithoutByte(pos))
    BY <1>2, <1>3, <2>2
  <2>4. in_data[pos] = in_data[pos + 1]
    BY <1>1, <1>2, <1>3, <2>2, SkippedSame
  <2>5. WithoutByte(pos) = WithoutByte(pos + 1)
    BY <1>2, <2>2, <2>4, SameWithout
  <2>6. CASE i <= pos
    BY <1>2, <1>3, <2>6
  <2>7. CASE i = pos + 1
    BY <2>3, <2>5, <2>7
  <2>8. i <= pos \/ i = pos + 1
    BY <1>2, <1>3, <2>1
  <2> QED
    BY <2>6, <2>7, <2>8
<1>4. DeleteStep'
  <2>1. pos' \in Nat /\ block' \in Nat \ {0} /\ block' <= pos'
    BY <1>1, <1>2
  <2>2. ASSUME block' = 1, ~changed_any', NEW i \in DOMAIN in_data', i <= pos'
        PROVE Refused(WithoutByte(i))'
    <3>1. Refused(WithoutByte(i))
      BY <1>1, <1>3, <2>2
    <3> QED
      BY <1>1, <3>1 DEF Refused, WithoutByte, in_len
  <2> QED
    BY <2>1, <2>2 DEF DeleteStep
<1> QED
  BY <1>1, <1>4 DEF TminInv, in_len

LEMMA ShortenedFacts ==
  ASSUME in_data \in Seq(Byte), pos \in Nat, pos < in_len, block \in Nat \ {0}
  PROVE  /\ Shortened \in Seq(Byte) /\ Len(Shortened) < in_len
         /\ block = 1 => Shortened = WithoutByte(pos + 1)
<1> DEFINE a == SubSeq(in_data, 1, pos)
<1> DEFINE b == SubSeq(in_data, pos + block + 1, in_len)
<1>1. in_len \in Nat /\ \A i \in 1..in_len : in_data[i] \in Byte
  BY LenNat, ElementOfSeq DEF in_len
<1>2. a \in Seq(Byte) /\ Len(a) = pos
  <2>1. \A i \in 1..pos : in_data[i] \in Byte
    BY <1>1
  <2>2. a \in Seq(Byte) /\ Len(a) = IF 1 <= pos THEN pos - 1 + 1 ELSE 0
    BY <2>1, SubSeqProperties
  <2> QED
    BY <2>2
<1>3. b \in Seq(Byte) /\ Len(b) \in Nat /\ Len(b) < in_len - pos
  <2>1. \A i \in (pos + block + 1)..in_len : in_data[i] \in Byte
    BY <1>1
  <2>2. b \in Seq(Byte) /\ Len(b) = IF pos + block + 1 <= in_len THEN in_len - (pos + block + 1) + 1 ELSE 0
    BY <1>1, <2>1, SubSeqProperties
  <2> HIDE DEF b
  <2> QED
    BY <1>1, <2>2
<1>4. Shortened = a \o b
  BY DEF Shortened
<1>5. ASSUME block = 1 PROVE Shortened = WithoutByte(pos + 1)
  <2>1. (pos + 1) - 1 = pos /\ pos + block + 1 = (pos + 1) + 1
    BY <1>5
  <2> QED
    BY <2>1 DEF Shortened, WithoutByte
<1> HIDE DEF a, b
<1>6. a \o b \in Seq(Byte) /\ Len(a \o b) = Len(a) + Len(b)
  BY <1>2, <1>3, ConcatProperties
<1> QED
  BY <1>1, <1>2, <1>3, <1>4, <1>5, <1>6

LEMMA DeleteBlockKeeps == TminInv /\ DeleteBlock => TminInv'
<1> SUFFICES ASSUME TminInv, DeleteBlock PROVE TminInv'
  OBVIOUS
<1>1. /\ stage = "delete" /\ pos < in_len /\ Trial(Shortened)
      /\ prev_del' = (in_data' # in_data)
      /\ pos' = IF prev_del' THEN pos ELSE pos + block
      /\ UNCHANGED <<stage, block, orig_len>>
  BY DEF DeleteBlock
<1>2. /\ in_data \in Seq(Byte) /\ in_len \in Nat /\ orig_len \in Nat /\ in_len <= orig_len
      /\ pos \in Nat /\ block \in Nat \ {0}
      /\ block = 1 /\ ~changed_any => \A i \in DOMAIN in_data : i <= pos => Refused(WithoutByte(i))
  BY <1>1, LenNat DEF TminInv, DeleteStep
<1>3. PICK t : t = Shortened
  OBVIOUS
<1>4. t \in Seq(Byte) /\ Len(t) < in_len /\ Len(t) <= in_len /\ (block = 1 => t = WithoutByte(pos + 1))
  <2>1. t \in Seq(Byte) /\ Len(t) < in_len /\ (block = 1 => t = WithoutByte(pos + 1))
    BY <1>1, <1>2, <1>3, ShortenedFacts
  <2>2. Len(t) \in Nat
    BY <2>1, LenProperties
  <2> QED
    BY <1>2, <2>1, <2>2
<1>5. Trial(t)
  BY <1>1, <1>3
<1>6. /\ in_data' \in Seq(Byte) /\ in_len' <= in_len
      /\ in_data' \in DOMAIN known' /\ known'[in_data']
      /\ \A u : Refused(u) => Refused(u)'
      /\ \/ in_data' = t /\ changed_any'
         \/ in_data' = in_data /\ (changed_any' => changed_any) /\ Refused(t)'
  <2>1. stage \notin {"dryRun", "fatal"}
    BY <1>1
  <2> QED
    BY <1>4, <1>5, <2>1, TrialFacts
<1>7. in_len' <= orig_len
  <2>1. in_len' \in Nat
    BY <1>6, LenProperties DEF in_len
  <2> QED
    BY <1>2, <1>6, <2>1
<1>8. DeleteStep'
  <2>1. CASE in_data' = t /\ changed_any'
    <3>1. in_data' # in_data
      BY <1>2, <1>4, <2>1 DEF in_len
    <3>2. prev_del' /\ pos' = pos
      BY <1>1, <3>1
    <3> QED
      BY <1>1, <1>2, <2>1, <3>2 DEF DeleteStep
  <2>2. CASE in_data' = in_data /\ (changed_any' => changed_any) /\ Refused(t)'
    <3>1. pos' = pos + block /\ pos' \in Nat /\ block' \in Nat \ {0} /\ block' <= pos'
      <4>1. prev_del' = FALSE
        BY <1>1, <2>2
      <4> QED
        BY <1>1, <1>2, <4>1
    <3>2. ASSUME block' = 1, ~changed_any', NEW i \in DOMAIN in_data', i <= pos'
          PROVE Refused(WithoutByte(i))'
      <4>1. ~changed_any
        BY <1>5, <3>2 DEF Trial
      <4>2. block = 1 /\ i \in DOMAIN in_data /\ i <= pos + 1
        BY <1>1, <2>2, <3>1, <3>2
      <4>3. WithoutByte(i)' = WithoutByte(i)
        BY <2>2 DEF WithoutByte, in_len
      <4>4. i <= pos \/ i = pos + 1
        <5>1. i \in Nat
          BY <1>2, <4>2, LenProperties
        <5> QED
          BY <1>2, <4>2, <5>1
      <4>5. CASE i <= pos
        <5>1. Refused(WithoutByte(i))
          BY <1>2, <4>1, <4>2, <4>5
        <5> QED
          BY <1>6, <4>3, <5>1 DEF Refused
      <4>6. CASE i = pos + 1
        BY <1>4, <2>2, <4>2, <4>3, <4>6 DEF Refused
      <4> QED
        BY <4>4, <4>5, <4>6
    <3> QED
      BY <3>1, <3>2 DEF DeleteStep
  <2> QED
    BY <1>6, <2>1, <2>2
<1> QED
  BY <1>1, <1>2, <1>6, <1>7, <1>8 DEF TminInv

LEMMA EndDeleteKeeps == TminInv /\ EndDelete => TminInv'
<1> SUFFICES ASSUME TminInv, EndDelete PROVE TminInv'
  OBVIOUS
<1>1. stage = "delete" /\ pos >= in_len /\ pos' = 0 /\ UNCHANGED <<in_data, changed_any, known, orig_len>>
  BY DEF EndDelete
<1>2. /\ in_data \in Seq(Byte) /\ in_len \in Nat /\ pos \in Nat /\ block \in Nat \ {0}
      /\ DOMAIN in_data = 1..in_len
  BY <1>1, LenNat, LenProperties DEF TminInv, DeleteStep, in_len
<1>3. CASE block > 1 /\ in_len >= 1
  <2>1. stage' = stage /\ prev_del' = TRUE /\ block' \in Nat \ {0}
    BY <1>2, <1>3 DEF EndDelete
  <2>2. DeleteStep'
    BY <1>1, <1>2, <2>1 DEF DeleteStep
  <2> QED
    BY <1>1, <2>1, <2>2 DEF TminInv, in_len
<1>4. CASE ~(block > 1 /\ in_len >= 1)
  <2>1. stage' \in {"done", "symbols"} /\ (stage' = "done" => ~changed_any)
    BY <1>4 DEF EndDelete
  <2>2. ~changed_any => AllRefused
    <3> SUFFICES ASSUME ~changed_any, NEW i \in DOMAIN in_data PROVE Refused(WithoutByte(i))
      BY DEF AllRefused
    <3>1. block = 1 /\ i <= pos
      BY <1>1, <1>2, <1>4
    <3> QED
      BY <1>1, <3>1 DEF TminInv, DeleteStep
  <2>3. ~changed_any' => AllRefused'
    BY <1>1, <2>2 DEF AllRefused, Refused, WithoutByte, in_len
  <2>4. stage' = "done" => AllRefused'
    BY <1>1, <2>1, <2>3
  <2>5. in_data' \in DOMAIN known' /\ known'[in_data']
    BY <1>1 DEF TminInv
  <2>6. in_data' \in Seq(Byte) /\ orig_len' \in Nat /\ in_len' <= orig_len'
    BY <1>1 DEF TminInv, in_len
  <2> QED
    BY <2>1, <2>3, <2>4, <2>5, <2>6 DEF TminInv, DeleteStep
<1> QED
  BY <1>3, <1>4

LEMMA ReplaceSymbolKeeps == TminInv /\ ReplaceSymbol => TminInv'
<1> SUFFICES ASSUME TminInv, ReplaceSymbol PROVE TminInv'
  OBVIOUS
<1>1. PICK c \in Unseen : Trial([i \in DOMAIN in_data |-> IF in_data[i] = c THEN 0 ELSE in_data[i]])
  BY DEF ReplaceSymbol, Zeroed
<1> DEFINE z == [i \in DOMAIN in_data |-> IF in_data[i] = c THEN 0 ELSE in_data[i]]
<1>2. Trial(z)
  BY <1>1
<1>3. z \in [DOMAIN in_data -> Byte]
  BY ZeroOrByte DEF TminInv
<1>4. PICK t \in [DOMAIN in_data -> Byte] : t = z
  BY <1>3
<1> HIDE DEF z
<1>5. stage = "symbols" /\ UNCHANGED <<stage, orig_len>>
  BY DEF ReplaceSymbol
<1>6. Trial(t)
  BY <1>2, <1>4
<1> QED
  BY <1>5, <1>6, StageTrial

LEMMA EndSymbolsKeeps == TminInv /\ EndSymbols => TminInv'
  BY DEF EndSymbols, TminInv, DeleteStep, AllRefused, Refused, WithoutByte, in_len

LEMMA ReplaceCharacterKeeps == TminInv /\ ReplaceCharacter => TminInv'
<1> SUFFICES ASSUME TminInv, ReplaceCharacter PROVE TminInv'
  OBVIOUS
<1> DEFINE z == [i \in DOMAIN in_data |-> IF i = pos + 1 THEN 0 ELSE in_data[i]]
<1>1. Trial(z) \/ NoTrial
  BY DEF ReplaceCharacter, Zeroed
<1>2. z \in [DOMAIN in_data -> Byte]
  BY ZeroOrByte DEF TminInv
<1>3. PICK t \in [DOMAIN in_data -> Byte] : t = z
  BY <1>2
<1> HIDE DEF z
<1>4. stage = "characters" /\ UNCHANGED <<stage, orig_len>>
  BY DEF ReplaceCharacter
<1>5. Trial(t) \/ NoTrial
  BY <1>1, <1>3
<1> QED
  BY <1>4, <1>5, StageTrial

LEMMA EndCharactersKeeps == TminInv /\ EndCharacters => TminInv'
<1> SUFFICES ASSUME TminInv, EndCharacters PROVE TminInv'
  OBVIOUS
<1>1. CASE changed_any
  <2>1. StartPass /\ stage = "characters"
    BY <1>1 DEF EndCharacters, PassAgain
  <2> QED
    BY <2>1, StartPassKeeps
<1>2. CASE ~changed_any
  <2>1. /\ stage = "characters" /\ stage' = "done"
        /\ UNCHANGED <<in_data, known, orig_len>>
    BY <1>2 DEF EndCharacters, PassAgain
  <2>2. AllRefused
    BY <1>2, <2>1 DEF TminInv
  <2>3. AllRefused'
    BY <2>1, <2>2 DEF AllRefused, Refused, WithoutByte, in_len
  <2> QED
    BY <2>1, <2>3 DEF TminInv, DeleteStep, in_len
<1> QED
  BY <1>1, <1>2

LEMMA TminStep == TminInv /\ [TminNext]_tminVars => TminInv'
<1> SUFFICES ASSUME TminInv, [TminNext]_tminVars PROVE TminInv'
  OBVIOUS
<1>1. CASE UNCHANGED tminVars
  BY <1>1 DEF tminVars, TminInv, DeleteStep, AllRefused, Refused, WithoutByte, in_len
<1>2. CASE TminNext
  BY <1>2, DryRunKeeps, NormalizeKeeps, EndNormalizeKeeps, SkipBlockKeeps, DeleteBlockKeeps, EndDeleteKeeps,
     ReplaceSymbolKeeps, EndSymbolsKeeps, ReplaceCharacterKeeps, EndCharactersKeeps DEF TminNext
<1> QED
  BY <1>1, <1>2
-----------------------------------------------------------------------------
(* minimize (afl-tmin.c:388-624) ends with a file that still does what the *)
(* given one did, is no longer, and of which every file with one byte less *)
(* was run and refused: for files of any length and any deterministic      *)
(* target.  Both ways out of the loop over the passes, the blocks that are *)
(* skipped because they equal the one before, and the halving of the block *)
(* length down to 1 are part of the argument.                              *)
THEOREM MinimizesToTheByte == TminSpec => []TminMinimal
<1>1. TminInv => TminMinimal
  BY DEF TminInv, TminMinimal, AllRefused, Refused
<1> QED
  BY InitTmin, TminStep, <1>1, PTL DEF TminSpec

(***************************************************************************)
(* The queue of another fuzzer (AflSync.tla).                              *)
(***************************************************************************)
FileStates == {"none", "empty", "full", "big"}

SyncTypeOK ==
  /\ file \in [Ids -> FileStates] /\ created \in Nat /\ created <= MaxFiles
  /\ replacing \in Ids \cup {-1}
  /\ synced \in Nat /\ scan \in BOOLEAN /\ min_accept \in Nat /\ next_min_accept \in Nat
  /\ up \in BOOLEAN /\ listed \in SUBSET Ids /\ owed \in SUBSET Ids
  /\ looked \in SUBSET Ids /\ disturbed \in SUBSET Ids /\ oversized \in SUBSET Ids

(* The numbers are given in the order of creation, and files that are too    *)
(* large are known.                                                         *)
NumberedInOrder ==
  /\ \A i \in Ids : file[i] # "none" \/ i \in listed => i < created
  /\ replacing < created
  /\ synced <= created
  /\ scan => min_accept = synced /\ next_min_accept <= created
  /\ \A i \in Ids : file[i] = "big" => i \in oversized

(* A file that this scan has not dealt with lies there, whole and untouched, *)
(* and readdir still owes it.                                               *)
Pending ==
  scan => \A i \in Ids :
    min_accept <= i /\ i < created =>
      i \in looked \cup disturbed \cup oversized \/ (i \in owed /\ file[i] = "full")

OnlyWhileUp == scan => up

SyncInv == SyncTypeOK /\ NumberedInOrder /\ Pending /\ OnlyWhileUp /\ SyncedWasRun

LEMMA InitSync == ASSUME MaxFiles \in Nat, SyncInit PROVE SyncInv
<1>1. file \in [Ids -> FileStates] /\ \A i \in Ids : file[i] = "none"
  BY DEF SyncInit, FileStates
<1>2. replacing \in Ids \cup {-1}
  BY DEF SyncInit
<1>3. SyncTypeOK
  <2>1. 0 <= MaxFiles /\ created \in Nat /\ created <= MaxFiles /\ synced \in Nat
    BY DEF SyncInit
  <2>2. scan \in BOOLEAN /\ up \in BOOLEAN
    BY DEF SyncInit
  <2>3. min_accept \in Nat /\ next_min_accept \in Nat
    BY DEF SyncInit
  <2>4. /\ listed \in SUBSET Ids /\ owed \in SUBSET Ids /\ looked \in SUBSET Ids /\ disturbed \in SUBSET Ids
        /\ oversized \in SUBSET Ids
    BY DEF SyncInit
  <2> QED
    BY <1>1, <1>2, <2>1, <2>2, <2>3, <2>4 DEF SyncTypeOK
<1>4. NumberedInOrder /\ Pending /\ OnlyWhileUp
  BY <1>1 DEF SyncInit, NumberedInOrder, Pending, OnlyWhileUp
<1>5. SyncedWasRun
  BY DEF SyncInit, SyncedWasRun, Ids
<1> QED
  BY <1>3, <1>4, <1>5 DEF SyncInv

(* A step of the other fuzzer that turns file i into to. *)
LEMMA ChangeKeeps ==
  ASSUME MaxFiles \in Nat, SyncInv,
         NEW i \in Ids, NEW to \in FileStates, i <= created,
         Change(i, to), ReaderSame,
         created' \in Nat, created' <= MaxFiles, created <= created', i < created',
         created' <= created \/ (created' = created + 1 /\ i = created),
         replacing' \in Ids \cup {-1}, replacing' < created'
  PROVE  SyncInv'
<1> USE DEF Change, ReaderSame, Ids
<1>1. SyncTypeOK'
  BY DEF SyncInv, SyncTypeOK
<1>2. file'[i] = to /\ \A j \in Ids : j # i => file'[j] = file[j]
  BY DEF SyncInv, SyncTypeOK
<1>3. NumberedInOrder'
  BY <1>2 DEF SyncInv, SyncTypeOK, NumberedInOrder
<1>4. Pending'
  <2> SUFFICES ASSUME scan, NEW j \in Ids, min_accept <= j, j < created'
               PROVE  j \in looked \cup disturbed' \cup oversized' \/ (j \in owed' /\ file'[j] = "full")
    BY DEF Pending
  <2>1. CASE j = i
    BY <2>1 DEF SyncInv, SyncTypeOK
  <2>2. CASE j # i
    <3>1. j < created
      BY <2>2 DEF SyncInv, SyncTypeOK
    <3>2. j \in looked \cup disturbed \cup oversized \/ (j \in owed /\ file[j] = "full")
      BY <3>1 DEF SyncInv, Pending
    <3> QED
      BY <1>2, <2>2, <3>2 DEF SyncInv, SyncTypeOK
  <2> QED
    BY <2>1, <2>2
<1>5. SyncedWasRun' /\ OnlyWhileUp'
  BY DEF SyncInv, SyncedWasRun, OnlyWhileUp
<1> QED
  BY <1>1, <1>3, <1>4, <1>5 DEF SyncInv

LEMMA WriterKeeps ==
  ASSUME MaxFiles \in Nat, SyncInv, CreateFile \/ WriteFile \/ UnlinkFile \/ RecreateFile
  PROVE  SyncInv'
<1>1. CASE CreateFile
  <2>1. created \in Ids /\ created' = created + 1 /\ replacing' = replacing
    BY <1>1 DEF CreateFile, SyncInv, SyncTypeOK, Ids
  <2>2. replacing' < created' /\ created' <= MaxFiles /\ replacing' \in Ids \cup {-1}
    BY <1>1, <2>1 DEF CreateFile, SyncInv, SyncTypeOK, NumberedInOrder, Ids
  <2>3. Change(created, "empty") /\ ReaderSame
    BY <1>1 DEF CreateFile
  <2>4. created \in Nat /\ "empty" \in FileStates
    BY DEF SyncInv, SyncTypeOK, FileStates
  <2> QED
    BY <2>1, <2>2, <2>3, <2>4, ChangeKeeps
<1>2. CASE WriteFile
  <2>1. PICK i \in Ids, to \in {"full", "big"} : file[i] = "empty" /\ Change(i, to)
    BY <1>2 DEF WriteFile
  <2>2. /\ created' = created /\ replacing' = replacing /\ ReaderSame
        /\ i < created /\ i \in Nat /\ created \in Nat /\ to \in FileStates
        /\ replacing < created /\ created <= MaxFiles /\ replacing \in Ids \cup {-1}
    BY <1>2, <2>1 DEF WriteFile, SyncInv, SyncTypeOK, NumberedInOrder, Ids, FileStates
  <2> QED
    BY <2>1, <2>2, ChangeKeeps
<1>3. CASE UnlinkFile
  <2>1. PICK i \in Ids : file[i] = "full" /\ Change(i, "none") /\ replacing' = i
    BY <1>3 DEF UnlinkFile
  <2>2. /\ created' = created /\ ReaderSame
        /\ i < created /\ i \in Nat /\ created \in Nat /\ "none" \in FileStates /\ created <= MaxFiles
    BY <1>3, <2>1 DEF UnlinkFile, SyncInv, SyncTypeOK, NumberedInOrder, Ids, FileStates
  <2> QED
    BY <2>1, <2>2, ChangeKeeps
<1>4. CASE RecreateFile
  <2>1. /\ replacing \in Ids /\ Change(replacing, "empty") /\ ReaderSame
        /\ created' = created /\ replacing' = -1
    BY <1>4 DEF RecreateFile, SyncInv, SyncTypeOK
  <2>2. replacing < created /\ created \in Nat /\ "empty" \in FileStates /\ created <= MaxFiles /\ -1 < created
        /\ replacing \in Nat
    BY <2>1 DEF SyncInv, SyncTypeOK, NumberedInOrder, FileStates, Ids
  <2> QED
    BY <2>1, <2>2, ChangeKeeps
<1> QED
  BY <1>1, <1>2, <1>3, <1>4

LEMMA OpenKeeps == ASSUME MaxFiles \in Nat, SyncInv, OpenQueue PROVE SyncInv'
<1> USE DEF OpenQueue, WriterSame
<1>1. SyncTypeOK'
  <2>1. {i \in 0..(created - 1) : file[i] \notin {"full", "big"}} \subseteq Ids
    BY DEF SyncInv, SyncTypeOK, Ids
  <2>2. owed' \in SUBSET Ids /\ disturbed' \in SUBSET Ids /\ listed' \in SUBSET Ids
    BY <2>1 DEF There, SyncInv, SyncTypeOK
  <2>3. scan' \in BOOLEAN /\ min_accept' \in Nat /\ next_min_accept' \in Nat
    BY DEF SyncInv, SyncTypeOK
  <2> QED
    BY <2>2, <2>3 DEF SyncInv, SyncTypeOK
<1>2. NumberedInOrder'
  BY DEF SyncInv, SyncTypeOK, NumberedInOrder, There
<1>3. Pending'
  <2> SUFFICES ASSUME NEW j \in Ids, j < created
               PROVE  j \in looked \cup disturbed' \cup oversized \/ (j \in owed' /\ file[j] = "full")
    BY DEF Pending, SyncInv, SyncTypeOK
  <2>1. j \in 0..(created - 1)
    BY DEF SyncInv, SyncTypeOK, Ids
  <2>2. file[j] = "big" => j \in oversized
    BY DEF SyncInv, NumberedInOrder
  <2> QED
    BY <2>1, <2>2 DEF There
<1>4. SyncedWasRun' /\ OnlyWhileUp'
  BY DEF SyncInv, SyncedWasRun, OnlyWhileUp
<1> QED
  BY <1>1, <1>2, <1>3, <1>4 DEF SyncInv

LEMMA ReadKeeps == ASSUME MaxFiles \in Nat, SyncInv, ReadName PROVE SyncInv'
<1>1. PICK i \in listed :
         /\ listed' = listed \ {i} /\ owed' = owed \ {i}
         /\ next_min_accept' = IF i >= min_accept /\ i >= next_min_accept THEN i + 1 ELSE next_min_accept
         /\ looked' = IF i >= min_accept /\ file[i] = "full" THEN looked \cup {i} ELSE looked
  BY DEF ReadName
<1>2. /\ scan /\ file' = file /\ created' = created /\ replacing' = replacing /\ synced' = synced
      /\ scan' = scan /\ min_accept' = min_accept /\ disturbed' = disturbed /\ oversized' = oversized /\ up' = up
  BY DEF ReadName, WriterSame
<1>3. i \in Ids /\ i \in Nat /\ i < created
  BY <1>1 DEF SyncInv, SyncTypeOK, NumberedInOrder, Ids
<1>4. SyncTypeOK'
  BY <1>1, <1>2, <1>3 DEF SyncInv, SyncTypeOK
<1>5. NumberedInOrder'
  BY <1>1, <1>2, <1>3 DEF SyncInv, SyncTypeOK, NumberedInOrder
<1>6. Pending'
  <2> SUFFICES ASSUME NEW j \in Ids, min_accept <= j, j < created
               PROVE  j \in looked' \cup disturbed \cup oversized \/ (j \in owed' /\ file[j] = "full")
    BY <1>2 DEF Pending
  <2>1. j \in looked \cup disturbed \cup oversized \/ (j \in owed /\ file[j] = "full")
    BY <1>2 DEF SyncInv, Pending
  <2>2. j \in Nat
    BY DEF Ids
  <2> QED
    BY <1>1, <1>3, <2>1, <2>2 DEF SyncInv, SyncTypeOK
<1>7. SyncedWasRun' /\ OnlyWhileUp'
  BY <1>1, <1>2 DEF SyncInv, SyncedWasRun, OnlyWhileUp
<1> QED
  BY <1>4, <1>5, <1>6, <1>7 DEF SyncInv

LEMMA StopKeeps == ASSUME MaxFiles \in Nat, SyncInv, StopFuzzer PROVE SyncInv'
<1> USE DEF StopFuzzer, WriterSame
<1>1. SyncTypeOK' /\ NumberedInOrder' /\ Pending' /\ OnlyWhileUp'
  BY DEF SyncInv, SyncTypeOK, NumberedInOrder, Pending, OnlyWhileUp
<1>2. SyncedWasRun'
  BY DEF SyncInv, SyncedWasRun
<1> QED
  BY <1>1, <1>2 DEF SyncInv

(* A session starts with .synced and the ghosts empty, outside of a scan. *)
LEMMA StartKeeps == ASSUME MaxFiles \in Nat, SyncInv, StartFuzzer PROVE SyncInv'
<1> USE DEF StartFuzzer, SyncedAtStart, WriterSame
<1>1. ~scan
  BY DEF SyncInv, OnlyWhileUp
<1>2. SyncTypeOK' /\ NumberedInOrder' /\ Pending' /\ OnlyWhileUp'
  BY <1>1 DEF SyncInv, SyncTypeOK, NumberedInOrder, Pending, OnlyWhileUp
<1>3. SyncedWasRun'
  BY DEF SyncedWasRun, Ids
<1> QED
  BY <1>2, <1>3 DEF SyncInv

(* At the end nothing is owed, so every file below the new mark was dealt    *)
(* with.                                                                    *)
LEMMA EndKeeps == ASSUME MaxFiles \in Nat, SyncInv, EndScan PROVE SyncInv'
<1> USE DEF EndScan, WriterSame
<1>1. SyncTypeOK' /\ NumberedInOrder' /\ Pending' /\ OnlyWhileUp'
  BY DEF SyncInv, SyncTypeOK, NumberedInOrder, Pending, OnlyWhileUp
<1>2. SyncedWasRun'
  <2> SUFFICES ASSUME NEW j \in Ids, j < next_min_accept PROVE j \in looked \cup disturbed \cup oversized
    BY DEF SyncedWasRun
  <2>1. j \in Nat /\ j < created
    BY DEF SyncInv, SyncTypeOK, NumberedInOrder, Ids
  <2>2. CASE j < min_accept
    BY <2>2 DEF SyncInv, NumberedInOrder, SyncedWasRun
  <2>3. CASE min_accept <= j
    BY <2>1, <2>3 DEF SyncInv, Pending
  <2> QED
    BY <2>1, <2>2, <2>3 DEF SyncInv, SyncTypeOK
<1> QED
  BY <1>1, <1>2 DEF SyncInv

LEMMA SyncStep == ASSUME MaxFiles \in Nat, SyncInv, [SyncNext]_syncVars PROVE SyncInv'
<1>1. CASE SyncNext
  BY <1>1, WriterKeeps, OpenKeeps, ReadKeeps, EndKeeps, StopKeeps, StartKeeps DEF SyncNext
<1>2. CASE UNCHANGED syncVars
  BY <1>2 DEF syncVars, SyncInv, SyncTypeOK, NumberedInOrder, Pending, OnlyWhileUp, SyncedWasRun
<1> QED
  BY <1>1, <1>2

(* What .synced says was seen has been run since the fuzzer was started, is  *)
(* too large, or was changed by the other fuzzer during a scan, however many *)
(* files there are and however the scans of sync_fuzzers, the writer, the    *)
(* signal and the restarts of the reader interleave.                         *)
THEOREM SyncedRun == ASSUME MaxFiles \in Nat PROVE SyncSpec => []SyncedWasRun
<1>1. SyncInit => SyncInv
  BY InitSync
<1>2. SyncInv /\ [SyncNext]_syncVars => SyncInv'
  BY SyncStep
<1>3. SyncInv => SyncedWasRun
  BY DEF SyncInv
<1> QED
  BY <1>1, <1>2, <1>3, PTL DEF SyncSpec
=============================================================================
