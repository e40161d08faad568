---------------------------- MODULE AflForkServer ----------------------------
(***************************************************************************)
(* How the fuzzer runs the compiler (afl-fuzz.c, afl-llvm-rt.o.c): a fork  *)
(* server inside the instrumented binary starts a child for every input,   *)
(* or continues the stopped child in persistent mode; without a server,    *)
(* and in afl-showmap, afl-tmin and afl-analyze, the program forks itself. *)
(* A timer kills a child that takes too long; a signal may stop everything *)
(* at any moment.                                                          *)
(*                                                                         *)
(* Runs are numbered, and the number of a run stands for its input and for *)
(* the marks that input leaves in the shared bitmap.                       *)
(***************************************************************************)
EXTENDS Integers, Sequences, FiniteSets

CONSTANTS Modes,     \* the tools: "untimed" is afl-showmap without -t, its default
          MaxRuns,   \* bound on the number of runs
          MaxPid     \* bound on the number of processes

ASSUME ForkAssumption ==
  /\ Modes \subseteq {"server", "persistent", "dumb", "showmap", "untimed", "tmin", "analyze"}
  /\ MaxRuns \in Nat /\ MaxPid \in Nat

VARIABLES mode,
          (* the fuzzer *)
          fz, run, child_pid, child_timed_out, prev_timed_out, stop_soon, timer, status, verdict,
          (* the fork server *)
          sv, server_child, child_stopped, was_killed, server_status,
          (* the pipes, the shared bitmap, the processes *)
          ctl_pipe, st_pipe, trace_bits, pstate, input,
          (* ghosts: how each input ended; the run in which the timer expired *)
          outcome, expired

fuzzerVars == <<fz, run, child_pid, child_timed_out, prev_timed_out, status, verdict>>
serverVars == <<sv, server_child, child_stopped, was_killed, server_status>>
processVars == <<pstate, input, outcome>>
forkVars == <<mode, fz, run, child_pid, child_timed_out, prev_timed_out, stop_soon, timer, status, verdict,
              sv, server_child, child_stopped, was_killed, server_status,
              ctl_pipe, st_pipe, trace_bits, pstate, input, outcome, expired>>

Runs == 1..MaxRuns
Pids == 1..MaxPid
Showmap == {"showmap", "untimed"}
Tools == Showmap \cup {"tmin", "analyze"}
HasServer == mode \in {"server", "persistent"}

NotForked == -1        \* child_pid before the first run
Startup == 0           \* marks of code before __AFL_LOOP
EXEC_FAIL_SIG == MaxRuns + 1

Alive == {"startup", "running", "stopped"}
Zombie == {"exited", "crashed", "killed"}
Killed(p) == IF p \in Pids /\ pstate[p] \in Alive THEN [pstate EXCEPT ![p] = "killed"] ELSE pstate

(* fork: the child works on the input of the present run. *)
Fresh(p) == pstate[p] = "none" /\ \A q \in Pids : pstate[q] = "none" => p <= q
Forked(p) ==
  /\ Fresh(p)
  /\ pstate' = [pstate EXCEPT ![p] = IF mode = "persistent" THEN "startup" ELSE "running"]
  /\ input' = [input EXCEPT ![p] = run]

ForkInit ==
  /\ mode \in Modes
  /\ fz = IF HasServer THEN "init" ELSE "idle"
  /\ run = 0 /\ verdict = "none" /\ status = "none"
  /\ child_pid = NotForked /\ child_timed_out = FALSE /\ prev_timed_out = FALSE
  /\ stop_soon = FALSE /\ timer = "off"
  /\ sv = "none" /\ server_child = 0 /\ child_stopped = FALSE /\ was_killed = FALSE
  /\ server_status = "none"
  /\ ctl_pipe = <<>> /\ st_pipe = <<>> /\ trace_bits = {}
  /\ pstate = [p \in Pids |-> "none"] /\ input = [p \in Pids |-> 0]
  /\ outcome = [r \in Runs |-> "open"] /\ expired = 0
-----------------------------------------------------------------------------
(*                      The fuzzer: init_forkserver                        *)

InitForkserver ==
  /\ fz = "init" /\ fz' = "handshake"
  /\ sv' = "hello"
  /\ timer' = "on"
  /\ UNCHANGED <<mode, run, child_pid, child_timed_out, prev_timed_out, stop_soon, status, verdict,
                 server_child, child_stopped, was_killed, server_status, ctl_pipe, st_pipe,
                 trace_bits, processVars, expired>>

ReadHello ==
  /\ fz = "handshake" /\ st_pipe # <<>>
  /\ st_pipe' = Tail(st_pipe) /\ fz' = "up"
  /\ UNCHANGED <<mode, run, child_pid, child_timed_out, prev_timed_out, stop_soon, timer, status, verdict,
                 serverVars, ctl_pipe, trace_bits, processVars, expired>>

(* The server ended without a word: the fuzzer says why and exits. *)
HandshakeFails ==
  /\ fz = "handshake" /\ st_pipe = <<>> /\ sv = "dead"
  /\ fz' = "fatal" /\ timer' = "off"
  /\ UNCHANGED <<mode, run, child_pid, child_timed_out, prev_timed_out, stop_soon, status, verdict,
                 serverVars, ctl_pipe, st_pipe, trace_bits, processVars, expired>>

ServerIsUp ==
  /\ fz = "up" /\ fz' = "idle" /\ timer' = "off"
  /\ UNCHANGED <<mode, run, child_pid, child_timed_out, prev_timed_out, stop_soon, status, verdict,
                 serverVars, ctl_pipe, st_pipe, trace_bits, processVars, expired>>
-----------------------------------------------------------------------------
(*                        The fuzzer: run_target                           *)

(* The number of the run stands for the input in the file. *)
write_to_testcase == run' = run + 1
(* The first lines of run_target, which afl-showmap calls once. *)
MoreRuns == run < MaxRuns /\ (mode \in Showmap => run = 0)
StartRun ==
  /\ fz = "idle" /\ ~stop_soon /\ MoreRuns
  /\ write_to_testcase /\ fz' = "request"
  /\ trace_bits' = {}
  /\ child_timed_out' = IF mode \in Tools THEN child_timed_out ELSE FALSE
  /\ UNCHANGED <<mode, child_pid, prev_timed_out, stop_soon, timer, status, verdict,
                 serverVars, ctl_pipe, st_pipe, processVars, expired>>

ForkTarget ==
  /\ fz = "request" /\ ~HasServer
  /\ \/ \E p \in Pids : Forked(p) /\ child_pid' = p /\ fz' = "arm"
     \/ fz' = "fatal" /\ UNCHANGED <<child_pid, pstate, input>>
  /\ UNCHANGED <<mode, run, child_timed_out, prev_timed_out, stop_soon, timer, status, verdict,
                 serverVars, ctl_pipe, st_pipe, trace_bits, outcome, expired>>

(* A pipe whose other end is closed: return 0 if a signal asked us to stop. *)
ServerGone ==
  /\ fz' = IF stop_soon THEN "idle" ELSE "fatal"
  /\ verdict' = "none"
  /\ UNCHANGED <<mode, run, child_pid, child_timed_out, prev_timed_out, stop_soon, timer, status,
                 serverVars, ctl_pipe, st_pipe, trace_bits, processVars, expired>>

RequestRun ==
  /\ fz = "request" /\ HasServer
  /\ IF sv = "dead" THEN ServerGone
     ELSE /\ ctl_pipe' = Append(ctl_pipe, prev_timed_out)
          /\ fz' = "readPid"
          /\ UNCHANGED <<mode, run, child_pid, child_timed_out, prev_timed_out, stop_soon, timer, status,
                         verdict, serverVars, st_pipe, trace_bits, processVars, expired>>

ReadPid ==
  /\ fz = "readPid"
  /\ \/ st_pipe = <<>> /\ sv = "dead" /\ ServerGone
     \/ /\ st_pipe # <<>>
        /\ child_pid' = Head(st_pipe) /\ st_pipe' = Tail(st_pipe)
        /\ fz' = "arm"
        /\ UNCHANGED <<mode, run, child_timed_out, prev_timed_out, stop_soon, timer, status, verdict,
                       serverVars, ctl_pipe, trace_bits, processVars, expired>>

(* afl-showmap sets the timer only if it was given a timeout. *)
ArmTimer ==
  /\ fz = "arm" /\ fz' = "wait"
  /\ timer' = IF mode = "untimed" THEN "off" ELSE "on"
  /\ child_timed_out' = IF mode \in Tools \ {"untimed"} THEN FALSE ELSE child_timed_out
  /\ UNCHANGED <<mode, run, child_pid, prev_timed_out, stop_soon, status, verdict,
                 serverVars, ctl_pipe, st_pipe, trace_bits, processVars, expired>>

ReadStatus ==
  /\ fz = "wait" /\ HasServer
  /\ \/ st_pipe = <<>> /\ sv = "dead" /\ ServerGone
     \/ /\ st_pipe # <<>>
        /\ status' = Head(st_pipe) /\ st_pipe' = Tail(st_pipe)
        /\ fz' = "forget"
        /\ UNCHANGED <<mode, run, child_pid, child_timed_out, prev_timed_out, stop_soon, timer, verdict,
                       serverVars, ctl_pipe, trace_bits, processVars, expired>>

WaitTarget ==
  /\ fz = "wait" /\ ~HasServer
  /\ pstate[child_pid] \in Zombie
  /\ status' = pstate[child_pid]
  /\ pstate' = [pstate EXCEPT ![child_pid] = "reaped"]
  /\ fz' = "forget"
  /\ UNCHANGED <<mode, run, child_pid, child_timed_out, prev_timed_out, stop_soon, timer, verdict,
                 serverVars, ctl_pipe, st_pipe, trace_bits, input, outcome, expired>>

ForgetChild ==
  /\ fz = "forget" /\ fz' = "disarm"
  /\ child_pid' = IF status = "stopped" THEN child_pid ELSE 0
  /\ UNCHANGED <<mode, run, child_timed_out, prev_timed_out, stop_soon, timer, status, verdict,
                 serverVars, ctl_pipe, st_pipe, trace_bits, processVars, expired>>

DisarmTimer ==
  /\ fz = "disarm" /\ fz' = "report"
  /\ timer' = "off"
  /\ UNCHANGED <<mode, run, child_pid, child_timed_out, prev_timed_out, stop_soon, status, verdict,
                 serverVars, ctl_pipe, st_pipe, trace_bits, processVars, expired>>

Signalled == status \in {"crashed", "killed"}
ExecFailed == EXEC_FAIL_SIG \in trace_bits

FuzzerVerdict ==
  CASE child_timed_out -> "hang"
    [] ~child_timed_out /\ Signalled /\ ~stop_soon -> "crash"
    [] ~child_timed_out /\ ~(Signalled /\ ~stop_soon) /\ mode = "dumb" /\ ExecFailed -> "error"
    [] OTHER -> "none"

(* afl-showmap goes on with the bitmap of a run that was stopped. *)
ShowmapVerdict ==
  CASE ExecFailed -> "fatal"
    [] ~ExecFailed /\ child_timed_out -> "hang"
    [] ~ExecFailed /\ ~child_timed_out /\ ~stop_soon /\ Signalled -> "crash"
    [] OTHER -> "none"

(* afl-tmin and afl-analyze exit when they were stopped.  Here an outcome    *)
(* "crashed" is whatever the tool takes for a crash: a signal, the exit code  *)
(* of MSAN, and any other exit code than 0 in afl-analyze and after -x.       *)
TminVerdict ==
  CASE ExecFailed \/ stop_soon -> "fatal"
    [] ~ExecFailed /\ ~stop_soon /\ child_timed_out -> "hang"
    [] ~ExecFailed /\ ~stop_soon /\ ~child_timed_out /\ Signalled -> "crash"
    [] OTHER -> "none"
(* The checksum of a run that timed out is 0, that of a crash is inverted. *)
AnalyzeVerdict == TminVerdict

Verdict == CASE mode \in Showmap -> ShowmapVerdict
             [] mode = "tmin" -> TminVerdict
             [] mode = "analyze" -> AnalyzeVerdict
             [] OTHER -> FuzzerVerdict

(* Mutant: once a child was killed, the server is told so forever. *)
PrevTimedOutSticky == prev_timed_out \/ child_timed_out
PrevTimedOut == child_timed_out

ReportRun ==
  /\ fz = "report"
  /\ verdict' = Verdict
  /\ fz' = IF Verdict = "fatal" THEN "fatal" ELSE "idle"
  /\ prev_timed_out' = PrevTimedOut
  /\ UNCHANGED <<mode, run, child_pid, child_timed_out, stop_soon, timer, status,
                 serverVars, ctl_pipe, st_pipe, trace_bits, processVars, expired>>

(* The end of main. *)
ExitFuzzer ==
  /\ fz = "idle" /\ (stop_soon \/ ~MoreRuns)
  /\ fz' = "done"
  /\ UNCHANGED <<mode, run, child_pid, child_timed_out, prev_timed_out, stop_soon, timer, status, verdict,
                 serverVars, ctl_pipe, st_pipe, trace_bits, processVars, expired>>
-----------------------------------------------------------------------------
(*                          Signals to the fuzzer                          *)

handle_timeout ==
  LET toChild == child_pid > 0
      toServer == mode \notin Tools /\ child_pid = NotForked /\ sv \notin {"none", "dead"}
  IN /\ pstate' = IF toChild THEN Killed(child_pid) ELSE pstate
     /\ sv' = IF toServer THEN "dead" ELSE sv
     /\ child_timed_out' = (child_timed_out \/ toChild \/ toServer \/ mode \in Tools)

Alarm ==
  /\ timer = "on" /\ timer' = "off"
  /\ handle_timeout
  /\ expired' = run
  /\ UNCHANGED <<mode, fz, run, child_pid, prev_timed_out, stop_soon, status, verdict, server_child,
                 child_stopped, was_killed, server_status, ctl_pipe, st_pipe, trace_bits, input, outcome>>

handle_stop_sig ==
  /\ ~stop_soon /\ fz \notin {"fatal", "done"}
  /\ stop_soon' = TRUE
  /\ pstate' = IF child_pid > 0 THEN Killed(child_pid) ELSE pstate
  /\ sv' = IF sv = "none" THEN "none" ELSE "dead"
  /\ UNCHANGED <<mode, fuzzerVars, timer, server_child, child_stopped, was_killed, server_status,
                 ctl_pipe, st_pipe, trace_bits, input, outcome, expired>>
-----------------------------------------------------------------------------
(*                 The fork server: __afl_start_forkserver                 *)

SayHello ==
  /\ sv = "hello"
  /\ \/ sv' = "readCtl" /\ st_pipe' = Append(st_pipe, "hello")
     \/ sv' = "dead" /\ UNCHANGED st_pipe      \* the binary does not get that far
  /\ UNCHANGED <<mode, fuzzerVars, stop_soon, timer, server_child, child_stopped, was_killed,
                 server_status, ctl_pipe, trace_bits, processVars, expired>>

(* Mutant: the server continues a child that was killed. *)
MustReapNever(killed) == FALSE
MustReap(killed) == child_stopped /\ killed

ReadControl ==
  /\ sv = "readCtl"
  /\ \/ /\ ctl_pipe # <<>>
        /\ was_killed' = Head(ctl_pipe) /\ ctl_pipe' = Tail(ctl_pipe)
        /\ sv' = IF MustReap(Head(ctl_pipe)) THEN "reapOld" ELSE "start"
     \/ /\ ctl_pipe = <<>> /\ fz \in {"fatal", "done"}
        /\ sv' = "dead" /\ UNCHANGED <<ctl_pipe, was_killed>>
  /\ UNCHANGED <<mode, fuzzerVars, stop_soon, timer, server_child, child_stopped, server_status,
                 st_pipe, trace_bits, processVars, expired>>

(* Mutant: the old child is written off without being waited for. *)
ReapedUnwaited(p) == pstate' = pstate
Reaped(p) == pstate[p] \in Zombie /\ pstate' = [pstate EXCEPT ![p] = "reaped"]

ReapOldChild ==
  /\ sv = "reapOld"
  /\ Reaped(server_child)
  /\ child_stopped' = FALSE /\ sv' = "start"
  /\ UNCHANGED <<mode, fuzzerVars, stop_soon, timer, server_child, was_killed, server_status,
                 ctl_pipe, st_pipe, trace_bits, input, outcome, expired>>

ForkChild ==
  /\ sv = "start" /\ ~child_stopped
  /\ \/ \E p \in Pids : Forked(p) /\ server_child' = p /\ sv' = "sendPid"
     \/ sv' = "dead" /\ UNCHANGED <<server_child, pstate, input>>
  /\ UNCHANGED <<mode, fuzzerVars, stop_soon, timer, child_stopped, was_killed, server_status,
                 ctl_pipe, st_pipe, trace_bits, outcome, expired>>

ContinueChild ==
  /\ sv = "start" /\ child_stopped
  /\ child_stopped' = FALSE /\ sv' = "sendPid"
  /\ pstate' = [pstate EXCEPT ![server_child] = IF @ = "stopped" THEN "running" ELSE @]
  /\ input' = [input EXCEPT ![server_child] = run]
  /\ UNCHANGED <<mode, fuzzerVars, stop_soon, timer, server_child, was_killed, server_status,
                 ctl_pipe, st_pipe, trace_bits, outcome, expired>>

SendPid ==
  /\ sv = "sendPid" /\ sv' = "wait"
  /\ st_pipe' = Append(st_pipe, server_child)
  /\ UNCHANGED <<mode, fuzzerVars, stop_soon, timer, server_child, child_stopped, was_killed,
                 server_status, ctl_pipe, trace_bits, processVars, expired>>

(* waitpid also reports a child that stopped, in persistent mode. *)
WaitChild ==
  /\ sv = "wait" /\ sv' = "sendStatus"
  /\ server_status' = pstate[server_child]
  /\ \/ Reaped(server_child) /\ UNCHANGED child_stopped
     \/ /\ pstate[server_child] = "stopped" /\ child_stopped' = TRUE
        /\ UNCHANGED pstate
  /\ UNCHANGED <<mode, fuzzerVars, stop_soon, timer, server_child, was_killed,
                 ctl_pipe, st_pipe, trace_bits, input, outcome, expired>>

SendStatus ==
  /\ sv = "sendStatus" /\ sv' = "readCtl"
  /\ st_pipe' = Append(st_pipe, server_status)
  /\ UNCHANGED <<mode, fuzzerVars, stop_soon, timer, server_child, child_stopped, was_killed,
                 server_status, ctl_pipe, trace_bits, processVars, expired>>
-----------------------------------------------------------------------------
(*              The child: the program and __afl_persistent_loop           *)

childRest == <<mode, fuzzerVars, stop_soon, timer, serverVars, ctl_pipe, st_pipe, input, expired>>

(* The first pass erases what the code before the loop left. *)
EnterLoop(p) ==
  /\ pstate[p] = "startup"
  /\ \/ trace_bits' = trace_bits \cup {Startup} /\ UNCHANGED pstate
     \/ trace_bits' = {} /\ pstate' = [pstate EXCEPT ![p] = "running"]
  /\ UNCHANGED <<childRest, outcome>>

WorkOn(p) ==
  /\ pstate[p] = "running"
  /\ trace_bits' = trace_bits \cup {input[p]}
  /\ UNCHANGED <<childRest, pstate, outcome>>

(* The program exits, or stops itself where the loop starts again. *)
FinishInput(p) ==
  /\ pstate[p] = "running"
  /\ trace_bits' = trace_bits \cup {input[p]}
  /\ outcome' = [outcome EXCEPT ![input[p]] = "finished"]
  /\ \E s \in {"exited"} \cup (IF mode = "persistent" THEN {"stopped"} ELSE {}) :
       pstate' = [pstate EXCEPT ![p] = s]
  /\ UNCHANGED childRest

Crash(p) ==
  /\ pstate[p] \in {"startup", "running"}
  /\ pstate' = [pstate EXCEPT ![p] = "crashed"]
  /\ outcome' = [outcome EXCEPT ![input[p]] = "crashed"]
  /\ UNCHANGED <<childRest, trace_bits>>

(* execv returns. *)
ExecFails(p) ==
  /\ ~HasServer /\ pstate[p] = "running" /\ trace_bits = {}
  /\ pstate' = [pstate EXCEPT ![p] = "exited"]
  /\ trace_bits' = {EXEC_FAIL_SIG}
  /\ outcome' = [outcome EXCEPT ![input[p]] = "noexec"]
  /\ UNCHANGED childRest

Child == \E p \in Pids : EnterLoop(p) \/ WorkOn(p) \/ FinishInput(p) \/ Crash(p) \/ ExecFails(p)
Fuzzer == \/ InitForkserver \/ ReadHello \/ HandshakeFails \/ ServerIsUp
          \/ StartRun \/ ForkTarget \/ RequestRun \/ ReadPid \/ ArmTimer \/ ReadStatus \/ WaitTarget
          \/ ForgetChild \/ DisarmTimer \/ ReportRun \/ ExitFuzzer
Server == \/ SayHello \/ ReadControl \/ ReapOldChild \/ ForkChild \/ ContinueChild
          \/ SendPid \/ WaitChild \/ SendStatus
ForkNext == Fuzzer \/ Server \/ Child \/ Alarm \/ handle_stop_sig
ForkSpec == ForkInit /\ [][ForkNext]_forkVars
-----------------------------------------------------------------------------
(* What run_target reports is what became of this input and of no other,    *)
(* whatever the order of the child's end, the timer and the messages: no    *)
(* fault only if the child got through the input and the bitmap holds the   *)
(* marks of this run alone; a crash only if the child died by itself; a     *)
(* hang only if the timer expired in this run.                              *)
VerdictTrue ==
  fz = "idle" /\ run > 0 /\ ~stop_soon =>
    /\ trace_bits \cap Runs \subseteq {run}
    /\ CASE verdict = "none" -> outcome[run] = "finished" /\ trace_bits = {run}
         [] verdict = "crash" -> outcome[run] = "crashed"
         [] verdict = "hang" -> expired = run
         [] verdict = "error" -> outcome[run] = "noexec"

(* As long as nothing was told to stop there is at most one child that has   *)
(* not been waited for, and between two runs it is not running: a late      *)
(* alarm never leaves a zombie behind and no child runs into the next       *)
(* input.                                                                   *)
OneChild ==
  ~stop_soon /\ sv # "dead" =>
    /\ Cardinality({p \in Pids : pstate[p] \notin {"none", "reaped"}}) <= 1
    /\ fz = "idle" => \A p \in Pids : pstate[p] \notin {"startup", "running"}

(* Every request ends, also when the child never does: the fuzzer and the   *)
(* server never wait for each other, and the server never for a child that  *)
(* is stopped.  The timer is what ends the run of a child that goes on for  *)
(* ever; afl-showmap without -t sets none, and there a run ends if the      *)
(* child does or is killed.                                                 *)
RunsEnd ==
  (\/ fz = "request" /\ mode # "untimed"
   \/ fz = "wait" /\ mode = "untimed" /\ pstate[child_pid] \in Zombie)
    ~> fz \in {"idle", "fatal", "done"}
=============================================================================
