------------------------------- MODULE AflSync -------------------------------
(***************************************************************************)
(* How one fuzzer reads the queue of another (sync_fuzzers, afl-fuzz.c),   *)
(* while the other one writes it.  The other fuzzer numbers its files in   *)
(* the order of their creation; it creates and writes a file in two steps, *)
(* and replaces a file that it has trimmed.  readdir returns every file    *)
(* that is there all the time; whether it returns one that came or went    *)
(* meanwhile, and when, is open.  The reading fuzzer may be stopped and    *)
(* started again; that the other one starts over is left out.              *)
(***************************************************************************)
EXTENDS Integers, FiniteSets

CONSTANTS MaxFiles    \* bound on the files of the other fuzzer

VARIABLES file,       \* the other fuzzer's files: "none", "empty", "full", or "big": above MAX_FILE
          created,    \* how many it has created
          replacing,  \* the file that it is about to create again, or -1
          up,         \* is the reading fuzzer running?
          synced,     \* what .synced says
          scan,       \* is a scan going on?
          min_accept, next_min_accept,
          listed,     \* the names that readdir may still return in this scan
          owed,       \* and those it has to return
          looked,     \* ghost: the files that were run since the fuzzer was started
          disturbed,  \* ghost: the files that changed during a scan
          oversized   \* ghost: the files that were written with more than MAX_FILE bytes

syncVars == <<file, created, replacing, up, synced, scan, min_accept, next_min_accept, listed, owed,
              looked, disturbed, oversized>>

Ids == 0..(MaxFiles - 1)
There == {i \in Ids : file[i] # "none"}

SyncInit ==
  /\ file = [i \in Ids |-> "none"] /\ created = 0 /\ replacing = -1
  /\ up = TRUE /\ synced = 0 /\ scan = FALSE /\ min_accept = 0 /\ next_min_accept = 0
  /\ listed = {} /\ owed = {} /\ looked = {} /\ disturbed = {} /\ oversized = {}

(* A change of file i that a scan may or may not see; the name of a file     *)
(* that is gone may have been read before.                                  *)
Change(i, to) ==
  /\ file' = [file EXCEPT ![i] = to]
  /\ listed' = IF scan /\ to = "empty" THEN listed \cup {i} ELSE listed
  /\ owed' = IF to = "none" THEN owed \ {i} ELSE owed
  /\ disturbed' = IF scan THEN disturbed \cup {i} ELSE disturbed
  /\ oversized' = IF to = "big" THEN oversized \cup {i} ELSE oversized
ReaderSame == UNCHANGED <<up, synced, scan, min_accept, next_min_accept, looked>>

Writing == replacing # -1 \/ \E i \in Ids : file[i] = "empty"
(* save_if_interesting: open, with O_CREAT, and ck_write.  Other tools that  *)
(* take part may write files that are too large.                            *)
CreateFile ==
  /\ created < MaxFiles /\ ~Writing
  /\ Change(created, "empty") /\ created' = created + 1
  /\ UNCHANGED replacing /\ ReaderSame
WriteFile ==
  /\ \E i \in Ids, to \in {"full", "big"} : file[i] = "empty" /\ Change(i, to)
  /\ UNCHANGED <<created, replacing>> /\ ReaderSame
(* trim_case: unlink, open, and ck_write. *)
UnlinkFile ==
  /\ ~Writing /\ \E i \in Ids : file[i] = "full" /\ Change(i, "none") /\ replacing' = i
  /\ UNCHANGED created /\ ReaderSame
RecreateFile ==
  /\ replacing # -1 /\ Change(replacing, "empty") /\ replacing' = -1
  /\ UNCHANGED created /\ ReaderSame

WriterSame == UNCHANGED <<file, created, replacing, oversized>>
OpenQueue ==
  /\ up /\ ~scan /\ scan' = TRUE
  /\ min_accept' = synced /\ next_min_accept' = synced
  /\ listed' = There /\ owed' = There
  /\ disturbed' = disturbed \cup {i \in 0..(created - 1) : file[i] \notin {"full", "big"}}
  /\ WriterSame /\ UNCHANGED <<up, synced, looked>>

(* A name of the directory.  The number is noted before the file is opened;  *)
(* a file that cannot be opened, is empty or too large is not run.           *)
ReadName ==
  /\ scan
  /\ \E i \in listed :
       /\ listed' = listed \ {i} /\ owed' = owed \ {i}
       /\ next_min_accept' = IF i >= min_accept /\ i >= next_min_accept THEN i + 1 ELSE next_min_accept
       /\ looked' = IF i >= min_accept /\ file[i] = "full" THEN looked \cup {i} ELSE looked
  /\ WriterSame /\ UNCHANGED <<up, synced, scan, min_accept, disturbed>>

EndScan ==
  /\ scan /\ owed = {} /\ scan' = FALSE
  /\ synced' = next_min_accept
  /\ min_accept' = 0 /\ next_min_accept' = 0 /\ listed' = {} /\ owed' = {}
  /\ WriterSame /\ UNCHANGED <<up, looked, disturbed>>

(* The signal, at any time: a scan that it ends leaves .synced as it was,    *)
(* and the fuzzer exits.                                                    *)
StopFuzzer ==
  /\ up /\ up' = FALSE /\ scan' = FALSE
  /\ min_accept' = 0 /\ next_min_accept' = 0 /\ listed' = {} /\ owed' = {}
  /\ WriterSame /\ UNCHANGED <<synced, looked, disturbed>>

(* Mutant: a new start finds the .synced of the last session. *)
SyncedAtStartKept == synced
SyncedAtStart == 0
(* maybe_delete_out_dir: the session begins with a queue of its own. *)
StartFuzzer ==
  /\ ~up /\ up' = TRUE
  /\ synced' = SyncedAtStart /\ looked' = {} /\ disturbed' = {}
  /\ WriterSame /\ UNCHANGED <<scan, min_accept, next_min_accept, listed, owed>>

SyncNext == \/ CreateFile \/ WriteFile \/ UnlinkFile \/ RecreateFile
            \/ OpenQueue \/ ReadName \/ EndScan \/ StopFuzzer \/ StartFuzzer
SyncSpec == SyncInit /\ [][SyncNext]_syncVars
-----------------------------------------------------------------------------
(* No file is passed over: what .synced says was seen has been run by this   *)
(* session of the fuzzer, also after sessions and scans that a signal has    *)
(* cut short, unless the file is above MAX_FILE, which sync_fuzzers ignores, *)
(* or the other fuzzer created, wrote or replaced it just during a scan.     *)
SyncedWasRun == \A i \in Ids : i < synced => i \in looked \cup disturbed \cup oversized

(* The same for every file that is not too large: each instance takes over   *)
(* the test cases of the others, docs/parallel_fuzzing.txt says.             *)
NothingMissed == \A i \in Ids : i < synced => i \in looked \cup oversized
=============================================================================
