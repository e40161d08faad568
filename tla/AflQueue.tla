------------------------------ MODULE AflQueue ------------------------------
(***************************************************************************)
(* The queue of afl-fuzz (afl-fuzz.c): calibration of its entries, the     *)
(* choice of the favored ones, trimming, and what is kept of the runs.     *)
(* A trace is a function from the bytes of the bitmap to hit count         *)
(* classes, 0 for a byte that was not hit; a trace stands for its checksum *)
(* as well.  A target may be variable: its trace differs between runs of   *)
(* one input.  Dumb mode, which has no bitmap, is left out.                *)
(***************************************************************************)
EXTENDS Integers, Sequences, FiniteSets, SequencesExt

CONSTANTS MapSize, MaxClass,   \* the bitmap, and the hit count classes
          Variable,            \* may runs of one input differ?
          InputLens, Speeds,   \* lengths of new inputs, and times a run may take
          Seeds, MaxQueue,     \* the first and the largest length of the queue
          CAL_CHANCES, HANG_LIMIT, TRIM_MIN_BYTES, TRIM_START_STEPS, TRIM_END_STEPS

ASSUME QueueAssumption ==
  /\ MapSize \in Nat \ {0} /\ MaxClass \in Nat
  /\ MaxQueue \in Nat /\ Seeds \subseteq 1..MaxQueue
  /\ CAL_CHANCES \in Nat \ {0}

VARIABLES pc, queue, queue_cur, crash_mode, stop_soon,
          import_first,   \* AFL_IMPORT_FIRST is set, and no entry was taken up yet
          top_rated, score_changed, queued_favored, pending_favored, pending_not_fuzzed,
          virgin_bits, subseq_hangs,
          trim,        \* remove_len, remove_pos, len_p2, needs_write of trim_case
          hit          \* ghost: the bytes by which entries were scored

queueVars == <<pc, queue, queue_cur, crash_mode, stop_soon, import_first, top_rated, score_changed,
               queued_favored, pending_favored, pending_not_fuzzed, virgin_bits, subseq_hangs, trim, hit>>

Bytes == 1..MapSize
Traces == [Bytes -> 0..MaxClass]
BytesOf(t) == {b \in Bytes : t[b] > 0}
BitsOf(t) == {<<b, t[b]>> : b \in BytesOf(t)}
AllBits == Bytes \X (1..MaxClass)
NoTrace == <<>>        \* exec_cksum = 0

Bigger(a, b) == IF a > b THEN a ELSE b
next_p2(v) == CHOOSE r \in {2^k : k \in 0..v} : r >= v /\ \A k \in 0..v : 2^k >= v => r <= 2^k

(* The fault that a run of an entry of the queue ends with. *)
Wanted == IF crash_mode THEN "crash" ELSE "none"

Entry(len, cksum) ==
  [len |-> len, file |-> len, exec_us |-> 0, exec_cksum |-> cksum, cal_failed |-> 0,
   trim_done |-> FALSE, was_fuzzed |-> FALSE, favored |-> FALSE, fs_redundant |-> FALSE,
   var_behavior |-> FALSE, tc_ref |-> 0, trace_mini |-> {}]

NoTrim == [remove_len |-> 0, remove_pos |-> 0, len_p2 |-> 0, needs_write |-> FALSE]

QueueInit ==
  /\ pc = "dryRun" /\ queue_cur = 1
  /\ \E n \in Seeds : queue = [i \in 1..n |-> Entry(Bigger(5, TRIM_MIN_BYTES), NoTrace)]
  /\ crash_mode \in BOOLEAN /\ import_first \in BOOLEAN /\ stop_soon = FALSE
  /\ top_rated = [b \in Bytes |-> 0] /\ score_changed = FALSE
  /\ queued_favored = 0 /\ pending_favored = 0 /\ pending_not_fuzzed = Len(queue)
  /\ virgin_bits = AllBits
  /\ subseq_hangs = 0
  /\ trim = NoTrim
  /\ hit = [i \in 1..MaxQueue |-> {}]
-----------------------------------------------------------------------------
(*                         Favored entries                                 *)

(* The queue, with the table of the winners. *)
Scored(qs, top, changed) == [queue |-> qs, top |-> top, changed |-> changed]
Factor(e) == e.exec_us * e.len

(* The old winner of a byte loses a reference; with the last one goes its   *)
(* small trace.                                                             *)
LoseByte(e) == [e EXCEPT !.tc_ref = @ - 1, !.trace_mini = IF e.tc_ref = 1 THEN {} ELSE @]
(* Mutant: an entry that has its small trace counts no more references. *)
WinByteOnce(e, t) == [e EXCEPT !.tc_ref = IF e.trace_mini = {} THEN @ + 1 ELSE @,
                               !.trace_mini = IF @ = {} THEN BytesOf(t) ELSE @]
WinByte(e, t) == [e EXCEPT !.tc_ref = @ + 1, !.trace_mini = IF @ = {} THEN BytesOf(t) ELSE @]

(* Mutant: only a byte that had a winner asks for another cull. *)
ScoreChangedByLoser(s, b) == s.changed \/ s.top[b] # 0
ScoreChanged(s, b) == TRUE
ScoreByte(s, b, q, t) ==
  LET w == s.top[b]
      lost == IF w = 0 THEN s.queue ELSE [s.queue EXCEPT ![w] = LoseByte(@)]
  IN IF t[b] = 0 \/ (w # 0 /\ Factor(s.queue[q]) > Factor(s.queue[w])) THEN s
     ELSE Scored([lost EXCEPT ![q] = WinByte(@, t)], [s.top EXCEPT ![b] = q], ScoreChanged(s, b))
update_bitmap_score(qs, q, t) ==
  LET after[b \in 0..MapSize] == IF b = 0 THEN Scored(qs, top_rated, score_changed)
                                 ELSE ScoreByte(after[b - 1], b, q, t)
  IN after[MapSize]

(* Mutant: all favored entries are pending. *)
PendingAlways(e) == 1
Pending(e) == IF e.was_fuzzed THEN 0 ELSE 1
(* Winners are favored as long as they add bytes; then the files that mark   *)
(* the others as redundant are brought up to date.                          *)
CullStep(c, b) ==
  LET w == top_rated[b]
  IN IF w = 0 \/ b \notin c.temp_v THEN c
     ELSE [temp_v |-> c.temp_v \ queue[w].trace_mini, favored |-> c.favored \cup {w},
           queued |-> c.queued + 1, pending |-> c.pending + Pending(queue[w])]
Culled ==
  LET after[b \in 0..MapSize] == IF b = 0 THEN [temp_v |-> Bytes, favored |-> {}, queued |-> 0, pending |-> 0]
                                 ELSE CullStep(after[b - 1], b)
  IN after[MapSize]
mark_as_redundant(e, state) == [e EXCEPT !.fs_redundant = state]
cull_queue ==
  IF ~score_changed THEN UNCHANGED <<queue, score_changed, queued_favored, pending_favored>>
  ELSE /\ score_changed' = FALSE
       /\ queued_favored' = Culled.queued /\ pending_favored' = Culled.pending
       /\ queue' = [i \in DOMAIN queue |->
                      mark_as_redundant([queue[i] EXCEPT !.favored = i \in Culled.favored],
                                        i \notin Culled.favored)]
-----------------------------------------------------------------------------
(*                           Calibration                                   *)

(* What the runs of an input may show, given its checksum if it has one. *)
MayShow(cksum) == IF Variable \/ cksum = NoTrace THEN Traces ELSE {cksum}
Silent == [b \in Bytes |-> 0]
Unwanted == {"none", "crash", "hang", "error", "stop"} \ {Wanted}
(* Two runs (CAL_CYCLES); faults and signals may cut them short, and a first *)
(* run that leaves no mark means that there is no instrumentation.          *)
Calibrations(cksum) ==
  LET first == MayShow(cksum) \ {Silent}
  IN {[runs |-> <<>>, end |-> f] : f \in Unwanted \cup {"noinst"}}
       \cup {[runs |-> <<t>>, end |-> f] : t \in first, f \in Unwanted}
       \cup {[runs |-> r, end |-> Wanted] : r \in {p \in first \X MayShow(cksum) : Variable \/ p[1] = p[2]}}

(* calibrate_case of entry q of qs.  The first run makes the checksum, if    *)
(* there is none; the bits of a run that differs from it are no longer new. *)
Calibrated(c, qs, q, virgin, failures) ==
  LET e == qs[q]
      cksum == IF e.exec_cksum = NoTrace /\ c.runs # <<>> THEN c.runs[1] ELSE e.exec_cksum
      differ == {i \in DOMAIN c.runs : c.runs[i] # e.exec_cksum}
      seen == [e EXCEPT !.exec_cksum = cksum,
                        !.var_behavior = @ \/ \E i \in DOMAIN c.runs : c.runs[i] # cksum]
  IN /\ virgin_bits' = virgin \ UNION {BitsOf(c.runs[i]) : i \in differ}
     /\ IF c.end = Wanted
        THEN \E us \in Speeds :
               LET done == [seen EXCEPT !.exec_us = us, !.cal_failed = 0]
                   s == update_bitmap_score([qs EXCEPT ![q] = done], q, Last(c.runs))
               IN /\ queue' = s.queue /\ top_rated' = s.top /\ score_changed' = s.changed
                  /\ hit' = [hit EXCEPT ![q] = @ \cup BytesOf(Last(c.runs))]
        ELSE /\ queue' = [qs EXCEPT ![q] = [seen EXCEPT !.cal_failed = failures]]
             /\ UNCHANGED <<top_rated, score_changed, hit>>
     /\ stop_soon' = (c.end = "stop")

(* perform_dry_run, one entry: cases that hang or crash are skipped if the   *)
(* user said so, anything else that is not wanted ends the fuzzer.          *)
DryRun ==
  /\ pc = "dryRun" /\ queue_cur <= Len(queue)
  /\ \E c \in Calibrations(NoTrace), tolerant \in BOOLEAN :
       LET skip == tolerant /\ c.end \in {"hang", "crash"} \ {Wanted}
       IN /\ Calibrated(c, queue, queue_cur, virgin_bits, IF skip THEN CAL_CHANCES ELSE 1)
          /\ pc' = CASE c.end = "stop" -> "stopped"
                     [] skip \/ c.end = Wanted -> "dryRun"
                     [] OTHER -> "fatal"
  /\ queue_cur' = queue_cur + 1
  /\ UNCHANGED <<crash_mode, import_first, queued_favored, pending_favored, pending_not_fuzzed, subseq_hangs, trim>>

(* A session that goes on with an old one begins where that one was. *)
EndDryRun ==
  /\ pc = "dryRun" /\ queue_cur > Len(queue)
  /\ pc' = IF \A i \in DOMAIN queue : queue[i].cal_failed > 0 THEN "fatal" ELSE "cull"
  /\ queue_cur' \in 0..Len(queue)        \* find_start_position
  /\ UNCHANGED <<queue, crash_mode, stop_soon, import_first, top_rated, score_changed, queued_favored,
                 pending_favored, pending_not_fuzzed, virgin_bits,
                 subseq_hangs, trim, hit>>
-----------------------------------------------------------------------------
(*                            The main loop                                *)

Unfuzzed == <<crash_mode, stop_soon, top_rated, virgin_bits, hit>>

(* Before the first entry, the finds of other fuzzers may be imported. *)
Cull ==
  /\ pc = "cull" /\ pc' = IF import_first THEN "import" ELSE "fuzz_one"
  /\ cull_queue
  /\ queue_cur' = Bigger(queue_cur, 1)
  /\ UNCHANGED <<Unfuzzed, import_first, pending_not_fuzzed, subseq_hangs, trim>>

cur == queue[queue_cur]
(* On to the next entry, or to the end of the cycle. *)
Advance == IF queue_cur = Len(queue) THEN 0 ELSE queue_cur + 1

(* fuzz_one, also if a signal came during the import.  Chance decides, but   *)
(* not against what is favored and new.                                     *)
SkipEntry ==
  /\ pc = "fuzz_one"
  /\ IF pending_favored > 0 THEN cur.was_fuzzed \/ ~cur.favored ELSE ~cur.favored
  /\ pc' = (IF stop_soon THEN "stopped" ELSE "cull") /\ queue_cur' = Advance /\ import_first' = FALSE
  /\ UNCHANGED <<Unfuzzed, queue, score_changed, queued_favored, pending_favored, pending_not_fuzzed,
                 subseq_hangs, trim>>

Recalibrate ==
  /\ pc = "fuzz_one" /\ cur.cal_failed \in 1..(CAL_CHANCES - 1)
  /\ \E c \in Calibrations(cur.exec_cksum) :
       /\ stop_soon => c.runs = <<>> /\ c.end = "stop"
       /\ Calibrated(c, queue, queue_cur, virgin_bits, cur.cal_failed + 1)
       /\ pc' = CASE c.end = "error" -> "fatal" [] c.end = Wanted -> "trim" [] OTHER -> "abandon"
  /\ subseq_hangs' = 0 /\ import_first' = FALSE
  /\ UNCHANGED <<queue_cur, crash_mode, queued_favored, pending_favored, pending_not_fuzzed, trim>>

GiveUpEntry ==
  /\ pc = "fuzz_one" /\ cur.cal_failed >= CAL_CHANCES
  /\ pc' = "abandon" /\ subseq_hangs' = 0 /\ import_first' = FALSE
  /\ UNCHANGED <<Unfuzzed, queue, queue_cur, score_changed, queued_favored, pending_favored,
                 pending_not_fuzzed, trim>>

StartEntry ==
  /\ pc = "fuzz_one" /\ cur.cal_failed = 0
  /\ pc' = "trim" /\ subseq_hangs' = 0 /\ import_first' = FALSE
  /\ UNCHANGED <<Unfuzzed, queue, queue_cur, score_changed, queued_favored, pending_favored,
                 pending_not_fuzzed, trim>>
-----------------------------------------------------------------------------
(*                              Trimming                                   *)

SmallestStep(p2) == Bigger(p2 \div TRIM_END_STEPS, TRIM_MIN_BYTES)
NoTrimming == cur.trim_done \/ cur.len < 5
TrimRest == <<queue_cur, crash_mode, import_first, queued_favored, pending_favored, pending_not_fuzzed,
              virgin_bits, subseq_hangs>>

StartTrim ==
  /\ pc = "trim"
  /\ IF NoTrimming
     THEN IF stop_soon /\ ~cur.trim_done
          THEN pc' = "abandon" /\ UNCHANGED <<queue, trim>>
          ELSE pc' = "fuzz" /\ queue' = [queue EXCEPT ![queue_cur].trim_done = TRUE] /\ UNCHANGED trim
     ELSE LET p2 == next_p2(cur.len)
              step == Bigger(p2 \div TRIM_START_STEPS, TRIM_MIN_BYTES)
          IN /\ pc' = "trimming" /\ UNCHANGED queue
             /\ trim' = [remove_len |-> step, remove_pos |-> step, len_p2 |-> p2, needs_write |-> FALSE]
  /\ UNCHANGED <<TrimRest, stop_soon, top_rated, score_changed, hit>>

(* One run without the block at remove_pos; the same checksum makes the      *)
(* deletion permanent, whatever the fault.                                  *)
TrimBlock ==
  LET avail == IF trim.remove_len < cur.len - trim.remove_pos THEN trim.remove_len ELSE cur.len - trim.remove_pos
  IN /\ pc = "trimming" /\ trim.remove_pos < cur.len
     /\ \/ /\ ~stop_soon
           /\ queue' = [queue EXCEPT ![queue_cur].len = @ - avail]
           /\ trim' = [trim EXCEPT !.len_p2 = next_p2(cur.len - avail), !.needs_write = TRUE]
           /\ UNCHANGED <<pc, stop_soon>>
        \/ /\ ~stop_soon
           /\ trim' = [trim EXCEPT !.remove_pos = @ + trim.remove_len]
           /\ UNCHANGED <<pc, queue, stop_soon>>
        \/ \* the signal, or a target that cannot be executed
           /\ \/ pc' = "abandon" /\ stop_soon' = TRUE
              \/ ~stop_soon /\ pc' = "fatal" /\ UNCHANGED stop_soon
           /\ trim' = NoTrim /\ UNCHANGED queue
     /\ UNCHANGED <<TrimRest, top_rated, score_changed, hit>>

WriteTrimmed(e) == [e EXCEPT !.file = e.len]
(* Smaller blocks, or the file is written and the entry scored anew, with    *)
(* the trace its checksum stands for.                                       *)
EndTrimRound ==
  LET half == trim.remove_len \div 2
      trimmed == [queue EXCEPT ![queue_cur] = [WriteTrimmed(@) EXCEPT !.trim_done = TRUE]]
      s == update_bitmap_score(trimmed, queue_cur, cur.exec_cksum)
  IN /\ pc = "trimming" /\ ~stop_soon /\ trim.remove_pos >= cur.len
     /\ IF half >= SmallestStep(trim.len_p2)
        THEN /\ trim' = [trim EXCEPT !.remove_len = half, !.remove_pos = half]
             /\ UNCHANGED <<pc, queue, top_rated, score_changed, hit>>
        ELSE /\ pc' = "fuzz" /\ trim' = NoTrim
             /\ IF trim.needs_write
                THEN /\ queue' = s.queue /\ top_rated' = s.top /\ score_changed' = s.changed
                     /\ hit' = [hit EXCEPT ![queue_cur] = @ \cup BytesOf(cur.exec_cksum)]
                ELSE /\ queue' = [queue EXCEPT ![queue_cur].trim_done = TRUE]
                     /\ UNCHANGED <<top_rated, score_changed, hit>>
     /\ UNCHANGED <<TrimRest, stop_soon>>
-----------------------------------------------------------------------------
(*                     Runs of mutated and imported inputs                 *)

has_new_bits(t, virgin) == BitsOf(t) \cap virgin # {}

(* save_if_interesting: add_to_queue, then calibrate_case, then the file.   *)
(* Crashes and hangs go to directories that the fuzzer does not read.       *)
save_if_interesting(fault, t) ==
  IF fault = Wanted /\ has_new_bits(t, virgin_bits)
  THEN /\ Len(queue) < MaxQueue
       /\ pending_not_fuzzed' = pending_not_fuzzed + 1
       /\ \E len \in InputLens, c \in Calibrations(t) :
            /\ Calibrated(c, Append(queue, Entry(len, t)), Len(queue) + 1, virgin_bits \ BitsOf(t), 1)
            /\ pc' = IF c.end = "error" THEN "fatal" ELSE pc
  ELSE UNCHANGED <<queue, top_rated, score_changed, hit, virgin_bits, pending_not_fuzzed, stop_soon, pc>>

Runs == [fault : {"none", "crash", "hang"}, trace : Traces]
Nothing == UNCHANGED <<queue, top_rated, score_changed, virgin_bits, pending_not_fuzzed, hit>>

(* common_fuzz_stuff on one mutated input; a signal, too many hangs in a     *)
(* row, the user (SIGUSR1) end the work on this entry.                      *)
FuzzInput ==
  /\ pc = "fuzz" /\ ~stop_soon
  /\ \/ \E r \in Runs :
          /\ subseq_hangs' = IF r.fault = "hang" THEN subseq_hangs + 1 ELSE 0
          /\ IF r.fault = "hang" /\ subseq_hangs > HANG_LIMIT
             THEN pc' = "abandon" /\ Nothing /\ UNCHANGED stop_soon
             ELSE save_if_interesting(r.fault, r.trace)
     \/ pc' = "abandon" /\ stop_soon' \in BOOLEAN /\ Nothing /\ UNCHANGED subseq_hangs
     \/ pc' = "fatal" /\ Nothing /\ UNCHANGED <<stop_soon, subseq_hangs>>
  /\ UNCHANGED <<queue_cur, crash_mode, import_first, queued_favored, pending_favored, trim>>

(* abandon_entry, also at the regular end; then another fuzzer's finds may   *)
(* be tried.                                                                *)
AbandonEntry ==
  /\ pc \in {"fuzz", "abandon"}
  /\ IF ~stop_soon /\ cur.cal_failed = 0 /\ ~cur.was_fuzzed
     THEN /\ queue' = [queue EXCEPT ![queue_cur].was_fuzzed = TRUE]
          /\ pending_not_fuzzed' = pending_not_fuzzed - 1
          /\ pending_favored' = pending_favored - (IF cur.favored THEN 1 ELSE 0)
     ELSE UNCHANGED <<queue, pending_not_fuzzed, pending_favored>>
  /\ \/ pc' = IF stop_soon THEN "stopped" ELSE "cull"
     \/ pc = "fuzz" /\ ~stop_soon /\ pc' = "sync"
  /\ queue_cur' = IF pc' = "cull" THEN Advance ELSE queue_cur
  /\ UNCHANGED <<Unfuzzed, import_first, score_changed, queued_favored, subseq_hangs, trim>>

(* sync_fuzzers, after an entry or (import) before the first one; there     *)
(* main goes on to fuzz_one whether it was stopped or not.                  *)
SyncInput ==
  /\ pc \in {"sync", "import"} /\ ~stop_soon
  /\ \/ \E r \in Runs : save_if_interesting(r.fault, r.trace)
     \/ pc' = (IF pc = "sync" THEN "stopped" ELSE "fuzz_one") /\ stop_soon' = TRUE /\ Nothing
  /\ UNCHANGED <<queue_cur, crash_mode, import_first, queued_favored, pending_favored, subseq_hangs, trim>>
EndSync ==
  /\ \/ pc = "sync" /\ pc' = (IF stop_soon THEN "stopped" ELSE "cull") /\ queue_cur' = Advance
     \/ pc = "import" /\ pc' = "fuzz_one" /\ UNCHANGED queue_cur
  /\ UNCHANGED <<Unfuzzed, import_first, queue, score_changed, queued_favored, pending_favored, pending_not_fuzzed,
                 subseq_hangs, trim>>

QueueNext == \/ DryRun \/ EndDryRun \/ Cull \/ SkipEntry \/ Recalibrate \/ GiveUpEntry \/ StartEntry
             \/ StartTrim \/ TrimBlock \/ EndTrimRound \/ FuzzInput \/ AbandonEntry \/ SyncInput \/ EndSync

QueueSpec == QueueInit /\ [][QueueNext]_queueVars
-----------------------------------------------------------------------------
(* Whenever an entry is about to be fuzzed, the favored entries together hit *)
(* every byte by which any entry was scored, whoever won or lost bytes since, *)
(* by calibration or by trimming.  The one exception: what AFL_IMPORT_FIRST  *)
(* brings in before the first entry is scored and not culled; the entries    *)
(* of before the import are covered even then.  (An entry is scored by the  *)
(* last run of a calibration and by its trimming; a variable target may hit *)
(* other bytes in other runs, which no entry is favored for.)               *)
FavoredCover ==
  pc = "fuzz_one" =>
    \A i \in DOMAIN queue : \A b \in hit[i] :
      \/ \E j \in DOMAIN queue : queue[j].favored /\ b \in hit[j]
      \/ import_first /\ ~queue[i].favored /\ ~queue[i].fs_redundant

(* The references of an entry are the bytes it has won, so that cull_queue   *)
(* finds the small trace of every winner, and an entry has on disk the       *)
(* bytes that fuzz_one maps into memory.                                    *)
QueueConsistent ==
  \A i \in DOMAIN queue :
    /\ queue[i].tc_ref = Cardinality({b \in Bytes : top_rated[b] = i})
    /\ queue[i].tc_ref > 0 <=> queue[i].trace_mini # {}
    /\ pc \notin {"trimming", "abandon", "stopped", "fatal"} => queue[i].file = queue[i].len

PendingFavored == {i \in DOMAIN queue : queue[i].favored /\ ~queue[i].was_fuzzed}
(* pending_favored, while it is above 0, keeps fuzz_one away from most       *)
(* entries; it is the number of favored entries still to be fuzzed, though   *)
(* cull_queue counts the entries that it meets and may meet one twice, whose *)
(* small trace stems from another run than its bytes.                       *)
PendingExact ==
  /\ pending_favored = Cardinality(PendingFavored)
  /\ pending_not_fuzzed = Cardinality({i \in DOMAIN queue : ~queue[i].was_fuzzed})
=============================================================================
