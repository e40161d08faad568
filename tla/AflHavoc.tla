------------------------------ MODULE AflHavoc ------------------------------
(***************************************************************************)
(* The havoc stage of fuzz_one and splicing (afl-fuzz.c): how long the     *)
(* stage runs, and the lengths of the input, of the buffer that the stacked*)
(* tweaks change and of the memory behind it.  The bytes themselves are    *)
(* left out: a tweak is the range it reads or writes.                      *)
(***************************************************************************)
EXTENDS Integers, FiniteSets

CONSTANTS HAVOC_CYCLES, HAVOC_CYCLES_INIT, SPLICE_HAVOC, HAVOC_MIN, HAVOC_MAX_MULT, HAVOC_STACK_POW2,
          HAVOC_BLK_SMALL, HAVOC_BLK_MEDIUM, HAVOC_BLK_LARGE, SPLICE_CYCLES, MAX_FILE,
          havoc_div,      \* by how much slow targets shorten the stages
          Entries,        \* speed, coverage, handicap and depth of queue entries
          Lens, Targets,  \* lengths of the entry and of the other entries
          Extras          \* lengths of tokens

ASSUME HavocAssumption ==
  /\ {HAVOC_CYCLES, HAVOC_CYCLES_INIT, SPLICE_HAVOC, HAVOC_MIN, HAVOC_MAX_MULT, MAX_FILE} \subseteq Nat
  /\ {HAVOC_BLK_SMALL, HAVOC_BLK_MEDIUM, HAVOC_BLK_LARGE} \subseteq Nat \ {0}
  /\ havoc_div \in Nat \ {0}
  /\ HAVOC_BLK_SMALL <= HAVOC_BLK_MEDIUM /\ HAVOC_BLK_MEDIUM <= HAVOC_BLK_LARGE
  /\ Entries \subseteq [us : Nat, bits : Nat, handicap : Nat, depth : Nat]
  /\ Lens \subseteq 1..MAX_FILE /\ Targets \subseteq 1..MAX_FILE /\ Extras \subseteq Nat \ {0}

VARIABLES step, handicap, queue_len, len, in_size, spliced, temp_len, size,
          perf_score, orig_perf, doing_det, stage_cur, stage_max, tweaks, splice_cycle, rlim,
          wild            \* ghost: an access outside its buffer, or a choice among nothing

havocVars == <<step, handicap, queue_len, len, in_size, spliced, temp_len, size, perf_score, orig_perf,
               doing_det, stage_cur, stage_max, tweaks, splice_cycle, rlim, wild>>

Smaller(a, b) == IF a < b THEN a ELSE b
Larger(a, b) == IF a > b THEN a ELSE b
(* random() % n; -1 if there is nothing to choose from. *)
UR(n) == IF n < 1 THEN {-1} ELSE 0..(n - 1)
-----------------------------------------------------------------------------
(* The desirability of an entry; q.us and q.bits are its time and coverage   *)
(* in per cent of the average.                                              *)
SpeedScore(us) ==
  CASE us > 1000 -> 10 [] us \in 401..1000 -> 25 [] us \in 201..400 -> 50 [] us \in 134..200 -> 75
    [] us < 25 -> 300 [] us \in 25..33 -> 200 [] us \in 34..49 -> 150 [] us \in 50..133 -> 100
CoverScore(s, bits) ==
  CASE bits > 333 -> s * 3 [] bits \in 201..333 -> s * 2 [] bits \in 134..200 -> (s * 3) \div 2
    [] bits <= 33 -> s \div 4 [] bits \in 34..49 -> s \div 2 [] bits \in 50..66 -> (s * 3) \div 4
    [] bits \in 67..133 -> s
LateScore(s, h) == IF h >= 4 THEN s * 4 ELSE IF h > 0 THEN s * 2 ELSE s
DeepScore(s, d) ==
  CASE d \in 0..3 -> s [] d \in 4..7 -> s * 2 [] d \in 8..13 -> s * 3 [] d \in 14..25 -> s * 4 [] OTHER -> s * 5
calculate_score(q) ==
  Smaller(DeepScore(LateScore(CoverScore(SpeedScore(q.us), q.bits), q.handicap), q.depth),
          HAVOC_MAX_MULT * 100)

HavocInit ==
  /\ \E q \in Entries :
       /\ perf_score = calculate_score(q)
       /\ handicap = IF q.handicap >= 4 THEN q.handicap - 4 ELSE Larger(q.handicap - 1, 0)
  /\ orig_perf = perf_score
  /\ queue_len \in Lens /\ len = queue_len /\ in_size = queue_len /\ spliced = FALSE
  /\ temp_len = len /\ size = len
  /\ doing_det \in BOOLEAN /\ rlim \in 1..3
  /\ step = "havoc" /\ stage_cur = 0 /\ stage_max = 0 /\ tweaks = 0 /\ splice_cycle = 0 /\ wild = FALSE

(* havoc_stage: how many runs. *)
Cycles == IF splice_cycle > 0 THEN SPLICE_HAVOC ELSE IF doing_det THEN HAVOC_CYCLES_INIT ELSE HAVOC_CYCLES
FirstStageMax == Larger(((Cycles * orig_perf) \div havoc_div) \div 100, HAVOC_MIN)
StartHavoc ==
  /\ step = "havoc" /\ step' = "stack"
  /\ perf_score' = IF splice_cycle > 0 THEN orig_perf ELSE perf_score
  /\ stage_max' = FirstStageMax /\ stage_cur' = 0
  /\ temp_len' = len
  /\ UNCHANGED <<handicap, queue_len, len, in_size, spliced, size, orig_perf, doing_det, tweaks, splice_cycle, rlim, wild>>

Buffers == <<handicap, queue_len, len, in_size, spliced, orig_perf, doing_det, splice_cycle, rlim>>
Stack ==
  /\ step = "stack" /\ stage_cur < stage_max
  /\ \E n \in UR(HAVOC_STACK_POW2) : tweaks' = 2^(1 + n)
  /\ step' = "tweak"
  /\ UNCHANGED <<Buffers, temp_len, size, perf_score, stage_cur, stage_max, wild>>
-----------------------------------------------------------------------------
(* Lengths of blocks; the longer ones come late. *)
choose_block_len(limit) ==
  LET Class(c) == CASE c = 0 -> [min |-> 1, max |-> HAVOC_BLK_SMALL]
                    [] c = 1 -> [min |-> HAVOC_BLK_SMALL, max |-> HAVOC_BLK_MEDIUM]
                    [] c = 2 -> [min |-> HAVOC_BLK_MEDIUM, max |-> HAVOC_BLK_LARGE]
  IN UNION {LET min == IF Class(c).min >= limit THEN 1 ELSE Class(c).min
                room == Smaller(Class(c).max, limit) - min + 1
            IN IF room < 1 THEN {-1} ELSE {min + r : r \in UR(room)} : c \in UR(rlim)}

Inside(from, n, limit) == from >= 0 /\ n >= 0 /\ from + n <= limit
Tweaked(l, s, ok) == temp_len' = l /\ size' = s /\ wild' = (wild \/ ~ok)
Same(ok) == Tweaked(temp_len, size, ok)

(* A value of n bytes somewhere: flips, interesting values, sums. *)
TweakValue ==
  \E n \in {1, 2, 4} :
    IF n > 1 /\ temp_len < n THEN Same(TRUE)
    ELSE \E pos \in UR(temp_len - (n - 1)) : Same(Inside(pos, n, size))
TweakDelete ==
  IF temp_len < 2 THEN Same(TRUE)
  ELSE \E n \in choose_block_len(temp_len - 1) : \E from \in UR(temp_len - n + 1) :
         Tweaked(temp_len - n, size, Inside(from, n, size) /\ Inside(from + n, temp_len - from - n, size))
(* A copy of some bytes, in a new buffer. *)
TweakClone ==
  IF temp_len + HAVOC_BLK_LARGE >= MAX_FILE THEN Same(TRUE)
  ELSE \E n \in choose_block_len(temp_len) :
         \E from \in UR(temp_len - n + 1), to \in UR(temp_len) :
           Tweaked(temp_len + n, temp_len + n,
                   Inside(0, to, size) /\ Inside(from, n, size) /\ Inside(to, temp_len - to, size))
TweakCopy ==
  IF temp_len < 2 THEN Same(TRUE)
  ELSE \E n \in choose_block_len(temp_len - 1) :
         \E from \in UR(temp_len - n + 1), to \in UR(temp_len - n + 1) :
           Same(Inside(from, n, size) /\ Inside(to, n, size))
(* Any token of the two dictionaries may be drawn. *)
TweakExtra ==
  \E n \in Extras :
    IF n > temp_len THEN Same(TRUE)
    ELSE \E pos \in UR(temp_len - n + 1) : Same(Inside(pos, n, size))
TweakInsert ==
  \E n \in Extras :
    IF temp_len + n >= MAX_FILE THEN Same(TRUE)
    ELSE \E pos \in UR(temp_len) :
           Tweaked(temp_len + n, temp_len + n, Inside(0, pos, size) /\ Inside(pos, temp_len - pos, size))
Tweak ==
  /\ step = "tweak" /\ tweaks > 0 /\ tweaks' = tweaks - 1
  /\ TweakValue \/ TweakDelete \/ TweakClone \/ TweakCopy \/ TweakExtra \/ TweakInsert
  /\ UNCHANGED <<Buffers, step, perf_score, stage_cur, stage_max>>
-----------------------------------------------------------------------------
(* Mutant: the buffer keeps the memory that it has. *)
RestoredSizeKept == size
(* Is the memory of a shortened buffer long enough to hold the input again?  *)
RestoredSize == IF temp_len < len THEN len ELSE size
MoreScore(found) == IF found /\ perf_score <= HAVOC_MAX_MULT * 100 THEN perf_score * 2 ELSE perf_score
RunTweaked ==
  /\ step = "tweak" /\ tweaks = 0
  /\ size' = RestoredSize /\ temp_len' = len
  /\ wild' = (wild \/ ~Inside(0, len, size') \/ ~Inside(0, len, in_size))
  /\ \E found \in BOOLEAN :
       /\ perf_score' = MoreScore(found)
       /\ stage_max' = IF found /\ perf_score <= HAVOC_MAX_MULT * 100 THEN stage_max * 2 ELSE stage_max
  /\ stage_cur' = stage_cur + 1 /\ step' = "stack"
  /\ UNCHANGED <<Buffers, tweaks>>

EndStage ==
  /\ step = "stack" /\ stage_cur >= stage_max /\ step' = "splice"
  /\ stage_cur' = 0 /\ stage_max' = 0
  /\ UNCHANGED <<Buffers, temp_len, size, perf_score, tweaks, wild>>

(* Another entry, joined to this one between the first and the last byte in  *)
(* which they differ; -1 where they do not differ.  Entries that do not fit  *)
(* cost a cycle.                                                            *)
Splice ==
  /\ step = "splice" /\ splice_cycle < SPLICE_CYCLES /\ queue_len > 1
  /\ splice_cycle' = splice_cycle + 1
  /\ \E target \in Targets :
       LET both == Smaller(queue_len, target)
       IN \E f_diff \in -1..(both - 1), l_diff \in -1..(both - 1) :
            /\ f_diff <= l_diff /\ (f_diff = -1) = (l_diff = -1)
            /\ IF target < 2 \/ f_diff < 0 \/ l_diff < 2 \/ f_diff = l_diff
               THEN /\ len' = queue_len /\ in_size' = queue_len /\ spliced' = FALSE
                    /\ UNCHANGED <<step, temp_len, size, wild>>
               ELSE /\ len' = target /\ in_size' = target /\ spliced' = TRUE
                    /\ temp_len' = target /\ size' = target /\ step' = "havoc"
                    /\ \E split_at \in {f_diff + r : r \in UR(l_diff - f_diff)} :
                         wild' = (wild \/ ~Inside(0, split_at, Smaller(target, queue_len)))
  /\ UNCHANGED <<handicap, queue_len, perf_score, orig_perf, doing_det, stage_cur, stage_max, tweaks, rlim>>

(* The end, or a run that ends the work on this entry. *)
LeaveHavoc ==
  /\ step # "end" /\ step' = "end"
  /\ stage_cur' = 0 /\ stage_max' = 0 /\ tweaks' = 0
  /\ UNCHANGED <<Buffers, temp_len, size, perf_score, wild>>

HavocNext == StartHavoc \/ Stack \/ Tweak \/ RunTweaked \/ EndStage \/ Splice \/ LeaveHavoc
HavocSpec == HavocInit /\ [][HavocNext]_havocVars
-----------------------------------------------------------------------------
(* Whatever tweaks are stacked, and after every splice: no tweak leaves its  *)
(* buffer or draws from nothing, no input is empty or longer than MAX_FILE,  *)
(* and the input fits again into the memory that deletions, copies and       *)
(* insertions have left behind.  And however often a stage finds something   *)
(* and doubles, it stays within twice the largest multiple of its length.    *)
HavocInBounds ==
  /\ ~wild /\ temp_len \in 1..MAX_FILE /\ temp_len <= size
  /\ stage_max * orig_perf <= FirstStageMax * 2 * HAVOC_MAX_MULT * 100
=============================================================================
