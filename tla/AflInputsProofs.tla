--------------------------- MODULE AflInputsProofs --------------------------
(***************************************************************************)
(* Proofs about how afl-fuzz makes and keeps inputs.  AflHavoc.tla, for    *)
(* all lengths of inputs, blocks and tokens and any number of stacked      *)
(* tweaks, runs and splices: every access is in bounds.  AflQueue.tla, for *)
(* any bitmap, any queue and any target: the counters and references of    *)
(* the queue are exact, and the favored entries cover what was seen.       *)
(* AflDictionary.tla, for any input, tokens and paths: every run of the    *)
(* stages that use tokens has exactly one of them in the input, and the    *)
(* tokens found are the rows of bytes with one new path.                   *)
(***************************************************************************)
EXTENDS AflHavoc, AflQueue, AflDictionary, FiniteSetTheorems, SequenceTheorems, NaturalsInduction, WellFoundedInduction, TLAPS
-----------------------------------------------------------------------------
(*                               AflHavoc                                  *)

MaxScore == HAVOC_MAX_MULT * 100

Lengths ==
  /\ len \in 1..MAX_FILE /\ queue_len \in 1..MAX_FILE /\ temp_len \in 1..MAX_FILE
  /\ in_size = len
  /\ size \in Nat /\ temp_len <= size
  /\ step = "havoc" => len <= size

(* The stage is as much longer than at its start as the score is higher.   *)
Scores ==
  /\ orig_perf \in Nat /\ perf_score \in Nat /\ stage_max \in Nat
  /\ orig_perf <= MaxScore
  /\ splice_cycle \in Nat /\ rlim \in 1..3
  /\ step = "havoc" /\ splice_cycle = 0 => perf_score = orig_perf
  /\ IF step \in {"stack", "tweak"} THEN /\ stage_max * orig_perf = FirstStageMax * perf_score
                                         /\ perf_score <= 2 * MaxScore
     ELSE stage_max = 0

HavocInv == wild \in BOOLEAN /\ ~wild /\ Lengths /\ Scores
-----------------------------------------------------------------------------
(*                              Arithmetic                                 *)

LEMMA Products ==
  /\ \A a, b, c \in Nat : b <= c => a * b <= a * c
  /\ \A s, o, f, p \in Nat : s * o = f * p => (s * 2) * o = f * (p * 2)
  /\ \A f, m \in Nat : f * (2 * (m * 100)) = f * 2 * m * 100
  /\ \A a, b \in Nat : a * b \in Nat
<1>1. ASSUME NEW a \in Nat, NEW b \in Nat, NEW c \in Nat, b <= c PROVE a * b <= a * c
  <2>1. a * c = a * b + a * (c - b)
    OBVIOUS
  <2>2. a * (c - b) >= 0
    BY <1>1
  <2> QED
    BY <2>1, <2>2
<1>2. ASSUME NEW s \in Nat, NEW o \in Nat, NEW f \in Nat, NEW p \in Nat, s * o = f * p
      PROVE (s * 2) * o = f * (p * 2)
  BY <1>2
<1>3. ASSUME NEW f \in Nat, NEW m \in Nat PROVE f * (2 * (m * 100)) = f * 2 * m * 100
  OBVIOUS
<1>4. ASSUME NEW a \in Nat, NEW b \in Nat PROVE a * b \in Nat
  OBVIOUS
<1> QED
  BY <1>1, <1>2, <1>3, <1>4

LEMMA ChooseFrom == ASSUME NEW n \in Int, n >= 1, NEW r \in UR(n) PROVE r \in Nat /\ r < n
  BY DEF UR

LEMMA Sizes ==
  /\ HAVOC_CYCLES \in Nat /\ HAVOC_CYCLES_INIT \in Nat /\ SPLICE_HAVOC \in Nat /\ HAVOC_MIN \in Nat
  /\ HAVOC_MAX_MULT \in Nat /\ MAX_FILE \in Nat
  /\ HAVOC_BLK_SMALL \in Nat \ {0} /\ HAVOC_BLK_MEDIUM \in Nat \ {0} /\ HAVOC_BLK_LARGE \in Nat \ {0}
  /\ MaxScore \in Nat
<1>1. HAVOC_MAX_MULT \in Nat
  BY HavocAssumption
<1>2. MaxScore \in Nat
  BY <1>1 DEF MaxScore
<1> QED
  BY <1>2, HavocAssumption

(* A block is neither empty nor longer than what it is taken from.         *)
LEMMA BlockLen ==
  ASSUME NEW limit \in Nat, limit >= 1, rlim \in 1..3, NEW n \in choose_block_len(limit)
  PROVE  n \in Nat /\ 1 <= n /\ n <= limit /\ n <= HAVOC_BLK_LARGE
<1> DEFINE Class(c) == CASE c = 0 -> [min |-> 1, max |-> HAVOC_BLK_SMALL]
                         [] c = 1 -> [min |-> HAVOC_BLK_SMALL, max |-> HAVOC_BLK_MEDIUM]
                         [] c = 2 -> [min |-> HAVOC_BLK_MEDIUM, max |-> HAVOC_BLK_LARGE]
<1> DEFINE min(c) == IF Class(c).min >= limit THEN 1 ELSE Class(c).min
<1> DEFINE room(c) == Smaller(Class(c).max, limit) - min(c) + 1
<1>1. PICK c \in UR(rlim) : n \in (IF room(c) < 1 THEN {-1} ELSE {min(c) + r : r \in UR(room(c))})
  BY DEF choose_block_len
<1>2. c \in {0, 1, 2}
  BY <1>1, ChooseFrom
<1>3. /\ Class(c).min \in Nat /\ Class(c).max \in Nat /\ 1 <= Class(c).min
      /\ Class(c).min <= Class(c).max /\ Class(c).max <= HAVOC_BLK_LARGE
  <2>1. HAVOC_BLK_SMALL <= HAVOC_BLK_MEDIUM /\ HAVOC_BLK_MEDIUM <= HAVOC_BLK_LARGE
    BY HavocAssumption
  <2>2. CASE c = 0
    BY <2>1, <2>2, Sizes
  <2>3. CASE c = 1
    BY <2>1, <2>3, Sizes
  <2>4. CASE c = 2
    BY <2>1, <2>4, Sizes
  <2> QED
    BY <1>2, <2>2, <2>3, <2>4
<1> HIDE DEF Class
<1>4. PICK lo \in Nat, hi \in Nat : lo = Class(c).min /\ hi = Class(c).max
  BY <1>3
<1>5. PICK m \in Nat : m = min(c)
  BY <1>3, <1>4
<1>6. 1 <= m /\ m <= hi /\ m <= limit
  BY <1>3, <1>4, <1>5
<1>7. PICK s \in Nat : s = Smaller(hi, limit)
  BY DEF Smaller
<1>8. m <= s /\ s <= limit /\ s <= HAVOC_BLK_LARGE
  BY <1>3, <1>4, <1>6, <1>7, Sizes DEF Smaller
<1>9. room(c) = s - m + 1
  BY <1>4, <1>5, <1>7
<1> HIDE DEF min, room
<1>10. PICK r \in UR(s - m + 1) : n = m + r
  BY <1>1, <1>5, <1>8, <1>9
<1>11. r \in Nat /\ r < s - m + 1
  BY <1>8, <1>10, ChooseFrom
<1> QED
  BY <1>6, <1>8, <1>10, <1>11, Sizes

LEMMA StageMaxNat == Scores => FirstStageMax \in Nat
<1> SUFFICES ASSUME Scores PROVE FirstStageMax \in Nat
  OBVIOUS
<1>1. PICK c \in Nat : c = Cycles
  BY Sizes DEF Cycles
<1>2. PICK o \in Nat : o = orig_perf
  BY DEF Scores
<1>3. PICK p \in Nat : p = c * o
  BY Products
<1>4. PICK h \in Nat \ {0} : h = havoc_div
  BY HavocAssumption
<1>5. PICK e \in Nat : e = (Cycles * orig_perf) \div havoc_div
  <2>1. Cycles * orig_perf = p
    BY <1>1, <1>2, <1>3
  <2>2. p \div h \in Nat
    OBVIOUS
  <2> QED
    BY <2>1, <2>2, <1>4
<1>6. PICK d \in Nat : d = ((Cycles * orig_perf) \div havoc_div) \div 100
  <2>1. e \div 100 \in Nat
    OBVIOUS
  <2> QED
    BY <2>1, <1>5
<1>7. FirstStageMax = Larger(d, HAVOC_MIN)
  BY <1>6 DEF FirstStageMax
<1> QED
  BY <1>7, Sizes DEF Larger
-----------------------------------------------------------------------------
(*                          The initial state                              *)

LEMMA CoverNat == ASSUME NEW s \in Nat, NEW b \in Nat PROVE CoverScore(s, b) \in Nat
<1>1. /\ s * 3 \in Nat /\ s * 2 \in Nat /\ s \div 4 \in Nat /\ s \div 2 \in Nat
      /\ (s * 3) \div 2 \in Nat /\ (s * 3) \div 4 \in Nat
  OBVIOUS
<1>2. CASE b > 333
  BY <1>1, <1>2 DEF CoverScore
<1>3. CASE b \in 201..333
  BY <1>1, <1>3 DEF CoverScore
<1>4. CASE b \in 134..200
  BY <1>1, <1>4 DEF CoverScore
<1>5. CASE b <= 33
  BY <1>1, <1>5 DEF CoverScore
<1>6. CASE b \in 34..49
  BY <1>1, <1>6 DEF CoverScore
<1>7. CASE b \in 50..66
  BY <1>1, <1>7 DEF CoverScore
<1>8. CASE b \in 67..133
  BY <1>8 DEF CoverScore
<1> QED
  BY <1>2, <1>3, <1>4, <1>5, <1>6, <1>7, <1>8

LEMMA SpeedNat == ASSUME NEW us \in Nat PROVE SpeedScore(us) \in Nat
<1>1. us > 1000 => SpeedScore(us) \in Nat
  BY SMTT(60) DEF SpeedScore
<1>2. CASE us \in 201..1000
  <2>1. CASE us \in 401..1000
    BY <2>1, SMTT(60) DEF SpeedScore
  <2>2. CASE us \in 201..400
    BY <2>2, SMTT(60) DEF SpeedScore
  <2> QED
    BY <1>2, <2>1, <2>2
<1>3. CASE us \in 50..200
  <2>1. CASE us \in 134..200
    BY <2>1, SMTT(60) DEF SpeedScore
  <2>2. CASE us \in 50..133
    BY <2>2, SMTT(60) DEF SpeedScore
  <2> QED
    BY <1>3, <2>1, <2>2
<1>4. CASE us \in 25..49
  <2>1. CASE us \in 25..33
    BY <2>1, SMTT(60) DEF SpeedScore
  <2>2. CASE us \in 34..49
    BY <2>2, SMTT(60) DEF SpeedScore
  <2> QED
    BY <1>4, <2>1, <2>2
<1>5. us < 25 => SpeedScore(us) \in Nat
  BY SMTT(60) DEF SpeedScore
<1> QED
  BY <1>1, <1>2, <1>3, <1>4, <1>5

LEMMA ScoreNat == ASSUME NEW q \in Entries PROVE calculate_score(q) \in Nat /\ calculate_score(q) <= MaxScore
<1>1. q.us \in Nat /\ q.bits \in Nat /\ q.handicap \in Nat /\ q.depth \in Nat
  BY HavocAssumption
<1>2. PICK s1 \in Nat : s1 = SpeedScore(q.us)
  BY <1>1, SpeedNat
<1>3. PICK s2 \in Nat : s2 = CoverScore(s1, q.bits)
  BY <1>1, CoverNat
<1>4. PICK s3 \in Nat : s3 = LateScore(s2, q.handicap)
  BY <1>1 DEF LateScore
<1>5. PICK s4 \in Nat : s4 = DeepScore(s3, q.depth)
  BY <1>1 DEF DeepScore
<1>6. calculate_score(q) = Smaller(s4, MaxScore)
  BY <1>2, <1>3, <1>4, <1>5 DEF calculate_score, MaxScore
<1> QED
  BY <1>6, Sizes DEF Smaller

LEMMA InitHavoc == HavocInit => HavocInv
<1> SUFFICES ASSUME HavocInit PROVE HavocInv
  OBVIOUS
<1>1. perf_score \in Nat /\ perf_score <= MaxScore
  BY ScoreNat DEF HavocInit
<1>2. queue_len \in 1..MAX_FILE
  BY HavocAssumption DEF HavocInit
<1>3. Lengths
  BY <1>2, Sizes DEF HavocInit, Lengths
<1>4. Scores
  BY <1>1 DEF HavocInit, Scores
<1> QED
  BY <1>3, <1>4 DEF HavocInit, HavocInv
-----------------------------------------------------------------------------
(*                               The tweaks                                *)

(* A tweak may do anything to temp_len and size within these bounds.       *)
Bounded == /\ temp_len' \in 1..MAX_FILE /\ size' \in Nat /\ temp_len' <= size' /\ (wild' = wild)

LEMMA BufferFacts ==
  Lengths => /\ temp_len \in Nat /\ 1 <= temp_len /\ temp_len <= MAX_FILE /\ temp_len <= size
             /\ size \in Nat /\ len \in Nat /\ 1 <= len /\ len <= MAX_FILE
             /\ queue_len \in Nat /\ 1 <= queue_len /\ queue_len <= MAX_FILE
  BY Sizes DEF Lengths

LEMMA SameBounded == ASSUME Lengths, temp_len' = temp_len, size' = size, wild' = wild PROVE Bounded
  BY DEF Bounded, Lengths

LEMMA NothingDone == ASSUME Lengths, ~wild, wild \in BOOLEAN, Same(TRUE) PROVE Bounded
  BY SameBounded DEF Same, Tweaked

LEMMA ValueBounded == ASSUME Lengths, ~wild, wild \in BOOLEAN, TweakValue PROVE Bounded
<1>1. PICK n \in {1, 2, 4} : IF n > 1 /\ temp_len < n THEN Same(TRUE)
                             ELSE \E pos \in UR(temp_len - (n - 1)) : Same(Inside(pos, n, size))
  BY DEF TweakValue
<1>2. CASE n > 1 /\ temp_len < n
  BY <1>1, <1>2, NothingDone
<1>3. CASE ~(n > 1 /\ temp_len < n)
  <2>1. PICK pos \in UR(temp_len - (n - 1)) : Same(Inside(pos, n, size))
    BY <1>1, <1>3
  <2>2. temp_len - (n - 1) \in Int /\ temp_len - (n - 1) >= 1
    BY <1>3, BufferFacts
  <2>3. pos \in Nat /\ pos < temp_len - (n - 1)
    BY <2>1, <2>2, ChooseFrom
  <2>4. Inside(pos, n, size)
    BY <2>3, BufferFacts DEF Inside
  <2>5. temp_len' = temp_len /\ size' = size /\ wild' = wild
    BY <2>1, <2>4 DEF Same, Tweaked
  <2> QED
    BY <2>5, SameBounded
<1> QED
  BY <1>2, <1>3

LEMMA DeleteBounded == ASSUME Lengths, ~wild, wild \in BOOLEAN, rlim \in 1..3, TweakDelete PROVE Bounded
<1>1. CASE temp_len < 2
  BY <1>1, NothingDone DEF TweakDelete
<1>2. CASE ~(temp_len < 2)
  <2>1. PICK n \in choose_block_len(temp_len - 1) : \E from \in UR(temp_len - n + 1) :
          Tweaked(temp_len - n, size, Inside(from, n, size) /\ Inside(from + n, temp_len - from - n, size))
    BY <1>2 DEF TweakDelete
  <2>2. PICK from \in UR(temp_len - n + 1) :
          Tweaked(temp_len - n, size, Inside(from, n, size) /\ Inside(from + n, temp_len - from - n, size))
    BY <2>1
  <2>3. temp_len - 1 \in Nat /\ temp_len - 1 >= 1
    BY <1>2, BufferFacts
  <2>4. n \in Nat /\ 1 <= n /\ n <= temp_len - 1
    BY <2>1, <2>3, BlockLen
  <2>5. temp_len - n + 1 \in Int /\ temp_len - n + 1 >= 1
    BY <2>4, BufferFacts
  <2>6. from \in Nat /\ from < temp_len - n + 1
    BY <2>2, <2>5, ChooseFrom
  <2>7. Inside(from, n, size) /\ Inside(from + n, temp_len - from - n, size)
    BY <2>4, <2>6, BufferFacts DEF Inside
  <2>8. temp_len' = temp_len - n /\ size' = size /\ wild' = wild
    BY <2>2, <2>7 DEF Tweaked
  <2> QED
    BY <2>4, <2>8, BufferFacts, Sizes DEF Bounded
<1> QED
  BY <1>1, <1>2

LEMMA CloneBounded == ASSUME Lengths, ~wild, wild \in BOOLEAN, rlim \in 1..3, TweakClone PROVE Bounded
<1>1. CASE temp_len + HAVOC_BLK_LARGE >= MAX_FILE
  BY <1>1, NothingDone DEF TweakClone
<1>2. CASE ~(temp_len + HAVOC_BLK_LARGE >= MAX_FILE)
  <2>1. PICK n \in choose_block_len(temp_len) : \E from \in UR(temp_len - n + 1), to \in UR(temp_len) :
          Tweaked(temp_len + n, temp_len + n,
                  Inside(0, to, size) /\ Inside(from, n, size) /\ Inside(to, temp_len - to, size))
    BY <1>2 DEF TweakClone
  <2>2. PICK from \in UR(temp_len - n + 1), to \in UR(temp_len) :
          Tweaked(temp_len + n, temp_len + n,
                  Inside(0, to, size) /\ Inside(from, n, size) /\ Inside(to, temp_len - to, size))
    BY <2>1
  <2>3. n \in Nat /\ 1 <= n /\ n <= temp_len /\ n <= HAVOC_BLK_LARGE
    BY <2>1, BufferFacts, BlockLen
  <2>4. temp_len - n + 1 \in Int /\ temp_len - n + 1 >= 1
    BY <2>3, BufferFacts
  <2>5. from \in Nat /\ from < temp_len - n + 1 /\ to \in Nat /\ to < temp_len
    BY <2>2, <2>4, BufferFacts, ChooseFrom
  <2>6. Inside(0, to, size) /\ Inside(from, n, size) /\ Inside(to, temp_len - to, size)
    BY <2>3, <2>5, BufferFacts DEF Inside
  <2>7. temp_len' = temp_len + n /\ size' = temp_len + n /\ wild' = wild
    BY <2>2, <2>6 DEF Tweaked
  <2> QED
    BY <1>2, <2>3, <2>7, BufferFacts, Sizes DEF Bounded
<1> QED
  BY <1>1, <1>2

LEMMA CopyBounded == ASSUME Lengths, ~wild, wild \in BOOLEAN, rlim \in 1..3, TweakCopy PROVE Bounded
<1>1. CASE temp_len < 2
  BY <1>1, NothingDone DEF TweakCopy
<1>2. CASE ~(temp_len < 2)
  <2>1. PICK n \in choose_block_len(temp_len - 1) :
          \E from \in UR(temp_len - n + 1), to \in UR(temp_len - n + 1) :
            Same(Inside(from, n, size) /\ Inside(to, n, size))
    BY <1>2 DEF TweakCopy
  <2>2. PICK from \in UR(temp_len - n + 1), to \in UR(temp_len - n + 1) :
          Same(Inside(from, n, size) /\ Inside(to, n, size))
    BY <2>1
  <2>3. temp_len - 1 \in Nat /\ temp_len - 1 >= 1
    BY <1>2, BufferFacts
  <2>4. n \in Nat /\ 1 <= n /\ n <= temp_len - 1
    BY <2>1, <2>3, BlockLen
  <2>5. temp_len - n + 1 \in Int /\ temp_len - n + 1 >= 1
    BY <2>4, BufferFacts
  <2>6. from \in Nat /\ from < temp_len - n + 1 /\ to \in Nat /\ to < temp_len - n + 1
    BY <2>2, <2>5, ChooseFrom
  <2>7. Inside(from, n, size) /\ Inside(to, n, size)
    BY <2>4, <2>6, BufferFacts DEF Inside
  <2>8. temp_len' = temp_len /\ size' = size /\ wild' = wild
    BY <2>2, <2>7 DEF Same, Tweaked
  <2> QED
    BY <2>8, SameBounded
<1> QED
  BY <1>1, <1>2

LEMMA ExtraBounded == ASSUME Lengths, ~wild, wild \in BOOLEAN, TweakExtra PROVE Bounded
<1>1. PICK n \in Extras : IF n > temp_len THEN Same(TRUE)
                          ELSE \E pos \in UR(temp_len - n + 1) : Same(Inside(pos, n, size))
  BY DEF TweakExtra
<1>2. n \in Nat /\ n >= 1
  BY HavocAssumption
<1>3. CASE n > temp_len
  BY <1>1, <1>3, NothingDone
<1>4. CASE ~(n > temp_len)
  <2>1. PICK pos \in UR(temp_len - n + 1) : Same(Inside(pos, n, size))
    BY <1>1, <1>4
  <2>2. temp_len - n + 1 \in Int /\ temp_len - n + 1 >= 1
    BY <1>2, <1>4, BufferFacts
  <2>3. pos \in Nat /\ pos < temp_len - n + 1
    BY <2>1, <2>2, ChooseFrom
  <2>4. Inside(pos, n, size)
    BY <1>2, <2>3, BufferFacts DEF Inside
  <2>5. temp_len' = temp_len /\ size' = size /\ wild' = wild
    BY <2>1, <2>4 DEF Same, Tweaked
  <2> QED
    BY <2>5, SameBounded
<1> QED
  BY <1>3, <1>4

LEMMA InsertBounded == ASSUME Lengths, ~wild, wild \in BOOLEAN, TweakInsert PROVE Bounded
<1>1. PICK n \in Extras :
        IF temp_len + n >= MAX_FILE THEN Same(TRUE)
        ELSE \E pos \in UR(temp_len) :
               Tweaked(temp_len + n, temp_len + n, Inside(0, pos, size) /\ Inside(pos, temp_len - pos, size))
  BY DEF TweakInsert
<1>2. n \in Nat /\ n >= 1
  BY HavocAssumption
<1>3. CASE temp_len + n >= MAX_FILE
  BY <1>1, <1>3, NothingDone
<1>4. CASE ~(temp_len + n >= MAX_FILE)
  <2>1. PICK pos \in UR(temp_len) :
          Tweaked(temp_len + n, temp_len + n, Inside(0, pos, size) /\ Inside(pos, temp_len - pos, size))
    BY <1>1, <1>4
  <2>2. pos \in Nat /\ pos < temp_len
    BY <2>1, BufferFacts, ChooseFrom
  <2>3. Inside(0, pos, size) /\ Inside(pos, temp_len - pos, size)
    BY <2>2, BufferFacts DEF Inside
  <2>4. temp_len' = temp_len + n /\ size' = temp_len + n /\ wild' = wild
    BY <2>1, <2>3 DEF Tweaked
  <2> QED
    BY <1>2, <1>4, <2>4, BufferFacts, Sizes DEF Bounded
<1> QED
  BY <1>3, <1>4
-----------------------------------------------------------------------------
(*                        Every step keeps HavocInv                        *)

LEMMA KeepsHavoc == ASSUME wild' = wild, HavocInv, Lengths', Scores' PROVE HavocInv'
  BY DEF HavocInv

(* What a stage's length is measured by does not change while it runs.     *)
LEMMA SameStage == ASSUME UNCHANGED Buffers PROVE FirstStageMax' = FirstStageMax
  BY DEF Buffers, FirstStageMax, Cycles

LEMMA StartKeeps == ASSUME HavocInv, StartHavoc PROVE HavocInv'
<1>1. /\ Lengths /\ Scores /\ step = "havoc" /\ step' = "stack" /\ wild' = wild
      /\ orig_perf' = orig_perf /\ splice_cycle' = splice_cycle /\ rlim' = rlim
      /\ stage_max' = FirstStageMax
      /\ perf_score' = IF splice_cycle > 0 THEN orig_perf ELSE perf_score
  BY DEF HavocInv, StartHavoc
<1>2. Lengths'
  BY <1>1 DEF StartHavoc, Lengths
<1>3. perf_score' = orig_perf
  BY <1>1 DEF Scores
<1>4. FirstStageMax' = FirstStageMax
  BY DEF StartHavoc, FirstStageMax, Cycles
<1>5. FirstStageMax \in Nat
  BY <1>1, StageMaxNat
<1>6. orig_perf \in Nat /\ orig_perf <= 2 * MaxScore
  BY <1>1, Sizes DEF Scores
<1>7. Scores'
  BY <1>1, <1>3, <1>4, <1>5, <1>6 DEF Scores, MaxScore
<1> QED
  BY <1>1, <1>2, <1>7, KeepsHavoc

LEMMA StackKeeps == ASSUME HavocInv, Stack PROVE HavocInv'
<1>1. /\ Lengths /\ Scores /\ step = "stack" /\ step' = "tweak" /\ wild' = wild
      /\ UNCHANGED Buffers
  BY DEF HavocInv, Stack
<1>2. Lengths'
  BY <1>1 DEF Stack, Lengths, Buffers
<1>3. FirstStageMax' = FirstStageMax
  BY <1>1, SameStage
<1>4. Scores'
  BY <1>1, <1>3 DEF Stack, Scores, MaxScore, Buffers
<1> QED
  BY <1>1, <1>2, <1>4, KeepsHavoc

LEMMA TweakKeeps == ASSUME HavocInv, Tweak PROVE HavocInv'
<1>1. /\ Lengths /\ Scores /\ ~wild /\ wild \in BOOLEAN /\ step = "tweak" /\ step' = "tweak"
      /\ UNCHANGED Buffers /\ UNCHANGED <<perf_score, stage_max>>
  BY DEF HavocInv, Tweak
<1>2. rlim \in 1..3
  BY <1>1 DEF Scores
<1>3. Bounded
  BY <1>1, <1>2, ValueBounded, DeleteBounded, CloneBounded, CopyBounded, ExtraBounded, InsertBounded DEF Tweak
<1>4. Lengths'
  BY <1>1, <1>3 DEF Lengths, Buffers, Bounded
<1>5. FirstStageMax' = FirstStageMax
  BY <1>1, SameStage
<1>6. Scores'
  BY <1>1, <1>5 DEF Scores, MaxScore, Buffers
<1> QED
  BY <1>1, <1>3, <1>4, <1>6, KeepsHavoc DEF Bounded

LEMMA RunKeeps == ASSUME HavocInv, RunTweaked PROVE HavocInv'
<1>1. /\ Lengths /\ Scores /\ ~wild /\ wild \in BOOLEAN /\ step = "tweak" /\ step' = "stack"
      /\ UNCHANGED Buffers /\ size' = RestoredSize /\ temp_len' = len
  BY DEF HavocInv, RunTweaked
<1>2. size' \in Nat /\ len <= size'
  BY <1>1, BufferFacts DEF RestoredSize
<1>3. Lengths'
  BY <1>1, <1>2 DEF Lengths, Buffers
<1>4. Inside(0, len, size') /\ Inside(0, len, in_size)
  BY <1>1, <1>2, BufferFacts DEF Inside, Lengths
<1>5. wild' = wild
  BY <1>1, <1>4 DEF RunTweaked
<1>6. FirstStageMax' = FirstStageMax
  BY <1>1, SameStage
<1>7. PICK f \in Nat : f = FirstStageMax
  BY <1>1, StageMaxNat
<1>8. PICK o \in Nat, p \in Nat, s \in Nat : o = orig_perf /\ p = perf_score /\ s = stage_max
  BY <1>1 DEF Scores
<1>9. s * o = f * p /\ p <= 2 * MaxScore
  BY <1>1, <1>7, <1>8 DEF Scores
<1>10. /\ perf_score' \in Nat /\ stage_max' \in Nat /\ perf_score' <= 2 * MaxScore
       /\ stage_max' * o = f * perf_score'
  <2>1. PICK found \in BOOLEAN :
          /\ perf_score' = MoreScore(found)
          /\ stage_max' = IF found /\ perf_score <= HAVOC_MAX_MULT * 100 THEN stage_max * 2 ELSE stage_max
    BY DEF RunTweaked
  <2>2. CASE found /\ perf_score <= MaxScore
    <3>1. perf_score' = p * 2 /\ stage_max' = s * 2 /\ p <= MaxScore
      BY <1>8, <2>1, <2>2 DEF MoreScore, MaxScore
    <3>2. (s * 2) * o = f * (p * 2)
      BY <1>9, Products
    <3>3. p * 2 \in Nat /\ s * 2 \in Nat /\ p * 2 <= 2 * MaxScore
      BY <3>1, Sizes
    <3> QED
      BY <3>1, <3>2, <3>3
  <2>3. CASE ~(found /\ perf_score <= MaxScore)
    <3>1. perf_score' = p /\ stage_max' = s
      BY <1>8, <2>1, <2>3 DEF MoreScore, MaxScore
    <3> QED
      BY <1>9, <3>1
  <2> QED
    BY <2>2, <2>3
<1>11. orig_perf' = o /\ FirstStageMax' = f /\ MaxScore' = MaxScore
  BY <1>1, <1>6, <1>7, <1>8 DEF Buffers, MaxScore
<1>12. Scores'
  BY <1>1, <1>10, <1>11 DEF Scores, Buffers
<1> QED
  BY <1>3, <1>5, <1>12, KeepsHavoc

LEMMA EndKeeps == ASSUME HavocInv, EndStage \/ LeaveHavoc PROVE HavocInv'
<1>1. /\ Lengths /\ Scores /\ wild' = wild /\ step' \in {"splice", "end"} /\ stage_max' = 0
      /\ UNCHANGED Buffers /\ UNCHANGED <<temp_len, size, perf_score>>
  BY DEF HavocInv, EndStage, LeaveHavoc
<1>2. Lengths'
  BY <1>1 DEF Lengths, Buffers
<1>3. Scores'
  BY <1>1 DEF Scores, Buffers, MaxScore
<1> QED
  BY <1>1, <1>2, <1>3, KeepsHavoc

(* Splices are cut at a byte that both inputs have.                        *)
LEMMA SpliceKeeps == ASSUME HavocInv, Splice PROVE HavocInv'
<1>1. /\ Lengths /\ Scores /\ ~wild /\ wild \in BOOLEAN /\ step = "splice"
      /\ splice_cycle' = splice_cycle + 1
      /\ UNCHANGED <<queue_len, perf_score, orig_perf, stage_max, rlim>>
  BY DEF HavocInv, Splice
<1>2. Scores' \/ step' \notin {"splice", "havoc"}
  <2>1. splice_cycle' \in Nat /\ splice_cycle' # 0 /\ stage_max = 0
    BY <1>1 DEF Scores
  <2> QED
    BY <1>1, <2>1 DEF Scores, MaxScore
<1>3. PICK target \in Targets : \E f_diff, l_diff \in -1..(Smaller(queue_len, target) - 1) :
        /\ f_diff <= l_diff /\ (f_diff = -1) = (l_diff = -1)
        /\ IF target < 2 \/ f_diff < 0 \/ l_diff < 2 \/ f_diff = l_diff
           THEN /\ len' = queue_len /\ in_size' = queue_len /\ spliced' = FALSE
                /\ UNCHANGED <<step, temp_len, size, wild>>
           ELSE /\ len' = target /\ in_size' = target /\ spliced' = TRUE
                /\ temp_len' = target /\ size' = target /\ step' = "havoc"
                /\ \E split_at \in {f_diff + r : r \in UR(l_diff - f_diff)} :
                     wild' = (wild \/ ~Inside(0, split_at, Smaller(target, queue_len)))
  BY DEF Splice
<1>4. target \in Nat /\ 1 <= target /\ target <= MAX_FILE
  BY HavocAssumption
<1>5. PICK b \in Nat : b = Smaller(queue_len, target)
  BY <1>1, <1>4, BufferFacts DEF Smaller
<1>6. PICK f_diff \in -1..(b - 1), l_diff \in -1..(b - 1) :
        /\ f_diff <= l_diff
        /\ IF target < 2 \/ f_diff < 0 \/ l_diff < 2 \/ f_diff = l_diff
           THEN /\ len' = queue_len /\ in_size' = queue_len /\ spliced' = FALSE
                /\ UNCHANGED <<step, temp_len, size, wild>>
           ELSE /\ len' = target /\ in_size' = target /\ spliced' = TRUE
                /\ temp_len' = target /\ size' = target /\ step' = "havoc"
                /\ \E split_at \in {f_diff + r : r \in UR(l_diff - f_diff)} :
                     wild' = (wild \/ ~Inside(0, split_at, Smaller(target, queue_len)))
  BY <1>3, <1>5
<1>7. CASE target < 2 \/ f_diff < 0 \/ l_diff < 2 \/ f_diff = l_diff
  <2>1. len' = queue_len /\ in_size' = queue_len /\ UNCHANGED <<step, temp_len, size, wild>>
    BY <1>6, <1>7
  <2>2. Lengths'
    BY <1>1, <2>1 DEF Lengths
  <2> QED
    BY <1>1, <1>2, <2>1, <2>2, KeepsHavoc
<1>8. CASE ~(target < 2 \/ f_diff < 0 \/ l_diff < 2 \/ f_diff = l_diff)
  <2>1. len' = target /\ in_size' = target /\ temp_len' = target /\ size' = target /\ step' = "havoc"
    BY <1>6, <1>8
  <2>2. Lengths'
    BY <1>1, <1>4, <2>1, Sizes DEF Lengths
  <2>3. PICK r \in UR(l_diff - f_diff) : wild' = (wild \/ ~Inside(0, f_diff + r, Smaller(target, queue_len)))
    BY <1>6, <1>8
  <2>4. r \in Nat /\ r < l_diff - f_diff
    BY <1>6, <1>8, <2>3, ChooseFrom
  <2>5. Smaller(target, queue_len) = b
    BY <1>1, <1>4, <1>5, BufferFacts DEF Smaller
  <2>6. Inside(0, f_diff + r, Smaller(target, queue_len))
    BY <1>6, <1>8, <2>4, <2>5 DEF Inside
  <2>7. wild' = wild
    BY <1>1, <2>3, <2>6
  <2> QED
    BY <1>2, <2>1, <2>2, <2>7, KeepsHavoc
<1> QED
  BY <1>7, <1>8

(* HavocInv is what HavocInBounds says, and more.                           *)
LEMMA InBounds == HavocInv => HavocInBounds
<1> SUFFICES ASSUME HavocInv PROVE HavocInBounds
  OBVIOUS
<1>1. ~wild /\ Lengths /\ Scores
  BY DEF HavocInv
<1>2. PICK f \in Nat, m \in Nat : f = FirstStageMax /\ m = HAVOC_MAX_MULT
  BY <1>1, StageMaxNat, Sizes
<1>3. PICK o \in Nat, p \in Nat, s \in Nat : o = orig_perf /\ p = perf_score /\ s = stage_max
  BY <1>1 DEF Scores
<1>4. 2 * (m * 100) \in Nat /\ f * 2 * m * 100 = f * (2 * (m * 100)) /\ f * (2 * (m * 100)) \in Nat
  BY Products
<1>5. s * o <= f * 2 * m * 100
  <2>1. CASE step \in {"stack", "tweak"}
    <3>1. s * o = f * p /\ p <= 2 * (m * 100)
      BY <1>1, <1>2, <1>3, <2>1 DEF Scores, MaxScore
    <3>2. f * p <= f * (2 * (m * 100))
      BY <1>4, <3>1, Products
    <3> QED
      BY <1>4, <3>1, <3>2
  <2>2. CASE step \notin {"stack", "tweak"}
    <3>1. s = 0
      BY <1>1, <1>3, <2>2 DEF Scores
    <3>2. s * o = 0
      BY <3>1
    <3> QED
      BY <1>4, <3>2
  <2> QED
    BY <2>1, <2>2
<1>6. temp_len \in 1..MAX_FILE /\ temp_len <= size
  BY <1>1 DEF Lengths
<1> QED
  BY <1>1, <1>2, <1>3, <1>5, <1>6 DEF HavocInBounds

(* No stack of tweaks and no splice leaves its buffers, draws from nothing, *)
(* or makes an input that is empty or longer than MAX_FILE; and a stage     *)
(* that keeps finding something stops at twice the largest multiple of its  *)
(* length: the havoc stage of fuzz_one.                                     *)
THEOREM HavocStaysInBounds == HavocSpec => []HavocInBounds
<1>1. HavocInit => HavocInv
  BY InitHavoc
<1>2. HavocInv /\ [HavocNext]_havocVars => HavocInv'
  <2> SUFFICES ASSUME HavocInv, [HavocNext]_havocVars PROVE HavocInv'
    OBVIOUS
  <2>1. CASE HavocNext
    BY <2>1, StartKeeps, StackKeeps, TweakKeeps, RunKeeps, EndKeeps, SpliceKeeps DEF HavocNext
  <2>2. CASE UNCHANGED havocVars
    BY <2>2 DEF havocVars, HavocInv, Lengths, Scores, MaxScore, FirstStageMax, Cycles
  <2> QED
    BY <2>1, <2>2
<1>3. HavocInv => HavocInBounds
  BY InBounds
<1> QED
  BY <1>1, <1>2, <1>3, PTL DEF HavocSpec
-----------------------------------------------------------------------------
(*                               AflQueue                                  *)

Fields == {"len", "file", "exec_us", "exec_cksum", "cal_failed", "trim_done", "was_fuzzed", "favored",
           "fs_redundant", "var_behavior", "tc_ref", "trace_mini"}

(* An entry; lengths and times may be anything. *)
GoodEntry(e) ==
  /\ DOMAIN e = Fields
  /\ e.cal_failed \in Nat /\ e.was_fuzzed \in BOOLEAN /\ e.favored \in BOOLEAN
  /\ e.trace_mini \subseteq Bytes /\ e.exec_cksum \in Traces \cup {NoTrace}
GoodQueue(qs) == qs \in Seq(Range(qs)) /\ \A i \in 1..Len(qs) : GoodEntry(qs[i])

(* The bytes that entry i has won, in the table top. *)
Won(top, i) == {b \in Bytes : top[b] = i}
RefsExact(qs, top) ==
  \A i \in 1..Len(qs) :
    /\ qs[i].tc_ref = Cardinality(Won(top, i))
    /\ qs[i].tc_ref > 0 <=> qs[i].trace_mini # {}

(* A small trace and a byte that was won were seen; a byte that was seen    *)
(* has a winner.                                                            *)
SeenExact(qs, top, seen) ==
  /\ \A i \in 1..Len(qs) : qs[i].trace_mini \subseteq seen[i] /\ Won(top, i) \subseteq seen[i]
  /\ \A i \in 1..MaxQueue : \A b \in seen[i] : top[b] # 0

(* As long as no winner changes, the favored entries cover all bytes. *)
Covered(qs, top, seen, changed) ==
  ~changed => \A b \in Bytes : top[b] # 0 => \E i \in 1..Len(qs) : qs[i].favored /\ b \in seen[i]

(* The queue and its table of winners. *)
QueueCore(qs, top, seen, changed) ==
  /\ GoodQueue(qs) /\ Len(qs) \in 1..MaxQueue
  /\ top \in [Bytes -> 0..Len(qs)] /\ seen \in [1..MaxQueue -> SUBSET Bytes] /\ changed \in BOOLEAN
  /\ RefsExact(qs, top) /\ SeenExact(qs, top, seen) /\ Covered(qs, top, seen, changed)

(* Where the main loop is in the queue. *)
CurExact ==
  /\ stop_soon \in BOOLEAN /\ queue_cur \in Nat
  /\ pc \in {"dryRun", "cull", "import", "fuzz_one", "trim", "trimming", "fuzz", "sync", "abandon", "stopped",
            "fatal"}
  /\ pc = "dryRun" => queue_cur >= 1
  /\ pc = "cull" => queue_cur <= Len(queue)
  /\ pc \in {"import", "fuzz_one", "trim", "trimming", "fuzz", "sync", "abandon"} => queue_cur \in 1..Len(queue)
  /\ pc \in {"trim", "trimming", "fuzz"} => queue[queue_cur].cal_failed = 0
  /\ pc = "import" => import_first
  /\ pc = "fuzz_one" /\ ~import_first => ~score_changed

(* Only the entry that is being trimmed can be longer on disk. *)
FilesExact ==
  \A i \in 1..Len(queue) :
    \/ queue[i].file = queue[i].len
    \/ /\ i = queue_cur
       /\ \/ pc = "trimming" /\ trim.needs_write
          \/ pc = "abandon" /\ stop_soon
          \/ pc \in {"stopped", "fatal"}

(* An entry that was not calibrated has won nothing; the others have a      *)
(* checksum.                                                                *)
Uncalibrated(i) == queue[i].cal_failed > 0 \/ (pc = "dryRun" /\ i >= queue_cur)
CalibrationExact ==
  \A i \in 1..Len(queue) :
    /\ Uncalibrated(i) => Won(top_rated, i) = {}
    /\ ~Uncalibrated(i) /\ pc \notin {"stopped", "fatal"} => queue[i].exec_cksum # NoTrace

(* The small trace of an entry that is still to be fuzzed holds all bytes   *)
(* that it has won.  Trimming may add others, from the run that made its    *)
(* checksum; then it is fuzzed before the next cull.                        *)
MiniExact ==
  \A i \in 1..Len(queue) :
    ~queue[i].was_fuzzed /\ ~(i = queue_cur /\ pc \in {"fuzz", "abandon", "stopped", "fatal"})
      => Won(top_rated, i) \subseteq queue[i].trace_mini

(* The favored entries cover the bytes of all entries that the last cull    *)
(* saw, also after the import that follows it.                              *)
CulledCovered ==
  pc \in {"import", "fuzz_one"} =>
    \A i \in 1..Len(queue) : queue[i].favored \/ queue[i].fs_redundant =>
      \A b \in hit[i] : \E j \in 1..Len(queue) : queue[j].favored /\ b \in hit[j]

QueueInv ==
  /\ QueueCore(queue, top_rated, hit, score_changed) /\ CurExact /\ FilesExact
  /\ CalibrationExact /\ MiniExact /\ PendingExact
-----------------------------------------------------------------------------
(*                     Loops over the bytes of the bitmap                  *)

LEMMA LeastIn ==
  ASSUME NEW T, T \subseteq Nat, T # {}
  PROVE  \E x \in T : \A y \in T : x <= y
<1>1. PICK R : (\A x, y \in Nat : y < x => <<y, x>> \in R) /\ IsWellFoundedOn(R, Nat)
  <2>1. \A x, y \in Nat : y < x => <<y, x>> \in OpToRel(<, Nat)
    BY DEF OpToRel
  <2> QED
    BY <2>1, NatLessThanWellFounded, Zenon
<1>2. PICK x \in T : \A y \in T : ~(<<y, x>> \in R)
  BY <1>1, WFMin
<1>3. ASSUME NEW y \in T PROVE x <= y
  <2>1. ~(y < x)
    BY <1>1, <1>2, Zenon
  <2> QED
    BY <2>1
<1> QED
  BY <1>3

(* What holds at first and is kept by every turn holds at the end. *)
LEMMA UpTo ==
  ASSUME NEW n \in Nat, NEW S, 0 \in S, \A k \in 1..n : k - 1 \in S => k \in S
  PROVE  \A k \in 0..n : k \in S
<1> DEFINE T == {k \in 0..n : k \notin S}
<1> SUFFICES ASSUME T # {} PROVE FALSE
  OBVIOUS
<1>1. PICK k \in T : \A j \in T : k <= j
  <2>1. T \subseteq Nat
    OBVIOUS
  <2> HIDE DEF T
  <2> QED
    BY <2>1, LeastIn
<1>2. k \in 1..n /\ k \notin S
  OBVIOUS
<1>3. k - 1 \in 0..n /\ k - 1 \notin T
  BY <1>1, <1>2
<1> QED
  BY <1>2, <1>3

(* The states of the loop of update_bitmap_score, after n bytes. *)
Scoring(n, g, qs, q, t) ==
  g = [b \in 0..n |-> IF b = 0 THEN Scored(qs, top_rated, score_changed) ELSE ScoreByte(g[b - 1], b, q, t)]

LEMMA ScoringExists == ASSUME NEW qs, NEW q, NEW t PROVE \A n \in Nat : \E g : Scoring(n, g, qs, q, t)
<1> DEFINE S == {n \in Nat : \E g : Scoring(n, g, qs, q, t)}
<1>1. 0 \in S
  <2> DEFINE g == [b \in 0..0 |-> Scored(qs, top_rated, score_changed)]
  <2>1. Scoring(0, g, qs, q, t)
    BY DEF Scoring
  <2> QED
    BY <2>1
<1>2. ASSUME NEW n \in Nat \ {0}, n - 1 \in S PROVE n \in S
  <2>1. PICK g : Scoring(n - 1, g, qs, q, t)
    BY <1>2
  <2> DEFINE h == [b \in 0..n |-> IF b = n THEN ScoreByte(g[n - 1], n, q, t) ELSE g[b]]
  <2>2. ASSUME NEW b \in 0..n
        PROVE  h[b] = IF b = 0 THEN Scored(qs, top_rated, score_changed) ELSE ScoreByte(h[b - 1], b, q, t)
    <3>1. b # 0 => h[b - 1] = g[b - 1]
      OBVIOUS
    <3>2. b # n => g[b] = IF b = 0 THEN Scored(qs, top_rated, score_changed) ELSE ScoreByte(g[b - 1], b, q, t)
      BY <2>1 DEF Scoring
    <3> QED
      BY <3>1, <3>2
  <2>3. Scoring(n, h, qs, q, t)
    BY <2>2 DEF Scoring
  <2> QED
    BY <2>3
<1>3. SUFFICES ASSUME NEW n \in Nat PROVE n \in S
  OBVIOUS
<1>4. \A k \in 1..n : k - 1 \in S => k \in S
  BY <1>2
<1>5. \A k \in 0..n : k \in S
  <2> HIDE DEF S
  <2> QED
    BY <1>1, <1>4, UpTo
<1> QED
  BY <1>5

LEMMA ScoreLoop ==
  ASSUME NEW qs, NEW q, NEW t
  PROVE  \E g : /\ g[0] = Scored(qs, top_rated, score_changed)
                /\ \A b \in 1..MapSize : g[b] = ScoreByte(g[b - 1], b, q, t)
                /\ update_bitmap_score(qs, q, t) = g[MapSize]
<1> DEFINE f == CHOOSE g : Scoring(MapSize, g, qs, q, t)
<1>1. Scoring(MapSize, f, qs, q, t)
  BY ScoringExists, QueueAssumption
<1>2. update_bitmap_score(qs, q, t) = f[MapSize]
  BY DEF update_bitmap_score, Scoring
<1> HIDE DEF f
<1>3. f[0] = Scored(qs, top_rated, score_changed) /\ \A b \in 1..MapSize : f[b] = ScoreByte(f[b - 1], b, q, t)
  BY <1>1, QueueAssumption DEF Scoring
<1> QED
  BY <1>2, <1>3
(* The states of the loop of cull_queue. *)
NothingCulled == [temp_v |-> Bytes, favored |-> {}, queued |-> 0, pending |-> 0]
Culling(n, g) == g = [b \in 0..n |-> IF b = 0 THEN NothingCulled ELSE CullStep(g[b - 1], b)]

LEMMA CullingExists == \A n \in Nat : \E g : Culling(n, g)
<1> DEFINE S == {n \in Nat : \E g : Culling(n, g)}
<1>1. 0 \in S
  <2> DEFINE g == [b \in 0..0 |-> NothingCulled]
  <2>1. Culling(0, g)
    BY DEF Culling
  <2> QED
    BY <2>1
<1>2. ASSUME NEW n \in Nat \ {0}, n - 1 \in S PROVE n \in S
  <2>1. PICK g : Culling(n - 1, g)
    BY <1>2
  <2> DEFINE h == [b \in 0..n |-> IF b = n THEN CullStep(g[n - 1], n) ELSE g[b]]
  <2>2. ASSUME NEW b \in 0..n
        PROVE  h[b] = IF b = 0 THEN NothingCulled ELSE CullStep(h[b - 1], b)
    <3>1. b # 0 => h[b - 1] = g[b - 1]
      OBVIOUS
    <3>2. b # n => g[b] = IF b = 0 THEN NothingCulled ELSE CullStep(g[b - 1], b)
      BY <2>1 DEF Culling
    <3> QED
      BY <3>1, <3>2
  <2>3. Culling(n, h)
    BY <2>2 DEF Culling
  <2> QED
    BY <2>3
<1>3. SUFFICES ASSUME NEW n \in Nat PROVE n \in S
  OBVIOUS
<1>4. \A k \in 1..n : k - 1 \in S => k \in S
  BY <1>2
<1>5. \A k \in 0..n : k \in S
  <2> HIDE DEF S
  <2> QED
    BY <1>1, <1>4, UpTo
<1> QED
  BY <1>5

LEMMA CullLoop ==
  \E g : g[0] = NothingCulled /\ (\A b \in 1..MapSize : g[b] = CullStep(g[b - 1], b)) /\ Culled = g[MapSize]
<1> DEFINE f == CHOOSE g : Culling(MapSize, g)
<1>1. Culling(MapSize, f)
  BY CullingExists, QueueAssumption
<1>2. Culled = f[MapSize]
  BY DEF Culled, Culling, NothingCulled
<1> HIDE DEF f
<1>3. f[0] = NothingCulled /\ \A b \in 1..MapSize : f[b] = CullStep(f[b - 1], b)
  BY <1>1, QueueAssumption DEF Culling
<1> QED
  BY <1>2, <1>3
-----------------------------------------------------------------------------
(*                      Entries, queues and winners                        *)

LEMMA SelfTyped == ASSUME NEW S, NEW s \in Seq(S) PROVE s \in Seq(Range(s))
<1>1. Len(s) \in Nat /\ DOMAIN s = 1..Len(s) /\ \A i \in 1..Len(s) : s[i] \in Range(s)
  BY DEF Range
<1> QED
  BY <1>1

Replaced(qs, q, e) == [qs EXCEPT ![q] = e]
LEMMA QueueReplaced ==
  ASSUME NEW qs, GoodQueue(qs), NEW q \in 1..Len(qs), NEW e, GoodEntry(e)
  PROVE  /\ GoodQueue(Replaced(qs, q, e)) /\ Len(Replaced(qs, q, e)) = Len(qs)
         /\ \A i \in 1..Len(qs) : Replaced(qs, q, e)[i] = IF i = q THEN e ELSE qs[i]
<1> DEFINE S == Range(qs) \cup {e}
<1>1. qs \in Seq(S) /\ Len(qs) \in Nat
  <2>1. qs \in Seq(Range(qs))
    BY DEF GoodQueue
  <2> QED
    BY <2>1
<1>2. e \in S
  OBVIOUS
<1> HIDE DEF S
<1> DEFINE rs == [qs EXCEPT ![q] = e]
<1>3. rs \in Seq(S) /\ Len(rs) = Len(qs) /\ \A i \in 1..Len(qs) : rs[i] = IF i = q THEN e ELSE qs[i]
  BY <1>1, <1>2, ExceptSeq
<1> HIDE DEF rs
<1>4. rs \in Seq(Range(rs))
  BY <1>3, SelfTyped
<1>5. \A i \in 1..Len(rs) : GoodEntry(rs[i])
  BY <1>3 DEF GoodQueue
<1>6. GoodQueue(rs)
  BY <1>4, <1>5 DEF GoodQueue
<1> QED
  BY <1>3, <1>6 DEF rs, Replaced

(* rs is the queue qs with the entry e at q. *)
ReplacedWell(rs, qs, q, e) ==
  /\ GoodQueue(rs) /\ Len(rs) = Len(qs)
  /\ \A i \in 1..Len(qs) : rs[i] = IF i = q THEN e ELSE qs[i]
LEMMA QueueReplacedBy ==
  ASSUME NEW qs, GoodQueue(qs), NEW q \in 1..Len(qs), NEW e, GoodEntry(e), NEW rs, rs = Replaced(qs, q, e)
  PROVE  ReplacedWell(rs, qs, q, e)
  BY QueueReplaced DEF ReplacedWell

(* The queue with a new entry. *)
Added(qs, e) == Append(qs, e)
LEMMA QueueAppended ==
  ASSUME NEW qs, GoodQueue(qs), NEW e, GoodEntry(e), NEW rs, rs = Added(qs, e)
  PROVE  /\ GoodQueue(rs) /\ Len(rs) = Len(qs) + 1 /\ rs[Len(qs) + 1] = e
         /\ \A i \in 1..Len(qs) : rs[i] = qs[i]
<1> DEFINE S == Range(qs) \cup {e}
<1>1. qs \in Seq(S) /\ Len(qs) \in Nat
  <2>1. qs \in Seq(Range(qs))
    BY DEF GoodQueue
  <2> QED
    BY <2>1
<1> HIDE DEF S
<1>2. rs \in Seq(S) /\ Len(rs) = Len(qs) + 1 /\ rs[Len(qs) + 1] = e /\ \A i \in 1..Len(qs) : rs[i] = qs[i]
  <2>1. e \in S
    BY DEF S
  <2> QED
    BY <1>1, <2>1, AppendProperties DEF Added
<1>3. rs \in Seq(Range(rs))
  BY <1>2, SelfTyped
<1>4. \A i \in 1..Len(rs) : i \in 1..Len(qs) \/ i = Len(qs) + 1
  BY <1>1, <1>2
<1>5. \A i \in 1..Len(rs) : GoodEntry(rs[i])
  BY <1>2, <1>4 DEF GoodQueue
<1> QED
  BY <1>2, <1>3, <1>5 DEF GoodQueue

(* Entries that differ in nothing but their references. *)
SameEntry(e, f) == \A x \in Fields \ {"tc_ref", "trace_mini"} : e[x] = f[x]

LEMMA LoseFields ==
  ASSUME NEW e, GoodEntry(e)
  PROVE  /\ GoodEntry(LoseByte(e)) /\ SameEntry(LoseByte(e), e) /\ LoseByte(e).tc_ref = e.tc_ref - 1
         /\ LoseByte(e).trace_mini = IF e.tc_ref = 1 THEN {} ELSE e.trace_mini
<1>1. DOMAIN LoseByte(e) = Fields
  BY DEF GoodEntry, LoseByte
<1>2. /\ LoseByte(e).tc_ref = e.tc_ref - 1
      /\ LoseByte(e).trace_mini = IF e.tc_ref = 1 THEN {} ELSE e.trace_mini
  BY DEF GoodEntry, Fields, LoseByte
<1>3. \A x \in Fields \ {"tc_ref", "trace_mini"} : LoseByte(e)[x] = e[x]
  BY DEF GoodEntry, LoseByte
<1>4. /\ LoseByte(e).cal_failed = e.cal_failed /\ LoseByte(e).was_fuzzed = e.was_fuzzed
      /\ LoseByte(e).favored = e.favored /\ LoseByte(e).exec_cksum = e.exec_cksum
  BY <1>3 DEF Fields
<1> QED
  BY <1>1, <1>2, <1>3, <1>4 DEF GoodEntry, SameEntry

LEMMA WinFields ==
  ASSUME NEW e, GoodEntry(e), NEW t
  PROVE  /\ GoodEntry(WinByte(e, t)) /\ SameEntry(WinByte(e, t), e) /\ WinByte(e, t).tc_ref = e.tc_ref + 1
         /\ WinByte(e, t).trace_mini = IF e.trace_mini = {} THEN BytesOf(t) ELSE e.trace_mini
<1>1. DOMAIN WinByte(e, t) = Fields
  BY DEF GoodEntry, WinByte
<1>2. /\ WinByte(e, t).tc_ref = e.tc_ref + 1
      /\ WinByte(e, t).trace_mini = IF e.trace_mini = {} THEN BytesOf(t) ELSE e.trace_mini
  BY DEF GoodEntry, Fields, WinByte
<1>3. \A x \in Fields \ {"tc_ref", "trace_mini"} : WinByte(e, t)[x] = e[x]
  BY DEF GoodEntry, WinByte
<1>4. /\ WinByte(e, t).cal_failed = e.cal_failed /\ WinByte(e, t).was_fuzzed = e.was_fuzzed
      /\ WinByte(e, t).favored = e.favored /\ WinByte(e, t).exec_cksum = e.exec_cksum
  BY <1>3 DEF Fields
<1>5. BytesOf(t) \subseteq Bytes
  BY DEF BytesOf
<1> QED
  BY <1>1, <1>2, <1>3, <1>4, <1>5 DEF GoodEntry, SameEntry

(* The entries, when q wins a byte from w or, if w is 0, from nobody. *)
Losing(qs, w) == IF w = 0 THEN qs ELSE [qs EXCEPT ![w] = LoseByte(@)]
Winning(qs, q, t) == [qs EXCEPT ![q] = WinByte(@, t)]

LEMMA LosingEffect ==
  ASSUME NEW qs, GoodQueue(qs), NEW w \in 0..Len(qs)
  PROVE  /\ GoodQueue(Losing(qs, w)) /\ Len(Losing(qs, w)) = Len(qs)
         /\ \A i \in 1..Len(qs) : Losing(qs, w)[i] = IF i = w THEN LoseByte(qs[i]) ELSE qs[i]
<1>1. CASE w = 0
  BY <1>1 DEF Losing
<1>2. CASE w # 0
  <2>0. w \in 1..Len(qs)
    BY <1>2
  <2>1. GoodEntry(qs[w]) /\ Losing(qs, w) = Replaced(qs, w, LoseByte(qs[w]))
    BY <1>2, <2>0 DEF GoodQueue, Losing, Replaced
  <2>2. GoodEntry(LoseByte(qs[w]))
    BY <2>1, LoseFields
  <2>3. /\ GoodQueue(Replaced(qs, w, LoseByte(qs[w])))
        /\ Len(Replaced(qs, w, LoseByte(qs[w]))) = Len(qs)
        /\ \A i \in 1..Len(qs) : Replaced(qs, w, LoseByte(qs[w]))[i] = IF i = w THEN LoseByte(qs[w]) ELSE qs[i]
    BY <2>0, <2>2, QueueReplaced
  <2> QED
    BY <2>0, <2>1, <2>3
<1> QED
  BY <1>1, <1>2

LEMMA WinningEffect ==
  ASSUME NEW qs, GoodQueue(qs), NEW q \in 1..Len(qs), NEW t
  PROVE  /\ GoodQueue(Winning(qs, q, t)) /\ Len(Winning(qs, q, t)) = Len(qs)
         /\ \A i \in 1..Len(qs) : Winning(qs, q, t)[i] = IF i = q THEN WinByte(qs[i], t) ELSE qs[i]
<1>1. GoodEntry(qs[q]) /\ Winning(qs, q, t) = Replaced(qs, q, WinByte(qs[q], t))
  BY DEF GoodQueue, Winning, Replaced
<1>2. GoodEntry(WinByte(qs[q], t))
  BY <1>1, WinFields
<1>3. /\ GoodQueue(Replaced(qs, q, WinByte(qs[q], t)))
      /\ Len(Replaced(qs, q, WinByte(qs[q], t))) = Len(qs)
      /\ \A i \in 1..Len(qs) : Replaced(qs, q, WinByte(qs[q], t))[i] = IF i = q THEN WinByte(qs[q], t) ELSE qs[i]
  BY <1>2, QueueReplaced
<1> QED
  BY <1>1, <1>3

LEMMA WonFinite ==
  ASSUME NEW top, NEW i
  PROVE  IsFiniteSet(Won(top, i)) /\ Cardinality(Won(top, i)) \in Nat
<1>1. IsFiniteSet(Bytes)
  BY QueueAssumption, FS_Interval DEF Bytes
<1>2. IsFiniteSet(Won(top, i))
  BY <1>1, FS_Subset DEF Won
<1> QED
  BY <1>2, FS_CardinalityType

(* One byte goes from its winner to q. *)
Moved(top, b, q) == [top EXCEPT ![b] = q]
LEMMA WonMoved ==
  ASSUME NEW top, DOMAIN top = Bytes, NEW b \in Bytes, NEW q, NEW w, w = top[b],
         NEW new, new = Moved(top, b, q)
  PROVE  /\ \A i : i # q /\ i # w => Won(new, i) = Won(top, i)
         /\ w # q => /\ Won(new, w) = Won(top, w) \ {b}
                     /\ Cardinality(Won(new, w)) = Cardinality(Won(top, w)) - 1
                     /\ Won(new, q) = Won(top, q) \cup {b}
                     /\ Cardinality(Won(new, q)) = Cardinality(Won(top, q)) + 1
         /\ w = q => Won(new, q) = Won(top, q)
<1>1. \A c \in Bytes : new[c] = IF c = b THEN q ELSE top[c]
  BY DEF Moved
<1>2. \A i : i # q /\ i # w => Won(new, i) = Won(top, i)
  BY <1>1 DEF Won
<1>3. w = q => Won(new, q) = Won(top, q)
  BY <1>1 DEF Won
<1>4. w # q => Won(new, w) = Won(top, w) \ {b} /\ Won(new, q) = Won(top, q) \cup {b}
                 /\ b \in Won(top, w) /\ b \notin Won(top, q)
  BY <1>1 DEF Won
<1>5. ASSUME w # q
      PROVE  /\ Cardinality(Won(new, w)) = Cardinality(Won(top, w)) - 1
             /\ Cardinality(Won(new, q)) = Cardinality(Won(top, q)) + 1
  <2>1. Cardinality(Won(top, w) \ {b}) = Cardinality(Won(top, w)) - 1
    BY <1>4, <1>5, WonFinite, FS_RemoveElement
  <2>2. Cardinality(Won(top, q) \cup {b}) = Cardinality(Won(top, q)) + 1
    BY <1>4, <1>5, WonFinite, FS_AddElement
  <2> QED
    BY <1>4, <1>5, <2>1, <2>2
<1> QED
  BY <1>2, <1>3, <1>4, <1>5
-----------------------------------------------------------------------------
(*                       update_bitmap_score                               *)

(* What the loop keeps and what it has done after k bytes.  Every entry but *)
(* q can only lose; with its last byte it loses its small trace.            *)
ScoresKept(sq, top, changed, k, qs, q, t) ==
  /\ GoodQueue(sq) /\ Len(sq) = Len(qs)
  /\ top \in [Bytes -> 0..Len(qs)] /\ changed \in BOOLEAN
  /\ RefsExact(sq, top)
  /\ \A i \in 1..Len(qs) :
       /\ SameEntry(sq[i], qs[i])
       /\ sq[i].trace_mini \in {{}, qs[i].trace_mini} \/ (i = q /\ sq[i].trace_mini = BytesOf(t))
  /\ \A b \in Bytes :
       /\ top[b] \in {top_rated[b], q} /\ (top[b] = 0 => top_rated[b] = 0)
       /\ top[b] # top_rated[b] => b \in BytesOf(t)
  /\ \A b \in 1..k : t[b] # 0 => top[b] # 0
  /\ ~changed => ~score_changed /\ top = top_rated
ScoreKept(s, k, qs, q, t) == ScoresKept(s.queue, s.top, s.changed, k, qs, q, t)

LEMMA ScoreByteCases ==
  ASSUME NEW s, NEW b, NEW q, NEW t
  PROVE  \/ ScoreByte(s, b, q, t) = s /\ (t[b] = 0 \/ s.top[b] # 0)
         \/ /\ t[b] # 0
            /\ ScoreByte(s, b, q, t).queue = Winning(Losing(s.queue, s.top[b]), q, t)
            /\ ScoreByte(s, b, q, t).top = Moved(s.top, b, q)
            /\ ScoreByte(s, b, q, t).changed = TRUE
  BY DEF ScoreByte, Scored, ScoreChanged, Winning, Losing, Moved

LEMMA SameEntryTrans ==
  ASSUME NEW e, NEW f, NEW g, SameEntry(e, f), SameEntry(f, g)
  PROVE  SameEntry(e, g)
  BY DEF SameEntry

(* The entries after q has won a byte from w. *)
WonFrom(rs, qs, q, w, t) ==
  /\ GoodQueue(rs) /\ Len(rs) = Len(qs)
  /\ \A i \in 1..Len(qs) :
       /\ SameEntry(rs[i], qs[i])
       /\ i # q /\ i # w => rs[i] = qs[i]
       /\ i = w /\ i # q => /\ rs[i].tc_ref = qs[i].tc_ref - 1
                            /\ rs[i].trace_mini = IF qs[i].tc_ref = 1 THEN {} ELSE qs[i].trace_mini
       /\ i = q /\ i # w => /\ rs[i].tc_ref = qs[i].tc_ref + 1
                            /\ rs[i].trace_mini = IF qs[i].trace_mini = {} THEN BytesOf(t)
                                                                          ELSE qs[i].trace_mini
       /\ i = q /\ i = w => /\ rs[i].tc_ref = (qs[i].tc_ref - 1) + 1
                            /\ rs[i].trace_mini \in {BytesOf(t), qs[i].trace_mini}
                            /\ qs[i].tc_ref = 1 => rs[i].trace_mini = BytesOf(t)

LEMMA WonEntries ==
  ASSUME NEW qs, GoodQueue(qs), NEW q \in 1..Len(qs), NEW w \in 0..Len(qs), NEW t
  PROVE  WonFrom(Winning(Losing(qs, w), q, t), qs, q, w, t)
<1>0. PICK rs : rs = Winning(Losing(qs, w), q, t)
  OBVIOUS
<1>1. PICK ls : ls = Losing(qs, w)
  OBVIOUS
<1>2. /\ GoodQueue(ls) /\ Len(ls) = Len(qs)
      /\ \A i \in 1..Len(qs) : ls[i] = IF i = w THEN LoseByte(qs[i]) ELSE qs[i]
  BY <1>1, LosingEffect
<1>3. rs = Winning(ls, q, t) /\ q \in 1..Len(ls)
  BY <1>0, <1>1, <1>2
<1>4. /\ GoodQueue(rs) /\ Len(rs) = Len(qs)
      /\ \A i \in 1..Len(qs) : rs[i] = IF i = q THEN WinByte(ls[i], t) ELSE ls[i]
  BY <1>2, <1>3, WinningEffect
<1>5. ASSUME NEW i \in 1..Len(qs)
      PROVE  /\ SameEntry(rs[i], qs[i])
             /\ i # q /\ i # w => rs[i] = qs[i]
             /\ i = w /\ i # q => /\ rs[i].tc_ref = qs[i].tc_ref - 1
                                  /\ rs[i].trace_mini = IF qs[i].tc_ref = 1 THEN {} ELSE qs[i].trace_mini
             /\ i = q /\ i # w => /\ rs[i].tc_ref = qs[i].tc_ref + 1
                                  /\ rs[i].trace_mini = IF qs[i].trace_mini = {} THEN BytesOf(t)
                                                                                ELSE qs[i].trace_mini
             /\ i = q /\ i = w => /\ rs[i].tc_ref = (qs[i].tc_ref - 1) + 1
                                  /\ rs[i].trace_mini \in {BytesOf(t), qs[i].trace_mini}
                                  /\ qs[i].tc_ref = 1 => rs[i].trace_mini = BytesOf(t)
  <2>1. GoodEntry(qs[i]) /\ GoodEntry(ls[i])
    BY <1>2 DEF GoodQueue
  <2>2. i = w => /\ SameEntry(ls[i], qs[i]) /\ ls[i].tc_ref = qs[i].tc_ref - 1
                 /\ ls[i].trace_mini = IF qs[i].tc_ref = 1 THEN {} ELSE qs[i].trace_mini
    BY <1>2, <2>1, LoseFields
  <2>3. i # w => ls[i] = qs[i] /\ SameEntry(ls[i], qs[i])
    BY <1>2 DEF SameEntry
  <2>4. i = q => /\ SameEntry(rs[i], ls[i]) /\ rs[i].tc_ref = ls[i].tc_ref + 1
                 /\ rs[i].trace_mini = IF ls[i].trace_mini = {} THEN BytesOf(t) ELSE ls[i].trace_mini
    BY <1>4, <2>1, WinFields
  <2>5. i # q => rs[i] = ls[i] /\ SameEntry(rs[i], ls[i])
    BY <1>4 DEF SameEntry
  <2>6. SameEntry(rs[i], qs[i])
    BY <2>2, <2>3, <2>4, <2>5, SameEntryTrans
  <2> HIDE <1>1, <1>2, <1>3, <1>4
  <2> QED
    BY <2>2, <2>3, <2>4, <2>5, <2>6
<1>6. WonFrom(rs, qs, q, w, t)
  BY <1>4, <1>5 DEF WonFrom
<1> QED
  BY <1>0, <1>6

LEMMA TraceBytes ==
  ASSUME NEW t \in Traces
  PROVE  /\ BytesOf(t) \subseteq Bytes /\ DOMAIN t = Bytes
         /\ \A b \in Bytes : b \in BytesOf(t) <=> t[b] # 0
  BY QueueAssumption DEF Traces, BytesOf

LEMMA ScoreStep ==
  ASSUME NEW qs, GoodQueue(qs), NEW q \in 1..Len(qs), NEW t \in Traces,
         NEW b \in 1..MapSize, NEW s, ScoreKept(s, b - 1, qs, q, t)
  PROVE  ScoreKept(ScoreByte(s, b, q, t), b, qs, q, t)
<1> DEFINE u == ScoreByte(s, b, q, t)
<1>0. \/ u = s /\ (t[b] = 0 \/ s.top[b] # 0)
      \/ /\ t[b] # 0
         /\ u.queue = Winning(Losing(s.queue, s.top[b]), q, t)
         /\ u.top = Moved(s.top, b, q) /\ u.changed = TRUE
  BY ScoreByteCases
<1> SUFFICES ScoreKept(u, b, qs, q, t)
  OBVIOUS
<1> HIDE DEF u
<1>1. /\ GoodQueue(s.queue) /\ Len(s.queue) = Len(qs)
      /\ s.top \in [Bytes -> 0..Len(qs)] /\ s.changed \in BOOLEAN
      /\ RefsExact(s.queue, s.top)
  BY DEF ScoreKept, ScoresKept
<1>2. \A i \in 1..Len(qs) :
        /\ SameEntry(s.queue[i], qs[i])
        /\ s.queue[i].trace_mini \in {{}, qs[i].trace_mini} \/ (i = q /\ s.queue[i].trace_mini = BytesOf(t))
  BY DEF ScoreKept, ScoresKept
<1>3. \A c \in Bytes :
        /\ s.top[c] \in {top_rated[c], q} /\ (s.top[c] = 0 => top_rated[c] = 0)
        /\ s.top[c] # top_rated[c] => c \in BytesOf(t)
  BY DEF ScoreKept, ScoresKept
<1>4. \A c \in 1..(b - 1) : t[c] # 0 => s.top[c] # 0
  BY DEF ScoreKept, ScoresKept
<1>5. b \in Bytes /\ \A c \in 1..b : c \in 1..(b - 1) \/ c = b
  BY QueueAssumption DEF Bytes
<1>6. CASE u = s /\ (t[b] = 0 \/ s.top[b] # 0)
  <2>1. \A c \in 1..b : t[c] # 0 => s.top[c] # 0
    BY <1>4, <1>5, <1>6
  <2>2. ScoreKept(s, b, qs, q, t)
    BY <2>1 DEF ScoreKept, ScoresKept
  <2> QED
    BY <1>6, <2>2
<1>7. CASE /\ t[b] # 0
           /\ u.queue = Winning(Losing(s.queue, s.top[b]), q, t)
           /\ u.top = Moved(s.top, b, q) /\ u.changed = TRUE
  <2>1. PICK w \in 0..Len(qs) : w = s.top[b]
    BY <1>1, <1>5
  <2>2. PICK rs, new : rs = u.queue /\ new = u.top
    OBVIOUS
  <2>3. PICK sq, top : sq = s.queue /\ top = s.top
    OBVIOUS
  <2>4. GoodQueue(sq) /\ q \in 1..Len(sq) /\ w \in 0..Len(sq) /\ rs = Winning(Losing(sq, w), q, t)
    BY <1>1, <1>7, <2>1, <2>2, <2>3
  <2>41. WonFrom(rs, sq, q, w, t)
    BY <2>4, WonEntries
  <2>5. /\ GoodQueue(rs) /\ Len(rs) = Len(sq)
        /\ \A i \in 1..Len(sq) :
             /\ SameEntry(rs[i], sq[i])
             /\ i # q /\ i # w => rs[i] = sq[i]
             /\ i = w /\ i # q => /\ rs[i].tc_ref = sq[i].tc_ref - 1
                                  /\ rs[i].trace_mini = IF sq[i].tc_ref = 1 THEN {} ELSE sq[i].trace_mini
             /\ i = q /\ i # w => /\ rs[i].tc_ref = sq[i].tc_ref + 1
                                  /\ rs[i].trace_mini = IF sq[i].trace_mini = {} THEN BytesOf(t)
                                                                                ELSE sq[i].trace_mini
             /\ i = q /\ i = w => /\ rs[i].tc_ref = (sq[i].tc_ref - 1) + 1
                                  /\ rs[i].trace_mini \in {BytesOf(t), sq[i].trace_mini}
                                  /\ sq[i].tc_ref = 1 => rs[i].trace_mini = BytesOf(t)
    BY <2>41 DEF WonFrom
  <2>51. Len(sq) = Len(qs)
    BY <1>1, <2>3
  <2>6. new = Moved(top, b, q) /\ DOMAIN top = Bytes /\ w = top[b]
    BY <1>1, <1>7, <2>1, <2>2, <2>3
  <2>7. /\ \A i : i # q /\ i # w => Won(new, i) = Won(top, i)
        /\ w # q => /\ Won(new, w) = Won(top, w) \ {b}
                    /\ Cardinality(Won(new, w)) = Cardinality(Won(top, w)) - 1
                    /\ Won(new, q) = Won(top, q) \cup {b}
                    /\ Cardinality(Won(new, q)) = Cardinality(Won(top, q)) + 1
        /\ w = q => Won(new, q) = Won(top, q)
    BY <1>5, <2>6, WonMoved
  <2>8. new \in [Bytes -> 0..Len(qs)] /\ \A c \in Bytes : new[c] = IF c = b THEN q ELSE top[c]
    BY <1>1, <1>5, <2>3, <2>6 DEF Moved
  <2>9. \A i : Cardinality(Won(top, i)) \in Nat /\ Cardinality(Won(new, i)) \in Nat
    BY WonFinite
  <2>10. b \in BytesOf(t)
    BY <1>5, <1>7, TraceBytes
  <2>11. RefsExact(rs, new)
    <3>1. SUFFICES ASSUME NEW i \in 1..Len(qs)
                   PROVE  /\ rs[i].tc_ref = Cardinality(Won(new, i))
                          /\ rs[i].tc_ref > 0 <=> rs[i].trace_mini # {}
      BY <2>5, <2>51 DEF RefsExact
    <3>2. /\ sq[i].tc_ref = Cardinality(Won(top, i))
          /\ sq[i].tc_ref > 0 <=> sq[i].trace_mini # {}
      BY <1>1, <2>3, <2>51 DEF RefsExact
    <3>3. CASE i # q /\ i # w
      BY <2>5, <2>51, <2>7, <3>2, <3>3
    <3>4. CASE i = w /\ i # q
      <4>1. rs[i].tc_ref = Cardinality(Won(new, i))
        BY <2>5, <2>51, <2>7, <3>2, <3>4
      <4> QED
        BY <2>5, <2>51, <2>7, <2>9, <3>2, <3>4, <4>1
    <3>5. CASE i = q /\ i # w
      <4>1. rs[i].tc_ref = Cardinality(Won(new, i))
        BY <2>5, <2>51, <2>7, <3>2, <3>5
      <4>2. rs[i].trace_mini # {}
        BY <2>5, <2>51, <2>10, <3>5
      <4> QED
        BY <2>7, <2>9, <3>5, <4>1, <4>2
    <3>6. CASE i = q /\ i = w
      <4>1. b \in Won(top, i)
        BY <1>5, <2>6, <3>6 DEF Won
      <4>2. sq[i].tc_ref > 0
        <5>1. Cardinality(Won(top, i)) # 0
          BY <4>1, WonFinite, FS_EmptySet
        <5> QED
          BY <2>9, <3>2, <5>1
      <4>3. rs[i].trace_mini # {}
        BY <2>5, <2>51, <2>10, <3>2, <3>6, <4>2
      <4>4. rs[i].tc_ref = sq[i].tc_ref /\ Won(new, i) = Won(top, i)
        BY <2>5, <2>51, <2>7, <2>9, <3>2, <3>6
      <4> QED
        BY <3>2, <4>2, <4>3, <4>4
    <3> QED
      BY <3>3, <3>4, <3>5, <3>6
  <2>12. ASSUME NEW i \in 1..Len(qs)
         PROVE  /\ SameEntry(rs[i], qs[i])
                /\ rs[i].trace_mini \in {{}, qs[i].trace_mini} \/ (i = q /\ rs[i].trace_mini = BytesOf(t))
    <3>1. /\ SameEntry(sq[i], qs[i])
          /\ sq[i].trace_mini \in {{}, qs[i].trace_mini} \/ (i = q /\ sq[i].trace_mini = BytesOf(t))
      BY <1>2, <2>3
    <3>2. SameEntry(rs[i], qs[i])
      BY <2>5, <2>51, <3>1, SameEntryTrans
    <3> HIDE <2>4, <2>6
    <3> QED
      BY <2>5, <2>51, <3>1, <3>2
  <2>13. ASSUME NEW c \in Bytes
         PROVE  /\ new[c] \in {top_rated[c], q} /\ (new[c] = 0 => top_rated[c] = 0)
                /\ new[c] # top_rated[c] => c \in BytesOf(t)
    BY <1>3, <2>3, <2>8, <2>10
  <2>14. \A c \in 1..b : t[c] # 0 => new[c] # 0
    <3>1. \A c \in 1..b : c \in Bytes
      BY QueueAssumption DEF Bytes
    <3> QED
      BY <1>4, <1>5, <2>3, <2>8, <3>1
  <2> QED
    <3>1. u.changed = TRUE /\ GoodQueue(rs) /\ Len(rs) = Len(qs)
      BY <1>7, <2>5, <2>51
    <3>2. ScoresKept(rs, new, TRUE, b, qs, q, t)
      BY <2>8, <2>11, <2>12, <2>13, <2>14, <3>1 DEF ScoresKept
    <3> QED
      BY <2>2, <3>1, <3>2 DEF ScoreKept
<1> QED
  BY <1>0, <1>6, <1>7

LEMMA ScoreResult ==
  ASSUME NEW qs, GoodQueue(qs), NEW q \in 1..Len(qs), NEW t \in Traces,
         top_rated \in [Bytes -> 0..Len(qs)], RefsExact(qs, top_rated), score_changed \in BOOLEAN
  PROVE  ScoreKept(update_bitmap_score(qs, q, t), MapSize, qs, q, t)
<1>1. PICK g : /\ g[0] = Scored(qs, top_rated, score_changed)
               /\ \A b \in 1..MapSize : g[b] = ScoreByte(g[b - 1], b, q, t)
               /\ update_bitmap_score(qs, q, t) = g[MapSize]
  BY ScoreLoop
<1> DEFINE S == {k \in 0..MapSize : ScoreKept(g[k], k, qs, q, t)}
<1>2. 0 \in S
  <2>1. g[0].queue = qs /\ g[0].top = top_rated /\ g[0].changed = score_changed
    BY <1>1 DEF Scored
  <2>2. \A i \in 1..Len(qs) : SameEntry(qs[i], qs[i])
    BY DEF SameEntry
  <2>3. ScoreKept(g[0], 0, qs, q, t)
    BY <2>1, <2>2 DEF ScoreKept, ScoresKept
  <2> QED
    BY <2>3, QueueAssumption
<1>3. ASSUME NEW k \in 1..MapSize, k - 1 \in S PROVE k \in S
  <2>1. ScoreKept(g[k - 1], k - 1, qs, q, t)
    BY <1>3
  <2>2. ScoreKept(ScoreByte(g[k - 1], k, q, t), k, qs, q, t)
    BY <2>1, ScoreStep
  <2> QED
    BY <1>1, <2>2, QueueAssumption
<1>4. \A k \in 0..MapSize : k \in S
  <2> HIDE DEF S
  <2> QED
    BY <1>2, <1>3, UpTo, QueueAssumption
<1>5. ScoreKept(g[MapSize], MapSize, qs, q, t)
  BY <1>4, QueueAssumption
<1> QED
  BY <1>1, <1>5
-----------------------------------------------------------------------------
(*                            cull_queue                                   *)

StillPending(F) == {i \in F : ~queue[i].was_fuzzed}

(* What the loop has done after k bytes.  An entry that is still to be      *)
(* fuzzed is met once: its small trace takes all its bytes from temp_v.     *)
CullsKept(temp_v, favored, pending, k) ==
  /\ temp_v \subseteq Bytes /\ favored \subseteq 1..Len(queue)
  /\ pending = Cardinality(StillPending(favored))
  /\ \A i \in favored : queue[i].trace_mini \cap temp_v = {}
  /\ \A b \in Bytes \ temp_v : \E i \in favored : b \in hit[i]
  /\ \A b \in 1..k : top_rated[b] # 0 => \E i \in favored : b \in hit[i]
CullKept(c, k) == CullsKept(c.temp_v, c.favored, c.pending, k)

AllMini ==
  \A i \in 1..Len(queue) : ~queue[i].was_fuzzed => Won(top_rated, i) \subseteq queue[i].trace_mini

LEMMA IndicesFinite ==
  ASSUME GoodQueue(queue), NEW F, F \subseteq 1..Len(queue)
  PROVE  IsFiniteSet(F) /\ Cardinality(F) \in Nat
<1>1. Len(queue) \in Nat
  BY DEF GoodQueue
<1>2. IsFiniteSet(1..Len(queue))
  BY <1>1, FS_Interval
<1>3. IsFiniteSet(F)
  BY <1>2, FS_Subset
<1> QED
  BY <1>3, FS_CardinalityType

LEMMA CullStepCases ==
  ASSUME NEW c, NEW b
  PROVE  \/ CullStep(c, b) = c /\ (top_rated[b] = 0 \/ b \notin c.temp_v)
         \/ /\ top_rated[b] # 0 /\ b \in c.temp_v
            /\ CullStep(c, b).temp_v = c.temp_v \ queue[top_rated[b]].trace_mini
            /\ CullStep(c, b).favored = c.favored \cup {top_rated[b]}
            /\ CullStep(c, b).pending = c.pending + Pending(queue[top_rated[b]])
  BY DEF CullStep

LEMMA CullStepKeeps ==
  ASSUME QueueCore(queue, top_rated, hit, score_changed), AllMini,
         NEW b \in 1..MapSize, NEW c, CullKept(c, b - 1)
  PROVE  CullKept(CullStep(c, b), b)
<1> DEFINE d == CullStep(c, b)
<1>1. \/ d = c /\ (top_rated[b] = 0 \/ b \notin c.temp_v)
      \/ /\ top_rated[b] # 0 /\ b \in c.temp_v
         /\ d.temp_v = c.temp_v \ queue[top_rated[b]].trace_mini
         /\ d.favored = c.favored \cup {top_rated[b]}
         /\ d.pending = c.pending + Pending(queue[top_rated[b]])
  BY CullStepCases
<1> SUFFICES CullKept(d, b)
  OBVIOUS
<1> HIDE DEF d
<1>2. /\ c.temp_v \subseteq Bytes /\ c.favored \subseteq 1..Len(queue)
      /\ c.pending = Cardinality(StillPending(c.favored))
      /\ \A i \in c.favored : queue[i].trace_mini \cap c.temp_v = {}
      /\ \A a \in Bytes \ c.temp_v : \E i \in c.favored : a \in hit[i]
      /\ \A a \in 1..(b - 1) : top_rated[a] # 0 => \E i \in c.favored : a \in hit[i]
  BY DEF CullKept, CullsKept
<1>3. b \in Bytes /\ \A a \in 1..b : a \in 1..(b - 1) \/ a = b
  BY QueueAssumption DEF Bytes
<1>4. CASE d = c /\ (top_rated[b] = 0 \/ b \notin c.temp_v)
  <2>1. \A a \in 1..b : top_rated[a] # 0 => \E i \in c.favored : a \in hit[i]
    BY <1>2, <1>3, <1>4
  <2>2. CullKept(c, b)
    BY <1>2, <2>1 DEF CullKept, CullsKept
  <2> QED
    BY <1>4, <2>2
<1>5. CASE /\ top_rated[b] # 0 /\ b \in c.temp_v
           /\ d.temp_v = c.temp_v \ queue[top_rated[b]].trace_mini
           /\ d.favored = c.favored \cup {top_rated[b]}
           /\ d.pending = c.pending + Pending(queue[top_rated[b]])
  <2>1. PICK w \in 1..Len(queue) : w = top_rated[b]
    <3>1. top_rated[b] \in 0..Len(queue)
      BY <1>3 DEF QueueCore
    <3> QED
      BY <1>5, <3>1
  <2>2. PICK F, V, p : F = d.favored /\ V = d.temp_v /\ p = d.pending
    OBVIOUS
  <2>3. PICK F0, V0, p0 : F0 = c.favored /\ V0 = c.temp_v /\ p0 = c.pending
    OBVIOUS
  <2>4. /\ b \in V0 /\ V = V0 \ queue[w].trace_mini /\ F = F0 \cup {w}
        /\ p = p0 + Pending(queue[w])
    BY <1>5, <2>1, <2>2, <2>3
  <2>5. /\ V0 \subseteq Bytes /\ F0 \subseteq 1..Len(queue) /\ p0 = Cardinality(StillPending(F0))
        /\ \A i \in F0 : queue[i].trace_mini \cap V0 = {}
        /\ \A a \in Bytes \ V0 : \E i \in F0 : a \in hit[i]
        /\ \A a \in 1..(b - 1) : top_rated[a] # 0 => \E i \in F0 : a \in hit[i]
    BY <1>2, <2>3
  <2>6. b \in Won(top_rated, w) /\ b \in hit[w] /\ queue[w].trace_mini \subseteq hit[w]
    BY <1>3, <2>1 DEF Won, QueueCore, SeenExact
  <2>7. GoodQueue(queue) /\ queue[w].was_fuzzed \in BOOLEAN
    BY DEF QueueCore, GoodQueue, GoodEntry
  <2>8. p = Cardinality(StillPending(F))
    <3>1. CASE queue[w].was_fuzzed
      <4>1. StillPending(F) = StillPending(F0)
        BY <2>4, <3>1 DEF StillPending
      <4>2. p0 \in Nat
        BY <2>5, <2>7, IndicesFinite DEF StillPending
      <4> QED
        BY <2>4, <2>5, <3>1, <4>1, <4>2 DEF Pending
    <3>2. CASE ~queue[w].was_fuzzed
      <4>1. b \in queue[w].trace_mini
        BY <2>6, <3>2 DEF AllMini
      <4>2. w \notin F0
        BY <2>4, <2>5, <4>1
      <4>3. StillPending(F) = StillPending(F0) \cup {w} /\ w \notin StillPending(F0)
        BY <2>4, <3>2, <4>2 DEF StillPending
      <4>4. IsFiniteSet(StillPending(F0))
        BY <2>5, <2>7, IndicesFinite DEF StillPending
      <4>5. Cardinality(StillPending(F0) \cup {w}) = Cardinality(StillPending(F0)) + 1
        BY <4>3, <4>4, FS_AddElement
      <4> QED
        BY <2>4, <2>5, <3>2, <4>3, <4>5 DEF Pending
    <3> QED
      BY <3>1, <3>2
  <2>9. V \subseteq Bytes /\ F \subseteq 1..Len(queue)
    BY <2>4, <2>5
  <2>10. \A i \in F : queue[i].trace_mini \cap V = {}
    BY <2>4, <2>5
  <2>11. \A a \in Bytes \ V : \E i \in F : a \in hit[i]
    BY <2>4, <2>5, <2>6
  <2>12. \A a \in 1..b : top_rated[a] # 0 => \E i \in F : a \in hit[i]
    BY <1>3, <2>4, <2>5, <2>6
  <2>13. CullsKept(V, F, p, b)
    BY <2>8, <2>9, <2>10, <2>11, <2>12 DEF CullsKept
  <2> QED
    BY <2>2, <2>13 DEF CullKept
<1> QED
  BY <1>1, <1>4, <1>5

LEMMA CullResult ==
  ASSUME QueueCore(queue, top_rated, hit, score_changed), AllMini
  PROVE  CullKept(Culled, MapSize)
<1>1. PICK g : /\ g[0] = NothingCulled /\ (\A b \in 1..MapSize : g[b] = CullStep(g[b - 1], b))
               /\ Culled = g[MapSize]
  BY CullLoop
<1> DEFINE S == {k \in 0..MapSize : CullKept(g[k], k)}
<1>2. 0 \in S
  <2>1. g[0].temp_v = Bytes /\ g[0].favored = {} /\ g[0].pending = 0
    BY <1>1 DEF NothingCulled
  <2>2. StillPending({}) = {} /\ Cardinality({}) = 0
    BY FS_EmptySet DEF StillPending
  <2>3. CullKept(g[0], 0)
    BY <2>1, <2>2 DEF CullKept, CullsKept
  <2> QED
    BY <2>3, QueueAssumption
<1>3. ASSUME NEW k \in 1..MapSize, k - 1 \in S PROVE k \in S
  <2>1. CullKept(g[k - 1], k - 1)
    BY <1>3
  <2>2. CullKept(CullStep(g[k - 1], k), k)
    BY <2>1, CullStepKeeps
  <2> QED
    BY <1>1, <2>2, QueueAssumption
<1>4. \A k \in 0..MapSize : k \in S
  <2> HIDE DEF S
  <2> QED
    BY <1>2, <1>3, UpTo, QueueAssumption
<1>5. CullKept(g[MapSize], MapSize)
  BY <1>4, QueueAssumption
<1> QED
  BY <1>1, <1>5
-----------------------------------------------------------------------------
(*                What the parts of the actions keep                       *)

SeenAlso(seen, q, t) == [seen EXCEPT ![q] = @ \cup BytesOf(t)]

LEMMA SameFields ==
  ASSUME NEW e, NEW f, SameEntry(e, f)
  PROVE  /\ e.len = f.len /\ e.file = f.file /\ e.exec_cksum = f.exec_cksum /\ e.cal_failed = f.cal_failed
         /\ e.was_fuzzed = f.was_fuzzed /\ e.favored = f.favored /\ e.fs_redundant = f.fs_redundant
  BY DEF SameEntry, Fields

(* Scoring an entry. *)
Rescored(sq, top, qs, q) ==
  /\ Len(sq) = Len(qs)
  /\ \A i \in 1..Len(qs) :
       /\ SameEntry(sq[i], qs[i])
       /\ i # q => Won(top, i) \subseteq Won(top_rated, i)
       /\ (i # q /\ Won(top_rated, i) \subseteq qs[i].trace_mini) \/ Won(top_rated, i) = {}
            => Won(top, i) \subseteq sq[i].trace_mini

LEMMA RescoreCore ==
  ASSUME NEW qs, QueueCore(qs, top_rated, hit, score_changed), NEW q \in 1..Len(qs), NEW t \in Traces,
         NEW s, s = update_bitmap_score(qs, q, t)
  PROVE  QueueCore(s.queue, s.top, SeenAlso(hit, q, t), s.changed) /\ Rescored(s.queue, s.top, qs, q)
<1>1. PICK sq, top, ch, seen : sq = s.queue /\ top = s.top /\ ch = s.changed /\ seen = SeenAlso(hit, q, t)
  OBVIOUS
<1>2. /\ GoodQueue(qs) /\ Len(qs) \in 1..MaxQueue /\ top_rated \in [Bytes -> 0..Len(qs)]
      /\ hit \in [1..MaxQueue -> SUBSET Bytes] /\ score_changed \in BOOLEAN
      /\ RefsExact(qs, top_rated) /\ SeenExact(qs, top_rated, hit) /\ Covered(qs, top_rated, hit, score_changed)
  BY DEF QueueCore
<1>3. ScoresKept(sq, top, ch, MapSize, qs, q, t)
  BY <1>1, <1>2, ScoreResult DEF ScoreKept
<1> HIDE DEF ScoresKept
<1>4. /\ GoodQueue(sq) /\ Len(sq) = Len(qs) /\ top \in [Bytes -> 0..Len(qs)] /\ ch \in BOOLEAN
      /\ RefsExact(sq, top)
  BY <1>3 DEF ScoresKept
<1>5. \A i \in 1..Len(qs) :
        /\ SameEntry(sq[i], qs[i])
        /\ sq[i].trace_mini \in {{}, qs[i].trace_mini} \/ (i = q /\ sq[i].trace_mini = BytesOf(t))
  BY <1>3 DEF ScoresKept
<1>6. \A b \in Bytes :
        /\ top[b] \in {top_rated[b], q} /\ (top[b] = 0 => top_rated[b] = 0)
        /\ top[b] # top_rated[b] => b \in BytesOf(t)
  BY <1>3 DEF ScoresKept
<1>7. (\A b \in Bytes : t[b] # 0 => top[b] # 0) /\ (~ch => ~score_changed /\ top = top_rated)
  BY <1>3 DEF ScoresKept, Bytes
<1>8. BytesOf(t) \subseteq Bytes /\ \A b \in Bytes : b \in BytesOf(t) <=> t[b] # 0
  BY TraceBytes
<1>9. q \in 1..MaxQueue
  BY <1>2, QueueAssumption
<1>10. /\ seen \in [1..MaxQueue -> SUBSET Bytes]
       /\ \A i \in 1..MaxQueue : seen[i] = IF i = q THEN hit[i] \cup BytesOf(t) ELSE hit[i]
  BY <1>1, <1>2, <1>8, <1>9 DEF SeenAlso
<1>11. \A i \in 1..Len(qs) : i \in 1..MaxQueue
  BY <1>2, QueueAssumption
<1>12. SeenExact(sq, top, seen)
  <2>1. ASSUME NEW i \in 1..Len(qs) PROVE sq[i].trace_mini \subseteq seen[i]
    <3>1. qs[i].trace_mini \subseteq hit[i]
      BY <1>2 DEF SeenExact
    <3> QED
      BY <1>5, <1>10, <1>11, <3>1
  <2>2. ASSUME NEW i \in 1..Len(qs), NEW b \in Won(top, i) PROVE b \in seen[i]
    <3>1. b \in Bytes /\ top[b] = i
      BY DEF Won
    <3>2. CASE top[b] = top_rated[b]
      <4>1. b \in hit[i]
        BY <1>2, <3>1, <3>2 DEF SeenExact, Won
      <4> QED
        BY <1>10, <1>11, <4>1
    <3>3. CASE top[b] # top_rated[b]
      BY <1>6, <1>9, <1>10, <3>1, <3>3
    <3> QED
      BY <3>2, <3>3
  <2>3. ASSUME NEW i \in 1..MaxQueue, NEW b \in seen[i] PROVE top[b] # 0
    <3>1. b \in Bytes
      BY <1>10
    <3>2. CASE b \in hit[i]
      BY <1>2, <1>6, <3>1, <3>2 DEF SeenExact
    <3>3. CASE b \notin hit[i]
      BY <1>7, <1>8, <1>10, <3>1, <3>3
    <3> QED
      BY <3>2, <3>3
  <2> QED
    BY <1>4, <2>1, <2>2, <2>3 DEF SeenExact
<1>13. Covered(sq, top, seen, ch)
  <2>1. SUFFICES ASSUME ~ch, NEW b \in Bytes, top[b] # 0
                 PROVE  \E i \in 1..Len(qs) : sq[i].favored /\ b \in seen[i]
    BY <1>4 DEF Covered
  <2>2. PICK i \in 1..Len(qs) : qs[i].favored /\ b \in hit[i]
    BY <1>2, <1>7, <2>1 DEF Covered
  <2>3. sq[i].favored = qs[i].favored
    BY <1>5, SameFields
  <2> QED
    BY <1>10, <1>11, <2>2, <2>3
<1>14. Rescored(sq, top, qs, q)
  <2>1. SUFFICES ASSUME NEW i \in 1..Len(qs)
                 PROVE  /\ i # q => Won(top, i) \subseteq Won(top_rated, i)
                        /\ (i # q /\ Won(top_rated, i) \subseteq qs[i].trace_mini) \/ Won(top_rated, i) = {}
                             => Won(top, i) \subseteq sq[i].trace_mini
    BY <1>4, <1>5 DEF Rescored
  <2>2. i # q => Won(top, i) \subseteq Won(top_rated, i)
    BY <1>6 DEF Won
  <2>3. sq[i].trace_mini = {} => Won(top, i) = {}
    <3>1. /\ sq[i].tc_ref = Cardinality(Won(top, i))
          /\ sq[i].tc_ref > 0 <=> sq[i].trace_mini # {}
      BY <1>4 DEF RefsExact
    <3>2. IsFiniteSet(Won(top, i)) /\ Cardinality(Won(top, i)) \in Nat
      BY WonFinite
    <3>3. Cardinality(Won(top, i)) = 0 => Won(top, i) = {}
      BY <3>2, FS_EmptySet
    <3> QED
      BY <3>1, <3>2, <3>3
  <2>4. CASE i # q /\ Won(top_rated, i) \subseteq qs[i].trace_mini
    BY <1>5, <2>2, <2>3, <2>4
  <2>5. CASE i = q /\ Won(top_rated, i) = {}
    <3>1. qs[i].trace_mini = {}
      <4>1. Cardinality({}) = 0
        BY FS_EmptySet
      <4>2. /\ qs[i].tc_ref = Cardinality(Won(top_rated, i))
            /\ qs[i].tc_ref > 0 <=> qs[i].trace_mini # {}
        BY <1>2 DEF RefsExact
      <4>3. qs[i].tc_ref = 0
        BY <2>5, <4>1, <4>2
      <4> QED
        BY <4>2, <4>3
    <3>2. Won(top, i) \subseteq BytesOf(t)
      BY <1>6, <2>5 DEF Won
    <3> QED
      BY <1>5, <2>2, <2>3, <3>1, <3>2
  <2> QED
    BY <2>2, <2>4, <2>5
<1>15. QueueCore(sq, top, seen, ch)
  BY <1>2, <1>4, <1>10, <1>12, <1>13 DEF QueueCore
<1> QED
  BY <1>1, <1>14, <1>15

(* Other fields of the entries do not matter to the table. *)
SameRefs(rs, qs) ==
  /\ GoodQueue(rs) /\ Len(rs) = Len(qs)
  /\ \A i \in 1..Len(qs) : /\ rs[i].tc_ref = qs[i].tc_ref /\ rs[i].trace_mini = qs[i].trace_mini
                           /\ rs[i].favored = qs[i].favored

LEMMA FieldsCore ==
  ASSUME NEW qs, NEW top, NEW seen, NEW ch, QueueCore(qs, top, seen, ch), NEW rs, SameRefs(rs, qs)
  PROVE  QueueCore(rs, top, seen, ch)
<1>1. RefsExact(rs, top)
  BY DEF QueueCore, SameRefs, RefsExact
<1>2. SeenExact(rs, top, seen)
  BY DEF QueueCore, SameRefs, SeenExact
<1>3. Covered(rs, top, seen, ch)
  BY DEF QueueCore, SameRefs, Covered
<1> QED
  BY <1>1, <1>2, <1>3 DEF QueueCore, SameRefs

LEMMA CalibrationRuns ==
  ASSUME NEW k \in Traces \cup {NoTrace}, NEW c \in Calibrations(k)
  PROVE  /\ c.runs # <<>> => c.runs[1] \in Traces
         /\ c.end = Wanted => c.runs # <<>> /\ Last(c.runs) \in Traces
<1>1. MayShow(k) \subseteq Traces
  BY DEF MayShow
<1>2. Wanted \in {"none", "crash"} /\ Wanted \notin Unwanted
  BY DEF Wanted, Unwanted
<1>3. CASE \E f \in Unwanted \cup {"noinst"} : c = [runs |-> <<>>, end |-> f]
  BY <1>2, <1>3
<1>4. CASE \E t \in MayShow(k) \ {Silent}, f \in Unwanted : c = [runs |-> <<t>>, end |-> f]
  <2>1. PICK t \in MayShow(k) \ {Silent}, f \in Unwanted : c = [runs |-> <<t>>, end |-> f]
    BY <1>4
  <2>2. c.runs = <<t>> /\ c.end = f
    BY <2>1
  <2> QED
    BY <1>1, <1>2, <2>2
<1>5. CASE \E r \in (MayShow(k) \ {Silent}) \X MayShow(k) : c = [runs |-> r, end |-> Wanted]
  <2>1. PICK r \in (MayShow(k) \ {Silent}) \X MayShow(k) : c = [runs |-> r, end |-> Wanted]
    BY <1>5
  <2>2. PICK t \in Traces, u \in Traces : r = <<t, u>>
    BY <1>1
  <2>3. c.runs = <<t, u>> /\ Len(<<t, u>>) = 2
    BY <2>1, <2>2
  <2>4. c.runs # <<>> /\ c.runs[1] = t /\ Last(c.runs) = u
    BY <2>3 DEF Last
  <2> QED
    BY <2>4
<1> QED
  BY <1>3, <1>4, <1>5 DEF Calibrations

LEMMA TraceIsNew == \A t \in Traces : t # NoTrace
<1> SUFFICES ASSUME NEW t \in Traces, t = NoTrace PROVE FALSE
  OBVIOUS
<1>1. DOMAIN t = 1..MapSize /\ 1 \in 1..MapSize
  BY QueueAssumption DEF Traces, Bytes
<1>2. DOMAIN t = {}
  BY DEF NoTrace
<1> QED
  BY <1>1, <1>2

(* The entry after a calibration. *)
CksumOf(e, c) == IF e.exec_cksum = NoTrace /\ c.runs # <<>> THEN c.runs[1] ELSE e.exec_cksum
SeenEntry(e, c) == [e EXCEPT !.exec_cksum = CksumOf(e, c),
                             !.var_behavior = @ \/ \E i \in DOMAIN c.runs : c.runs[i] # CksumOf(e, c)]
DoneEntry(e, c, us) == [SeenEntry(e, c) EXCEPT !.exec_us = us, !.cal_failed = 0]
FailedEntry(e, c, n) == [SeenEntry(e, c) EXCEPT !.cal_failed = n]

LEMMA CalibratedCases ==
  ASSUME NEW c, NEW qs, NEW q, NEW virgin, NEW n, Calibrated(c, qs, q, virgin, n)
  PROVE  /\ stop_soon' = (c.end = "stop")
         /\ \/ /\ c.end = Wanted
               /\ \E us : LET s == update_bitmap_score(Replaced(qs, q, DoneEntry(qs[q], c, us)), q, Last(c.runs))
                          IN queue' = s.queue /\ top_rated' = s.top /\ score_changed' = s.changed
               /\ hit' = SeenAlso(hit, q, Last(c.runs))
            \/ /\ c.end # Wanted
               /\ queue' = Replaced(qs, q, FailedEntry(qs[q], c, n))
               /\ UNCHANGED <<top_rated, score_changed, hit>>
<1>1. CASE c.end = Wanted
  <2>1. PICK us \in Speeds :
          LET s == update_bitmap_score(Replaced(qs, q, DoneEntry(qs[q], c, us)), q, Last(c.runs))
          IN queue' = s.queue /\ top_rated' = s.top /\ score_changed' = s.changed
               /\ hit' = SeenAlso(hit, q, Last(c.runs))
    BY <1>1 DEF Calibrated, Replaced, DoneEntry, SeenEntry, CksumOf, SeenAlso
  <2>2. stop_soon' = (c.end = "stop")
    BY DEF Calibrated
  <2> QED
    BY <1>1, <2>1, <2>2
<1>2. CASE c.end # Wanted
  BY <1>2 DEF Calibrated, Replaced, FailedEntry, SeenEntry, CksumOf
<1> QED
  BY <1>1, <1>2

(* Entries that a calibration makes of e: only what it measured differs. *)
CalibrationOf(f, e) ==
  /\ f.len = e.len /\ f.file = e.file /\ f.was_fuzzed = e.was_fuzzed /\ f.favored = e.favored
  /\ f.tc_ref = e.tc_ref /\ f.trace_mini = e.trace_mini /\ f.fs_redundant = e.fs_redundant

LEMMA CalibratedFields ==
  ASSUME NEW e, GoodEntry(e), NEW k \in Traces \cup {NoTrace}, NEW c \in Calibrations(k), NEW us,
         NEW n \in Nat
  PROVE  /\ GoodEntry(DoneEntry(e, c, us)) /\ CalibrationOf(DoneEntry(e, c, us), e)
         /\ DoneEntry(e, c, us).cal_failed = 0
         /\ c.end = Wanted => DoneEntry(e, c, us).exec_cksum # NoTrace
         /\ GoodEntry(FailedEntry(e, c, n)) /\ CalibrationOf(FailedEntry(e, c, n), e)
         /\ FailedEntry(e, c, n).cal_failed = n
<1>1. CksumOf(e, c) \in Traces \cup {NoTrace} /\ (c.end = Wanted => CksumOf(e, c) # NoTrace)
  BY CalibrationRuns, TraceIsNew DEF CksumOf, GoodEntry
<1>2. /\ GoodEntry(SeenEntry(e, c)) /\ CalibrationOf(SeenEntry(e, c), e)
      /\ SeenEntry(e, c).exec_cksum = CksumOf(e, c)
  BY <1>1 DEF SeenEntry, GoodEntry, CalibrationOf, Fields
<1>3. PICK f : f = SeenEntry(e, c)
  OBVIOUS
<1>4. GoodEntry(f) /\ CalibrationOf(f, e) /\ f.exec_cksum = CksumOf(e, c)
  BY <1>2, <1>3
<1>5. /\ DoneEntry(e, c, us) = [f EXCEPT !.exec_us = us, !.cal_failed = 0]
      /\ FailedEntry(e, c, n) = [f EXCEPT !.cal_failed = n]
  BY <1>3 DEF DoneEntry, FailedEntry
<1> HIDE <1>3
<1>6. PICK g, h : g = DoneEntry(e, c, us) /\ h = FailedEntry(e, c, n)
  OBVIOUS
<1>7. /\ DOMAIN g = Fields /\ g.cal_failed = 0
      /\ \A x \in Fields \ {"exec_us", "cal_failed"} : g[x] = f[x]
  BY <1>4, <1>5, <1>6 DEF GoodEntry, Fields
<1>8. /\ DOMAIN h = Fields /\ h.cal_failed = n
      /\ \A x \in Fields \ {"cal_failed"} : h[x] = f[x]
  BY <1>4, <1>5, <1>6 DEF GoodEntry, Fields
<1>9. /\ g.len = f.len /\ g.file = f.file /\ g.was_fuzzed = f.was_fuzzed /\ g.favored = f.favored
      /\ g.tc_ref = f.tc_ref /\ g.trace_mini = f.trace_mini /\ g.exec_cksum = f.exec_cksum
      /\ g.fs_redundant = f.fs_redundant
  BY <1>7 DEF Fields
<1>10. /\ h.len = f.len /\ h.file = f.file /\ h.was_fuzzed = f.was_fuzzed /\ h.favored = f.favored
       /\ h.tc_ref = f.tc_ref /\ h.trace_mini = f.trace_mini /\ h.exec_cksum = f.exec_cksum
       /\ h.fs_redundant = f.fs_redundant
  BY <1>8 DEF Fields
<1>11. GoodEntry(g) /\ CalibrationOf(g, e) /\ g.exec_cksum = CksumOf(e, c)
  BY <1>4, <1>7, <1>9 DEF GoodEntry, CalibrationOf
<1>12. GoodEntry(h) /\ CalibrationOf(h, e)
  BY <1>4, <1>8, <1>10 DEF GoodEntry, CalibrationOf
<1> QED
  BY <1>1, <1>6, <1>7, <1>8, <1>11, <1>12

(* What a calibration of entry q of qs does. *)
CalibrationDone(qs, q, wanted, n) ==
  /\ QueueCore(queue', top_rated', hit', score_changed') /\ Len(queue') = Len(qs)
  /\ \A i \in 1..Len(qs) :
       /\ queue'[i].len = qs[i].len /\ queue'[i].file = qs[i].file
       /\ queue'[i].was_fuzzed = qs[i].was_fuzzed /\ queue'[i].favored = qs[i].favored
       /\ queue'[i].fs_redundant = qs[i].fs_redundant
       /\ i # q => /\ queue'[i].cal_failed = qs[i].cal_failed /\ queue'[i].exec_cksum = qs[i].exec_cksum
                   /\ Won(top_rated', i) \subseteq Won(top_rated, i) /\ hit'[i] = hit[i]
       /\ Won(top_rated, i) \subseteq qs[i].trace_mini => Won(top_rated', i) \subseteq queue'[i].trace_mini
  /\ wanted => queue'[q].cal_failed = 0 /\ queue'[q].exec_cksum # NoTrace
  /\ ~wanted => queue'[q].cal_failed = n /\ Won(top_rated', q) = {}

LEMMA CalibratedEffect ==
  ASSUME NEW qs, QueueCore(qs, top_rated, hit, score_changed), NEW q \in 1..Len(qs),
         Won(top_rated, q) = {}, NEW k \in Traces \cup {NoTrace}, NEW c \in Calibrations(k), NEW virgin,
         NEW n \in Nat, Calibrated(c, qs, q, virgin, n)
  PROVE  CalibrationDone(qs, q, c.end = Wanted, n) /\ stop_soon' \in BOOLEAN
<1>0. stop_soon' \in BOOLEAN
  BY CalibratedCases, Zenon
<1>1. GoodQueue(qs) /\ GoodEntry(qs[q])
  BY DEF QueueCore, GoodQueue
<1>2. CASE c.end = Wanted
  <2>1. PICK us : LET s == update_bitmap_score(Replaced(qs, q, DoneEntry(qs[q], c, us)), q, Last(c.runs))
                  IN queue' = s.queue /\ top_rated' = s.top /\ score_changed' = s.changed
    BY <1>2, CalibratedCases
  <2>2. hit' = SeenAlso(hit, q, Last(c.runs))
    BY <1>2, CalibratedCases
  <2>3. PICK e : e = DoneEntry(qs[q], c, us)
    OBVIOUS
  <2>4. GoodEntry(e) /\ CalibrationOf(e, qs[q]) /\ e.cal_failed = 0 /\ e.exec_cksum # NoTrace
    BY <1>1, <1>2, <2>3, CalibratedFields
  <2>5. PICK rs : rs = Replaced(qs, q, e)
    OBVIOUS
  <2>6. PICK t : t = Last(c.runs)
    OBVIOUS
  <2>7. PICK s : s = update_bitmap_score(rs, q, t)
    OBVIOUS
  <2>8. queue' = s.queue /\ top_rated' = s.top /\ score_changed' = s.changed
    BY <2>1, <2>3, <2>5, <2>6, <2>7
  <2> HIDE <2>3
  <2>9. /\ GoodQueue(rs) /\ Len(rs) = Len(qs)
        /\ \A i \in 1..Len(qs) : rs[i] = IF i = q THEN e ELSE qs[i]
    <3>1. ReplacedWell(rs, qs, q, e)
      BY <1>1, <2>4, <2>5, QueueReplacedBy
    <3> QED
      BY <3>1 DEF ReplacedWell
  <2>10. SameRefs(rs, qs)
    BY <2>4, <2>9 DEF SameRefs, CalibrationOf
  <2>11. QueueCore(rs, top_rated, hit, score_changed)
    BY <2>10, FieldsCore
  <2>12. t \in Traces /\ q \in 1..Len(rs)
    BY <1>2, <2>6, <2>9, CalibrationRuns
  <2>13. QueueCore(s.queue, s.top, SeenAlso(hit, q, t), s.changed) /\ Rescored(s.queue, s.top, rs, q)
    BY <2>7, <2>11, <2>12, RescoreCore
  <2>14. QueueCore(queue', top_rated', hit', score_changed') /\ Rescored(queue', top_rated', rs, q)
    BY <2>2, <2>6, <2>8, <2>13
  <2>15. Len(queue') = Len(qs)
    BY <2>9, <2>14 DEF Rescored
  <2>16. ASSUME NEW i \in 1..Len(qs)
         PROVE  /\ queue'[i].len = qs[i].len /\ queue'[i].file = qs[i].file
                /\ queue'[i].was_fuzzed = qs[i].was_fuzzed /\ queue'[i].favored = qs[i].favored
                /\ queue'[i].fs_redundant = qs[i].fs_redundant
                /\ i # q => /\ queue'[i].cal_failed = qs[i].cal_failed /\ queue'[i].exec_cksum = qs[i].exec_cksum
                            /\ Won(top_rated', i) \subseteq Won(top_rated, i) /\ hit'[i] = hit[i]
                /\ Won(top_rated, i) \subseteq qs[i].trace_mini => Won(top_rated', i) \subseteq queue'[i].trace_mini
                /\ i = q => queue'[i].cal_failed = 0 /\ queue'[i].exec_cksum # NoTrace
    <3>1. /\ SameEntry(queue'[i], rs[i])
          /\ i # q => Won(top_rated', i) \subseteq Won(top_rated, i)
          /\ (i # q /\ Won(top_rated, i) \subseteq rs[i].trace_mini) \/ Won(top_rated, i) = {}
               => Won(top_rated', i) \subseteq queue'[i].trace_mini
      BY <2>9, <2>14 DEF Rescored
    <3>2. PICK f : f = queue'[i]
      OBVIOUS
    <3>3. /\ f.len = rs[i].len /\ f.file = rs[i].file /\ f.exec_cksum = rs[i].exec_cksum
          /\ f.cal_failed = rs[i].cal_failed /\ f.was_fuzzed = rs[i].was_fuzzed /\ f.favored = rs[i].favored
          /\ f.fs_redundant = rs[i].fs_redundant
      BY <3>1, <3>2, SameFields
    <3>4. /\ rs[i].len = qs[i].len /\ rs[i].file = qs[i].file /\ rs[i].was_fuzzed = qs[i].was_fuzzed
          /\ rs[i].favored = qs[i].favored /\ rs[i].fs_redundant = qs[i].fs_redundant
          /\ i # q => rs[i] = qs[i]
          /\ i = q => rs[i].cal_failed = 0 /\ rs[i].exec_cksum # NoTrace
      BY <2>4, <2>9 DEF CalibrationOf
    <3>5. i # q => hit'[i] = hit[i]
      <4>1. i \in DOMAIN hit
        BY QueueAssumption DEF QueueCore
      <4> QED
        BY <2>2, <4>1 DEF SeenAlso
    <3> QED
      BY <3>1, <3>2, <3>3, <3>4, <3>5
  <2>17. CalibrationDone(qs, q, TRUE, n)
    BY <2>14, <2>15, <2>16 DEF CalibrationDone
  <2> QED
    BY <1>0, <1>2, <2>17
<1>3. CASE c.end # Wanted
  <2>1. /\ queue' = Replaced(qs, q, FailedEntry(qs[q], c, n))
        /\ top_rated' = top_rated /\ score_changed' = score_changed /\ hit' = hit
    BY <1>3, CalibratedCases
  <2>2. PICK e : e = FailedEntry(qs[q], c, n)
    OBVIOUS
  <2>3. GoodEntry(e) /\ CalibrationOf(e, qs[q]) /\ e.cal_failed = n
    BY <1>1, <2>2, CalibratedFields, SMTT(60)
  <2>4. PICK rs : rs = Replaced(qs, q, e)
    OBVIOUS
  <2>5. queue' = rs
    BY <2>1, <2>2, <2>4
  <2> HIDE <2>2
  <2>6. /\ GoodQueue(rs) /\ Len(rs) = Len(qs)
        /\ \A i \in 1..Len(qs) : rs[i] = IF i = q THEN e ELSE qs[i]
    <3>1. ReplacedWell(rs, qs, q, e)
      BY <1>1, <2>3, <2>4, QueueReplacedBy
    <3> QED
      BY <3>1 DEF ReplacedWell
  <2>7. SameRefs(rs, qs)
    BY <2>3, <2>6 DEF SameRefs, CalibrationOf
  <2>8. QueueCore(rs, top_rated, hit, score_changed)
    BY <2>7, FieldsCore
  <2>9. QueueCore(queue', top_rated', hit', score_changed')
    BY <2>1, <2>5, <2>8
  <2>10. ASSUME NEW i \in 1..Len(qs)
         PROVE  /\ rs[i].len = qs[i].len /\ rs[i].file = qs[i].file
                /\ rs[i].was_fuzzed = qs[i].was_fuzzed /\ rs[i].favored = qs[i].favored
                /\ rs[i].fs_redundant = qs[i].fs_redundant
                /\ i # q => rs[i].cal_failed = qs[i].cal_failed /\ rs[i].exec_cksum = qs[i].exec_cksum
                /\ rs[i].trace_mini = qs[i].trace_mini
                /\ i = q => rs[i].cal_failed = n
    BY <2>3, <2>6 DEF CalibrationOf
  <2>11. \A i : Won(top_rated', i) = Won(top_rated, i)
    BY <2>1
  <2>12. CalibrationDone(qs, q, FALSE, n)
    BY <2>1, <2>5, <2>6, <2>9, <2>10, <2>11 DEF CalibrationDone
  <2> QED
    BY <1>0, <1>3, <2>12
<1> QED
  BY <1>2, <1>3
-----------------------------------------------------------------------------
(*                            The actions                                  *)

LEMMA QueueDomain == ASSUME NEW qs, GoodQueue(qs) PROVE DOMAIN qs = 1..Len(qs) /\ Len(qs) \in Nat
  BY DEF GoodQueue

LEMMA SameCounts ==
  ASSUME GoodQueue(queue), GoodQueue(queue'), Len(queue') = Len(queue), PendingExact,
         UNCHANGED <<pending_favored, pending_not_fuzzed>>,
         \A i \in 1..Len(queue) : /\ queue'[i].was_fuzzed = queue[i].was_fuzzed
                                  /\ queue'[i].favored = queue[i].favored
  PROVE  PendingExact'
<1>1. DOMAIN queue = 1..Len(queue)
  BY QueueDomain
<1>2. DOMAIN queue' = 1..Len(queue)
  BY QueueDomain
<1>3. /\ PendingFavored' = PendingFavored
      /\ {i \in DOMAIN queue' : ~queue'[i].was_fuzzed} = {i \in DOMAIN queue : ~queue[i].was_fuzzed}
  BY <1>1, <1>2 DEF PendingFavored
<1> QED
  BY <1>3 DEF PendingExact

LEMMA DryRunKeeps == QueueInv /\ DryRun => QueueInv'
<1> SUFFICES ASSUME QueueInv, DryRun PROVE QueueInv'
  OBVIOUS
<1>1. /\ QueueCore(queue, top_rated, hit, score_changed) /\ CurExact /\ FilesExact
      /\ CalibrationExact /\ MiniExact /\ PendingExact
  BY DEF QueueInv
<1>2. GoodQueue(queue) /\ Len(queue) \in Nat /\ pc = "dryRun" /\ queue_cur \in 1..Len(queue)
  BY <1>1, QueueDomain DEF QueueCore, CurExact, DryRun
<1>3. PICK c \in Calibrations(NoTrace), tolerant \in BOOLEAN :
        LET skip == tolerant /\ c.end \in {"hang", "crash"} \ {Wanted}
        IN /\ Calibrated(c, queue, queue_cur, virgin_bits, IF skip THEN CAL_CHANCES ELSE 1)
           /\ pc' = CASE c.end = "stop" -> "stopped"
                      [] skip \/ c.end = Wanted -> "dryRun"
                      [] OTHER -> "fatal"
  BY DEF DryRun
<1>4. PICK n \in Nat \ {0} : Calibrated(c, queue, queue_cur, virgin_bits, n)
  BY <1>3, QueueAssumption
<1>5. pc' \in {"stopped", "dryRun", "fatal"}
  BY <1>3
<1>6. Won(top_rated, queue_cur) = {}
  BY <1>1, <1>2 DEF CalibrationExact, Uncalibrated
<1>7. CalibrationDone(queue, queue_cur, c.end = Wanted, n) /\ stop_soon' \in BOOLEAN
  BY <1>1, <1>2, <1>4, <1>6, CalibratedEffect
<1>8. queue_cur' = queue_cur + 1 /\ UNCHANGED <<pending_favored, pending_not_fuzzed>>
  BY DEF DryRun
<1>9. QueueCore(queue', top_rated', hit', score_changed') /\ Len(queue') = Len(queue)
  BY <1>7 DEF CalibrationDone
<1>10. \A i \in 1..Len(queue) :
         /\ queue'[i].len = queue[i].len /\ queue'[i].file = queue[i].file
         /\ queue'[i].was_fuzzed = queue[i].was_fuzzed /\ queue'[i].favored = queue[i].favored
         /\ i # queue_cur => /\ queue'[i].cal_failed = queue[i].cal_failed
                             /\ queue'[i].exec_cksum = queue[i].exec_cksum
                             /\ Won(top_rated', i) \subseteq Won(top_rated, i)
         /\ Won(top_rated, i) \subseteq queue[i].trace_mini => Won(top_rated', i) \subseteq queue'[i].trace_mini
  BY <1>7 DEF CalibrationDone
<1>11. /\ c.end = Wanted => queue'[queue_cur].cal_failed = 0 /\ queue'[queue_cur].exec_cksum # NoTrace
       /\ c.end # Wanted => queue'[queue_cur].cal_failed = n /\ Won(top_rated', queue_cur) = {}
  BY <1>7 DEF CalibrationDone
<1> HIDE <1>3, <1>4, <1>7
<1>12. CurExact'
  BY <1>2, <1>5, <1>7, <1>8, <1>9 DEF CurExact
<1>13. FilesExact'
  BY <1>1, <1>2, <1>9, <1>10 DEF FilesExact
<1>14. CalibrationExact'
  <2>1. SUFFICES ASSUME NEW i \in 1..Len(queue)
                 PROVE  /\ Uncalibrated(i)' => Won(top_rated', i) = {}
                        /\ ~Uncalibrated(i)' /\ pc' \notin {"stopped", "fatal"} => queue'[i].exec_cksum # NoTrace
    BY <1>9 DEF CalibrationExact
  <2>2. CASE i # queue_cur
    <3>1. /\ Uncalibrated(i) => Won(top_rated, i) = {}
          /\ ~Uncalibrated(i) => queue[i].exec_cksum # NoTrace
      BY <1>1, <1>2 DEF CalibrationExact
    <3>2. Uncalibrated(i)' => Uncalibrated(i)
      BY <1>2, <1>8, <1>10, <2>2 DEF Uncalibrated
    <3>3. pc' \notin {"stopped", "fatal"} /\ Uncalibrated(i) => Uncalibrated(i)'
      BY <1>2, <1>5, <1>8, <1>10, <2>2 DEF Uncalibrated
    <3> QED
      BY <1>10, <2>2, <3>1, <3>2, <3>3
  <2>3. CASE i = queue_cur
    <3>1. Uncalibrated(i)' <=> queue'[i].cal_failed > 0
      BY <1>2, <1>8, <2>3 DEF Uncalibrated
    <3> QED
      BY <1>4, <1>11, <2>3, <3>1
  <2> QED
    BY <2>2, <2>3
<1>15. MiniExact'
  BY <1>1, <1>2, <1>9, <1>10 DEF MiniExact
<1>16. PendingExact'
  BY <1>1, <1>2, <1>8, <1>9, <1>10, SameCounts DEF QueueCore
<1> QED
  BY <1>9, <1>12, <1>13, <1>14, <1>15, <1>16 DEF QueueInv

LEMMA InitHolds == QueueInit => QueueInv
<1> SUFFICES ASSUME QueueInit PROVE QueueInv
  OBVIOUS
<1>1. PICK n \in Seeds : queue = [i \in 1..n |-> Entry(Bigger(5, TRIM_MIN_BYTES), NoTrace)]
  BY DEF QueueInit
<1>2. n \in 1..MaxQueue /\ n \in Nat
  BY QueueAssumption
<1>3. PICK e : e = Entry(Bigger(5, TRIM_MIN_BYTES), NoTrace)
  OBVIOUS
<1>4. /\ GoodEntry(e) /\ e.file = e.len /\ ~e.was_fuzzed /\ ~e.favored /\ e.tc_ref = 0 /\ e.trace_mini = {}
  BY <1>3 DEF GoodEntry, Entry, Fields
<1>5. queue = [i \in 1..n |-> e]
  BY <1>1, <1>3
<1> HIDE <1>1, <1>3
<1>6. queue \in Seq({e}) /\ Len(queue) = n /\ DOMAIN queue = 1..n /\ \A i \in 1..n : queue[i] = e
  BY <1>2, <1>5
<1>7. GoodQueue(queue)
  <2>1. queue \in Seq(Range(queue))
    BY <1>6, SelfTyped
  <2> QED
    BY <1>4, <1>6, <2>1 DEF GoodQueue
<1>8. /\ top_rated = [b \in Bytes |-> 0] /\ score_changed = FALSE /\ hit = [i \in 1..MaxQueue |-> {}]
      /\ pc = "dryRun" /\ queue_cur = 1 /\ stop_soon = FALSE
      /\ pending_favored = 0 /\ pending_not_fuzzed = n
  BY <1>6 DEF QueueInit
<1>9. \A i \in 1..n : Won(top_rated, i) = {}
  BY <1>8 DEF Won
<1>10. Cardinality({}) = 0
  BY FS_EmptySet
<1>11. QueueCore(queue, top_rated, hit, score_changed)
  <2>1. RefsExact(queue, top_rated)
    <3>1. \A i \in 1..n : Cardinality(Won(top_rated, i)) = 0
      BY <1>9, <1>10, Zenon
    <3>2. \A i \in 1..n : queue[i].tc_ref = 0 /\ queue[i].trace_mini = {}
      BY <1>4, <1>6
    <3> QED
      BY <1>6, <3>1, <3>2 DEF RefsExact
  <2>2. SeenExact(queue, top_rated, hit)
    BY <1>4, <1>6, <1>8, <1>9 DEF SeenExact
  <2>3. Covered(queue, top_rated, hit, score_changed)
    BY <1>8 DEF Covered
  <2>4. top_rated \in [Bytes -> 0..n] /\ hit \in [1..MaxQueue -> SUBSET Bytes] /\ score_changed \in BOOLEAN
    <3>1. score_changed \in BOOLEAN
      BY <1>8, Zenon
    <3> QED
      BY <1>2, <1>8, <3>1
  <2> QED
    BY <1>2, <1>6, <1>7, <2>1, <2>2, <2>3, <2>4 DEF QueueCore
<1>12. CurExact
  <2>1. stop_soon \in BOOLEAN
    BY <1>8, Zenon
  <2>2. pc = "dryRun" /\ queue_cur = 1
    BY <1>8
  <2> QED
    BY <2>1, <2>2 DEF CurExact
<1>13. FilesExact
  BY <1>4, <1>6 DEF FilesExact
<1>14. CalibrationExact
  BY <1>2, <1>6, <1>8, <1>9 DEF CalibrationExact, Uncalibrated
<1>15. MiniExact
  BY <1>6, <1>9 DEF MiniExact
<1>16. PendingExact
  <2>1. PendingFavored = {} /\ {i \in DOMAIN queue : ~queue[i].was_fuzzed} = 1..n
    BY <1>4, <1>6 DEF PendingFavored
  <2>2. Cardinality(1..n) = n
    BY <1>2, FS_Interval
  <2> QED
    BY <1>8, <1>10, <2>1, <2>2 DEF PendingExact
<1> QED
  BY <1>11, <1>12, <1>13, <1>14, <1>15, <1>16 DEF QueueInv

(* Steps that leave the queue and its table alone. *)
LEMMA TableKept ==
  ASSUME QueueInv, UNCHANGED <<queue, top_rated, score_changed, hit, pending_favored, pending_not_fuzzed>>
  PROVE  QueueCore(queue, top_rated, hit, score_changed)' /\ PendingExact'
<1>1. QueueCore(queue, top_rated, hit, score_changed) /\ PendingExact
  BY DEF QueueInv
<1>2. QueueCore(queue, top_rated, hit, score_changed)'
  BY <1>1
<1>3. PendingExact'
  BY <1>1 DEF PendingExact, PendingFavored
<1> QED
  BY <1>2, <1>3

LEMMA IdleKeeps ==
  ASSUME QueueInv, UNCHANGED <<queue, top_rated, score_changed, hit, pending_favored, pending_not_fuzzed>>,
         pc \notin {"dryRun", "stopped", "fatal"}, pc' # "dryRun", CurExact', FilesExact', MiniExact'
  PROVE  QueueInv'
<1>1. CalibrationExact'
  <2>1. CalibrationExact
    BY DEF QueueInv
  <2> QED
    BY <2>1 DEF CalibrationExact, Uncalibrated
<1> QED
  BY <1>1, TableKept DEF QueueInv

LEMMA LengthTyped == QueueInv => Len(queue) \in Nat
<1> SUFFICES ASSUME QueueInv PROVE Len(queue) \in Nat
  OBVIOUS
<1>1. GoodQueue(queue)
  BY DEF QueueInv, QueueCore
<1> QED
  BY <1>1, QueueDomain

LEMMA EndDryRunKeeps == QueueInv /\ EndDryRun => QueueInv'
<1> SUFFICES ASSUME QueueInv, EndDryRun PROVE QueueInv'
  OBVIOUS
<1>1. /\ UNCHANGED <<queue, top_rated, score_changed, hit, pending_favored, pending_not_fuzzed, stop_soon>>
      /\ pc = "dryRun" /\ queue_cur > Len(queue) /\ queue_cur' \in 0..Len(queue) /\ pc' \in {"fatal", "cull"}
  BY DEF EndDryRun
<1>2. CurExact /\ FilesExact /\ CalibrationExact /\ MiniExact
  BY DEF QueueInv
<1>3. Len(queue) \in Nat
  BY LengthTyped
<1>4. CurExact'
  BY <1>1, <1>2, <1>3 DEF CurExact
<1>5. FilesExact'
  BY <1>1, <1>2 DEF FilesExact
<1>6. CalibrationExact'
  <2>1. \A i \in 1..Len(queue) : Uncalibrated(i)' <=> Uncalibrated(i)
    BY <1>1, <1>2, <1>3 DEF Uncalibrated, CurExact
  <2> QED
    BY <1>1, <1>2, <2>1 DEF CalibrationExact
<1>7. MiniExact'
  BY <1>1, <1>2 DEF MiniExact
<1> QED
  BY <1>1, <1>4, <1>5, <1>6, <1>7, TableKept DEF QueueInv

LEMMA SkipEntryKeeps == QueueInv /\ SkipEntry => QueueInv'
<1> SUFFICES ASSUME QueueInv, SkipEntry PROVE QueueInv'
  OBVIOUS
<1>1. /\ UNCHANGED <<queue, top_rated, score_changed, hit, pending_favored, pending_not_fuzzed, stop_soon>>
      /\ pc = "fuzz_one" /\ pc' \in {"stopped", "cull"} /\ queue_cur' = Advance
  BY DEF SkipEntry, Unfuzzed
<1>2. CurExact /\ FilesExact /\ MiniExact /\ Len(queue) \in Nat
  BY LengthTyped DEF QueueInv
<1>3. CurExact'
  BY <1>1, <1>2 DEF CurExact, Advance
<1>4. FilesExact'
  BY <1>1, <1>2 DEF FilesExact
<1>5. MiniExact'
  BY <1>1, <1>2 DEF MiniExact
<1> QED
  BY <1>1, <1>3, <1>4, <1>5, IdleKeeps

LEMMA GiveUpEntryKeeps == QueueInv /\ GiveUpEntry => QueueInv'
<1> SUFFICES ASSUME QueueInv, GiveUpEntry PROVE QueueInv'
  OBVIOUS
<1>1. /\ UNCHANGED <<queue, top_rated, score_changed, hit, pending_favored, pending_not_fuzzed, stop_soon>>
      /\ pc = "fuzz_one" /\ pc' = "abandon" /\ queue_cur' = queue_cur
  BY DEF GiveUpEntry, Unfuzzed
<1>2. CurExact /\ FilesExact /\ MiniExact
  BY DEF QueueInv
<1>3. CurExact'
  BY <1>1, <1>2 DEF CurExact
<1>4. FilesExact'
  BY <1>1, <1>2 DEF FilesExact
<1>5. MiniExact'
  BY <1>1, <1>2 DEF MiniExact
<1> QED
  BY <1>1, <1>3, <1>4, <1>5, IdleKeeps

LEMMA StartEntryKeeps == QueueInv /\ StartEntry => QueueInv'
<1> SUFFICES ASSUME QueueInv, StartEntry PROVE QueueInv'
  OBVIOUS
<1>1. /\ UNCHANGED <<queue, top_rated, score_changed, hit, pending_favored, pending_not_fuzzed, stop_soon>>
      /\ pc = "fuzz_one" /\ pc' = "trim" /\ queue_cur' = queue_cur /\ queue[queue_cur].cal_failed = 0
  BY DEF StartEntry, Unfuzzed, cur
<1>2. CurExact /\ FilesExact /\ MiniExact
  BY DEF QueueInv
<1>3. CurExact'
  BY <1>1, <1>2 DEF CurExact
<1>4. FilesExact'
  BY <1>1, <1>2 DEF FilesExact
<1>5. MiniExact'
  BY <1>1, <1>2 DEF MiniExact
<1> QED
  BY <1>1, <1>3, <1>4, <1>5, IdleKeeps

LEMMA EndSyncKeeps == QueueInv /\ EndSync => QueueInv'
<1> SUFFICES ASSUME QueueInv, EndSync PROVE QueueInv'
  OBVIOUS
<1>1. /\ UNCHANGED <<queue, top_rated, score_changed, hit, pending_favored, pending_not_fuzzed, stop_soon>>
      /\ \/ pc = "sync" /\ pc' \in {"stopped", "cull"} /\ queue_cur' = Advance
         \/ pc = "import" /\ pc' = "fuzz_one" /\ queue_cur' = queue_cur
      /\ import_first' = import_first
  BY DEF EndSync, Unfuzzed
<1>2. CurExact /\ FilesExact /\ MiniExact /\ Len(queue) \in Nat
  BY LengthTyped DEF QueueInv
<1>3. CurExact'
  BY <1>1, <1>2 DEF CurExact, Advance
<1>4. FilesExact'
  BY <1>1, <1>2 DEF FilesExact
<1>5. MiniExact'
  BY <1>1, <1>2 DEF MiniExact
<1> QED
  BY <1>1, <1>3, <1>4, <1>5, IdleKeeps

(* An entry after cull_queue. *)
CulledEntry(e, fav) == mark_as_redundant([e EXCEPT !.favored = fav], ~fav)

LEMMA CulledFields ==
  ASSUME NEW e, GoodEntry(e), NEW fav \in BOOLEAN
  PROVE  /\ GoodEntry(CulledEntry(e, fav)) /\ CulledEntry(e, fav).favored = fav
         /\ \A x \in Fields \ {"favored", "fs_redundant"} : CulledEntry(e, fav)[x] = e[x]
<1>1. PICK f : f = CulledEntry(e, fav)
  OBVIOUS
<1>2. /\ DOMAIN f = Fields
      /\ \A x \in Fields \ {"favored", "fs_redundant"} : f[x] = e[x]
  BY <1>1 DEF CulledEntry, mark_as_redundant, GoodEntry
<1>3. f.favored = fav
  BY <1>1 DEF CulledEntry, mark_as_redundant, GoodEntry, Fields
<1>4. /\ f.cal_failed = e.cal_failed /\ f.was_fuzzed = e.was_fuzzed /\ f.trace_mini = e.trace_mini
      /\ f.exec_cksum = e.exec_cksum
  BY <1>2 DEF Fields
<1>5. GoodEntry(f)
  BY <1>2, <1>3, <1>4 DEF GoodEntry
<1> QED
  BY <1>1, <1>2, <1>3, <1>5

LEMMA CullKeeps == QueueInv /\ Cull => QueueInv'
<1> SUFFICES ASSUME QueueInv, Cull PROVE QueueInv'
  OBVIOUS
<1>1. /\ QueueCore(queue, top_rated, hit, score_changed) /\ CurExact /\ FilesExact
      /\ CalibrationExact /\ MiniExact /\ PendingExact
  BY DEF QueueInv
<1>2. /\ pc = "cull" /\ pc' \in {"import", "fuzz_one"} /\ queue_cur' = Bigger(queue_cur, 1)
      /\ pc' = "import" => import_first
      /\ UNCHANGED <<top_rated, hit, stop_soon, pending_not_fuzzed, import_first>>
  BY DEF Cull, Unfuzzed
<1>3. GoodQueue(queue) /\ Len(queue) \in 1..MaxQueue /\ Len(queue) \in Nat /\ DOMAIN queue = 1..Len(queue)
  BY <1>1, QueueDomain DEF QueueCore
<1>4. queue_cur' \in 1..Len(queue)
  BY <1>1, <1>2, <1>3 DEF CurExact, Bigger
<1>5. CASE ~score_changed
  <2>1. UNCHANGED <<queue, score_changed, pending_favored>>
    BY <1>5 DEF Cull, cull_queue
  <2>2. CurExact'
    BY <1>1, <1>2, <1>4, <1>5, <2>1 DEF CurExact
  <2>3. FilesExact'
    BY <1>1, <1>2, <2>1 DEF FilesExact
  <2>4. MiniExact'
    BY <1>1, <1>2, <2>1 DEF MiniExact
  <2> QED
    BY <1>2, <2>1, <2>2, <2>3, <2>4, IdleKeeps
<1>6. CASE score_changed
  <2>1. PICK F : F = Culled.favored
    OBVIOUS
  <2>2. queue' = [i \in 1..Len(queue) |-> CulledEntry(queue[i], i \in F)]
    BY <1>3, <1>6, <2>1 DEF Cull, cull_queue, CulledEntry
  <2>3. score_changed' = FALSE /\ pending_favored' = Culled.pending
    BY <1>6 DEF Cull, cull_queue
  <2>4. AllMini
    BY <1>1, <1>2 DEF AllMini, MiniExact
  <2>5. CullsKept(Culled.temp_v, F, Culled.pending, MapSize)
    BY <1>1, <2>1, <2>4, CullResult DEF CullKept
  <2>6. /\ F \subseteq 1..Len(queue) /\ Culled.pending = Cardinality(StillPending(F))
        /\ \A b \in Bytes : top_rated[b] # 0 => \E i \in F : b \in hit[i]
    BY <2>5 DEF CullsKept, Bytes
  <2>7. ASSUME NEW i \in 1..Len(queue)
        PROVE  /\ GoodEntry(queue'[i]) /\ queue'[i].favored = (i \in F)
               /\ \A x \in Fields \ {"favored", "fs_redundant"} : queue'[i][x] = queue[i][x]
    <3>1. GoodEntry(queue[i])
      BY <1>3 DEF GoodQueue
    <3>2. PICK fav \in BOOLEAN : fav = (i \in F)
      <4>1. CASE i \in F
        <5>1. TRUE = (i \in F)
          BY <4>1
        <5> QED
          BY <5>1, Zenon
      <4>2. CASE i \notin F
        <5>1. FALSE = (i \in F)
          BY <4>2
        <5> QED
          BY <5>1, Zenon
      <4> QED
        BY <4>1, <4>2
    <3>3. queue'[i] = CulledEntry(queue[i], fav)
      BY <2>2, <3>2
    <3>4. /\ GoodEntry(queue'[i]) /\ queue'[i].favored = fav
          /\ \A x \in Fields \ {"favored", "fs_redundant"} : queue'[i][x] = queue[i][x]
      BY <3>1, <3>3, CulledFields
    <3> QED
      BY <3>2, <3>4
  <2>8. DOMAIN queue' = 1..Len(queue) /\ GoodQueue(queue') /\ Len(queue') = Len(queue)
    <3> DEFINE S == {CulledEntry(queue[i], i \in F) : i \in 1..Len(queue)}
    <3>1. queue' \in [1..Len(queue) -> S]
      BY <2>2
    <3>2. queue' \in Seq(S) /\ Len(queue') = Len(queue) /\ DOMAIN queue' = 1..Len(queue)
      <4> HIDE DEF S
      <4> QED
        BY <1>3, <3>1
    <3>3. queue' \in Seq(Range(queue'))
      <4> HIDE DEF S
      <4> QED
        BY <3>2, SelfTyped
    <3> QED
      BY <2>7, <3>2, <3>3 DEF GoodQueue
  <2>9. \A i \in 1..Len(queue) :
          /\ queue'[i].len = queue[i].len /\ queue'[i].file = queue[i].file
          /\ queue'[i].cal_failed = queue[i].cal_failed /\ queue'[i].exec_cksum = queue[i].exec_cksum
          /\ queue'[i].was_fuzzed = queue[i].was_fuzzed /\ queue'[i].trace_mini = queue[i].trace_mini
          /\ queue'[i].tc_ref = queue[i].tc_ref
    BY <2>7 DEF Fields
  <2> HIDE <2>2
  <2>10. QueueCore(queue, top_rated, hit, score_changed)'
    <3>1. RefsExact(queue', top_rated)
      BY <1>1, <2>8, <2>9 DEF QueueCore, RefsExact
    <3>2. SeenExact(queue', top_rated, hit)
      BY <1>1, <2>8, <2>9 DEF QueueCore, SeenExact
    <3>3. Covered(queue', top_rated, hit, FALSE)
      BY <2>6, <2>7, <2>8 DEF Covered
    <3>4. FALSE \in BOOLEAN /\ top_rated \in [Bytes -> 0..Len(queue')] /\ hit \in [1..MaxQueue -> SUBSET Bytes]
      BY <1>1, <2>8 DEF QueueCore
    <3>5. QueueCore(queue', top_rated, hit, FALSE)
      BY <1>3, <2>8, <3>1, <3>2, <3>3, <3>4 DEF QueueCore
    <3> QED
      BY <1>2, <2>3, <3>5
  <2>11. CurExact'
    BY <1>1, <1>2, <1>4, <2>3, <2>8 DEF CurExact
  <2>12. FilesExact'
    BY <1>1, <1>2, <2>8, <2>9 DEF FilesExact
  <2>13. CalibrationExact'
    BY <1>1, <1>2, <2>8, <2>9 DEF CalibrationExact, Uncalibrated
  <2>14. MiniExact'
    BY <1>1, <1>2, <2>8, <2>9 DEF MiniExact
  <2>15. PendingExact'
    <3>1. PendingFavored' = StillPending(F)
      BY <2>6, <2>7, <2>8, <2>9 DEF PendingFavored, StillPending
    <3>2. {i \in DOMAIN queue' : ~queue'[i].was_fuzzed} = {i \in DOMAIN queue : ~queue[i].was_fuzzed}
      BY <1>3, <2>8, <2>9
    <3> QED
      BY <1>1, <1>2, <2>3, <2>6, <3>1, <3>2 DEF PendingExact
  <2> QED
    BY <2>10, <2>11, <2>12, <2>13, <2>14, <2>15 DEF QueueInv
<1> QED
  BY <1>5, <1>6

(* An assignment to one field of an entry. *)
Updated(e, x, v) == [e EXCEPT ![x] = v]

LEMMA UpdatedFields ==
  ASSUME NEW e, GoodEntry(e), NEW x \in {"len", "file", "trim_done", "was_fuzzed"}, NEW v,
         x = "was_fuzzed" => v \in BOOLEAN
  PROVE  /\ GoodEntry(Updated(e, x, v)) /\ Updated(e, x, v)[x] = v
         /\ \A y \in Fields \ {x} : Updated(e, x, v)[y] = e[y]
<1>1. PICK f : f = Updated(e, x, v)
  OBVIOUS
<1>2. DOMAIN f = Fields /\ f[x] = v /\ \A y \in Fields \ {x} : f[y] = e[y]
  BY <1>1 DEF Updated, GoodEntry, Fields
<1>3. /\ f.cal_failed = e.cal_failed /\ f.favored = e.favored /\ f.trace_mini = e.trace_mini
      /\ f.exec_cksum = e.exec_cksum
  BY <1>2 DEF Fields
<1>4. f.was_fuzzed \in BOOLEAN
  <2>1. CASE x = "was_fuzzed"
    BY <1>2, <2>1
  <2>2. CASE x # "was_fuzzed"
    BY <1>2, <2>2 DEF Fields, GoodEntry
  <2> QED
    BY <2>1, <2>2
<1>5. GoodEntry(f)
  BY <1>2, <1>3, <1>4 DEF GoodEntry
<1> QED
  BY <1>1, <1>2, <1>5

(* What an assignment to a field of the current entry does to the queue. *)
FieldSet(rs, x, v) ==
  /\ QueueCore(rs, top_rated, hit, score_changed) /\ Len(rs) = Len(queue) /\ DOMAIN rs = 1..Len(queue)
  /\ rs[queue_cur][x] = v
  /\ \A i \in 1..Len(queue) : \A y \in Fields : (i # queue_cur \/ y # x) => rs[i][y] = queue[i][y]

LEMMA FieldSetCore ==
  ASSUME QueueCore(queue, top_rated, hit, score_changed), queue_cur \in 1..Len(queue),
         NEW x \in {"len", "file", "trim_done", "was_fuzzed"}, NEW v, x = "was_fuzzed" => v \in BOOLEAN
  PROVE  FieldSet(Replaced(queue, queue_cur, Updated(queue[queue_cur], x, v)), x, v)
<1>1. GoodQueue(queue) /\ GoodEntry(queue[queue_cur])
  BY DEF QueueCore, GoodQueue
<1>2. PICK e : e = Updated(queue[queue_cur], x, v)
  OBVIOUS
<1>3. GoodEntry(e) /\ e[x] = v /\ \A y \in Fields \ {x} : e[y] = queue[queue_cur][y]
  BY <1>1, <1>2, UpdatedFields
<1>4. PICK rs : rs = Replaced(queue, queue_cur, e)
  OBVIOUS
<1>5. /\ GoodQueue(rs) /\ Len(rs) = Len(queue)
      /\ \A i \in 1..Len(queue) : rs[i] = IF i = queue_cur THEN e ELSE queue[i]
  <2>1. ReplacedWell(rs, queue, queue_cur, e)
    BY <1>1, <1>3, <1>4, QueueReplacedBy
  <2> QED
    BY <2>1 DEF ReplacedWell
<1>6. \A i \in 1..Len(queue) : \A y \in Fields : (i # queue_cur \/ y # x) => rs[i][y] = queue[i][y]
  BY <1>3, <1>5
<1>7. x \notin {"tc_ref", "trace_mini", "favored"} /\ {"tc_ref", "trace_mini", "favored"} \subseteq Fields
  BY DEF Fields
<1>8. SameRefs(rs, queue)
  BY <1>5, <1>6, <1>7 DEF SameRefs
<1>9. QueueCore(rs, top_rated, hit, score_changed)
  BY <1>8, FieldsCore
<1>10. DOMAIN rs = 1..Len(queue) /\ rs[queue_cur][x] = v
  BY <1>3, <1>5, QueueDomain
<1> QED
  BY <1>2, <1>4, <1>5, <1>6, <1>9, <1>10 DEF FieldSet

LEMMA AbandonEntryKeeps == QueueInv /\ AbandonEntry => QueueInv'
<1> SUFFICES ASSUME QueueInv, AbandonEntry PROVE QueueInv'
  OBVIOUS
<1>1. /\ QueueCore(queue, top_rated, hit, score_changed) /\ CurExact /\ FilesExact
      /\ CalibrationExact /\ MiniExact /\ PendingExact
  BY DEF QueueInv
<1>2. pc \in {"fuzz", "abandon"} /\ UNCHANGED <<top_rated, hit, stop_soon, score_changed>>
  BY DEF AbandonEntry, Unfuzzed
<1>3. GoodQueue(queue) /\ Len(queue) \in Nat /\ DOMAIN queue = 1..Len(queue) /\ queue_cur \in 1..Len(queue)
  BY <1>1, <1>2, QueueDomain DEF QueueCore, CurExact
<1>4. /\ stop_soon => pc' = "stopped" /\ queue_cur' = queue_cur
      /\ ~stop_soon => pc' = "cull" \/ (pc = "fuzz" /\ pc' = "sync")
      /\ pc' = "cull" => queue_cur' \in 0..Len(queue)
      /\ pc' = "sync" => queue_cur' = queue_cur
  BY <1>3 DEF AbandonEntry, Advance
<1>5. stop_soon \in BOOLEAN
  BY <1>1 DEF CurExact
<1>6. pc' \in {"stopped", "cull", "sync"} /\ queue_cur' \in Nat /\ (pc' = "stopped" => stop_soon)
  BY <1>3, <1>4
<1>7. ASSUME Len(queue') = Len(queue),
             \A i \in 1..Len(queue) : queue'[i].file = queue[i].file /\ queue'[i].len = queue[i].len
      PROVE  FilesExact'
  BY <1>1, <1>2, <1>4, <1>5, <1>6, <1>7 DEF FilesExact
<1>8. ASSUME Len(queue') = Len(queue),
             \A i \in 1..Len(queue) : /\ queue'[i].cal_failed = queue[i].cal_failed
                                      /\ queue'[i].exec_cksum = queue[i].exec_cksum
      PROVE  CalibrationExact'
  BY <1>1, <1>2, <1>6, <1>8 DEF CalibrationExact, Uncalibrated
<1>9. ASSUME Len(queue') = Len(queue) PROVE CurExact'
  BY <1>1, <1>2, <1>3, <1>4, <1>5, <1>6, <1>9 DEF CurExact
<1>10. CASE ~stop_soon /\ cur.cal_failed = 0 /\ ~cur.was_fuzzed
  <2>1. /\ queue' = Replaced(queue, queue_cur, Updated(queue[queue_cur], "was_fuzzed", TRUE))
        /\ pending_not_fuzzed' = pending_not_fuzzed - 1
        /\ pending_favored' = pending_favored - (IF cur.favored THEN 1 ELSE 0)
    BY <1>10 DEF AbandonEntry, Replaced, Updated
  <2>2. FieldSet(queue', "was_fuzzed", TRUE)
    BY <1>1, <1>3, <2>1, FieldSetCore
  <2>3. /\ QueueCore(queue, top_rated, hit, score_changed)' /\ Len(queue') = Len(queue)
        /\ DOMAIN queue' = 1..Len(queue)
    BY <1>2, <2>2 DEF FieldSet
  <2>4. /\ queue'[queue_cur].was_fuzzed
        /\ \A i \in 1..Len(queue) :
             /\ queue'[i].len = queue[i].len /\ queue'[i].file = queue[i].file
             /\ queue'[i].cal_failed = queue[i].cal_failed /\ queue'[i].exec_cksum = queue[i].exec_cksum
             /\ queue'[i].trace_mini = queue[i].trace_mini /\ queue'[i].favored = queue[i].favored
             /\ i # queue_cur => queue'[i].was_fuzzed = queue[i].was_fuzzed
    BY <2>2 DEF FieldSet, Fields
  <2>5. MiniExact'
    BY <1>1, <1>2, <2>3, <2>4 DEF MiniExact
  <2>6. PendingExact'
    <3> DEFINE P == PendingFavored
               U == {i \in DOMAIN queue : ~queue[i].was_fuzzed}
    <3>1. PendingFavored' = P \ {queue_cur} /\ {i \in DOMAIN queue' : ~queue'[i].was_fuzzed} = U \ {queue_cur}
      BY <1>3, <2>3, <2>4 DEF PendingFavored
    <3>2. queue_cur \in U /\ (queue_cur \in P <=> cur.favored)
      BY <1>3, <1>10 DEF PendingFavored, cur
    <3>3. IsFiniteSet(P) /\ IsFiniteSet(U) /\ Cardinality(P) \in Nat
      <4>1. P \subseteq 1..Len(queue) /\ U \subseteq 1..Len(queue)
        BY <1>3 DEF PendingFavored
      <4> HIDE DEF P, U
      <4> QED
        BY <1>3, <4>1, IndicesFinite
    <3>4. pending_favored = Cardinality(P) /\ pending_not_fuzzed = Cardinality(U)
      BY <1>1 DEF PendingExact
    <3> HIDE DEF P, U
    <3>5. Cardinality(U \ {queue_cur}) = Cardinality(U) - 1
      BY <3>2, <3>3, FS_RemoveElement
    <3>6. Cardinality(P \ {queue_cur}) = Cardinality(P) - (IF cur.favored THEN 1 ELSE 0)
      <4>1. queue_cur \in P => Cardinality(P \ {queue_cur}) = Cardinality(P) - 1
        BY <3>3, FS_RemoveElement
      <4>2. queue_cur \notin P => P \ {queue_cur} = P
        OBVIOUS
      <4> QED
        BY <3>2, <3>3, <4>1, <4>2
    <3> QED
      BY <2>1, <3>1, <3>4, <3>5, <3>6 DEF PendingExact
  <2> QED
    BY <1>7, <1>8, <1>9, <2>3, <2>4, <2>5, <2>6 DEF QueueInv
<1>11. CASE ~(~stop_soon /\ cur.cal_failed = 0 /\ ~cur.was_fuzzed)
  <2>1. UNCHANGED <<queue, pending_not_fuzzed, pending_favored>>
    BY <1>11 DEF AbandonEntry
  <2>2. queue[queue_cur].cal_failed # 0 => Won(top_rated, queue_cur) = {}
    <3>1. queue[queue_cur].cal_failed \in Nat
      BY <1>3 DEF GoodQueue, GoodEntry
    <3>2. queue[queue_cur].cal_failed > 0 => Won(top_rated, queue_cur) = {}
      BY <1>1, <1>3 DEF CalibrationExact, Uncalibrated
    <3> QED
      BY <3>1, <3>2
  <2>3. MiniExact'
    <3>1. SUFFICES ASSUME NEW i \in 1..Len(queue), ~queue[i].was_fuzzed,
                          ~(i = queue_cur' /\ pc' \in {"fuzz", "abandon", "stopped", "fatal"})
                   PROVE  Won(top_rated, i) \subseteq queue[i].trace_mini
      BY <1>2, <2>1 DEF MiniExact
    <3>2. CASE i # queue_cur
      BY <1>1, <3>1, <3>2 DEF MiniExact
    <3>3. CASE i = queue_cur
      <4>1. ~stop_soon
        BY <1>4, <3>1, <3>3
      <4>2. queue[queue_cur].cal_failed # 0
        BY <1>11, <3>1, <3>3, <4>1 DEF cur
      <4> QED
        BY <2>2, <3>3, <4>2
    <3> QED
      BY <3>2, <3>3
  <2> QED
    BY <1>2, <1>6, <1>7, <1>9, <2>1, <2>3, IdleKeeps
<1> QED
  BY <1>10, <1>11

TrimTyped == DOMAIN trim = DOMAIN NoTrim

(* While the current entry is trimmed, only its length and its marks change. *)
LEMMA CurrentChanged ==
  ASSUME QueueInv, NEW x \in {"len", "file", "trim_done"}, NEW v, FieldSet(queue', x, v),
         UNCHANGED <<queue_cur, top_rated, score_changed, hit, stop_soon, pending_favored, pending_not_fuzzed>>,
         pc \in {"trim", "trimming"}, pc' \in {"trimming", "fuzz"}
  PROVE  /\ QueueCore(queue, top_rated, hit, score_changed)' /\ CurExact' /\ CalibrationExact' /\ MiniExact'
         /\ PendingExact' /\ Len(queue') = Len(queue) /\ queue_cur \in 1..Len(queue)
         /\ \A i \in 1..Len(queue) :
              /\ i # queue_cur \/ x # "len" => queue'[i].len = queue[i].len
              /\ i # queue_cur \/ x # "file" => queue'[i].file = queue[i].file
<1>1. /\ QueueCore(queue, top_rated, hit, score_changed) /\ CurExact
      /\ CalibrationExact /\ MiniExact /\ PendingExact
  BY DEF QueueInv
<1>2. QueueCore(queue', top_rated, hit, score_changed) /\ Len(queue') = Len(queue)
  BY DEF FieldSet
<1>3. QueueCore(queue, top_rated, hit, score_changed)'
  BY <1>2
<1>4. \A i \in 1..Len(queue) :
        /\ i # queue_cur \/ x # "len" => queue'[i].len = queue[i].len
        /\ i # queue_cur \/ x # "file" => queue'[i].file = queue[i].file
        /\ queue'[i].cal_failed = queue[i].cal_failed /\ queue'[i].exec_cksum = queue[i].exec_cksum
        /\ queue'[i].trace_mini = queue[i].trace_mini /\ queue'[i].favored = queue[i].favored
        /\ queue'[i].was_fuzzed = queue[i].was_fuzzed
  BY DEF FieldSet, Fields
<1>5. queue_cur \in 1..Len(queue)
  BY <1>1 DEF CurExact
<1>6. CurExact'
  BY <1>1, <1>2, <1>4, <1>5 DEF CurExact
<1>7. CalibrationExact'
  BY <1>1, <1>2, <1>4 DEF CalibrationExact, Uncalibrated
<1>8. MiniExact'
  BY <1>1, <1>2, <1>4 DEF MiniExact
<1>9. PendingExact'
  <2>1. GoodQueue(queue) /\ GoodQueue(queue')
    BY <1>1, <1>2 DEF QueueCore
  <2> QED
    BY <1>1, <1>2, <1>4, <2>1, SameCounts
<1> QED
  BY <1>2, <1>3, <1>4, <1>5, <1>6, <1>7, <1>8, <1>9

LEMMA StartTrimKeeps == QueueInv /\ StartTrim => QueueInv'
<1> SUFFICES ASSUME QueueInv, StartTrim PROVE QueueInv'
  OBVIOUS
<1>1. QueueCore(queue, top_rated, hit, score_changed) /\ CurExact /\ FilesExact /\ MiniExact
  BY DEF QueueInv
<1>2. /\ pc = "trim" /\ pc' \in {"trimming", "fuzz", "abandon"}
      /\ UNCHANGED <<queue_cur, top_rated, score_changed, hit, stop_soon, pending_favored, pending_not_fuzzed>>
  BY DEF StartTrim, TrimRest
<1>3. \A i \in 1..Len(queue) : queue[i].file = queue[i].len
  BY <1>1, <1>2 DEF FilesExact
<1>4. queue_cur \in 1..Len(queue)
  BY <1>1, <1>2 DEF CurExact
<1>5. CASE NoTrimming /\ ~(stop_soon /\ ~cur.trim_done)
  <2>0. pc' = "fuzz"
    BY <1>5 DEF StartTrim
  <2>1. queue' = Replaced(queue, queue_cur, Updated(queue[queue_cur], "trim_done", TRUE))
    BY <1>5 DEF StartTrim, Replaced, Updated
  <2>2. FieldSet(queue', "trim_done", TRUE)
    BY <1>1, <1>4, <2>1, FieldSetCore
  <2>3. /\ QueueCore(queue, top_rated, hit, score_changed)' /\ CurExact' /\ CalibrationExact' /\ MiniExact'
        /\ PendingExact' /\ Len(queue') = Len(queue)
        /\ \A i \in 1..Len(queue) : queue'[i].len = queue[i].len /\ queue'[i].file = queue[i].file
    BY <1>2, <2>0, <2>2, CurrentChanged
  <2>4. FilesExact'
    BY <1>3, <2>3 DEF FilesExact
  <2> QED
    BY <2>3, <2>4 DEF QueueInv
<1>6. CASE ~NoTrimming \/ (stop_soon /\ ~cur.trim_done)
  <2>1. queue' = queue /\ pc' \in {"trimming", "abandon"}
    BY <1>6 DEF StartTrim
  <2>2. CurExact'
    BY <1>1, <1>2, <2>1 DEF CurExact
  <2>3. FilesExact'
    BY <1>3, <2>1 DEF FilesExact
  <2>4. MiniExact'
    BY <1>1, <1>2, <2>1 DEF MiniExact
  <2> QED
    BY <1>2, <2>1, <2>2, <2>3, <2>4, IdleKeeps
<1> QED
  BY <1>5, <1>6

LEMMA TrimBlockKeeps == QueueInv /\ TrimTyped /\ TrimBlock => QueueInv'
<1> SUFFICES ASSUME QueueInv, TrimTyped, TrimBlock PROVE QueueInv'
  OBVIOUS
<1>1. QueueCore(queue, top_rated, hit, score_changed) /\ CurExact /\ FilesExact /\ MiniExact
  BY DEF QueueInv
<1>2. /\ pc = "trimming"
      /\ UNCHANGED <<queue_cur, top_rated, score_changed, hit, pending_favored, pending_not_fuzzed>>
  BY DEF TrimBlock, TrimRest
<1>3. "needs_write" \in DOMAIN trim
  BY DEF TrimTyped, NoTrim
<1>4. queue_cur \in 1..Len(queue)
  BY <1>1, <1>2 DEF CurExact
<1>5. \/ \E avail : /\ queue' = [queue EXCEPT ![queue_cur].len = @ - avail]
                    /\ trim' = [trim EXCEPT !.len_p2 = next_p2(cur.len - avail), !.needs_write = TRUE]
                    /\ UNCHANGED <<pc, stop_soon>>
      \/ /\ trim' = [trim EXCEPT !.remove_pos = @ + trim.remove_len]
         /\ UNCHANGED <<pc, queue, stop_soon>>
      \/ /\ pc' = "abandon" /\ stop_soon' = TRUE
         /\ UNCHANGED queue
      \/ /\ pc' = "fatal" /\ UNCHANGED <<stop_soon, queue>>
  BY DEF TrimBlock
<1>6. CASE \E avail : /\ queue' = [queue EXCEPT ![queue_cur].len = @ - avail]
                      /\ trim' = [trim EXCEPT !.len_p2 = next_p2(cur.len - avail), !.needs_write = TRUE]
                      /\ UNCHANGED <<pc, stop_soon>>
  <2>1. PICK avail : /\ queue' = [queue EXCEPT ![queue_cur].len = @ - avail]
                     /\ trim' = [trim EXCEPT !.len_p2 = next_p2(cur.len - avail), !.needs_write = TRUE]
                     /\ UNCHANGED <<pc, stop_soon>>
    BY <1>6
  <2>2. PICK v : v = queue[queue_cur].len - avail
    OBVIOUS
  <2>3. queue' = Replaced(queue, queue_cur, Updated(queue[queue_cur], "len", v))
    BY <2>1, <2>2 DEF Replaced, Updated
  <2>4. trim'.needs_write
    BY <1>3, <2>1
  <2>5. FieldSet(queue', "len", v)
    BY <1>1, <1>4, <2>3, FieldSetCore
  <2>6. /\ QueueCore(queue, top_rated, hit, score_changed)' /\ CurExact' /\ CalibrationExact' /\ MiniExact'
        /\ PendingExact' /\ Len(queue') = Len(queue)
        /\ \A i \in 1..Len(queue) : i # queue_cur => queue'[i].len = queue[i].len /\ queue'[i].file = queue[i].file
    BY <1>2, <2>1, <2>5, CurrentChanged
  <2> HIDE <2>3
  <2>7. FilesExact'
    BY <1>1, <1>2, <2>1, <2>4, <2>6 DEF FilesExact
  <2> QED
    BY <2>6, <2>7 DEF QueueInv
<1>7. CASE /\ trim' = [trim EXCEPT !.remove_pos = @ + trim.remove_len]
           /\ UNCHANGED <<pc, queue, stop_soon>>
  <2>1. trim'.needs_write = trim.needs_write
    BY <1>3, <1>7
  <2>2. CurExact'
    BY <1>1, <1>2, <1>7 DEF CurExact
  <2>3. FilesExact'
    BY <1>1, <1>2, <1>7, <2>1 DEF FilesExact
  <2>4. MiniExact'
    BY <1>1, <1>2, <1>7 DEF MiniExact
  <2> QED
    BY <1>2, <1>7, <2>2, <2>3, <2>4, IdleKeeps
<1>8. CASE \/ pc' = "abandon" /\ stop_soon' = TRUE /\ UNCHANGED queue
           \/ pc' = "fatal" /\ UNCHANGED <<stop_soon, queue>>
  <2>1. UNCHANGED queue /\ pc' \in {"abandon", "fatal"} /\ (pc' = "abandon" => stop_soon')
    BY <1>8
  <2>2. stop_soon' \in BOOLEAN
    BY <1>1, <1>8 DEF CurExact
  <2>3. CurExact'
    BY <1>1, <1>2, <1>4, <2>1, <2>2 DEF CurExact
  <2>4. FilesExact'
    BY <1>1, <1>2, <2>1 DEF FilesExact
  <2>5. MiniExact'
    BY <1>1, <1>2, <2>1 DEF MiniExact
  <2> QED
    BY <1>2, <2>1, <2>3, <2>4, <2>5, IdleKeeps
<1> QED
  BY <1>5, <1>6, <1>7, <1>8

LEMMA RecalibrateKeeps == QueueInv /\ Recalibrate => QueueInv'
<1> SUFFICES ASSUME QueueInv, Recalibrate PROVE QueueInv'
  OBVIOUS
<1>1. /\ QueueCore(queue, top_rated, hit, score_changed) /\ CurExact /\ FilesExact
      /\ CalibrationExact /\ MiniExact /\ PendingExact
  BY DEF QueueInv
<1>2. /\ GoodQueue(queue) /\ Len(queue) \in Nat /\ pc = "fuzz_one" /\ queue_cur \in 1..Len(queue)
      /\ queue_cur' = queue_cur /\ UNCHANGED <<pending_favored, pending_not_fuzzed>>
  BY <1>1, QueueDomain DEF QueueCore, CurExact, Recalibrate
<1>3. PICK n \in Nat \ {0} : n = queue[queue_cur].cal_failed + 1
  BY DEF Recalibrate, cur
<1>4. PICK k \in Traces \cup {NoTrace} : k = queue[queue_cur].exec_cksum
  BY <1>2 DEF GoodQueue, GoodEntry
<1>5. PICK c \in Calibrations(k) :
        /\ Calibrated(c, queue, queue_cur, virgin_bits, n)
        /\ pc' = CASE c.end = "error" -> "fatal" [] c.end = Wanted -> "trim" [] OTHER -> "abandon"
  BY <1>3, <1>4 DEF Recalibrate, cur
<1>6. pc' \in {"fatal", "trim", "abandon"} /\ (pc' = "trim" => c.end = Wanted)
  BY <1>5
<1>7. Won(top_rated, queue_cur) = {}
  <2>1. queue[queue_cur].cal_failed > 0
    BY DEF Recalibrate, cur
  <2> QED
    BY <1>1, <1>2, <2>1 DEF CalibrationExact, Uncalibrated
<1>8. CalibrationDone(queue, queue_cur, c.end = Wanted, n) /\ stop_soon' \in BOOLEAN
  BY <1>1, <1>2, <1>5, <1>7, CalibratedEffect
<1>9. QueueCore(queue', top_rated', hit', score_changed') /\ Len(queue') = Len(queue)
  BY <1>8 DEF CalibrationDone
<1>10. \A i \in 1..Len(queue) :
         /\ queue'[i].len = queue[i].len /\ queue'[i].file = queue[i].file
         /\ queue'[i].was_fuzzed = queue[i].was_fuzzed /\ queue'[i].favored = queue[i].favored
         /\ i # queue_cur => /\ queue'[i].cal_failed = queue[i].cal_failed
                             /\ queue'[i].exec_cksum = queue[i].exec_cksum
                             /\ Won(top_rated', i) \subseteq Won(top_rated, i)
         /\ Won(top_rated, i) \subseteq queue[i].trace_mini => Won(top_rated', i) \subseteq queue'[i].trace_mini
  BY <1>8 DEF CalibrationDone
<1>11. /\ c.end = Wanted => queue'[queue_cur].cal_failed = 0 /\ queue'[queue_cur].exec_cksum # NoTrace
       /\ c.end # Wanted => queue'[queue_cur].cal_failed = n /\ Won(top_rated', queue_cur) = {}
  BY <1>8 DEF CalibrationDone
<1>12. stop_soon' \in BOOLEAN
  BY <1>8
<1> HIDE <1>3, <1>4, <1>5, <1>8
<1>13. CurExact'
  BY <1>2, <1>6, <1>9, <1>11, <1>12 DEF CurExact
<1>14. FilesExact'
  BY <1>1, <1>2, <1>9, <1>10 DEF FilesExact
<1>15. CalibrationExact'
  <2>1. SUFFICES ASSUME NEW i \in 1..Len(queue)
                 PROVE  /\ Uncalibrated(i)' => Won(top_rated', i) = {}
                        /\ ~Uncalibrated(i)' => queue'[i].exec_cksum # NoTrace
    BY <1>9 DEF CalibrationExact
  <2>2. Uncalibrated(i)' <=> queue'[i].cal_failed > 0
    BY <1>6 DEF Uncalibrated
  <2>3. CASE i # queue_cur
    BY <1>1, <1>2, <1>10, <2>2, <2>3 DEF CalibrationExact, Uncalibrated
  <2>4. CASE i = queue_cur
    BY <1>3, <1>11, <2>2, <2>4
  <2> QED
    BY <2>3, <2>4
<1>16. MiniExact'
  BY <1>1, <1>2, <1>9, <1>10 DEF MiniExact
<1>17. PendingExact'
  BY <1>1, <1>2, <1>9, <1>10, SameCounts DEF QueueCore
<1> QED
  BY <1>9, <1>13, <1>14, <1>15, <1>16, <1>17 DEF QueueInv

LEMMA EndTrimRoundKeeps == QueueInv /\ TrimTyped /\ EndTrimRound => QueueInv'
<1> SUFFICES ASSUME QueueInv, TrimTyped, EndTrimRound PROVE QueueInv'
  OBVIOUS
<1>1. /\ QueueCore(queue, top_rated, hit, score_changed) /\ CurExact /\ FilesExact
      /\ CalibrationExact /\ MiniExact /\ PendingExact
  BY DEF QueueInv
<1>2. pc = "trimming" /\ UNCHANGED <<queue_cur, stop_soon, pending_favored, pending_not_fuzzed>>
  BY DEF EndTrimRound, TrimRest
<1>3. /\ queue_cur \in 1..Len(queue) /\ queue[queue_cur].cal_failed = 0 /\ GoodQueue(queue)
      /\ GoodEntry(queue[queue_cur])
  BY <1>1, <1>2 DEF CurExact, QueueCore, GoodQueue
<1>4. CASE trim.remove_len \div 2 >= SmallestStep(trim.len_p2)
  <2>1. UNCHANGED <<pc, queue, top_rated, score_changed, hit>>
    BY <1>4 DEF EndTrimRound
  <2>2. trim'.needs_write = trim.needs_write
    <3>1. "needs_write" \in DOMAIN trim
      BY DEF TrimTyped, NoTrim
    <3> QED
      BY <1>4, <3>1 DEF EndTrimRound
  <2>3. CurExact'
    BY <1>1, <1>2, <2>1 DEF CurExact
  <2>4. FilesExact'
    BY <1>1, <1>2, <2>1, <2>2 DEF FilesExact
  <2>5. MiniExact'
    BY <1>1, <1>2, <2>1 DEF MiniExact
  <2> QED
    BY <1>2, <2>1, <2>3, <2>4, <2>5, IdleKeeps
<1>5. CASE ~(trim.remove_len \div 2 >= SmallestStep(trim.len_p2)) /\ ~trim.needs_write
  <2>1. pc' = "fuzz" /\ UNCHANGED <<top_rated, score_changed, hit>>
    BY <1>5 DEF EndTrimRound
  <2>2. queue' = Replaced(queue, queue_cur, Updated(queue[queue_cur], "trim_done", TRUE))
    BY <1>5 DEF EndTrimRound, Replaced, Updated
  <2>3. FieldSet(queue', "trim_done", TRUE)
    BY <1>1, <1>3, <2>2, FieldSetCore
  <2>4. /\ QueueCore(queue, top_rated, hit, score_changed)' /\ CurExact' /\ CalibrationExact' /\ MiniExact'
        /\ PendingExact' /\ Len(queue') = Len(queue)
        /\ \A i \in 1..Len(queue) : queue'[i].len = queue[i].len /\ queue'[i].file = queue[i].file
    BY <1>2, <2>1, <2>3, CurrentChanged
  <2>5. FilesExact'
    BY <1>1, <1>2, <1>5, <2>4 DEF FilesExact
  <2> QED
    BY <2>4, <2>5 DEF QueueInv
<1>6. CASE ~(trim.remove_len \div 2 >= SmallestStep(trim.len_p2)) /\ trim.needs_write
  <2>1. PICK g, e : /\ g = Updated(queue[queue_cur], "file", queue[queue_cur].len)
                    /\ e = Updated(g, "trim_done", TRUE)
    OBVIOUS
  <2>2. PICK rs : rs = Replaced(queue, queue_cur, e)
    OBVIOUS
  <2>3. rs = [queue EXCEPT ![queue_cur] = [WriteTrimmed(@) EXCEPT !.trim_done = TRUE]]
    BY <2>1, <2>2 DEF Replaced, Updated, WriteTrimmed
  <2>4. PICK s : s = update_bitmap_score(rs, queue_cur, queue[queue_cur].exec_cksum)
    OBVIOUS
  <2>5. /\ pc' = "fuzz" /\ queue' = s.queue /\ top_rated' = s.top /\ score_changed' = s.changed
        /\ hit' = SeenAlso(hit, queue_cur, queue[queue_cur].exec_cksum)
    BY <1>6, <2>3, <2>4 DEF EndTrimRound, cur, SeenAlso
  <2> HIDE <2>3
  <2>6. PICK t : t = queue[queue_cur].exec_cksum
    OBVIOUS
  <2>7. t \in Traces
    <3>1. t # NoTrace
      <4>1. ~Uncalibrated(queue_cur)
        BY <1>2, <1>3 DEF Uncalibrated
      <4> QED
        BY <1>1, <1>2, <1>3, <2>6, <4>1 DEF CalibrationExact
    <3> QED
      BY <1>3, <2>6, <3>1 DEF GoodEntry
  <2>8. GoodEntry(g) /\ g.file = queue[queue_cur].len /\ \A y \in Fields \ {"file"} : g[y] = queue[queue_cur][y]
    BY <1>3, <2>1, UpdatedFields
  <2>9. GoodEntry(e) /\ \A y \in Fields \ {"trim_done"} : e[y] = g[y]
    <3>1. GoodEntry(g)
      BY <2>8
    <3>2. \A v : /\ GoodEntry(Updated(g, "trim_done", v))
               /\ \A y \in Fields \ {"trim_done"} : Updated(g, "trim_done", v)[y] = g[y]
      BY <3>1, UpdatedFields
    <3>3. e = Updated(g, "trim_done", TRUE)
      BY <2>1
    <3> QED
      BY <3>2, <3>3, Zenon
  <2> HIDE <2>1
  <2>10. /\ e.file = queue[queue_cur].len /\ e.len = queue[queue_cur].len
         /\ e.cal_failed = 0 /\ e.exec_cksum = t
         /\ e.was_fuzzed = queue[queue_cur].was_fuzzed /\ e.favored = queue[queue_cur].favored
         /\ e.tc_ref = queue[queue_cur].tc_ref /\ e.trace_mini = queue[queue_cur].trace_mini
    BY <1>3, <2>6, <2>8, <2>9 DEF Fields
  <2>11. /\ GoodQueue(rs) /\ Len(rs) = Len(queue)
         /\ \A i \in 1..Len(queue) : rs[i] = IF i = queue_cur THEN e ELSE queue[i]
    <3>1. ReplacedWell(rs, queue, queue_cur, e)
      BY <1>3, <2>2, <2>9, QueueReplacedBy
    <3> QED
      BY <3>1 DEF ReplacedWell
  <2>12. SameRefs(rs, queue)
    BY <2>10, <2>11 DEF SameRefs
  <2>13. QueueCore(rs, top_rated, hit, score_changed) /\ queue_cur \in 1..Len(rs)
    BY <1>1, <1>3, <2>11, <2>12, FieldsCore
  <2>14. /\ QueueCore(s.queue, s.top, SeenAlso(hit, queue_cur, t), s.changed)
         /\ Rescored(s.queue, s.top, rs, queue_cur)
    BY <2>4, <2>6, <2>7, <2>13, RescoreCore
  <2>15. QueueCore(queue, top_rated, hit, score_changed)' /\ Rescored(queue', top_rated', rs, queue_cur)
    BY <2>5, <2>6, <2>14
  <2>16. Len(queue') = Len(queue)
    BY <2>11, <2>15 DEF Rescored
  <2>17. ASSUME NEW i \in 1..Len(queue)
         PROVE  /\ queue'[i].len = queue[i].len
                /\ i # queue_cur => queue'[i].file = queue[i].file
                /\ i = queue_cur => queue'[i].file = queue[i].len
                /\ queue'[i].was_fuzzed = queue[i].was_fuzzed /\ queue'[i].favored = queue[i].favored
                /\ queue'[i].cal_failed = queue[i].cal_failed /\ queue'[i].exec_cksum = queue[i].exec_cksum
                /\ i # queue_cur => Won(top_rated', i) \subseteq Won(top_rated, i)
                /\ i # queue_cur /\ Won(top_rated, i) \subseteq queue[i].trace_mini
                     => Won(top_rated', i) \subseteq queue'[i].trace_mini
    <3>1. /\ SameEntry(queue'[i], rs[i])
          /\ i # queue_cur => Won(top_rated', i) \subseteq Won(top_rated, i)
          /\ i # queue_cur /\ Won(top_rated, i) \subseteq rs[i].trace_mini
               => Won(top_rated', i) \subseteq queue'[i].trace_mini
      BY <2>11, <2>15 DEF Rescored
    <3>2. PICK f : f = queue'[i]
      OBVIOUS
    <3>3. /\ f.len = rs[i].len /\ f.file = rs[i].file /\ f.exec_cksum = rs[i].exec_cksum
          /\ f.cal_failed = rs[i].cal_failed /\ f.was_fuzzed = rs[i].was_fuzzed /\ f.favored = rs[i].favored
      BY <3>1, <3>2, SameFields
    <3>4. CASE i = queue_cur
      BY <1>3, <2>6, <2>10, <2>11, <3>2, <3>3, <3>4
    <3>5. CASE i # queue_cur
      BY <2>11, <3>1, <3>2, <3>3, <3>5
    <3> QED
      BY <3>4, <3>5
  <2> HIDE <2>2, <2>4, <2>14
  <2>18. CurExact'
    BY <1>1, <1>2, <1>3, <2>5, <2>16, <2>17 DEF CurExact
  <2>19. FilesExact'
    BY <1>1, <1>2, <2>16, <2>17 DEF FilesExact
  <2>20. CalibrationExact'
    <3>1. SUFFICES ASSUME NEW i \in 1..Len(queue)
                   PROVE  /\ Uncalibrated(i)' => Won(top_rated', i) = {}
                          /\ ~Uncalibrated(i)' => queue'[i].exec_cksum # NoTrace
      BY <2>16 DEF CalibrationExact
    <3>2. Uncalibrated(i)' <=> Uncalibrated(i)
      BY <1>2, <2>5, <2>17 DEF Uncalibrated
    <3>3. ~Uncalibrated(queue_cur)
      BY <1>2, <1>3 DEF Uncalibrated
    <3>4. /\ Uncalibrated(i) => Won(top_rated, i) = {}
          /\ ~Uncalibrated(i) => queue[i].exec_cksum # NoTrace
      BY <1>1, <1>2 DEF CalibrationExact
    <3> QED
      BY <2>17, <3>2, <3>3, <3>4
  <2>21. MiniExact'
    BY <1>1, <1>2, <2>5, <2>16, <2>17 DEF MiniExact
  <2>22. PendingExact'
    <3>1. GoodQueue(queue')
      BY <2>15 DEF QueueCore
    <3> QED
      BY <1>1, <1>2, <1>3, <2>16, <2>17, <3>1, SameCounts
  <2> QED
    BY <2>15, <2>18, <2>19, <2>20, <2>21, <2>22 DEF QueueInv
<1> QED
  BY <1>4, <1>5, <1>6

LEMMA AddedCore ==
  ASSUME QueueCore(queue, top_rated, hit, score_changed), Len(queue) < MaxQueue, NEW l, NEW t \in Traces,
         NEW qs, qs = Added(queue, Entry(l, t))
  PROVE  /\ QueueCore(qs, top_rated, hit, score_changed) /\ Len(qs) = Len(queue) + 1
         /\ Won(top_rated, Len(queue) + 1) = {}
         /\ \A i \in 1..Len(queue) : qs[i] = queue[i]
         /\ LET e == qs[Len(queue) + 1]
            IN ~e.was_fuzzed /\ ~e.favored /\ ~e.fs_redundant /\ e.file = e.len
<1>1. PICK e : e = Entry(l, t)
  OBVIOUS
<1>2. /\ GoodEntry(e) /\ e.tc_ref = 0 /\ e.trace_mini = {} /\ ~e.was_fuzzed /\ ~e.favored
      /\ ~e.fs_redundant /\ e.file = e.len
  BY <1>1 DEF Entry, GoodEntry, Fields
<1>3. /\ GoodQueue(queue) /\ Len(queue) \in 1..MaxQueue /\ Len(queue) \in Nat
      /\ top_rated \in [Bytes -> 0..Len(queue)] /\ hit \in [1..MaxQueue -> SUBSET Bytes]
      /\ score_changed \in BOOLEAN /\ RefsExact(queue, top_rated) /\ SeenExact(queue, top_rated, hit)
      /\ Covered(queue, top_rated, hit, score_changed)
  BY QueueDomain DEF QueueCore
<1>4. /\ GoodQueue(qs) /\ Len(qs) = Len(queue) + 1 /\ qs[Len(queue) + 1] = e
      /\ \A i \in 1..Len(queue) : qs[i] = queue[i]
  <2>1. qs = Added(queue, e)
    BY <1>1
  <2> QED
    BY <1>2, <1>3, <2>1, QueueAppended
<1>5. PICK q : q = Len(queue) + 1
  OBVIOUS
<1>6. Won(top_rated, q) = {}
  BY <1>3, <1>5 DEF Won
<1>7. q \in 1..MaxQueue /\ \A i \in 1..Len(qs) : i \in 1..Len(queue) \/ i = q
  BY <1>3, <1>4, <1>5, QueueAssumption
<1>8. \A i \in 1..Len(queue) : i \in 1..Len(qs)
  BY <1>3, <1>4
<1>9. RefsExact(qs, top_rated)
  <2>1. Cardinality(Won(top_rated, q)) = 0
    BY <1>6, FS_EmptySet
  <2>2. SUFFICES ASSUME NEW i \in 1..Len(qs)
                 PROVE  /\ qs[i].tc_ref = Cardinality(Won(top_rated, i))
                        /\ qs[i].tc_ref > 0 <=> qs[i].trace_mini # {}
    BY DEF RefsExact
  <2>3. CASE i \in 1..Len(queue)
    BY <1>3, <1>4, <2>3 DEF RefsExact
  <2>4. CASE i = q
    BY <1>2, <1>4, <1>5, <2>1, <2>4
  <2> QED
    BY <1>7, <2>3, <2>4
<1>10. SeenExact(qs, top_rated, hit)
  BY <1>2, <1>3, <1>4, <1>5, <1>6, <1>7 DEF SeenExact
<1>11. Covered(qs, top_rated, hit, score_changed)
  BY <1>3, <1>4, <1>8 DEF Covered
<1>12. top_rated \in [Bytes -> 0..Len(qs)] /\ Len(qs) \in 1..MaxQueue
  BY <1>3, <1>4, <1>5, <1>7
<1>13. QueueCore(qs, top_rated, hit, score_changed)
  BY <1>3, <1>4, <1>9, <1>10, <1>11, <1>12 DEF QueueCore
<1> QED
  BY <1>2, <1>4, <1>5, <1>6, <1>13

(* A find is neither favored nor redundant, and leaves the others alone. *)
OthersKept ==
  /\ \A i \in 1..Len(queue) :
       /\ i \in 1..Len(queue')
       /\ queue'[i].favored = queue[i].favored /\ queue'[i].fs_redundant = queue[i].fs_redundant
       /\ hit'[i] = hit[i]
  /\ \A i \in 1..Len(queue') : i \in 1..Len(queue) \/ (~queue'[i].favored /\ ~queue'[i].fs_redundant)

LEMMA SaveKeeps ==
  ASSUME QueueInv, pc \in {"fuzz", "sync", "import"}, NEW fault, NEW t \in Traces, save_if_interesting(fault, t),
         UNCHANGED <<queue_cur, import_first, pending_favored>>
  PROVE  QueueInv' /\ OthersKept
<1>1. /\ QueueCore(queue, top_rated, hit, score_changed) /\ CurExact /\ FilesExact
      /\ CalibrationExact /\ MiniExact /\ PendingExact
  BY DEF QueueInv
<1>2. /\ GoodQueue(queue) /\ Len(queue) \in Nat /\ DOMAIN queue = 1..Len(queue)
      /\ queue_cur \in 1..Len(queue)
  BY <1>1, QueueDomain DEF QueueCore, CurExact
<1>3. CASE ~(fault = Wanted /\ has_new_bits(t, virgin_bits))
  <2>1. UNCHANGED <<queue, top_rated, score_changed, hit, pending_not_fuzzed, stop_soon, pc>>
    BY <1>3 DEF save_if_interesting
  <2>2. CurExact'
    BY <1>1, <2>1 DEF CurExact
  <2>3. FilesExact'
    BY <1>1, <2>1 DEF FilesExact
  <2>4. MiniExact'
    BY <1>1, <2>1 DEF MiniExact
  <2>5. OthersKept
    BY <2>1 DEF OthersKept
  <2> QED
    BY <2>1, <2>2, <2>3, <2>4, <2>5, IdleKeeps
<1>4. CASE fault = Wanted /\ has_new_bits(t, virgin_bits)
  <2>1. Len(queue) < MaxQueue /\ pending_not_fuzzed' = pending_not_fuzzed + 1
    BY <1>4 DEF save_if_interesting
  <2>2. PICK l \in InputLens, c \in Calibrations(t) :
          /\ Calibrated(c, Append(queue, Entry(l, t)), Len(queue) + 1, virgin_bits \ BitsOf(t), 1)
          /\ pc' = IF c.end = "error" THEN "fatal" ELSE pc
    BY <1>4 DEF save_if_interesting
  <2>3. PICK qs, q, virgin : qs = Added(queue, Entry(l, t)) /\ q = Len(queue) + 1 /\ virgin = virgin_bits \ BitsOf(t)
    OBVIOUS
  <2>4. Calibrated(c, qs, q, virgin, 1)
    BY <2>2, <2>3 DEF Added
  <2>5. pc' \in {"fatal", pc}
    BY <2>2
  <2>6. /\ QueueCore(qs, top_rated, hit, score_changed) /\ Len(qs) = Len(queue) + 1
        /\ Won(top_rated, q) = {} /\ \A i \in 1..Len(queue) : qs[i] = queue[i]
        /\ ~qs[q].was_fuzzed /\ ~qs[q].favored /\ ~qs[q].fs_redundant /\ qs[q].file = qs[q].len
    BY <1>1, <2>1, <2>3, AddedCore
  <2>7. q \in 1..Len(qs) /\ q \notin 1..Len(queue) /\ \A i \in 1..Len(qs) : i \in 1..Len(queue) \/ i = q
    BY <1>2, <2>3, <2>6
  <2>8. CalibrationDone(qs, q, c.end = Wanted, 1) /\ stop_soon' \in BOOLEAN
    BY <2>4, <2>6, <2>7, CalibratedEffect
  <2> HIDE <2>2, <2>3, <2>4
  <2>9. QueueCore(queue, top_rated, hit, score_changed)' /\ Len(queue') = Len(qs)
    BY <2>8 DEF CalibrationDone
  <2>10. \A i \in 1..Len(qs) :
           /\ queue'[i].len = qs[i].len /\ queue'[i].file = qs[i].file
           /\ queue'[i].was_fuzzed = qs[i].was_fuzzed /\ queue'[i].favored = qs[i].favored
           /\ queue'[i].fs_redundant = qs[i].fs_redundant
           /\ i # q => /\ queue'[i].cal_failed = qs[i].cal_failed /\ queue'[i].exec_cksum = qs[i].exec_cksum
                       /\ Won(top_rated', i) \subseteq Won(top_rated, i) /\ hit'[i] = hit[i]
           /\ Won(top_rated, i) \subseteq qs[i].trace_mini => Won(top_rated', i) \subseteq queue'[i].trace_mini
    BY <2>8 DEF CalibrationDone
  <2>11. /\ c.end = Wanted => queue'[q].cal_failed = 0 /\ queue'[q].exec_cksum # NoTrace
         /\ c.end # Wanted => queue'[q].cal_failed = 1 /\ Won(top_rated', q) = {}
    BY <2>8 DEF CalibrationDone
  <2>12. stop_soon' \in BOOLEAN
    BY <2>8
  <2> HIDE <2>8
  <2>13. \A i \in 1..Len(queue) :
           /\ i \in 1..Len(queue') /\ i # q
           /\ queue'[i].len = queue[i].len /\ queue'[i].file = queue[i].file
           /\ queue'[i].was_fuzzed = queue[i].was_fuzzed /\ queue'[i].favored = queue[i].favored
           /\ queue'[i].fs_redundant = queue[i].fs_redundant /\ hit'[i] = hit[i]
           /\ queue'[i].cal_failed = queue[i].cal_failed /\ queue'[i].exec_cksum = queue[i].exec_cksum
           /\ Won(top_rated', i) \subseteq Won(top_rated, i)
           /\ Won(top_rated, i) \subseteq queue[i].trace_mini => Won(top_rated', i) \subseteq queue'[i].trace_mini
    <3>1. ASSUME NEW i \in 1..Len(queue) PROVE i \in 1..Len(qs) /\ i # q /\ qs[i] = queue[i]
      BY <1>2, <2>6, <2>7
    <3> QED
      BY <2>9, <2>10, <3>1
  <2>14. CurExact'
    BY <1>1, <1>2, <2>5, <2>12, <2>13 DEF CurExact
  <2>15. FilesExact'
    <3>1. \A i \in 1..Len(queue) : queue[i].file = queue[i].len
      BY <1>1 DEF FilesExact
    <3> QED
      BY <2>6, <2>7, <2>9, <2>10, <2>13, <3>1 DEF FilesExact
  <2>16. CalibrationExact'
    <3>1. SUFFICES ASSUME NEW i \in 1..Len(qs)
                   PROVE  /\ Uncalibrated(i)' => Won(top_rated', i) = {}
                          /\ ~Uncalibrated(i)' => queue'[i].exec_cksum # NoTrace
      BY <2>9 DEF CalibrationExact
    <3>2. Uncalibrated(i)' <=> queue'[i].cal_failed > 0
      BY <2>5 DEF Uncalibrated
    <3>3. CASE i = q
      BY <2>11, <3>2, <3>3
    <3>4. CASE i \in 1..Len(queue)
      <4>1. /\ queue[i].cal_failed > 0 => Won(top_rated, i) = {}
            /\ ~(queue[i].cal_failed > 0) => queue[i].exec_cksum # NoTrace
        BY <1>1, <3>4 DEF CalibrationExact, Uncalibrated
      <4> QED
        BY <2>13, <3>2, <3>4, <4>1
    <3> QED
      BY <2>7, <3>3, <3>4
  <2>17. MiniExact'
    <3>1. SUFFICES ASSUME NEW i \in 1..Len(qs), ~queue'[i].was_fuzzed,
                          ~(i = queue_cur' /\ pc' \in {"fuzz", "abandon", "stopped", "fatal"})
                   PROVE  Won(top_rated', i) \subseteq queue'[i].trace_mini
      BY <2>9 DEF MiniExact
    <3>2. CASE i = q
      BY <2>6, <2>7, <2>10, <3>2
    <3>3. CASE i \in 1..Len(queue)
      <4>1. Won(top_rated, i) \subseteq queue[i].trace_mini
        BY <1>1, <2>5, <2>13, <3>1, <3>3 DEF MiniExact
      <4> QED
        BY <2>13, <3>3, <4>1
    <3> QED
      BY <2>7, <3>2, <3>3
  <2>18. PendingExact'
    <3> DEFINE U == {i \in DOMAIN queue : ~queue[i].was_fuzzed}
    <3>1. GoodQueue(queue')
      BY <2>9 DEF QueueCore
    <3>2. DOMAIN queue' = 1..Len(qs)
      BY <2>9, <3>1, QueueDomain
    <3>3. ~queue'[q].was_fuzzed /\ ~queue'[q].favored
      BY <2>6, <2>7, <2>10
    <3>4. PendingFavored' = PendingFavored
      BY <1>2, <2>7, <2>9, <2>13, <3>2, <3>3 DEF PendingFavored
    <3>5. {i \in DOMAIN queue' : ~queue'[i].was_fuzzed} = U \cup {q} /\ q \notin U
      BY <1>2, <2>7, <2>9, <2>13, <3>2, <3>3
    <3>6. IsFiniteSet(U)
      <4>1. U \subseteq 1..Len(queue)
        BY <1>2
      <4> HIDE DEF U
      <4> QED
        BY <1>2, <4>1, IndicesFinite
    <3>7. pending_favored = Cardinality(PendingFavored) /\ pending_not_fuzzed = Cardinality(U)
      BY <1>1 DEF PendingExact
    <3> HIDE DEF U
    <3>8. Cardinality(U \cup {q}) = Cardinality(U) + 1
      BY <3>5, <3>6, FS_AddElement
    <3> QED
      BY <2>1, <3>4, <3>5, <3>7, <3>8 DEF PendingExact
  <2>19. OthersKept
    BY <2>6, <2>7, <2>9, <2>10, <2>13 DEF OthersKept
  <2> QED
    BY <2>9, <2>14, <2>15, <2>16, <2>17, <2>18, <2>19 DEF QueueInv
<1> QED
  BY <1>3, <1>4

(* Giving up on an input leaves the queue as it is. *)
LEMMA NothingKeeps ==
  ASSUME QueueInv, pc \in {"fuzz", "sync", "import"}, Nothing, UNCHANGED <<queue_cur, import_first, pending_favored>>,
         pc' \in {"abandon", "stopped", "fatal"} \/ (pc = "import" /\ pc' = "fuzz_one"), stop_soon' \in BOOLEAN
  PROVE  QueueInv'
<1>1. CurExact /\ FilesExact /\ MiniExact
  BY DEF QueueInv
<1>2. UNCHANGED <<queue, top_rated, score_changed, hit, pending_not_fuzzed>>
  BY DEF Nothing
<1>3. CurExact'
  BY <1>1, <1>2 DEF CurExact
<1>4. FilesExact'
  BY <1>1, <1>2 DEF FilesExact
<1>5. MiniExact'
  BY <1>1, <1>2 DEF MiniExact
<1> QED
  BY <1>2, <1>3, <1>4, <1>5, IdleKeeps

LEMMA FuzzInputKeeps == QueueInv /\ FuzzInput => QueueInv'
<1> SUFFICES ASSUME QueueInv, FuzzInput PROVE QueueInv'
  OBVIOUS
<1>1. pc = "fuzz" /\ UNCHANGED <<queue_cur, import_first, pending_favored>>
  BY DEF FuzzInput
<1>2. stop_soon \in BOOLEAN
  BY DEF QueueInv, CurExact
<1>3. \/ \E r \in Runs : save_if_interesting(r.fault, r.trace)
      \/ pc' = "abandon" /\ Nothing /\ stop_soon' \in BOOLEAN
      \/ pc' = "fatal" /\ Nothing /\ stop_soon' \in BOOLEAN
  BY <1>2 DEF FuzzInput
<1>4. CASE \E r \in Runs : save_if_interesting(r.fault, r.trace)
  <2>1. PICK r \in Runs : save_if_interesting(r.fault, r.trace)
    BY <1>4
  <2>2. r.trace \in Traces
    BY DEF Runs
  <2> QED
    BY <1>1, <2>1, <2>2, SaveKeeps
<1> QED
  BY <1>1, <1>3, <1>4, NothingKeeps

LEMMA SyncInputKeeps == QueueInv /\ SyncInput => QueueInv'
<1> SUFFICES ASSUME QueueInv, SyncInput PROVE QueueInv'
  OBVIOUS
<1>1. pc \in {"sync", "import"} /\ UNCHANGED <<queue_cur, import_first, pending_favored>>
  BY DEF SyncInput
<1>2. \/ \E r \in Runs : save_if_interesting(r.fault, r.trace)
      \/ /\ pc' = "stopped" \/ (pc = "import" /\ pc' = "fuzz_one")
         /\ stop_soon' = TRUE /\ Nothing
  BY DEF SyncInput
<1>3. CASE \E r \in Runs : save_if_interesting(r.fault, r.trace)
  <2>1. PICK r \in Runs : save_if_interesting(r.fault, r.trace)
    BY <1>3
  <2>2. r.trace \in Traces
    BY DEF Runs
  <2> QED
    BY <1>1, <2>1, <2>2, SaveKeeps
<1>4. CASE /\ pc' = "stopped" \/ (pc = "import" /\ pc' = "fuzz_one")
           /\ stop_soon' = TRUE /\ Nothing
  <2>1. stop_soon' \in BOOLEAN
    BY <1>4
  <2> QED
    BY <1>1, <1>4, <2>1, NothingKeeps
<1> QED
  BY <1>2, <1>3, <1>4

LEMMA TrimStaysTyped == TrimTyped /\ QueueNext => TrimTyped'
<1> SUFFICES ASSUME TrimTyped, QueueNext PROVE TrimTyped'
  OBVIOUS
<1>1. CASE \/ DryRun \/ EndDryRun \/ Cull \/ SkipEntry \/ Recalibrate \/ GiveUpEntry \/ StartEntry
           \/ FuzzInput \/ AbandonEntry \/ SyncInput \/ EndSync
  <2>1. UNCHANGED trim
    BY <1>1 DEF DryRun, EndDryRun, Cull, SkipEntry, Recalibrate, GiveUpEntry, StartEntry, FuzzInput,
                AbandonEntry, SyncInput, EndSync
  <2> QED
    BY <2>1 DEF TrimTyped
<1>2. CASE StartTrim
  BY <1>2 DEF StartTrim, TrimTyped, NoTrim
<1>3. CASE TrimBlock
  BY <1>3 DEF TrimBlock, TrimTyped
<1>4. CASE EndTrimRound
  BY <1>4 DEF EndTrimRound, TrimTyped
<1> QED
  BY <1>1, <1>2, <1>3, <1>4 DEF QueueNext

LEMMA StutterKeeps == QueueInv /\ TrimTyped /\ UNCHANGED queueVars => QueueInv' /\ TrimTyped'
<1> SUFFICES ASSUME QueueInv, TrimTyped, UNCHANGED queueVars PROVE QueueInv' /\ TrimTyped'
  OBVIOUS
<1>1. CurExact /\ FilesExact /\ CalibrationExact /\ MiniExact
  BY DEF QueueInv
<1>2. /\ UNCHANGED <<queue, top_rated, score_changed, hit, pending_favored, pending_not_fuzzed>>
      /\ UNCHANGED <<pc, queue_cur, stop_soon, import_first, trim>>
  BY DEF queueVars
<1>3. CurExact'
  BY <1>1, <1>2 DEF CurExact
<1>4. FilesExact'
  BY <1>1, <1>2 DEF FilesExact
<1>5. CalibrationExact'
  BY <1>1, <1>2 DEF CalibrationExact, Uncalibrated
<1>6. MiniExact'
  BY <1>1, <1>2 DEF MiniExact
<1>7. TrimTyped'
  BY <1>2 DEF TrimTyped
<1> QED
  BY <1>2, <1>3, <1>4, <1>5, <1>6, <1>7, TableKept DEF QueueInv

LEMMA NextKeeps == QueueInv /\ TrimTyped /\ QueueNext => QueueInv'
  BY DryRunKeeps, EndDryRunKeeps, CullKeeps, SkipEntryKeeps, RecalibrateKeeps, GiveUpEntryKeeps,
     StartEntryKeeps, StartTrimKeeps, TrimBlockKeeps, EndTrimRoundKeeps, FuzzInputKeeps,
     AbandonEntryKeeps, SyncInputKeeps, EndSyncKeeps DEF QueueNext

(* Right after a cull every byte that has a winner is covered. *)
LEMMA CullCovers == QueueInv /\ Cull => CulledCovered'
<1> SUFFICES ASSUME QueueInv, Cull PROVE CulledCovered'
  OBVIOUS
<1>1. QueueInv'
  BY CullKeeps
<1>2. ~score_changed'
  <2>1. CASE score_changed
    BY <2>1 DEF Cull, cull_queue
  <2>2. CASE ~score_changed
    BY <2>2 DEF Cull, cull_queue
  <2> QED
    BY <2>1, <2>2
<1>3. /\ GoodQueue(queue') /\ Len(queue') \in 1..MaxQueue /\ hit' \in [1..MaxQueue -> SUBSET Bytes]
      /\ SeenExact(queue', top_rated', hit') /\ Covered(queue', top_rated', hit', score_changed')
  BY <1>1 DEF QueueInv, QueueCore
<1>4. ASSUME NEW i \in 1..Len(queue'), NEW b \in hit'[i]
      PROVE  \E j \in 1..Len(queue') : queue'[j].favored /\ b \in hit'[j]
  <2>1. i \in 1..MaxQueue
    BY <1>3, QueueAssumption
  <2>2. b \in Bytes /\ top_rated'[b] # 0
    BY <1>3, <2>1 DEF SeenExact
  <2> QED
    BY <1>2, <1>3, <2>2 DEF Covered
<1> QED
  BY <1>4 DEF CulledCovered

(* The import adds entries that no cull has seen. *)
LEMMA ImportCovers == QueueInv /\ CulledCovered /\ QueueNext => CulledCovered'
<1> SUFFICES ASSUME QueueInv, CulledCovered, QueueNext, pc' \in {"import", "fuzz_one"} PROVE CulledCovered'
  BY DEF CulledCovered
<1>1. CASE Cull
  BY <1>1, CullCovers
<1>2. CASE SyncInput
  <2>1. pc = "import" /\ UNCHANGED <<queue_cur, import_first, pending_favored>>
    <3>1. pc \in {"sync", "import"} /\ UNCHANGED <<queue_cur, import_first, pending_favored>>
      BY <1>2 DEF SyncInput
    <3>2. pc = "sync" => pc' \in {"sync", "fatal", "stopped"}
      BY <1>2 DEF SyncInput, save_if_interesting
    <3> QED
      BY <3>1, <3>2
  <2>2. CASE \E r \in Runs : save_if_interesting(r.fault, r.trace)
    <3>1. PICK r \in Runs : save_if_interesting(r.fault, r.trace)
      BY <2>2
    <3>2. r.trace \in Traces
      BY DEF Runs
    <3>3. OthersKept
      BY <2>1, <3>1, <3>2, SaveKeeps
    <3> QED
      BY <2>1, <3>3 DEF OthersKept, CulledCovered
  <2>3. CASE Nothing
    BY <2>1, <2>3 DEF Nothing, CulledCovered
  <2> QED
    BY <1>2, <2>2, <2>3 DEF SyncInput
<1>3. CASE EndSync
  BY <1>3 DEF EndSync, Unfuzzed, CulledCovered
<1>4. ASSUME ~Cull, ~SyncInput, ~EndSync PROVE FALSE
  <2>1. pc' \in {"dryRun", "stopped", "fatal", "cull", "abandon", "trim", "trimming", "fuzz", "sync"}
    BY <1>4 DEF QueueNext, DryRun, EndDryRun, SkipEntry, Recalibrate, GiveUpEntry, StartEntry, StartTrim, TrimBlock,
       EndTrimRound, FuzzInput, AbandonEntry, save_if_interesting
  <2> QED
    BY <2>1
<1> QED
  BY <1>1, <1>2, <1>3, <1>4
-----------------------------------------------------------------------------
(*                             Theorems                                    *)

(* The table of winners, the references and small traces, the files and the *)
(* counters of afl-fuzz's queue agree in every state of dry run, culling,    *)
(* calibration, trimming, fuzzing and synchronisation.                      *)
THEOREM QueueInvariant == QueueSpec => [](QueueInv /\ TrimTyped /\ CulledCovered)
<1>1. QueueInit => QueueInv /\ TrimTyped /\ CulledCovered
  <2>1. QueueInit => TrimTyped
    BY DEF QueueInit, TrimTyped
  <2>2. QueueInit => CulledCovered
    BY DEF QueueInit, CulledCovered
  <2> QED
    BY <2>1, <2>2, InitHolds
<1>2. QueueInv /\ TrimTyped /\ CulledCovered /\ [QueueNext]_queueVars => QueueInv' /\ TrimTyped' /\ CulledCovered'
  <2>1. CulledCovered /\ UNCHANGED queueVars => CulledCovered'
    BY DEF CulledCovered, queueVars
  <2> QED
    BY <2>1, NextKeeps, StutterKeeps, TrimStaysTyped, ImportCovers
<1> QED
  BY <1>1, <1>2, PTL DEF QueueSpec

(* Whenever fuzz_one starts on an entry, the favored entries together hit    *)
(* every byte by which an entry was scored: between a change of top_rated    *)
(* and the next choice of an entry cull_queue has run, and the import of     *)
(* AFL_IMPORT_FIRST, after which it has not, takes nothing from the entries  *)
(* that were there before.                                                  *)
THEOREM FavoredCovers == QueueSpec => []FavoredCover
<1>1. QueueInv /\ CulledCovered => FavoredCover
  <2> SUFFICES ASSUME QueueInv, CulledCovered, pc = "fuzz_one", NEW i \in DOMAIN queue, NEW b \in hit[i]
               PROVE  \/ \E j \in DOMAIN queue : queue[j].favored /\ b \in hit[j]
                      \/ import_first /\ ~queue[i].favored /\ ~queue[i].fs_redundant
    BY DEF FavoredCover
  <2>1. /\ GoodQueue(queue) /\ Len(queue) \in 1..MaxQueue /\ hit \in [1..MaxQueue -> SUBSET Bytes]
        /\ SeenExact(queue, top_rated, hit) /\ Covered(queue, top_rated, hit, score_changed)
        /\ ~import_first => ~score_changed
    BY DEF QueueInv, QueueCore, CurExact
  <2>2. DOMAIN queue = 1..Len(queue)
    BY <2>1, QueueDomain
  <2>3. CASE queue[i].favored \/ queue[i].fs_redundant
    BY <2>2, <2>3 DEF CulledCovered
  <2>4. CASE ~import_first
    <3>1. i \in 1..MaxQueue
      BY <2>1, <2>2, QueueAssumption
    <3>2. b \in Bytes /\ top_rated[b] # 0
      BY <2>1, <3>1 DEF SeenExact
    <3> QED
      BY <2>1, <2>2, <2>4, <3>2 DEF Covered
  <2> QED
    BY <2>3, <2>4
<1> QED
  BY <1>1, QueueInvariant, PTL

(* update_bitmap_score counts references to an entry exactly, frees its      *)
(* small trace with the last one and no earlier, and trim_case leaves no     *)
(* entry whose file is longer than the length that fuzz_one maps.           *)
THEOREM QueueStaysConsistent == QueueSpec => []QueueConsistent
<1>1. QueueInv => QueueConsistent
  <2> SUFFICES ASSUME QueueInv, NEW i \in DOMAIN queue
               PROVE  /\ queue[i].tc_ref = Cardinality({b \in Bytes : top_rated[b] = i})
                      /\ queue[i].tc_ref > 0 <=> queue[i].trace_mini # {}
                      /\ pc \notin {"trimming", "abandon", "stopped", "fatal"} => queue[i].file = queue[i].len
    BY DEF QueueConsistent
  <2>1. GoodQueue(queue) /\ RefsExact(queue, top_rated) /\ FilesExact
    BY DEF QueueInv, QueueCore
  <2>2. i \in 1..Len(queue)
    BY <2>1, QueueDomain
  <2>3. /\ queue[i].tc_ref = Cardinality({b \in Bytes : top_rated[b] = i})
        /\ queue[i].tc_ref > 0 <=> queue[i].trace_mini # {}
    BY <2>1, <2>2 DEF RefsExact, Won
  <2>4. pc \notin {"trimming", "abandon", "stopped", "fatal"} => queue[i].file = queue[i].len
    BY <2>1, <2>2 DEF FilesExact
  <2> QED
    BY <2>3, <2>4
<1> QED
  BY <1>1, QueueInvariant, PTL

(* pending_favored and pending_not_fuzzed are exact: cull_queue may meet an  *)
(* entry twice, but never one that is still to be fuzzed.                   *)
THEOREM PendingCounted == QueueSpec => []PendingExact
<1>1. QueueInv => PendingExact
  BY DEF QueueInv
<1> QED
  BY <1>1, QueueInvariant, PTL
-----------------------------------------------------------------------------
(*                             The dictionaries                            *)

(* Found tokens, and the ones that are used in the order of their lengths. *)
Words == Seq(Nat) \ {<<>>}
Hits == [data : Seq(Nat), hit_cnt : Nat]
ByLength(tokens, n) == \A i, j \in 1..n : i < j => Len(tokens[i]) <= Len(tokens[j])
Data(ae) == [k \in 1..Len(ae) |-> ae[k].data]
AutoOK(ae) == ae \in Seq(Hits) /\ ByLength(Data(ae), Least(Len(ae), USE_AUTO_EXTRAS))

DictInv ==
  /\ in_buf \in Seq(Nat) /\ in_buf # <<>> /\ at.i \in 0..(in_len - 1)
  /\ extras \in Seq(Words) /\ ByLength(extras, Len(extras))
  /\ AutoOK(a_extras) /\ a_collect \in Seq(Nat)
  /\ at.stage = "flip1" => runs = {}
  /\ at.stage = "user_insert" =>
       ex_tmp \in [1..in_len -> Nat] /\ \A k \in 1..at.i : ex_tmp[k] = in_buf[k]
  /\ OneTokenEach
-----------------------------------------------------------------------------
(*                          Sorting the tokens                             *)

LEMMA WiderSeq == ASSUME NEW S, NEW T, S \subseteq T, NEW s \in Seq(S) PROVE s \in Seq(T) /\ Len(s) \in Nat
  OBVIOUS

LEMMA ElementOf == ASSUME NEW S, NEW s \in Seq(S), NEW k \in DOMAIN s PROVE s[k] \in S
  OBVIOUS

LEMMA Put == ASSUME NEW S, NEW s \in Seq(S), NEW k, NEW e \in S PROVE [s EXCEPT ![k] = e] \in Seq(S)
<1>1. Len(s) \in Nat /\ s \in [1..Len(s) -> S]
  OBVIOUS
<1>2. [s EXCEPT ![k] = e] \in [1..Len(s) -> S]
  BY <1>1
<1> QED
  BY <1>1, <1>2

LEMMA ListFinite ==
  ASSUME NEW S, NEW s \in Seq(S)
  PROVE  IsFiniteSet(ToSet(s)) /\ ToSet(s) \subseteq S
<1>1. s \in Surjection(1..Len(s), ToSet(s)) /\ Len(s) \in Nat
  BY DEF Surjection, ToSet
<1>2. IsFiniteSet(1..Len(s))
  BY <1>1, FS_Interval
<1>3. IsFiniteSet(ToSet(s))
  BY <1>1, <1>2, FS_Surjection
<1>4. ToSet(s) \subseteq S
  BY DEF ToSet
<1> QED
  BY <1>3, <1>4

LEMMA ListDistinct ==
  ASSUME NEW S, NEW s \in Seq(S), \A i, j \in 1..Len(s) : i # j => s[i] # s[j]
  PROVE  Cardinality(ToSet(s)) = Len(s)
<1> DEFINE n == Len(s)
<1>1. s \in Surjection(1..n, ToSet(s)) /\ n \in Nat
  BY DEF Surjection, ToSet
<1>2. IsFiniteSet(1..n) /\ Cardinality(1..n) = n
  BY <1>1, FS_Interval
<1>3. s \in Injection(1..n, ToSet(s))
  BY <1>1 DEF Injection, Surjection, IsInjective
<1> QED
  BY <1>1, <1>2, <1>3, FS_Surjection

LEMMA ListsOf ==
  ASSUME NEW S, IsFiniteSet(S), NEW s \in SetToSeqs(S)
  PROVE  s \in Seq(S) /\ Len(s) = Cardinality(S) /\ \A i, j \in 1..Len(s) : i # j => s[i] # s[j]
<1> DEFINE n == Cardinality(S)
<1>1. n \in Nat
  BY FS_CardinalityType
<1>2. s \in [1..n -> S] /\ \A i, j \in 1..n : i # j => s[i] # s[j]
  BY DEF SetToSeqs
<1> HIDE DEF n
<1>3. s \in Seq(S) /\ Len(s) = n
  BY <1>1, <1>2
<1> QED
  BY <1>2, <1>3 DEF n

LEMMA Loaded ==
  ASSUME NEW d \in Dictionaries, NEW s \in load_extras(d)
  PROVE  s \in Seq(Words) /\ ByLength(s, Len(s))
<1> DEFINE n == Cardinality(d)
           f == SetToSeq(d)
<1>1. IsFiniteSet(d) /\ \A t \in d : t \in Words
  BY DictAssumption DEF Words
<1>2. n \in Nat /\ ExistsBijection(1..n, d)
  BY <1>1, FS_CardinalityType
<1>3. \E g \in [1..n -> d] : IsInjective(g)
  BY <1>2 DEF ExistsBijection, Bijection, Injection
<1>4. f \in [1..n -> d]
  BY <1>3 DEF SetToSeq
<1> HIDE DEF f, n
<1>5. f \in Seq(d)
  BY <1>2, <1>4
<1>6. IsFiniteSet(ToSet(f)) /\ ToSet(f) \subseteq d
  BY <1>5, ListFinite
<1>7. s \in SetToSeqs(ToSet(f)) /\ \A i, j \in DOMAIN s : i < j => ~(Len(s[j]) < Len(s[i]))
  BY DEF load_extras, Sorted, Shorter, f
<1>8. s \in Seq(ToSet(f))
  BY <1>6, <1>7, ListsOf
<1>9. \A i \in 1..Len(s) : s[i] \in Words
  BY <1>1, <1>6, <1>8
<1>10. s \in Seq(Words) /\ DOMAIN s = 1..Len(s)
  BY <1>8, <1>9
<1>11. ASSUME NEW i \in 1..Len(s), NEW j \in 1..Len(s), i < j PROVE Len(s[i]) <= Len(s[j])
  <2>1. Len(s[i]) \in Nat /\ Len(s[j]) \in Nat
    BY <1>9 DEF Words
  <2>2. ~(Len(s[j]) < Len(s[i]))
    BY <1>7, <1>10, <1>11
  <2> QED
    BY <2>1, <2>2
<1> QED
  BY <1>10, <1>11 DEF ByLength

(* The list s with its first elements replaced by those of t. *)
Headed(t, s) == t \o SubSeq(s, Len(t) + 1, Len(s))
LEMMA PrefixReplaced ==
  ASSUME NEW S, NEW s \in Seq(S), NEW t \in Seq(S), Len(t) <= Len(s)
  PROVE  /\ Headed(t, s) \in Seq(S) /\ Len(Headed(t, s)) = Len(s)
         /\ \A i \in 1..Len(t) : Headed(t, s)[i] = t[i]
<1> DEFINE w == SubSeq(s, Len(t) + 1, Len(s))
<1>1. Len(s) \in Nat /\ Len(t) \in Nat
  OBVIOUS
<1>2. w \in Seq(S) /\ Len(w) = Len(s) - Len(t)
  <2>1. \A i \in (Len(t) + 1)..Len(s) : s[i] \in S
    BY <1>1
  <2> QED
    BY <2>1, <1>1, SubSeqProperties
<1>3. Headed(t, s) = t \o w
  BY DEF Headed
<1> HIDE DEF w
<1>4. t \o w \in Seq(S) /\ Len(t \o w) = Len(t) + Len(w)
  BY <1>2, ConcatProperties
<1>5. \A i \in 1..Len(t) : (t \o w)[i] = t[i]
  <2>1. Len(t) \in Nat /\ Len(w) \in Nat
    BY <1>2
  <2> QED
    BY <2>1, <1>2, ConcatProperties
<1>6. Len(t) + Len(w) = Len(s)
  BY <1>1, <1>2
<1> QED
  BY <1>3, <1>4, <1>5, <1>6, Zenon

LEMMA SortedHits ==
  ASSUME NEW ae \in Seq(Hits), NEW a \in sort_a_extras(ae)
  PROVE  AutoOK(a)
<1> DEFINE P(s) == SubSeq(s, 1, Least(USE_AUTO_EXTRAS, Len(s)))
<1>1. \E s \in SetToSeqs(ToSet(ae)) : \E t \in SetToSeqs(ToSet(P(s))) :
        /\ \A i, j \in DOMAIN t : i < j => ~(Len(t[j].data) < Len(t[i].data))
        /\ a = t \o SubSeq(s, Len(t) + 1, Len(s))
  BY DEF sort_a_extras, Sorted, Shorter
<1>2. PICK s \in SetToSeqs(ToSet(ae)) : \E t \in SetToSeqs(ToSet(P(s))) :
        /\ \A i, j \in DOMAIN t : i < j => ~(Len(t[j].data) < Len(t[i].data))
        /\ a = t \o SubSeq(s, Len(t) + 1, Len(s))
  BY <1>1
<1> DEFINE u == Least(USE_AUTO_EXTRAS, Len(s))
           p == SubSeq(s, 1, u)
<1>3. PICK t \in SetToSeqs(ToSet(p)) :
        /\ \A i, j \in DOMAIN t : i < j => ~(Len(t[j].data) < Len(t[i].data))
        /\ a = t \o SubSeq(s, Len(t) + 1, Len(s))
  BY <1>2
<1>4. IsFiniteSet(ToSet(ae)) /\ ToSet(ae) \subseteq Hits
  BY ListFinite
<1>5. s \in Seq(Hits) /\ Len(s) \in Nat /\ \A i, j \in 1..Len(s) : i # j => s[i] # s[j]
  <2>1. s \in Seq(ToSet(ae)) /\ \A i, j \in 1..Len(s) : i # j => s[i] # s[j]
    BY <1>4, ListsOf
  <2>2. s \in Seq(Hits) /\ Len(s) \in Nat
    BY <2>1, <1>4, WiderSeq, Zenon
  <2> QED
    BY <2>1, <2>2, Zenon
<1>6. u \in 0..Len(s) /\ u = Least(Len(s), USE_AUTO_EXTRAS)
  BY <1>5, DictAssumption DEF Least
<1> HIDE DEF u
<1>7. p \in Seq(Hits) /\ Len(p) = u /\ \A i \in 1..u : p[i] = s[i]
  BY <1>5, <1>6
<1> HIDE DEF p
<1>8. Cardinality(ToSet(p)) = u
  <2>1. \A i, j \in 1..Len(p) : i # j => p[i] # p[j]
    BY <1>5, <1>6, <1>7
  <2> QED
    BY <2>1, <1>7, ListDistinct
<1>9. t \in Seq(Hits) /\ Len(t) = u
  <2>1. IsFiniteSet(ToSet(p)) /\ ToSet(p) \subseteq Hits
    BY <1>7, ListFinite
  <2>2. t \in Seq(ToSet(p)) /\ Len(t) = u
    BY <2>1, <1>8, ListsOf
  <2> QED
    BY <2>1, <2>2
<1>10. a \in Seq(Hits) /\ Len(a) = Len(s) /\ \A i \in 1..u : a[i] = t[i]
  <2>1. a = Headed(t, s)
    BY <1>3 DEF Headed
  <2>2. Len(t) <= Len(s)
    BY <1>5, <1>6, <1>9
  <2>3. /\ Headed(t, s) \in Seq(Hits) /\ Len(Headed(t, s)) = Len(s)
        /\ \A i \in 1..Len(t) : Headed(t, s)[i] = t[i]
    <3>1. s \in Seq(Hits) /\ t \in Seq(Hits)
      BY <1>5, <1>9
    <3> QED
      BY <3>1, <2>2, PrefixReplaced
  <2>4. \A i \in 1..u : Headed(t, s)[i] = t[i]
    BY <2>3, <1>9
  <2> QED
    BY <2>1, <2>3, <2>4
<1>11. ASSUME NEW i \in 1..u, NEW j \in 1..u, i < j PROVE Len(Data(a)[i]) <= Len(Data(a)[j])
  <2>1. i \in 1..Len(a) /\ j \in 1..Len(a) /\ a[i] = t[i] /\ a[j] = t[j] /\ a[i] \in Hits /\ a[j] \in Hits
    BY <1>5, <1>6, <1>10
  <2>2. Data(a)[i] = t[i].data /\ Data(a)[j] = t[j].data
    BY <2>1 DEF Data
  <2>3. Len(t[i].data) \in Nat /\ Len(t[j].data) \in Nat
    BY <2>1 DEF Hits
  <2>4. ~(Len(t[j].data) < Len(t[i].data))
    <3>1. i \in DOMAIN t /\ j \in DOMAIN t
      BY <1>6, <1>9
    <3> QED
      BY <3>1, <1>3, <1>11
  <2> QED
    BY <2>2, <2>3, <2>4
<1> QED
  BY <1>6, <1>10, <1>11 DEF AutoOK, ByLength
-----------------------------------------------------------------------------
(*                      The tokens of one position                         *)

(* Buffers that differ from the input by at most l bytes from position i. *)
Near(buf, inb, n, i, l) ==
  /\ buf \in [1..n -> Nat] /\ l \in Nat /\ i + l <= n
  /\ \A k \in 1..n : k \notin (i + 1)..(i + l) => buf[k] = inb[k]

LEMMA OverNear ==
  ASSUME NEW n \in Nat, NEW inb \in [1..n -> Nat], NEW i \in Nat, NEW l, NEW buf, Near(buf, inb, n, i, l),
         NEW t \in Seq(Nat), l <= Len(t), i + Len(t) <= n
  PROVE  Overwrite(buf, i, t) = Overwrite(inb, i, t) /\ Near(Overwrite(buf, i, t), inb, n, i, Len(t))
<1> DEFINE m == Len(t)
           w(k) == IF k \in (i + 1)..(i + m) THEN t[k - i] ELSE inb[k]
           v(k) == IF k \in (i + 1)..(i + m) THEN t[k - i] ELSE buf[k]
<1>1. m \in Nat /\ t \in [1..m -> Nat]
  OBVIOUS
<1>2. ASSUME NEW k \in 1..n PROVE v(k) = w(k) /\ w(k) \in Nat
  <2>1. CASE k \in (i + 1)..(i + m)
    <3>1. k - i \in 1..m
      BY <2>1, <1>1
    <3>2. t[k - i] \in Nat
      BY <3>1, <1>1
    <3> QED
      BY <2>1, <3>2
  <2>2. CASE k \notin (i + 1)..(i + m)
    <3>1. k \notin (i + 1)..(i + l)
      BY <2>2, <1>1 DEF Near
    <3> QED
      BY <2>2, <3>1 DEF Near
  <2> QED
    BY <2>1, <2>2
<1>3. ASSUME NEW k \in 1..n, k \notin (i + 1)..(i + m) PROVE w(k) = inb[k]
  BY <1>3
<1>4. Overwrite(buf, i, t) = [k \in 1..n |-> v(k)] /\ Overwrite(inb, i, t) = [k \in 1..n |-> w(k)]
  BY DEF Overwrite, Near
<1> HIDE DEF v, w, m
<1> DEFINE o == [k \in 1..n |-> w(k)]
<1>5. [k \in 1..n |-> v(k)] = o
  BY <1>2
<1>6. o \in [1..n -> Nat] /\ \A k \in 1..n : k \notin (i + 1)..(i + m) => o[k] = inb[k]
  BY <1>2, <1>3
<1> HIDE DEF o
<1>7. Near(o, inb, n, i, m)
  BY <1>1, <1>6 DEF Near, m
<1> QED
  BY <1>4, <1>5, <1>7 DEF m, o

LEMMA Restored ==
  ASSUME NEW n \in Nat, NEW inb \in Seq(Nat), Len(inb) = n, NEW i \in Nat, NEW l, NEW buf, Near(buf, inb, n, i, l)
  PROVE  Overwrite(buf, i, SubSeq(inb, i + 1, i + l)) = inb
<1> DEFINE t == SubSeq(inb, i + 1, i + l)
<1>1. l \in Nat /\ inb \in [1..n -> Nat] /\ i + l <= n
  BY DEF Near
<1>2. Len(t) = l /\ \A k \in 1..l : t[k] = inb[i + k]
  BY <1>1
<1> HIDE DEF t
<1> DEFINE v(k) == IF k \in (i + 1)..(i + l) THEN t[k - i] ELSE buf[k]
<1>3. ASSUME NEW k \in 1..n PROVE v(k) = inb[k]
  <2>1. CASE k \in (i + 1)..(i + l)
    <3>1. k - i \in 1..l /\ i + (k - i) = k
      BY <2>1, <1>1
    <3>2. t[k - i] = inb[k]
      BY <3>1, <1>2
    <3> QED
      BY <2>1, <3>2
  <2>2. CASE k \notin (i + 1)..(i + l)
    BY <2>2 DEF Near
  <2> QED
    BY <2>1, <2>2
<1>4. Overwrite(buf, i, t) = [k \in 1..n |-> v(k)]
  BY <1>2 DEF Overwrite, Near
<1> HIDE DEF v
<1>5. [k \in 1..n |-> v(k)] = [k \in 1..n |-> inb[k]]
  BY <1>3
<1>6. inb = [k \in 1..n |-> inb[k]]
  BY <1>1
<1> QED
  BY <1>4, <1>5, <1>6 DEF t

Untouched == [buf |-> out_buf, last_len |-> 0, runs |-> {}]
FillByte(acc, j, tokens, skip) == IF j \in skip THEN acc ELSE OverwriteOne(acc, at.i, tokens[j])
Filling(n, g, tokens, skip) ==
  g = [j \in 0..n |-> IF j = 0 THEN Untouched ELSE FillByte(g[j - 1], j, tokens, skip)]

LEMMA FillingExists == ASSUME NEW tokens, NEW skip PROVE \A n \in Nat : \E g : Filling(n, g, tokens, skip)
<1> DEFINE S == {n \in Nat : \E g : Filling(n, g, tokens, skip)}
<1>1. 0 \in S
  <2> DEFINE g == [j \in 0..0 |-> Untouched]
  <2>1. Filling(0, g, tokens, skip)
    BY DEF Filling
  <2> QED
    BY <2>1
<1>2. ASSUME NEW n \in Nat \ {0}, n - 1 \in S PROVE n \in S
  <2>1. PICK g : Filling(n - 1, g, tokens, skip)
    BY <1>2
  <2> DEFINE h == [j \in 0..n |-> IF j = n THEN FillByte(g[n - 1], n, tokens, skip) ELSE g[j]]
  <2>2. ASSUME NEW j \in 0..n
        PROVE  h[j] = IF j = 0 THEN Untouched ELSE FillByte(h[j - 1], j, tokens, skip)
    <3>1. j # 0 => h[j - 1] = g[j - 1]
      OBVIOUS
    <3>2. j # n => g[j] = IF j = 0 THEN Untouched ELSE FillByte(g[j - 1], j, tokens, skip)
      BY <2>1 DEF Filling
    <3> QED
      BY <3>1, <3>2
  <2>3. Filling(n, h, tokens, skip)
    BY <2>2 DEF Filling
  <2> QED
    BY <2>3
<1>3. SUFFICES ASSUME NEW n \in Nat PROVE n \in S
  OBVIOUS
<1>4. \A k \in 1..n : k - 1 \in S => k \in S
  BY <1>2
<1>5. \A k \in 0..n : k \in S
  <2> HIDE DEF S
  <2> QED
    BY <1>1, <1>4, UpTo
<1> QED
  BY <1>5

LEMMA FillLoop ==
  ASSUME NEW tokens, NEW skip, Len(tokens) \in Nat, OverwriteAll(tokens, skip)
  PROVE  \E g : /\ g[0] = Untouched
                /\ \A j \in 1..Len(tokens) : g[j] = FillByte(g[j - 1], j, tokens, skip)
                /\ out_buf' = Overwrite(g[Len(tokens)].buf, at.i, SubSeq(in_buf, at.i + 1, at.i + g[Len(tokens)].last_len))
                /\ runs' = g[Len(tokens)].runs
<1> DEFINE n == Len(tokens)
           f == CHOOSE g : Filling(n, g, tokens, skip)
<1>1. Filling(n, f, tokens, skip)
  BY FillingExists
<1>2. /\ out_buf' = Overwrite(f[n].buf, at.i, SubSeq(in_buf, at.i + 1, at.i + f[n].last_len))
      /\ runs' = f[n].runs
  BY DEF OverwriteAll, Filling, FillByte, Untouched
<1> HIDE DEF f, n
<1>3. n \in Nat
  BY DEF n
<1>4. f[0] = Untouched /\ \A j \in 1..n : f[j] = FillByte(f[j - 1], j, tokens, skip)
  BY <1>1, <1>3 DEF Filling
<1> QED
  BY <1>2, <1>4 DEF n

(* What the tokens of one position leave: the input again, and runs that    *)
(* each have one token in it.  It needs the order of the lengths: the       *)
(* buffer is restored by the length of the last token only.                 *)
RunsOver(rs, tokens) ==
  \A r \in rs : \E m \in 1..Len(tokens) : at.i + Len(tokens[m]) <= in_len /\ r = Overwrite(in_buf, at.i, tokens[m])
Filled(acc, j, tokens) ==
  /\ Near(acc.buf, in_buf, in_len, at.i, acc.last_len)
  /\ \A m \in (j + 1)..Len(tokens) : acc.last_len <= Len(tokens[m])
  /\ RunsOver(acc.runs, tokens)

LEMMA FillStep ==
  ASSUME NEW tokens \in Seq(Seq(Nat)), ByLength(tokens, Len(tokens)), in_buf \in Seq(Nat), at.i \in 0..(in_len - 1),
         NEW j \in 1..Len(tokens), NEW skip, NEW acc, Filled(acc, j - 1, tokens)
  PROVE  Filled(FillByte(acc, j, tokens, skip), j, tokens)
<1> DEFINE t == tokens[j]
           e == OverwriteOne(acc, at.i, t)
           n == in_len
           i == at.i
<1>1. n \in Nat /\ i \in Nat /\ in_buf \in [1..n -> Nat] /\ t \in Seq(Nat) /\ Len(t) \in Nat /\ Len(tokens) \in Nat
  BY DEF in_len
<1>2. Filled(acc, j, tokens)
  BY <1>1 DEF Filled
<1>3. acc.last_len <= Len(t)
  BY <1>1 DEF Filled
<1>4. \A m \in (j + 1)..Len(tokens) : Len(t) <= Len(tokens[m])
  BY <1>1 DEF ByLength
<1>5. CASE e = acc
  BY <1>2, <1>5 DEF FillByte
<1>6. CASE e # acc
  <2> DEFINE b == Overwrite(acc.buf, i, t)
  <2>1. e = [buf |-> b, last_len |-> Len(t), runs |-> acc.runs \cup {b}] /\ ~(Len(t) > n - i)
    BY <1>6 DEF OverwriteOne
  <2>2. i + Len(t) <= n
    BY <2>1, <1>1
  <2>3. Near(acc.buf, in_buf, n, i, acc.last_len)
    BY DEF Filled
  <2> HIDE DEF e, n, i, t
  <2>4. b = Overwrite(in_buf, i, t) /\ Near(b, in_buf, n, i, Len(t))
    BY <2>2, <2>3, <1>1, <1>3, OverNear
  <2> HIDE DEF b
  <2>5. e.buf = b /\ e.last_len = Len(t) /\ e.runs = acc.runs \cup {b}
    BY <2>1
  <2>6. RunsOver(e.runs, tokens)
    <3>1. RunsOver(acc.runs, tokens)
      BY DEF Filled
    <3>2. at.i + Len(tokens[j]) <= in_len /\ b = Overwrite(in_buf, at.i, tokens[j])
      BY <2>2, <2>4 DEF n, i, t
    <3> QED
      BY <3>1, <3>2, <2>5 DEF RunsOver
  <2>7. Filled(e, j, tokens)
    BY <2>4, <2>5, <2>6, <1>4 DEF Filled, n, i
  <2> QED
    BY <2>7, <1>2 DEF FillByte, e, i, t
<1> QED
  BY <1>5, <1>6

LEMMA Position ==
  ASSUME NEW tokens \in Seq(Seq(Nat)), ByLength(tokens, Len(tokens)), in_buf \in Seq(Nat), at.i \in 0..(in_len - 1),
         out_buf = in_buf, NEW skip, OverwriteAll(tokens, skip)
  PROVE  out_buf' = in_buf /\ RunsOver(runs', tokens)
<1> DEFINE n == Len(tokens)
<1>1. n \in Nat /\ in_len \in Nat /\ in_buf \in [1..in_len -> Nat] /\ at.i \in Nat /\ Len(in_buf) = in_len
  BY DEF in_len
<1>2. PICK g : /\ g[0] = Untouched
               /\ \A j \in 1..n : g[j] = FillByte(g[j - 1], j, tokens, skip)
               /\ out_buf' = Overwrite(g[n].buf, at.i, SubSeq(in_buf, at.i + 1, at.i + g[n].last_len))
               /\ runs' = g[n].runs
  BY <1>1, FillLoop
<1> DEFINE S == {j \in 0..n : Filled(g[j], j, tokens)}
<1>3. 0 \in S
  <2>1. g[0].buf = in_buf /\ g[0].last_len = 0 /\ g[0].runs = {}
    BY <1>2 DEF Untouched
  <2>2. Near(g[0].buf, in_buf, in_len, at.i, g[0].last_len)
    BY <1>1, <2>1 DEF Near
  <2>3. \A m \in 1..n : g[0].last_len <= Len(tokens[m])
    BY <2>1
  <2> QED
    BY <2>1, <2>2, <2>3, <1>1 DEF Filled, RunsOver
<1>4. \A j \in 1..n : j - 1 \in S => j \in S
  BY <1>1, <1>2, FillStep
<1>5. n \in S
  <2> HIDE DEF S
  <2>1. \A j \in 0..n : j \in S
    BY <1>1, <1>3, <1>4, UpTo
  <2> QED
    BY <2>1, <1>1
<1>6. Filled(g[n], n, tokens)
  BY <1>5
<1> HIDE DEF n, S
<1>7. Near(g[n].buf, in_buf, in_len, at.i, g[n].last_len) /\ RunsOver(g[n].runs, tokens)
  BY <1>6 DEF Filled
<1>8. out_buf' = in_buf
  BY <1>1, <1>2, <1>7, Restored
<1> QED
  BY <1>2, <1>7, <1>8
-----------------------------------------------------------------------------
(*                    Tokens found, and every step                         *)

LEMMA HitMore == ASSUME NEW e \in Hits PROVE [e EXCEPT !.hit_cnt = @ + 1] \in Hits
  BY DEF Hits

LEMMA HitAgain ==
  ASSUME NEW ae \in Seq(Hits), NEW k \in DOMAIN ae
  PROVE  [ae EXCEPT ![k].hit_cnt = @ + 1] \in Seq(Hits)
<1> DEFINE h == [ae[k] EXCEPT !.hit_cnt = @ + 1]
<1>1. ae[k] \in Hits
  BY ElementOf, Zenon
<1>2. h \in Hits
  BY <1>1, HitMore, Zenon
<1>3. [ae EXCEPT ![k].hit_cnt = @ + 1] = [ae EXCEPT ![k] = h]
  OBVIOUS
<1> HIDE DEF h
<1>4. [ae EXCEPT ![k] = h] \in Seq(Hits)
  BY <1>2, Put, Zenon
<1> QED
  BY <1>3, <1>4, Zenon

LEMMA AutoAdded ==
  ASSUME NEW ae, AutoOK(ae), NEW mem \in Seq(Nat), NEW a \in maybe_add_auto(ae, mem)
  PROVE  AutoOK(a)
<1> DEFINE known == {k \in DOMAIN ae : SameToken(ae[k].data, mem)}
           evict == ((MAX_AUTO_EXTRAS \div 2) + 1)..((MAX_AUTO_EXTRAS \div 2) + ((MAX_AUTO_EXTRAS + 1) \div 2))
           lists == IF known # {} THEN {[ae EXCEPT ![k].hit_cnt = @ + 1] : k \in known}
                    ELSE IF Len(ae) < MAX_AUTO_EXTRAS THEN {Append(ae, Hit(mem, 0))}
                    ELSE {[ae EXCEPT ![k] = Hit(mem, 0)] : k \in evict}
<1>1. a = ae \/ \E s \in lists : a \in sort_a_extras(s)
  BY DEF maybe_add_auto
<1>2. ae \in Seq(Hits)
  BY DEF AutoOK
<1>3. Hit(mem, 0) \in Hits
  BY DEF Hit, Hits
<1>4. ASSUME NEW s \in lists PROVE s \in Seq(Hits)
  <2>1. \A k \in known : [ae EXCEPT ![k].hit_cnt = @ + 1] \in Seq(Hits)
    BY <1>2, HitAgain
  <2>2. Append(ae, Hit(mem, 0)) \in Seq(Hits)
    BY <1>2, <1>3, AppendProperties, Zenon
  <2>3. \A k \in evict : [ae EXCEPT ![k] = Hit(mem, 0)] \in Seq(Hits)
    <3> HIDE DEF evict
    <3> QED
      BY <1>2, <1>3, Put, Zenon
  <2> HIDE DEF known, evict
  <2> QED
    BY <2>1, <2>2, <2>3
<1> HIDE DEF lists
<1>5. ASSUME NEW s \in lists, a \in sort_a_extras(s) PROVE AutoOK(a)
  BY <1>4, <1>5, SortedHits
<1> QED
  BY <1>1, <1>5

LEMMA CollectedBytes ==
  ASSUME NEW d \in Seq(Nat), NEW m, NEW byte \in Nat
  PROVE  Collected([data |-> d, n |-> m], byte).data \in Seq(Nat)
  BY DEF Collected

(* One token in the input, with the parts of the state as parameters. *)
TokensOf(ex, ae) == ToSet(ex) \cup {ae[k].data : k \in DOMAIN ae}
RunOf(r, inb, all) ==
  IF Len(r) = Len(inb)
  THEN \E t \in all, i \in 0..(Len(inb) - 1) : i + Len(t) <= Len(inb) /\ r = Overwrite(inb, i, t)
  ELSE \E t \in all, i \in 0..(Len(inb) - 1) : r = SubSeq(inb, 1, i) \o t \o SubSeq(inb, i + 1, Len(inb))
LEMMA OneTokenMeans ==
  /\ OneTokenEach <=> (\A r \in runs : RunOf(r, in_buf, TokensOf(extras, a_extras))) /\ out_buf = in_buf
  /\ OneTokenEach' <=> (\A r \in runs' : RunOf(r, in_buf', TokensOf(extras', a_extras'))) /\ out_buf' = in_buf'
<1>1. OneTokenEach <=> (\A r \in runs : RunOf(r, in_buf, TokensOf(extras, a_extras))) /\ out_buf = in_buf
  BY DEF OneTokenEach, RunOf, TokensOf, in_len
<1>2. OneTokenEach' <=> (\A r \in runs' : RunOf(r, in_buf', TokensOf(extras', a_extras'))) /\ out_buf' = in_buf'
  BY DEF OneTokenEach, RunOf, TokensOf, in_len
<1> QED
  BY <1>1, <1>2

LEMMA OverRuns ==
  ASSUME in_buf \in Seq(Nat), at.i \in 0..(in_len - 1), NEW tokens, NEW all, NEW rs, RunsOver(rs, tokens),
         \A m \in 1..Len(tokens) : tokens[m] \in all
  PROVE  \A r \in rs : RunOf(r, in_buf, all)
<1> SUFFICES ASSUME NEW r \in rs PROVE RunOf(r, in_buf, all)
  OBVIOUS
<1>1. PICK m \in 1..Len(tokens) : at.i + Len(tokens[m]) <= in_len /\ r = Overwrite(in_buf, at.i, tokens[m])
  BY DEF RunsOver
<1> DEFINE t == tokens[m]
           v(k) == IF k \in (at.i + 1)..(at.i + Len(t)) THEN t[k - at.i] ELSE in_buf[k]
<1>2. r = [k \in 1..Len(in_buf) |-> v(k)] /\ Len(in_buf) \in Nat
  BY <1>1 DEF Overwrite
<1> HIDE DEF v
<1>3. Len(r) = Len(in_buf)
  BY <1>2
<1> HIDE DEF t
<1>4. t \in all /\ at.i + Len(t) <= Len(in_buf) /\ r = Overwrite(in_buf, at.i, t) /\ at.i \in 0..(Len(in_buf) - 1)
  BY <1>1 DEF in_len, t
<1> QED
  BY <1>3, <1>4 DEF RunOf

LEMMA SameSeq ==
  ASSUME NEW a \in Seq(Nat), NEW b \in Seq(Nat), Len(a) = Len(b), \A k \in 1..Len(a) : a[k] = b[k]
  PROVE  a = b
  OBVIOUS

LEMMA SameHead ==
  ASSUME NEW n \in Nat, NEW f \in [1..n -> Nat], NEW s \in Seq(Nat), Len(s) = n, NEW i \in 0..n, \A k \in 1..i : f[k] = s[k]
  PROVE  SubSeq(f, 1, i) = SubSeq(s, 1, i)
<1>1. f \in Seq(Nat) /\ Len(f) = n
  OBVIOUS
<1>2. SubSeq(f, 1, i) \in Seq(Nat) /\ Len(SubSeq(f, 1, i)) = i /\ \A k \in 1..i : SubSeq(f, 1, i)[k] = f[k]
  BY <1>1
<1>3. SubSeq(s, 1, i) \in Seq(Nat) /\ Len(SubSeq(s, 1, i)) = i /\ \A k \in 1..i : SubSeq(s, 1, i)[k] = s[k]
  OBVIOUS
<1> DEFINE a == SubSeq(f, 1, i)
           b == SubSeq(s, 1, i)
<1> HIDE DEF a, b
<1>4. a = b
  <2>1. a \in Seq(Nat) /\ b \in Seq(Nat) /\ Len(a) = Len(b) /\ \A k \in 1..Len(a) : a[k] = b[k]
    BY <1>2, <1>3 DEF a, b
  <2> QED
    BY <2>1, SameSeq
<1> QED
  BY <1>4 DEF a, b

LEMMA InsertRuns ==
  ASSUME NEW n \in Nat, NEW inb \in Seq(Nat), Len(inb) = n, NEW i \in 0..(n - 1), NEW t \in Words, NEW all, t \in all,
         NEW r, r = SubSeq(inb, 1, i) \o t \o SubSeq(inb, i + 1, n)
  PROVE  RunOf(r, inb, all)
<1> DEFINE a == SubSeq(inb, 1, i)
           b == SubSeq(inb, i + 1, n)
<1>1. a \in Seq(Nat) /\ Len(a) = i /\ b \in Seq(Nat) /\ Len(b) = n - i
  BY SMTT(60)
<1>2. t \in Seq(Nat) /\ Len(t) \in Nat /\ Len(t) # 0
  BY DEF Words
<1>3. r = (a \o t) \o b
  OBVIOUS
<1> HIDE DEF a, b
<1>4. a \o t \in Seq(Nat) /\ Len(a \o t) = i + Len(t)
  BY <1>1, <1>2, ConcatProperties
<1>5. Len((a \o t) \o b) = Len(a \o t) + Len(b)
  BY <1>1, <1>4, ConcatProperties
<1>6. Len(r) = (i + Len(t)) + (n - i)
  BY <1>1, <1>3, <1>4, <1>5, Zenon
<1>7. Len(r) # Len(inb)
  BY <1>2, <1>6
<1> QED
  BY <1>7 DEF RunOf

LEMMA Advanced ==
  ASSUME DictInv, NEW stage, NEW next, NextPosition(stage, next)
  PROVE  at'.i \in 0..(in_len - 1) /\ at'.stage \in {stage, next}
<1>1. in_len \in Nat /\ at.i \in 0..(in_len - 1)
  BY DEF DictInv, in_len
<1>2. CASE at.i = in_len - 1
  <2>1. at'.i = 0 /\ at'.stage = next
    BY <1>2 DEF NextPosition
  <2> QED
    BY <2>1, <1>1
<1>3. CASE at.i # in_len - 1
  <2>1. at'.i = at.i + 1 /\ at'.stage = stage
    BY <1>3 DEF NextPosition
  <2> QED
    BY <2>1, <1>1, <1>3
<1> QED
  BY <1>2, <1>3

LEMMA InitKeeps == DictInit => DictInv
<1> SUFFICES ASSUME DictInit PROVE DictInv
  OBVIOUS
<1>1. in_buf \in Seq(Nat) /\ in_buf # <<>> /\ Len(in_buf) \in Nat \ {0}
  BY DictAssumption DEF DictInit
<1>2. at.i \in 0..(in_len - 1) /\ at.stage = "flip1"
  BY <1>1 DEF DictInit, in_len
<1>3. extras \in Seq(Words) /\ ByLength(extras, Len(extras))
  BY Loaded DEF DictInit
<1>4. AutoOK(a_extras) /\ a_collect \in Seq(Nat)
  <2>1. a_extras = <<>> /\ a_collect = <<>> /\ Least(0, USE_AUTO_EXTRAS) = 0
    BY DictAssumption DEF DictInit, Least
  <2> QED
    BY <2>1 DEF AutoOK, ByLength
<1>5. runs = {} /\ out_buf = in_buf
  BY DEF DictInit
<1>6. OneTokenEach
  BY <1>5, OneTokenMeans
<1> QED
  BY <1>1, <1>2, <1>3, <1>4, <1>5, <1>6 DEF DictInv

(* The parts that every step but FlipLastBit and UserInsert leaves alone. *)
LEMMA RestKeeps ==
  ASSUME DictInv, UNCHANGED Rest, Forget, at'.i \in 0..(in_len - 1), at'.stage # "flip1",
         at'.stage = "user_insert" => ex_tmp' \in [1..in_len -> Nat] /\ \A k \in 1..at'.i : ex_tmp'[k] = in_buf[k],
         \A r \in runs' : RunOf(r, in_buf, TokensOf(extras, a_extras)), out_buf' = in_buf
  PROVE  DictInv'
<1>1. in_buf' = in_buf /\ extras' = extras /\ a_extras' = a_extras /\ a_collect' = <<>>
  BY DEF Rest, Forget
<1>2. in_len' = in_len
  BY <1>1 DEF in_len
<1>3. OneTokenEach'
  BY <1>1, OneTokenMeans, Zenon
<1>4. AutoOK(a_extras)'
  BY <1>1 DEF DictInv, AutoOK, ByLength, Data
<1>5. ByLength(extras, Len(extras))'
  BY <1>1 DEF DictInv, ByLength
<1>6. a_collect' \in Seq(Nat)
  BY <1>1
<1> QED
  BY <1>1, <1>2, <1>3, <1>4, <1>5, <1>6 DEF DictInv

LEMMA UserOverKeeps == DictInv /\ UserOver => DictInv'
<1> SUFFICES ASSUME DictInv, UserOver PROVE DictInv'
  OBVIOUS
<1>1. PICK skip : OverwriteAll(extras, skip)
  BY DEF UserOver
<1>2. /\ in_buf \in Seq(Nat) /\ at.i \in 0..(in_len - 1) /\ out_buf = in_buf
      /\ ByLength(extras, Len(extras)) /\ extras \in Seq(Words)
  BY OneTokenMeans DEF DictInv
<1>3. extras \in Seq(Seq(Nat))
  <2>1. Words \subseteq Seq(Nat)
    BY DEF Words
  <2> QED
    BY <2>1, <1>2, WiderSeq, Zenon
<1>4. out_buf' = in_buf /\ RunsOver(runs', extras)
  BY <1>1, <1>2, <1>3, Position
<1>5. \A m \in 1..Len(extras) : extras[m] \in TokensOf(extras, a_extras)
  BY <1>2 DEF TokensOf, ToSet
<1>6. \A r \in runs' : RunOf(r, in_buf, TokensOf(extras, a_extras))
  <2> DEFINE all == TokensOf(extras, a_extras)
  <2>1. \A m \in 1..Len(extras) : extras[m] \in all
    BY <1>5
  <2> HIDE DEF all
  <2>2. \A r \in runs' : RunOf(r, in_buf, all)
    BY <2>1, <1>2, <1>4, OverRuns
  <2> QED
    BY <2>2 DEF all
<1>7. NextPosition("user_over", "user_insert")
  BY DEF UserOver
<1>8. at'.i \in 0..(in_len - 1) /\ at'.stage \in {"user_over", "user_insert"}
  BY <1>7, Advanced
<1>9. at'.stage = "user_insert" => ex_tmp' = [k \in 1..in_len |-> 0] /\ at'.i = 0
  BY <1>7 DEF UserOver, NextPosition
<1>10. at'.stage = "user_insert" => ex_tmp' \in [1..in_len -> Nat] /\ \A k \in 1..at'.i : ex_tmp'[k] = in_buf[k]
  BY <1>9
<1>11. UNCHANGED Rest /\ Forget
  BY DEF UserOver
<1> QED
  BY <1>4, <1>6, <1>8, <1>10, <1>11, RestKeeps

LEMMA UserInsertKeeps == DictInv /\ UserInsert => DictInv'
<1> SUFFICES ASSUME DictInv, UserInsert PROVE DictInv'
  OBVIOUS
<1> DEFINE i == at.i
           n == in_len
           all == TokensOf(extras, a_extras)
<1>1. /\ in_buf \in Seq(Nat) /\ i \in 0..(n - 1) /\ out_buf = in_buf /\ extras \in Seq(Words) /\ n \in Nat /\ Len(in_buf) = n
      /\ ex_tmp \in [1..n -> Nat] /\ \A k \in 1..i : ex_tmp[k] = in_buf[k]
  <2>1. at.stage = "user_insert"
    BY DEF UserInsert
  <2>2. out_buf = in_buf
    BY OneTokenMeans DEF DictInv
  <2>3. in_buf \in Seq(Nat) /\ Len(in_buf) = n /\ n \in Nat
    BY DEF DictInv, in_len
  <2> QED
    BY <2>1, <2>2, <2>3 DEF DictInv
<1>2. NextPosition("user_insert", "auto_over") /\ UNCHANGED Rest /\ Forget /\ out_buf' = out_buf
  BY DEF UserInsert
<1>3. at'.i \in 0..(n - 1) /\ at'.stage \in {"user_insert", "auto_over"}
  BY <1>2, Advanced
<1>4. at'.stage = "user_insert" => ex_tmp' \in [1..n -> Nat] /\ \A k \in 1..at'.i : ex_tmp'[k] = in_buf[k]
  <2>1. at'.stage = "user_insert" => i # n - 1 /\ at'.i = i + 1
    BY <1>2 DEF NextPosition
  <2>2. i # n - 1 => ex_tmp' = [ex_tmp EXCEPT ![i + 1] = in_buf[i + 1]]
    BY <1>1 DEF UserInsert
  <2>3. in_buf[i + 1] \in Nat /\ i + 1 \in 1..n
    BY <1>1, SMTT(60)
  <2> HIDE DEF i, n
  <2>4. i # n - 1 => ex_tmp' \in [1..n -> Nat] /\ \A k \in 1..(i + 1) : ex_tmp'[k] = in_buf[k]
    <3> SUFFICES ASSUME i # n - 1 PROVE ex_tmp' \in [1..n -> Nat] /\ \A k \in 1..(i + 1) : ex_tmp'[k] = in_buf[k]
      OBVIOUS
    <3>1. ex_tmp' \in [1..n -> Nat]
      BY <1>1, <2>2, <2>3
    <3>2. ASSUME NEW k \in 1..(i + 1) PROVE ex_tmp'[k] = in_buf[k]
      <4>1. k \in 1..n /\ (k # i + 1 => k \in 1..i)
        BY <1>1
      <4>2. ex_tmp'[k] = IF k = i + 1 THEN in_buf[i + 1] ELSE ex_tmp[k]
        BY <4>1, <1>1, <2>2
      <4> QED
        BY <4>1, <4>2, <1>1
    <3> QED
      BY <3>1, <3>2
  <2> QED
    BY <2>1, <2>4
<1>5. SubSeq(ex_tmp, 1, i) = SubSeq(in_buf, 1, i)
  BY <1>1, SameHead, SMTT(60)
<1>6. ASSUME NEW r \in runs' PROVE RunOf(r, in_buf, all)
  <2>1. PICK j \in DOMAIN extras : r = SubSeq(ex_tmp, 1, i) \o extras[j] \o SubSeq(out_buf, i + 1, n)
    BY DEF UserInsert
  <2> DEFINE t == extras[j]
  <2>2. t \in Words
    BY <1>1
  <2>3. t \in all
    BY <1>1 DEF TokensOf, ToSet
  <2> HIDE DEF t, all, i, n
  <2>4. r = SubSeq(in_buf, 1, i) \o t \o SubSeq(in_buf, i + 1, n)
    BY <1>1, <1>5, <2>1, Zenon DEF t
  <2> QED
    BY <1>1, <2>2, <2>3, <2>4, InsertRuns
<1> QED
  BY <1>1, <1>2, <1>3, <1>4, <1>6, RestKeeps

LEMMA NoExtrasKeeps == DictInv /\ NoExtras => DictInv'
<1> SUFFICES ASSUME DictInv, NoExtras PROVE DictInv'
  OBVIOUS
<1>1. at'.stage = "auto_over" /\ at'.i = 0 /\ UNCHANGED Rest /\ Forget /\ out_buf' = out_buf /\ runs' = runs
  BY DEF NoExtras
<1>2. 0 \in 0..(in_len - 1)
  BY DEF DictInv, in_len
<1>3. (\A r \in runs : RunOf(r, in_buf, TokensOf(extras, a_extras))) /\ out_buf = in_buf
  BY OneTokenMeans DEF DictInv
<1> QED
  BY <1>1, <1>2, <1>3, RestKeeps

LEMMA AutoOverKeeps == DictInv /\ AutoOver => DictInv'
<1> SUFFICES ASSUME DictInv, AutoOver PROVE DictInv'
  OBVIOUS
<1> DEFINE u == Least(Len(a_extras), USE_AUTO_EXTRAS)
           tokens == [j \in 1..u |-> a_extras[j].data]
           all == TokensOf(extras, a_extras)
<1>1. OverwriteAll(tokens, {}) /\ NextPosition("auto_over", "havoc") /\ UNCHANGED Rest /\ Forget
  BY DEF AutoOver
<1>2. in_buf \in Seq(Nat) /\ at.i \in 0..(in_len - 1) /\ out_buf = in_buf /\ a_extras \in Seq(Hits) /\ ByLength(Data(a_extras), u)
  BY OneTokenMeans DEF DictInv, AutoOK
<1>3. u \in 0..Len(a_extras) /\ Len(a_extras) \in Nat
  BY <1>2, DictAssumption DEF Least
<1> HIDE DEF u
<1>4. \A j \in 1..u : a_extras[j].data \in Seq(Nat) /\ a_extras[j].data \in all
  <2>1. \A j \in 1..u : j \in DOMAIN a_extras /\ a_extras[j] \in Hits
    BY <1>2, <1>3
  <2> QED
    BY <2>1 DEF TokensOf, Hits
<1>5. tokens \in Seq(Seq(Nat)) /\ Len(tokens) = u /\ \A j \in 1..u : tokens[j] = a_extras[j].data
  BY <1>3, <1>4
<1>6. \A m \in 1..Len(tokens) : tokens[m] \in all
  BY <1>4, <1>5
<1>7. ByLength(tokens, Len(tokens))
  <2>1. \A j \in 1..u : Data(a_extras)[j] = tokens[j]
    BY <1>3, <1>5 DEF Data
  <2> QED
    BY <2>1, <1>2, <1>5 DEF ByLength
<1> HIDE DEF tokens, all
<1>8. out_buf' = in_buf /\ RunsOver(runs', tokens)
  BY <1>1, <1>2, <1>5, <1>7, Position
<1>9. \A r \in runs' : RunOf(r, in_buf, all)
  BY <1>2, <1>6, <1>8, OverRuns
<1>10. at'.i \in 0..(in_len - 1) /\ at'.stage \in {"auto_over", "havoc"}
  BY <1>1, Advanced
<1> QED
  BY <1>1, <1>8, <1>9, <1>10, RestKeeps DEF all

LEMMA LeaveDictKeeps == DictInv /\ LeaveDict => DictInv'
<1> SUFFICES ASSUME DictInv, LeaveDict PROVE DictInv'
  OBVIOUS
<1>1. at'.stage = "havoc" /\ at'.i = 0 /\ UNCHANGED Rest /\ Forget /\ out_buf' = in_buf /\ runs' = {}
  BY DEF LeaveDict
<1>2. 0 \in 0..(in_len - 1)
  BY DEF DictInv, in_len
<1> QED
  BY <1>1, <1>2, RestKeeps

LEMMA CollectKeeps ==
  ASSUME AutoOK(a_extras), NEW c, c.data \in Seq(Nat), NEW a \in Collect(c)
  PROVE  AutoOK(a)
  BY AutoAdded DEF Collect

LEMMA FlipLastBitKeeps == DictInv /\ FlipLastBit => DictInv'
<1> SUFFICES ASSUME DictInv, FlipLastBit PROVE DictInv'
  OBVIOUS
<1>1. /\ in_buf \in Seq(Nat) /\ in_buf # <<>> /\ at.i \in 0..(in_len - 1) /\ out_buf = in_buf /\ a_collect \in Seq(Nat)
      /\ AutoOK(a_extras) /\ runs = {} /\ extras \in Seq(Words) /\ ByLength(extras, Len(extras))
  BY OneTokenMeans DEF DictInv, FlipLastBit
<1>2. /\ NextPosition("flip1", "user_over") /\ in_buf' = in_buf /\ out_buf' = out_buf /\ extras' = extras /\ runs' = runs
  BY DEF FlipLastBit
<1>3. at'.i \in 0..(in_len - 1) /\ at'.stage \in {"flip1", "user_over"}
  BY <1>2, Advanced
<1> DEFINE byte == out_buf[at.i + 1]
           old == [data |-> a_collect, n |-> a_len]
           L(cksum) == at.i = in_len - 1 /\ cksum = prev_cksum
           M(cksum) == IF L(cksum) THEN Collected(old, byte)
                       ELSE IF cksum # prev_cksum THEN [data |-> <<>>, n |-> 0] ELSE old
           N(cksum) == IF cksum # exec_cksum THEN Collected(M(cksum), byte) ELSE M(cksum)
<1>4. PICK cksum \in Cksums :
        /\ a_extras' \in IF L(cksum) THEN Collect(M(cksum)) ELSE IF cksum # prev_cksum THEN Collect(old) ELSE {a_extras}
        /\ a_collect' = N(cksum).data
  BY DEF FlipLastBit
<1>5. byte \in Nat
  BY <1>1 DEF in_len
<1> HIDE DEF byte
<1>6. old.data \in Seq(Nat) /\ Collected(old, byte).data \in Seq(Nat)
  BY <1>1, <1>5, CollectedBytes
<1>7. M(cksum).data \in Seq(Nat)
  <2> HIDE DEF old, L
  <2>1. [data |-> <<>>, n |-> 0].data \in Seq(Nat)
    OBVIOUS
  <2> QED
    BY <2>1, <1>6, Zenon
<1> HIDE DEF old, L, M
<1>8. N(cksum).data \in Seq(Nat)
  <2>1. Collected(M(cksum), byte).data \in Seq(Nat)
    BY <1>5, <1>7 DEF Collected
  <2> QED
    BY <2>1, <1>7, Zenon
<1>9. AutoOK(a_extras')
  BY <1>1, <1>4, <1>6, <1>7, CollectKeeps
<1>10. OneTokenEach'
  BY <1>1, <1>2, OneTokenMeans
<1>11. in_len' = in_len
  BY <1>2 DEF in_len
<1>12. AutoOK(a_extras)' /\ ByLength(extras, Len(extras))'
  BY <1>1, <1>2, <1>9 DEF AutoOK, ByLength, Data
<1>13. a_collect' \in Seq(Nat)
  BY <1>4, <1>8
<1> QED
  BY <1>1, <1>2, <1>3, <1>10, <1>11, <1>12, <1>13 DEF DictInv

LEMMA DictStep == DictInv /\ [DictNext]_dictVars => DictInv'
<1> SUFFICES ASSUME DictInv, [DictNext]_dictVars PROVE DictInv'
  OBVIOUS
<1>1. CASE UNCHANGED dictVars
  <2>1. OneTokenEach'
    <3>1. in_buf' = in_buf /\ out_buf' = out_buf /\ extras' = extras /\ a_extras' = a_extras /\ runs' = runs
      BY <1>1 DEF dictVars
    <3> QED
      BY <3>1, OneTokenMeans, Zenon DEF DictInv
  <2> QED
    BY <1>1, <2>1 DEF dictVars, DictInv, in_len, AutoOK, ByLength, Data
<1> QED
  BY <1>1, FlipLastBitKeeps, UserOverKeeps, UserInsertKeeps, NoExtrasKeeps, AutoOverKeeps, LeaveDictKeeps DEF DictNext

(* What the dictionary stages of fuzz_one run is the input with exactly one  *)
(* token in it, and the buffer is the input again after every position, for  *)
(* every input and dictionary and whatever tokens were found: writing the    *)
(* tokens of a position over each other is sound because load_extras and     *)
(* the second sort of maybe_add_auto put the shorter ones first.             *)
THEOREM OneToken == DictSpec => []OneTokenEach
<1>1. DictInv => OneTokenEach
  BY DEF DictInv
<1> QED
  BY <1>1, InitKeeps, DictStep, PTL DEF DictSpec
-----------------------------------------------------------------------------
(*                     The tokens found are the rows                       *)

(* No two tokens of a list are the same, and the tokens of a list. *)
Distinct(ae) == \A k, l \in 1..Len(ae) : k # l => ~SameToken(ae[k].data, ae[l].data)
DataOf(ae) == {ae[k].data : k \in 1..Len(ae)}

LEMMA SameSelf == ASSUME NEW a \in Seq(Nat) PROVE SameToken(a, a)
  BY DEF SameToken

LEMMA SameBack == ASSUME NEW a \in Seq(Nat), NEW b \in Seq(Nat), SameToken(a, b) PROVE SameToken(b, a)
<1>1. Len(a) = Len(b) /\ DOMAIN a = DOMAIN b
  BY DEF SameToken
<1> QED
  BY <1>1 DEF SameToken

LEMMA HitData == ASSUME NEW ae \in Seq(Hits), NEW k \in 1..Len(ae) PROVE ae[k] \in Hits /\ ae[k].data \in Seq(Nat)
<1>1. k \in DOMAIN ae
  OBVIOUS
<1>2. ae[k] \in Hits
  BY <1>1, ElementOf, Zenon
<1>3. \A h \in Hits : h.data \in Seq(Nat)
  BY DEF Hits
<1> QED
  BY <1>2, <1>3, Zenon

LEMMA DistinctList ==
  ASSUME NEW ae \in Seq(Hits), Distinct(ae)
  PROVE  \A i, j \in 1..Len(ae) : i # j => ae[i] # ae[j]
<1> SUFFICES ASSUME NEW i \in 1..Len(ae), NEW j \in 1..Len(ae), i # j, ae[i] = ae[j] PROVE FALSE
  OBVIOUS
<1>1. ae[i].data \in Seq(Nat)
  BY HitData
<1>2. SameToken(ae[i].data, ae[i].data)
  BY <1>1, SameSelf, Zenon
<1>3. ~SameToken(ae[i].data, ae[j].data)
  BY Zenon DEF Distinct
<1> QED
  BY <1>2, <1>3, Zenon

LEMMA ListPerm ==
  ASSUME NEW S, IsFiniteSet(S), NEW s \in SetToSeqs(S)
  PROVE  ToSet(s) = S
<1>1. s \in Seq(S) /\ Len(s) = Cardinality(S) /\ \A i, j \in 1..Len(s) : i # j => s[i] # s[j]
  BY ListsOf
<1>2. Cardinality(ToSet(s)) = Len(s)
  BY <1>1, ListDistinct
<1>3. ToSet(s) \subseteq S
  BY <1>1, ListFinite
<1> QED
  BY <1>1, <1>2, <1>3, FS_Subset

LEMMA SetOfList == ASSUME NEW S, NEW s \in Seq(S) PROVE ToSet(s) = {s[i] : i \in 1..Len(s)}
  BY DEF ToSet

LEMMA HeadedAt ==
  ASSUME NEW S, NEW s \in Seq(S), NEW t \in Seq(S), NEW u \in 0..Len(s), Len(t) = u, NEW a, a = Headed(t, s)
  PROVE  a \in Seq(S) /\ Len(a) = Len(s) /\ \A i \in 1..Len(s) : a[i] = IF i <= u THEN t[i] ELSE s[i]
<1> DEFINE w == SubSeq(s, u + 1, Len(s))
<1>1. Len(s) \in Nat /\ u \in Nat /\ u <= Len(s) /\ Len(t) <= Len(s)
  OBVIOUS
<1>2. \A i \in (u + 1)..Len(s) : s[i] \in S
  BY <1>1
<1>3. w \in Seq(S) /\ Len(w) = Len(s) - u /\ \A i \in 1..(Len(s) - u) : w[i] = s[u + i]
  BY <1>1, <1>2
<1>4. a = t \o w
  BY DEF Headed
<1> HIDE DEF w
<1>5. a \in Seq(S) /\ Len(a) = Len(s)
  BY <1>1, PrefixReplaced
<1>6. ASSUME NEW i \in 1..Len(s) PROVE a[i] = IF i <= u THEN t[i] ELSE s[i]
  <2>1. i \in 1..(Len(t) + Len(w))
    BY <1>1, <1>3
  <2>2. (t \o w)[i] = IF i <= Len(t) THEN t[i] ELSE w[i - Len(t)]
    BY <2>1, <1>3, ConcatProperties
  <2>3. i > u => w[i - u] = s[i]
    <3> SUFFICES ASSUME i > u PROVE w[i - u] = s[i]
      OBVIOUS
    <3>1. i - u \in 1..(Len(s) - u) /\ u + (i - u) = i
      BY <1>1
    <3> QED
      BY <3>1, <1>3
  <2>4. a[i] = IF i <= u THEN t[i] ELSE w[i - u]
    BY <2>2, <1>4, Zenon
  <2> QED
    BY <2>3, <2>4, <1>1
<1> QED
  BY <1>5, <1>6

(* Sorting is a permutation: of any list, and of the list by use and then    *)
(* of its beginning by length.                                              *)
LEMMA SortedPerm ==
  ASSUME NEW ae \in Seq(Hits), \A i, j \in 1..Len(ae) : i # j => ae[i] # ae[j], NEW a \in sort_a_extras(ae)
  PROVE  /\ a \in Seq(Hits) /\ Len(a) = Len(ae)
         /\ \A i, j \in 1..Len(a) : i # j => a[i] # a[j]
         /\ ToSet(a) = ToSet(ae)
<1> DEFINE P(s) == SubSeq(s, 1, Least(USE_AUTO_EXTRAS, Len(s)))
<1>1. \E s \in SetToSeqs(ToSet(ae)) : \E t \in SetToSeqs(ToSet(P(s))) : a = t \o SubSeq(s, Len(t) + 1, Len(s))
  BY DEF sort_a_extras, Sorted
<1>2. PICK s \in SetToSeqs(ToSet(ae)) : \E t \in SetToSeqs(ToSet(P(s))) : a = t \o SubSeq(s, Len(t) + 1, Len(s))
  BY <1>1
<1> DEFINE u == Least(USE_AUTO_EXTRAS, Len(s))
           p == SubSeq(s, 1, u)
<1>3. PICK t \in SetToSeqs(ToSet(p)) : a = Headed(t, s)
  BY <1>2 DEF Headed
<1>4. IsFiniteSet(ToSet(ae)) /\ ToSet(ae) \subseteq Hits /\ Cardinality(ToSet(ae)) = Len(ae)
  BY ListFinite, ListDistinct
<1>5. s \in Seq(ToSet(ae)) /\ Len(s) = Len(ae) /\ (\A i, j \in 1..Len(s) : i # j => s[i] # s[j]) /\ ToSet(s) = ToSet(ae)
  BY <1>4, ListsOf, ListPerm
<1>6. s \in Seq(Hits) /\ Len(s) \in Nat
  BY <1>4, <1>5, WiderSeq, Zenon
<1>7. u \in 0..Len(s)
  BY <1>6, DictAssumption DEF Least
<1> HIDE DEF u
<1>8. p \in Seq(Hits) /\ Len(p) = u /\ \A i \in 1..u : p[i] = s[i]
  BY <1>6, <1>7
<1> HIDE DEF p
<1>9. Cardinality(ToSet(p)) = u /\ IsFiniteSet(ToSet(p)) /\ ToSet(p) \subseteq Hits
  <2>1. \A i, j \in 1..Len(p) : i # j => p[i] # p[j]
    BY <1>5, <1>7, <1>8
  <2> QED
    BY <2>1, <1>8, ListDistinct, ListFinite
<1>10. t \in Seq(ToSet(p)) /\ Len(t) = u /\ (\A i, j \in 1..Len(t) : i # j => t[i] # t[j]) /\ ToSet(t) = ToSet(p)
  BY <1>9, ListsOf, ListPerm
<1>11. t \in Seq(Hits)
  BY <1>9, <1>10, WiderSeq, Zenon
<1>12. a \in Seq(Hits) /\ Len(a) = Len(s) /\ \A i \in 1..Len(s) : a[i] = IF i <= u THEN t[i] ELSE s[i]
  BY <1>3, <1>6, <1>7, <1>10, <1>11, HeadedAt
<1>13. ToSet(p) = {s[i] : i \in 1..u}
  BY <1>8 DEF ToSet
<1>14. \A i \in 1..u : (\E k \in 1..u : t[i] = s[k]) /\ (\E k \in 1..u : s[i] = t[k])
  <2>1. ToSet(t) = {t[i] : i \in 1..u}
    BY <1>10 DEF ToSet
  <2>2. {t[i] : i \in 1..u} = {s[i] : i \in 1..u}
    BY <2>1, <1>10, <1>13
  <2> QED
    BY <2>2
<1>15. \A i, j \in 1..Len(a) : i # j => a[i] # a[j]
  <2>1. ASSUME NEW i \in 1..Len(s), NEW j \in 1..Len(s), i # j PROVE i <= u => a[i] # a[j]
    <3> SUFFICES ASSUME i <= u PROVE a[i] # a[j]
      OBVIOUS
    <3>1. i \in 1..u /\ a[i] = t[i]
      BY <1>6, <1>7, <1>12
    <3>2. CASE j <= u
      BY <3>1, <3>2, <2>1, <1>6, <1>7, <1>10, <1>12
    <3>3. CASE j > u
      <4>1. PICK k \in 1..u : t[i] = s[k]
        BY <3>1, <1>14
      <4>2. k \in 1..Len(s) /\ k # j /\ a[j] = s[j]
        BY <3>3, <1>6, <1>7, <1>12
      <4> QED
        BY <4>1, <4>2, <3>1, <1>5
    <3> QED
      BY <3>2, <3>3, <1>6, <1>7
  <2>2. ASSUME NEW i \in 1..Len(s), NEW j \in 1..Len(s), i # j, i > u, j > u PROVE a[i] # a[j]
    <3>1. a[i] = s[i] /\ a[j] = s[j]
      BY <2>2, <1>6, <1>7, <1>12
    <3> QED
      BY <3>1, <2>2, <1>5
  <2>3. \A i \in 1..Len(s) : i <= u \/ i > u
    BY <1>6, <1>7
  <2> QED
    BY <2>1, <2>2, <2>3, <1>12
<1>16. ToSet(a) = ToSet(s)
  <2>1. ToSet(a) = {a[i] : i \in 1..Len(s)} /\ ToSet(s) = {s[i] : i \in 1..Len(s)}
    <3>1. ToSet(a) = {a[i] : i \in 1..Len(a)}
      BY <1>12, SetOfList
    <3>2. ToSet(s) = {s[i] : i \in 1..Len(s)}
      BY <1>6, SetOfList
    <3> QED
      BY <3>1, <3>2, <1>12
  <2>2. \A i \in 1..Len(s) : (\E k \in 1..Len(s) : a[i] = s[k]) /\ (\E k \in 1..Len(s) : s[i] = a[k])
    <3> SUFFICES ASSUME NEW i \in 1..Len(s) PROVE (\E k \in 1..Len(s) : a[i] = s[k]) /\ (\E k \in 1..Len(s) : s[i] = a[k])
      OBVIOUS
    <3>1. CASE i <= u
      <4>1. i \in 1..u /\ a[i] = t[i]
        BY <3>1, <1>6, <1>7, <1>12
      <4>2. PICK k \in 1..u : t[i] = s[k]
        BY <4>1, <1>14
      <4>3. PICK l \in 1..u : s[i] = t[l]
        BY <4>1, <1>14
      <4>4. k \in 1..Len(s) /\ l \in 1..Len(s) /\ a[l] = t[l]
        BY <1>6, <1>7, <1>12
      <4> QED
        BY <4>1, <4>2, <4>3, <4>4
    <3>2. CASE i > u
      <4>1. a[i] = s[i]
        BY <3>2, <1>6, <1>7, <1>12
      <4> QED
        BY <4>1
    <3> QED
      BY <3>1, <3>2, <1>6, <1>7
  <2>3. ASSUME NEW i \in 1..Len(s) PROVE a[i] \in {s[k] : k \in 1..Len(s)}
    <3>1. PICK k \in 1..Len(s) : a[i] = s[k]
      BY <2>2
    <3>2. s[k] \in {s[m] : m \in 1..Len(s)}
      BY Zenon
    <3> QED
      BY <3>1, <3>2, Zenon
  <2>4. ASSUME NEW i \in 1..Len(s) PROVE s[i] \in {a[k] : k \in 1..Len(s)}
    <3>1. PICK k \in 1..Len(s) : s[i] = a[k]
      BY <2>2
    <3>2. a[k] \in {a[m] : m \in 1..Len(s)}
      BY Zenon
    <3> QED
      BY <3>1, <3>2, Zenon
  <2>5. {a[i] : i \in 1..Len(s)} = {s[i] : i \in 1..Len(s)}
    BY <2>3, <2>4, Zenon
  <2> QED
    BY <2>1, <2>5, Zenon
<1> QED
  BY <1>5, <1>12, <1>15, <1>16

(* A list that has tokens of W only, and a token for each as long as there   *)
(* is room for all.                                                         *)
Full(ae, W) ==
  /\ IsFiniteSet(W) /\ DataOf(ae) \subseteq W /\ Distinct(ae) /\ Len(ae) <= MAX_AUTO_EXTRAS
  /\ Cardinality(W) <= MAX_AUTO_EXTRAS => \A m \in W : \E k \in 1..Len(ae) : SameToken(ae[k].data, m)

LEMMA SortedFull ==
  ASSUME NEW ae \in Seq(Hits), NEW W, Full(ae, W), NEW a \in sort_a_extras(ae)
  PROVE  a \in Seq(Hits) /\ Full(a, W)
<1> DEFINE n == Len(ae)
<1>1. Distinct(ae) /\ n \in Nat
  BY DEF Full
<1>2. \A i, j \in 1..Len(ae) : i # j => ae[i] # ae[j]
  BY <1>1, DistinctList
<1>3. a \in Seq(Hits) /\ Len(a) = n /\ (\A i, j \in 1..n : i # j => a[i] # a[j]) /\ ToSet(a) = ToSet(ae)
  BY <1>2, SortedPerm
<1>4. {a[i] : i \in 1..n} = {ae[i] : i \in 1..n}
  <2>1. ToSet(a) = {a[i] : i \in 1..Len(a)} /\ ToSet(ae) = {ae[i] : i \in 1..Len(ae)}
    BY <1>3, SetOfList
  <2> QED
    BY <2>1, <1>3
<1>5. \A i \in 1..n : (\E k \in 1..n : a[i] = ae[k]) /\ (\E k \in 1..n : ae[i] = a[k])
  BY <1>4
<1>6. Distinct(a)
  <2> SUFFICES ASSUME NEW i \in 1..n, NEW j \in 1..n, i # j PROVE ~SameToken(a[i].data, a[j].data)
    BY <1>3 DEF Distinct
  <2>1. PICK k \in 1..n : a[i] = ae[k]
    BY <1>5
  <2>2. PICK l \in 1..n : a[j] = ae[l]
    BY <1>5
  <2>3. k # l
    BY <2>1, <2>2, <1>3
  <2> QED
    BY <2>1, <2>2, <2>3, <1>1, Zenon DEF Distinct
<1>7. DataOf(a) \subseteq W
  <2>1. DataOf(a) \subseteq DataOf(ae)
    <3> SUFFICES ASSUME NEW i \in 1..n PROVE a[i].data \in DataOf(ae)
      BY <1>3 DEF DataOf
    <3>1. PICK k \in 1..n : a[i] = ae[k]
      BY <1>5
    <3>2. ae[k].data \in DataOf(ae)
      BY DEF DataOf
    <3> QED
      BY <3>1, <3>2, Zenon
  <2> QED
    BY <2>1 DEF Full
<1>8. ASSUME NEW m, \E k \in 1..n : SameToken(ae[k].data, m) PROVE \E k \in 1..n : SameToken(a[k].data, m)
  <2>1. PICK k \in 1..n : SameToken(ae[k].data, m)
    BY <1>8
  <2>2. PICK l \in 1..n : ae[k] = a[l]
    BY <1>5
  <2> QED
    BY <2>1, <2>2, Zenon
<1>9. Cardinality(W) <= MAX_AUTO_EXTRAS => \A m \in W : \E k \in 1..n : SameToken(a[k].data, m)
  BY <1>8 DEF Full
<1>10. IsFiniteSet(W) /\ n <= MAX_AUTO_EXTRAS
  BY DEF Full
<1> QED
  BY <1>3, <1>6, <1>7, <1>9, <1>10 DEF Full

LEMMA MoreTokens ==
  ASSUME NEW W, IsFiniteSet(W), NEW m
  PROVE  /\ IsFiniteSet(W \cup {m})
         /\ Cardinality(W \cup {m}) <= MAX_AUTO_EXTRAS => Cardinality(W) <= MAX_AUTO_EXTRAS
<1>1. Cardinality(W) \in Nat /\ MAX_AUTO_EXTRAS \in Nat
  BY FS_CardinalityType, DictAssumption
<1>2. IsFiniteSet(W \cup {m}) /\ (Cardinality(W \cup {m}) = Cardinality(W) \/ Cardinality(W \cup {m}) = Cardinality(W) + 1)
  BY FS_AddElement
<1> QED
  BY <1>1, <1>2

LEMMA AgainFull ==
  ASSUME NEW ae \in Seq(Hits), NEW W, Full(ae, W), NEW mem \in Seq(Nat), NEW k \in 1..Len(ae), SameToken(ae[k].data, mem)
  PROVE  LET s == [ae EXCEPT ![k].hit_cnt = @ + 1] IN s \in Seq(Hits) /\ Full(s, W \cup {mem})
<1> DEFINE s == [ae EXCEPT ![k].hit_cnt = @ + 1]
           n == Len(ae)
<1>1. n \in Nat /\ DOMAIN ae = 1..n /\ k \in DOMAIN ae
  OBVIOUS
<1>2. s \in Seq(Hits)
  BY <1>1, HitAgain, Zenon
<1>3. Len(s) = n
  <2>1. DOMAIN s = 1..n
    BY <1>1
  <2> HIDE DEF s
  <2> QED
    BY <2>1, <1>1, <1>2
<1>4. \A i \in 1..n : s[i].data = ae[i].data
  <2>1. ASSUME NEW i \in 1..n PROVE s[i].data = ae[i].data
    <3>1. ae[i] \in Hits
      BY HitData
    <3>2. CASE i # k
      BY <3>2, <1>1
    <3>3. CASE i = k
      <4> DEFINE e == ae[k]
                 h == [e EXCEPT !.hit_cnt = @ + 1]
      <4>1. s[k] = h
        BY <1>1
      <4>2. e \in Hits
        BY <3>1, <3>3
      <4> HIDE DEF e, s
      <4>3. h.data = e.data
        BY <4>2 DEF Hits
      <4> HIDE DEF h
      <4>4. s[k].data = ae[k].data
        BY <4>1, <4>3, Zenon DEF e
      <4> QED
        BY <4>4, <3>3, Zenon
    <3> HIDE DEF s
    <3> QED
      BY <3>2, <3>3, Zenon
  <2> HIDE DEF s
  <2> QED
    BY <2>1
<1> HIDE DEF s
<1>5. DataOf(s) = DataOf(ae) /\ Distinct(s)
  <2>1. Distinct(ae)
    BY DEF Full
  <2> QED
    BY <2>1, <1>3, <1>4 DEF DataOf, Distinct
<1>6. IsFiniteSet(W) /\ DataOf(ae) \subseteq W /\ n <= MAX_AUTO_EXTRAS
  BY DEF Full
<1>7. IsFiniteSet(W \cup {mem}) /\ (Cardinality(W \cup {mem}) <= MAX_AUTO_EXTRAS => Cardinality(W) <= MAX_AUTO_EXTRAS)
  BY <1>6, MoreTokens
<1>8. SameToken(s[k].data, mem)
  BY <1>4, Zenon
<1>9. Cardinality(W) <= MAX_AUTO_EXTRAS => \A m \in W : \E l \in 1..n : SameToken(s[l].data, m)
  <2>1. Cardinality(W) <= MAX_AUTO_EXTRAS => \A m \in W : \E l \in 1..n : SameToken(ae[l].data, m)
    BY DEF Full
  <2> QED
    BY <2>1, <1>4, Zenon
<1>10. Cardinality(W \cup {mem}) <= MAX_AUTO_EXTRAS => \A m \in W \cup {mem} : \E l \in 1..n : SameToken(s[l].data, m)
  BY <1>7, <1>8, <1>9
<1>11. Full(s, W \cup {mem})
  BY <1>3, <1>5, <1>6, <1>7, <1>10 DEF Full
<1> QED
  BY <1>2, <1>11 DEF s

(* A new token at place x of the list. *)
LEMMA NewFull ==
  ASSUME NEW ae \in Seq(Hits), NEW W, Full(ae, W), NEW mem \in Seq(Nat), \A l \in 1..Len(ae) : ~SameToken(ae[l].data, mem),
         NEW s \in Seq(Hits), NEW x \in 1..Len(s), s[x].data = mem,
         \A i \in 1..Len(s) : i # x => i \in 1..Len(ae) /\ s[i] = ae[i]
  PROVE  Distinct(s) /\ DataOf(s) \subseteq W \cup {mem}
<1>1. DataOf(ae) \subseteq W /\ Distinct(ae)
  BY DEF Full
<1>2. Distinct(s)
  <2> SUFFICES ASSUME NEW i \in 1..Len(s), NEW j \in 1..Len(s), i # j PROVE ~SameToken(s[i].data, s[j].data)
    BY DEF Distinct
  <2>1. CASE i = x
    <3>1. j \in 1..Len(ae) /\ s[j] = ae[j]
      BY <2>1
    <3>2. ae[j].data \in Seq(Nat)
      BY <3>1, HitData
    <3>3. ~SameToken(mem, ae[j].data)
      BY <3>1, <3>2, SameBack
    <3> QED
      BY <2>1, <3>1, <3>3, Zenon
  <2>2. CASE j = x
    <3>1. i \in 1..Len(ae) /\ s[i] = ae[i]
      BY <2>2
    <3> QED
      BY <2>2, <3>1, Zenon
  <2>3. CASE i # x /\ j # x
    <3>1. i \in 1..Len(ae) /\ j \in 1..Len(ae) /\ s[i] = ae[i] /\ s[j] = ae[j]
      BY <2>3
    <3> QED
      BY <3>1, <1>1, Zenon DEF Distinct
  <2> QED
    BY <2>1, <2>2, <2>3
<1>3. DataOf(s) \subseteq W \cup {mem}
  <2> SUFFICES ASSUME NEW i \in 1..Len(s) PROVE s[i].data \in W \cup {mem}
    BY DEF DataOf
  <2>1. CASE i = x
    BY <2>1
  <2>2. CASE i # x
    <3>1. i \in 1..Len(ae) /\ s[i] = ae[i]
      BY <2>2
    <3>2. ae[i].data \in DataOf(ae)
      BY <3>1 DEF DataOf
    <3>3. s[i].data \in DataOf(ae)
      BY <3>1, <3>2, Zenon
    <3> QED
      BY <3>3, <1>1
  <2> QED
    BY <2>1, <2>2
<1> QED
  BY <1>2, <1>3

LEMMA AppendFull ==
  ASSUME NEW ae \in Seq(Hits), NEW W, Full(ae, W), NEW mem \in Seq(Nat), \A l \in 1..Len(ae) : ~SameToken(ae[l].data, mem),
         Len(ae) < MAX_AUTO_EXTRAS
  PROVE  LET s == Append(ae, Hit(mem, 0)) IN s \in Seq(Hits) /\ Full(s, W \cup {mem})
<1> DEFINE e == Hit(mem, 0)
           s == Append(ae, e)
           n == Len(ae)
<1>1. e \in Hits /\ e.data = mem
  BY DEF Hit, Hits
<1> HIDE DEF e
<1>2. s \in Seq(Hits) /\ Len(s) = n + 1 /\ s[n + 1] = e /\ (\A i \in 1..n : s[i] = ae[i]) /\ n \in Nat
  BY <1>1, AppendProperties
<1> HIDE DEF s
<1>3. n + 1 \in 1..Len(s) /\ s[n + 1].data = mem /\ \A i \in 1..Len(s) : i # n + 1 => i \in 1..n /\ s[i] = ae[i]
  BY <1>1, <1>2
<1>4. Distinct(s) /\ DataOf(s) \subseteq W \cup {mem}
  BY <1>2, <1>3, NewFull, SMTT(60)
<1>5. IsFiniteSet(W)
  BY DEF Full
<1>6. IsFiniteSet(W \cup {mem}) /\ (Cardinality(W \cup {mem}) <= MAX_AUTO_EXTRAS => Cardinality(W) <= MAX_AUTO_EXTRAS)
  BY <1>5, MoreTokens
<1>7. SameToken(s[n + 1].data, mem)
  BY <1>3, SameSelf, Zenon
<1>8. Cardinality(W) <= MAX_AUTO_EXTRAS => \A m \in W : \E l \in 1..Len(s) : SameToken(s[l].data, m)
  <2> SUFFICES ASSUME Cardinality(W) <= MAX_AUTO_EXTRAS, NEW m \in W PROVE \E l \in 1..Len(s) : SameToken(s[l].data, m)
    OBVIOUS
  <2>1. PICK l \in 1..n : SameToken(ae[l].data, m)
    BY DEF Full
  <2>2. l \in 1..Len(s) /\ s[l] = ae[l]
    BY <1>2
  <2> QED
    BY <2>1, <2>2, Zenon
<1>9. Len(s) <= MAX_AUTO_EXTRAS
  BY <1>2, DictAssumption
<1>10. Cardinality(W \cup {mem}) <= MAX_AUTO_EXTRAS => \A m \in W \cup {mem} : \E l \in 1..Len(s) : SameToken(s[l].data, m)
  BY <1>3, <1>6, <1>7, <1>8
<1>11. Full(s, W \cup {mem})
  BY <1>4, <1>6, <1>9, <1>10 DEF Full
<1> QED
  BY <1>2, <1>11 DEF s, e

LEMMA DataCount ==
  ASSUME NEW ae \in Seq(Hits), Distinct(ae)
  PROVE  IsFiniteSet(DataOf(ae)) /\ Cardinality(DataOf(ae)) = Len(ae)
<1> DEFINE n == Len(ae)
           d == Data(ae)
<1>1. n \in Nat /\ \A i \in 1..n : ae[i].data \in Seq(Nat)
  BY HitData
<1>2. d \in Seq(Seq(Nat)) /\ Len(d) = n /\ \A i \in 1..n : d[i] = ae[i].data
  BY <1>1 DEF Data
<1> HIDE DEF d
<1>3. \A i, j \in 1..Len(d) : i # j => d[i] # d[j]
  <2> SUFFICES ASSUME NEW i \in 1..n, NEW j \in 1..n, i # j PROVE d[i] # d[j]
    BY <1>2
  <2>1. SameToken(ae[i].data, ae[i].data) /\ ~SameToken(ae[i].data, ae[j].data)
    BY <1>1, SameSelf DEF Distinct
  <2> QED
    BY <2>1, <1>2, Zenon
<1>4. ToSet(d) = {d[i] : i \in 1..n}
  BY <1>2, SetOfList
<1>5. DataOf(ae) = {d[i] : i \in 1..n}
  BY <1>2 DEF DataOf
<1>6. IsFiniteSet(ToSet(d)) /\ Cardinality(ToSet(d)) = Len(d)
  BY <1>2, <1>3, ListDistinct, ListFinite
<1> QED
  BY <1>2, <1>4, <1>5, <1>6

LEMMA EvictFull ==
  ASSUME NEW ae \in Seq(Hits), NEW W, Full(ae, W), NEW mem \in Seq(Nat), \A l \in 1..Len(ae) : ~SameToken(ae[l].data, mem),
         ~(Len(ae) < MAX_AUTO_EXTRAS), NEW k
  PROVE  LET s == [ae EXCEPT ![k] = Hit(mem, 0)] IN s \in Seq(Hits) /\ Full(s, W \cup {mem})
<1> DEFINE e == Hit(mem, 0)
           s == [ae EXCEPT ![k] = e]
           n == Len(ae)
<1>1. e \in Hits /\ e.data = mem
  BY DEF Hit, Hits
<1> HIDE DEF e
<1>2. n \in Nat /\ DOMAIN ae = 1..n /\ MAX_AUTO_EXTRAS \in Nat
  BY DictAssumption
<1>3. s \in Seq(Hits)
  BY <1>1, Put
<1>4. DOMAIN s = 1..n /\ \A i \in 1..n : s[i] = IF i = k THEN e ELSE ae[i]
  BY <1>2
<1>5. k \notin 1..n => s = ae
  BY <1>2
<1> HIDE DEF s
<1>6. Len(s) = n
  BY <1>2, <1>3, <1>4
<1>7. Distinct(ae) /\ DataOf(ae) \subseteq W /\ IsFiniteSet(W) /\ n <= MAX_AUTO_EXTRAS
  BY DEF Full
<1>8. Distinct(s) /\ DataOf(s) \subseteq W \cup {mem}
  <2>1. CASE k \in 1..n
    <3>1. k \in 1..Len(s) /\ s[k].data = mem /\ \A i \in 1..Len(s) : i # k => i \in 1..Len(ae) /\ s[i] = ae[i]
      BY <2>1, <1>1, <1>4, <1>6
    <3> QED
      BY <3>1, <1>3, NewFull
  <2>2. CASE k \notin 1..n
    BY <2>2, <1>5, <1>7
  <2> QED
    BY <2>1, <2>2
<1>9. IsFiniteSet(W \cup {mem})
  BY <1>7, MoreTokens
<1>10. ~(Cardinality(W \cup {mem}) <= MAX_AUTO_EXTRAS)
  <2> DEFINE D == DataOf(ae)
  <2>1. IsFiniteSet(D) /\ Cardinality(D) = n
    BY <1>7, DataCount
  <2>2. mem \notin D
    <3>1. \A l \in 1..n : ae[l].data # mem
      BY SameSelf, Zenon
    <3> QED
      BY <3>1 DEF DataOf
  <2>3. D \cup {mem} \in SUBSET (W \cup {mem})
    BY <1>7
  <2> HIDE DEF D
  <2>4. Cardinality(D \cup {mem}) = n + 1
    BY <2>1, <2>2, FS_AddElement
  <2>5. Cardinality(D \cup {mem}) <= Cardinality(W \cup {mem})
    BY <2>3, <1>9, FS_Subset
  <2>6. Cardinality(W \cup {mem}) \in Nat
    BY <1>9, FS_CardinalityType
  <2> QED
    BY <2>4, <2>5, <2>6, <1>2
<1>11. Full(s, W \cup {mem})
  BY <1>6, <1>7, <1>8, <1>9, <1>10 DEF Full
<1> QED
  BY <1>3, <1>11 DEF s, e

(* A token is in the list or comes into it. *)
Fresh(mem, ex) ==
  (\E k \in DOMAIN mem : mem[k] # mem[1]) /\ mem \notin Builtin /\ \A k \in DOMAIN ex : ~SameToken(ex[k], mem)

LEMMA AddFull ==
  ASSUME NEW ae \in Seq(Hits), NEW W, Full(ae, W), NEW mem \in Seq(Nat), NEW a \in maybe_add_auto(ae, mem)
  PROVE  Full(a, IF Fresh(mem, extras) THEN W \cup {mem} ELSE W)
<1> DEFINE known == {k \in DOMAIN ae : SameToken(ae[k].data, mem)}
           evict == ((MAX_AUTO_EXTRAS \div 2) + 1)..((MAX_AUTO_EXTRAS \div 2) + ((MAX_AUTO_EXTRAS + 1) \div 2))
           lists == IF known # {} THEN {[ae EXCEPT ![k].hit_cnt = @ + 1] : k \in known}
                    ELSE IF Len(ae) < MAX_AUTO_EXTRAS THEN {Append(ae, Hit(mem, 0))}
                    ELSE {[ae EXCEPT ![k] = Hit(mem, 0)] : k \in evict}
<1>1. ~Fresh(mem, extras) => a = ae
  BY DEF maybe_add_auto, Fresh
<1>2. Fresh(mem, extras) => \E s \in lists : a \in sort_a_extras(s)
  BY DEF maybe_add_auto, Fresh
<1>3. \A s \in lists : s \in Seq(Hits) /\ Full(s, W \cup {mem})
  <2>0. DOMAIN ae = 1..Len(ae)
    OBVIOUS
  <2>1. CASE known # {}
    <3>1. \A k \in known : k \in 1..Len(ae) /\ SameToken(ae[k].data, mem)
      BY <2>0
    <3>2. \A k \in known : [ae EXCEPT ![k].hit_cnt = @ + 1] \in Seq(Hits) /\ Full([ae EXCEPT ![k].hit_cnt = @ + 1], W \cup {mem})
      BY <3>1, AgainFull
    <3> HIDE DEF known
    <3>3. lists = {[ae EXCEPT ![k].hit_cnt = @ + 1] : k \in known}
      BY <2>1
    <3> HIDE DEF lists
    <3> QED
      BY <3>2, <3>3, Zenon
  <2>2. CASE known = {} /\ Len(ae) < MAX_AUTO_EXTRAS
    <3>1. \A l \in 1..Len(ae) : ~SameToken(ae[l].data, mem)
      BY <2>0, <2>2
    <3>2. Append(ae, Hit(mem, 0)) \in Seq(Hits) /\ Full(Append(ae, Hit(mem, 0)), W \cup {mem})
      BY <3>1, <2>2, AppendFull
    <3> HIDE DEF known
    <3>3. lists = {Append(ae, Hit(mem, 0))}
      BY <2>2
    <3> HIDE DEF lists
    <3> QED
      BY <3>2, <3>3, Zenon
  <2>3. CASE known = {} /\ ~(Len(ae) < MAX_AUTO_EXTRAS)
    <3>1. \A l \in 1..Len(ae) : ~SameToken(ae[l].data, mem)
      BY <2>0, <2>3
    <3> HIDE DEF evict
    <3>2. \A k \in evict : [ae EXCEPT ![k] = Hit(mem, 0)] \in Seq(Hits) /\ Full([ae EXCEPT ![k] = Hit(mem, 0)], W \cup {mem})
      BY <3>1, <2>3, EvictFull
    <3> HIDE DEF known
    <3>3. lists = {[ae EXCEPT ![k] = Hit(mem, 0)] : k \in evict}
      BY <2>3
    <3> HIDE DEF lists
    <3> QED
      BY <3>2, <3>3, Zenon
  <2> QED
    BY <2>1, <2>2, <2>3
<1> HIDE DEF lists
<1>4. Fresh(mem, extras) => Full(a, W \cup {mem})
  <2> SUFFICES ASSUME Fresh(mem, extras) PROVE Full(a, W \cup {mem})
    OBVIOUS
  <2>1. PICK s \in lists : a \in sort_a_extras(s)
    BY <1>2
  <2>2. s \in Seq(Hits) /\ Full(s, W \cup {mem})
    BY <1>3
  <2> QED
    BY <2>1, <2>2, SortedFull
<1> QED
  BY <1>1, <1>4

(* Bytes a to b are a row; the tokens of the rows that end by byte e; and    *)
(* the l bytes up to e are all of those before it with its path.             *)
IsRow(p, a, b) ==
  /\ (b - a) + 1 \in MIN_AUTO_EXTRA..MAX_AUTO_EXTRA
  /\ p[a] # exec_cksum /\ (\A k \in a..b : p[k] = p[a]) /\ (a > 1 => p[a - 1] # p[a])
RowEnds(mem, p, b, inb) == \E a \in 1..b : IsRow(p, a, b) /\ (b < Len(p) => p[b + 1] # p[a]) /\ mem = SubSeq(inb, a, b)
Done(p, e, inb, ex) == {mem \in Seq(Nat) : Fresh(mem, ex) /\ \E b \in 1..e : RowEnds(mem, p, b, inb)}
Run(p, e, l) == l \in 1..e /\ (\A k \in ((e - l) + 1)..e : p[k] = p[e]) /\ (e - l >= 1 => p[e - l] # p[e])
With(W, ok, mem, ex) == IF ok /\ Fresh(mem, ex) THEN W \cup {mem} ELSE W

LEMMA RowOfRun ==
  ASSUME NEW p, NEW e \in Nat, NEW l, Run(p, e, l), NEW a \in 1..e
  PROVE  IsRow(p, a, e) <=> a = (e - l) + 1 /\ l \in MIN_AUTO_EXTRA..MAX_AUTO_EXTRA /\ p[e] # exec_cksum
<1>1. /\ l \in 1..e /\ (\A k \in ((e - l) + 1)..e : p[k] = p[e]) /\ (e - l >= 1 => p[e - l] # p[e])
      /\ MIN_AUTO_EXTRA \in Nat /\ MAX_AUTO_EXTRA \in Nat
  BY DictAssumption DEF Run
<1> DEFINE x == (e - l) + 1
<1>2. x \in 1..e /\ p[x] = p[e] /\ (e - x) + 1 = l /\ (x > 1 => e - l >= 1 /\ x - 1 = e - l)
  <2>1. x \in 1..e /\ x \in ((e - l) + 1)..e
    BY <1>1
  <2> QED
    BY <2>1, <1>1
<1>3. ASSUME IsRow(p, a, e) PROVE a = x /\ l \in MIN_AUTO_EXTRA..MAX_AUTO_EXTRA /\ p[e] # exec_cksum
  <2>1. p[e] = p[a] /\ (\A k \in a..e : p[k] = p[a]) /\ (a > 1 => p[a - 1] # p[a]) /\ p[a] # exec_cksum
    BY <1>3 DEF IsRow
  <2>2. CASE a < x
    <3>1. e - l \in a..e /\ e - l >= 1
      BY <2>2, <1>1
    <3> QED
      BY <3>1, <2>1, <1>1
  <2>3. CASE a > x
    <3>1. a - 1 \in ((e - l) + 1)..e /\ a > 1
      BY <2>3, <1>1
    <3> QED
      BY <3>1, <2>1, <1>1
  <2>4. CASE a = x
    BY <2>4, <1>2, <1>3, <2>1 DEF IsRow
  <2> QED
    BY <2>2, <2>3, <2>4, <1>2
<1>4. ASSUME a = x, l \in MIN_AUTO_EXTRA..MAX_AUTO_EXTRA, p[e] # exec_cksum PROVE IsRow(p, a, e)
  <2>1. (e - a) + 1 \in MIN_AUTO_EXTRA..MAX_AUTO_EXTRA
    BY <1>2, <1>4
  <2>2. p[a] # exec_cksum /\ \A k \in a..e : p[k] = p[a]
    BY <1>1, <1>2, <1>4
  <2>3. a > 1 => p[a - 1] # p[a]
    BY <1>1, <1>2, <1>4
  <2> QED
    BY <2>1, <2>2, <2>3 DEF IsRow
<1> QED
  BY <1>3, <1>4

(* What the rows that end with byte e add. *)
LEMMA DoneWithout ==
  ASSUME NEW p, NEW e \in Nat \ {0}, NEW inb, NEW ex, \A mem \in Seq(Nat) : Fresh(mem, ex) => ~RowEnds(mem, p, e, inb)
  PROVE  Done(p, e, inb, ex) = Done(p, e - 1, inb, ex)
<1>1. \A b \in 1..e : b = e \/ b \in 1..(e - 1)
  OBVIOUS
<1>2. \A b \in 1..(e - 1) : b \in 1..e
  OBVIOUS
<1> QED
  BY <1>1, <1>2 DEF Done

LEMMA NoPathNoRow ==
  ASSUME NEW p, NEW e \in Nat \ {0}, NEW inb, NEW mem, p[e] = exec_cksum \/ (e < Len(p) /\ p[e + 1] = p[e])
  PROVE  ~RowEnds(mem, p, e, inb)
<1> SUFFICES ASSUME NEW a \in 1..e, IsRow(p, a, e), e < Len(p) => p[e + 1] # p[a] PROVE FALSE
  BY DEF RowEnds
<1>1. p[e] = p[a] /\ p[a] # exec_cksum
  BY DEF IsRow
<1> QED
  BY <1>1

LEMMA DoneWith ==
  ASSUME NEW p, NEW e \in Nat \ {0}, NEW inb \in Seq(Nat), e <= Len(inb), NEW ex, NEW l, Run(p, e, l), p[e] # exec_cksum,
         e < Len(p) => p[e + 1] # p[e]
  PROVE  Done(p, e, inb, ex)
           = With(Done(p, e - 1, inb, ex), l \in MIN_AUTO_EXTRA..MAX_AUTO_EXTRA, SubSeq(inb, (e - l) + 1, e), ex)
<1> DEFINE x == (e - l) + 1
           t == SubSeq(inb, x, e)
           ok == l \in MIN_AUTO_EXTRA..MAX_AUTO_EXTRA
<1>1. l \in 1..e /\ x \in 1..e /\ p[x] = p[e]
  <2>1. l \in 1..e /\ (\A k \in x..e : p[k] = p[e])
    BY DEF Run
  <2>2. x \in 1..e /\ x \in x..e
    BY <2>1
  <2> QED
    BY <2>1, <2>2
<1>2. t \in Seq(Nat)
  <2>1. Len(inb) \in Nat /\ \A k \in x..e : inb[k] \in Nat
    BY <1>1
  <2> HIDE DEF x
  <2> QED
    BY <2>1, <1>1, SubSeqProperties
<1>3. \A mem : RowEnds(mem, p, e, inb) <=> ok /\ mem = t
  <2>1. \A a \in 1..e : IsRow(p, a, e) <=> a = x /\ ok
    BY RowOfRun
  <2>2. e < Len(p) => p[e + 1] # p[x]
    BY <1>1
  <2> HIDE DEF x, ok
  <2> QED
    BY <2>1, <2>2, <1>1 DEF RowEnds
<1> HIDE DEF t, ok
<1>4. \A b \in 1..e : b = e \/ b \in 1..(e - 1)
  OBVIOUS
<1>5. (\A b \in 1..(e - 1) : b \in 1..e) /\ e \in 1..e
  OBVIOUS
<1>6. ASSUME NEW mem \in Done(p, e, inb, ex) PROVE mem \in With(Done(p, e - 1, inb, ex), ok, t, ex)
  BY <1>3, <1>4 DEF Done, With
<1>7. ASSUME NEW mem \in With(Done(p, e - 1, inb, ex), ok, t, ex) PROVE mem \in Done(p, e, inb, ex)
  BY <1>2, <1>3, <1>5 DEF Done, With
<1>8. Done(p, e, inb, ex) = With(Done(p, e - 1, inb, ex), ok, t, ex)
  BY <1>6, <1>7
<1> QED
  BY <1>8 DEF t, ok

(* One more path. *)
LEMMA PathAdded ==
  ASSUME NEW S, NEW p \in Seq(S), NEW c \in S, NEW q, q = Append(p, c)
  PROVE  /\ q \in Seq(S) /\ Len(q) = Len(p) + 1 /\ Len(p) \in Nat
         /\ q[Len(p) + 1] = c /\ \A k \in 1..Len(p) : q[k] = p[k]
  BY AppendProperties

LEMMA DoneBefore ==
  ASSUME NEW S, NEW p \in Seq(S), NEW c \in S, NEW inb, NEW ex
  PROVE  Done(Append(p, c), Len(p) - 1, inb, ex) = Done(p, Len(p) - 1, inb, ex)
<1> DEFINE q == Append(p, c)
           i == Len(p)
<1>1. Len(q) = i + 1 /\ i \in Nat /\ \A k \in 1..i : q[k] = p[k]
  BY PathAdded
<1> HIDE DEF q
<1>2. ASSUME NEW b \in 1..(i - 1), NEW a \in 1..b
      PROVE  (IsRow(q, a, b) <=> IsRow(p, a, b)) /\ (b < Len(q) => q[b + 1] # q[a]) = (b < Len(p) => p[b + 1] # p[a])
  <2>1. /\ a \in 1..i /\ b + 1 \in 1..i /\ (a > 1 => a - 1 \in 1..i) /\ (\A k \in a..b : k \in 1..i)
        /\ b < Len(q) /\ b < Len(p)
    BY <1>1
  <2>2. q[a] = p[a] /\ q[b + 1] = p[b + 1] /\ (a > 1 => q[a - 1] = p[a - 1]) /\ \A k \in a..b : q[k] = p[k]
    BY <2>1, <1>1
  <2>3. IsRow(q, a, b) <=> IsRow(p, a, b)
    BY <2>2 DEF IsRow
  <2> QED
    BY <2>1, <2>2, <2>3
<1>3. \A mem : \A b \in 1..(i - 1) : RowEnds(mem, q, b, inb) <=> RowEnds(mem, p, b, inb)
  BY <1>2 DEF RowEnds
<1>4. Done(q, i - 1, inb, ex) = Done(p, i - 1, inb, ex)
  BY <1>3 DEF Done
<1> QED
  BY <1>4 DEF q

LEMMA RunStays ==
  ASSUME NEW S, NEW p \in Seq(S), NEW c \in S, NEW l, Run(p, Len(p), l)
  PROVE  Run(Append(p, c), Len(p), l) /\ (c = p[Len(p)] => Run(Append(p, c), Len(p) + 1, l + 1))
<1> DEFINE q == Append(p, c)
           i == Len(p)
<1>1. Len(q) = i + 1 /\ i \in Nat /\ q[i + 1] = c /\ \A k \in 1..i : q[k] = p[k]
  BY PathAdded
<1> HIDE DEF q, i
<1>2. l \in 1..i /\ (\A k \in ((i - l) + 1)..i : p[k] = p[i]) /\ (i - l >= 1 => p[i - l] # p[i])
  BY DEF Run, i
<1>3. \A k \in ((i - l) + 1)..i : k \in 1..i /\ q[k] = p[i]
  BY <1>1, <1>2
<1>4. q[i] = p[i]
  BY <1>1, <1>2
<1>5. i - l >= 1 => q[i - l] # p[i]
  BY <1>1, <1>2
<1>6. Run(q, i, l)
  BY <1>2, <1>3, <1>4, <1>5 DEF Run
<1>7. ASSUME c = p[i] PROVE Run(q, i + 1, l + 1)
  <2>1. l + 1 \in 1..(i + 1) /\ (i + 1) - (l + 1) = i - l
    BY <1>1, <1>2, SMTT(60)
  <2>2. \A k \in (((i + 1) - (l + 1)) + 1)..(i + 1) : q[k] = q[i + 1]
    <3>1. \A k \in ((i - l) + 1)..(i + 1) : k = i + 1 \/ k \in ((i - l) + 1)..i
      BY <1>1, <1>2
    <3>2. \A k \in ((i - l) + 1)..(i + 1) : q[k] = q[i + 1]
      BY <3>1, <1>1, <1>3, <1>7
    <3> QED
      BY <3>2, <2>1
  <2>3. (i + 1) - (l + 1) >= 1 => q[(i + 1) - (l + 1)] # q[i + 1]
    BY <2>1, <1>1, <1>5, <1>7
  <2> QED
    BY <2>1, <2>2, <2>3 DEF Run
<1> QED
  BY <1>6, <1>7 DEF q, i

LEMMA RunStarts ==
  ASSUME NEW S, NEW p \in Seq(S), NEW c \in S, Len(p) > 0 => c # p[Len(p)]
  PROVE  Run(Append(p, c), Len(p) + 1, 1)
<1> DEFINE q == Append(p, c)
           i == Len(p)
<1>1. Len(q) = i + 1 /\ i \in Nat /\ q[i + 1] = c /\ \A k \in 1..i : q[k] = p[k]
  BY PathAdded
<1> HIDE DEF q
<1>2. \A k \in (((i + 1) - 1) + 1)..(i + 1) : k = i + 1
  BY <1>1
<1>3. (i + 1) - 1 >= 1 => q[(i + 1) - 1] # q[i + 1]
  <2>1. (i + 1) - 1 = i /\ (i >= 1 => i \in 1..i /\ i > 0)
    BY <1>1
  <2> QED
    BY <2>1, <1>1
<1>4. 1 \in 1..(i + 1)
  BY <1>1
<1> QED
  BY <1>2, <1>3, <1>4 DEF Run, q

(* What is known of the row that byte i ends, while rows are collected. *)
Open(p, i, inb, coll, l, prev) ==
  /\ Len(p) = i /\ l \in 0..i /\ prev = (IF i = 0 THEN exec_cksum ELSE p[i])
  /\ prev = exec_cksum => l = 0
  /\ prev # exec_cksum => Run(p, i, l)
  /\ l <= MAX_AUTO_EXTRA => coll = SubSeq(inb, (i - l) + 1, i)
RowsInv ==
  /\ at.stage = "flip1" => /\ paths \in Seq(Cksums)
                           /\ Open(paths, at.i, in_buf, a_collect, a_len, prev_cksum)
                           /\ Full(a_extras, Done(paths, at.i - 1, in_buf, extras))
  /\ at.stage # "flip1" /\ Len(paths) = in_len => Full(a_extras, Done(paths, in_len, in_buf, extras))

LEMMA GatherMore ==
  ASSUME NEW inb \in Seq(Nat), NEW i \in Nat, i + 1 <= Len(inb), NEW l \in 0..i
  PROVE  Append(SubSeq(inb, (i - l) + 1, i), inb[i + 1]) = SubSeq(inb, (i - l) + 1, i + 1)
<1> DEFINE x == (i - l) + 1
           s == SubSeq(inb, x, i)
           e == inb[i + 1]
           a == Append(s, e)
           b == SubSeq(inb, x, i + 1)
<1>1. Len(inb) \in Nat /\ x \in 1..(i + 1) /\ e \in Nat /\ (i - x) + 1 = l
  OBVIOUS
<1>2. (\A k \in x..i : inb[k] \in Nat) /\ (\A k \in x..(i + 1) : inb[k] \in Nat)
  BY <1>1
<1>3. s \in Seq(Nat) /\ Len(s) = l /\ \A k \in 1..l : s[k] = inb[(x + k) - 1]
  <2> HIDE DEF x
  <2> QED
    BY <1>1, <1>2, SubSeqProperties
<1>4. b \in Seq(Nat) /\ Len(b) = l + 1 /\ \A k \in 1..(l + 1) : b[k] = inb[(x + k) - 1]
  <2> HIDE DEF x
  <2> QED
    BY <1>1, <1>2, SubSeqProperties
<1>5. (x + (l + 1)) - 1 = i + 1
  OBVIOUS
<1> HIDE DEF s, e, b, x
<1>6. a \in Seq(Nat) /\ Len(a) = l + 1 /\ a[l + 1] = e /\ \A k \in 1..l : a[k] = s[k]
  BY <1>1, <1>3, AppendProperties, SMTT(60)
<1> HIDE DEF a
<1>7. \A k \in 1..(l + 1) : a[k] = b[k]
  <2>1. \A k \in 1..(l + 1) : k = l + 1 \/ k \in 1..l
    OBVIOUS
  <2>2. b[l + 1] = e
    BY <1>4, <1>5 DEF e
  <2> QED
    BY <2>1, <2>2, <1>3, <1>4, <1>6
<1>8. a = b
  BY <1>4, <1>6, <1>7, SameSeq
<1> QED
  BY <1>8 DEF a, b, s, e, x

LEMMA RowsClosed ==
  ASSUME NEW S, NEW p \in Seq(S), NEW c \in S, NEW inb \in Seq(Nat), NEW i, i <= Len(inb), NEW coll, NEW l, NEW prev,
         Open(p, i, inb, coll, l, prev), NEW ex
  PROVE  Done(Append(p, c), i, inb, ex)
           = With(Done(p, i - 1, inb, ex), c # prev /\ l \in MIN_AUTO_EXTRA..MAX_AUTO_EXTRA, coll, ex)
<1> DEFINE q == Append(p, c)
           W == Done(p, i - 1, inb, ex)
           Within == l \in MIN_AUTO_EXTRA..MAX_AUTO_EXTRA
<1>1. /\ Len(p) = i /\ i \in Nat /\ l \in 0..i /\ prev = (IF i = 0 THEN exec_cksum ELSE p[i])
      /\ MIN_AUTO_EXTRA \in Nat \ {0, 1} /\ MAX_AUTO_EXTRA \in Nat
  BY DictAssumption DEF Open
<1>2. q \in Seq(S) /\ Len(q) = i + 1 /\ q[i + 1] = c /\ \A k \in 1..i : q[k] = p[k]
  BY <1>1, PathAdded
<1>3. Done(q, i - 1, inb, ex) = W
  BY <1>1, DoneBefore
<1> HIDE DEF q, W
<1>4. CASE i = 0
  <2>1. W = {} /\ Done(q, 0, inb, ex) = {}
    BY <1>4 DEF Done, W
  <2>2. ~Within
    BY <1>1, <1>4
  <2> QED
    BY <1>4, <2>1, <2>2 DEF With, W, q
<1>5. CASE i # 0 /\ (c = prev \/ prev = exec_cksum)
  <2>1. i \in Nat \ {0} /\ q[i] = prev /\ i < Len(q)
    BY <1>1, <1>2, <1>5
  <2>2. q[i] = exec_cksum \/ (i < Len(q) /\ q[i + 1] = q[i])
    BY <2>1, <1>2, <1>5
  <2>3. \A mem \in Seq(Nat) : Fresh(mem, ex) => ~RowEnds(mem, q, i, inb)
    BY <2>1, <2>2, NoPathNoRow
  <2>4. Done(q, i, inb, ex) = W
    BY <2>1, <2>3, <1>3, DoneWithout
  <2>5. ~(c # prev /\ Within)
    <3>1. CASE c = prev
      BY <3>1
    <3>2. CASE prev = exec_cksum
      <4>1. l = 0
        BY <3>2 DEF Open
      <4> QED
        BY <4>1, <1>1
    <3> QED
      BY <3>1, <3>2, <1>5
  <2> QED
    BY <2>4, <2>5 DEF With, W, q
<1>6. CASE i # 0 /\ c # prev /\ prev # exec_cksum
  <2>1. i \in Nat \ {0} /\ q[i] = prev /\ (i < Len(q) => q[i + 1] # q[i])
    BY <1>1, <1>2, <1>6
  <2>2. Run(p, i, l)
    BY <1>6 DEF Open
  <2>3. Run(q, i, l)
    BY <2>2, <1>1, RunStays DEF q
  <2>4. Done(q, i, inb, ex) = With(Done(q, i - 1, inb, ex), Within, SubSeq(inb, (i - l) + 1, i), ex)
    <3>1. q[i] # exec_cksum
      BY <2>1, <1>6
    <3> QED
      BY <2>1, <2>3, <3>1, DoneWith, SMTT(60)
  <2>5. Within => coll = SubSeq(inb, (i - l) + 1, i)
    BY <1>1 DEF Open
  <2> HIDE DEF Within
  <2>6. With(W, Within, SubSeq(inb, (i - l) + 1, i), ex) = With(W, c # prev /\ Within, coll, ex)
    BY <2>5, <1>6, Zenon DEF With
  <2>7. Done(q, i, inb, ex) = With(W, c # prev /\ Within, coll, ex)
    BY <2>4, <2>6, <1>3, Zenon
  <2> QED
    BY <2>7 DEF W, q, Within
<1> QED
  BY <1>4, <1>5, <1>6

Began == [data |-> <<>>, n |-> 0]
Gathered(coll, l) == [data |-> coll, n |-> l]
NextRow(c, prev, coll, l, byte) ==
  LET mid == IF c # prev THEN Began ELSE Gathered(coll, l)
  IN IF c # exec_cksum THEN Collected(mid, byte) ELSE mid

LEMMA MoreGathered ==
  ASSUME NEW inb \in Seq(Nat), NEW i \in Nat, i + 1 <= Len(inb), NEW l \in 0..i, NEW coll,
         l <= MAX_AUTO_EXTRA => coll = SubSeq(inb, (i - l) + 1, i)
  PROVE  /\ Collected(Gathered(coll, l), inb[i + 1]).n = l + 1
         /\ l + 1 <= MAX_AUTO_EXTRA => Collected(Gathered(coll, l), inb[i + 1]).data = SubSeq(inb, (i - l) + 1, i + 1)
<1> DEFINE byte == inb[i + 1]
<1>1. Collected(Gathered(coll, l), byte).n = l + 1
  BY DEF Collected, Gathered
<1>2. ASSUME l + 1 <= MAX_AUTO_EXTRA PROVE Collected(Gathered(coll, l), byte).data = SubSeq(inb, (i - l) + 1, i + 1)
  <2>1. l < MAX_AUTO_EXTRA /\ l <= MAX_AUTO_EXTRA
    BY <1>2, DictAssumption
  <2>2. coll = SubSeq(inb, (i - l) + 1, i)
    BY <2>1
  <2>3. Append(coll, byte) = SubSeq(inb, (i - l) + 1, i + 1)
    BY <2>2, GatherMore, Zenon
  <2>4. Collected(Gathered(coll, l), byte).data = Append(coll, byte)
    BY <2>1 DEF Collected, Gathered
  <2> QED
    BY <2>3, <2>4, Zenon
<1> QED
  BY <1>1, <1>2

(* The row of m bytes that ends at e is the last of those found. *)
LastRow(q, e, inb, ex, m) ==
  Done(q, e, inb, ex)
    = With(Done(q, e - 1, inb, ex), m \in MIN_AUTO_EXTRA..MAX_AUTO_EXTRA, SubSeq(inb, (e - m) + 1, e), ex)

LEMMA NextDone ==
  ASSUME NEW q, NEW e \in Nat \ {0}, NEW inb \in Seq(Nat), e <= Len(inb), NEW ex, NEW m, Run(q, e, m),
         q[e] # exec_cksum, Len(q) = e
  PROVE  LastRow(q, e, inb, ex, m)
<1>1. e < Len(q) => q[e + 1] # q[e]
  OBVIOUS
<1> QED
  BY <1>1, DoneWith, SMTT(60) DEF LastRow

LEMMA RowsAtEnd ==
  ASSUME NEW S, NEW p \in Seq(S), NEW c \in S, NEW inb \in Seq(Nat), NEW i \in Nat, i + 1 <= Len(inb), NEW coll, NEW l, NEW prev,
         Open(p, i, inb, coll, l, prev), NEW ex
  PROVE  LET mid == Collected(Gathered(coll, l), inb[i + 1])
         IN Done(Append(p, c), i + 1, inb, ex)
              = With(Done(Append(p, c), i, inb, ex), c = prev /\ mid.n \in MIN_AUTO_EXTRA..MAX_AUTO_EXTRA, mid.data, ex)
<1> DEFINE q == Append(p, c)
           mid == Collected(Gathered(coll, l), inb[i + 1])
           W == Done(q, i, inb, ex)
           Within == mid.n \in MIN_AUTO_EXTRA..MAX_AUTO_EXTRA
           t == SubSeq(inb, (i - l) + 1, i + 1)
<1>1. /\ Len(p) = i /\ l \in 0..i /\ prev = (IF i = 0 THEN exec_cksum ELSE p[i])
      /\ MIN_AUTO_EXTRA \in Nat \ {0, 1} /\ MAX_AUTO_EXTRA \in Nat
  BY DictAssumption DEF Open
<1>2. q \in Seq(S) /\ Len(q) = i + 1 /\ q[i + 1] = c /\ \A k \in 1..i : q[k] = p[k]
  BY <1>1, PathAdded
<1>3. mid.n = l + 1 /\ (l + 1 <= MAX_AUTO_EXTRA => mid.data = t)
  BY <1>1, MoreGathered, SMTT(60) DEF Open
<1>4. i + 1 \in Nat \ {0} /\ (i + 1) - 1 = i
  OBVIOUS
<1> HIDE DEF q, mid, t
<1>5. CASE c = exec_cksum
  <2>1. \A mem \in Seq(Nat) : Fresh(mem, ex) => ~RowEnds(mem, q, i + 1, inb)
    BY <1>2, <1>4, <1>5, NoPathNoRow
  <2>2. Done(q, i + 1, inb, ex) = Done(q, (i + 1) - 1, inb, ex)
    BY <2>1, <1>4, DoneWithout
  <2>3. ~(c = prev /\ Within)
    <3>1. c = prev => l = 0
      BY <1>5 DEF Open
    <3>2. l = 0 => ~Within
      BY <1>1, <1>3
    <3> QED
      BY <3>1, <3>2
  <2>4. Done(q, i + 1, inb, ex) = W
    BY <2>2, <1>4
  <2> QED
    BY <2>3, <2>4 DEF With, q, mid
<1>6. CASE c # exec_cksum /\ c = prev
  <2>1. i # 0 /\ c = p[i] /\ Run(p, i, l)
    BY <1>1, <1>6 DEF Open
  <2>2. Run(q, i + 1, l + 1)
    BY <2>1, <1>1, RunStays DEF q
  <2>3. q[i + 1] # exec_cksum /\ (i + 1 < Len(q) => q[(i + 1) + 1] # q[i + 1])
    BY <1>2, <1>6
  <2>4. Done(q, i + 1, inb, ex)
          = With(Done(q, (i + 1) - 1, inb, ex), l + 1 \in MIN_AUTO_EXTRA..MAX_AUTO_EXTRA,
                 SubSeq(inb, ((i + 1) - (l + 1)) + 1, i + 1), ex)
    <3> DEFINE e == i + 1
               m == l + 1
    <3>1. e \in Nat \ {0} /\ e <= Len(inb) /\ Run(q, e, m) /\ q[e] # exec_cksum /\ Len(q) = e
      BY <2>2, <2>3, <1>2, <1>4
    <3> HIDE DEF e, m
    <3>2. LastRow(q, e, inb, ex, m)
      BY <3>1, NextDone
    <3> QED
      BY <3>2, Zenon DEF LastRow, e, m
  <2>5. ((i + 1) - (l + 1)) + 1 = (i - l) + 1
    BY <1>1
  <2>6. Done(q, i + 1, inb, ex) = With(W, l + 1 \in MIN_AUTO_EXTRA..MAX_AUTO_EXTRA, t, ex)
    BY <2>4, <2>5, <1>4 DEF t
  <2>7. (l + 1 \in MIN_AUTO_EXTRA..MAX_AUTO_EXTRA) = Within /\ (Within => mid.data = t)
    BY <1>1, <1>3
  <2> HIDE DEF W, Within
  <2>8. With(W, l + 1 \in MIN_AUTO_EXTRA..MAX_AUTO_EXTRA, t, ex) = With(W, c = prev /\ Within, mid.data, ex)
    BY <2>7, <1>6 DEF With
  <2> QED
    BY <2>6, <2>8, Zenon DEF q, mid, W, Within
<1>7. CASE c # exec_cksum /\ c # prev
  <2>1. Len(p) > 0 => c # p[Len(p)]
    BY <1>1, <1>7
  <2>2. Run(q, i + 1, 1)
    BY <2>1, <1>1, RunStarts DEF q
  <2>3. q[i + 1] # exec_cksum /\ (i + 1 < Len(q) => q[(i + 1) + 1] # q[i + 1])
    BY <1>2, <1>7
  <2> DEFINE m == 1
  <2>4. Run(q, i + 1, m) /\ ~(m \in MIN_AUTO_EXTRA..MAX_AUTO_EXTRA)
    BY <2>2, <1>1
  <2> HIDE DEF m
  <2>5. Done(q, i + 1, inb, ex)
          = With(Done(q, (i + 1) - 1, inb, ex), m \in MIN_AUTO_EXTRA..MAX_AUTO_EXTRA, SubSeq(inb, ((i + 1) - m) + 1, i + 1), ex)
    <3> DEFINE e == i + 1
    <3>1. e \in Nat \ {0} /\ e <= Len(inb) /\ Run(q, e, m) /\ q[e] # exec_cksum /\ Len(q) = e
      BY <2>3, <2>4, <1>2, <1>4
    <3> HIDE DEF e
    <3>2. LastRow(q, e, inb, ex, m)
      BY <3>1, NextDone
    <3> QED
      BY <3>2, Zenon DEF LastRow, e
  <2>6. Done(q, i + 1, inb, ex) = W
    BY <2>4, <2>5, <1>4, Zenon DEF With
  <2> QED
    BY <2>6, <1>7 DEF With, q, mid
<1> QED
  BY <1>5, <1>6, <1>7

LEMMA OpenNext ==
  ASSUME NEW S, NEW p \in Seq(S), NEW c \in S, NEW inb \in Seq(Nat), NEW i \in Nat, i + 1 <= Len(inb), NEW coll, NEW l, NEW prev,
         Open(p, i, inb, coll, l, prev)
  PROVE  LET new == NextRow(c, prev, coll, l, inb[i + 1]) IN Open(Append(p, c), i + 1, inb, new.data, new.n, c)
<1> DEFINE q == Append(p, c)
           mid == IF c # prev THEN Began ELSE Gathered(coll, l)
           new == NextRow(c, prev, coll, l, inb[i + 1])
<1>1. /\ Len(p) = i /\ l \in 0..i /\ prev = (IF i = 0 THEN exec_cksum ELSE p[i])
      /\ (l <= MAX_AUTO_EXTRA => coll = SubSeq(inb, (i - l) + 1, i)) /\ MAX_AUTO_EXTRA \in Nat
  BY DictAssumption DEF Open
<1>2. Len(q) = i + 1 /\ q[i + 1] = c
  BY <1>1, PathAdded
<1>3. SubSeq(inb, (i - 0) + 1, i) = <<>> /\ SubSeq(inb, ((i + 1) - 0) + 1, i + 1) = <<>>
  OBVIOUS
<1> HIDE DEF q
<1>4. CASE c = exec_cksum
  <2>1. new = mid
    BY <1>4 DEF NextRow
  <2>2. mid.n = 0 /\ mid.data = <<>>
    <3>1. CASE c # prev
      BY <3>1 DEF Began
    <3>2. CASE c = prev
      <4>1. l = 0
        BY <3>2, <1>4 DEF Open
      <4>2. coll = <<>>
        BY <4>1, <1>1, <1>3
      <4> QED
        BY <4>1, <4>2, <3>2 DEF Gathered
    <3> QED
      BY <3>1, <3>2
  <2>3. new.n = 0 /\ new.data = <<>>
    BY <2>1, <2>2
  <2> HIDE DEF new
  <2>4. 0 \in 0..(i + 1) /\ i + 1 # 0
    OBVIOUS
  <2>5. Open(q, i + 1, inb, new.data, new.n, c)
    BY <2>3, <2>4, <1>2, <1>3, <1>4 DEF Open
  <2> QED
    BY <2>5 DEF q, new
<1>5. CASE c # exec_cksum /\ c = prev
  <2>1. new = Collected(Gathered(coll, l), inb[i + 1])
    BY <1>5 DEF NextRow
  <2>2. new.n = l + 1 /\ (l + 1 <= MAX_AUTO_EXTRA => new.data = SubSeq(inb, (i - l) + 1, i + 1))
    <3> DEFINE g == Collected(Gathered(coll, l), inb[i + 1])
    <3>1. g.n = l + 1 /\ (l + 1 <= MAX_AUTO_EXTRA => g.data = SubSeq(inb, (i - l) + 1, i + 1))
      BY <1>1, MoreGathered
    <3> HIDE DEF g, new
    <3>2. new = g
      BY <2>1 DEF g
    <3> QED
      BY <3>1, <3>2
  <2> HIDE DEF new
  <2>3. i # 0 /\ c = p[i] /\ Run(p, i, l)
    BY <1>1, <1>5 DEF Open
  <2>4. Run(q, i + 1, l + 1)
    BY <2>3, <1>1, RunStays DEF q
  <2>5. l + 1 \in 0..(i + 1) /\ i + 1 # 0 /\ ((i + 1) - (l + 1)) + 1 = (i - l) + 1
    BY <1>1
  <2>6. Open(q, i + 1, inb, new.data, new.n, c)
    BY <2>2, <2>4, <2>5, <1>2, <1>5 DEF Open
  <2> QED
    BY <2>6 DEF q, new
<1>6. CASE c # exec_cksum /\ c # prev
  <2>1. new = Collected(Gathered(<<>>, 0), inb[i + 1])
    BY <1>6 DEF NextRow, Began, Gathered
  <2>2. new.n = 0 + 1 /\ (0 + 1 <= MAX_AUTO_EXTRA => new.data = SubSeq(inb, (i - 0) + 1, i + 1))
    <3> DEFINE g == Collected(Gathered(<<>>, 0), inb[i + 1])
    <3>1. 0 \in 0..i /\ <<>> = SubSeq(inb, (i - 0) + 1, i)
      BY <1>3
    <3>2. g.n = 0 + 1 /\ (0 + 1 <= MAX_AUTO_EXTRA => g.data = SubSeq(inb, (i - 0) + 1, i + 1))
      BY <3>1, MoreGathered, ZenonT(60)
    <3> HIDE DEF g, new
    <3>3. new = g
      BY <2>1 DEF g
    <3> QED
      BY <3>2, <3>3
  <2> HIDE DEF new
  <2>3. Len(p) > 0 => c # p[Len(p)]
    BY <1>1, <1>6
  <2>4. Run(q, i + 1, 1)
    BY <2>3, <1>1, RunStarts DEF q
  <2>5. 1 \in 0..(i + 1) /\ i + 1 # 0 /\ ((i + 1) - 1) + 1 = (i - 0) + 1
    OBVIOUS
  <2>6. Open(q, i + 1, inb, new.data, new.n, c)
    BY <2>2, <2>4, <2>5, <1>2, <1>6 DEF Open
  <2> QED
    BY <2>6 DEF q, new
<1> QED
  BY <1>4, <1>5, <1>6

LEMMA CollectFull ==
  ASSUME a_extras \in Seq(Hits), NEW W, Full(a_extras, W), NEW c, c.data \in Seq(Nat), NEW a \in Collect(c)
  PROVE  Full(a, With(W, c.n \in MIN_AUTO_EXTRA..MAX_AUTO_EXTRA, c.data, extras))
<1> DEFINE d == c.data
           Within == c.n \in MIN_AUTO_EXTRA..MAX_AUTO_EXTRA
<1>1. CASE Within
  <2>1. a \in maybe_add_auto(a_extras, d)
    BY <1>1 DEF Collect, Worthwhile
  <2>2. d \in Seq(Nat)
    OBVIOUS
  <2> HIDE DEF d, Within
  <2>3. Full(a, IF Fresh(d, extras) THEN W \cup {d} ELSE W)
    BY <2>1, <2>2, AddFull
  <2>4. With(W, Within, d, extras) = IF Fresh(d, extras) THEN W \cup {d} ELSE W
    BY <1>1 DEF With
  <2>5. Full(a, With(W, Within, d, extras))
    BY <2>3, <2>4, Zenon
  <2> QED
    BY <2>5, Zenon DEF d, Within
<1>2. CASE ~Within
  <2>1. a = a_extras
    BY <1>2 DEF Collect, Worthwhile
  <2>2. With(W, Within, d, extras) = W
    BY <1>2 DEF With
  <2> HIDE DEF d, Within
  <2>3. Full(a, With(W, Within, d, extras))
    BY <2>1, <2>2, Zenon
  <2> QED
    BY <2>3, Zenon DEF d, Within
<1> QED
  BY <1>1, <1>2

LEMMA NothingWith == ASSUME NEW W, NEW ok, ~ok, NEW mem, NEW ex PROVE With(W, ok, mem, ex) = W
  BY DEF With

LEMMA FlipRows == DictInv /\ RowsInv /\ FlipLastBit => RowsInv'
<1> SUFFICES ASSUME DictInv, RowsInv, FlipLastBit PROVE RowsInv'
  OBVIOUS
<1> DEFINE i == at.i
           byte == in_buf[i + 1]
           old == Gathered(a_collect, a_len)
           full == Collected(old, byte)
           W == Done(paths, i - 1, in_buf, extras)
<1>1. /\ in_buf \in Seq(Nat) /\ in_buf # <<>> /\ i \in 0..(in_len - 1) /\ out_buf = in_buf /\ a_collect \in Seq(Nat)
      /\ a_extras \in Seq(Hits)
  BY OneTokenMeans DEF DictInv, AutoOK
<1>2. at.stage = "flip1" /\ NextPosition("flip1", "user_over") /\ in_buf' = in_buf /\ extras' = extras
  BY DEF FlipLastBit
<1>3. i \in Nat /\ in_len \in Nat /\ Len(in_buf) = in_len /\ i + 1 <= Len(in_buf) /\ i <= Len(in_buf) /\ in_len' = in_len
  BY <1>1, <1>2 DEF in_len
<1>4. paths \in Seq(Cksums) /\ Open(paths, i, in_buf, a_collect, a_len, prev_cksum) /\ Full(a_extras, W)
  BY <1>2 DEF RowsInv
<1> DEFINE L(cksum) == i = in_len - 1 /\ cksum = prev_cksum
           M(cksum) == IF L(cksum) THEN full ELSE IF cksum # prev_cksum THEN Began ELSE old
           N(cksum) == IF cksum # exec_cksum THEN Collected(M(cksum), byte) ELSE M(cksum)
<1>5. PICK c \in Cksums :
        /\ a_extras' \in IF L(c) THEN Collect(M(c)) ELSE IF c # prev_cksum THEN Collect(old) ELSE {a_extras}
        /\ a_collect' = N(c).data /\ a_len' = N(c).n
        /\ prev_cksum' = IF L(c) THEN prev_cksum ELSE c
        /\ paths' = Append(paths, c)
  BY <1>1 DEF FlipLastBit, Gathered, Began
<1>6. byte \in Nat
  BY <1>1, <1>3, SMTT(60)
<1>7. old.data = a_collect /\ old.n = a_len /\ full.data \in Seq(Nat)
  BY <1>1, <1>6, CollectedBytes DEF Gathered
<1> DEFINE Within(k) == k \in MIN_AUTO_EXTRA..MAX_AUTO_EXTRA
           q == Append(paths, c)
           V == Done(q, i, in_buf, extras)
<1>8. V = With(W, c # prev_cksum /\ Within(a_len), a_collect, extras)
  BY <1>1, <1>3, <1>4, RowsClosed, SMTT(60)
<1>9. Done(q, i + 1, in_buf, extras) = With(V, c = prev_cksum /\ Within(full.n), full.data, extras)
  BY <1>1, <1>3, <1>4, RowsAtEnd, SMTT(60)
<1>10. q \in Seq(Cksums) /\ Len(q) = i + 1
  <2>1. Len(paths) = i
    BY <1>4 DEF Open
  <2> QED
    BY <2>1, <1>4, PathAdded
<1> HIDE DEF q, V, W, old, full, byte, Within
<1>11. ASSUME c # prev_cksum PROVE Full(a_extras', V)
  <2>1. a_extras' \in Collect(old)
    BY <1>5, <1>11
  <2>2. old.data \in Seq(Nat)
    BY <1>1, <1>7
  <2>3. Full(a_extras', With(W, old.n \in MIN_AUTO_EXTRA..MAX_AUTO_EXTRA, old.data, extras))
    BY <2>1, <2>2, <1>1, <1>4, CollectFull
  <2>4. Full(a_extras', With(W, Within(a_len), a_collect, extras))
    BY <2>3, <1>7, Zenon DEF Within
  <2>5. With(W, c # prev_cksum /\ Within(a_len), a_collect, extras) = With(W, Within(a_len), a_collect, extras)
    BY <1>11 DEF With
  <2> QED
    BY <2>4, <2>5, <1>8, Zenon
<1>12. ASSUME c = prev_cksum PROVE V = W
  BY <1>8, <1>12, NothingWith, Zenon
<1>13. CASE i # in_len - 1
  <2>1. at'.stage = "flip1" /\ at'.i = i + 1
    BY <1>2, <1>13 DEF NextPosition
  <2>2. ~L(c)
    BY <1>13
  <2>3. Full(a_extras', V)
    <3>1. CASE c = prev_cksum
      <4>1. a_extras' = a_extras
        BY <2>2, <3>1, <1>5
      <4> QED
        BY <4>1, <3>1, <1>4, <1>12, Zenon
    <3> QED
      BY <3>1, <1>11
  <2> DEFINE new == NextRow(c, prev_cksum, a_collect, a_len, byte)
  <2>4. Open(q, i + 1, in_buf, new.data, new.n, c)
    BY <1>1, <1>3, <1>4, OpenNext DEF q, byte
  <2>5. N(c) = new
    BY <2>2 DEF NextRow, old
  <2> HIDE DEF new, N
  <2>6. a_collect' = new.data /\ a_len' = new.n /\ prev_cksum' = c /\ paths' = q
    BY <2>2, <2>5, <1>5 DEF q
  <2>7. (i + 1) - 1 = i
    BY <1>3
  <2>8. Open(paths', at'.i, in_buf', a_collect', a_len', prev_cksum')
    BY <2>1, <2>4, <2>6, <1>2, Zenon
  <2>9. Full(a_extras', Done(paths', at'.i - 1, in_buf', extras'))
    <3>1. Done(paths', at'.i - 1, in_buf', extras') = V
      BY <2>1, <2>6, <2>7, <1>2, Zenon DEF V
    <3> QED
      BY <3>1, <2>3, Zenon
  <2>10. paths' \in Seq(Cksums)
    BY <2>6, <1>10, Zenon
  <2> QED
    BY <2>1, <2>8, <2>9, <2>10 DEF RowsInv
<1>14. CASE i = in_len - 1
  <2>1. at'.stage = "user_over" /\ at'.i = 0
    BY <1>2, <1>14 DEF NextPosition
  <2> DEFINE T == Done(q, i + 1, in_buf, extras)
  <2>2. Full(a_extras', T)
    <3>1. CASE c = prev_cksum
      <4>1. a_extras' \in Collect(full)
        <5>1. L(c) /\ M(c) = full
          BY <3>1, <1>14
        <5> HIDE DEF L, M
        <5> QED
          BY <5>1, <1>5
      <4>2. Full(a_extras', With(W, full.n \in MIN_AUTO_EXTRA..MAX_AUTO_EXTRA, full.data, extras))
        BY <4>1, <1>1, <1>4, <1>7, CollectFull
      <4>3. Full(a_extras', With(W, Within(full.n), full.data, extras))
        BY <4>2, Zenon DEF Within
      <4>4. With(V, c = prev_cksum /\ Within(full.n), full.data, extras) = With(V, Within(full.n), full.data, extras)
        BY <3>1 DEF With
      <4>5. T = With(W, Within(full.n), full.data, extras)
        BY <4>4, <3>1, <1>9, <1>12, Zenon
      <4> HIDE DEF T
      <4> QED
        BY <4>3, <4>5, Zenon
    <3>2. CASE c # prev_cksum
      <4>1. T = V
        BY <3>2, <1>9, NothingWith, Zenon
      <4> HIDE DEF T
      <4> QED
        BY <4>1, <3>2, <1>11, Zenon
    <3> QED
      BY <3>1, <3>2
  <2>3. i + 1 = in_len' /\ paths' = q
    BY <1>3, <1>5, <1>14 DEF q
  <2>4. Done(paths', in_len', in_buf', extras') = T
    BY <2>3, <1>2, Zenon
  <2> HIDE DEF T
  <2>5. Full(a_extras', Done(paths', in_len', in_buf', extras'))
    BY <2>2, <2>4, Zenon
  <2> QED
    BY <2>1, <2>5 DEF RowsInv
<1> QED
  BY <1>13, <1>14

LEMMA OtherRows ==
  ASSUME DictInv, Forget, UNCHANGED Rest, at'.stage # "flip1"
  PROVE  RowsInv'
<1>1. Len(in_buf) \in Nat \ {0} /\ in_buf' = in_buf /\ paths' = <<>>
  BY DEF DictInv, Rest, Forget
<1>2. Len(paths') = 0 /\ in_len' # 0
  BY <1>1 DEF in_len
<1> QED
  BY <1>2 DEF RowsInv

LEMMA InitRows == DictInit => RowsInv
<1> SUFFICES ASSUME DictInit PROVE RowsInv
  OBVIOUS
<1>1. at.stage = "flip1" /\ at.i = 0 /\ a_extras = <<>> /\ a_collect = <<>> /\ a_len = 0 /\ prev_cksum = exec_cksum /\ paths = <<>>
  BY DEF DictInit
<1>2. Len(paths) = 0 /\ paths \in Seq(Cksums)
  BY <1>1
<1>3. SubSeq(in_buf, (0 - 0) + 1, 0) = <<>>
  <2>1. in_buf \in Seq(Nat)
    BY DictAssumption DEF DictInit
  <2> QED
    BY <2>1
<1>4. Open(paths, 0, in_buf, <<>>, 0, exec_cksum)
  BY <1>2, <1>3 DEF Open
<1>5. Done(paths, 0 - 1, in_buf, extras) = {}
  BY DEF Done
<1>6. Full(<<>>, {})
  <2>1. IsFiniteSet({}) /\ MAX_AUTO_EXTRAS \in Nat
    BY FS_EmptySet, DictAssumption
  <2> QED
    BY <2>1 DEF Full, DataOf, Distinct
<1> QED
  BY <1>1, <1>2, <1>4, <1>5, <1>6 DEF RowsInv

(* The rows of a whole file. *)
LEMMA TokensDone ==
  ASSUME in_buf \in Seq(Nat), Len(paths) = in_len
  PROVE  Tokens = Done(paths, in_len, in_buf, extras)
<1>1. in_len \in Nat /\ Len(in_buf) = in_len /\ MIN_AUTO_EXTRA \in Nat \ {0, 1} /\ MAX_AUTO_EXTRA \in Nat
  BY DictAssumption DEF in_len
<1>2. ASSUME NEW a \in 1..in_len, NEW b \in 1..in_len
      PROVE  <<a, b>> \in Rows <=> a \in 1..b /\ IsRow(paths, a, b) /\ (b < Len(paths) => paths[b + 1] # paths[a])
  <2>1. (b - a) + 1 \in MIN_AUTO_EXTRA..MAX_AUTO_EXTRA => a \in 1..b
    BY <1>1
  <2> QED
    BY <2>1 DEF Rows, IsRow
<1>3. \A x \in Rows : \E a, b \in 1..in_len : x = <<a, b>>
  BY DEF Rows
<1>4. ASSUME NEW mem \in Tokens PROVE mem \in Done(paths, in_len, in_buf, extras)
  <2>1. Fresh(mem, extras)
    BY DEF Tokens, Fresh
  <2>2. PICK x \in Rows : mem = SubSeq(in_buf, x[1], x[2])
    BY DEF Tokens
  <2>3. PICK a \in 1..in_len : \E b \in 1..in_len : x = <<a, b>>
    BY <1>3
  <2>4. PICK b \in 1..in_len : x = <<a, b>>
    BY <2>3
  <2>5. a \in 1..b /\ IsRow(paths, a, b) /\ (b < Len(paths) => paths[b + 1] # paths[a])
    BY <2>4, <1>2, Zenon
  <2>6. mem = SubSeq(in_buf, a, b)
    BY <2>2, <2>4
  <2>7. mem \in Seq(Nat)
    <3>1. \A k \in a..b : in_buf[k] \in Nat
      BY <1>1
    <3> QED
      BY <3>1, <2>6, SubSeqProperties
  <2>8. RowEnds(mem, paths, b, in_buf)
    BY <2>5, <2>6, Zenon DEF RowEnds
  <2> QED
    BY <2>1, <2>7, <2>8 DEF Done
<1>5. ASSUME NEW mem \in Done(paths, in_len, in_buf, extras) PROVE mem \in Tokens
  <2>1. Fresh(mem, extras)
    BY DEF Done
  <2>2. PICK b \in 1..in_len : RowEnds(mem, paths, b, in_buf)
    BY DEF Done
  <2>3. PICK a \in 1..b : IsRow(paths, a, b) /\ (b < Len(paths) => paths[b + 1] # paths[a]) /\ mem = SubSeq(in_buf, a, b)
    BY <2>2 DEF RowEnds
  <2>4. a \in 1..in_len
    BY <1>1
  <2>5. <<a, b>> \in Rows
    BY <2>3, <2>4, <1>2, Zenon
  <2>6. mem \in {SubSeq(in_buf, ij[1], ij[2]) : ij \in Rows}
    <3>1. SubSeq(in_buf, <<a, b>>[1], <<a, b>>[2]) \in {SubSeq(in_buf, ij[1], ij[2]) : ij \in Rows}
      BY <2>5, Zenon
    <3>2. <<a, b>>[1] = a /\ <<a, b>>[2] = b
      OBVIOUS
    <3> QED
      BY <3>1, <3>2, <2>3, Zenon
  <2> QED
    BY <2>1, <2>6 DEF Tokens, Fresh
<1> QED
  BY <1>4, <1>5

(* The tokens that afl-fuzz finds while it inverts the last bits of an input *)
(* are exactly the rows of bytes with one new path, and all of them while    *)
(* there is room, for every input, every target and every size of token and  *)
(* of dictionary: the run-length bookkeeping of the stage is right at its    *)
(* borders.                                                                  *)
THEOREM RowsFound == DictSpec => []TokensAreRows
<1>1. DictInv /\ RowsInv /\ [DictNext]_dictVars => DictInv' /\ RowsInv'
  <2> SUFFICES ASSUME DictInv, RowsInv, [DictNext]_dictVars PROVE DictInv' /\ RowsInv'
    OBVIOUS
  <2>1. DictInv'
    BY DictStep
  <2>2. CASE UNCHANGED dictVars
    <3>1. RowsInv'
      BY <2>2 DEF dictVars, RowsInv, in_len
    <3> QED
      BY <2>1, <3>1
  <2>3. CASE FlipLastBit
    BY <2>1, <2>3, FlipRows
  <2>4. CASE UserOver
    <3>1. at'.stage \in {"user_over", "user_insert"}
      BY <2>4 DEF UserOver, NextPosition
    <3> QED
      BY <2>1, <2>4, <3>1, OtherRows DEF UserOver
  <2>5. CASE UserInsert
    <3>1. at'.stage \in {"user_insert", "auto_over"}
      BY <2>5 DEF UserInsert, NextPosition
    <3> QED
      BY <2>1, <2>5, <3>1, OtherRows DEF UserInsert
  <2>6. CASE NoExtras
    BY <2>1, <2>6, OtherRows DEF NoExtras
  <2>7. CASE AutoOver
    <3>1. at'.stage \in {"auto_over", "havoc"}
      BY <2>7 DEF AutoOver, NextPosition
    <3> QED
      BY <2>1, <2>7, <3>1, OtherRows DEF AutoOver
  <2>8. CASE LeaveDict
    BY <2>1, <2>8, OtherRows DEF LeaveDict
  <2> QED
    BY <2>2, <2>3, <2>4, <2>5, <2>6, <2>7, <2>8 DEF DictNext
<1>2. DictInv /\ RowsInv => TokensAreRows
  <2> SUFFICES ASSUME DictInv, RowsInv, Len(paths) = in_len
               PROVE  /\ \A k \in DOMAIN a_extras : a_extras[k].data \in Tokens
                      /\ Cardinality(Tokens) <= MAX_AUTO_EXTRAS =>
                           \A mem \in Tokens : \E k \in DOMAIN a_extras : SameToken(a_extras[k].data, mem)
    BY DEF TokensAreRows
  <2>1. at.stage # "flip1"
    <3>1. at.stage = "flip1" => Len(paths) = at.i
      BY DEF RowsInv, Open
    <3>2. at.i # in_len
      BY DEF DictInv, in_len
    <3> QED
      BY <3>1, <3>2
  <2>2. Tokens = Done(paths, in_len, in_buf, extras)
    BY TokensDone DEF DictInv
  <2>3. Full(a_extras, Tokens)
    BY <2>1, <2>2 DEF RowsInv
  <2>4. DOMAIN a_extras = 1..Len(a_extras)
    BY DEF DictInv, AutoOK
  <2> QED
    BY <2>3, <2>4 DEF Full, DataOf
<1> QED
  BY <1>1, <1>2, InitKeeps, InitRows, PTL DEF DictSpec
=============================================================================
