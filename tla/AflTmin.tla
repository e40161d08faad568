------------------------------ MODULE AflTmin ------------------------------
(***************************************************************************)
(* afl-tmin (afl-tmin.c): a file that makes the compiler crash, or take a  *)
(* certain path, is made smaller as long as it still does.  The target is  *)
(* deterministic: what it did with a file once it does again.  A file is a *)
(* sequence of bytes, of which 0 stands for '0'.                           *)
(***************************************************************************)
EXTENDS Integers, Sequences, FiniteSets

CONSTANTS Files,               \* the files to minimize
          TMIN_SET_STEPS, TMIN_SET_MIN_SIZE, TRIM_START_STEPS

ASSUME TminAssumption ==
  /\ {TMIN_SET_STEPS, TMIN_SET_MIN_SIZE, TRIM_START_STEPS} \subseteq Nat \ {0}
  /\ Files \subseteq Seq(0..255) \ {<<>>}

VARIABLES stage, in_data,
          block,        \* set_len, del_len
          pos,          \* set_pos, del_pos, or the index i of the later stages
          prev_del, changed_any, cur_pass, crash_mode,
          known,        \* ghost: the files the target was run on, and whether they were kept
          orig_len

tminVars == <<stage, in_data, block, pos, prev_del, changed_any, cur_pass, crash_mode, known, orig_len>>

in_len == Len(in_data)
Smaller(a, b) == IF a < b THEN a ELSE b
pow2[k \in Nat] == IF k = 0 THEN 1 ELSE 2 * pow2[k - 1]
next_p2(v) == pow2[CHOOSE k \in 0..v : pow2[k] >= v /\ \A j \in 0..(k - 1) : pow2[j] < v]

(* What a run shows: a hang, a crash, the path of the first run or another. *)
Behaviours == {"hang", "crash", "same", "other"}
Keep(b) == IF b = "crash" THEN crash_mode ELSE ~crash_mode /\ b = "same"
(* run_target on the file t returns res. *)
run_target(t, res) ==
  /\ \E b \in Behaviours : res = Keep(b)
  /\ t \in DOMAIN known => res = known[t]
  /\ known' = [u \in DOMAIN known \cup {t} |-> IF u = t THEN res ELSE known[u]]

TminInit ==
  /\ stage = "dryRun" /\ in_data \in Files /\ orig_len = Len(in_data)
  /\ block = 0 /\ pos = 0 /\ prev_del = FALSE
  /\ changed_any = FALSE /\ cur_pass = 0 /\ crash_mode = FALSE /\ known = <<>>

(* main: a file that times out is refused, and one whose run leaves no trace *)
(* although it ends normally (anything_set).                                *)
DryRun ==
  /\ stage = "dryRun"
  /\ \E b \in {"hang", "traceless", "crash", "same"} :
       /\ stage' = IF b \in {"hang", "traceless"} THEN "fatal" ELSE "normalize"
       /\ crash_mode' = (b = "crash")
  /\ known' = [u \in {in_data} |-> TRUE]
  /\ pos' = 0
  /\ LET steps == next_p2(in_len \div TMIN_SET_STEPS)
     IN block' = IF steps < TMIN_SET_MIN_SIZE THEN TMIN_SET_MIN_SIZE ELSE steps
  /\ UNCHANGED <<in_data, prev_del, changed_any, cur_pass, orig_len>>

-----------------------------------------------------------------------------
(* The result of a trial: t replaces the file if it is kept. *)
Trial(t) ==
  \E res \in BOOLEAN : /\ run_target(t, res)
                       /\ in_data' = IF res THEN t ELSE in_data
                       /\ changed_any' = (changed_any \/ res)
NoTrial == UNCHANGED <<in_data, changed_any, known>>

Zeroed(Test(_)) == [i \in DOMAIN in_data |-> IF Test(i) THEN 0 ELSE in_data[i]]

NormalizeBlock ==
  LET use_len == Smaller(block, in_len - pos)
      inBlock(i) == i \in (pos + 1)..(pos + use_len)
  IN /\ stage = "normalize" /\ pos < in_len
     /\ IF Zeroed(inBlock) # in_data THEN Trial(Zeroed(inBlock)) ELSE NoTrial
     /\ pos' = pos + block
     /\ UNCHANGED <<stage, block, prev_del, cur_pass, crash_mode, orig_len>>

(* next_pass *)
StartPass ==
  /\ stage' = "delete" /\ cur_pass' = cur_pass + 1 /\ changed_any' = FALSE
  /\ block' = next_p2(in_len \div TRIM_START_STEPS)
  /\ pos' = 0 /\ prev_del' = TRUE
  /\ UNCHANGED <<in_data, crash_mode, known, orig_len>>
EndNormalize == stage = "normalize" /\ pos >= in_len /\ StartPass
-----------------------------------------------------------------------------
tail_len == IF in_len - pos - block < 0 THEN 0 ELSE in_len - pos - block
SameAsPrevious == SubSeq(in_data, pos - block + 1, pos) = SubSeq(in_data, pos + 1, pos + block)
Shortened == SubSeq(in_data, 1, pos) \o SubSeq(in_data, pos + block + 1, in_len)

(* A block that equals the one before, which stayed, need not be tried. *)
MaySkip == ~prev_del /\ tail_len > 0 /\ SameAsPrevious
SkipBlock ==
  /\ stage = "delete" /\ pos < in_len
  /\ MaySkip
  /\ pos' = pos + block
  /\ UNCHANGED <<stage, in_data, block, prev_del, changed_any, cur_pass, crash_mode, known, orig_len>>

DeleteBlock ==
  /\ stage = "delete" /\ pos < in_len
  /\ ~MaySkip
  /\ Trial(Shortened)
  /\ prev_del' = (in_data' # in_data)
  /\ pos' = IF prev_del' THEN pos ELSE pos + block
  /\ UNCHANGED <<stage, block, cur_pass, crash_mode, orig_len>>

(* Half the block length, or on to the symbols, or the end. *)
EndDelete ==
  /\ stage = "delete" /\ pos >= in_len
  /\ IF block > 1 /\ in_len >= 1
     THEN block' = block \div 2 /\ prev_del' = TRUE /\ UNCHANGED stage
     ELSE /\ stage' = IF cur_pass > 1 /\ ~changed_any THEN "done" ELSE "symbols"
          /\ UNCHANGED <<block, prev_del>>
  /\ pos' = 0
  /\ UNCHANGED <<in_data, changed_any, cur_pass, crash_mode, known, orig_len>>
-----------------------------------------------------------------------------
Symbols == UNION {{f[i] : i \in DOMAIN f} : f \in Files} \ {0}
Unseen == {c \in Symbols : c > pos /\ \E i \in DOMAIN in_data : in_data[i] = c}

(* All places of one symbol at once, symbols in their order. *)
ReplaceSymbol ==
  /\ stage = "symbols"
  /\ \E c \in Unseen : /\ \A d \in Unseen : c <= d
                       /\ Trial(Zeroed(LAMBDA i : in_data[i] = c))
                       /\ pos' = c
  /\ UNCHANGED <<stage, block, prev_del, cur_pass, crash_mode, orig_len>>
EndSymbols ==
  /\ stage = "symbols" /\ Unseen = {}
  /\ stage' = "characters" /\ pos' = 0
  /\ UNCHANGED <<in_data, block, prev_del, changed_any, cur_pass, crash_mode, known, orig_len>>

SkipCharacter == in_data[pos + 1] = 0
(* One place at a time. *)
ReplaceCharacter ==
  /\ stage = "characters" /\ pos < in_len
  /\ IF SkipCharacter THEN NoTrial ELSE Trial(Zeroed(LAMBDA i : i = pos + 1))
  /\ pos' = pos + 1
  /\ UNCHANGED <<stage, block, prev_del, cur_pass, crash_mode, orig_len>>

(* Mutant: what the characters gave is not tried again with deletions. *)
PassAgainNever == FALSE
PassAgain == changed_any
EndCharacters ==
  /\ stage = "characters" /\ pos >= in_len
  /\ IF PassAgain THEN StartPass
     ELSE stage' = "done" /\ UNCHANGED <<in_data, block, pos, prev_del, changed_any, cur_pass, crash_mode, known, orig_len>>

TminNext == \/ DryRun \/ NormalizeBlock \/ EndNormalize \/ SkipBlock \/ DeleteBlock \/ EndDelete
            \/ ReplaceSymbol \/ EndSymbols \/ ReplaceCharacter \/ EndCharacters
TminSpec == TminInit /\ [][TminNext]_tminVars
-----------------------------------------------------------------------------
WithoutByte(i) == SubSeq(in_data, 1, i - 1) \o SubSeq(in_data, i + 1, in_len)

(* What afl-tmin writes still does what the file did, is no longer, and      *)
(* every file with one byte less was tried and refused, also those that the *)
(* comparison with the block before skipped and those tried in an earlier   *)
(* pass.                                                                    *)
TminMinimal ==
  stage = "done" =>
    /\ known[in_data] /\ in_len <= orig_len
    /\ \A i \in DOMAIN in_data : WithoutByte(i) \in DOMAIN known /\ ~known[WithoutByte(i)]
=============================================================================
