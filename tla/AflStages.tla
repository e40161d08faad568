------------------------------ MODULE AflStages ------------------------------
(***************************************************************************)
(* The deterministic stages of fuzz_one (afl-fuzz.c): walking bits and     *)
(* bytes, the effector map, arithmetic and interesting values, and the     *)
(* tests by which a stage leaves out what an earlier one has run.          *)
(* A byte has W bits (8 in the code).  A run is the set of the bits of the *)
(* input that it inverts: bit v of byte k, whose value is 2^v, is number   *)
(* W * k + v.  Values of several bytes are little endian, as on x86.       *)
(***************************************************************************)
EXTENDS Integers, Sequences, FiniteSets, FiniteSetsExt

CONSTANTS W, ARITH_MAX, EFF_MAP_SCALE2, EFF_MIN_LEN, EFF_MAX_PERC,
          interesting_8, interesting_16, interesting_32,   \* as unsigned values
          Inputs                                           \* sequences of bytes

VARIABLES stage, in_buf, stage_cur, eff_map, eff_cnt,
          tried,      \* the runs so far
          missed      \* ghost: left out by a stage though no stage had run it

stageVars == <<stage, in_buf, stage_cur, eff_map, eff_cnt, tried, missed>>

len == Len(in_buf)
Order == <<"flip1", "flip2", "flip4", "flip8", "flip16", "flip32", "arith8", "arith16", "arith32",
           "int8", "int16", "int32", "extras">>
After(s) == Order[(CHOOSE k \in DOMAIN Order : Order[k] = s) + 1]
-----------------------------------------------------------------------------
(*                         Values of n bytes                               *)

Range_(n) == 2^(W * n)
ByteOf(v, k) == (v \div Range_(k)) % 2^W
Number(bytes, n) == FoldSet(LAMBDA k, sum : sum + bytes[k] * Range_(k), 0, 0..(n - 1))
ValueAt(i, n) == Number([k \in 0..(n - 1) |-> in_buf[i + k + 1]], n)
Swap(v, n) == Number([k \in 0..(n - 1) |-> ByteOf(v, n - 1 - k)], n)
Xor(a, b) == {k \in 0..(4 * W - 1) : (a \div 2^k) % 2 # (b \div 2^k) % 2}
(* v over the m bytes at offset i of old. *)
Insert(old, i, m, v) == old - ((old \div Range_(i)) % Range_(m)) * Range_(i) + v * Range_(i)

interesting(n) == CASE n = 1 -> interesting_8 [] n = 2 -> interesting_16 [] n = 4 -> interesting_32
-----------------------------------------------------------------------------
(*                    What an earlier stage may have run                   *)

(* Mutant: patterns of whole bytes wherever they begin. *)
could_be_bitflip_unaligned(x) ==
  x = {} \/ \E c \in {1, 2, 4, W, 2 * W, 4 * W} : x = Min(x)..(Min(x) + c - 1)
could_be_bitflip(x) ==
  \/ x = {}
  \/ \E c \in {1, 2, 4} : x = Min(x)..(Min(x) + c - 1)
  \/ Min(x) % W = 0 /\ \E c \in {W, 2 * W, 4 * W} : x = Min(x)..(Min(x) + c - 1)

Within(a, b, m) == (a - b) % Range_(m) <= ARITH_MAX \/ (b - a) % Range_(m) <= ARITH_MAX
PartOf(v, i, m) == (v \div Range_(i * m)) % Range_(m)
(* A single part of 1, 2 or 4 bytes differs, by little, in some byte order. *)
could_be_arith(old, new, blen) ==
  \/ old = new
  \/ \E m \in {1, 2, 4} \cap 1..blen :
       \E i \in 0..((blen \div m) - 1) :
         LET a == PartOf(old, i, m) b == PartOf(new, i, m)
         IN /\ {k \in 0..((blen \div m) - 1) : PartOf(old, k, m) # PartOf(new, k, m)} = {i}
            /\ Within(a, b, m) \/ Within(Swap(a, m), Swap(b, m), m)

could_be_interest(old, new, blen, check_le) ==
  \/ old = new
  \/ \E i \in 0..(blen - 1), v \in interesting_8 : new = Insert(old, i, 1, v)
  \/ /\ blen > 2 \/ check_le
     /\ \E i \in 0..(blen - 2), v \in interesting_16 :
          \/ new = Insert(old, i, 2, v)
          \/ blen > 2 /\ new = Insert(old, i, 2, Swap(v, 2))
  \/ blen = 4 /\ check_le /\ new \in interesting_32
-----------------------------------------------------------------------------
(*                           The effector map                              *)

EFF_APOS(p) == p \div 2^EFF_MAP_SCALE2
EFF_ALEN(l) == EFF_APOS(l) + (IF l % 2^EFF_MAP_SCALE2 = 0 THEN 0 ELSE 1)
Cells == 0..(EFF_ALEN(len) - 1)
(* The first and the last byte always count as doing something. *)
NewEffMap == [c \in Cells |-> c \in {0, EFF_APOS(len - 1)}]
NewEffCnt == IF EFF_APOS(len - 1) # 0 THEN 2 ELSE 1
Effective(i, n) == \E k \in i..(i + n - 1) : eff_map[EFF_APOS(k)]
(* A map that is dense enough is filled up. *)
Filled(map, cnt) ==
  IF cnt # EFF_ALEN(len) /\ (cnt * 100) \div EFF_ALEN(len) > EFF_MAX_PERC
  THEN [c \in Cells |-> TRUE] ELSE map
-----------------------------------------------------------------------------
StageInit ==
  /\ stage = "flip1" /\ in_buf \in Inputs /\ stage_cur = 0
  /\ eff_map = <<>> /\ eff_cnt = 0 /\ tried = {} /\ missed = {}

(* FLIP_BIT counts the bits of a byte from the most significant one. *)
FLIP_BIT(b) == W * (b \div W) + W - 1 - (b % W)
WalkingBits(n) == {{FLIP_BIT(b + k) : k \in 0..(n - 1)} : b \in 0..(len * W - n)}

(* 1, 2 and 4 walking bits. *)
FlipBits ==
  /\ stage \in {"flip1", "flip2", "flip4"}
  /\ tried' = tried \cup WalkingBits(CASE stage = "flip1" -> 1 [] stage = "flip2" -> 2 [] stage = "flip4" -> 4)
  /\ stage' = After(stage)
  /\ IF stage = "flip4" THEN eff_map' = NewEffMap /\ eff_cnt' = NewEffCnt
     ELSE UNCHANGED <<eff_map, eff_cnt>>
  /\ UNCHANGED <<in_buf, stage_cur, missed>>

Bytes(i, n) == (W * i)..(W * (i + n) - 1)
(* One walking byte.  Where inverting it changes the path, or where looking  *)
(* is not worth it, its cell of the effector map is set.                    *)
FlipByte ==
  LET c == EFF_APOS(stage_cur)
      map(changed) == [eff_map EXCEPT ![c] = @ \/ changed \/ len < EFF_MIN_LEN]
  IN /\ stage = "flip8"
     /\ tried' = tried \cup {Bytes(stage_cur, 1)}
     /\ \E changed \in BOOLEAN :
          /\ eff_cnt' = eff_cnt + (IF map(changed) = eff_map THEN 0 ELSE 1)
          /\ eff_map' = IF stage_cur = len - 1 THEN Filled(map(changed), eff_cnt') ELSE map(changed)
     /\ IF stage_cur = len - 1 THEN stage' = After(stage) /\ stage_cur' = 0
        ELSE stage_cur' = stage_cur + 1 /\ UNCHANGED stage
     /\ UNCHANGED <<in_buf, missed>>

(* The rest of the stages: all positions i at which n bytes fit, unless the  *)
(* effector map says that none of them does anything.                       *)
Positions(n) == {i \in 0..(len - n) : Effective(i, n)}
At(i, old, new) == {W * i + k : k \in Xor(old, new)}
Stage(run, leave) ==
  /\ tried' = tried \cup run
  /\ missed' = missed \cup (leave \ (tried' \cup {{}}))
  /\ stage' = After(stage)
  /\ UNCHANGED <<in_buf, stage_cur, eff_map, eff_cnt>>

FlipBytes ==
  \E n \in {2, 4} :
    /\ stage = (CASE n = 2 -> "flip16" [] n = 4 -> "flip32")
    /\ Stage({Bytes(i, n) : i \in Positions(n)}, {})

Half(n) == Range_(n \div 2)
(* Does adding, does subtracting j change more than the narrower stages do?  *)
Carries(v, j, n) == n = 1 \/ (v % Half(n)) + j >= Half(n)
Borrows(v, j, n) == n = 1 \/ v % Half(n) < j
(* The sums and differences in both byte orders, with what runs them. *)
Arith(old, n) ==
  LET be == Swap(old, n)
      Two(v, new(_), j) ==
        {[new |-> new((v + j) % Range_(n)), more |-> Carries(v, j, n)],
         [new |-> new((v - j) % Range_(n)), more |-> Borrows(v, j, n)]}
  IN UNION {Two(old, LAMBDA v : v, j) \cup (IF n = 1 THEN {} ELSE Two(be, LAMBDA v : Swap(v, n), j))
              : j \in 1..ARITH_MAX}
RunsArith(old, a) == a.more /\ ~could_be_bitflip(Xor(old, a.new))
Arithmetic ==
  \E n \in {1, 2, 4} :
    /\ stage = (CASE n = 1 -> "arith8" [] n = 2 -> "arith16" [] n = 4 -> "arith32")
    /\ LET all == UNION {{[i |-> i, a |-> a] : a \in Arith(ValueAt(i, n), n)} : i \in Positions(n)}
           run == {c \in all : RunsArith(ValueAt(c.i, n), c.a)}
           Runs(cs) == {At(c.i, ValueAt(c.i, n), c.a.new) : c \in cs}
       IN Stage(Runs(run), Runs(all \ run))

(* The interesting values in both byte orders. *)
RunsInterest(old, new, n, be) ==
  /\ ~could_be_bitflip(Xor(old, new))
  /\ ~could_be_arith(old, new, n)
  /\ n > 1 => ~could_be_interest(old, new, n, be)
Interesting ==
  \E n \in {1, 2, 4} :
    /\ stage = (CASE n = 1 -> "int8" [] n = 2 -> "int16" [] n = 4 -> "int32")
    /\ LET le == {[i |-> i, new |-> v, be |-> FALSE] : i \in Positions(n), v \in interesting(n)}
           be == {[i |-> i, new |-> Swap(v, n), be |-> TRUE]
                    : i \in Positions(n), v \in {v \in interesting(n) : v # Swap(v, n)}}
           all == IF n = 1 THEN le ELSE le \cup be
           run == {c \in all : RunsInterest(ValueAt(c.i, n), c.new, n, c.be)}
           Runs(cs) == {At(c.i, ValueAt(c.i, n), c.new) : c \in cs}
       IN Stage(Runs(run), Runs(all \ run))

(* Stages that were run before are not run again (passed_det, -d), and any   *)
(* run may be the last one of its entry (common_fuzz_stuff).                *)
LeaveStages ==
  /\ stage \notin {"extras", "havoc"}
  /\ stage' = "havoc" /\ stage_cur' = 0 /\ tried' = {} /\ eff_map' = <<>> /\ eff_cnt' = 0
  /\ UNCHANGED <<in_buf, missed>>

StageNext == FlipBits \/ FlipByte \/ FlipBytes \/ Arithmetic \/ Interesting \/ LeaveStages
-----------------------------------------------------------------------------
BytesChanged(run) == {k \div W : k \in run}
(* Two or four bits in a row, as numbers go, across the end of a byte.      *)
AcrossBytes(run) ==
  \E c \in {2, 4} : run = Min(run)..(Min(run) + c - 1) /\ (Min(run) % W) + c > W

(* What a stage leaves out because an earlier one could have made it was     *)
(* really run, if the bytes that it changes are marked in the effector map   *)
(* (the other bytes are left out on purpose), and it is no row of bits       *)
(* across bytes.                                                             *)
SkippedWasTried ==
  stage # "havoc" =>
    \A run \in missed : AcrossBytes(run) \/ \E k \in BytesChanged(run) : ~Effective(k, 1)
=============================================================================
