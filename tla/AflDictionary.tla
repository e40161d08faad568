---------------------------- MODULE AflDictionary ----------------------------
(***************************************************************************)
(* The dictionaries of afl-fuzz (afl-fuzz.c): tokens of the user, sorted   *)
(* by load_extras; tokens found while the last bit of every byte is        *)
(* inverted; and the three stages of fuzz_one that write tokens over the   *)
(* input or into it.  Positions count from 0, as in the code; a buffer is  *)
(* a sequence of bytes.                                                    *)
(***************************************************************************)
EXTENDS Integers, Sequences, FiniteSets, SequencesExt

CONSTANTS MIN_AUTO_EXTRA, MAX_AUTO_EXTRA, MAX_AUTO_EXTRAS, USE_AUTO_EXTRAS, MAX_DET_EXTRAS,
          MaxLen,                \* MAX_FILE, for inputs that a token is inserted into
          Files, Dictionaries,   \* inputs, and sets of the user's tokens
          EffMaps,               \* sets of positions that do something
          Cksums,                \* paths that runs may take; 0 is the entry's own
          Builtin, tolower       \* tokens that are interesting values; lower case letters

ASSUME DictAssumption ==
  /\ \A f \in Files : f \in Seq(Nat) /\ f # <<>>
  /\ \A d \in Dictionaries : IsFiniteSet(d) /\ \A t \in d : t \in Seq(Nat) /\ t # <<>>
  /\ USE_AUTO_EXTRAS \in Nat \ {0} /\ MAX_AUTO_EXTRAS \in Nat \ {0}   \* 50 and 500 in config.h
  /\ MIN_AUTO_EXTRA \in Nat \ {0, 1} /\ MAX_AUTO_EXTRA \in Nat

VARIABLES at,           \* the stage, and the position it has come to
          in_buf, out_buf, ex_tmp, extras, a_extras, eff_map,
          a_collect, a_len, prev_cksum,
          runs,         \* the inputs run at the last position
          paths         \* ghost: the path of every run that inverted a last bit

dictVars == <<at, in_buf, out_buf, ex_tmp, extras, a_extras, eff_map, a_collect, a_len,
              prev_cksum, runs, paths>>

in_len == Len(in_buf)
exec_cksum == 0
Least(a, b) == IF a < b THEN a ELSE b
Overwrite(buf, i, data) == [k \in DOMAIN buf |-> IF k \in (i + 1)..(i + Len(data)) THEN data[k - i] ELSE buf[k]]
SameToken(a, b) == Len(a) = Len(b) /\ \A k \in DOMAIN a : tolower[a[k]] = tolower[b[k]]

(* qsort is not stable: any order that is sorted. *)
Sorted(seq, Before(_, _)) ==
  {s \in SetToSeqs(ToSet(seq)) : \A i, j \in DOMAIN s : i < j => ~Before(s[j], s[i])}
Shorter(a, b) == Len(a) < Len(b)

(* Mutant: the tokens stay in the order in which they were read. *)
load_extras_unsorted(tokens) == SetToSeqs(tokens)
load_extras(tokens) == Sorted(SetToSeq(tokens), Shorter)

(* The first entry of a session that brings no found tokens along: those of  *)
(* earlier entries and of load_auto are left out.                           *)
DictInit ==
  /\ at = [stage |-> "flip1", i |-> 0]
  /\ in_buf \in Files /\ out_buf = in_buf /\ ex_tmp = <<>>
  /\ \E d \in Dictionaries : extras \in load_extras(d)
  /\ a_extras = <<>> /\ eff_map \in EffMaps
  /\ a_collect = <<>> /\ a_len = 0 /\ prev_cksum = exec_cksum
  /\ runs = {} /\ paths = <<>>
-----------------------------------------------------------------------------
(*                         Finding tokens                                  *)

Hit(data, n) == [data |-> data, hit_cnt |-> n]
(* By use, and then the ones that will be used by length. *)
sort_a_extras(as) ==
  UNION {{t \o SubSeq(s, Len(t) + 1, Len(s))
            : t \in Sorted(SubSeq(s, 1, Least(USE_AUTO_EXTRAS, Len(s))),
                           LAMBDA a, b : Shorter(a.data, b.data))}
           : s \in Sorted(as, LAMBDA a, b : a.hit_cnt > b.hit_cnt)}

(* The dictionaries that may come of a token.  (With limits of 0 the code    *)
(* would return at once.)                                                   *)
maybe_add_auto(as, mem) ==
  LET known == {k \in DOMAIN as : SameToken(as[k].data, mem)}
      evict == ((MAX_AUTO_EXTRAS \div 2) + 1)..((MAX_AUTO_EXTRAS \div 2) + ((MAX_AUTO_EXTRAS + 1) \div 2))
  IN IF \/ \A k \in DOMAIN mem : mem[k] = mem[1]
        \/ mem \in Builtin
        \/ \E k \in DOMAIN extras : SameToken(extras[k], mem)
     THEN {as}
     ELSE UNION {sort_a_extras(s) : s \in
            IF known # {} THEN {[as EXCEPT ![k].hit_cnt = @ + 1] : k \in known}
            ELSE IF Len(as) < MAX_AUTO_EXTRAS THEN {Append(as, Hit(mem, 0))}
            ELSE {[as EXCEPT ![k] = Hit(mem, 0)] : k \in evict}}

Collected(c, byte) ==
  [data |-> IF c.n < MAX_AUTO_EXTRA THEN Append(c.data, byte) ELSE c.data, n |-> c.n + 1]
(* Mutant: a token that is one byte too long is cut. *)
WorthwhileCut(c) == c.n \in MIN_AUTO_EXTRA..(MAX_AUTO_EXTRA + 1)
Worthwhile(c) == c.n \in MIN_AUTO_EXTRA..MAX_AUTO_EXTRA
Collect(c) == IF Worthwhile(c) THEN maybe_add_auto(a_extras, c.data) ELSE {a_extras}

NextPosition(stage, next) ==
  at' = IF at.i = in_len - 1 THEN [stage |-> next, i |-> 0] ELSE [stage |-> stage, i |-> at.i + 1]

(* The last bit of byte i is inverted, and the path was cksum.  A run of     *)
(* bytes with the same new path is a token: it ends where the path changes,  *)
(* or with the file.                                                        *)
FlipLastBit ==
  /\ at.stage = "flip1" /\ NextPosition("flip1", "user_over")
  /\ \E cksum \in Cksums :
       LET byte == out_buf[at.i + 1]
           old == [data |-> a_collect, n |-> a_len]
           last == at.i = in_len - 1 /\ cksum = prev_cksum
           mid == IF last THEN Collected(old, byte)
                  ELSE IF cksum # prev_cksum THEN [data |-> <<>>, n |-> 0] ELSE old
           new == IF cksum # exec_cksum THEN Collected(mid, byte) ELSE mid
       IN /\ a_extras' \in IF last THEN Collect(mid)
                           ELSE IF cksum # prev_cksum THEN Collect(old) ELSE {a_extras}
          /\ a_collect' = new.data /\ a_len' = new.n
          /\ prev_cksum' = IF last THEN prev_cksum ELSE cksum
          /\ paths' = Append(paths, cksum)
  /\ UNCHANGED <<in_buf, out_buf, ex_tmp, extras, eff_map, runs>>
-----------------------------------------------------------------------------
(*                          Using tokens                                   *)

Rest == <<in_buf, extras, a_extras, eff_map>>
Forget == a_collect' = <<>> /\ a_len' = 0 /\ prev_cksum' = 0 /\ paths' = <<>>

(* Token t over the bytes at position i, unless it does not fit, is there    *)
(* already or covers nothing that does anything.                            *)
OverwriteOne(acc, i, t) ==
  IF \/ Len(t) > in_len - i
     \/ t = SubSeq(acc.buf, i + 1, i + Len(t))
     \/ eff_map \cap i..(i + Len(t) - 1) = {}
  THEN acc
  ELSE [buf |-> Overwrite(acc.buf, i, t), last_len |-> Len(t), runs |-> acc.runs \cup {Overwrite(acc.buf, i, t)}]

(* All tokens but those that are skipped by chance; the buffer is restored   *)
(* once, by the length of the last token.                                   *)
OverwriteAll(tokens, skip) ==
  LET ran[j \in 0..Len(tokens)] ==
        IF j = 0 THEN [buf |-> out_buf, last_len |-> 0, runs |-> {}]
        ELSE IF j \in skip THEN ran[j - 1] ELSE OverwriteOne(ran[j - 1], at.i, tokens[j])
      end == ran[Len(tokens)]
  IN /\ out_buf' = Overwrite(end.buf, at.i, SubSeq(in_buf, at.i + 1, at.i + end.last_len))
     /\ runs' = end.runs

UserOver ==
  /\ at.stage = "user_over" /\ extras # <<>>
  /\ NextPosition("user_over", "user_insert")
  /\ \E skip \in (IF Len(extras) > MAX_DET_EXTRAS THEN SUBSET DOMAIN extras ELSE {{}}) :
       OverwriteAll(extras, skip)
  /\ ex_tmp' = IF at.i = in_len - 1 THEN [k \in 1..in_len |-> 0] ELSE <<>>      \* ck_alloc
  /\ UNCHANGED Rest /\ Forget

(* Token and tail go behind the head, which has grown by a byte at every     *)
(* position.                                                                *)
UserInsert ==
  /\ at.stage = "user_insert" /\ NextPosition("user_insert", "auto_over")
  /\ runs' = {SubSeq(ex_tmp, 1, at.i) \o extras[j] \o SubSeq(out_buf, at.i + 1, in_len)
                : j \in {j \in DOMAIN extras : in_len + Len(extras[j]) <= MaxLen}}
  /\ ex_tmp' = IF at.i = in_len - 1 THEN <<>> ELSE [ex_tmp EXCEPT ![at.i + 1] = out_buf[at.i + 1]]
  /\ UNCHANGED <<Rest, out_buf>> /\ Forget

NoExtras ==
  /\ at.stage = "user_over" /\ extras = <<>>
  /\ at' = [stage |-> "auto_over", i |-> 0]
  /\ UNCHANGED <<Rest, out_buf, ex_tmp, runs>> /\ Forget

AutoOver ==
  /\ at.stage = "auto_over" /\ a_extras # <<>> /\ NextPosition("auto_over", "havoc")
  /\ OverwriteAll([j \in 1..Least(Len(a_extras), USE_AUTO_EXTRAS) |-> a_extras[j].data], {})
  /\ UNCHANGED <<Rest, ex_tmp>> /\ Forget

(* No tokens, or a run that ends the work on this entry. *)
LeaveDict ==
  /\ at.stage # "havoc" /\ at' = [stage |-> "havoc", i |-> 0]
  /\ runs' = {} /\ out_buf' = in_buf /\ ex_tmp' = <<>>
  /\ UNCHANGED Rest /\ Forget

DictNext == FlipLastBit \/ UserOver \/ UserInsert \/ NoExtras \/ AutoOver \/ LeaveDict
DictSpec == DictInit /\ [][DictNext]_dictVars
-----------------------------------------------------------------------------
(* The tokens of a file: bytes i to j show one new path and are not part of  *)
(* a longer such row.                                                       *)
Rows == {ij \in (1..in_len) \X (1..in_len) :
           LET i == ij[1] j == ij[2]
           IN /\ (j - i) + 1 \in MIN_AUTO_EXTRA..MAX_AUTO_EXTRA
              /\ paths[i] # exec_cksum /\ \A k \in i..j : paths[k] = paths[i]
              /\ i > 1 => paths[i - 1] # paths[i]
              /\ j < in_len => paths[j + 1] # paths[i]}
Tokens == {mem \in {SubSeq(in_buf, ij[1], ij[2]) : ij \in Rows} :
             /\ \E k \in DOMAIN mem : mem[k] # mem[1]
             /\ mem \notin Builtin
             /\ \A k \in DOMAIN extras : ~SameToken(extras[k], mem)}

(* The tokens found are the longest rows of bytes whose last bits lead to    *)
(* one new path, all of them while there is room: a row ended by the file,   *)
(* a row that is too long by one and a row next to another new path          *)
(* included.                                                                *)
TokensAreRows ==
  Len(paths) = in_len =>
    /\ \A k \in DOMAIN a_extras : a_extras[k].data \in Tokens
    /\ Cardinality(Tokens) <= MAX_AUTO_EXTRAS =>
         \A mem \in Tokens : \E k \in DOMAIN a_extras : SameToken(a_extras[k].data, mem)

(* What a stage runs is the input with one token at the position, whatever   *)
(* tokens went before at this and at other positions.                       *)
OneTokenEach ==
  LET all == ToSet(extras) \cup {a_extras[k].data : k \in DOMAIN a_extras}
      Over(r) == \E t \in all, i \in 0..(in_len - 1) : i + Len(t) <= in_len /\ r = Overwrite(in_buf, i, t)
      Into(r) == \E t \in all, i \in 0..(in_len - 1) : r = SubSeq(in_buf, 1, i) \o t \o SubSeq(in_buf, i + 1, in_len)
  IN /\ \A r \in runs : IF Len(r) = in_len THEN Over(r) ELSE Into(r)
     /\ out_buf = in_buf
=============================================================================
