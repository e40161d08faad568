---------------------------- MODULE LexerProofs ----------------------------
(***************************************************************************)
(* Proofs about Lexer.tla, for every file, whatever its length and bytes,  *)
(* every size of the buffer and every pattern of calls.                    *)
(***************************************************************************)
EXTENDS Lexer, FiniteSetTheorems, SequenceTheorems, NaturalsInduction, WellFoundedInduction, TLAPS

FileOK == file \in Seq(Characters)

(* What the reader delivers at offset p. *)
CharAt(p) == IF p < Len(file) THEN file[p + 1] ELSE "EOF"

LineStates == {"normal", "cr", "lf", "crlf"}
Readers ==
  [buffer : Seq(Characters), start : Nat, size : Nat, pos : Nat, eof : BOOLEAN,
   last : Characters \cup {"NUL"}, lineState : LineStates, line : Nat, column : Nat,
   starts : Seq(Nat)]

(* The buffer holds the part of the file that starts at c.start, and behind *)
(* its end the sentinel.                                                    *)
Buffered(c) ==
  /\ c \in Readers
  /\ c.start + c.size <= Len(file)
  /\ c.pos <= Len(c.buffer)
  /\ \A k \in 1..c.size : c.buffer[k] = file[c.start + k]
  /\ c.eof => c.start + c.size = Len(file) /\ Len(c.buffer) = c.size + 1 /\ c.buffer[c.size + 1] = "EOF"
  /\ ~c.eof => Len(c.buffer) = c.size

(* The state of the line break automaton behind the character at offset p. *)
StateAt(p) ==
  IF CharAt(p) = "CR" THEN "cr"
  ELSE IF CharAt(p) = "LF" THEN (IF p > 0 /\ CharAt(p - 1) = "CR" THEN "crlf" ELSE "lf")
  ELSE "normal"

StartsOK(starts, p) ==
  /\ Len(starts) = LineOf(p)
  /\ \A o \in 0..p : LineOf(o) \in 1..Len(starts) /\ starts[LineOf(o)] = LineStart(o)

(* Line, column and the remembered starts of lines are those of offset p.  *)
Placed(c, p) ==
  /\ c.line = LineOf(p) /\ c.column = ColumnOf(p) /\ c.lineState = StateAt(p)
  /\ StartsOK(c.starts, p)

ReaderInv(c) ==
  /\ Buffered(c) /\ c.pos > 0
  /\ c.last = CharAt(Offset(c))
  /\ Placed(c, Offset(c))
-----------------------------------------------------------------------------
(*                               The reader                                *)

LEMMA MinOfTwo == ASSUME NEW a \in Nat, NEW b \in Nat PROVE Min({a, b}) = IF a <= b THEN a ELSE b
<1>1. Min({a, b}) = CHOOSE x \in {a, b} : \A y \in {a, b} : x <= y
  BY DEF Min
<1>2. \E x \in {a, b} : \A y \in {a, b} : x <= y
  OBVIOUS
<1> QED
  BY <1>1, <1>2

LEMMA LenNat == FileOK => Len(file) \in Nat
  BY DEF FileOK

LEMMA ReaderFields ==
  ASSUME NEW c \in Readers
  PROVE  /\ c.start \in Nat /\ c.size \in Nat /\ c.pos \in Nat /\ c.eof \in BOOLEAN
         /\ c.buffer \in Seq(Characters) /\ Len(c.buffer) \in Nat
         /\ c.lineState \in LineStates /\ c.line \in Nat /\ c.column \in Nat
         /\ c.starts \in Seq(Nat) /\ Len(c.starts) \in Nat
  BY DEF Readers

(* The text a buffer takes from the file. *)
LEMMA TextOf ==
  ASSUME NEW S, NEW f \in Seq(S), NEW m \in Nat, NEW n \in m..Len(f)
  PROVE  /\ SubSeq(f, m + 1, n) \in Seq(S) /\ Len(SubSeq(f, m + 1, n)) = n - m
         /\ \A k \in 1..(n - m) : SubSeq(f, m + 1, n)[k] = f[m + k]
<1>1. Len(f) \in Nat
  OBVIOUS
<1>2. \A i \in (m + 1)..n : f[i] \in S
  BY <1>1, ElementOfSeq
<1> QED
  BY <1>1, <1>2, SubSeqProperties

LEMMA Extended ==
  ASSUME NEW S, NEW f \in Seq(S), NEW x \in S
  PROVE  /\ f \o <<x>> \in Seq(S) /\ Len(f \o <<x>>) = Len(f) + 1
         /\ \A k \in 1..Len(f) : (f \o <<x>>)[k] = f[k]
         /\ (f \o <<x>>)[Len(f) + 1] = x
  OBVIOUS

IsReader(b, buffer, start, size, pos, eof, last, state, line, column, starts) ==
  /\ b \in Readers /\ b.start = start /\ b.size = size /\ b.pos = pos /\ b.eof = eof
  /\ b.buffer = buffer /\ b.last = last /\ b.lineState = state
  /\ b.line = line /\ b.column = column /\ b.starts = starts

RefilledTo(c, start, size, eof, buffer) ==
  [c EXCEPT !.start = start, !.size = size, !.pos = 0, !.eof = eof, !.buffer = buffer]
LEMMA RefilledFields ==
  ASSUME NEW c \in Readers, NEW start \in Nat, NEW size \in Nat, NEW eof \in BOOLEAN,
         NEW buffer \in Seq(Characters), NEW b, b = RefilledTo(c, start, size, eof, buffer)
  PROVE  IsReader(b, buffer, start, size, 0, eof, c.last, c.lineState, c.line, c.column, c.starts)
  BY DEF Readers, RefilledTo, IsReader

LEMMA Refilled ==
  ASSUME FileOK, NEW c \in Readers, c.start + c.size <= Len(file)
  PROVE  LET b == ReadIntoBuffer(c)
         IN  /\ Buffered(b) /\ b.start = c.start + c.size /\ b.pos = 0
             /\ b.last = c.last /\ b.lineState = c.lineState /\ b.line = c.line
             /\ b.column = c.column /\ b.starts = c.starts
             /\ b.size > 0 \/ b.eof
<1> DEFINE from == c.start + c.size
           until == Min({Len(file), from + MaxBufferSize})
           atEof == from + MaxBufferSize > Len(file)
           text == SubSeq(file, from + 1, until)
           buffer == text \o (IF atEof THEN <<"EOF">> ELSE <<>>)
           b == ReadIntoBuffer(c)
<1>1. Len(file) \in Nat /\ from \in Nat /\ MaxBufferSize \in Nat \ {0} /\ from <= Len(file)
  BY LenNat, ReaderFields, BufferAssumption
<1>2. b = RefilledTo(c, from, until - from, atEof, buffer)
  BY DEF ReadIntoBuffer, RefilledTo
<1> HIDE DEF b
<1> HIDE DEF from
<1>3. until = IF atEof THEN Len(file) ELSE from + MaxBufferSize
  BY <1>1, MinOfTwo
<1> HIDE DEF until
<1>4. until \in from..Len(file) /\ atEof \in BOOLEAN /\ (until > from \/ atEof) /\ (atEof => until = Len(file))
  BY <1>1, <1>3
<1>5. text \in Seq(Characters) /\ Len(text) = until - from /\ \A k \in 1..(until - from) : text[k] = file[from + k]
  BY <1>1, <1>4, TextOf DEF FileOK
<1> HIDE DEF text
<1>6. "EOF" \in Characters
  BY DEF Characters
<1>7. /\ buffer \in Seq(Characters)
      /\ Len(buffer) = (IF atEof THEN until - from + 1 ELSE until - from)
      /\ \A k \in 1..(until - from) : buffer[k] = file[from + k]
      /\ atEof => buffer[until - from + 1] = "EOF"
  <2>1. CASE atEof
    <3>1. buffer = text \o <<"EOF">>
      BY <2>1
    <3>2. /\ text \o <<"EOF">> \in Seq(Characters) /\ Len(text \o <<"EOF">>) = Len(text) + 1
          /\ \A k \in 1..Len(text) : (text \o <<"EOF">>)[k] = text[k]
          /\ (text \o <<"EOF">>)[Len(text) + 1] = "EOF"
      BY <1>5, <1>6, Extended
    <3> QED
      BY <3>1, <3>2, <2>1, <1>5
  <2>2. CASE ~atEof
    <3>1. buffer = text
      BY <2>2, <1>5
    <3> QED
      BY <3>1, <2>2, <1>5
  <2> QED
    BY <2>1, <2>2
<1> HIDE DEF buffer, atEof
<1>8. until - from \in Nat
  BY <1>1, <1>4
<1>9. /\ b \in Readers /\ b.start = from /\ b.size = until - from /\ b.pos = 0 /\ b.eof = atEof /\ b.buffer = buffer
      /\ b.last = c.last /\ b.lineState = c.lineState /\ b.line = c.line
      /\ b.column = c.column /\ b.starts = c.starts
  <2>1. from \in Nat /\ atEof \in BOOLEAN /\ buffer \in Seq(Characters)
    BY <1>1, <1>4, <1>7
  <2> QED
    <3>1. IsReader(b, buffer, from, until - from, 0, atEof, c.last, c.lineState, c.line, c.column, c.starts)
      BY <2>1, <1>2, <1>8, RefilledFields, Zenon
    <3> QED
      BY <3>1 DEF IsReader
<1>10. Buffered(b)
  BY <1>1, <1>4, <1>7, <1>8, <1>9 DEF Buffered
<1>11. b.size > 0 \/ b.eof
  BY <1>1, <1>4, <1>9
<1> QED
  BY <1>9, <1>10, <1>11 DEF b, from

Advanced(b, ch, state, line, column, starts) ==
  [b EXCEPT !.pos = b.pos + 1, !.last = ch, !.lineState = state,
            !.line = line, !.column = column, !.starts = starts]
LEMMA AdvancedFields ==
  ASSUME NEW b \in Readers, NEW ch \in Characters, NEW state \in LineStates, NEW line \in Nat,
         NEW column \in Nat, NEW starts \in Seq(Nat), NEW d, d = Advanced(b, ch, state, line, column, starts)
  PROVE  IsReader(d, b.buffer, b.start, b.size, b.pos + 1, b.eof, ch, state, line, column, starts)
<1>1. b.pos + 1 \in Nat
  BY ReaderFields
<1>2. ch \in Characters \cup {"NUL"}
  OBVIOUS
<1> QED
  BY <1>1, <1>2 DEF Readers, Advanced, IsReader

(* The position that a character before ch leaves. *)
NextLine(c, ch) == IF EndsLine(c.lineState, ch) THEN c.line + 1 ELSE c.line
NextColumn(c, ch) ==
  IF EndsLine(c.lineState, ch) THEN 1 ELSE IF c.last = "TAB" THEN c.column + 2 ELSE c.column + 1
NextStarts(c, ch) ==
  IF EndsLine(c.lineState, ch) THEN Append(c.starts, c.start + c.pos) ELSE c.starts

LEMMA NextPositionTyped ==
  ASSUME NEW c \in Readers, NEW ch
  PROVE  NextLine(c, ch) \in Nat /\ NextColumn(c, ch) \in Nat /\ NextStarts(c, ch) \in Seq(Nat)
         /\ LineState(c.lineState, ch) \in LineStates
<1>1. LineState(c.lineState, ch) \in LineStates
  BY DEF LineState, LineStates
<1>2. NextStarts(c, ch) \in Seq(Nat)
  BY ReaderFields DEF NextStarts
<1> QED
  BY <1>1, <1>2, ReaderFields DEF NextLine, NextColumn

(* nextChar delivers the next character of the file, or the sentinel behind *)
(* it, wherever the buffer ends.                                            *)
LEMMA NextCharReads ==
  ASSUME FileOK, NEW c, Buffered(c), c.start + c.pos <= Len(file), NEW d, d = NextChar(c)
  PROVE  /\ Buffered(d) /\ d.start + d.pos = c.start + c.pos + 1 /\ d.pos > 0
         /\ d.last = CharAt(c.start + c.pos)
         /\ d.lineState = LineState(c.lineState, d.last)
         /\ d.line = NextLine(c, d.last)
         /\ d.column = NextColumn(c, d.last)
         /\ d.starts = NextStarts(c, d.last)
<1> DEFINE b == IF ~c.eof /\ c.pos = c.size THEN ReadIntoBuffer(c) ELSE c
           ch == IF b.pos < Len(b.buffer) THEN b.buffer[b.pos + 1] ELSE "GARBAGE"
           line == IF EndsLine(c.lineState, ch) THEN b.line + 1 ELSE b.line
           column == IF EndsLine(c.lineState, ch) THEN 1 ELSE IF c.last = "TAB" THEN b.column + 2 ELSE b.column + 1
           starts == IF EndsLine(c.lineState, ch) THEN Append(b.starts, NextOffset(b)) ELSE b.starts
<1>1. c \in Readers /\ Len(file) \in Nat
  BY LenNat DEF Buffered
<1>2. d = Advanced(b, ch, LineState(c.lineState, ch), line, column, starts)
  BY DEF NextChar, Advanced
<1>3. /\ Buffered(b) /\ b.start + b.pos = c.start + c.pos /\ b.pos < Len(b.buffer)
      /\ b.line = c.line /\ b.column = c.column /\ b.starts = c.starts
  <2>1. CASE ~c.eof /\ c.pos = c.size
    <3>1. b = ReadIntoBuffer(c)
      BY <2>1
    <3>2. c.start + c.size <= Len(file)
      BY DEF Buffered
    <3> HIDE DEF b
    <3>3. /\ Buffered(b) /\ b.start = c.start + c.size /\ b.pos = 0 /\ (b.size > 0 \/ b.eof)
          /\ b.line = c.line /\ b.column = c.column /\ b.starts = c.starts
      BY <3>1, <3>2, <1>1, Refilled
    <3>4. b.size > 0 \/ b.eof => Len(b.buffer) > 0
      BY <3>3, ReaderFields DEF Buffered
    <3> QED
      BY <3>3, <3>4, <2>1, <1>1, ReaderFields
  <2>2. CASE ~(~c.eof /\ c.pos = c.size)
    <3>1. b = c
      BY <2>2
    <3>2. c.pos < Len(c.buffer)
      BY <2>2, <1>1, ReaderFields DEF Buffered
    <3> HIDE DEF b
    <3> QED
      BY <3>1, <3>2
  <2> QED
    BY <2>1, <2>2
<1> HIDE DEF b
<1>4. b \in Readers
  BY <1>3 DEF Buffered
<1>11. b.start \in Nat /\ b.pos \in Nat /\ b.size \in Nat /\ c.start \in Nat /\ c.pos \in Nat
  BY <1>1, <1>4, ReaderFields
<1>5. ch = b.buffer[b.pos + 1] /\ ch \in Characters
  BY <1>3, <1>4, ReaderFields, ElementOfSeq
<1>6. ch = CharAt(c.start + c.pos)
  <2>1. ch = CharAt(b.start + b.pos)
    <3>1. CASE b.pos < b.size
      <4>1. b.pos + 1 \in 1..b.size /\ b.start + (b.pos + 1) = (b.start + b.pos) + 1
        BY <3>1, <1>11
      <4>2. \A k \in 1..b.size : b.buffer[k] = file[b.start + k]
        BY <1>3 DEF Buffered
      <4>4. b.buffer[b.pos + 1] = file[(b.start + b.pos) + 1]
        BY <4>1, <4>2
      <4>3. b.start + b.pos < Len(file)
        BY <3>1, <1>1, <1>3, <1>4, ReaderFields, SMTT(60) DEF Buffered
      <4> QED
        BY <4>3, <4>4, <1>5 DEF CharAt
    <3>2. CASE b.pos >= b.size
      BY <3>2, <1>1, <1>3, <1>4, <1>5, ReaderFields DEF Buffered, CharAt
    <3> QED
      BY <3>1, <3>2, <1>4, ReaderFields
  <2> QED
    BY <2>1, <1>3
<1> HIDE DEF ch
<1>7. line = NextLine(c, ch) /\ column = NextColumn(c, ch) /\ starts = NextStarts(c, ch)
  BY <1>3 DEF NextLine, NextColumn, NextStarts, NextOffset
<1> HIDE DEF line, column, starts
<1>8. /\ d \in Readers /\ d.start = b.start /\ d.size = b.size /\ d.pos = b.pos + 1 /\ d.eof = b.eof
      /\ d.buffer = b.buffer /\ d.last = ch /\ d.lineState = LineState(c.lineState, ch)
      /\ d.line = line /\ d.column = column /\ d.starts = starts
  <2>1. LineState(c.lineState, ch) \in LineStates /\ line \in Nat /\ column \in Nat /\ starts \in Seq(Nat)
    BY <1>1, <1>7, NextPositionTyped
  <2>2. IsReader(d, b.buffer, b.start, b.size, b.pos + 1, b.eof, ch, LineState(c.lineState, ch), line, column, starts)
    BY <2>1, <1>2, <1>4, <1>5, AdvancedFields, Zenon
  <2> QED
    BY <2>2 DEF IsReader
<1>9. Buffered(d)
  <2>1. d.pos <= Len(d.buffer)
    BY <1>3, <1>4, <1>8, ReaderFields
  <2>2. /\ b.start + b.size <= Len(file)
        /\ \A k \in 1..b.size : b.buffer[k] = file[b.start + k]
        /\ b.eof => b.start + b.size = Len(file) /\ Len(b.buffer) = b.size + 1 /\ b.buffer[b.size + 1] = "EOF"
        /\ ~b.eof => Len(b.buffer) = b.size
    BY <1>3 DEF Buffered
  <2>3. d \in Readers /\ d.start = b.start /\ d.size = b.size /\ d.eof = b.eof /\ d.buffer = b.buffer
    BY <1>8
  <2> QED
    BY <2>1, <2>2, <2>3 DEF Buffered
<1>10. d.start + d.pos = c.start + c.pos + 1 /\ d.pos > 0
  <2>1. d.start = b.start /\ d.pos = b.pos + 1 /\ b.start + b.pos = c.start + c.pos
    BY <1>3, <1>8
  <2> QED
    BY <2>1, <1>11
<1> QED
  BY <1>6, <1>7, <1>8, <1>9, <1>10

(* The reader stands behind the file exactly when isEof says so. *)
LEMMA AtEof ==
  ASSUME FileOK, NEW c, Buffered(c), c.pos > 0
  PROVE  /\ Offset(c) \in 0..Len(file)
         /\ IsEof(c) <=> Offset(c) = Len(file)
  BY LenNat, ReaderFields, SMTT(60) DEF Buffered, Offset, IsEof
-----------------------------------------------------------------------------
(*                            Lines and columns                            *)

LEMMA LeastIn == ASSUME NEW T, T \subseteq Nat, T # {} PROVE \E x \in T : \A y \in T : x <= y
<1>1. PICK R : (\A x, y \in Nat : y < x => <<y, x>> \in R) /\ IsWellFoundedOn(R, Nat)
  <2>1. \A x, y \in Nat : y < x => <<y, x>> \in OpToRel(<, Nat)
    BY DEF OpToRel
  <2> QED
    BY <2>1, NatLessThanWellFounded, Zenon
<1>2. PICK x \in T : \A y \in T : ~(<<y, x>> \in R)
  BY <1>1, WFMin
<1>3. ASSUME NEW y \in T PROVE x <= y
  <2>1. ~(y < x)
    BY <1>1, <1>2, Zenon
  <2> QED
    BY <2>1
<1> QED
  BY <1>3

LEMMA GreatestIn ==
  ASSUME NEW n \in Nat, NEW T, T \subseteq 0..n, T # {} PROVE \E x \in T : \A y \in T : y <= x
<1> DEFINE U == {n - x : x \in T}
<1>1. U \subseteq Nat /\ U # {}
  <2>1. ASSUME NEW u \in U PROVE u \in Nat
    <3>1. PICK x \in T : u = n - x
      BY <2>1
    <3>2. x \in 0..n
      OBVIOUS
    <3> QED
      BY <3>1, <3>2
  <2>2. PICK x \in T : TRUE
    OBVIOUS
  <2>3. n - x \in U
    OBVIOUS
  <2> QED
    BY <2>1, <2>3
<1>2. PICK u \in U : \A v \in U : u <= v
  <2> HIDE DEF U
  <2> QED
    BY <1>1, LeastIn
<1>3. PICK x \in T : u = n - x
  BY <1>2
<1>4. ASSUME NEW y \in T PROVE y <= x
  <2>1. n - y \in U
    OBVIOUS
  <2>2. u <= n - y
    BY <2>1, <1>2
  <2>3. x \in 0..n /\ y \in 0..n
    OBVIOUS
  <2> QED
    BY <2>2, <2>3, <1>3
<1> QED
  BY <1>4

Breaks(o) == {b \in 1..o : BreakAfter(b)}
Tabs(l, o) == {b \in (l + 1)..o : file[b] = "TAB"}

LEMMA FiniteBreaks ==
  ASSUME NEW o \in Nat PROVE IsFiniteSet(Breaks(o)) /\ Cardinality(Breaks(o)) \in Nat
<1>1. IsFiniteSet(1..o)
  BY FS_Interval
<1>2. Breaks(o) \subseteq 1..o
  BY DEF Breaks
<1> QED
  BY <1>1, <1>2, FS_Subset, FS_CardinalityType

LEMMA FiniteTabs ==
  ASSUME NEW o \in Nat, NEW l \in Nat PROVE IsFiniteSet(Tabs(l, o)) /\ Cardinality(Tabs(l, o)) \in Nat
<1>1. IsFiniteSet((l + 1)..o)
  BY FS_Interval
<1>2. Tabs(l, o) \subseteq (l + 1)..o
  BY DEF Tabs
<1> QED
  BY <1>1, <1>2, FS_Subset, FS_CardinalityType

LEMMA LineOfBreaks == ASSUME NEW o \in Nat PROVE LineOf(o) = 1 + Cardinality(Breaks(o)) /\ LineOf(o) \in Nat \ {0}
<1>1. LineOf(o) = 1 + Cardinality(Breaks(o))
  BY DEF LineOf, Breaks
<1> QED
  BY <1>1, FiniteBreaks

LEMMA LineStartGreatest ==
  ASSUME NEW o \in Nat
  PROVE  /\ LineStart(o) \in {0} \cup Breaks(o) /\ LineStart(o) \in 0..o
         /\ \A y \in Breaks(o) : y <= LineStart(o)
<1> DEFINE S == {0} \cup Breaks(o)
<1>1. LineStart(o) = CHOOSE x \in S : \A y \in S : x >= y
  BY DEF LineStart, Max, Breaks
<1>2. S \subseteq 0..o /\ S # {}
  BY DEF Breaks
<1> HIDE DEF S
<1>3. \E x \in S : \A y \in S : y <= x
  BY <1>2, GreatestIn
<1>4. \E x \in S : \A y \in S : x >= y
  BY <1>2, <1>3
<1>5. LineStart(o) \in S /\ \A y \in S : LineStart(o) >= y
  BY <1>1, <1>4
<1> QED
  BY <1>2, <1>5 DEF S

LEMMA LineStartIs ==
  ASSUME NEW o \in Nat, NEW x \in {0} \cup Breaks(o), \A y \in Breaks(o) : y <= x
  PROVE  LineStart(o) = x
<1>1. /\ LineStart(o) \in {0} \cup Breaks(o) /\ LineStart(o) \in 0..o
      /\ \A y \in Breaks(o) : y <= LineStart(o)
  BY LineStartGreatest
<1>2. x \in 0..o
  BY DEF Breaks
<1>3. LineStart(o) <= x /\ x <= LineStart(o)
  BY <1>1, <1>2
<1> QED
  BY <1>1, <1>2, <1>3

(* One character further: with a line break before it, or without. *)
LEMMA BreakStep ==
  ASSUME NEW p \in Nat, BreakAfter(p + 1)
  PROVE  /\ LineOf(p + 1) = LineOf(p) + 1 /\ LineStart(p + 1) = p + 1 /\ ColumnOf(p + 1) = 1
<1>1. Breaks(p + 1) = Breaks(p) \cup {p + 1} /\ p + 1 \notin Breaks(p)
  BY DEF Breaks
<1>2. Cardinality(Breaks(p + 1)) = Cardinality(Breaks(p)) + 1
  BY <1>1, FiniteBreaks, FS_AddElement
<1>3. LineOf(p + 1) = LineOf(p) + 1
  BY <1>2, FiniteBreaks, LineOfBreaks
<1>4. LineStart(p + 1) = p + 1
  <2>1. p + 1 \in Breaks(p + 1) /\ \A y \in Breaks(p + 1) : y <= p + 1
    BY <1>1 DEF Breaks
  <2> QED
    BY <2>1, LineStartIs
<1>5. ColumnOf(p + 1) = 1
  <2>1. {b \in (p + 1) + 1 .. p + 1 : file[b] = "TAB"} = {}
    OBVIOUS
  <2>2. ColumnOf(p + 1) = 1 + ((p + 1) - (p + 1)) + Cardinality({b \in (p + 1) + 1 .. p + 1 : file[b] = "TAB"})
    BY <1>4 DEF ColumnOf
  <2>3. Cardinality({b \in (p + 1) + 1 .. p + 1 : file[b] = "TAB"}) = 0
    BY <2>1, FS_EmptySet
  <2> QED
    BY <2>2, <2>3
<1> QED
  BY <1>3, <1>4, <1>5

LEMMA TabStep ==
  ASSUME NEW l \in Nat, NEW p \in Nat, l <= p
  PROVE  Cardinality(Tabs(l, p + 1)) =
           IF file[p + 1] = "TAB" THEN Cardinality(Tabs(l, p)) + 1 ELSE Cardinality(Tabs(l, p))
<1>1. CASE file[p + 1] = "TAB"
  <2>1. Tabs(l, p + 1) = Tabs(l, p) \cup {p + 1} /\ p + 1 \notin Tabs(l, p)
    BY <1>1 DEF Tabs
  <2> QED
    BY <2>1, <1>1, FiniteTabs, FS_AddElement
<1>2. CASE file[p + 1] # "TAB"
  <2>1. Tabs(l, p + 1) = Tabs(l, p)
    BY <1>2 DEF Tabs
  <2> QED
    BY <2>1, <1>2
<1> QED
  BY <1>1, <1>2

LEMMA TabStepBack ==
  ASSUME NEW l \in Nat, NEW o \in Nat, l < o
  PROVE  Cardinality(Tabs(l, o)) =
           IF file[o] = "TAB" THEN Cardinality(Tabs(l, o - 1)) + 1 ELSE Cardinality(Tabs(l, o - 1))
<1> DEFINE p == o - 1
<1>1. p \in Nat /\ l <= p /\ p + 1 = o
  OBVIOUS
<1> HIDE DEF p
<1>2. Cardinality(Tabs(l, p + 1)) =
        IF file[p + 1] = "TAB" THEN Cardinality(Tabs(l, p)) + 1 ELSE Cardinality(Tabs(l, p))
  BY <1>1, TabStep
<1> QED
  BY <1>1, <1>2 DEF p

LEMMA PlainStep ==
  ASSUME NEW p \in Nat, ~BreakAfter(p + 1)
  PROVE  /\ LineOf(p + 1) = LineOf(p) /\ LineStart(p + 1) = LineStart(p)
         /\ ColumnOf(p + 1) = IF file[p + 1] = "TAB" THEN ColumnOf(p) + 2 ELSE ColumnOf(p) + 1
<1>1. Breaks(p + 1) = Breaks(p)
  BY DEF Breaks
<1>2. LineOf(p + 1) = LineOf(p)
  BY <1>1 DEF LineOf, Breaks
<1>3. LineStart(p + 1) = LineStart(p)
  BY <1>1 DEF LineStart, Breaks
<1>4. LineStart(p) \in 0..p
  BY LineStartGreatest
<1> DEFINE l == LineStart(p)
<1>5. ColumnOf(p + 1) = 1 + ((p + 1) - l) + Cardinality(Tabs(l, p + 1))
  BY <1>3 DEF ColumnOf, Tabs
<1>6. ColumnOf(p) = 1 + (p - l) + Cardinality(Tabs(l, p))
  BY DEF ColumnOf, Tabs
<1> HIDE DEF l
<1>7. l \in Nat /\ l <= p /\ Cardinality(Tabs(l, p)) \in Nat
  BY <1>4, FiniteTabs DEF l
<1>8. Cardinality(Tabs(l, p + 1)) =
           IF file[p + 1] = "TAB" THEN Cardinality(Tabs(l, p)) + 1 ELSE Cardinality(Tabs(l, p))
  BY <1>7, TabStep
<1> QED
  BY <1>2, <1>3, <1>5, <1>6, <1>7, <1>8

LEMMA PlaceTyped ==
  ASSUME NEW p \in Nat
  PROVE  LineOf(p) \in Nat \ {0} /\ LineStart(p) \in 0..p /\ ColumnOf(p) \in Nat \ {0}
<1>1. LineOf(p) \in Nat \ {0}
  BY LineOfBreaks
<1>2. LineStart(p) \in 0..p
  BY LineStartGreatest
<1>3. ColumnOf(p) = 1 + (p - LineStart(p)) + Cardinality(Tabs(LineStart(p), p))
  BY DEF ColumnOf, Tabs
<1>4. Cardinality(Tabs(LineStart(p), p)) \in Nat
  BY <1>2, FiniteTabs
<1> QED
  BY <1>1, <1>2, <1>3, <1>4

(* The automaton of nextChar sees the line breaks of the text. *)
LEMMA BreakSeen ==
  ASSUME FileOK, NEW p \in Nat, p < Len(file)
  PROVE  /\ EndsLine(StateAt(p), CharAt(p + 1)) <=> BreakAfter(p + 1)
         /\ LineState(StateAt(p), CharAt(p + 1)) = StateAt(p + 1)
<1>1. Len(file) \in Nat /\ CharAt(p) = file[p + 1]
  BY LenNat DEF CharAt
<1>2. CharAt(p + 1) = IF p + 1 < Len(file) THEN file[p + 2] ELSE "EOF"
  BY DEF CharAt
<1>3. EndsLine(StateAt(p), CharAt(p + 1)) <=> BreakAfter(p + 1)
  <2>1. BreakAfter(p + 1) <=> file[p + 1] = "LF" \/ (file[p + 1] = "CR" /\ ~(p + 1 < Len(file) /\ file[p + 2] = "LF"))
    BY DEF BreakAfter
  <2> QED
    BY <2>1, <1>1, <1>2 DEF EndsLine, StateAt
<1>4. LineState(StateAt(p), CharAt(p + 1)) = StateAt(p + 1)
  <2>1. StateAt(p) = "cr" <=> CharAt(p) = "CR"
    BY DEF StateAt
  <2>2. StateAt(p + 1) = IF CharAt(p + 1) = "CR" THEN "cr"
          ELSE IF CharAt(p + 1) = "LF" THEN (IF CharAt(p) = "CR" THEN "crlf" ELSE "lf") ELSE "normal"
    BY DEF StateAt
  <2> QED
    BY <2>1, <2>2 DEF LineState
<1> QED
  BY <1>3, <1>4

LEMMA StartsStep ==
  ASSUME NEW p \in Nat, NEW starts \in Seq(Nat), NEW new, StartsOK(starts, p),
         new = IF BreakAfter(p + 1) THEN Append(starts, p + 1) ELSE starts
  PROVE  StartsOK(new, p + 1)
<1> USE DEF StartsOK
<1>1. LineOf(p) \in Nat \ {0} /\ Len(starts) \in Nat
  BY LineOfBreaks
<1>2. CASE BreakAfter(p + 1)
  <2>1. LineOf(p + 1) = LineOf(p) + 1 /\ LineStart(p + 1) = p + 1
    BY <1>2, BreakStep
  <2>2. /\ Len(new) = Len(starts) + 1 /\ new[Len(starts) + 1] = p + 1
        /\ \A k \in 1..Len(starts) : new[k] = starts[k]
    BY <1>2, AppendProperties
  <2>3. ASSUME NEW o \in 0..(p + 1) PROVE LineOf(o) \in 1..Len(new) /\ new[LineOf(o)] = LineStart(o)
    <3>1. CASE o = p + 1
      BY <3>1, <2>1, <2>2, <1>1
    <3>2. CASE o \in 0..p
      <4>1. LineOf(o) \in 1..Len(starts) /\ starts[LineOf(o)] = LineStart(o)
        BY <3>2
      <4> QED
        BY <4>1, <2>2, <1>1
    <3> QED
      BY <3>1, <3>2
  <2> QED
    BY <2>1, <2>2, <2>3
<1>3. CASE ~BreakAfter(p + 1)
  <2>1. LineOf(p + 1) = LineOf(p) /\ LineStart(p + 1) = LineStart(p)
    BY <1>3, PlainStep
  <2>2. new = starts
    BY <1>3
  <2>3. ASSUME NEW o \in 0..(p + 1) PROVE LineOf(o) \in 1..Len(starts) /\ starts[LineOf(o)] = LineStart(o)
    <3>1. CASE o = p + 1
      <4>1. p \in 0..p
        OBVIOUS
      <4> QED
        BY <3>1, <4>1, <2>1
    <3>2. CASE o \in 0..p
      BY <3>2
    <3> QED
      BY <3>1, <3>2
  <2> QED
    BY <2>1, <2>2, <2>3
<1> QED
  BY <1>2, <1>3

(* nextChar keeps the invariant of the reader, up to the end of the file. *)
LEMMA NextCharKeeps ==
  ASSUME FileOK, NEW c, ReaderInv(c), Offset(c) < Len(file), NEW d, d = NextChar(c)
  PROVE  ReaderInv(d) /\ Offset(d) = Offset(c) + 1
<1> DEFINE p == Offset(c)
<1>1. /\ Buffered(c) /\ c.pos > 0 /\ c.last = CharAt(p) /\ Placed(c, p)
  BY DEF ReaderInv
<1>2. c \in Readers
  BY <1>1 DEF Buffered
<1>3. Len(file) \in Nat /\ c.start \in Nat /\ c.pos \in Nat /\ c.starts \in Seq(Nat)
  BY <1>2, LenNat, ReaderFields
<1>4. p = c.start + c.pos - 1
  BY DEF Offset
<1> HIDE DEF p
<1>5. p \in Nat /\ p < Len(file) /\ c.start + c.pos = p + 1
  BY <1>1, <1>3, <1>4 DEF p
<1>6. /\ Buffered(d) /\ d.start + d.pos = (c.start + c.pos) + 1 /\ d.pos > 0
      /\ d.last = CharAt(c.start + c.pos)
      /\ d.lineState = LineState(c.lineState, d.last)
      /\ d.line = NextLine(c, d.last)
      /\ d.column = NextColumn(c, d.last)
      /\ d.starts = NextStarts(c, d.last)
  BY <1>1, <1>3, <1>5, NextCharReads
<1>7. d \in Readers
  BY <1>6 DEF Buffered
<1>8. Offset(d) = p + 1
  <2>1. d.start \in Nat /\ d.pos \in Nat
    BY <1>7, ReaderFields
  <2> QED
    BY <2>1, <1>5, <1>6 DEF Offset
<1>9. d.last = CharAt(p + 1)
  BY <1>5, <1>6
<1>10. c.lineState = StateAt(p) /\ c.line = LineOf(p) /\ c.column = ColumnOf(p) /\ StartsOK(c.starts, p)
  BY <1>1 DEF Placed
<1>11. (EndsLine(c.lineState, d.last) <=> BreakAfter(p + 1)) /\ d.lineState = StateAt(p + 1)
  BY <1>5, <1>6, <1>9, <1>10, BreakSeen
<1>12. c.last = file[p + 1]
  BY <1>1, <1>5 DEF CharAt
<1>13. d.line = LineOf(p + 1) /\ d.column = ColumnOf(p + 1)
  BY <1>5, <1>6, <1>10, <1>11, <1>12, BreakStep, PlainStep DEF NextLine, NextColumn
<1>14. d.starts = IF BreakAfter(p + 1) THEN Append(c.starts, p + 1) ELSE c.starts
  BY <1>5, <1>6, <1>11 DEF NextStarts
<1>15. StartsOK(d.starts, p + 1)
  BY <1>3, <1>5, <1>10, <1>14, StartsStep
<1>16. Placed(d, p + 1)
  BY <1>11, <1>13, <1>15 DEF Placed
<1>17. ReaderInv(d)
  BY <1>6, <1>8, <1>9, <1>16 DEF ReaderInv
<1> QED
  BY <1>8, <1>17 DEF p

LEMMA FirstPlace == LineOf(0) = 1 /\ LineStart(0) = 0 /\ ColumnOf(0) = 1
<1>1. Breaks(0) = {}
  BY DEF Breaks
<1>2. LineOf(0) = 1
  <2>1. Cardinality(Breaks(0)) = 0
    BY <1>1, FS_EmptySet
  <2> QED
    BY <2>1, LineOfBreaks
<1>3. LineStart(0) = 0
  BY <1>1, LineStartIs
<1>4. Tabs(0, 0) = {}
  BY DEF Tabs
<1>5. Cardinality(Tabs(0, 0)) = 0
  BY <1>4, FS_EmptySet
<1>6. ColumnOf(0) = 1 + (0 - 0) + Cardinality(Tabs(0, 0))
  BY <1>3 DEF ColumnOf, Tabs
<1> QED
  BY <1>2, <1>3, <1>5, <1>6

(* The constructor reads the first character. *)
LEMMA FirstCharKeeps ==
  ASSUME FileOK, NEW d, d = NextChar(ReadIntoBuffer(NewReader))
  PROVE  ReaderInv(d) /\ Offset(d) = 0
<1> DEFINE b == ReadIntoBuffer(NewReader)
<1>1. /\ NewReader \in Readers /\ NewReader.start = 0 /\ NewReader.size = 0 /\ NewReader.last = "NUL"
      /\ NewReader.lineState = "normal" /\ NewReader.line = 1 /\ NewReader.column = 0
      /\ NewReader.starts = <<0>>
  BY DEF NewReader, Readers, LineStates
<1>2. NewReader.start + NewReader.size <= Len(file)
  BY <1>1, LenNat
<1>3. /\ Buffered(b) /\ b.start = NewReader.start + NewReader.size /\ b.pos = 0
      /\ b.last = NewReader.last /\ b.lineState = NewReader.lineState /\ b.line = NewReader.line
      /\ b.column = NewReader.column /\ b.starts = NewReader.starts
  BY <1>1, <1>2, Refilled
<1> HIDE DEF b
<1>4. /\ Buffered(b) /\ b.start = 0 /\ b.pos = 0 /\ b.last = "NUL" /\ b.lineState = "normal"
      /\ b.line = 1 /\ b.column = 0 /\ b.starts = <<0>>
  BY <1>1, <1>3
<1>5. b.start + b.pos = 0 /\ b.start + b.pos <= Len(file) /\ d = NextChar(b)
  BY <1>4, LenNat DEF b
<1>6. /\ Buffered(d) /\ d.start + d.pos = (b.start + b.pos) + 1 /\ d.pos > 0
      /\ d.last = CharAt(b.start + b.pos)
      /\ d.lineState = LineState(b.lineState, d.last)
      /\ d.line = NextLine(b, d.last)
      /\ d.column = NextColumn(b, d.last)
      /\ d.starts = NextStarts(b, d.last)
  BY <1>4, <1>5, NextCharReads
<1>7. d \in Readers
  BY <1>6 DEF Buffered
<1>8. Offset(d) = 0 /\ d.last = CharAt(0)
  <2>1. d.start \in Nat /\ d.pos \in Nat
    BY <1>7, ReaderFields
  <2> QED
    BY <2>1, <1>5, <1>6 DEF Offset
<1>9. ~EndsLine(b.lineState, d.last)
  BY <1>4 DEF EndsLine
<1>10. d.line = 1 /\ d.column = 1 /\ d.starts = <<0>>
  BY <1>4, <1>6, <1>9 DEF NextLine, NextColumn, NextStarts
<1>11. d.lineState = StateAt(0)
  BY <1>4, <1>6, <1>8 DEF StateAt, LineState
<1>12. Placed(d, 0)
  <2>1. Len(d.starts) = 1 /\ d.starts[1] = 0
    BY <1>10
  <2> QED
    BY <2>1, <1>10, <1>11, FirstPlace DEF Placed, StartsOK
<1> QED
  BY <1>6, <1>8, <1>12 DEF ReaderInv

(* The file does not change. *)
LEMMA SameText ==
  ASSUME file' = file
  PROVE  /\ \A o : LineOf(o)' = LineOf(o) /\ LineStart(o)' = LineStart(o) /\ ColumnOf(o)' = ColumnOf(o)
         /\ \A o : CharAt(o)' = CharAt(o) /\ StateAt(o)' = StateAt(o) /\ CommentEnds(o)' = CommentEnds(o)
         /\ \A o, p : Blank(o, p)' <=> Blank(o, p)
         /\ \A o, p : AsciiOnly(o, p)' <=> AsciiOnly(o, p)
<1>1. ASSUME NEW o PROVE LineStart(o)' = LineStart(o)
  BY DEF LineStart, BreakAfter
<1>2. ASSUME NEW o PROVE LineOf(o)' = LineOf(o)
  BY DEF LineOf, BreakAfter
<1>3. ASSUME NEW o PROVE ColumnOf(o)' = ColumnOf(o)
  BY DEF ColumnOf, LineStart, BreakAfter
<1>4. ASSUME NEW o PROVE CharAt(o)' = CharAt(o)
  BY DEF CharAt
<1>5. ASSUME NEW o PROVE StateAt(o)' = StateAt(o)
  BY DEF StateAt, CharAt
<1>6. ASSUME NEW o, NEW p PROVE AsciiOnly(o, p)' <=> AsciiOnly(o, p)
  BY DEF AsciiOnly, HighBit
<1>7. ASSUME NEW o PROVE CommentEnds(o)' = CommentEnds(o)
  BY DEF CommentEnds
<1>8. ASSUME NEW o, NEW p PROVE Blank(o, p)' <=> Blank(o, p)
  BY DEF Blank, Behind, CommentEnds, AsciiOnly, HighBit
<1> QED
  BY <1>1, <1>2, <1>3, <1>4, <1>5, <1>6, <1>7, <1>8
-----------------------------------------------------------------------------
(*                              The quoted line                            *)

(* What holds of 0, and of k if it holds of k - 1, holds up to n. *)
LEMMA UpTo ==
  ASSUME NEW n \in Nat, NEW S, 0 \in S, \A k \in 1..n : k - 1 \in S => k \in S
  PROVE  \A k \in 0..n : k \in S
<1> DEFINE T == {k \in 0..n : k \notin S}
<1> SUFFICES ASSUME T # {} PROVE FALSE
  OBVIOUS
<1>1. PICK k \in T : \A j \in T : k <= j
  <2>1. T \subseteq Nat
    OBVIOUS
  <2> HIDE DEF T
  <2> QED
    BY <2>1, LeastIn
<1>2. k \in 1..n /\ k \notin S
  OBVIOUS
<1>3. k - 1 \in 0..n /\ k - 1 \notin T
  BY <1>1, <1>2
<1> QED
  BY <1>2, <1>3

Columns(ch) == CASE ch = "TAB" -> <<"SP", "SP">> [] HighBit(ch) -> <<"QUEST">> [] OTHER -> <<ch>>
Shown(ch) == IF HighBit(ch) THEN "QUEST" ELSE ch
Stops(ls) ==
  {o \in ls .. Len(file) - 1 : file[o + 1] \in {"CR", "LF"}} \cup {Len(file), ls + MaxLineLength - 1}

(* The quoted line, one character of the file after the other. *)
Quoting(n, g, ls) == g = [o \in ls..n |-> IF o = ls THEN <<>> ELSE g[o - 1] \o Columns(file[o])]

LEMMA QuotingExists ==
  ASSUME NEW ls \in Nat, NEW n \in Nat, ls <= n PROVE \E g : Quoting(n, g, ls)
<1> DEFINE S == {k \in Nat : \E g : Quoting(ls + k, g, ls)}
<1>1. 0 \in S
  <2> DEFINE g == [o \in ls..ls |-> <<>>]
  <2>1. Quoting(ls, g, ls)
    BY DEF Quoting
  <2>2. ls + 0 = ls
    OBVIOUS
  <2> QED
    BY <2>1, <2>2
<1>2. ASSUME NEW k \in Nat \ {0}, k - 1 \in S PROVE k \in S
  <2>1. PICK g : Quoting(ls + (k - 1), g, ls)
    BY <1>2
  <2> DEFINE m == ls + k
             h == [o \in ls..m |-> IF o = m THEN g[m - 1] \o Columns(file[m]) ELSE g[o]]
  <2>2. m \in Nat /\ ls < m /\ ls + (k - 1) = m - 1
    OBVIOUS
  <2> HIDE DEF m
  <2>3. ASSUME NEW o \in ls..m PROVE h[o] = IF o = ls THEN <<>> ELSE h[o - 1] \o Columns(file[o])
    <3>1. o # ls => h[o - 1] = g[o - 1]
      BY <2>2
    <3>2. o # m => g[o] = IF o = ls THEN <<>> ELSE g[o - 1] \o Columns(file[o])
      <4>1. o # m => o \in ls..(m - 1)
        BY <2>2
      <4>2. g = [x \in ls..(m - 1) |-> IF x = ls THEN <<>> ELSE g[x - 1] \o Columns(file[x])]
        BY <2>1, <2>2 DEF Quoting
      <4> QED
        BY <4>1, <4>2
    <3> QED
      BY <3>1, <3>2, <2>2
  <2>4. Quoting(m, h, ls)
    BY <2>3 DEF Quoting
  <2> QED
    BY <2>4 DEF m
<1>3. n - ls \in Nat /\ ls + (n - ls) = n
  OBVIOUS
<1>4. \A k \in 1..(n - ls) : k - 1 \in S => k \in S
  BY <1>2
<1>5. \A k \in 0..(n - ls) : k \in S
  <2> HIDE DEF S
  <2> QED
    BY <1>1, <1>3, <1>4, UpTo
<1>6. n - ls \in S
  BY <1>3, <1>5
<1> QED
  BY <1>3, <1>6

LEMMA QuotedLoop ==
  ASSUME FileOK, NEW ls \in Nat, ls <= Len(file), NEW lineNr, cur.starts[lineNr] = ls
  PROVE  \E g : /\ g[ls] = <<>>
                /\ \A o \in (ls + 1)..Len(file) : g[o] = g[o - 1] \o Columns(file[o])
                /\ CurrentLine(lineNr) = g[Min(Stops(ls))]
<1> DEFINE f == CHOOSE g : Quoting(Len(file), g, ls)
<1>1. Quoting(Len(file), f, ls)
  BY QuotingExists, LenNat
<1>2. CurrentLine(lineNr) = f[Min(Stops(ls))]
  BY DEF CurrentLine, Quoting, Stops, Columns
<1> HIDE DEF f
<1>3. f[ls] = <<>> /\ \A o \in (ls + 1)..Len(file) : f[o] = f[o - 1] \o Columns(file[o])
  <2>1. Len(file) \in Nat /\ f = [o \in ls..Len(file) |-> IF o = ls THEN <<>> ELSE f[o - 1] \o Columns(file[o])]
    BY <1>1, LenNat DEF Quoting
  <2>2. \A o \in ls..Len(file) : f[o] = IF o = ls THEN <<>> ELSE f[o - 1] \o Columns(file[o])
    BY <2>1, Zenon
  <2>3. f[ls] = <<>>
    BY <2>1, <2>2
  <2>4. ASSUME NEW o \in (ls + 1)..Len(file) PROVE f[o] = f[o - 1] \o Columns(file[o])
    <3>1. o \in ls..Len(file) /\ o # ls
      BY <2>1
    <3> QED
      BY <3>1, <2>2, Zenon
  <2> QED
    BY <2>3, <2>4
<1> QED
  BY <1>2, <1>3

QuotedMore(t, s, ch) ==
  /\ t \in Seq(Characters) /\ Len(t) = Len(s) + (IF ch = "TAB" THEN 2 ELSE 1)
  /\ \A k \in 1..Len(s) : t[k] = s[k]
  /\ ch # "TAB" => t[Len(s) + 1] = Shown(ch)
LEMMA QuoteStep ==
  ASSUME NEW s \in Seq(Characters), NEW ch \in Characters, NEW t, t = s \o Columns(ch)
  PROVE  QuotedMore(t, s, ch)
<1> USE DEF QuotedMore
<1>1. CASE ch = "TAB"
  <2>1. t = s \o <<"SP", "SP">>
    BY <1>1 DEF Columns, HighBit
  <2>2. "SP" \in Characters
    BY DEF Characters, Spaces
  <2>3. <<"SP", "SP">> \in Seq(Characters) /\ Len(<<"SP", "SP">>) = 2
    BY <2>2
  <2> HIDE DEF Characters
  <2> QED
    BY <2>1, <2>3, <1>1, ConcatProperties
<1>2. CASE ch # "TAB"
  <2>1. Columns(ch) = <<Shown(ch)>>
    BY <1>2 DEF Columns, Shown
  <2>2. Shown(ch) \in Characters
    BY DEF Shown, Characters, SingleCharOps
  <2> QED
    BY <2>1, <2>2, <1>2, Extended
<1> QED
  BY <1>1, <1>2

(* The column of a character is its place in the quoted line. *)
LEMMA QuotedPlace ==
  ASSUME FileOK, NEW from \in Nat, from < Len(file), file[from + 1] # "TAB",
         NEW g, g[LineStart(from)] = <<>>,
         \A o \in (LineStart(from) + 1)..Len(file) : g[o] = g[o - 1] \o Columns(file[o]),
         NEW m \in (from + 1)..Len(file)
  PROVE  /\ g[m] \in Seq(Characters) /\ ColumnOf(from) <= Len(g[m])
         /\ g[m][ColumnOf(from)] = Shown(file[from + 1])
<1> DEFINE ls == LineStart(from)
           n == Len(file) - ls
           col == ColumnOf(from)
           S == {k \in Nat : /\ g[ls + k] \in Seq(Characters)
                             /\ ls + k <= from => Len(g[ls + k]) = k + Cardinality(Tabs(ls, ls + k))
                             /\ from < ls + k => col <= Len(g[ls + k]) /\ g[ls + k][col] = Shown(file[from + 1])}
<1>1. ls \in 0..from /\ Len(file) \in Nat /\ n \in Nat
  <2>1. ls \in 0..from /\ Len(file) \in Nat
    BY PlaceTyped, LenNat
  <2> HIDE DEF ls
  <2> QED
    BY <2>1
<1>12. ls \in Nat
  BY <1>1
<1>2. col = 1 + (from - ls) + Cardinality(Tabs(ls, from)) /\ col \in Nat \ {0}
  BY PlaceTyped DEF ColumnOf, Tabs
<1>3. \A o \in (ls + 1)..Len(file) : g[o] = g[o - 1] \o Columns(file[o]) /\ file[o] \in Characters
  <2>1. ASSUME NEW o \in (ls + 1)..Len(file) PROVE file[o] \in Characters
    <3> HIDE DEF ls
    <3>1. o \in 1..Len(file)
      BY <1>1
    <3> QED
      BY <3>1, ElementOfSeq DEF FileOK
  <2> QED
    BY <2>1
<1>4. g[ls] = <<>>
  OBVIOUS
<1> HIDE DEF ls, n, col
<1>5. 0 \in S
  <2>1. ls + 0 = ls
    BY <1>1
  <2>2. Tabs(ls, ls) = {}
    BY <1>1 DEF Tabs
  <2>3. Cardinality(Tabs(ls, ls)) = 0
    BY <2>2, FS_EmptySet
  <2>4. <<>> \in Seq(Characters) /\ Len(<<>>) = 0
    OBVIOUS
  <2>5. g[ls + 0] \in Seq(Characters) /\ Len(g[ls + 0]) = 0
    BY <2>1, <2>4, <1>4
  <2>6. Cardinality(Tabs(ls, ls + 0)) = 0
    BY <2>1, <2>3
  <2>7. ~(from < ls + 0)
    BY <2>1, <1>1
  <2> QED
    BY <2>5, <2>6, <2>7
<1>6. ASSUME NEW k \in 1..n, k - 1 \in S PROVE k \in S
  <2> DEFINE o == ls + k
             s == g[o - 1]
             t == g[o]
  <2>1. o \in (ls + 1)..Len(file) /\ ls + (k - 1) = o - 1 /\ o - 1 \in Nat
    BY <1>1 DEF n
  <2>2. /\ s \in Seq(Characters)
        /\ o - 1 <= from => Len(s) = (k - 1) + Cardinality(Tabs(ls, o - 1))
        /\ from < o - 1 => col <= Len(s) /\ s[col] = Shown(file[from + 1])
    BY <1>6, <2>1
  <2>3. t = s \o Columns(file[o]) /\ file[o] \in Characters
    BY <2>1, <1>3
  <2> HIDE DEF s, t, o
  <2>4. /\ t \in Seq(Characters) /\ Len(t) = Len(s) + (IF file[o] = "TAB" THEN 2 ELSE 1)
        /\ \A j \in 1..Len(s) : t[j] = s[j]
        /\ file[o] # "TAB" => t[Len(s) + 1] = Shown(file[o])
    <3>1. QuotedMore(t, s, file[o])
      BY <2>2, <2>3, QuoteStep, Zenon
    <3> QED
      BY <3>1 DEF QuotedMore
  <2>5. Len(s) \in Nat /\ Len(t) \in Nat
    BY <2>2, <2>4
  <2>6. o <= from => Len(t) = k + Cardinality(Tabs(ls, o))
    <3>1. o \in Nat /\ o - 1 \in Nat /\ ls < o
      BY <2>1, <1>12
    <3>2. Cardinality(Tabs(ls, o)) = IF file[o] = "TAB" THEN Cardinality(Tabs(ls, o - 1)) + 1
                                     ELSE Cardinality(Tabs(ls, o - 1))
      BY <3>1, <1>12, TabStepBack
    <3>3. Cardinality(Tabs(ls, o - 1)) \in Nat
      BY <3>1, <1>12, FiniteTabs
    <3> QED
      BY <3>2, <3>3, <2>1, <2>2, <2>4, <2>5
  <2>7. from < o => col <= Len(t) /\ t[col] = Shown(file[from + 1])
    <3>1. CASE from < o - 1
      BY <3>1, <2>2, <2>4, <2>5, <1>2
    <3>2. CASE from = o - 1
      <4>1. Len(s) = (from - ls) + Cardinality(Tabs(ls, from))
        BY <3>2, <2>1, <2>2, <1>1 DEF o
      <4>2. col = Len(s) + 1
        BY <4>1, <1>1, <1>2, FiniteTabs
      <4>3. file[o] = file[from + 1] /\ file[o] # "TAB"
        BY <3>2, <2>1, <1>1
      <4> QED
        BY <4>2, <4>3, <2>4, <2>5
    <3> QED
      BY <3>1, <3>2, <2>1, <1>1
  <2> QED
    BY <2>4, <2>6, <2>7 DEF o, t
<1>7. \A k \in 0..n : k \in S
  <2> HIDE DEF S
  <2> QED
    BY <1>1, <1>5, <1>6, UpTo
<1>8. m - ls \in 0..n /\ ls + (m - ls) = m /\ from < m
  BY <1>1 DEF n
<1>9. m - ls \in S
  BY <1>7, <1>8
<1> QED
  BY <1>8, <1>9 DEF col

(* No line break stands before the character in its line. *)
LEMMA StopBehind ==
  ASSUME FileOK, NEW from \in Nat, from < Len(file), file[from + 1] \notin {"CR", "LF"},
         from - LineStart(from) < MaxLineLength - 1
  PROVE  Min(Stops(LineStart(from))) \in (from + 1)..Len(file)
<1> DEFINE ls == LineStart(from)
           S == Stops(ls)
<1>1. ls \in 0..from /\ Len(file) \in Nat /\ MaxLineLength \in Nat
  BY PlaceTyped, LenNat, BufferAssumption
<1>2. ASSUME NEW o \in ls..from PROVE file[o + 1] \notin {"CR", "LF"}
  <2>1. CASE o = from
    BY <2>1
  <2>2. CASE o < from
    <3>1. \A b \in 1..from : BreakAfter(b) => b <= ls
      BY LineStartGreatest DEF Breaks
    <3>2. o + 1 \in 1..from /\ o + 1 > ls
      BY <2>2, <1>1
    <3>3. ~BreakAfter(o + 1)
      BY <3>1, <3>2, <1>1
    <3>4. file[o + 1] # "LF" /\ (file[o + 1] = "CR" => o + 1 < Len(file) /\ file[(o + 1) + 1] = "LF")
      BY <3>3 DEF BreakAfter
    <3>5. CASE file[o + 1] = "CR" /\ o + 1 < from
      <4>1. o + 2 \in 1..from /\ o + 2 > ls /\ file[o + 2] = "LF"
        BY <3>2, <3>4, <3>5, <1>1
      <4>2. BreakAfter(o + 2)
        BY <4>1 DEF BreakAfter
      <4> QED
        BY <4>1, <4>2, <3>1, <1>1
    <3>6. CASE file[o + 1] = "CR" /\ o + 1 = from
      BY <3>4, <3>6
    <3> QED
      BY <3>2, <3>4, <3>5, <3>6, <1>1
  <2> QED
    BY <2>1, <2>2, <1>1
<1>3. S \subseteq Nat /\ Len(file) \in S /\ \A o \in S : from + 1 <= o
  <2>1. S = {o \in ls .. Len(file) - 1 : file[o + 1] \in {"CR", "LF"}} \cup {Len(file), ls + MaxLineLength - 1}
    BY DEF Stops
  <2> HIDE DEF S, ls
  <2>2. ls + MaxLineLength - 1 \in Nat /\ from + 1 <= ls + MaxLineLength - 1
    BY <1>1 DEF ls
  <2>3. ASSUME NEW o \in ls .. Len(file) - 1, file[o + 1] \in {"CR", "LF"} PROVE o \in Nat /\ from + 1 <= o
    <3>1. o \notin ls..from
      BY <2>3, <1>2
    <3> QED
      BY <3>1, <1>1
  <2> QED
    BY <2>1, <2>2, <2>3, <1>1
<1> HIDE DEF S
<1>4. \E x \in S : \A y \in S : x <= y
  BY <1>3, LeastIn
<1>5. Min(S) = CHOOSE x \in S : \A y \in S : x <= y
  BY DEF Min
<1>6. Min(S) \in S /\ \A y \in S : Min(S) <= y
  BY <1>4, <1>5
<1>7. Min(S) \in (from + 1)..Len(file)
  <2>1. Min(S) \in Nat /\ from + 1 <= Min(S) /\ Min(S) <= Len(file)
    BY <1>3, <1>6
  <2> HIDE DEF ls
  <2> QED
    BY <2>1, <1>1
<1> QED
  BY <1>7 DEF S, ls

(* The line that a message quotes shows the character it is about. *)
LEMMA QuotedShows ==
  ASSUME FileOK, NEW from \in Nat, from < Len(file), file[from + 1] \notin Spaces,
         cur.starts[LineOf(from)] = LineStart(from)
  PROVE  Quoted(LineOf(from), ColumnOf(from), from, file[from + 1])
<1> DEFINE ls == LineStart(from)
           m == Min(Stops(ls))
           q == CurrentLine(LineOf(from))
<1> SUFFICES ASSUME from - ls < MaxLineLength - 1
             PROVE  ColumnOf(from) <= Len(q) /\ q[ColumnOf(from)] = Shown(file[from + 1])
  BY DEF Quoted, Shown
<1>1. ls \in Nat /\ ls <= Len(file) /\ Len(file) \in Nat
  BY PlaceTyped, LenNat
<1>2. file[from + 1] \notin {"CR", "LF"} /\ file[from + 1] # "TAB"
  BY DEF Spaces
<1>3. m \in (from + 1)..Len(file)
  BY <1>2, StopBehind
<1>4. PICK g : /\ g[ls] = <<>>
               /\ \A o \in (ls + 1)..Len(file) : g[o] = g[o - 1] \o Columns(file[o])
               /\ q = g[m]
  BY <1>1, QuotedLoop
<1> HIDE DEF m, q
<1> QED
  BY <1>2, <1>3, <1>4, QuotedPlace
-----------------------------------------------------------------------------
(*                                Operators                                *)

One(a) == <<a>>
Two(a, b) == <<a, b>>
Three(a, b, c) == <<a, b, c>>
Four(a, b, c, d) == <<a, b, c, d>>

LEMMA Tuples ==
  ASSUME NEW S, NEW s \in Seq(S)
  PROVE  /\ \A a : s = One(a) <=> Len(s) = 1 /\ s[1] = a
         /\ \A a, b : s = Two(a, b) <=> Len(s) = 2 /\ s[1] = a /\ s[2] = b
         /\ \A a, b, c : s = Three(a, b, c) <=> Len(s) = 3 /\ s[1] = a /\ s[2] = b /\ s[3] = c
         /\ \A a, b, c, d : s = Four(a, b, c, d) <=>
              Len(s) = 4 /\ s[1] = a /\ s[2] = b /\ s[3] = c /\ s[4] = d
<1>1. s = [i \in 1..Len(s) |-> s[i]] /\ Len(s) \in Nat
  OBVIOUS
<1>2. ASSUME NEW a PROVE s = One(a) <=> Len(s) = 1 /\ s[1] = a
  <2>1. One(a) = [i \in 1..1 |-> a]
    BY DEF One
  <2>2. s = One(a) => Len(s) = 1 /\ s[1] = a
    BY DEF One
  <2> QED
    BY <1>1, <2>1, <2>2
<1>3. ASSUME NEW a, NEW b PROVE s = Two(a, b) <=> Len(s) = 2 /\ s[1] = a /\ s[2] = b
  <2>1. Two(a, b) = [i \in 1..2 |-> IF i = 1 THEN a ELSE b]
    BY DEF Two
  <2>2. s = Two(a, b) => Len(s) = 2 /\ s[1] = a /\ s[2] = b
    BY DEF Two
  <2> QED
    BY <1>1, <2>1, <2>2
<1>4. ASSUME NEW a, NEW b, NEW c
      PROVE  s = Three(a, b, c) <=> Len(s) = 3 /\ s[1] = a /\ s[2] = b /\ s[3] = c
  <2>1. Three(a, b, c) = [i \in 1..3 |-> IF i = 1 THEN a ELSE IF i = 2 THEN b ELSE c]
    BY DEF Three
  <2>2. s = Three(a, b, c) => Len(s) = 3 /\ s[1] = a /\ s[2] = b /\ s[3] = c
    BY DEF Three
  <2> QED
    BY <1>1, <2>1, <2>2
<1>5. ASSUME NEW a, NEW b, NEW c, NEW d
      PROVE  s = Four(a, b, c, d) <=> Len(s) = 4 /\ s[1] = a /\ s[2] = b /\ s[3] = c /\ s[4] = d
  <2>1. Four(a, b, c, d) = [i \in 1..4 |-> IF i = 1 THEN a ELSE IF i = 2 THEN b ELSE IF i = 3 THEN c ELSE d]
    BY DEF Four
  <2>2. s = Four(a, b, c, d) => Len(s) = 4 /\ s[1] = a /\ s[2] = b /\ s[3] = c /\ s[4] = d
    BY DEF Four
  <2> QED
    BY <1>1, <2>1, <2>2
<1> QED
  BY <1>2, <1>3, <1>4, <1>5

EqOps == {"SLASH", "STAR", "PERCENT", "PLUS", "MINUS", "LT", "GT", "EQ", "BANG", "AMP", "VBAR", "CARET"}
TwiceOps == {"PLUS", "MINUS", "LT", "GT", "AMP", "VBAR"}
OneOps == SingleCharOps \cup OperatorStarts \cup {"SLASH"}

(* The operators, and what may follow a part of one, by their characters. *)
OperatorShape(s) ==
  \/ Len(s) = 1 /\ s[1] \in OneOps
  \/ Len(s) = 2 /\ s[1] \in EqOps /\ s[2] = "EQ"
  \/ Len(s) = 2 /\ s[1] \in TwiceOps /\ s[2] = s[1]
  \/ Len(s) = 3 /\ s[1] = "LT" /\ s[2] = "LT" /\ s[3] = "EQ"
  \/ Len(s) = 3 /\ s[1] = "GT" /\ s[2] = "GT" /\ s[3] \in {"EQ", "GT"}
  \/ Len(s) = 4 /\ s[1] = "GT" /\ s[2] = "GT" /\ s[3] = "GT" /\ s[4] = "EQ"
FollowShape(s, ch) ==
  \/ Len(s) = 1 /\ s[1] \in EqOps /\ ch = "EQ"
  \/ Len(s) = 1 /\ s[1] \in TwiceOps /\ ch = s[1]
  \/ Len(s) = 2 /\ s[1] = "LT" /\ s[2] = "LT" /\ ch = "EQ"
  \/ Len(s) = 2 /\ s[1] = "GT" /\ s[2] = "GT" /\ ch \in {"EQ", "GT"}
  \/ Len(s) = 3 /\ s[1] = "GT" /\ s[2] = "GT" /\ s[3] = "GT" /\ ch = "EQ"

LEMMA OperatorsByShape ==
  ASSUME NEW s \in Seq(Characters) PROVE s \in Operators <=> OperatorShape(s)
<1>1. s \in Operators <=>
        \/ \E c \in OneOps : s = One(c)
        \/ \E c \in EqOps : s = Two(c, "EQ")
        \/ \E c \in TwiceOps : s = Two(c, c)
        \/ s = Three("LT", "LT", "EQ") \/ s = Three("GT", "GT", "EQ") \/ s = Three("GT", "GT", "GT")
        \/ s = Four("GT", "GT", "GT", "EQ")
  BY DEF Operators, OneOps, EqOps, TwiceOps, One, Two, Three, Four
<1> QED
  BY <1>1, Tuples DEF OperatorShape

LEMMA FollowByShape ==
  ASSUME NEW s \in Seq(Characters), NEW ch PROVE ch \in OperatorFollow(s) <=> FollowShape(s, ch)
<1>1. ch \in ArithmeticFollow(s) <=>
        \/ (s = One("SLASH") \/ s = One("STAR") \/ s = One("PERCENT")) /\ ch = "EQ"
        \/ s = One("PLUS") /\ ch \in {"EQ", "PLUS"}
        \/ s = One("MINUS") /\ ch \in {"EQ", "MINUS"}
  BY Tuples DEF ArithmeticFollow, One
<1>2. ch \in ComparisonFollow(s) <=>
        \/ s = One("LT") /\ ch \in {"EQ", "LT"}
        \/ (s = One("GT") \/ s = Two("GT", "GT")) /\ ch \in {"EQ", "GT"}
        \/ (s = Two("LT", "LT") \/ s = Three("GT", "GT", "GT")) /\ ch = "EQ"
  BY Tuples, SMTT(60) DEF ComparisonFollow, One, Two, Three
<1>3. ch \in LogicalFollow(s) <=>
        \/ (s = One("EQ") \/ s = One("BANG") \/ s = One("CARET")) /\ ch = "EQ"
        \/ s = One("AMP") /\ ch \in {"EQ", "AMP"}
        \/ s = One("VBAR") /\ ch \in {"EQ", "VBAR"}
  BY Tuples DEF LogicalFollow, One
<1> QED
  BY <1>1, <1>2, <1>3, Tuples DEF OperatorFollow, FollowShape, EqOps, TwiceOps
-----------------------------------------------------------------------------
(*                            The text of a token                          *)

Readings == {"word", "number", "operator"}
FollowOf(k, s) ==
  CASE k = "word" -> Alpha \cup Digits [] k = "number" -> NumberFollow(s) [] k = "operator" -> OperatorFollow(s)

(* What a reader of kind k has when the next character is last. *)
Spelled(k, s, last) ==
  /\ k = "word" => IsWord(s)
  /\ k = "number" => IsNumber(s)
  /\ k = "operator" => s \in Operators /\ (s = <<"SLASH">> => last # "STAR")

LEMMA Classes ==
  /\ Alpha \cap Digits = {} /\ Alpha \cap OneOps = {} /\ Digits \cap OneOps = {}
  /\ EqOps \subseteq OneOps /\ TwiceOps \subseteq OneOps
  /\ Spaces \cap (Alpha \cup Digits \cup OneOps) = {}
  BY DEF Alpha, Digits, Spaces, OneOps, EqOps, TwiceOps, SingleCharOps, OperatorStarts

(* The first character of a token tells its kind. *)
LEMMA FirstDecides ==
  ASSUME NEW s \in Seq(Characters)
  PROVE  /\ IsWord(s) => Len(s) > 0 /\ s[1] \in Alpha
         /\ IsNumber(s) => Len(s) > 0 /\ s[1] \in Digits
         /\ s \in Operators => Len(s) > 0 /\ s[1] \in OneOps
<1>1. IsNumber(s) => Len(s) > 0 /\ s[1] \in Digits
  BY DEF IsNumber
<1>2. s \in Operators => Len(s) > 0 /\ s[1] \in OneOps
  BY OperatorsByShape, Classes DEF OperatorShape, EqOps, OneOps, OperatorStarts
<1> QED
  BY <1>1, <1>2 DEF IsWord

(* s is a proper beginning of u, and last comes next in u. *)
Begins(s, u, last) ==
  /\ Len(s) < Len(u) /\ \A k \in 1..Len(s) : u[k] = s[k]
  /\ u[Len(s) + 1] = last

LEMMA OperatorLonger ==
  ASSUME NEW s \in Seq(Characters), NEW u \in Seq(Characters), NEW last, Begins(s, u, last), Len(s) > 0
  PROVE  /\ u \in Operators => last \in OperatorFollow(s)
         /\ s \in Operators /\ last \in OperatorFollow(s) /\ Len(u) = Len(s) + 1 => u \in Operators
<1>1. Len(s) \in Nat /\ Len(u) \in Nat
  OBVIOUS
<1>2. ASSUME u \in Operators PROVE last \in OperatorFollow(s)
  <2>1. OperatorShape(u)
    BY <1>2, OperatorsByShape
  <2>2. Len(u) \in 2..4 /\ Len(s) \in 1..3
    <3>1. Len(u) \in 1..4
      BY <2>1 DEF OperatorShape
    <3>2. Len(s) < Len(u)
      BY DEF Begins
    <3>3. \A a, b \in Nat : 0 < a /\ a < b /\ b \in 1..4 => b \in 2..4 /\ a \in 1..3
      OBVIOUS
    <3>4. 0 < Len(s)
      BY <1>1
    <3> QED
      BY <3>1, <3>2, <3>3, <3>4, <1>1, Zenon
  <2>3. FollowShape(s, last)
    <3>1. CASE Len(s) = 1
      BY <3>1, <2>1, <2>2 DEF OperatorShape, FollowShape, Begins, EqOps, TwiceOps
    <3>2. CASE Len(s) = 2
      BY <3>2, <2>1, <2>2 DEF OperatorShape, FollowShape, Begins
    <3>3. CASE Len(s) = 3
      BY <3>3, <2>1, <2>2 DEF OperatorShape, FollowShape, Begins
    <3> QED
      BY <3>1, <3>2, <3>3, <2>2
  <2> QED
    BY <2>3, FollowByShape
<1>3. ASSUME last \in OperatorFollow(s), Len(u) = Len(s) + 1 PROVE u \in Operators
  <2>1. FollowShape(s, last)
    BY <1>3, FollowByShape
  <2>2. OperatorShape(u)
    <3>1. CASE Len(s) = 1
      BY <3>1, <2>1, <1>3 DEF OperatorShape, FollowShape, Begins, EqOps, TwiceOps
    <3>2. CASE Len(s) = 2
      BY <3>2, <2>1, <1>3 DEF OperatorShape, FollowShape, Begins
    <3>3. CASE Len(s) = 3
      BY <3>3, <2>1, <1>3 DEF OperatorShape, FollowShape, Begins
    <3> QED
      BY <3>1, <3>2, <3>3, <2>1 DEF FollowShape
  <2> QED
    BY <2>2, OperatorsByShape
<1> QED
  BY <1>2, <1>3

(* A reader appends what its kind of token goes on with. *)
LEMMA SpelledGrows ==
  ASSUME NEW k \in Readings, NEW s \in Seq(Characters), NEW ch \in Characters, Spelled(k, s, ch),
         ch \in FollowOf(k, s), NEW u \in Seq(Characters), Begins(s, u, ch), Len(u) = Len(s) + 1, NEW last
  PROVE  Spelled(k, u, last)
<1>1. Len(s) \in Nat /\ \A i \in 1..Len(u) : i \in 1..Len(s) \/ i = Len(s) + 1
  OBVIOUS
<1>2. CASE k = "word"
  <2>1. IsWord(s) /\ ch \in Alpha \cup Digits
    BY <1>2 DEF Spelled, FollowOf
  <2>2. Len(u) > 0 /\ u[1] \in Alpha
    BY <2>1, <1>1 DEF IsWord, Begins
  <2>3. ASSUME NEW i \in 2..Len(u) PROVE u[i] \in Alpha \cup Digits
    <3>1. CASE i = Len(s) + 1
      BY <3>1, <2>1 DEF Begins
    <3>2. CASE i \in 2..Len(s)
      BY <3>2, <2>1 DEF Begins, IsWord
    <3> QED
      BY <3>1, <3>2, <1>1
  <2> QED
    BY <2>2, <2>3, <1>2 DEF Spelled, IsWord
<1>3. CASE k = "number"
  <2>1. IsNumber(s) /\ s # <<"0">> /\ ch \in Digits
    BY <1>3 DEF Spelled, FollowOf, NumberFollow
  <2>2. s[1] # "0"
    <3>1. s[1] = "0" => Len(s) = 1
      BY <2>1 DEF IsNumber
    <3>2. s # One("0")
      BY <2>1 DEF One
    <3> QED
      BY <3>1, <3>2, Tuples
  <2>3. Len(u) > 0 /\ u[1] # "0"
    BY <2>1, <2>2, <1>1 DEF IsNumber, Begins
  <2>4. ASSUME NEW i \in 1..Len(u) PROVE u[i] \in Digits
    <3>1. CASE i = Len(s) + 1
      BY <3>1, <2>1 DEF Begins
    <3>2. CASE i \in 1..Len(s)
      BY <3>2, <2>1 DEF Begins, IsNumber
    <3> QED
      BY <3>1, <3>2, <1>1
  <2> QED
    BY <2>3, <2>4, <1>3 DEF Spelled, IsNumber
<1>4. CASE k = "operator"
  <2>1. s \in Operators /\ ch \in OperatorFollow(s)
    BY <1>4 DEF Spelled, FollowOf
  <2>2. Len(s) > 0
    BY <2>1, FirstDecides
  <2>3. u \in Operators
    BY <2>1, <2>2, OperatorLonger
  <2>4. u # One("SLASH")
    BY <2>2, <1>1, Tuples
  <2> QED
    BY <2>3, <2>4, <1>4 DEF Spelled, One
<1> QED
  BY <1>2, <1>3, <1>4 DEF Readings

(* A reader stops only where no longer token goes on. *)
LEMMA SpelledMaximal ==
  ASSUME NEW k \in Readings, NEW s \in Seq(Characters), NEW last, Spelled(k, s, last),
         last \notin FollowOf(k, s), NEW u \in Seq(Characters), Begins(s, u, last)
  PROVE  ~IsToken(u)
<1>1. Len(s) \in Nat /\ Len(u) \in Nat
  OBVIOUS
<1>2. /\ IsWord(u) => u[1] \in Alpha
      /\ IsNumber(u) => u[1] \in Digits
      /\ u \in Operators => u[1] \in OneOps
  BY FirstDecides
<1>3. CASE k = "word"
  <2>1. IsWord(s) /\ last \notin Alpha \cup Digits
    BY <1>3 DEF Spelled, FollowOf
  <2>2. Len(s) > 0 /\ s[1] \in Alpha
    BY <2>1 DEF IsWord
  <2>3. u[1] = s[1]
    BY <2>2, <1>1 DEF Begins
  <2>4. ~IsWord(u)
    <3>1. Len(s) + 1 \in 2..Len(u)
      BY <2>2, <1>1 DEF Begins
    <3> QED
      BY <3>1, <2>1 DEF IsWord, Begins
  <2> QED
    BY <2>2, <2>3, <2>4, <1>2, Classes DEF IsToken
<1>4. CASE k = "number"
  <2>1. IsNumber(s) /\ last \notin NumberFollow(s)
    BY <1>4 DEF Spelled, FollowOf
  <2>2. Len(s) > 0 /\ s[1] \in Digits
    BY <2>1, FirstDecides
  <2>3. u[1] = s[1]
    BY <2>2, <1>1 DEF Begins
  <2>4. ~IsNumber(u)
    <3>1. CASE s = <<"0">>
      <4>1. s = One("0")
        BY <3>1 DEF One
      <4>2. Len(s) = 1 /\ s[1] = "0"
        BY <4>1, Tuples
      <4> QED
        BY <4>2, <2>3, <1>1 DEF IsNumber, Begins
    <3>2. CASE s # <<"0">>
      <4>1. last \notin Digits
        BY <3>2, <2>1 DEF NumberFollow
      <4>2. Len(s) + 1 \in 1..Len(u)
        BY <1>1 DEF Begins
      <4> QED
        BY <4>1, <4>2 DEF IsNumber, Begins
    <3> QED
      BY <3>1, <3>2
  <2> QED
    BY <2>2, <2>3, <2>4, <1>2, Classes DEF IsToken
<1>5. CASE k = "operator"
  <2>1. s \in Operators /\ last \notin OperatorFollow(s)
    BY <1>5 DEF Spelled, FollowOf
  <2>2. Len(s) > 0 /\ s[1] \in OneOps
    BY <2>1, FirstDecides
  <2>3. u[1] = s[1]
    BY <2>2, <1>1 DEF Begins
  <2>4. u \notin Operators
    BY <2>1, <2>2, OperatorLonger
  <2> QED
    BY <2>2, <2>3, <2>4, <1>2, Classes DEF IsToken
<1> QED
  BY <1>3, <1>4, <1>5 DEF Readings

LEMMA SpelledIsToken ==
  ASSUME NEW k \in Readings, NEW s \in Seq(Characters), NEW last, Spelled(k, s, last)
  PROVE  /\ IsToken(s) /\ Len(s) > 0
         /\ ~(s = <<"SLASH">> /\ last = "STAR")
         /\ k # "word" => s \notin Keywords
<1>1. IsToken(s)
  BY DEF Spelled, IsToken, Readings
<1>2. Len(s) > 0
  BY <1>1, FirstDecides DEF IsToken
<1>3. s = <<"SLASH">> => Len(s) = 1 /\ s[1] = "SLASH"
  BY Tuples DEF One
<1>4. "SLASH" \notin Alpha \cup Digits
  BY DEF Alpha, Digits
<1>5. ~(s = <<"SLASH">> /\ last = "STAR")
  BY <1>3, <1>4, FirstDecides DEF Spelled, Readings
<1>6. k # "word" => s \notin Keywords
  BY FirstDecides, Classes, TextAssumption DEF Spelled, Readings
<1> QED
  BY <1>1, <1>2, <1>5, <1>6

(* One character starts a token of its kind. *)
LEMMA FirstSpelled ==
  ASSUME NEW ch \in Alpha \cup Digits \cup OneOps, NEW k, NEW last, ch = "SLASH" => last # "STAR",
         k = CASE ch \in Alpha -> "word" [] ch \in Digits -> "number" [] OTHER -> "operator"
  PROVE  k \in Readings /\ Spelled(k, <<ch>>, last) /\ IsToken(<<ch>>)
<1>1. ch \in Characters
  BY DEF Characters, OneOps
<1>2. <<ch>> \in Seq(Characters) /\ <<ch>> = One(ch)
  BY <1>1 DEF One
<1>3. Len(<<ch>>) = 1 /\ <<ch>>[1] = ch
  OBVIOUS
<1>4. /\ ch \in Alpha => IsWord(<<ch>>)
      /\ ch \in Digits => IsNumber(<<ch>>)
  BY <1>3 DEF IsWord, IsNumber
<1>5. ch \in OneOps => <<ch>> \in Operators
  BY <1>2, <1>3, OperatorsByShape DEF OperatorShape
<1>6. <<ch>> = <<"SLASH">> => ch = "SLASH"
  BY <1>3
<1>7. CASE ch \in Alpha
  BY <1>7, <1>4 DEF Readings, Spelled, IsToken
<1>8. CASE ch \in Digits
  BY <1>8, <1>4, Classes DEF Readings, Spelled, IsToken
<1>9. CASE ch \in OneOps
  BY <1>9, <1>5, <1>6, Classes DEF Readings, Spelled, IsToken
<1> QED
  BY <1>7, <1>8, <1>9

(* No other character does. *)
LEMMA NoTokenStarts ==
  ASSUME NEW ch \in Characters, ch \notin Alpha \cup Digits \cup OneOps
  PROVE  ~IsToken(<<ch>>)
<1>1. <<ch>> \in Seq(Characters) /\ <<ch>>[1] = ch
  OBVIOUS
<1> QED
  BY <1>1, FirstDecides DEF IsToken
-----------------------------------------------------------------------------
(*                              The invariant                              *)

Kinds == {"keyword", "Identifier", "IntLiteral", "operator", "Eof"}
Tokens == [kind : Kinds, str : Seq(Characters), line : Nat, col : Nat, from : Nat, to : Nat]
Drafts == [str : Seq(Characters), line : Nat, col : Nat, from : Nat]

(* t is the token of the file behind offset before. *)
Tile(t, before) ==
  /\ t.from <= t.to /\ t.to <= Len(file)
  /\ Blank(before, t.from)
  /\ t.str = SubSeq(file, t.from + 1, t.to)
  /\ t.kind = "Eof" <=> t.from = Len(file)
  /\ t.kind # "Eof" => /\ IsToken(t.str)
                       /\ \A e \in t.to + 1 .. Len(file) : ~IsToken(SubSeq(file, t.from + 1, e))
                       /\ ~(t.str = <<"SLASH">> /\ t.to < Len(file) /\ file[t.to + 1] = "STAR")
  /\ t.kind = "keyword" <=> t.str \in Keywords
  /\ t.line = LineOf(t.from) /\ t.col = ColumnOf(t.from)

Before(st, i) == IF i = 1 THEN 0 ELSE st[i - 1].to
ReadTo(st) == IF st = <<>> THEN 0 ELSE st[Len(st)].to
Tiled(st, p) == \A i \in 1..Len(st) : Tile(st[i], Before(st, i)) /\ st[i].to <= p

(* The part of a token that has been read. *)
Reading(k, c, t, read) ==
  /\ t.from < Offset(c) /\ Blank(read, t.from)
  /\ t.str = SubSeq(file, t.from + 1, Offset(c))
  /\ t.line = LineOf(t.from) /\ t.col = ColumnOf(t.from)
  /\ Spelled(k, t.str, c.last)

Opens(s) == s + 2 <= Len(file) /\ file[s + 1] = "SLASH" /\ file[s + 2] = "STAR"
Closed(s, e) == e \in s + 4 .. Len(file) /\ file[e - 1] = "STAR" /\ file[e] = "SLASH"

(* A comment that starts at s and does not end before offset p + 2. *)
InComment(s, p, read) ==
  /\ s \in Nat /\ read <= s /\ Blank(read, s) /\ Opens(s) /\ s + 2 <= p
  /\ AsciiOnly(s, p)
  /\ \A d \in s + 4 .. p + 1 : ~Closed(s, d)

Justified(p, read) ==
  \/ /\ Blank(read, p) /\ p < Len(file)
     /\ ~IsToken(<<file[p + 1]>>) /\ file[p + 1] \notin Spaces
  \/ \E s \in read .. Len(file) :
       /\ Blank(read, s) /\ Opens(s)
       /\ \A e \in CommentEnds(s) : p < e
       /\ IF p < Len(file) THEN HighBit(file[p + 1]) ELSE CommentEnds(s) = {}

(* Where each loop of the scanner stands in the file. *)
Phase(k, c, t, read) ==
  /\ k = "idle" => Offset(c) = read
  /\ k = "skip" => Blank(read, Offset(c))
  /\ k = "comment" => InComment(t.from, Offset(c), read)
  /\ k \in Readings => Reading(k, c, t, read)
  /\ k = "error" => Justified(Offset(c), read)

(* What was peeked at comes next, and an active call appends behind it. *)
Queued(k, n, la, pk) ==
  /\ n \in 0..2
  /\ Len(pk) <= Len(la) /\ \A i \in 1..Len(pk) : pk[i] = la[i]
  /\ k \notin {"idle", "error"} => IF n = 0 THEN la = <<>> ELSE Len(pk) = n - 1 /\ Len(la) <= n

Typed(k, t, la, o, pk) ==
  /\ k \in {"idle", "skip", "comment", "error"} \cup Readings
  /\ t \in Drafts /\ la \in Seq(Tokens) /\ o \in Seq(Tokens) /\ pk \in Seq(Tokens)

Good(c, t, k, n, la, o, pk) ==
  /\ Typed(k, t, la, o, pk)
  /\ ReaderInv(c)
  /\ Tiled(o \o la, Offset(c))
  /\ Phase(k, c, t, ReadTo(o \o la))
  /\ Queued(k, n, la, pk)

LexInv == FileOK /\ Good(cur, tok, pc, call, lookahead, out, peeked)
-----------------------------------------------------------------------------
(*                           Blanks and comments                           *)

LEMMA BlankNothing == ASSUME NEW o \in Nat PROVE Blank(o, o)
  BY DEF Blank

LEMMA BlankFurther ==
  ASSUME NEW o \in Nat, NEW p \in Nat, NEW q \in Nat, Blank(o, p), q \in Behind(p), p <= q
  PROVE  Blank(o, q)
<1>1. o <= p
  BY DEF Blank
<1>2. ASSUME NEW S \in SUBSET (o..q), o \in S, \A x \in S : Behind(x) \cap o..q \subseteq S
      PROVE  q \in S
  <2> DEFINE T == S \cap o..p
  <2>1. T \in SUBSET (o..p) /\ o \in T
    BY <1>1, <1>2
  <2>2. ASSUME NEW x \in T PROVE Behind(x) \cap o..p \subseteq T
    <3>1. Behind(x) \cap o..q \subseteq S
      BY <1>2
    <3>2. o..p \subseteq o..q
      OBVIOUS
    <3> QED
      BY <3>1, <3>2
  <2>3. p \in T
    <3> HIDE DEF T
    <3> QED
      BY <2>1, <2>2 DEF Blank
  <2>4. Behind(p) \cap o..q \subseteq S
    BY <2>3, <1>2
  <2>5. q \in o..q
    BY <1>1
  <2> QED
    BY <2>4, <2>5
<1>3. o <= q
  BY <1>1
<1> QED
  BY <1>2, <1>3 DEF Blank

LEMMA SpaceBehind ==
  ASSUME NEW p \in Nat, p < Len(file), file[p + 1] \in Spaces PROVE p + 1 \in Behind(p)
  BY DEF Behind

LEMMA CommentEndsAre ==
  ASSUME NEW s \in Nat, Opens(s)
  PROVE  CommentEnds(s) = {e \in s + 4 .. Len(file) : Closed(s, e) /\ \A d \in s + 4 .. e - 1 : ~Closed(s, d)}
  BY DEF CommentEnds, Opens, Closed

LEMMA CommentClosed ==
  ASSUME FileOK, NEW s \in Nat, NEW p \in Nat, NEW r \in Nat, InComment(s, p, r), p + 2 <= Len(file),
         file[p + 1] = "STAR", file[p + 2] = "SLASH"
  PROVE  Blank(r, p + 2)
<1>1. Opens(s) /\ s + 2 <= p /\ AsciiOnly(s, p) /\ Blank(r, s) /\ \A d \in s + 4 .. p + 1 : ~Closed(s, d)
  BY DEF InComment
<1>2. Len(file) \in Nat /\ p + 2 \in s + 4 .. Len(file) /\ (p + 2) - 1 = p + 1
  BY <1>1, LenNat
<1>3. Closed(s, p + 2)
  BY <1>2 DEF Closed
<1>4. p + 2 \in CommentEnds(s)
  BY <1>1, <1>2, <1>3, CommentEndsAre
<1>5. AsciiOnly(s, p + 2)
  <2>1. ASSUME NEW o \in s + 1 .. p + 2 PROVE ~HighBit(file[o])
    <3>1. CASE o \in s + 1 .. p
      BY <3>1, <1>1 DEF AsciiOnly
    <3>2. CASE o = p + 1
      BY <3>2 DEF HighBit
    <3>3. CASE o = p + 2
      BY <3>3 DEF HighBit
    <3> QED
      BY <3>1, <3>2, <3>3
  <2> QED
    BY <2>1 DEF AsciiOnly
<1>6. p + 2 \in Behind(s)
  BY <1>4, <1>5 DEF Behind
<1>7. s <= p + 2 /\ p + 2 \in Nat
  BY <1>1
<1> QED
  BY <1>1, <1>6, <1>7, BlankFurther

(* One character further in a comment that does not end with it. *)
LEMMA CommentFurther ==
  ASSUME FileOK, NEW s \in Nat, NEW p \in Nat, NEW r \in Nat, InComment(s, p, r), p < Len(file),
         ~HighBit(file[p + 1]), file[p + 1] = "STAR" => CharAt(p + 1) # "SLASH"
  PROVE  InComment(s, p + 1, r)
<1>1. /\ r <= s /\ Opens(s) /\ s + 2 <= p /\ AsciiOnly(s, p) /\ Blank(r, s)
      /\ \A d \in s + 4 .. p + 1 : ~Closed(s, d)
  BY DEF InComment
<1>2. AsciiOnly(s, p + 1)
  <2>1. ASSUME NEW o \in s + 1 .. p + 1 PROVE ~HighBit(file[o])
    <3>1. CASE o \in s + 1 .. p
      BY <3>1, <1>1 DEF AsciiOnly
    <3>2. CASE o = p + 1
      BY <3>2
    <3> QED
      BY <3>1, <3>2
  <2> QED
    BY <2>1 DEF AsciiOnly
<1>3. ~Closed(s, p + 2)
  <2> SUFFICES ASSUME p + 2 \in s + 4 .. Len(file), file[(p + 2) - 1] = "STAR", file[p + 2] = "SLASH" PROVE FALSE
    BY DEF Closed
  <2>1. CharAt(p + 1) = file[p + 2] /\ (p + 2) - 1 = p + 1
    BY LenNat DEF CharAt
  <2> QED
    BY <2>1
<1>4. ASSUME NEW d \in s + 4 .. (p + 1) + 1 PROVE ~Closed(s, d)
  <2>1. d \in s + 4 .. p + 1 \/ d = p + 2
    OBVIOUS
  <2> QED
    BY <2>1, <1>1, <1>3
<1> QED
  BY <1>1, <1>2, <1>4 DEF InComment

LEMMA CommentStarts ==
  ASSUME FileOK, NEW s \in Nat, NEW r \in Nat, Blank(r, s), Opens(s) PROVE InComment(s, s + 2, r)
<1>1. r <= s
  BY DEF Blank
<1>2. AsciiOnly(s, s + 2)
  <2>1. ASSUME NEW o \in s + 1 .. s + 2 PROVE ~HighBit(file[o])
    <3>1. CASE o = s + 1
      BY <3>1 DEF Opens, HighBit
    <3>2. CASE o = s + 2
      BY <3>2 DEF Opens, HighBit
    <3> QED
      BY <3>1, <3>2
  <2> QED
    BY <2>1 DEF AsciiOnly
<1>3. s + 4 .. (s + 2) + 1 = {}
  OBVIOUS
<1> QED
  BY <1>1, <1>2, <1>3 DEF InComment

LEMMA CommentRefused ==
  ASSUME FileOK, NEW s \in Nat, NEW p \in 0..Len(file), NEW r \in Nat, InComment(s, p, r),
         p < Len(file) => HighBit(file[p + 1])
  PROVE  Justified(p, r)
<1>1. /\ r <= s /\ Opens(s) /\ s + 2 <= p /\ Blank(r, s) /\ \A d \in s + 4 .. p + 1 : ~Closed(s, d)
  BY DEF InComment
<1>2. Len(file) \in Nat /\ s \in r .. Len(file)
  BY <1>1, LenNat
<1>3. ASSUME NEW e \in CommentEnds(s) PROVE p + 1 < e /\ e <= Len(file)
  <2>1. e \in s + 4 .. Len(file) /\ Closed(s, e)
    BY <1>1, CommentEndsAre
  <2>2. e \notin s + 4 .. p + 1
    BY <2>1, <1>1
  <2> QED
    BY <2>1, <2>2, <1>2
<1>4. \A e \in CommentEnds(s) : p < e
  <2>1. ASSUME NEW e \in CommentEnds(s) PROVE p < e
    <3>1. e \in s + 4 .. Len(file)
      BY <1>1, CommentEndsAre
    <3> QED
      BY <3>1, <1>2, <1>3
  <2> QED
    BY <2>1
<1>5. p = Len(file) => CommentEnds(s) = {}
  <2>1. ASSUME p = Len(file), NEW e \in CommentEnds(s) PROVE FALSE
    <3>1. e \in s + 4 .. Len(file)
      BY <1>1, CommentEndsAre
    <3> QED
      BY <2>1, <3>1, <1>2, <1>3
  <2> QED
    BY <2>1
<1>6. ~(p < Len(file)) => p = Len(file)
  BY <1>2
<1> QED
  BY <1>1, <1>2, <1>4, <1>5, <1>6 DEF Justified
-----------------------------------------------------------------------------
(*                           Steps of the scanner                          *)

LEMMA ReaderAt ==
  ASSUME FileOK, NEW c, ReaderInv(c)
  PROVE  /\ Offset(c) \in 0..Len(file) /\ Offset(c) \in Nat /\ Len(file) \in Nat
         /\ IsEof(c) <=> Offset(c) = Len(file)
         /\ c.last = CharAt(Offset(c)) /\ c.last \in Characters
         /\ c.line = LineOf(Offset(c)) /\ c.column = ColumnOf(Offset(c))
         /\ Offset(c) < Len(file) => c.last = file[Offset(c) + 1]
         /\ c.last # "EOF" => Offset(c) < Len(file)
<1> DEFINE q == Offset(c)
<1>1. /\ Buffered(c) /\ c.pos > 0 /\ c.last = CharAt(q) /\ c.line = LineOf(q) /\ c.column = ColumnOf(q)
  BY DEF ReaderInv, Placed
<1>2. q \in 0..Len(file) /\ (IsEof(c) <=> q = Len(file)) /\ Len(file) \in Nat
  BY <1>1, AtEof, LenNat
<1> HIDE DEF q
<1>3. q < Len(file) => c.last = file[q + 1] /\ file[q + 1] \in Characters
  <2>1. q < Len(file) => q + 1 \in 1..Len(file)
    BY <1>2
  <2> QED
    BY <2>1, <1>1, ElementOfSeq DEF CharAt, FileOK
<1>4. ~(q < Len(file)) => c.last = "EOF"
  BY <1>1 DEF CharAt
<1>5. "EOF" \in Characters
  BY DEF Characters
<1>6. q \in Nat
  BY <1>2
<1> QED
  BY <1>1, <1>2, <1>3, <1>4, <1>5, <1>6 DEF q

LEMMA SameSeq ==
  ASSUME NEW S, NEW s \in Seq(S), NEW t \in Seq(S), Len(s) = Len(t), \A k \in 1..Len(s) : s[k] = t[k]
  PROVE  s = t
<1>1. s = [k \in 1..Len(s) |-> s[k]] /\ t = [k \in 1..Len(t) |-> t[k]]
  OBVIOUS
<1> QED
  BY <1>1

Text(m, n) == SubSeq(file, m + 1, n)

LEMMA TextFacts ==
  ASSUME FileOK, NEW m \in Nat, NEW n \in m..Len(file)
  PROVE  /\ Text(m, n) \in Seq(Characters) /\ Len(Text(m, n)) = n - m
         /\ \A k \in 1..(n - m) : Text(m, n)[k] = file[m + k]
  BY TextOf DEF FileOK, Text

LEMMA TextBegins ==
  ASSUME FileOK, NEW m \in Nat, NEW n \in m..Len(file), NEW e \in (n + 1)..Len(file)
  PROVE  Begins(Text(m, n), Text(m, e), file[n + 1])
<1>1. n \in Nat /\ e \in m..Len(file) /\ Len(file) \in Nat /\ n - m \in Nat /\ n < e
  BY LenNat
<1>2. /\ Len(Text(m, n)) = n - m /\ \A k \in 1..(n - m) : Text(m, n)[k] = file[m + k]
      /\ Len(Text(m, e)) = e - m /\ \A k \in 1..(e - m) : Text(m, e)[k] = file[m + k]
  BY <1>1, TextFacts
<1>3. n - m + 1 \in 1..(e - m) /\ m + (n - m + 1) = n + 1 /\ n - m < e - m /\ 1..(n - m) \subseteq 1..(e - m)
  BY <1>1
<1>4. Text(m, e)[n - m + 1] = file[n + 1]
  <2>1. Text(m, e)[n - m + 1] = file[m + (n - m + 1)]
    BY <1>2, <1>3, Zenon
  <2> QED
    BY <2>1, <1>3
<1>5. \A k \in 1..(n - m) : Text(m, e)[k] = Text(m, n)[k]
  <2>1. ASSUME NEW k \in 1..(n - m) PROVE Text(m, e)[k] = Text(m, n)[k]
    <3>1. k \in 1..(e - m)
      BY <1>3
    <3>2. Text(m, e)[k] = file[m + k] /\ Text(m, n)[k] = file[m + k]
      BY <3>1, <1>2, Zenon
    <3> QED
      BY <3>2, Zenon
  <2> QED
    BY <2>1
<1> QED
  BY <1>2, <1>3, <1>4, <1>5 DEF Begins

LEMMA AppendFacts ==
  ASSUME NEW S, NEW s \in Seq(S), NEW x \in S
  PROVE  /\ Append(s, x) \in Seq(S) /\ Len(Append(s, x)) = Len(s) + 1
         /\ \A k \in 1..Len(s) : Append(s, x)[k] = s[k]
         /\ Append(s, x)[Len(s) + 1] = x
  OBVIOUS

LEMMA TextGrows ==
  ASSUME FileOK, NEW m \in Nat, NEW n \in m..Len(file), n < Len(file)
  PROVE  Append(Text(m, n), file[n + 1]) = Text(m, n + 1)
<1> DEFINE s == Text(m, n)
           t == Text(m, n + 1)
           u == Append(s, file[n + 1])
<1>1. n \in Nat /\ n + 1 \in m..Len(file) /\ Len(file) \in Nat /\ n + 1 \in (n + 1)..Len(file) /\ n + 1 \in 1..Len(file)
  BY LenNat
<1>2. s \in Seq(Characters) /\ Len(s) = n - m /\ t \in Seq(Characters) /\ Len(t) = (n + 1) - m
  BY <1>1, TextFacts
<1>3. Begins(s, t, file[n + 1])
  BY <1>1, TextBegins
<1>4. file[n + 1] \in Characters
  BY <1>1, ElementOfSeq DEF FileOK
<1> HIDE DEF s, t
<1>5. /\ u \in Seq(Characters) /\ Len(u) = Len(s) + 1
      /\ \A k \in 1..Len(s) : u[k] = s[k]
      /\ u[Len(s) + 1] = file[n + 1]
  BY <1>2, <1>4, AppendFacts
<1> HIDE DEF u
<1>6. Len(u) = Len(t) /\ Len(s) \in Nat
  BY <1>1, <1>2, <1>5
<1>7. ASSUME NEW k \in 1..Len(u) PROVE u[k] = t[k]
  <2>1. k \in 1..Len(s) \/ k = Len(s) + 1
    BY <1>5, <1>6
  <2> QED
    BY <2>1, <1>3, <1>5 DEF Begins
<1>8. u = t
  BY <1>2, <1>5, <1>6, <1>7, SameSeq
<1> QED
  BY <1>8 DEF s, t, u

LEMMA TextFirst ==
  ASSUME FileOK, NEW m \in Nat, m < Len(file)
  PROVE  Text(m, m + 1) = <<file[m + 1]>> /\ Text(m, m) = <<>>
<1>1. m \in m..Len(file) /\ m + 1 \in m..Len(file) /\ (m + 1) - m = 1 /\ m - m = 0
  BY LenNat
<1>2. Text(m, m) \in Seq(Characters) /\ Len(Text(m, m)) = 0
  BY <1>1, TextFacts
<1>3. Text(m, m) = <<>>
  BY <1>2
<1>4. Text(m, m + 1) \in Seq(Characters) /\ Len(Text(m, m + 1)) = 1 /\ Text(m, m + 1)[1] = file[m + 1]
  <2>1. /\ Text(m, m + 1) \in Seq(Characters) /\ Len(Text(m, m + 1)) = (m + 1) - m
        /\ \A k \in 1..((m + 1) - m) : Text(m, m + 1)[k] = file[m + k]
    BY <1>1, TextFacts
  <2> QED
    BY <2>1, <1>1
<1>5. Text(m, m + 1) = One(file[m + 1])
  BY <1>4, Tuples
<1> QED
  BY <1>3, <1>5 DEF One

(* The place of a character, as initToken notes it. *)
LEMMA InitTokenFacts ==
  ASSUME FileOK, NEW c, ReaderInv(c), NEW str \in Seq(Characters),
         NEW t, t = [str |-> str, line |-> c.line, col |-> c.column, from |-> Offset(c)]
  PROVE  /\ t \in Drafts /\ t.str = str /\ t.from = Offset(c)
         /\ t.line = LineOf(Offset(c)) /\ t.col = ColumnOf(Offset(c))
<1>1. /\ Offset(c) \in Nat /\ c.line = LineOf(Offset(c)) /\ c.column = ColumnOf(Offset(c))
  BY ReaderAt
<1>2. c.line \in Nat /\ c.column \in Nat
  BY <1>1, PlaceTyped
<1> QED
  BY <1>1, <1>2 DEF Drafts

(* The first character of a token, or the slash that opens no comment. *)
LEMMA ReadingStarts ==
  ASSUME FileOK, NEW c, ReaderInv(c), NEW r \in Nat, Blank(r, Offset(c)), c.last \in Alpha \cup Digits \cup OneOps,
         NEW k, k = CASE c.last \in Alpha -> "word" [] c.last \in Digits -> "number" [] OTHER -> "operator",
         NEW d, d = NextChar(c), c.last = "SLASH" => d.last # "STAR",
         NEW t, t = [str |-> <<c.last>>, line |-> c.line, col |-> c.column, from |-> Offset(c)]
  PROVE  k \in Readings /\ ReaderInv(d) /\ Offset(d) = Offset(c) + 1 /\ t \in Drafts /\ Reading(k, d, t, r)
<1> DEFINE q == Offset(c)
<1>1. c.last # "EOF"
  BY DEF Alpha, Digits, OneOps, SingleCharOps, OperatorStarts
<1>2. q \in Nat /\ q < Len(file) /\ c.last = file[q + 1] /\ c.last \in Characters
  BY <1>1, ReaderAt
<1>3. ReaderInv(d) /\ Offset(d) = q + 1
  BY <1>2, NextCharKeeps
<1>4. k \in Readings /\ Spelled(k, <<c.last>>, d.last)
  BY FirstSpelled
<1>5. <<c.last>> \in Seq(Characters)
  BY <1>2
<1>6. t \in Drafts /\ t.str = <<c.last>> /\ t.from = q /\ t.line = LineOf(q) /\ t.col = ColumnOf(q)
  BY <1>5, InitTokenFacts
<1>7. <<c.last>> = SubSeq(file, q + 1, q + 1)
  BY <1>2, TextFirst DEF Text
<1> HIDE DEF q
<1>8. q < q + 1
  BY <1>2
<1>9. Blank(r, q)
  BY DEF q
<1>10. Reading(k, d, t, r)
  BY <1>3, <1>4, <1>6, <1>7, <1>8, <1>9 DEF Reading
<1> QED
  BY <1>3, <1>4, <1>6, <1>10 DEF q

LEMMA FollowsInFile ==
  ASSUME NEW k \in Readings, NEW s \in Seq(Characters), NEW ch, ch \in FollowOf(k, s) PROVE ch # "EOF"
<1>1. k = "operator" => FollowShape(s, ch)
  BY FollowByShape DEF FollowOf
<1>2. k # "operator" => ch \in Alpha \cup Digits
  BY DEF FollowOf, NumberFollow, Readings
<1> QED
  BY <1>1, <1>2 DEF FollowShape, TwiceOps, Alpha, Digits

LEMMA ReadingGoesOn ==
  ASSUME FileOK, NEW c, ReaderInv(c), NEW r \in Nat, NEW k \in Readings, NEW t \in Drafts, Reading(k, c, t, r),
         c.last \in FollowOf(k, t.str), NEW d, d = NextChar(c),
         NEW u, u = [t EXCEPT !.str = Append(t.str, c.last)]
  PROVE  ReaderInv(d) /\ Offset(d) = Offset(c) + 1 /\ u \in Drafts /\ Reading(k, d, u, r)
<1> DEFINE q == Offset(c)
           m == t.from
<1>1. m \in Nat /\ t.str \in Seq(Characters)
  BY DEF Drafts
<1>2. m < q /\ Blank(r, m) /\ t.str = Text(m, q) /\ t.line = LineOf(m) /\ t.col = ColumnOf(m) /\ Spelled(k, t.str, c.last)
  BY DEF Reading, Text
<1>3. c.last # "EOF"
  BY <1>1, FollowsInFile
<1>4. q \in Nat /\ q < Len(file) /\ c.last = file[q + 1] /\ c.last \in Characters /\ Len(file) \in Nat
  BY <1>3, ReaderAt
<1>5. ReaderInv(d) /\ Offset(d) = q + 1
  BY <1>4, NextCharKeeps
<1>6. Append(t.str, c.last) \in Seq(Characters)
  BY <1>1, <1>4, AppendFacts
<1>7. /\ u \in Drafts /\ u.str = Append(t.str, c.last) /\ u.from = m /\ u.line = t.line /\ u.col = t.col
  BY <1>6 DEF Drafts
<1> HIDE DEF q, m
<1>8. q \in m..Len(file) /\ q + 1 \in (q + 1)..Len(file) /\ q + 1 \in m..Len(file)
  BY <1>1, <1>2, <1>4
<1>9. u.str = Text(m, q + 1)
  BY <1>1, <1>2, <1>4, <1>7, <1>8, TextGrows
<1>10. Spelled(k, u.str, d.last)
  <2>1. Begins(t.str, u.str, c.last)
    BY <1>1, <1>2, <1>4, <1>8, <1>9, TextBegins
  <2>2. u.str \in Seq(Characters) /\ Len(u.str) = Len(t.str) + 1
    BY <1>1, <1>4, <1>7, AppendFacts
  <2> QED
    BY <2>1, <2>2, <1>1, <1>2, <1>4, SpelledGrows
<1>11. m < q + 1
  BY <1>1, <1>2, <1>4
<1>12. Reading(k, d, u, r)
  BY <1>2, <1>5, <1>7, <1>9, <1>10, <1>11 DEF Reading, Text
<1> QED
  BY <1>5, <1>7, <1>12 DEF q

KindOf(k, s) ==
  CASE k = "word" -> IF s \in Keywords THEN "keyword" ELSE "Identifier"
    [] k = "number" -> "IntLiteral"
    [] k = "operator" -> "operator"

LEMMA TokenFields ==
  ASSUME FileOK, NEW c, ReaderInv(c), NEW t \in Drafts, NEW kind \in Kinds, NEW tk, tk = Token(kind, t, c)
  PROVE  /\ tk \in Tokens /\ tk.kind = kind /\ tk.str = t.str /\ tk.line = t.line /\ tk.col = t.col
         /\ tk.from = t.from /\ tk.to = Offset(c)
<1>1. Offset(c) \in Nat
  BY ReaderAt
<1> QED
  BY <1>1 DEF Token, Tokens, Drafts

(* A token whose reader stops is the longest one. *)
LEMMA TokenTiles ==
  ASSUME FileOK, NEW c, ReaderInv(c), NEW r \in Nat, NEW k \in Readings, NEW t \in Drafts, Reading(k, c, t, r),
         c.last \notin FollowOf(k, t.str), NEW tk, tk = Token(KindOf(k, t.str), t, c)
  PROVE  tk \in Tokens /\ Tile(tk, r) /\ tk.to = Offset(c)
<1> DEFINE q == Offset(c)
           m == t.from
<1>1. m \in Nat /\ t.str \in Seq(Characters)
  BY DEF Drafts
<1>2. m < q /\ Blank(r, m) /\ t.str = Text(m, q) /\ t.line = LineOf(m) /\ t.col = ColumnOf(m) /\ Spelled(k, t.str, c.last)
  BY DEF Reading, Text
<1>3. /\ q \in 0..Len(file) /\ q \in Nat /\ Len(file) \in Nat /\ c.last = CharAt(q)
      /\ q < Len(file) => c.last = file[q + 1]
  BY ReaderAt
<1>4. KindOf(k, t.str) \in Kinds \ {"Eof"}
  BY DEF KindOf, Kinds, Readings
<1>5. /\ tk \in Tokens /\ tk.kind = KindOf(k, t.str) /\ tk.str = t.str /\ tk.line = t.line /\ tk.col = t.col
      /\ tk.from = m /\ tk.to = q
  BY <1>4, TokenFields
<1>6. /\ IsToken(t.str) /\ ~(t.str = <<"SLASH">> /\ c.last = "STAR")
      /\ k # "word" => t.str \notin Keywords
  BY <1>1, <1>2, SpelledIsToken
<1>7. KindOf(k, t.str) = "keyword" <=> t.str \in Keywords
  BY <1>6 DEF KindOf, Readings
<1> HIDE DEF q, m
<1>8. ASSUME NEW e \in q + 1 .. Len(file) PROVE ~IsToken(SubSeq(file, m + 1, e))
  <2>1. q \in m..Len(file) /\ e \in (q + 1)..Len(file) /\ e \in m..Len(file) /\ q < Len(file)
    BY <1>1, <1>2, <1>3
  <2>2. Begins(t.str, Text(m, e), c.last)
    BY <2>1, <1>1, <1>2, <1>3, TextBegins
  <2>3. Text(m, e) \in Seq(Characters)
    BY <2>1, <1>1, TextFacts
  <2> QED
    BY <2>2, <2>3, <1>1, <1>2, SpelledMaximal DEF Text
<1>9. m <= q /\ q <= Len(file) /\ m # Len(file)
  BY <1>1, <1>2, <1>3
<1>10. tk.str = SubSeq(file, m + 1, q)
  BY <1>2, <1>5 DEF Text
<1>11. ~(tk.str = <<"SLASH">> /\ q < Len(file) /\ file[q + 1] = "STAR")
  BY <1>3, <1>5, <1>6
<1>12. tk.kind # "Eof" /\ (tk.kind = "keyword" <=> tk.str \in Keywords) /\ IsToken(tk.str)
  BY <1>4, <1>5, <1>6, <1>7
<1>13. tk.from = m /\ tk.to = q /\ tk.line = LineOf(m) /\ tk.col = ColumnOf(m)
  BY <1>2, <1>5
<1>14. Tile(tk, r)
  BY <1>2, <1>8, <1>9, <1>10, <1>11, <1>12, <1>13 DEF Tile
<1> QED
  BY <1>5, <1>14 DEF q

LEMMA EofTiles ==
  ASSUME FileOK, NEW c, ReaderInv(c), NEW r \in Nat, Blank(r, Offset(c)), IsEof(c),
         NEW tk, tk = Token("Eof", InitToken(c), c)
  PROVE  InitToken(c) \in Drafts /\ tk \in Tokens /\ Tile(tk, r) /\ tk.to = Offset(c)
<1> DEFINE q == Offset(c)
           t == InitToken(c)
<1>1. q \in Nat /\ q = Len(file) /\ Len(file) \in Nat
  BY ReaderAt
<1>2. <<>> \in Seq(Characters)
  OBVIOUS
<1>3. t = [str |-> <<>>, line |-> c.line, col |-> c.column, from |-> Offset(c)]
  BY DEF InitToken
<1>4. t \in Drafts /\ t.str = <<>> /\ t.from = q /\ t.line = LineOf(q) /\ t.col = ColumnOf(q)
  BY <1>2, <1>3, InitTokenFacts, ZenonT(60)
<1> HIDE DEF t
<1>5. "Eof" \in Kinds
  BY DEF Kinds
<1>6. /\ tk \in Tokens /\ tk.kind = "Eof" /\ tk.str = t.str /\ tk.line = t.line /\ tk.col = t.col
      /\ tk.from = t.from /\ tk.to = q
  BY <1>4, <1>5, TokenFields DEF t
<1> HIDE DEF q
<1>7. SubSeq(file, q + 1, q) = <<>>
  <2>1. q \in q..Len(file) /\ q - q = 0
    BY <1>1
  <2>2. Text(q, q) \in Seq(Characters) /\ Len(Text(q, q)) = 0
    BY <2>1, <1>1, TextFacts
  <2> QED
    BY <2>2 DEF Text
<1>8. <<>> \notin Keywords
  <2>1. ~IsWord(<<>>)
    BY DEF IsWord
  <2> QED
    BY <2>1, TextAssumption
<1>9. /\ tk.from = q /\ tk.to = q /\ q <= q /\ q <= Len(file) /\ tk.str = SubSeq(file, q + 1, q)
      /\ tk.line = LineOf(q) /\ tk.col = ColumnOf(q) /\ tk.kind = "Eof" /\ tk.str = <<>>
  <2>1. q <= q /\ q <= Len(file)
    BY <1>1
  <2>2. tk.str = SubSeq(file, q + 1, q) /\ tk.str = <<>>
    BY <1>4, <1>6, <1>7, Zenon
  <2>3. tk.from = q /\ tk.to = q /\ tk.line = LineOf(q) /\ tk.col = ColumnOf(q) /\ tk.kind = "Eof"
    BY <1>4, <1>6, Zenon
  <2> QED
    BY <2>1, <2>2, <2>3
<1>10. Blank(r, q)
  BY DEF q
<1>11. Tile(tk, r)
  BY <1>1, <1>8, <1>9, <1>10 DEF Tile
<1> QED
  BY <1>4, <1>6, <1>11 DEF q, t
-----------------------------------------------------------------------------
(*                           The tokens read so far                        *)

LEMMA TokenTyped == ASSUME NEW t \in Tokens PROVE t.from \in Nat /\ t.to \in Nat
  BY DEF Tokens

LEMMA ReadToTyped == ASSUME NEW st \in Seq(Tokens) PROVE ReadTo(st) \in Nat
<1>1. st # <<>> => st[Len(st)] \in Tokens
  OBVIOUS
<1> QED
  BY <1>1, TokenTyped DEF ReadTo

LEMMA TiledFurther ==
  ASSUME NEW st \in Seq(Tokens), NEW q \in Nat, NEW e \in Nat, q <= e, Tiled(st, q) PROVE Tiled(st, e)
<1>1. ASSUME NEW i \in 1..Len(st) PROVE Tile(st[i], Before(st, i)) /\ st[i].to <= e
  <2>1. st[i] \in Tokens
    OBVIOUS
  <2>2. st[i].to \in Nat
    BY <2>1, TokenTyped
  <2>3. Tile(st[i], Before(st, i)) /\ st[i].to <= q
    BY DEF Tiled
  <2> QED
    BY <2>2, <2>3
<1> QED
  BY <1>1 DEF Tiled

LEMMA TiledAppend ==
  ASSUME NEW st \in Seq(Tokens), NEW t \in Tokens, Tiled(st, t.to), Tile(t, ReadTo(st))
  PROVE  /\ Append(st, t) \in Seq(Tokens) /\ Tiled(Append(st, t), t.to) /\ ReadTo(Append(st, t)) = t.to
<1> DEFINE n == Len(st)
           su == Append(st, t)
<1>1. n \in Nat /\ su \in Seq(Tokens) /\ Len(su) = n + 1 /\ su[n + 1] = t /\ \A i \in 1..n : su[i] = st[i]
  BY AppendFacts
<1>2. t.to \in Nat
  BY TokenTyped
<1>3. Before(su, n + 1) = ReadTo(st)
  BY <1>1 DEF Before, ReadTo
<1> HIDE DEF su
<1>4. ASSUME NEW i \in 1..Len(su) PROVE Tile(su[i], Before(su, i)) /\ su[i].to <= t.to
  <2>1. CASE i = n + 1
    BY <2>1, <1>1, <1>2, <1>3
  <2>2. CASE i \in 1..n
    <3>1. Tile(st[i], Before(st, i)) /\ st[i].to <= t.to
      BY <2>2 DEF Tiled
    <3>2. su[i] = st[i]
      BY <2>2, <1>1
    <3>3. Before(su, i) = Before(st, i)
      <4>1. i # 1 => i - 1 \in 1..n
        BY <2>2, <1>1
      <4>2. i # 1 => su[i - 1] = st[i - 1]
        BY <4>1, <1>1
      <4> QED
        BY <4>2 DEF Before
    <3> QED
      BY <3>1, <3>2, <3>3
  <2> QED
    BY <2>1, <2>2, <1>1
<1>5. Tiled(su, t.to)
  BY <1>4 DEF Tiled
<1>6. ReadTo(su) = t.to
  BY <1>1 DEF ReadTo
<1> QED
  BY <1>1, <1>5, <1>6 DEF su
-----------------------------------------------------------------------------
(*                                 Actions                                 *)

LEMMA LexInvPrimed ==
  ASSUME FileOK, file' = file, Good(cur', tok', pc', call', lookahead', out', peeked')
  PROVE  LexInv'
<1>1. FileOK'
  BY DEF FileOK
<1>2. Typed(pc, tok, lookahead, out, peeked)'
  BY DEF Good, Typed, Readings, Drafts, Tokens, Kinds, Characters
<1>3. ReaderInv(cur)'
  BY ZenonT(60) DEF Good, ReaderInv, Buffered, Placed, StartsOK, Offset, CharAt, StateAt, LineOf, LineStart, ColumnOf,
         BreakAfter
<1>4. Tiled(out \o lookahead, Offset(cur))'
  <2>1. Tiled(out' \o lookahead', Offset(cur'))
    BY DEF Good
  <2> QED
    BY <2>1, SameText, SMTT(60) DEF Tiled, Tile, Before, Offset
<1>5. Phase(pc, cur, tok, ReadTo(out \o lookahead))'
  <2>1. Phase(pc', cur', tok', ReadTo(out' \o lookahead'))
    BY DEF Good
  <2> QED
    BY <2>1, SameText DEF Phase, ReadTo, Offset, InComment, Opens, Closed, Reading, Justified
<1>6. Queued(pc, call, lookahead, peeked)'
  BY DEF Good, Queued
<1> QED
  BY <1>1, <1>2, <1>3, <1>4, <1>5, <1>6 DEF LexInv, Good

LEMMA InvFacts ==
  ASSUME LexInv
  PROVE  /\ FileOK /\ Good(cur, tok, pc, call, lookahead, out, peeked)
         /\ tok \in Drafts /\ lookahead \in Seq(Tokens) /\ out \in Seq(Tokens) /\ peeked \in Seq(Tokens)
         /\ ReaderInv(cur) /\ Offset(cur) \in Nat
         /\ Stream \in Seq(Tokens) /\ Tiled(Stream, Offset(cur)) /\ Phase(pc, cur, tok, ReadTo(Stream))
         /\ ReadTo(Stream) \in Nat /\ Queued(pc, call, lookahead, peeked)
<1>1. FileOK /\ Good(cur, tok, pc, call, lookahead, out, peeked)
  BY DEF LexInv
<1>2. tok \in Drafts /\ lookahead \in Seq(Tokens) /\ out \in Seq(Tokens) /\ peeked \in Seq(Tokens)
  BY <1>1 DEF Good, Typed
<1>3. ReaderInv(cur) /\ Tiled(Stream, Offset(cur)) /\ Phase(pc, cur, tok, ReadTo(Stream)) /\ Queued(pc, call, lookahead, peeked)
  BY <1>1 DEF Good, Stream
<1>4. Stream \in Seq(Tokens)
  BY <1>2, ConcatProperties DEF Stream
<1> QED
  BY <1>1, <1>2, <1>3, <1>4, ReaderAt, ReadToTyped

(* A step that reads on and delivers nothing. *)
Active == {"skip", "comment"} \cup Readings
LEMMA ReadsOn ==
  ASSUME LexInv, pc \in Active, NEW d, ReaderInv(d), Offset(cur) <= Offset(d), NEW t \in Drafts,
         NEW k \in Active \cup {"error"}, Phase(k, d, t, ReadTo(Stream)),
         file' = file, cur' = d, tok' = t, pc' = k, UNCHANGED <<call, lookahead, out, peeked>>
  PROVE  LexInv'
<1>1. Typed(k, t, lookahead, out, peeked)
  BY InvFacts DEF Typed, Active
<1>2. Offset(d) \in Nat
  BY InvFacts, ReaderAt
<1>3. Tiled(out \o lookahead, Offset(d))
  BY <1>2, InvFacts, TiledFurther DEF Stream
<1>4. Queued(k, call, lookahead, peeked)
  BY InvFacts DEF Queued, Active, Readings
<1>5. Good(d, t, k, call, lookahead, out, peeked)
  BY <1>1, <1>3, <1>4 DEF Good, Stream
<1>6. FileOK
  BY InvFacts
<1>7. Good(cur', tok', pc', call', lookahead', out', peeked')
  BY <1>5
<1> QED
  BY <1>6, <1>7, LexInvPrimed

LEMMA SkipBlankKeeps == LexInv /\ SkipBlank => LexInv'
<1> SUFFICES ASSUME LexInv, SkipBlank PROVE LexInv'
  OBVIOUS
<1> DEFINE q == Offset(cur)
           r == ReadTo(Stream)
<1>1. pc = "skip" /\ cur.last \in Spaces /\ cur' = NextChar(cur) /\ UNCHANGED <<file, tok, pc, call, lookahead, out, peeked>>
  BY DEF SkipBlank
<1>2. cur.last # "EOF"
  BY <1>1 DEF Spaces
<1>3. q \in Nat /\ q < Len(file) /\ cur.last = file[q + 1] /\ r \in Nat /\ Blank(r, q)
  BY <1>1, <1>2, InvFacts, ReaderAt DEF Phase
<1>4. ReaderInv(cur') /\ Offset(cur') = q + 1
  BY <1>1, <1>3, InvFacts, NextCharKeeps
<1>5. Blank(r, q + 1)
  BY <1>1, <1>3, SpaceBehind, BlankFurther
<1>6. Phase("skip", cur', tok, r)
  BY <1>4, <1>5 DEF Phase, Readings
<1>7. Offset(cur) <= Offset(cur')
  BY <1>3, <1>4
<1> HIDE DEF q, r
<1> QED
  BY <1>1, <1>4, <1>6, <1>7, InvFacts, ReadsOn DEF Active, r

LEMMA SkipSlashKeeps == LexInv /\ SkipSlash => LexInv'
<1> SUFFICES ASSUME LexInv, SkipSlash PROVE LexInv'
  OBVIOUS
<1> DEFINE q == Offset(cur)
           r == ReadTo(Stream)
           second == NextChar(cur)
<1>1. pc = "skip" /\ cur.last = "SLASH" /\ UNCHANGED <<file, call, lookahead, out, peeked>>
  BY DEF SkipSlash
<1>2. q \in Nat /\ q < Len(file) /\ cur.last = file[q + 1] /\ r \in Nat /\ Blank(r, q) /\ Len(file) \in Nat
  BY <1>1, InvFacts, ReaderAt DEF Phase
<1>3. ReaderInv(second) /\ Offset(second) = q + 1
  BY <1>2, InvFacts, NextCharKeeps
<1>4. FileOK /\ ReaderInv(cur)
  BY InvFacts
<1>5. CASE second.last = "STAR"
  <2>1. cur' = NextChar(second) /\ tok' = InitToken(cur) /\ pc' = "comment"
    BY <1>5 DEF SkipSlash
  <2>2. q + 1 < Len(file) /\ file[(q + 1) + 1] = "STAR"
    BY <1>3, <1>4, <1>5, ReaderAt
  <2>3. ReaderInv(cur') /\ Offset(cur') = (q + 1) + 1
    BY <2>1, <2>2, <1>3, <1>4, NextCharKeeps
  <2>4. Opens(q)
    BY <2>2, <1>1, <1>2 DEF Opens
  <2>5. InComment(q, q + 2, r)
    BY <2>4, <1>2, <1>4, CommentStarts
  <2>6. tok' = [str |-> <<>>, line |-> cur.line, col |-> cur.column, from |-> Offset(cur)]
    BY <2>1 DEF InitToken
  <2>7. tok' \in Drafts /\ tok'.from = q
    <3>1. <<>> \in Seq(Characters)
      OBVIOUS
    <3> QED
      BY <3>1, <2>6, <1>4, InitTokenFacts
  <2>8. Offset(cur') = q + 2 /\ q <= q + 2
    BY <2>3, <1>2
  <2> HIDE DEF q, r, second
  <2>9. Phase("comment", cur', tok', r)
    BY <2>5, <2>7, <2>8 DEF Phase, Readings
  <2> QED
    BY <2>1, <2>3, <2>7, <2>8, <2>9, <1>1, ReadsOn DEF Active, q, r
<1>6. CASE second.last # "STAR"
  <2>1. cur' = second /\ tok' = [InitToken(cur) EXCEPT !.str = <<"SLASH">>] /\ pc' = "operator"
    BY <1>6 DEF SkipSlash
  <2>2. tok' = [str |-> <<cur.last>>, line |-> cur.line, col |-> cur.column, from |-> Offset(cur)]
    BY <2>1, <1>1 DEF InitToken
  <2>3. cur.last \in Alpha \cup Digits \cup OneOps /\ cur.last \notin Alpha \cup Digits
    BY <1>1 DEF OneOps, Alpha, Digits
  <2>4. "operator" = CASE cur.last \in Alpha -> "word" [] cur.last \in Digits -> "number" [] OTHER -> "operator"
    BY <2>3
  <2>5. ReaderInv(second) /\ tok' \in Drafts /\ Reading("operator", second, tok', r)
    BY <2>2, <2>3, <2>4, <1>2, <1>4, <1>6, ReadingStarts
  <2>6. q <= Offset(second)
    BY <1>2, <1>3
  <2> HIDE DEF q, r, second
  <2>7. Phase("operator", cur', tok', r)
    BY <2>1, <2>5 DEF Phase, Readings
  <2> QED
    BY <2>1, <2>5, <2>6, <2>7, <1>1, ReadsOn DEF Active, Readings, q, r
<1> QED
  BY <1>5, <1>6

LEMMA SkipCommentKeeps == LexInv /\ SkipComment => LexInv'
<1> SUFFICES ASSUME LexInv, SkipComment PROVE LexInv'
  OBVIOUS
<1> DEFINE q == Offset(cur)
           r == ReadTo(Stream)
           s == tok.from
           second == NextChar(cur)
<1>1. pc = "comment" /\ UNCHANGED <<file, tok, call, lookahead, out, peeked>>
  BY DEF SkipComment
<1>2. FileOK /\ ReaderInv(cur) /\ tok \in Drafts /\ r \in Nat /\ s \in Nat /\ InComment(s, q, r)
  BY <1>1, InvFacts DEF Phase, Drafts
<1>3. /\ q \in Nat /\ q \in 0..Len(file) /\ Len(file) \in Nat /\ (IsEof(cur) <=> q = Len(file))
      /\ q < Len(file) => cur.last = file[q + 1]
  BY <1>2, ReaderAt
<1>4. CASE IsEof(cur) \/ HighBit(cur.last)
  <2>1. pc' = "error" /\ cur' = cur
    BY <1>4 DEF SkipComment
  <2>2. q < Len(file) => HighBit(file[q + 1])
    BY <1>3, <1>4
  <2>3. Justified(q, r)
    BY <2>2, <1>2, <1>3, CommentRefused
  <2>4. Phase("error", cur', tok, r) /\ Offset(cur) <= Offset(cur')
    BY <2>1, <2>3, <1>3 DEF Phase, Readings
  <2> HIDE DEF q, r, s
  <2> QED
    BY <2>1, <2>4, <1>1, <1>2, ReadsOn DEF Active, r
<1>5. CASE ~(IsEof(cur) \/ HighBit(cur.last))
  <2>1. q < Len(file) /\ cur.last = file[q + 1] /\ ~HighBit(file[q + 1])
    BY <1>3, <1>5
  <2>2. ReaderInv(second) /\ Offset(second) = q + 1
    BY <2>1, <1>2, NextCharKeeps
  <2>3. /\ second.last = CharAt(q + 1) /\ (second.last = "SLASH" => q + 1 < Len(file) /\ file[(q + 1) + 1] = "SLASH")
    BY <2>2, <1>2, ReaderAt
  <2>4. CASE cur.last = "STAR" /\ second.last = "SLASH"
    <3>1. cur' = NextChar(second) /\ pc' = "skip"
      BY <2>4, <1>5 DEF SkipComment, AfterStar
    <3>2. ReaderInv(cur') /\ Offset(cur') = (q + 1) + 1
      BY <3>1, <2>2, <2>3, <2>4, <1>2, NextCharKeeps
    <3>3. q + 2 <= Len(file) /\ file[q + 2] = "SLASH" /\ (q + 1) + 1 = q + 2
      BY <2>3, <2>4, <1>3
    <3>4. Blank(r, q + 2)
      BY <3>3, <2>1, <2>4, <1>2, <1>3, CommentClosed
    <3>5. Phase("skip", cur', tok, r) /\ Offset(cur) <= Offset(cur')
      BY <3>2, <3>3, <3>4, <1>3 DEF Phase, Readings
    <3> HIDE DEF q, r, s, second
    <3> QED
      BY <3>1, <3>2, <3>5, <1>1, <1>2, ReadsOn DEF Active, r
  <2>5. CASE ~(cur.last = "STAR" /\ second.last = "SLASH")
    <3>1. cur' = second /\ pc' = "comment"
      BY <2>5, <1>1, <1>5 DEF SkipComment, AfterStar
    <3>2. InComment(s, q + 1, r)
      BY <2>1, <2>3, <2>5, <1>2, <1>3, CommentFurther
    <3>3. Phase("comment", cur', tok, r) /\ Offset(cur) <= Offset(cur')
      BY <3>1, <3>2, <2>2, <1>3 DEF Phase, Readings
    <3> HIDE DEF q, r, s, second
    <3> QED
      BY <3>1, <3>3, <2>2, <1>1, <1>2, ReadsOn DEF Active, r
  <2> QED
    BY <2>4, <2>5
<1> QED
  BY <1>4, <1>5

LEMMA FirstCharStep == LexInv /\ FirstChar => LexInv'
<1> SUFFICES ASSUME LexInv, FirstChar PROVE LexInv'
  OBVIOUS
<1> DEFINE q == Offset(cur)
           r == ReadTo(Stream)
           k == CASE cur.last \in Alpha -> "word" [] cur.last \in Digits -> "number" [] OTHER -> "operator"
<1>1. /\ pc = "skip" /\ cur' = NextChar(cur) /\ tok' = [InitToken(cur) EXCEPT !.str = <<cur.last>>] /\ pc' = k
      /\ UNCHANGED <<file, call, lookahead, out, peeked>>
      /\ cur.last \in Alpha \cup Digits \cup OperatorStarts \cup SingleCharOps
  BY DEF FirstChar
<1>2. FileOK /\ ReaderInv(cur) /\ r \in Nat /\ Blank(r, q) /\ q \in Nat
  BY <1>1, InvFacts DEF Phase
<1>3. cur.last \in Alpha \cup Digits \cup OneOps
  BY <1>1 DEF OneOps
<1>4. cur.last # "SLASH"
  BY <1>1 DEF Alpha, Digits, OperatorStarts, SingleCharOps
<1>5. tok' = [str |-> <<cur.last>>, line |-> cur.line, col |-> cur.column, from |-> Offset(cur)]
  BY <1>1 DEF InitToken
<1>6. k \in Readings /\ ReaderInv(cur') /\ Offset(cur') = q + 1 /\ tok' \in Drafts /\ Reading(k, cur', tok', r)
  BY <1>1, <1>2, <1>3, <1>4, <1>5, ReadingStarts
<1> HIDE DEF k
<1>7. Phase(k, cur', tok', r) /\ Offset(cur) <= Offset(cur')
  BY <1>2, <1>6 DEF Phase, Readings
<1> HIDE DEF q, r
<1> QED
  BY <1>1, <1>6, <1>7, ReadsOn DEF Active, r

LEMMA FollowIs == pc \in Readings => Follow = FollowOf(pc, tok.str) /\ Kind = KindOf(pc, tok.str)
  BY DEF Follow, FollowOf, Kind, KindOf, Readings

LEMMA FollowingCharKeeps == LexInv /\ FollowingChar => LexInv'
<1> SUFFICES ASSUME LexInv, FollowingChar PROVE LexInv'
  OBVIOUS
<1> DEFINE q == Offset(cur)
           r == ReadTo(Stream)
<1>1. /\ pc \in Readings /\ cur.last \in Follow /\ cur' = NextChar(cur)
      /\ tok' = [tok EXCEPT !.str = Append(tok.str, cur.last)]
      /\ UNCHANGED <<file, pc, call, lookahead, out, peeked>>
  BY DEF FollowingChar, Readings
<1>2. FileOK /\ ReaderInv(cur) /\ r \in Nat /\ q \in Nat /\ tok \in Drafts /\ Reading(pc, cur, tok, r)
  BY <1>1, InvFacts DEF Phase
<1>3. cur.last \in FollowOf(pc, tok.str)
  BY <1>1, FollowIs
<1>4. ReaderInv(cur') /\ Offset(cur') = q + 1 /\ tok' \in Drafts /\ Reading(pc, cur', tok', r)
  BY <1>1, <1>2, <1>3, ReadingGoesOn
<1>5. Phase(pc, cur', tok', r) /\ Offset(cur) <= Offset(cur')
  BY <1>1, <1>2, <1>4 DEF Phase, Readings
<1> HIDE DEF q, r
<1>6. file' = file /\ pc' = pc /\ UNCHANGED <<call, lookahead, out, peeked>>
  BY <1>1
<1> QED
  BY <1>1, <1>4, <1>5, <1>6, ReadsOn DEF Active, r

LEMMA InvalidCharKeeps == LexInv /\ InvalidChar => LexInv'
<1> SUFFICES ASSUME LexInv, InvalidChar PROVE LexInv'
  OBVIOUS
<1> DEFINE q == Offset(cur)
           r == ReadTo(Stream)
<1>1. /\ pc = "skip" /\ ~IsEof(cur) /\ tok' = InitToken(cur) /\ pc' = "error"
      /\ cur.last \notin Spaces \cup {"SLASH"} \cup Alpha \cup Digits \cup OperatorStarts \cup SingleCharOps
      /\ UNCHANGED <<file, cur, call, lookahead, out, peeked>>
  BY DEF InvalidChar
<1>2. FileOK /\ ReaderInv(cur) /\ r \in Nat /\ Blank(r, q) /\ q \in Nat
  BY <1>1, InvFacts DEF Phase
<1>3. q < Len(file) /\ cur.last = file[q + 1] /\ cur.last \in Characters
  BY <1>1, <1>2, ReaderAt
<1>4. cur.last \notin Alpha \cup Digits \cup OneOps
  BY <1>1 DEF OneOps
<1>5. ~IsToken(<<file[q + 1]>>) /\ file[q + 1] \notin Spaces
  BY <1>1, <1>3, <1>4, NoTokenStarts
<1>6. Justified(q, r)
  BY <1>2, <1>3, <1>5 DEF Justified
<1>7. tok' = [str |-> <<>>, line |-> cur.line, col |-> cur.column, from |-> Offset(cur)]
  BY <1>1 DEF InitToken
<1>8. <<>> \in Seq(Characters)
  OBVIOUS
<1>9. tok' \in Drafts
  BY <1>2, <1>7, <1>8, InitTokenFacts
<1> HIDE DEF r
<1>10. Phase("error", cur, tok', r) /\ Offset(cur) <= Offset(cur)
  BY <1>2, <1>6 DEF Phase, Readings
<1>11. file' = file /\ cur' = cur /\ UNCHANGED <<call, lookahead, out, peeked>>
  BY <1>1
<1> HIDE DEF q
<1> QED
  BY <1>1, <1>2, <1>9, <1>10, <1>11, ReadsOn DEF Active, r

(* Deliver appends one token to the stream, wherever it goes. *)
LEMMA StreamGrows ==
  ASSUME NEW o \in Seq(Tokens), NEW la \in Seq(Tokens), NEW t \in Tokens
  PROVE  /\ o \o Append(la, t) = Append(o \o la, t)
         /\ Append(o, t) \o <<>> = Append(o, t) /\ o \o <<>> = o
<1>1. o \o Append(la, t) = Append(o \o la, t)
  <2>1. o \o la \in Seq(Tokens) /\ Append(la, t) \in Seq(Tokens)
    OBVIOUS
  <2>2. Append(la, t) = la \o <<t>> /\ Append(o \o la, t) = (o \o la) \o <<t>>
    BY <2>1, AppendIsConcat
  <2>3. <<t>> \in Seq(Tokens)
    OBVIOUS
  <2> QED
    BY <2>2, <2>3, ConcatAssociative
<1>2. Append(o, t) \o <<>> = Append(o, t) /\ o \o <<>> = o
  BY ConcatEmptySeq
<1> QED
  BY <1>1, <1>2

LEMMA Delivered ==
  ASSUME LexInv, pc \in Active, NEW t \in Tokens, Tile(t, ReadTo(Stream)), t.to = Offset(cur),
         file' = file, cur' = cur, tok' \in Drafts, Deliver(t)
  PROVE  LexInv'
<1> DEFINE q == Offset(cur)
<1>1. /\ FileOK /\ ReaderInv(cur) /\ q \in Nat /\ Stream \in Seq(Tokens) /\ Tiled(Stream, q)
      /\ lookahead \in Seq(Tokens) /\ out \in Seq(Tokens) /\ peeked \in Seq(Tokens)
      /\ Queued(pc, call, lookahead, peeked)
  BY InvFacts
<1>2. /\ Append(Stream, t) \in Seq(Tokens) /\ Tiled(Append(Stream, t), q) /\ ReadTo(Append(Stream, t)) = q
  BY <1>1, TiledAppend
<1>3. /\ call \in 0..2 /\ Len(peeked) <= Len(lookahead) /\ (\A i \in 1..Len(peeked) : peeked[i] = lookahead[i])
      /\ IF call = 0 THEN lookahead = <<>> ELSE Len(peeked) = call - 1 /\ Len(lookahead) <= call
  BY <1>1 DEF Queued, Active, Readings
<1>4. Len(lookahead) \in Nat /\ Len(peeked) \in Nat
  BY <1>1
<1>5. /\ pc' \in {"idle", "skip"} /\ out' \o lookahead' = Append(Stream, t)
      /\ lookahead' \in Seq(Tokens) /\ out' \in Seq(Tokens) /\ peeked' \in Seq(Tokens)
      /\ Queued(pc', call', lookahead', peeked')
  <2>1. CASE call = 0
    <3>1. /\ out' = Append(out, t) /\ pc' = "idle" /\ peeked' = <<>> /\ lookahead' = <<>> /\ call' = 0
          /\ lookahead = <<>>
      BY <2>1, <1>3 DEF Deliver
    <3>2. Append(out, t) \in Seq(Tokens) /\ <<>> \in Seq(Tokens)
      BY <1>1
    <3>3. out' \o lookahead' = Append(Stream, t)
      BY <3>1, <1>1, StreamGrows DEF Stream
    <3>4. Queued("idle", 0, <<>>, <<>>)
      BY DEF Queued
    <3> QED
      BY <3>1, <3>2, <3>3, <3>4
  <2>2. CASE call # 0
    <3> DEFINE la == Append(lookahead, t)
    <3>1. lookahead' = la /\ out' = out /\ call' = call
      BY <2>2 DEF Deliver, QueueWith
    <3>2. /\ la \in Seq(Tokens) /\ Len(la) = Len(lookahead) + 1
          /\ \A i \in 1..Len(lookahead) : la[i] = lookahead[i]
      BY <1>1, AppendFacts
    <3>3. out' \o lookahead' = Append(Stream, t)
      BY <3>1, <1>1, StreamGrows DEF Stream
    <3> HIDE DEF la
    <3>4. \A i \in 1..Len(peeked) : peeked[i] = la[i]
      <4>1. \A i \in 1..Len(peeked) : i \in 1..Len(lookahead)
        BY <1>3, <1>4
      <4> QED
        BY <4>1, <3>2, <1>3
    <3>5. CASE PeeksOn
      <4>1. pc' = "skip" /\ peeked' = peeked
        BY <2>2, <3>5 DEF Deliver
      <4>2. Len(lookahead) < call
        BY <3>5 DEF PeeksOn
      <4>3. Len(la) <= call /\ Len(peeked) <= Len(la)
        BY <4>2, <3>2, <1>3, <1>4
      <4>4. Queued("skip", call, la, peeked)
        BY <4>3, <3>4, <2>2, <1>3 DEF Queued
      <4> QED
        BY <4>1, <4>4, <3>1, <3>2, <3>3, <1>1
    <3>6. CASE ~PeeksOn
      <4> DEFINE pk == Append(peeked, la[call])
      <4>1. pc' = "idle" /\ peeked' = pk
        BY <2>2, <3>6 DEF Deliver, QueueWith, la
      <4>2. Len(lookahead) = call /\ call \in 1..Len(la) /\ Len(peeked) + 1 = call
        BY <3>6, <3>2, <2>2, <1>3, <1>4 DEF PeeksOn
      <4>3. la[call] \in Tokens
        BY <4>2, <3>2
      <4>4. pk \in Seq(Tokens) /\ Len(pk) = call /\ pk[call] = la[call] /\ \A i \in 1..Len(peeked) : pk[i] = peeked[i]
        BY <4>2, <4>3, <1>1, AppendFacts
      <4> HIDE DEF pk
      <4>5. \A i \in 1..Len(pk) : i = call \/ i \in 1..Len(peeked)
        BY <4>2, <4>4, <1>4
      <4>6. \A i \in 1..Len(pk) : pk[i] = la[i]
        BY <4>4, <4>5, <3>4
      <4>7. Len(pk) <= Len(la)
        BY <4>2, <4>4, <3>2, <1>4
      <4>8. Queued("idle", call, la, pk)
        BY <4>6, <4>7, <1>3 DEF Queued
      <4> QED
        BY <4>1, <4>4, <4>8, <3>1, <3>2, <3>3, <1>1
    <3> QED
      BY <3>5, <3>6
  <2> QED
    BY <2>1, <2>2
<1>6. Phase(pc', cur, tok', q)
  <2>1. Blank(q, q)
    BY <1>1, BlankNothing
  <2> HIDE DEF q
  <2> QED
    BY <2>1, <1>5 DEF Phase, Readings, q
<1>7. Typed(pc', tok', lookahead', out', peeked')
  BY <1>5 DEF Typed
<1>8. Tiled(out' \o lookahead', q) /\ ReadTo(out' \o lookahead') = q
  BY <1>2, <1>5
<1>9. Good(cur, tok', pc', call', lookahead', out', peeked')
  BY <1>1, <1>5, <1>6, <1>7, <1>8 DEF Good
<1>10. Good(cur', tok', pc', call', lookahead', out', peeked')
  BY <1>9
<1> QED
  BY <1>1, <1>10, LexInvPrimed

LEMMA LastCharKeeps == LexInv /\ LastChar => LexInv'
<1> SUFFICES ASSUME LexInv, LastChar PROVE LexInv'
  OBVIOUS
<1> DEFINE t == Token(Kind, tok, cur)
<1>1. pc \in Readings /\ cur.last \notin Follow /\ Deliver(t) /\ UNCHANGED <<file, cur, tok>>
  BY DEF LastChar, Readings
<1>2. FileOK /\ ReaderInv(cur) /\ tok \in Drafts /\ ReadTo(Stream) \in Nat /\ Reading(pc, cur, tok, ReadTo(Stream))
  BY <1>1, InvFacts DEF Phase
<1>3. cur.last \notin FollowOf(pc, tok.str) /\ t = Token(KindOf(pc, tok.str), tok, cur)
  BY <1>1, FollowIs
<1> HIDE DEF t
<1>4. t \in Tokens /\ Tile(t, ReadTo(Stream)) /\ t.to = Offset(cur)
  BY <1>1, <1>2, <1>3, TokenTiles
<1>5. file' = file /\ cur' = cur /\ tok' \in Drafts
  BY <1>1, <1>2
<1> QED
  BY <1>1, <1>4, <1>5, Delivered DEF Active

LEMMA EndOfFileKeeps == LexInv /\ EndOfFile => LexInv'
<1> SUFFICES ASSUME LexInv, EndOfFile PROVE LexInv'
  OBVIOUS
<1> DEFINE t == Token("Eof", InitToken(cur), cur)
<1>1. pc = "skip" /\ IsEof(cur) /\ tok' = InitToken(cur) /\ Deliver(t) /\ UNCHANGED <<file, cur>>
  BY DEF EndOfFile
<1>2. FileOK /\ ReaderInv(cur) /\ ReadTo(Stream) \in Nat /\ Blank(ReadTo(Stream), Offset(cur))
  BY <1>1, InvFacts DEF Phase
<1>3. InitToken(cur) \in Drafts /\ t \in Tokens /\ Tile(t, ReadTo(Stream)) /\ t.to = Offset(cur)
  BY <1>1, <1>2, EofTiles
<1> HIDE DEF t
<1>4. file' = file /\ cur' = cur /\ tok' \in Drafts
  BY <1>1, <1>3
<1> QED
  BY <1>1, <1>3, <1>4, Delivered DEF Active

(* A step of the caller: the stream of tokens and the reader stay. *)
LEMMA CallerSteps ==
  ASSUME LexInv, UNCHANGED <<file, cur, tok>>, pc = "idle", pc' \in {"idle", "skip"}, out' \o lookahead' = Stream,
         out' \in Seq(Tokens), lookahead' \in Seq(Tokens), peeked' \in Seq(Tokens),
         Queued(pc', call', lookahead', peeked')
  PROVE  LexInv'
<1> DEFINE q == Offset(cur)
<1>1. FileOK /\ ReaderInv(cur) /\ q \in Nat /\ Tiled(Stream, q) /\ tok \in Drafts /\ q = ReadTo(Stream)
  BY InvFacts DEF Phase
<1>2. Blank(q, q)
  BY <1>1, BlankNothing
<1> HIDE DEF q
<1>3. Phase(pc', cur, tok, q)
  BY <1>2 DEF Phase, Readings, q
<1>4. Typed(pc', tok, lookahead', out', peeked')
  BY <1>1 DEF Typed
<1>5. Tiled(out' \o lookahead', q) /\ ReadTo(out' \o lookahead') = q
  BY <1>1
<1>6. Good(cur, tok, pc', call', lookahead', out', peeked')
  BY <1>1, <1>3, <1>4, <1>5 DEF Good, q
<1>7. Good(cur', tok', pc', call', lookahead', out', peeked')
  BY <1>6
<1> QED
  BY <1>1, <1>7, LexInvPrimed

LEMMA HeadMoves ==
  ASSUME NEW o \in Seq(Tokens), NEW la \in Seq(Tokens), la # <<>>
  PROVE  /\ Append(o, Head(la)) \in Seq(Tokens) /\ Tail(la) \in Seq(Tokens)
         /\ Append(o, Head(la)) \o Tail(la) = o \o la
<1>1. Head(la) \in Tokens /\ Tail(la) \in Seq(Tokens) /\ <<Head(la)>> \in Seq(Tokens)
  OBVIOUS
<1>2. la = <<Head(la)>> \o Tail(la)
  BY HeadTailProperties
<1>3. Append(o, Head(la)) = o \o <<Head(la)>> /\ Append(o, Head(la)) \in Seq(Tokens)
  BY <1>1, AppendIsConcat
<1>4. (o \o <<Head(la)>>) \o Tail(la) = o \o (<<Head(la)>> \o Tail(la))
  BY <1>1, ConcatAssociative
<1> QED
  BY <1>1, <1>2, <1>3, <1>4, Zenon

LEMMA NextTokenKeeps == LexInv /\ NextToken => LexInv'
<1> SUFFICES ASSUME LexInv, NextToken PROVE LexInv'
  OBVIOUS
<1>1. pc = "idle" /\ UNCHANGED <<file, cur, tok>>
  BY DEF NextToken
<1>2. /\ lookahead \in Seq(Tokens) /\ out \in Seq(Tokens) /\ peeked \in Seq(Tokens)
      /\ Queued(pc, call, lookahead, peeked)
  BY InvFacts
<1>3. CASE lookahead = <<>>
  <2>1. pc' = "skip" /\ call' = 0 /\ UNCHANGED <<lookahead, out, peeked>>
    BY <1>3 DEF NextToken
  <2>2. Queued("skip", 0, lookahead, peeked)
    BY <1>2, <1>3 DEF Queued
  <2>3. out' \o lookahead' = Stream
    BY <2>1 DEF Stream
  <2> QED
    BY <2>1, <2>2, <2>3, <1>1, <1>2, CallerSteps
<1>4. CASE lookahead # <<>>
  <2>1. /\ out' = Append(out, Head(lookahead)) /\ lookahead' = Tail(lookahead) /\ peeked' = <<>>
        /\ pc' = "idle" /\ call' = call
    BY <1>1, <1>4 DEF NextToken
  <2>2. out' \in Seq(Tokens) /\ lookahead' \in Seq(Tokens) /\ out' \o lookahead' = Stream
    BY <2>1, <1>2, <1>4, HeadMoves DEF Stream
  <2>3. call \in 0..2
    BY <1>2 DEF Queued
  <2>4. <<>> \in Seq(Tokens) /\ Len(lookahead') \in Nat /\ Len(<<>>) = 0
    BY <2>2
  <2>5. Queued("idle", call, lookahead', <<>>)
    BY <2>3, <2>4 DEF Queued
  <2>6. Queued(pc', call', lookahead', peeked') /\ peeked' \in Seq(Tokens)
    BY <2>1, <2>4, <2>5
  <2> QED
    BY <2>1, <2>2, <2>6, <1>1, CallerSteps
<1> QED
  BY <1>3, <1>4

LEMMA LookAheadKeeps == LexInv /\ LookAhead => LexInv'
<1> SUFFICES ASSUME LexInv, LookAhead PROVE LexInv'
  OBVIOUS
<1> DEFINE n == Len(peeked) + 1
<1>1. pc = "idle" /\ UNCHANGED <<file, cur, tok, lookahead, out>> /\ Len(peeked) < 2
  BY DEF LookAhead
<1>2. /\ lookahead \in Seq(Tokens) /\ out \in Seq(Tokens) /\ peeked \in Seq(Tokens)
      /\ Queued(pc, call, lookahead, peeked)
  BY InvFacts
<1>3. /\ call \in 0..2 /\ Len(peeked) <= Len(lookahead) /\ \A i \in 1..Len(peeked) : peeked[i] = lookahead[i]
  BY <1>2 DEF Queued
<1>4. Len(peeked) \in Nat /\ Len(lookahead) \in Nat /\ out' \o lookahead' = Stream
  BY <1>1, <1>2 DEF Stream
<1>5. n \in 1..2
  BY <1>1, <1>4
<1>6. CASE n <= Len(lookahead)
  <2> DEFINE pk == Append(peeked, lookahead[n])
  <2>1. peeked' = pk /\ UNCHANGED <<pc, call>>
    BY <1>6 DEF LookAhead
  <2>2. n \in 1..Len(lookahead)
    BY <1>4, <1>5, <1>6
  <2>3. lookahead[n] \in Tokens
    BY <2>2, <1>2
  <2>4. pk \in Seq(Tokens) /\ Len(pk) = n /\ pk[n] = lookahead[n] /\ \A i \in 1..Len(peeked) : pk[i] = peeked[i]
    BY <2>3, <1>2, AppendFacts
  <2> HIDE DEF pk
  <2>5. \A i \in 1..Len(pk) : i = n \/ i \in 1..Len(peeked)
    BY <2>4, <1>4
  <2>6. \A i \in 1..Len(pk) : pk[i] = lookahead[i]
    BY <2>4, <2>5, <1>3
  <2>7. Queued("idle", call, lookahead, pk)
    BY <2>4, <2>6, <1>3, <1>6 DEF Queued
  <2>8. pc' = "idle" /\ Queued(pc', call', lookahead', peeked') /\ peeked' \in Seq(Tokens)
    BY <2>1, <2>4, <2>7, <1>1
  <2> QED
    BY <2>8, <1>1, <1>2, <1>4, CallerSteps
<1>7. CASE ~(n <= Len(lookahead))
  <2>1. pc' = "skip" /\ call' = n /\ peeked' = peeked
    BY <1>7 DEF LookAhead
  <2>2. Len(peeked) = n - 1 /\ Len(lookahead) <= n /\ n # 0 /\ n \in 0..2
    BY <1>4, <1>5, <1>7
  <2> HIDE DEF n
  <2>3. Queued("skip", n, lookahead, peeked)
    BY <2>2, <1>3 DEF Queued
  <2> QED
    BY <2>1, <2>3, <1>1, <1>2, <1>4, CallerSteps
<1> QED
  BY <1>6, <1>7

LEMMA LexInit == Init => LexInv
<1> SUFFICES ASSUME Init PROVE LexInv
  OBVIOUS
<1>1. FileOK
  BY TextAssumption DEF Init, FileOK
<1>2. ReaderInv(cur) /\ Offset(cur) = 0
  BY <1>1, FirstCharKeeps DEF Init
<1>3. <<>> \in Seq(Characters) /\ <<>> \in Seq(Tokens)
  OBVIOUS
<1>4. tok = [str |-> <<>>, line |-> cur.line, col |-> cur.column, from |-> Offset(cur)]
  BY DEF Init, InitToken
<1>5. tok \in Drafts
  BY <1>1, <1>2, <1>3, <1>4, InitTokenFacts
<1>6. pc = "idle" /\ call = 0 /\ lookahead = <<>> /\ out = <<>> /\ peeked = <<>> /\ out \o lookahead = <<>>
  BY DEF Init
<1>7. Typed("idle", tok, <<>>, <<>>, <<>>) /\ Queued("idle", 0, <<>>, <<>>)
  BY <1>3, <1>5 DEF Typed, Queued
<1>8. Tiled(<<>>, Offset(cur)) /\ ReadTo(<<>>) = 0
  BY DEF Tiled, ReadTo
<1>9. Phase("idle", cur, tok, 0)
  BY <1>2 DEF Phase, Readings
<1> QED
  BY <1>1, <1>2, <1>6, <1>7, <1>8, <1>9 DEF LexInv, Good

LEMMA LexStutters == LexInv /\ UNCHANGED vars => LexInv'
<1> SUFFICES ASSUME LexInv, UNCHANGED vars PROVE LexInv'
  OBVIOUS
<1>1. UNCHANGED <<file, cur, tok, pc, call, lookahead, out, peeked>>
  BY DEF vars
<1>2. Good(cur', tok', pc', call', lookahead', out', peeked')
  BY <1>1, InvFacts
<1> QED
  BY <1>1, <1>2, InvFacts, LexInvPrimed

LEMMA LexStep == LexInv /\ [Next]_vars => LexInv'
<1> SUFFICES ASSUME LexInv, [Next]_vars PROVE LexInv'
  OBVIOUS
<1>1. CASE NextToken
  BY <1>1, NextTokenKeeps
<1>2. CASE LookAhead
  BY <1>2, LookAheadKeeps
<1>3. CASE SkipBlank
  BY <1>3, SkipBlankKeeps
<1>4. CASE SkipSlash
  BY <1>4, SkipSlashKeeps
<1>5. CASE SkipComment
  BY <1>5, SkipCommentKeeps
<1>6. CASE FirstChar
  BY <1>6, FirstCharStep
<1>7. CASE FollowingChar
  BY <1>7, FollowingCharKeeps
<1>8. CASE LastChar
  BY <1>8, LastCharKeeps
<1>9. CASE EndOfFile
  BY <1>9, EndOfFileKeeps
<1>10. CASE InvalidChar
  BY <1>10, InvalidCharKeeps
<1>11. CASE Stopped
  BY <1>11, LexStutters DEF Stopped
<1>12. CASE UNCHANGED vars
  BY <1>12, LexStutters
<1> QED
  BY <1>1, <1>2, <1>3, <1>4, <1>5, <1>6, <1>7, <1>8, <1>9, <1>10, <1>11, <1>12 DEF Next, Scan

LEMMA LexInvariant == Spec => []LexInv
<1>1. Init => LexInv
  BY LexInit
<1>2. LexInv /\ [Next]_vars => LexInv'
  BY LexStep
<1> QED
  BY <1>1, <1>2, PTL DEF Spec
-----------------------------------------------------------------------------
(*                               The theorems                              *)

(* The tokens read so far tile the file: each is the longest one behind the *)
(* blanks and comments that follow the one before it, and what lookAhead    *)
(* answered is what nextToken returns next (readNextToken,                  *)
(* skipCommentsAndWhitespaces, readIntoBuffer, peekAhead).                  *)
THEOREM TokensTile == Spec => []TokensTileFile
<1>1. LexInv => TokensTileFile
  <2> SUFFICES ASSUME LexInv PROVE TokensTileFile
    OBVIOUS
  <2>1. /\ lookahead \in Seq(Tokens) /\ peeked \in Seq(Tokens) /\ Queued(pc, call, lookahead, peeked)
        /\ Stream \in Seq(Tokens) /\ Tiled(Stream, Offset(cur))
    BY InvFacts
  <2>2. Len(peeked) <= Len(lookahead) /\ (\A i \in 1..Len(peeked) : peeked[i] = lookahead[i])
    BY <2>1 DEF Queued
  <2>3. peeked = SubSeq(lookahead, 1, Len(peeked))
    <3> DEFINE n == Len(peeked)
               s == SubSeq(lookahead, 1, n)
    <3>1. n \in Nat /\ Len(lookahead) \in Nat /\ 1 \in 1..Len(lookahead) + 1 /\ n \in 0..Len(lookahead)
      BY <2>1, <2>2
    <3>2. s \in Seq(Tokens) /\ Len(s) = n /\ \A i \in 1..n : s[i] = lookahead[i]
      BY <3>1, <2>1
    <3> HIDE DEF s
    <3>3. peeked = s
      BY <3>2, <2>1, <2>2, SameSeq
    <3> QED
      BY <3>3 DEF s
  <2>4. ASSUME NEW i \in 1..Len(Stream) PROVE Tile(Stream[i], IF i = 1 THEN 0 ELSE Stream[i - 1].to)
    BY <2>1 DEF Tiled, Before
  <2> QED
    BY <2>3, <2>4 DEF TokensTileFile, Tile
<1> QED
  BY <1>1, LexInvariant, PTL

LEMMA CharsNotSpaces == /\ \A c : HighBit(c) => c \notin Spaces
                        /\ \A c \in Alpha \cup Digits \cup OneOps : c \notin Spaces
  BY DEF HighBit, Spaces, Alpha, Digits, OneOps, SingleCharOps, OperatorStarts

(* Tokens and errors have the line and the column a reader of the file      *)
(* counts, and the quoted line shows them there (nextChar, initToken,       *)
(* getCurrentLineFromInput).                                                *)
THEOREM PositionsHold == Spec => []PositionsExact
<1>1. LexInv => PositionsExact
  <2> SUFFICES ASSUME LexInv PROVE PositionsExact
    OBVIOUS
  <2> DEFINE q == Offset(cur)
  <2>1. /\ FileOK /\ ReaderInv(cur) /\ q \in Nat /\ Stream \in Seq(Tokens) /\ Tiled(Stream, q)
        /\ out \in Seq(Tokens) /\ lookahead \in Seq(Tokens) /\ Phase(pc, cur, tok, ReadTo(Stream))
    BY InvFacts
  <2>2. /\ q \in 0..Len(file) /\ Len(file) \in Nat /\ (IsEof(cur) <=> q = Len(file))
        /\ cur.line = LineOf(q) /\ cur.column = ColumnOf(q)
    BY <2>1, ReaderAt
  <2>3. \A o \in 0..q : cur.starts[LineOf(o)] = LineStart(o)
    BY <2>1 DEF ReaderInv, Placed, StartsOK
  <2>4. ASSUME NEW i \in 1..Len(Stream) PROVE Tile(Stream[i], Before(Stream, i)) /\ Stream[i].to <= q
    BY <2>1 DEF Tiled
  <2>5. ASSUME NEW i \in 1..Len(Stream) PROVE Stream[i].line = LineOf(Stream[i].from) /\ Stream[i].col = ColumnOf(Stream[i].from)
    BY <2>4 DEF Tile
  <2>6. ASSUME NEW i \in 1..Len(out), out[i].kind # "Eof"
        PROVE  Quoted(out[i].line, out[i].col, out[i].from, out[i].str[1])
    <3> DEFINE t == out[i]
               m == t.from
    <3>1. i \in 1..Len(Stream) /\ Stream[i] = t
      BY <2>1, ConcatProperties DEF Stream
    <3>2. t \in Tokens
      BY <2>1
    <3>3. m \in Nat /\ t.to \in Nat /\ t.str \in Seq(Characters)
      BY <3>2 DEF Tokens
    <3>4. /\ m <= t.to /\ t.to <= Len(file) /\ t.to <= q /\ t.str = SubSeq(file, m + 1, t.to) /\ m # Len(file)
          /\ IsToken(t.str) /\ t.line = LineOf(m) /\ t.col = ColumnOf(m)
      BY <3>1, <2>4, <2>6 DEF Tile
    <3> HIDE DEF t, m
    <3>5. Len(t.str) > 0 /\ t.str[1] \in Alpha \cup Digits \cup OneOps
      <4> DEFINE str == t.str
      <4>1. str \in Seq(Characters) /\ (IsWord(str) \/ IsNumber(str) \/ str \in Operators)
        BY <3>3, <3>4 DEF IsToken
      <4> HIDE DEF str
      <4>2. Len(str) > 0 /\ str[1] \in Alpha \cup Digits \cup OneOps
        BY <4>1, FirstDecides
      <4> QED
        BY <4>2 DEF str
    <3>6. m \in 0..q /\ m < Len(file) /\ m \in 0..Len(file) /\ t.to \in m..Len(file)
      BY <3>3, <3>4, <2>1, <2>2
    <3>7. t.str = Text(m, t.to)
      BY <3>4 DEF Text
    <3>8. Len(t.str) = t.to - m /\ \A k \in 1..(t.to - m) : t.str[k] = file[m + k]
      BY <3>3, <3>6, <3>7, <2>1, TextFacts
    <3>9. t.str[1] = file[m + 1]
      <4>1. 1 \in 1..(t.to - m)
        BY <3>3, <3>5, <3>8
      <4> QED
        BY <4>1, <3>8
    <3>10. file[m + 1] \notin Spaces
      BY <3>5, <3>9, CharsNotSpaces
    <3>11. Quoted(LineOf(m), ColumnOf(m), m, file[m + 1])
      BY <3>3, <3>6, <3>10, <2>1, <2>3, QuotedShows
    <3>12. Quoted(t.line, t.col, m, t.str[1])
      BY <3>4, <3>9, <3>11
    <3> QED
      BY <3>12 DEF t, m
  <2>7. ASSUME pc = "error", ~IsEof(cur) PROVE Quoted(cur.line, cur.column, q, file[q + 1])
    <3>1. q < Len(file) /\ q \in 0..q
      BY <2>1, <2>2, <2>7
    <3>2. Justified(q, ReadTo(Stream))
      BY <2>1, <2>7 DEF Phase
    <3>3. file[q + 1] \notin Spaces
      BY <3>1, <3>2, CharsNotSpaces DEF Justified
    <3>4. Quoted(LineOf(q), ColumnOf(q), q, file[q + 1])
      BY <3>1, <3>3, <2>1, <2>3, QuotedShows
    <3> QED
      BY <3>4, <2>2
  <2> QED
    BY <2>2, <2>5, <2>6, <2>7 DEF PositionsExact
<1> QED
  BY <1>1, LexInvariant, PTL

(* A file is refused only for a character no token starts with, or a        *)
(* comment that does not end or is not ASCII, and the reader never runs     *)
(* behind the sentinel (invalidCharError, error, isEof).                    *)
THEOREM ErrorsHaveReasons == Spec => []ErrorsJustified
<1>1. LexInv => ErrorsJustified
  <2> SUFFICES ASSUME LexInv PROVE ErrorsJustified
    OBVIOUS
  <2>1. FileOK /\ ReaderInv(cur) /\ Phase(pc, cur, tok, ReadTo(Stream))
    BY InvFacts
  <2>2. cur.last \in Characters
    BY <2>1, ReaderAt
  <2>3. cur.last # "GARBAGE"
    BY <2>2 DEF Characters, Spaces, Alpha, Digits, SingleCharOps, OperatorStarts
  <2>4. pc = "error" => Justified(Offset(cur), IF Stream = <<>> THEN 0 ELSE Stream[Len(Stream)].to)
    BY <2>1 DEF Phase, ReadTo
  <2> QED
    BY <2>3, <2>4 DEF ErrorsJustified, Justified, Opens
<1> QED
  BY <1>1, LexInvariant, PTL
=============================================================================
