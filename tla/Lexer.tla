------------------------------- MODULE Lexer -------------------------------
(***************************************************************************)
(* The scanner of mjc (lexer.cpp, lexer.hpp): a buffered reader that keeps *)
(* line and column, the skipping of blanks and comments, the reading of    *)
(* one token, and the queue of looked-ahead tokens the parser peeks into.  *)
(*                                                                         *)
(* A character is a string naming it.  "EOF" is the value of the C macro:  *)
(* the sentinel readIntoBuffer stores behind the last byte of the stream,  *)
(* and also what a byte 0xFF of the file becomes when the (signed) char is *)
(* widened.  "HI" stands for any other byte with the high bit set, "HASH"  *)
(* for a printable character no token starts with, "GARBAGE" for what lies *)
(* in the buffer behind the sentinel.  Offsets count from 0, as in the     *)
(* code.                                                                   *)
(*                                                                         *)
(* One step is one turn of a scanning loop, that is one or two calls of    *)
(* nextChar.  The parser (the caller) takes the steps NextToken and        *)
(* LookAhead, in the pattern the code calls them.                          *)
(***************************************************************************)
EXTENDS Naturals, Sequences, FiniteSets, FiniteSetsExt

CONSTANTS
  Files,          \* the input files, sequences of characters
  MaxBufferSize,  \* maxBufferSize, 1024 in the code
  MaxLineLength,  \* maxLineLength of getCurrentLineFromInput, 1024 in the code
  Keywords        \* the keys of identifierTokens, as character sequences

ASSUME BufferAssumption == MaxBufferSize \in Nat \ {0} /\ MaxLineLength \in Nat \ {0}

VARIABLES
  file,       \* the bytes of the input stream
  cur,        \* the reader: buffer, position, last character, line, column
  tok,        \* tokenString, tokenLine, tokenCol of the token being read
  pc,         \* which loop of the scanner runs; "idle": no call is active
  call,       \* the active call: 0 for nextToken, n for lookAhead(n)
  lookahead,  \* tokenLookahead
  out,        \* the tokens nextToken has returned
  peeked      \* what lookAhead(1) and lookAhead(2) answered since then

vars == <<file, cur, tok, pc, call, lookahead, out, peeked>>

(***************************************************************************)
(* Character classes.                                                      *)
(***************************************************************************)
Spaces == {"SP", "CR", "LF", "TAB"}
Alpha  == {"a", "i", "f", "_"}
Digits == {"0", "1"}
HighBit(c) == c \in {"EOF", "HI"}
SingleCharOps ==
  {"LPAREN", "RPAREN", "LBRACK", "RBRACK", "LBRACE", "RBRACE", "QUEST", "COMMA", "DOT",
   "COLON", "SEMI", "TILDE"}
OperatorStarts ==
  {"STAR", "PERCENT", "PLUS", "MINUS", "LT", "GT", "AMP", "VBAR", "CARET", "EQ", "BANG"}
Characters == {"SLASH", "HASH", "EOF", "HI"} \cup Spaces \cup Alpha \cup Digits
                \cup SingleCharOps \cup OperatorStarts

(* Every file is a sequence of bytes; keywords are words. *)
IsWord(s) ==
  Len(s) > 0 /\ s[1] \in Alpha /\ \A i \in 2 .. Len(s) : s[i] \in Alpha \cup Digits
ASSUME TextAssumption ==
  /\ \A f \in Files : f \in Seq(Characters)
  /\ \A k \in Keywords : IsWord(k)

(***************************************************************************)
(* The reader.                                                             *)
(***************************************************************************)
ReadIntoBuffer(c) ==
  LET from  == c.start + c.size              \* input.tellg()
      until == Min({Len(file), from + MaxBufferSize})
      atEof == from + MaxBufferSize > Len(file)
  IN  [c EXCEPT !.start = from, !.size = until - from, !.pos = 0, !.eof = atEof,
                !.buffer = SubSeq(file, from + 1, until)
                             \o (IF atEof THEN <<"EOF">> ELSE <<>>)]

IsEof(c) == c.eof /\ c.pos = c.size + 1

\* The file offset of lastChar.
Offset(c) == c.start + c.pos - 1

\* The line break automaton: does the character before ch end its line, and
\* what does ch make of the state?
EndsLine(state, ch) == state \in {"lf", "crlf"} \/ (state = "cr" /\ ch # "LF")

LineState(state, ch) ==
  CASE ch = "CR" -> "cr"
    [] ch = "LF" /\ state = "cr" -> "crlf"
    [] ch = "LF" /\ state # "cr" -> "lf"
    [] OTHER -> "normal"

\* Mutant: the offset in the buffer is taken for the offset in the file.
NextOffsetInBuffer(b) == b.pos

\* The file offset of the character nextChar is about to deliver.
NextOffset(b) == b.start + b.pos

NextChar(c) ==
  LET b  == IF ~c.eof /\ c.pos = c.size THEN ReadIntoBuffer(c) ELSE c
      ch == IF b.pos < Len(b.buffer) THEN b.buffer[b.pos + 1] ELSE "GARBAGE"
      nl == EndsLine(c.lineState, ch)
  IN  [b EXCEPT !.pos = b.pos + 1, !.last = ch, !.lineState = LineState(c.lineState, ch),
                !.line = IF nl THEN @ + 1 ELSE @,
                !.column = IF nl THEN 1 ELSE IF c.last = "TAB" THEN @ + 2 ELSE @ + 1,
                !.starts = IF nl THEN Append(@, NextOffset(b)) ELSE @]

\* What the constructor leaves behind before its first nextChar.
NewReader ==
  [buffer |-> <<>>, start |-> 0, size |-> 0, pos |-> 0, eof |-> FALSE, last |-> "NUL",
   lineState |-> "normal", line |-> 1, column |-> 0, starts |-> <<0>>]

(***************************************************************************)
(* getCurrentLineFromInput: the line an error message quotes, read back    *)
(* from the stream at the remembered offset, one element per column.       *)
(***************************************************************************)
CurrentLine(lineNr) ==
  LET from == cur.starts[lineNr]
      stop == {o \in from .. Len(file) - 1 : file[o + 1] \in {"CR", "LF"}}
                \cup {Len(file), from + MaxLineLength - 1}
      Column(ch) == CASE ch = "TAB" -> <<"SP", "SP">>
                      [] HighBit(ch) -> <<"QUEST">>
                      [] OTHER -> <<ch>>
      line[o \in from .. Len(file)] ==
        IF o = from THEN <<>> ELSE line[o - 1] \o Column(file[o])
  IN  line[Min(stop)]

(***************************************************************************)
(* Reading a token.  Word, number and operator readers differ in the       *)
(* characters they append to what they have (tokenString) so far.          *)
(***************************************************************************)
InitToken(c) == [str |-> <<>>, line |-> c.line, col |-> c.column, from |-> Offset(c)]

\* readSlashFromSecondCharOn, readStar, readPercent, readPlus, readMinus.
ArithmeticFollow(str) ==
  CASE str \in {<<"SLASH">>, <<"STAR">>, <<"PERCENT">>} -> {"EQ"}
    [] str = <<"PLUS">>  -> {"EQ", "PLUS"}
    [] str = <<"MINUS">> -> {"EQ", "MINUS"}
    [] OTHER -> {}

\* Mutant: readGT does not read the unsigned shift.
ComparisonFollowNoShift(str) ==
  CASE str = <<"LT">> -> {"EQ", "LT"}
    [] str = <<"GT">> -> {"EQ", "GT"}
    [] str \in {<<"LT", "LT">>, <<"GT", "GT">>} -> {"EQ"}
    [] OTHER -> {}

\* readLT, readGT.
ComparisonFollow(str) ==
  CASE str = <<"LT">> -> {"EQ", "LT"}
    [] str \in {<<"GT">>, <<"GT", "GT">>} -> {"EQ", "GT"}
    [] str \in {<<"LT", "LT">>, <<"GT", "GT", "GT">>} -> {"EQ"}
    [] OTHER -> {}

\* readEq, readBang, readAmp, readVBar, readCaret.
LogicalFollow(str) ==
  CASE str \in {<<"EQ">>, <<"BANG">>, <<"CARET">>} -> {"EQ"}
    [] str = <<"AMP">>  -> {"AMP", "EQ"}
    [] str = <<"VBAR">> -> {"VBAR", "EQ"}
    [] OTHER -> {}

OperatorFollow(str) == ArithmeticFollow(str) \cup ComparisonFollow(str) \cup LogicalFollow(str)

\* readDecNumber: a leading 0 is a literal of its own.
NumberFollow(str) == IF str = <<"0">> THEN {} ELSE Digits

Follow ==
  CASE pc = "word"     -> Alpha \cup Digits
    [] pc = "number"   -> NumberFollow(tok.str)
    [] pc = "operator" -> OperatorFollow(tok.str)

\* The kind of a complete token: the keyword table is asked once the whole
\* word has been read.
Kind ==
  CASE pc = "word"     -> IF tok.str \in Keywords THEN "keyword" ELSE "Identifier"
    [] pc = "number"   -> "IntLiteral"
    [] pc = "operator" -> "operator"

Token(kind, t, c) ==
  [kind |-> kind, str |-> t.str, line |-> t.line, col |-> t.col,
   from |-> t.from, to |-> Offset(c)]

(***************************************************************************)
(* readNextToken is done: nextToken returns the token; peekAhead appends   *)
(* it to the queue and goes on until the queue is one longer than asked.   *)
(***************************************************************************)
PeeksOn == Len(lookahead) < call

QueueWith(t) == Append(lookahead, t)

Deliver(t) ==
  IF call = 0
  THEN /\ out' = Append(out, t)
       /\ pc' = "idle"
       /\ peeked' = <<>>
       /\ UNCHANGED <<lookahead, call>>
  ELSE /\ lookahead' = QueueWith(t)
       /\ pc' = IF PeeksOn THEN "skip" ELSE "idle"
       /\ peeked' = IF PeeksOn THEN peeked ELSE Append(peeked, QueueWith(t)[call])
       /\ UNCHANGED <<out, call>>

(***************************************************************************)
(* The caller: nextToken until Eof; lookAhead(1), and lookAhead(2) only    *)
(* directly after it (parseBlockStatement), with a current token.          *)
(***************************************************************************)
Ended == out # <<>> /\ out[Len(out)].kind = "Eof"

NextToken ==
  /\ pc = "idle"
  /\ ~Ended
  /\ IF lookahead = <<>>
     THEN /\ pc' = "skip"
          /\ call' = 0
          /\ UNCHANGED <<lookahead, out, peeked>>
     ELSE /\ out' = Append(out, Head(lookahead))
          /\ lookahead' = Tail(lookahead)
          /\ peeked' = <<>>
          /\ UNCHANGED <<pc, call>>
  /\ UNCHANGED <<file, cur, tok>>

LookAhead ==
  /\ pc = "idle"
  /\ ~Ended
  /\ out # <<>>
  /\ Len(peeked) < 2
  /\ LET n == Len(peeked) + 1
     IN  IF n <= Len(lookahead)
         THEN /\ peeked' = Append(peeked, lookahead[n])
              /\ UNCHANGED <<pc, call>>
         ELSE /\ pc' = "skip"
              /\ call' = n
              /\ UNCHANGED peeked
  /\ UNCHANGED <<file, cur, tok, lookahead, out>>

(***************************************************************************)
(* The scanner.                                                            *)
(***************************************************************************)
\* skipCommentsAndWhitespaces: a blank, a slash that opens a comment or is an
\* operator, or the first character of a token.
SkipBlank ==
  /\ pc = "skip"
  /\ cur.last \in Spaces
  /\ cur' = NextChar(cur)
  /\ UNCHANGED <<file, tok, pc, call, lookahead, out, peeked>>

SkipSlash ==
  /\ pc = "skip"
  /\ cur.last = "SLASH"
  /\ LET second == NextChar(cur)
     IN  IF second.last = "STAR"
         THEN /\ cur' = NextChar(second)
              /\ tok' = InitToken(cur)
              /\ pc' = "comment"
         ELSE /\ cur' = second
              /\ tok' = [InitToken(cur) EXCEPT !.str = <<"SLASH">>]
              /\ pc' = "operator"
  /\ UNCHANGED <<file, call, lookahead, out, peeked>>

\* Mutant: after a '*' the next character is skipped, whatever it is.
AfterStarSkips(star, second) == NextChar(second)

\* Mutant: a '*' that does not end the comment is looked at again.
AfterStarStays(star, second) == IF second.last = "SLASH" THEN NextChar(second) ELSE star

\* In a comment, behind a '*': the '/' that ends it is eaten, anything else is
\* left for the next turn of the loop ("for cases like '**/'").
AfterStar(star, second) == IF second.last = "SLASH" THEN NextChar(second) ELSE second

\* The loop over a comment's text.
SkipComment ==
  /\ pc = "comment"
  /\ IF IsEof(cur) \/ HighBit(cur.last)
     THEN pc' = "error" /\ UNCHANGED cur
     ELSE LET second == NextChar(cur)
          IN  IF cur.last = "STAR"
              THEN /\ cur' = AfterStar(cur, second)
                   /\ pc' = IF second.last = "SLASH" THEN "skip" ELSE "comment"
              ELSE cur' = second /\ UNCHANGED pc
  /\ UNCHANGED <<file, tok, call, lookahead, out, peeked>>

\* readNextToken after the blanks: the first character decides.
FirstChar ==
  /\ pc = "skip"
  /\ cur.last \in Alpha \cup Digits \cup OperatorStarts \cup SingleCharOps
  /\ tok' = [InitToken(cur) EXCEPT !.str = <<cur.last>>]
  /\ cur' = NextChar(cur)
  /\ pc' = CASE cur.last \in Alpha  -> "word"
             [] cur.last \in Digits -> "number"
             [] OTHER               -> "operator"
  /\ UNCHANGED <<file, call, lookahead, out, peeked>>

FollowingChar ==
  /\ pc \in {"word", "number", "operator"}
  /\ cur.last \in Follow
  /\ tok' = [tok EXCEPT !.str = Append(@, cur.last)]
  /\ cur' = NextChar(cur)
  /\ UNCHANGED <<file, pc, call, lookahead, out, peeked>>

LastChar ==
  /\ pc \in {"word", "number", "operator"}
  /\ cur.last \notin Follow
  /\ Deliver(Token(Kind, tok, cur))
  /\ UNCHANGED <<file, cur, tok>>

EndOfFile ==
  /\ pc = "skip"
  /\ IsEof(cur)
  /\ tok' = InitToken(cur)
  /\ Deliver(Token("Eof", InitToken(cur), cur))
  /\ UNCHANGED <<file, cur>>

InvalidChar ==
  /\ pc = "skip"
  /\ ~IsEof(cur)
  /\ cur.last \notin Spaces \cup {"SLASH"} \cup Alpha \cup Digits
                       \cup OperatorStarts \cup SingleCharOps
  /\ tok' = InitToken(cur)
  /\ pc' = "error"
  /\ UNCHANGED <<file, cur, call, lookahead, out, peeked>>

\* The caller has its Eof token, or an error was thrown.
Stopped ==
  /\ (pc = "idle" /\ Ended) \/ pc = "error"
  /\ UNCHANGED vars

(***************************************************************************)
(* The specification.                                                      *)
(***************************************************************************)
Init ==
  /\ file \in Files
  /\ cur = NextChar(ReadIntoBuffer(NewReader))
  /\ tok = InitToken(cur)
  /\ pc = "idle"
  /\ call = 0
  /\ lookahead = <<>>
  /\ out = <<>>
  /\ peeked = <<>>

Scan ==
  \/ SkipBlank \/ SkipSlash \/ SkipComment \/ FirstChar \/ FollowingChar
  \/ LastChar \/ EndOfFile \/ InvalidChar

Next == NextToken \/ LookAhead \/ Scan \/ Stopped

\* The compiler is one thread: a scanning loop that can go on does.
Spec == Init /\ [][Next]_vars /\ WF_vars(Scan)

(***************************************************************************)
(* Reference definitions: what the tokens of a file are, and where they    *)
(* stand, said of the file as a whole.                                     *)
(***************************************************************************)
Operators ==
  {<<c>> : c \in SingleCharOps \cup OperatorStarts \cup {"SLASH"}}
    \cup {<<c, "EQ">> : c \in {"SLASH", "STAR", "PERCENT", "PLUS", "MINUS", "LT", "GT", "EQ",
                               "BANG", "AMP", "VBAR", "CARET"}}
    \cup {<<c, c>> : c \in {"PLUS", "MINUS", "LT", "GT", "AMP", "VBAR"}}
    \cup {<<"LT", "LT", "EQ">>, <<"GT", "GT", "EQ">>, <<"GT", "GT", "GT">>,
          <<"GT", "GT", "GT", "EQ">>}

IsNumber(s) ==
  /\ Len(s) > 0
  /\ \A i \in 1 .. Len(s) : s[i] \in Digits
  /\ s[1] = "0" => Len(s) = 1

IsToken(s) == IsWord(s) \/ IsNumber(s) \/ s \in Operators

\* The offsets behind the comment that starts at offset o: none or one.
CommentEnds(o) ==
  LET Closed(e) == e \in o + 4 .. Len(file) /\ file[e - 1] = "STAR" /\ file[e] = "SLASH"
  IN  IF o + 2 <= Len(file) /\ file[o + 1] = "SLASH" /\ file[o + 2] = "STAR"
      THEN {e \in o + 4 .. Len(file) : Closed(e) /\ \A d \in o + 4 .. e - 1 : ~Closed(d)}
      ELSE {}

AsciiOnly(from, to) == \A o \in from + 1 .. to : ~HighBit(file[o])

\* Between offsets o and p there are only blanks and whole comments: the least
\* set that has o and, with an offset, the one behind the blank or the comment
\* there, has p.
Behind(o) ==
  {b \in {o + 1} : o < Len(file) /\ file[b] \in Spaces} \cup {e \in CommentEnds(o) : AsciiOnly(o, e)}
Blank(o, p) ==
  /\ o <= p
  /\ \A S \in SUBSET (o .. p) :
       o \in S /\ (\A q \in S : Behind(q) \cap o .. p \subseteq S) => p \in S

\* The line breaks of a text are LF, CR LF, and CR.
BreakAfter(o) ==
  \/ file[o] = "LF"
  \/ file[o] = "CR" /\ ~(o < Len(file) /\ file[o + 1] = "LF")

LineStart(o) == Max({0} \cup {b \in 1 .. o : BreakAfter(b)})
LineOf(o) == 1 + Cardinality({b \in 1 .. o : BreakAfter(b)})
ColumnOf(o) ==
  1 + (o - LineStart(o)) + Cardinality({b \in LineStart(o) + 1 .. o : file[b] = "TAB"})

\* Everything readNextToken has returned, in the order it was read.
Stream == out \o lookahead

(***************************************************************************)
(* Properties.                                                             *)
(***************************************************************************)
\* The tokens read so far tile the file: between two of them there are only
\* blanks and whole comments, each is spelled as the file is, and each is the
\* longest token that starts where it starts, however the bytes fell into the
\* buffer and whichever call read it (readNextToken, skipCommentsAndWhitespaces,
\* the operator readers, readIntoBuffer); and what lookAhead answered is what
\* the following calls of nextToken return.
TokensTileFile ==
  /\ peeked = SubSeq(lookahead, 1, Len(peeked))
  /\ \A i \in 1 .. Len(Stream) :
    LET t == Stream[i]
        before == IF i = 1 THEN 0 ELSE Stream[i - 1].to
    IN  /\ Blank(before, t.from)
        /\ t.str = SubSeq(file, t.from + 1, t.to)
        /\ t.kind = "Eof" <=> t.from = Len(file)
        /\ t.kind # "Eof" => /\ IsToken(t.str)
                             /\ \A e \in t.to + 1 .. Len(file) :
                                  ~IsToken(SubSeq(file, t.from + 1, e))
                             /\ ~(t.str = <<"SLASH">> /\ t.to < Len(file) /\ file[t.to + 1] = "STAR")
        /\ t.kind = "keyword" <=> t.str \in Keywords

\* Every token, and the character an error is thrown at, has the line and the
\* column a reader of the file counts: LF, CR and CR LF are one line break each,
\* a tab is two columns wide (nextChar, initToken).  The line an error message
\* quotes shows the token, or the character, in the column the message names,
\* unless the line is so long that it is cut before (getCurrentLineFromInput,
\* lineStartFileOffsets).
Quoted(line, col, from, ch) ==
  from - cur.starts[line] < MaxLineLength - 1 =>
    LET quoted == CurrentLine(line)
    IN  col <= Len(quoted) /\ quoted[col] = (IF HighBit(ch) THEN "QUEST" ELSE ch)
PositionsExact ==
  /\ \A i \in 1 .. Len(Stream) :
       LET t == Stream[i] IN t.line = LineOf(t.from) /\ t.col = ColumnOf(t.from)
  /\ \A i \in 1 .. Len(out) :
       out[i].kind # "Eof" => Quoted(out[i].line, out[i].col, out[i].from, out[i].str[1])
  /\ pc = "error" => /\ cur.line = LineOf(Offset(cur))
                     /\ cur.column = ColumnOf(Offset(cur))
                     /\ ~IsEof(cur) => Quoted(cur.line, cur.column, Offset(cur), file[Offset(cur) + 1])

\* A file is refused only for a reason: behind the tokens read and the blanks
\* after them there is a comment that never ends or that holds a character that
\* is not ASCII, or a character no token starts with; and the scanner never reads
\* behind the sentinel of its buffer (invalidCharError, error, isEof).
ErrorsJustified ==
  /\ cur.last # "GARBAGE"
  /\ pc = "error" =>
       LET read == IF Stream = <<>> THEN 0 ELSE Stream[Len(Stream)].to
           o    == Offset(cur)
           opens(s) == s + 2 <= Len(file) /\ file[s + 1] = "SLASH" /\ file[s + 2] = "STAR"
       IN  \/ /\ Blank(read, o)
              /\ o < Len(file)
              /\ ~IsToken(<<file[o + 1]>>)
              /\ file[o + 1] \notin Spaces
           \/ \E s \in read .. Len(file) :
                /\ Blank(read, s) /\ opens(s)
                /\ \A e \in CommentEnds(s) : o < e
                /\ IF o < Len(file) THEN HighBit(file[o + 1]) ELSE CommentEnds(s) = {}

\* Every call of the scanner returns or throws: no input keeps one of its loops
\* going (the loops of readNextToken and skipCommentsAndWhitespaces).
CallsReturn == (pc # "idle") ~> (pc \in {"idle", "error"})
=============================================================================
