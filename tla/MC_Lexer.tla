------------------------------ MODULE MC_Lexer ------------------------------
(***************************************************************************)
(* Instances of Lexer: every file up to a length over small alphabets.     *)
(***************************************************************************)
EXTENDS Lexer

UpTo(len, alphabet) == UNION {[1 .. n -> alphabet] : n \in 0 .. len}

(* Line breaks and columns; operators and comments; words and numbers.     *)
MCFiles ==
  UpTo(5, {"a", "TAB", "CR", "LF", "HI"})
    \cup UpTo(5, {"SLASH", "STAR", "EQ", "GT", "LF", "EOF", "HI"})
    \cup UpTo(4, {"PLUS", "i", "f", "0", "1", "SP", "LBRACK", "SLASH", "STAR", "HASH"})

\* Two entries of identifierTokens, one a prefix of identifiers.
MCKeywords == {<<"i", "f">>, <<"a">>}
=============================================================================
