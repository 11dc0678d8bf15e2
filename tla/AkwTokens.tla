----------------------------- MODULE AkwTokens -----------------------------
(***************************************************************************)
(* What the lexer (src/lexer.c) is meant to do, as any scanner is: split a *)
(* text into tokens by longest match.  The tokens are given as languages;  *)
(* the names of the terminals are those of docs/akwan.ebnf, the spellings  *)
(* those that src/lexer.c accepts.                                         *)
(*                                                                         *)
(* Only what could be spelled in one way and read in another is told       *)
(* apart: all numbers are one class here, and so are all marks.            *)
(***************************************************************************)
EXTENDS Integers, Sequences, SequencesExt

CONSTANTS
  Letters,  \* the characters of isalpha
  Spaces,   \* the characters of isspace
  Marks,    \* the spellings of one character
  Keywords  \* the spellings of the keywords

VARIABLES
  text,    \* the characters to split; <<>> until they are known
  at,      \* how many of them have been split off
  word,    \* the last token: its class and the range of characters it spans
  verdict  \* "waiting", "scanning", "accepted" or "rejected"

vars == <<text, at, word, verdict>>

Digits == {"0", "1", "2", "3", "4", "5", "6", "7", "8", "9"}
WordChars == Letters \union Digits \union {"_"}

-----------------------------------------------------------------------------
\* The languages.

Many(s) == s # <<>> /\ Range(s) \subseteq Digits
Whole(s) == s = <<"0">> \/ (Many(s) /\ s[1] # "0")
Fraction(s) == s = <<>> \/ (s[1] = "." /\ Many(Tail(s)))
Exponent(s) ==
  \/ s = <<>>
  \/ /\ s[1] \in {"e", "E"}
     /\ \/ Many(Tail(s))
        \/ Len(s) > 1 /\ s[2] \in {"+", "-"} /\ Many(Tail(Tail(s)))

\* An integer, a fraction and an exponent, one after the other.
IsNumeral(s) ==
  \E i \in 1..Len(s), j \in 1..Len(s) :
    /\ i <= j
    /\ Whole(SubSeq(s, 1, i))
    /\ Fraction(SubSeq(s, i + 1, j))
    /\ Exponent(SubSeq(s, j + 1, Len(s)))

IsString(s) ==
  /\ Len(s) > 1 /\ s[1] = "\"" /\ s[Len(s)] = "\""
  /\ \A i \in 2..Len(s) - 1 : s[i] # "\""

IsWord(s) == s # <<>> /\ s[1] \notin Digits /\ Range(s) \subseteq WordChars

Class(s) ==
  CASE s = <<".", ".">> \/ (Len(s) = 1 /\ s[1] \in Marks) -> "mark"
    [] s \in Keywords -> "keyword"
    [] IsWord(s) /\ s \notin Keywords -> "name"
    [] IsNumeral(s) -> "number"
    [] IsString(s) -> "string"
    [] OTHER -> "none"

-----------------------------------------------------------------------------

\* The position of the next character that is no space.
Start ==
  CHOOSE i \in at + 1..Len(text) + 1 :
    /\ \A j \in at + 1..i - 1 : text[j] \in Spaces
    /\ i > Len(text) \/ text[i] \notin Spaces

\* Where a token that begins at Start may end.
Ends == {j \in Start..Len(text) : Class(SubSeq(text, Start, j)) # "none"}

Longest == CHOOSE j \in Ends : \A k \in Ends : k <= j

\* Of a word or number nothing may be left over.
CutShort(j) ==
  /\ Class(SubSeq(text, Start, j)) \in {"keyword", "name", "number"}
  /\ j < Len(text) /\ text[j + 1] \in WordChars

Span(class, first, last) == [class |-> class, first |-> first, last |-> last]

Init == text = <<>> /\ at = 0 /\ word = Span("none", 0, 0) /\ verdict = "waiting"

\* The text becomes known, or is too large to be looked at.
Supply ==
  /\ verdict = "waiting"
  /\ \/ verdict' = "scanning"
     \/ verdict' = "rejected" /\ text' = <<>>
  /\ UNCHANGED <<at, word>>

Split ==
  /\ verdict = "scanning"
  /\ Ends # {} /\ ~CutShort(Longest)
  /\ word' = Span(Class(SubSeq(text, Start, Longest)), Start, Longest)
  /\ at' = Longest
  /\ UNCHANGED <<text, verdict>>

Accept ==
  /\ verdict = "scanning"
  /\ Start > Len(text)
  /\ word' = Span("end", Start, Start)
  /\ at' = Start
  /\ verdict' = "accepted"
  /\ UNCHANGED text

Reject ==
  /\ verdict = "scanning"
  /\ Start <= Len(text)
  /\ Ends = {} \/ CutShort(Longest)
  /\ at' = Start - 1
  /\ verdict' = "rejected"
  /\ UNCHANGED <<text, word>>

Next == Supply \/ Split \/ Accept \/ Reject

Spec == Init /\ [][Next]_vars

=============================================================================
