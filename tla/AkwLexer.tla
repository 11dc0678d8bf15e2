------------------------------ MODULE AkwLexer ------------------------------
(***************************************************************************)
(* From standard input to tokens: main reads the text into a buffer that   *)
(* grows (read_from_stdin), and the lexer (src/lexer.c) scans it, one call *)
(* of akw_lexer_next at a time, until the end of the file or an error, as  *)
(* the parser calls it.                                                    *)
(*                                                                         *)
(* A character is a string of length one.  The lexer has no length to stop *)
(* at but relies on the NUL behind the text; what lies further on in the   *)
(* buffer was never written and is some character, `behind`.               *)
(***************************************************************************)
EXTENDS AkwBuffer, Sequences, SequencesExt

CONSTANTS
  Letters,    \* the characters of isalpha
  Pieces,     \* the sequences of characters that standard input is made of
  MaxPieces,  \* bound on the length of standard input, in pieces
  Garbage     \* what memory that was never written may hold

ASSUME LexerAssumption == MaxPieces \in Nat /\ {"e", "E"} \subseteq Letters

VARIABLES
  input,   \* the rest of the piece that getchar is reading
  pieces,  \* number of pieces drawn so far
  buf,     \* capacity and count of the buffer
  bytes,   \* what has been written to it
  behind,  \* what is there otherwise
  phase,   \* "reading", "scanning" or "done"
  lrc,     \* rc
  curr,    \* position of the next character
  ln, col, \* where that is, for messages
  token    \* lex.token, its characters as positions

lexerVars == <<input, pieces, buf, bytes, behind, phase, lrc, curr, ln, col, token>>

NUL == "\\0"
Quote == "\""
Spaces == {" ", "\t", "\n", "\\v", "\f", "\r"}
Digits == {"0", "1", "2", "3", "4", "5", "6", "7", "8", "9"}
WordChars == Letters \union Digits \union {"_"}

Punctuation ==
  [c \in {",", ";", "(", ")", "[", "]", "{", "}", "&", "=", "+", "-", "*", "/", "%"} |->
     CASE c = "," -> "Comma" [] c = ";" -> "Semicolon" [] c = "(" -> "LParen" [] c = ")" -> "RParen"
       [] c = "[" -> "LBracket" [] c = "]" -> "RBracket" [] c = "{" -> "LBrace" [] c = "}" -> "RBrace"
       [] c = "&" -> "Amp" [] c = "=" -> "Eq" [] c = "+" -> "Plus" [] c = "-" -> "Minus"
       [] c = "*" -> "Star" [] c = "/" -> "Slash" [] c = "%" -> "Percent"]

\* No two keywords begin alike.
KeywordKinds ==
  [w \in {<<"f", "a", "l", "s", "e">>, <<"i", "n", "o", "u", "t">>, <<"l", "e", "t">>,
          <<"n", "i", "l">>, <<"r", "e", "t", "u", "r", "n">>, <<"t", "r", "u", "e">>} |->
     CASE w[1] = "f" -> "FalseKw" [] w[1] = "i" -> "InoutKw" [] w[1] = "l" -> "LetKw"
       [] w[1] = "n" -> "NilKw" [] w[1] = "r" -> "ReturnKw" [] w[1] = "t" -> "TrueKw"]

\* isalpha takes the letters of the keywords, and none of what is something else.
ASSUME LettersAssumption ==
  /\ UNION {Range(w) : w \in DOMAIN KeywordKinds} \subseteq Letters
  /\ Letters \intersect ({NUL, ".", Quote, "_"} \union Spaces \union Digits \union DOMAIN Punctuation) = {}

NoToken == [kind |-> "None", ln |-> 0, col |-> 0, chars |-> 0, length |-> 0]

LexerInit ==
  /\ input = <<>> /\ pieces = 0
  /\ buf = EmptyBuffer /\ bytes = <<>>
  /\ behind \in Garbage
  /\ phase = "reading" /\ lrc = "Ok"
  /\ curr = 1 /\ ln = 1 /\ col = 1
  /\ token = NoToken

-----------------------------------------------------------------------------
\* read_from_stdin.

scanVars == <<curr, ln, col, token>>

Write(c, next) ==
  /\ UNCHANGED <<behind, scanVars>>
  /\ IF CannotHold(buf, buf.count + 1)
     THEN lrc' = "Range" /\ phase' = "done" /\ UNCHANGED <<buf, bytes>>
     ELSE /\ buf' = Extended(buf, 1)
          /\ bytes' = Append(bytes, c)
          /\ phase' = next
          /\ UNCHANGED lrc

ReadByte ==
  /\ phase = "reading"
  /\ \/ /\ input # <<>>
        /\ Write(Head(input), "reading")
        /\ input' = Tail(input)
        /\ UNCHANGED pieces
     \/ /\ input = <<>> /\ pieces < MaxPieces
        /\ \E p \in Pieces : Write(Head(p), "reading") /\ input' = Tail(p)
        /\ pieces' = pieces + 1

EndOfInput ==
  /\ phase = "reading" /\ input = <<>>
  /\ Write(NUL, "scanning")
  /\ UNCHANGED <<input, pieces>>

-----------------------------------------------------------------------------
\* Scanning.

\* One past the bytes written, and some way on, there is something.
Memory == bytes \o <<behind, behind, NUL>>

\* The first position from i on whose character is not in S.
After(i, S) ==
  CHOOSE j \in i..Len(Memory) : Memory[j] \notin S /\ \A k \in i..j - 1 : Memory[k] \in S

\* Where the token starts, once skip_space has run.
start == After(curr, Spaces)
First == Memory[start]

\* Faulty variant: the column goes on over the end of a line.
NextCharSameLine(pos, c) ==
  [ln |-> IF c = "\n" THEN pos.ln + 1 ELSE pos.ln, col |-> pos.col + 1]

\* next_char, for what it does to the line and the column.
NextChar(pos, c) ==
  IF c = "\n" THEN [ln |-> pos.ln + 1, col |-> 1] ELSE [pos EXCEPT !.col = @ + 1]

Moved(from, to) ==
  LET past[n \in 0..to - from] ==
        IF n = 0 THEN [ln |-> ln, col |-> col] ELSE NextChar(past[n - 1], Memory[from + n - 1])
  IN past[to - from]

\* The characters from start up to `end` are a token of this kind; its text is
\* without the first and last `quotes` of them.
Token(kind, end, quotes) ==
  LET here == Moved(curr, start)
      there == Moved(curr, end)
  IN /\ token' = [kind |-> kind, ln |-> here.ln, col |-> here.col,
                  chars |-> start + quotes, length |-> end - start - 2 * quotes]
     /\ curr' = end /\ ln' = there.ln /\ col' = there.col
     /\ phase' = IF kind = "Eof" THEN "done" ELSE "scanning"
     /\ UNCHANGED lrc

\* Faulty variant: the caller does not learn of the error.
LexicalErrorUnreported ==
  /\ curr' = start /\ ln' = Moved(curr, start).ln /\ col' = Moved(curr, start).col
  /\ UNCHANGED <<lrc, phase, token>>

\* unterminated string, unexpected character: the spaces have been skipped.
LexicalError ==
  /\ lrc' = "Lexical"
  /\ phase' = "done"
  /\ curr' = start /\ ln' = Moved(curr, start).ln /\ col' = Moved(curr, start).col
  /\ UNCHANGED token

Scans == phase = "scanning" /\ UNCHANGED <<input, pieces, buf, bytes, behind>>

MatchEof == Scans /\ First = NUL /\ Token("Eof", start + 1, 0)

MatchChar ==
  /\ Scans
  /\ First \in DOMAIN Punctuation
  /\ Token(Punctuation[First], start + 1, 0)

IsDotDot == First = "." /\ Memory[start + 1] = "."
MatchChars == Scans /\ IsDotDot /\ Token("DotDot", start + 2, 0)

\* match_number in four parts: where the integer ends; whether a point follows;
\* where the digits behind it end, if there are any; where the exponent ends.
\* As a point without a digit ends the number, "1..5" keeps its dots.
IntegerEnd == IF First = "0" THEN start + 1 ELSE After(start, Digits)
HasPoint == Memory[IntegerEnd] = "."
HasFraction == HasPoint /\ Memory[IntegerEnd + 1] \in Digits
FractionEnd == IF HasFraction THEN After(IntegerEnd + 1, Digits) ELSE IntegerEnd
HasExponent == Memory[FractionEnd] \in {"e", "E"}
ExponentDigits ==
  IF Memory[FractionEnd + 1] \in {"+", "-"} THEN FractionEnd + 2 ELSE FractionEnd + 1
NumberEnd == IF HasExponent THEN After(ExponentDigits, Digits) ELSE FractionEnd

\* Faulty variant: a point must have digits behind it.
IsNumberGreedy ==
  /\ First \in Digits
  /\ HasExponent => Memory[ExponentDigits] \in Digits
  /\ Memory[NumberEnd] \notin WordChars \union {"."}

IsNumber ==
  /\ First \in Digits
  /\ \/ HasPoint /\ ~HasFraction
     \/ /\ HasExponent => Memory[ExponentDigits] \in Digits
        /\ Memory[NumberEnd] \notin WordChars

\* Faulty variant: only a number with an exponent is no integer.
NumberKindByExponent == IF HasExponent THEN "Number" ELSE "Int"

\* An exponent does not make an integer a number, a point does, and so do the
\* dots of a range.
NumberKind == IF HasPoint THEN "Number" ELSE "Int"

MatchNumber ==
  /\ Scans /\ IsNumber
  /\ Token(NumberKind, IF HasPoint /\ ~HasFraction THEN IntegerEnd ELSE NumberEnd, 0)

\* The closing quote, or the end of the text.
StringEnd ==
  CHOOSE j \in start + 1..Len(Memory) :
    /\ Memory[j] \in {Quote, NUL}
    /\ \A k \in start + 1..j - 1 : Memory[k] \notin {Quote, NUL}

\* The token's text is what is between the quotes.
MatchString ==
  /\ Scans /\ First = Quote
  /\ \/ Memory[StringEnd] = Quote /\ Token("String", StringEnd + 1, 1)
     \/ Memory[StringEnd] = NUL /\ LexicalError

\* match_keyword, tried for each keyword, then match_name.
IsName == First \in Letters \union {"_"}
WordEnd == After(start, WordChars)
Spelling == SubSeq(Memory, start, WordEnd - 1)

MatchKeyword ==
  /\ Scans /\ IsName
  /\ Spelling \in DOMAIN KeywordKinds
  /\ Token(KeywordKinds[Spelling], WordEnd, 0)

MatchName ==
  /\ Scans /\ IsName
  /\ Spelling \notin DOMAIN KeywordKinds
  /\ Token("Name", WordEnd, 0)

Unexpected ==
  /\ Scans
  /\ First \notin DOMAIN Punctuation \union {NUL, Quote}
  /\ ~IsDotDot /\ ~IsNumber /\ ~IsName
  /\ LexicalError

\* akw_lexer_next.
LexerNext ==
  \/ ReadByte \/ EndOfInput
  \/ MatchEof \/ MatchChar \/ MatchChars \/ MatchNumber \/ MatchString
  \/ MatchKeyword \/ MatchName \/ Unexpected

LexerSpec == LexerInit /\ [][LexerNext]_lexerVars /\ WF_lexerVars(LexerNext)

-----------------------------------------------------------------------------
\* Properties.

\* The buffer never holds more than its capacity, which never passes the limit.
InputFits ==
  /\ buf \in Buffers
  /\ Len(bytes) = buf.count /\ buf.count <= buf.capacity

\* The text is what stands before the first NUL, wherever that comes from.
TextEnd == CHOOSE i \in DOMAIN bytes : bytes[i] = NUL /\ \A j \in 1..i - 1 : bytes[j] # NUL
Text == IF phase = "reading" \/ lrc = "Range" THEN <<>> ELSE SubSeq(bytes, 1, TextEnd - 1)

\* The characters of a token, with the quotes of a string.
Quotes(t) == IF t.kind = "String" THEN 1 ELSE 0
FirstOf(t) == t.chars - Quotes(t)
LastOf(t) == t.chars + t.length - 1 + Quotes(t)

ClassOf(kind) ==
  CASE kind \in {"Int", "Number"} -> "number"
    [] kind \in {KeywordKinds[w] : w \in DOMAIN KeywordKinds} -> "keyword"
    [] kind \in {Punctuation[c] : c \in DOMAIN Punctuation} \union {"DotDot"} -> "mark"
    [] kind = "Name" -> "name" [] kind = "String" -> "string"
    [] kind = "Eof" -> "end" [] OTHER -> "none"

Scanner == INSTANCE AkwTokens WITH
  Marks <- DOMAIN Punctuation, Keywords <- DOMAIN KeywordKinds,
  text <- Text,
  at <- curr - 1,
  word <- IF token = NoToken THEN [class |-> "none", first |-> 0, last |-> 0]
          ELSE [class |-> ClassOf(token.kind), first |-> FirstOf(token), last |-> LastOf(token)],
  verdict <- CASE phase = "reading" -> "waiting"
               [] phase = "scanning" -> "scanning"
               [] OTHER -> IF lrc = "Ok" THEN "accepted" ELSE "rejected"

\* The ordered tries of akw_lexer_next split every text as longest match does:
\* no keyword is cut out of a name, no number takes a dot of "..", nothing but
\* spaces is skipped, what is rejected has no token there, and neither a missing
\* quote nor a number at the end leads the scan behind the text.
ScansByLongestMatch == Scanner!Spec

\* The line and the column of a token are those an editor shows for its first
\* character, whatever strings with line breaks come before it.
PositionsRight ==
  token # NoToken =>
    LET before == SubSeq(bytes, 1, FirstOf(token) - 1)
        breaks == {i \in DOMAIN before : before[i] = "\n"}
    IN /\ token.ln = 1 + Cardinality(breaks)
       /\ token.col = Len(before) + 1 - (IF breaks = {} THEN 0 ELSE Max(breaks))

\* compile_int and compile_number convert from the token's first character on and
\* do not look at its length: strtoll stops at the first character that is no
\* digit, strtod takes a point also without digits behind it.
ConversionEnd(t) ==
  LET digits == After(t.chars, Digits)
      point == Memory[digits] = "."
      fraction == IF point THEN After(digits + 1, Digits) ELSE digits
      sign == IF Memory[fraction + 1] \in {"+", "-"} THEN fraction + 2 ELSE fraction + 1
      exponent == t.kind = "Number" /\ Memory[fraction] \in {"e", "E"} /\ Memory[sign] \in Digits
  IN CASE t.kind = "Int" -> digits [] exponent -> After(sign, Digits) [] OTHER -> fraction

Converts(t) ==
  LET end == t.chars + t.length
      converted == ConversionEnd(t)
  IN \/ converted = end
     \/ t.kind = "Number" /\ converted = end + 1 /\ Memory[end] = "."
     \/ t.kind = "Int" /\ converted < end /\ Memory[converted] \in {"e", "E"}

\* The value the compiler gives a number is that of the token.  It converts once
\* it has the next token: by then the conversion takes all of the token and, of
\* what follows, at most the first dot of a range.  The exponent of an integer is
\* the exception: 1e5 is converted as 1.
ConversionsAgree ==
  [][token.kind \in {"Int", "Number"} /\ token' # token => Converts(token)]_lexerVars

\* Every input is read and scanned to its end, or refused.
EveryTextEnds == <>(phase = "done")

=============================================================================
