--------------------------- MODULE AkwLexerProofs ---------------------------
(***************************************************************************)
(* What holds of the input buffer and of the scan for every input, every   *)
(* alphabet and every value of the constants: the scan never leaves the    *)
(* text, it knows where it is, a number is converted as it was read, and   *)
(* the tokens are those of the longest match (AkwTokens).                  *)
(***************************************************************************)
EXTENDS AkwLexer, AkwBufferProofs

\* The buffer counts what has been written, which its capacity holds.
Filled ==
  /\ buf \in Holding
  /\ \E S : bytes \in Seq(S)
  /\ Len(bytes) = buf.count

LEMMA FilledInitial == LexerInit => Filled
<1>. SUFFICES ASSUME LexerInit  PROVE Filled
  OBVIOUS
<1>2. buf \in Holding
  BY EmptyHolds DEF LexerInit
<1>3. bytes \in Seq({}) /\ Len(bytes) = 0 /\ buf.count = 0
  BY DEF LexerInit, EmptyBuffer
<1>. QED  BY <1>2, <1>3 DEF Filled

\* One more byte, or the input is refused.
LEMMA WriteFills ==
  ASSUME Filled, NEW c, NEW next, Write(c, next)
  PROVE  Filled'
<1>. PICK S : bytes \in Seq(S)
  BY DEF Filled
<1>1. CASE CannotHold(buf, buf.count + 1)
  BY <1>1 DEF Filled, Write
<1>2. CASE ~CannotHold(buf, buf.count + 1)
  <2>1. buf' = Extended(buf, 1) /\ bytes' = Append(bytes, c)
    BY <1>2 DEF Write
  <2>2. MaxCapacity \in Nat \ {0} /\ buf \in Holding
    BY CapacityBounds DEF Filled
  <2>3. buf' \in Holding /\ buf'.count = buf.count + 1
    BY <1>2, <2>1, <2>2, ExtendedHolds
  <2>4. bytes \in Seq(S \union {c}) /\ c \in S \union {c}
    BY SeqMonotonic
  <2>5. bytes' \in Seq(S \union {c}) /\ Len(bytes') = Len(bytes) + 1
    BY <2>1, <2>4
  <2>. QED  BY <2>3, <2>5 DEF Filled
<1>. QED  BY <1>1, <1>2

LEMMA FilledStep == Filled /\ [LexerNext]_lexerVars => Filled'
<1>. SUFFICES ASSUME Filled, [LexerNext]_lexerVars  PROVE Filled'
  OBVIOUS
<1>1. CASE ReadByte
  BY <1>1, WriteFills DEF ReadByte
<1>2. CASE EndOfInput
  BY <1>2, WriteFills DEF EndOfInput
<1>3. CASE UNCHANGED <<buf, bytes>>
  BY <1>3 DEF Filled
<1>. QED
  BY <1>1, <1>2, <1>3
  DEF LexerNext, lexerVars, Scans, MatchEof, MatchChar, MatchChars, MatchNumber,
      MatchString, MatchKeyword, MatchName, Unexpected

\* However long the input is, what is read of it fits in the buffer: the byte is
\* written only once there is room, and the capacity never passes the limit
\* (read_from_stdin, akw_vector_append).
THEOREM InputAlwaysFits == LexerSpec => []InputFits
<1>1. Filled => InputFits
  BY DEF Filled, InputFits, Holding
<1>. QED  BY <1>1, FilledInitial, FilledStep, PTL DEF LexerSpec

-----------------------------------------------------------------------------
\* Where the lexer is.

\* The length of the text with its NUL.
Size == Len(bytes)

LEMMA MemoryIs ==
  ASSUME Filled
  PROVE  /\ Size \in Nat /\ Len(Memory) = Size + 3
         /\ \A k \in 1..Size : Memory[k] = bytes[k]
         /\ Memory[Size + 3] = NUL
<1>1. PICK S : bytes \in Seq(S)
  BY DEF Filled
<1>. DEFINE more == <<behind, behind, NUL>>
            M == S \union {behind, NUL}
<1>2. bytes \in Seq(M) /\ more \in Seq(M) /\ Len(more) = 3 /\ more[3] = NUL /\ Len(bytes) \in Nat
  BY <1>1, SeqMonotonic, LenProperties
<1>. HIDE DEF more, M
<1>3. /\ Len(bytes \o more) = Len(bytes) + Len(more)
      /\ \A k \in 1..Len(bytes) + Len(more) : (bytes \o more)[k] = IF k <= Len(bytes) THEN bytes[k] ELSE more[k - Len(bytes)]
  BY <1>2, ConcatProperties
<1>4. Memory = bytes \o more
  BY DEF Memory, more
<1>5. (bytes \o more)[Size + 3] = NUL
  BY <1>2, <1>3 DEF Size
<1>. QED  BY <1>2, <1>3, <1>4, <1>5 DEF Size

\* A scan over characters of S stops at the first that is not in S.
LEMMA AfterStops ==
  ASSUME Len(Memory) \in Nat, NEW S, NEW i \in Nat, NEW n \in Nat, i <= n, n <= Len(Memory), Memory[n] \notin S
  PROVE  /\ After(i, S) \in i..n /\ Memory[After(i, S)] \notin S
         /\ \A k \in i..After(i, S) - 1 : Memory[k] \in S
<1>. DEFINE U == {j \in i..n : Memory[j] \notin S}
            Stops(j) == Memory[j] \notin S /\ \A k \in i..j - 1 : Memory[k] \in S
<1>1. U \subseteq Nat /\ n \in U
  OBVIOUS
<1>2. PICK j \in U : \A k \in U : j <= k
  <2>. HIDE DEF U
  <2>. QED  BY <1>1, LeastMember
<1>3. j \in i..Len(Memory) /\ j \in i..n /\ Stops(j)
  <2>1. ASSUME NEW k \in i..j - 1  PROVE Memory[k] \in S
    <3>1. k \in i..n /\ k < j
      OBVIOUS
    <3>2. k \notin U
      BY <1>2, <3>1
    <3>. QED  BY <3>1, <3>2
  <2>. QED  BY <2>1
<1>4. After(i, S) = CHOOSE a \in i..Len(Memory) : Stops(a)
  BY DEF After
<1>5. After(i, S) \in i..Len(Memory) /\ Stops(After(i, S))
  <2>. HIDE DEF Stops
  <2>. QED  BY <1>3, <1>4
<1>6. After(i, S) <= j
  BY <1>3, <1>5
<1>. QED  BY <1>3, <1>5, <1>6

LEMMA AfterIs ==
  ASSUME Len(Memory) \in Nat, NEW S, NEW i \in Nat, NEW j \in i..Len(Memory), Memory[j] \notin S,
         \A k \in i..j - 1 : Memory[k] \in S
  PROVE  After(i, S) = j
<1>. DEFINE a == After(i, S)
<1>1. a \in i..j /\ Memory[a] \notin S
  BY AfterStops
<1>. HIDE DEF a
<1>2. a = j
  BY <1>1
<1>. QED  BY <1>2 DEF a

-----------------------------------------------------------------------------
\* Lines and columns.

\* The line breaks in front of position p, and the line and the column they
\* make p's.
Breaks(p) == {k \in 1..p - 1 : Memory[k] = "\n"}
Position(p) ==
  [ln |-> 1 + Cardinality(Breaks(p)), col |-> p - (IF Breaks(p) = {} THEN 0 ELSE Max(Breaks(p)))]

LEMMA PositionStarts == Position(1) = [ln |-> 1, col |-> 1]
<1>1. Breaks(1) = {}
  BY DEF Breaks
<1>. QED  BY <1>1, FS_EmptySet DEF Position

LEMMA LastBreak ==
  ASSUME NEW p \in Nat \ {0}
  PROVE  (IF Breaks(p) = {} THEN 0 ELSE Max(Breaks(p))) \in Int
<1>1. CASE Breaks(p) # {}
  <2>. DEFINE n == p - 1
  <2>1. n \in Nat /\ Breaks(p) \subseteq 1..n
    BY DEF Breaks
  <2>2. \A k \in Breaks(p) : k \in Int
    BY DEF Breaks
  <2>. HIDE DEF n
  <2>3. PICK k \in Breaks(p) : \A i \in Breaks(p) : i <= k
    BY <1>1, <2>1, LastIndex
  <2>4. Max(Breaks(p)) \in Breaks(p)
    BY <2>2, <2>3 DEF Max
  <2>. QED  BY <2>2, <1>1, <2>4
<1>. QED  BY <1>1

\* next_char keeps line and column right.
LEMMA NextPosition ==
  ASSUME NEW p \in Nat \ {0}
  PROVE  NextChar(Position(p), Memory[p]) = Position(p + 1)
<1>1. IsFiniteSet(Breaks(p)) /\ Cardinality(Breaks(p)) \in Nat
  <2>1. IsFiniteSet(1..p - 1)
    BY FS_Interval
  <2>. QED  BY <2>1, FS_Subset, FS_CardinalityType DEF Breaks
<1>2. CASE Memory[p] = "\n"
  <2>1. Breaks(p + 1) = Breaks(p) \union {p} /\ p \notin Breaks(p)
    BY <1>2 DEF Breaks
  <2>2. Cardinality(Breaks(p + 1)) = Cardinality(Breaks(p)) + 1
    BY <1>1, <2>1, FS_AddElement
  <2>3. Max(Breaks(p + 1)) = p
    <3>1. p \in Breaks(p + 1) /\ \A k \in Breaks(p + 1) : k \in Int /\ p >= k
      BY <2>1 DEF Breaks
    <3>. DEFINE B == Breaks(p + 1)
                Greatest(x) == \A y \in B : x >= y
    <3>2. Max(B) = CHOOSE x \in B : Greatest(x)
      BY DEF Max
    <3>3. p \in B /\ Greatest(p) /\ \A x \in B : Greatest(x) => x = p
      BY <3>1
    <3>. HIDE DEF B, Greatest
    <3>4. Max(B) = p
      BY <3>2, <3>3
    <3>. QED  BY <3>4 DEF B
  <2>4. Breaks(p + 1) # {}
    BY <2>1
  <2>. QED  BY <1>1, <1>2, <2>2, <2>3, <2>4 DEF NextChar, Position
<1>3. CASE Memory[p] # "\n"
  <2>1. Breaks(p + 1) = Breaks(p)
    BY <1>3 DEF Breaks
  <2>. DEFINE last == IF Breaks(p) = {} THEN 0 ELSE Max(Breaks(p))
  <2>3. last \in Int
    BY LastBreak
  <2>4. Position(p) = [ln |-> 1 + Cardinality(Breaks(p)), col |-> p - last]
        /\ Position(p + 1) = [ln |-> 1 + Cardinality(Breaks(p)), col |-> p + 1 - last]
    <3>1. last = IF Breaks(p) = {} THEN 0 ELSE Max(Breaks(p))
      OBVIOUS
    <3>2. last = IF Breaks(p + 1) = {} THEN 0 ELSE Max(Breaks(p + 1))
      BY <2>1
    <3>. HIDE DEF last
    <3>3. Position(p) = [ln |-> 1 + Cardinality(Breaks(p)), col |-> p - last]
      BY <3>1 DEF Position
    <3>4. Position(p + 1) = [ln |-> 1 + Cardinality(Breaks(p + 1)), col |-> p + 1 - last]
      BY <3>2 DEF Position
    <3>. QED  BY <2>1, <3>3, <3>4
  <2>. HIDE DEF last
  <2>5. (p - last) + 1 = p + 1 - last
    BY <2>3
  <2>. QED  BY <1>3, <2>4, <2>5 DEF NextChar
<1>. QED  BY <1>2, <1>3

LEMMA MovedIs ==
  ASSUME NEW from \in Nat \ {0}, NEW to \in Nat, from <= to, [ln |-> ln, col |-> col] = Position(from)
  PROVE  Moved(from, to) = Position(to)
<1>. DEFINE m == to - from
            F(f) == [n \in 0..m |->
                       IF n = 0 THEN [ln |-> ln, col |-> col] ELSE NextChar(f[n - 1], Memory[from + n - 1])]
            past == CHOOSE f : f = F(f)
            g == [n \in 0..m |-> Position(from + n)]
<1>1. m \in Nat
  OBVIOUS
<1>2. g = F(g)
  <2>1. ASSUME NEW n \in 0..m, n # 0  PROVE Position(from + n) = NextChar(g[n - 1], Memory[from + n - 1])
    <3>. DEFINE p == from + n - 1
    <3>1. p \in Nat \ {0} /\ p + 1 = from + n /\ n - 1 \in 0..m /\ from + (n - 1) = p
      BY <1>1, <2>1
    <3>2. g[n - 1] = Position(p)
      BY <3>1
    <3>. HIDE DEF p, g
    <3>3. NextChar(Position(p), Memory[p]) = Position(p + 1)
      BY <3>1, NextPosition
    <3>4. NextChar(g[n - 1], Memory[p]) = Position(from + n)
      BY <3>1, <3>2, <3>3
    <3>. QED  BY <3>4 DEF p
  <2>2. Position(from + 0) = [ln |-> ln, col |-> col]
    BY <1>1
  <2>3. ASSUME NEW n \in 0..m  PROVE g[n] = F(g)[n]
    <3>1. g[n] = Position(from + n)
      OBVIOUS
    <3>2. F(g)[n] = IF n = 0 THEN [ln |-> ln, col |-> col] ELSE NextChar(g[n - 1], Memory[from + n - 1])
      OBVIOUS
    <3>. HIDE DEF g, F, m
    <3>. QED  BY <2>1, <2>2, <3>1, <3>2
  <2>4. DOMAIN g = 0..m /\ DOMAIN F(g) = 0..m
    OBVIOUS
  <2>5. g = [n \in 0..m |-> g[n]] /\ F(g) = [n \in 0..m |-> F(g)[n]]
    OBVIOUS
  <2>. HIDE DEF g, F, m
  <2>. QED  BY <2>3, <2>5
<1>3. past = F(past)
  <2>. HIDE DEF g, F
  <2>. QED  BY <1>2
<1>. DEFINE U == {n \in Nat : n <= m => past[n] = Position(from + n)}
<1>4. 0 \in U
  <2>1. F(past)[0] = [ln |-> ln, col |-> col]
    BY <1>1
  <2>. HIDE DEF F, past
  <2>. QED  BY <1>3, <2>1
<1>5. ASSUME NEW n \in Nat, n \in U  PROVE n + 1 \in U
  <2>1. SUFFICES ASSUME n + 1 <= m  PROVE past[n + 1] = Position(from + (n + 1))
    <3>. HIDE DEF past
    <3>. QED  OBVIOUS
  <2>2. past[n] = Position(from + n)
    <3>. HIDE DEF past
    <3>. QED  BY <1>1, <1>5, <2>1
  <2>3. F(past)[n + 1] = NextChar(past[n], Memory[from + n])
    <3>1. n + 1 \in 0..m /\ n + 1 # 0 /\ n + 1 - 1 = n /\ from + (n + 1) - 1 = from + n
      BY <1>1, <2>1
    <3>. HIDE DEF past, m
    <3>. QED  BY <3>1
  <2>. DEFINE p == from + n
  <2>4. p \in Nat \ {0} /\ p + 1 = from + (n + 1)
    OBVIOUS
  <2>. HIDE DEF F, past
  <2>5. past[n + 1] = NextChar(Position(p), Memory[p])
    BY <1>3, <2>2, <2>3
  <2>. HIDE DEF p
  <2>6. NextChar(Position(p), Memory[p]) = Position(p + 1)
    BY <2>4, NextPosition
  <2>. QED  BY <2>4, <2>5, <2>6
<1>6. m \in U
  <2>. HIDE DEF U
  <2>. QED  BY <1>1, <1>4, <1>5, NatSetInduction
<1>7. Moved(from, to) = past[m]
  BY DEF Moved
<1>8. past[m] = Position(from + m) /\ from + m = to
  <2>. HIDE DEF past
  <2>. QED  BY <1>1, <1>6
<1>. QED  BY <1>7, <1>8


-----------------------------------------------------------------------------
\* The characters and the words of the language.

\* No mark and no keyword is a token of a kind that the lexer or the compiler
\* treats in its own way.
SpecialKinds == {"String", "Eof", "Int", "Number"}

LEMMA PunctuationIs ==
  /\ NUL \notin DOMAIN Punctuation /\ "." \notin DOMAIN Punctuation
  /\ \A c \in DOMAIN Punctuation : Punctuation[c] \notin SpecialKinds
BY ZenonT(40) DEF Punctuation, NUL, SpecialKinds

LEMMA KeywordKindsAre == \A w \in DOMAIN KeywordKinds : KeywordKinds[w] \notin SpecialKinds
<1>. DEFINE K(w) == CASE w[1] = "f" -> "FalseKw" [] w[1] = "i" -> "InoutKw" [] w[1] = "l" -> "LetKw"
                      [] w[1] = "n" -> "NilKw" [] w[1] = "r" -> "ReturnKw" [] w[1] = "t" -> "TrueKw"
            W == DOMAIN KeywordKinds
<1>1. \A w \in W : KeywordKinds[w] = K(w)
  BY DEF KeywordKinds
<1>2. \A w \in W : w[1] \in {"f", "i", "l", "n", "r", "t"}
  BY DEF KeywordKinds
<1>3. \A w : w[1] \in {"f", "i", "l", "n", "r", "t"} => K(w) \notin SpecialKinds
  BY DEF SpecialKinds
<1>. HIDE DEF W, K
<1>. QED  BY <1>1, <1>2, <1>3 DEF W

\* None of the classes of characters has the NUL in it, or another's.
LEMMA CharactersApart ==
  /\ NUL \notin Spaces /\ NUL \notin Digits /\ NUL \notin WordChars /\ NUL \notin Letters
  /\ "." \notin Spaces /\ "." \notin WordChars /\ "." \notin Letters \union {"_"}
  /\ "." \notin DOMAIN Punctuation /\ "." # NUL
  /\ "e" \in WordChars /\ "E" \in WordChars
  /\ Digits \subseteq WordChars /\ Letters \subseteq WordChars
  /\ NUL # "."
<1>1. NUL \notin Letters /\ "." \notin Letters
  BY LettersAssumption
<1>2. NUL \notin Spaces /\ NUL \notin Digits /\ NUL # "_" /\ "." \notin Spaces /\ "." \notin Digits /\ "." # "_" /\ "." # NUL
  BY DEF NUL, Spaces, Digits
<1>3. "." \notin DOMAIN Punctuation
  BY PunctuationIs
<1>. QED  BY <1>1, <1>2, <1>3, LexerAssumption DEF WordChars

-----------------------------------------------------------------------------
\* The scan stays in the text.

\* Between two tokens: the NUL is still ahead.
Ahead ==
  /\ curr \in 1..Size /\ bytes[Size] = NUL
  /\ [ln |-> ln, col |-> col] = Position(curr)

\* The last token is one of the text, at the position it says.
Placed(t) ==
  /\ FirstOf(t) \in 1..Size
  /\ [ln |-> t.ln, col |-> t.col] = Position(FirstOf(t))

Scanned ==
  /\ Filled
  /\ phase = "reading" => curr = 1 /\ ln = 1 /\ col = 1 /\ token = NoToken
  /\ phase = "scanning" => Ahead
  /\ token # NoToken => Placed(token)

LEMMA StartFacts ==
  ASSUME Filled, Ahead
  PROVE  /\ Size \in Nat /\ Len(Memory) = Size + 3 /\ Memory[Size] = NUL /\ Memory[Size + 3] = NUL
         /\ start \in curr..Size /\ start \in 1..Size /\ First \notin Spaces
         /\ \A k \in curr..start - 1 : Memory[k] \in Spaces
<1>1. /\ Size \in Nat /\ Len(Memory) = Size + 3 /\ Memory[Size + 3] = NUL
      /\ \A k \in 1..Size : Memory[k] = bytes[k]
  BY MemoryIs
<1>2. curr \in 1..Size /\ Memory[Size] = NUL
  BY <1>1 DEF Ahead
<1>3. curr \in Nat /\ curr <= Size /\ Size <= Len(Memory) /\ Len(Memory) \in Nat /\ Memory[Size] \notin Spaces
  BY <1>1, <1>2, CharactersApart
<1>4. /\ After(curr, Spaces) \in curr..Size /\ Memory[After(curr, Spaces)] \notin Spaces
      /\ \A k \in curr..After(curr, Spaces) - 1 : Memory[k] \in Spaces
  BY <1>1, <1>3, AfterStops
<1>. QED  BY <1>1, <1>2, <1>4 DEF start, First

\* From a character of the text a scan over what is no NUL stays in it.
LEMMA AfterStays ==
  ASSUME Filled, Ahead, NEW S, NUL \notin S, NEW i \in 1..Size
  PROVE  /\ After(i, S) \in i..Size /\ After(i, S) \in 1..Size /\ Memory[After(i, S)] \notin S
         /\ \A k \in i..After(i, S) - 1 : Memory[k] \in S
<1>1. Size \in Nat /\ Len(Memory) = Size + 3 /\ Memory[Size] = NUL
  BY StartFacts
<1>2. i \in Nat /\ i <= Size /\ Size <= Len(Memory) /\ Len(Memory) \in Nat /\ Memory[Size] \notin S
  BY <1>1
<1>3. /\ After(i, S) \in i..Size /\ Memory[After(i, S)] \notin S
      /\ \A k \in i..After(i, S) - 1 : Memory[k] \in S
  BY <1>1, <1>2, AfterStops
<1>. QED  BY <1>1, <1>3

\* The character behind one that is no NUL is in the text as well.
LEMMA NextInText ==
  ASSUME Filled, Ahead, NEW i \in 1..Size, Memory[i] # NUL
  PROVE  i + 1 \in 1..Size
<1>1. Size \in Nat /\ Memory[Size] = NUL
  BY StartFacts
<1>. QED  BY <1>1

\* Where a number ends.
LEMMA NumberFacts ==
  ASSUME Filled, Ahead, First \in Digits
  PROVE  /\ IntegerEnd \in start + 1..Size /\ FractionEnd \in IntegerEnd..Size
         /\ HasPoint => IntegerEnd + 1 \in 1..Size
         /\ HasExponent => ExponentDigits \in FractionEnd + 1..Size
         /\ NumberEnd \in FractionEnd..Size
<1>1. Size \in Nat /\ start \in 1..Size /\ Memory[start] \in Digits
  BY StartFacts DEF First
<1>2. NUL \notin Digits /\ "." # NUL
  BY CharactersApart
<1>3. start + 1 \in 1..Size
  <2>1. Memory[start] # NUL
    BY <1>1, <1>2
  <2>. QED  BY <1>1, <2>1, NextInText
<1>4. IntegerEnd \in start + 1..Size
  <2>1. CASE First = "0"
    BY <1>1, <1>3, <2>1 DEF IntegerEnd
  <2>2. CASE First # "0"
    <3>1. IntegerEnd = After(start, Digits)
      BY <2>2 DEF IntegerEnd
    <3>. DEFINE a == After(start, Digits)
    <3>2. a \in start..Size /\ Memory[a] \notin Digits
      BY <1>1, <1>2, AfterStays
    <3>. HIDE DEF a
    <3>3. a # start
      BY <1>1, <3>2
    <3>4. a \in start + 1..Size
      BY <1>1, <3>2, <3>3
    <3>. QED  BY <3>1, <3>4 DEF a
  <2>. QED  BY <2>1, <2>2
<1>5. IntegerEnd \in 1..Size
  BY <1>1, <1>4
<1>6. HasPoint => IntegerEnd + 1 \in 1..Size
  <2>1. SUFFICES ASSUME HasPoint  PROVE IntegerEnd + 1 \in 1..Size
    OBVIOUS
  <2>2. Memory[IntegerEnd] # NUL
    BY <1>2, <2>1 DEF HasPoint
  <2>. QED  BY <1>5, <2>2, NextInText
<1>7. FractionEnd \in IntegerEnd..Size
  <2>1. CASE HasFraction
    <3>. DEFINE i == IntegerEnd + 1
    <3>1. i \in 1..Size
      BY <1>6, <2>1 DEF HasFraction
    <3>. HIDE DEF i
    <3>2. After(i, Digits) \in i..Size
      BY <1>2, <3>1, AfterStays
    <3>3. FractionEnd = After(i, Digits)
      BY <2>1 DEF FractionEnd, i
    <3>. QED  BY <1>1, <1>5, <3>1, <3>2, <3>3 DEF i
  <2>2. CASE ~HasFraction
    BY <1>1, <1>5, <2>2 DEF FractionEnd
  <2>. QED  BY <2>1, <2>2
<1>8. FractionEnd \in 1..Size
  BY <1>1, <1>5, <1>7
<1>9. HasExponent => ExponentDigits \in FractionEnd + 1..Size
  <2>1. SUFFICES ASSUME HasExponent  PROVE ExponentDigits \in FractionEnd + 1..Size
    OBVIOUS
  <2>2. FractionEnd + 1 \in 1..Size
    <3>1. Memory[FractionEnd] # NUL
      BY <2>1 DEF HasExponent, NUL
    <3>. QED  BY <1>8, <3>1, NextInText
  <2>3. CASE Memory[FractionEnd + 1] \in {"+", "-"}
    <3>. DEFINE i == FractionEnd + 1
    <3>1. Memory[i] # NUL /\ i \in 1..Size
      BY <2>2, <2>3 DEF NUL
    <3>. HIDE DEF i
    <3>2. i + 1 \in 1..Size
      BY <3>1, NextInText
    <3>3. ExponentDigits = FractionEnd + 2
      BY <2>3 DEF ExponentDigits
    <3>. QED  BY <1>1, <1>8, <3>2, <3>3 DEF i
  <2>4. CASE Memory[FractionEnd + 1] \notin {"+", "-"}
    BY <1>1, <1>8, <2>2, <2>4 DEF ExponentDigits
  <2>. QED  BY <2>3, <2>4
<1>10. NumberEnd \in FractionEnd..Size
  <2>1. CASE HasExponent
    <3>1. ExponentDigits \in FractionEnd + 1..Size /\ ExponentDigits \in 1..Size
      BY <1>1, <1>8, <1>9, <2>1
    <3>2. After(ExponentDigits, Digits) \in ExponentDigits..Size
      BY <1>2, <3>1, AfterStays
    <3>3. NumberEnd = After(ExponentDigits, Digits)
      BY <2>1 DEF NumberEnd
    <3>. QED  BY <1>1, <1>8, <3>1, <3>2, <3>3
  <2>2. CASE ~HasExponent
    BY <1>1, <1>8, <2>2 DEF NumberEnd
  <2>. QED  BY <2>1, <2>2
<1>. QED  BY <1>4, <1>6, <1>7, <1>9, <1>10

\* A string ends at a quote or at a NUL.
LEMMA StringFacts ==
  ASSUME Filled, Ahead, First = Quote
  PROVE  /\ StringEnd \in start + 1..Size /\ Memory[StringEnd] \in {Quote, NUL}
         /\ \A k \in start + 1..StringEnd - 1 : Memory[k] \notin {Quote, NUL}
<1>1. /\ Size \in Nat /\ start \in 1..Size /\ Memory[start] = Quote /\ Len(Memory) = Size + 3
      /\ Memory[Size] = NUL
  BY StartFacts DEF First
<1>2. start + 1 \in 1..Size
  <2>1. Quote # NUL
    BY DEF NUL, Quote
  <2>. QED  BY <1>1, <2>1, NextInText
<1>. DEFINE Closes(j) == /\ Memory[j] \in {Quote, NUL}
                         /\ \A k \in start + 1..j - 1 : Memory[k] \notin {Quote, NUL}
            U == {j \in start + 1..Size : Memory[j] \in {Quote, NUL}}
<1>3. U \subseteq Nat /\ Size \in U
  BY <1>1, <1>2
<1>4. PICK j \in U : \A k \in U : j <= k
  <2>. HIDE DEF U
  <2>. QED  BY <1>3, LeastMember
<1>5. j \in start + 1..Len(Memory) /\ Closes(j)
  BY <1>1, <1>4
<1>6. StringEnd = CHOOSE a \in start + 1..Len(Memory) : Closes(a)
  BY DEF StringEnd
<1>7. StringEnd \in start + 1..Len(Memory) /\ Closes(StringEnd)
  <2>. HIDE DEF Closes
  <2>. QED  BY <1>5, <1>6
<1>8. StringEnd <= j
  BY <1>1, <1>5, <1>7
<1>. QED  BY <1>1, <1>4, <1>7, <1>8

-----------------------------------------------------------------------------
\* Every step of the lexer keeps its place.

LEMMA PositionStays == UNCHANGED <<bytes, behind>> => \A p : Position(p)' = Position(p)
BY DEF Position, Breaks, Memory

LEMMA TokenKeeps ==
  ASSUME Scanned, Scans, NEW kind, NEW end \in start + 1..Size + 1, NEW quotes,
         quotes = IF kind = "String" THEN 1 ELSE 0, kind # "Eof" => end <= Size,
         Token(kind, end, quotes)
  PROVE  Scanned'
<1>1. /\ Filled /\ Ahead /\ phase = "scanning"
      /\ UNCHANGED <<buf, bytes, behind>> /\ Size' = Size
  BY DEF Scanned, Scans, Size
<1>2. Size \in Nat /\ start \in curr..Size /\ start \in 1..Size
  BY <1>1, StartFacts
<1>3. curr \in Nat \ {0} /\ curr <= start /\ curr <= end /\ start \in Nat /\ end \in Nat \ {0}
  BY <1>1, <1>2 DEF Ahead
<1>4. Moved(curr, start) = Position(start) /\ Moved(curr, end) = Position(end)
  BY <1>1, <1>3, MovedIs DEF Ahead
<1>5. \A p : Position(p)' = Position(p)
  BY <1>1, PositionStays
<1>6. /\ token' = [kind |-> kind, ln |-> Position(start).ln, col |-> Position(start).col,
                   chars |-> start + quotes, length |-> end - start - 2 * quotes]
      /\ curr' = end /\ ln' = Position(end).ln /\ col' = Position(end).col
      /\ phase' = IF kind = "Eof" THEN "done" ELSE "scanning"
  BY <1>4 DEF Token
<1>7. \A p : [ln |-> Position(p).ln, col |-> Position(p).col] = Position(p)
  BY DEF Position
<1>8. Filled'
  BY <1>1 DEF Filled
<1>9. Placed(token)'
  <2>1. quotes \in Nat /\ Quotes(token)' = quotes /\ token'.chars = start + quotes
    BY <1>6 DEF Quotes
  <2>2. FirstOf(token)' = start
    BY <1>2, <2>1 DEF FirstOf
  <2>3. [ln |-> token'.ln, col |-> token'.col] = Position(start)
    BY <1>6, <1>7
  <2>4. Position(FirstOf(token))' = Position(start)
    BY <1>1, <2>2 DEF Position, Breaks, Memory
  <2>. QED  BY <1>1, <1>2, <2>2, <2>3, <2>4 DEF Placed
<1>10. phase' = "scanning" => Ahead'
  <2>1. SUFFICES ASSUME phase' = "scanning"  PROVE Ahead'
    OBVIOUS
  <2>2. curr' = end /\ end \in 1..Size /\ bytes'[Size] = NUL
    BY <1>1, <1>2, <1>3, <1>6, <2>1 DEF Ahead
  <2>3. Position(curr)' = Position(end)
    BY <1>1, <1>6 DEF Position, Breaks, Memory
  <2>4. [ln |-> ln', col |-> col'] = Position(end)
    BY <1>6, <1>7
  <2>. QED  BY <1>1, <2>2, <2>3, <2>4 DEF Ahead
<1>11. phase' # "reading"
  BY <1>6
<1>. QED  BY <1>8, <1>9, <1>10, <1>11 DEF Scanned

LEMMA ErrorKeeps ==
  ASSUME Scanned, Scans, LexicalError
  PROVE  Scanned'
<1>1. /\ UNCHANGED <<buf, bytes, behind, token>> /\ phase' = "done" /\ Size' = Size
  BY DEF Scans, LexicalError, Size
<1>2. Filled'
  BY <1>1 DEF Scanned, Filled
<1>3. Placed(token) => Placed(token)'
  <2>1. FirstOf(token)' = FirstOf(token) /\ Position(FirstOf(token))' = Position(FirstOf(token))
    BY <1>1 DEF FirstOf, Quotes, Position, Breaks, Memory
  <2>. QED  BY <1>1, <2>1 DEF Placed
<1>. QED  BY <1>1, <1>2, <1>3 DEF Scanned

\* The words of the text.
LEMMA WordFacts ==
  ASSUME Filled, Ahead, IsName
  PROVE  WordEnd \in start + 1..Size
<1>1. Size \in Nat /\ start \in 1..Size /\ Memory[start] \in WordChars
  BY StartFacts DEF IsName, First, WordChars
<1>2. NUL \notin WordChars
  BY CharactersApart
<1>. DEFINE a == After(start, WordChars)
<1>3. a \in start..Size /\ Memory[a] \notin WordChars
  BY <1>1, <1>2, AfterStays
<1>. HIDE DEF a
<1>4. a # start
  BY <1>1, <1>3
<1>5. a \in start + 1..Size
  BY <1>1, <1>3, <1>4
<1>. QED  BY <1>5 DEF a, WordEnd

LEMMA ScannedInitial == LexerInit => Scanned
BY FilledInitial DEF LexerInit, Scanned

LEMMA WriteKeeps ==
  ASSUME Scanned, phase = "reading", NEW c, NEW next \in {"reading", "scanning"}, Write(c, next),
         next = "scanning" => c = NUL
  PROVE  Scanned'
<1>1. Filled' /\ UNCHANGED <<curr, ln, col, token>>
  BY WriteFills DEF Scanned, Write, scanVars
<1>2. curr = 1 /\ ln = 1 /\ col = 1 /\ token = NoToken
  BY DEF Scanned
<1>3. CASE CannotHold(buf, buf.count + 1)
  <2>1. phase' = "done"
    BY <1>3 DEF Write
  <2>. QED  BY <1>1, <1>2, <2>1 DEF Scanned
<1>4. CASE ~CannotHold(buf, buf.count + 1)
  <2>1. bytes' = Append(bytes, c) /\ phase' = next
    BY <1>4 DEF Write
  <2>2. phase' = "scanning" => Ahead'
    <3>1. SUFFICES ASSUME phase' = "scanning"  PROVE Ahead'
      OBVIOUS
    <3>2. PICK S : bytes \in Seq(S)
      BY DEF Scanned, Filled
    <3>3. bytes \in Seq(S \union {c}) /\ c \in S \union {c}
      BY <3>2, SeqMonotonic
    <3>4. Size \in Nat /\ Size' = Size + 1 /\ bytes'[Size + 1] = c
      BY <2>1, <3>3 DEF Size
    <3>5. Position(curr)' = [ln |-> 1, col |-> 1]
      <4>1. Breaks(curr)' = {}
        BY <1>1, <1>2 DEF Breaks
      <4>. QED  BY <1>1, <1>2, <4>1, FS_EmptySet DEF Position
    <3>. QED  BY <1>1, <1>2, <2>1, <3>1, <3>4, <3>5 DEF Ahead
  <2>. QED  BY <1>1, <1>2, <2>1, <2>2 DEF Scanned
<1>. QED  BY <1>3, <1>4

LEMMA ScannedStep == Scanned /\ [LexerNext]_lexerVars => Scanned'
<1>. SUFFICES ASSUME Scanned, [LexerNext]_lexerVars  PROVE Scanned'
  OBVIOUS
<1>1. phase = "scanning" => /\ Filled /\ Ahead /\ Size \in Nat /\ start \in 1..Size
                            /\ Memory[start] = First /\ Memory[Size] = NUL
  BY StartFacts DEF Scanned, First
<1>2. ASSUME phase = "scanning", First # NUL  PROVE start + 1 \in start + 1..Size
  <2>1. start + 1 \in 1..Size
    BY <1>1, <1>2, NextInText
  <2>. QED  BY <1>1, <2>1
<1>3. CASE ReadByte
  BY <1>3, WriteKeeps DEF ReadByte
<1>4. CASE EndOfInput
  BY <1>4, WriteKeeps DEF EndOfInput
<1>5. CASE MatchEof
  <2>1. start + 1 \in start + 1..Size + 1
    BY <1>1, <1>5 DEF MatchEof, Scans
  <2>. QED  BY <1>5, <2>1, TokenKeeps DEF MatchEof
<1>6. CASE MatchChar
  <2>1. start + 1 \in start + 1..Size /\ start + 1 \in start + 1..Size + 1 /\ start + 1 <= Size
    BY <1>1, <1>2, <1>6, PunctuationIs DEF MatchChar, Scans
  <2>2. Punctuation[First] # "String"
    BY <1>6, PunctuationIs DEF MatchChar, SpecialKinds
  <2>. QED  BY <1>6, <2>1, <2>2, TokenKeeps DEF MatchChar
<1>7. CASE MatchChars
  <2>1. start + 1 \in 1..Size
    BY <1>1, <1>2, <1>7, CharactersApart DEF MatchChars, IsDotDot, Scans
  <2>2. start + 1 + 1 \in 1..Size
    BY <1>1, <1>7, <2>1, NextInText, CharactersApart DEF MatchChars, IsDotDot, Scans
  <2>3. start + 2 \in start + 1..Size + 1 /\ start + 2 <= Size
    BY <1>1, <1>7, <2>2 DEF MatchChars, Scans
  <2>. QED  BY <1>7, <2>3, TokenKeeps DEF MatchChars
<1>8. CASE MatchNumber
  <2>. DEFINE end == IF HasPoint /\ ~HasFraction THEN IntegerEnd ELSE NumberEnd
  <2>1. /\ IntegerEnd \in start + 1..Size /\ FractionEnd \in IntegerEnd..Size
        /\ NumberEnd \in FractionEnd..Size
    BY <1>1, <1>8, NumberFacts DEF MatchNumber, IsNumber, Scans
  <2>2. end \in start + 1..Size + 1 /\ end <= Size
    BY <1>1, <1>8, <2>1 DEF MatchNumber, Scans
  <2>3. NumberKind \notin {"String", "Eof"}
    BY DEF NumberKind
  <2>4. Scans /\ Token(NumberKind, end, 0)
    BY <1>8 DEF MatchNumber
  <2>. HIDE DEF end
  <2>. QED  BY <2>2, <2>3, <2>4, TokenKeeps
<1>9. CASE MatchString
  <2>1. StringEnd \in start + 1..Size /\ Memory[StringEnd] \in {Quote, NUL}
    BY <1>1, <1>9, StringFacts DEF MatchString, Scans
  <2>2. CASE Memory[StringEnd] = Quote /\ Token("String", StringEnd + 1, 1)
    <3>1. StringEnd + 1 \in 1..Size
      <4>1. Quote # NUL
        BY DEF Quote, NUL
      <4>. QED  BY <1>1, <1>9, <2>1, <2>2, <4>1, NextInText DEF MatchString, Scans
    <3>2. StringEnd + 1 \in start + 1..Size + 1 /\ StringEnd + 1 <= Size
      BY <1>1, <1>9, <2>1, <3>1 DEF MatchString, Scans
    <3>. QED  BY <1>9, <2>2, <3>2, TokenKeeps DEF MatchString
  <2>. QED  BY <1>9, <2>2, ErrorKeeps DEF MatchString
<1>10. CASE MatchKeyword
  <2>1. WordEnd \in start + 1..Size
    BY <1>1, <1>10, WordFacts DEF MatchKeyword, Scans
  <2>2. WordEnd \in start + 1..Size + 1 /\ WordEnd <= Size
    BY <1>1, <1>10, <2>1 DEF MatchKeyword, Scans
  <2>3. KeywordKinds[Spelling] # "String"
    BY <1>10, KeywordKindsAre DEF MatchKeyword, SpecialKinds
  <2>. QED  BY <1>10, <2>2, <2>3, TokenKeeps DEF MatchKeyword
<1>11. CASE MatchName
  <2>1. WordEnd \in start + 1..Size
    BY <1>1, <1>11, WordFacts DEF MatchName, Scans
  <2>2. WordEnd \in start + 1..Size + 1 /\ WordEnd <= Size
    BY <1>1, <1>11, <2>1 DEF MatchName, Scans
  <2>. QED  BY <1>11, <2>2, TokenKeeps DEF MatchName
<1>12. CASE Unexpected
  BY <1>12, ErrorKeeps DEF Unexpected
<1>13. CASE UNCHANGED lexerVars
  <2>1. UNCHANGED <<buf, bytes, behind, phase, curr, ln, col, token>>
    BY <1>13 DEF lexerVars
  <2>2. Size' = Size /\ Filled' = Filled /\ Placed(token)' = Placed(token) /\ Ahead' = Ahead
    BY <2>1 DEF Size, Filled, Placed, Ahead, FirstOf, Quotes, Position, Breaks, Memory
  <2>. QED  BY <2>1, <2>2 DEF Scanned
<1>. QED
  BY <1>3, <1>4, <1>5, <1>6, <1>7, <1>8, <1>9, <1>10, <1>11, <1>12, <1>13 DEF LexerNext

LEMMA ScannedGivesPositions == Scanned => PositionsRight
<1>. SUFFICES ASSUME Scanned, token # NoToken  PROVE PositionsRight
  BY DEF PositionsRight
<1>. DEFINE f == FirstOf(token)
            before == SubSeq(bytes, 1, f - 1)
            breaks == {i \in DOMAIN before : before[i] = "\n"}
<1>1. Size \in Nat /\ f \in 1..Size /\ [ln |-> token.ln, col |-> token.col] = Position(f)
  BY MemoryIs DEF Scanned, Placed
<1>2. PICK S : bytes \in Seq(S)
  BY DEF Scanned, Filled
<1>3. Len(before) = f - 1 /\ DOMAIN before = 1..f - 1 /\ \A k \in 1..f - 1 : before[k] = bytes[k]
  BY <1>1, <1>2, SubSeqProperties DEF Size
<1>4. \A k \in 1..f - 1 : before[k] = Memory[k]
  <2>1. \A k \in 1..Size : Memory[k] = bytes[k]
    BY MemoryIs DEF Scanned
  <2>. HIDE DEF before, f
  <2>. QED  BY <1>1, <1>3, <2>1
<1>5. breaks = Breaks(f)
  <2>. HIDE DEF before, f
  <2>. QED  BY <1>3, <1>4 DEF Breaks
<1>6. Len(before) + 1 = f
  <2>. HIDE DEF before, f
  <2>. QED  BY <1>1, <1>3
<1>. HIDE DEF f, breaks, before
<1>7. /\ token.ln = 1 + Cardinality(breaks)
      /\ token.col = Len(before) + 1 - (IF breaks = {} THEN 0 ELSE Max(breaks))
  <2>1. token.ln = Position(f).ln /\ token.col = Position(f).col
    BY <1>1
  <2>. DEFINE lines == 1 + Cardinality(breaks)
              last == IF breaks = {} THEN 0 ELSE Max(breaks)
  <2>2. Position(f) = [ln |-> lines, col |-> f - last]
    BY <1>5 DEF Position
  <2>. HIDE DEF lines, last
  <2>3. token.ln = lines /\ token.col = f - last
    BY <2>1, <2>2
  <2>4. last \in Int /\ f \in Int /\ Len(before) \in Int
    BY <1>1, <1>3, <1>5, LastBreak DEF last, f
  <2>5. token.col = Len(before) + 1 - last
    BY <1>6, <2>3, <2>4
  <2>. QED  BY <2>3, <2>5, Zenon DEF lines, last
<1>. QED  BY <1>7 DEF PositionsRight, before, breaks, f

\* The line and the column of a token are those of its first character: one call
\* of next_char for every space that is skipped and every character of a token,
\* strings with line breaks included, keeps count.
THEOREM PositionsAreRight == LexerSpec => []PositionsRight
<1>1. Scanned /\ [LexerNext]_lexerVars => Scanned'
  BY ScannedStep
<1>. QED  BY <1>1, ScannedInitial, ScannedGivesPositions, PTL DEF LexerSpec

-----------------------------------------------------------------------------
\* What the compiler makes of a number.

\* A number in front of a point without digits, which may be a range's.
BeforeDots(t, end) ==
  /\ t.kind = "Number" /\ t.chars + t.length = end /\ end \in 1..Size
  /\ After(t.chars, Digits) = end /\ Memory[end] = "." /\ Memory[end + 1] \notin Digits

LEMMA NumberConverts ==
  ASSUME Filled, Ahead, IsNumber, NEW end, end = IF HasPoint /\ ~HasFraction THEN IntegerEnd ELSE NumberEnd,
         NEW t, t.kind = NumberKind, t.chars = start, t.length = end - start
  PROVE  Converts(t) \/ BeforeDots(t, end)
<1>1. /\ Size \in Nat /\ Len(Memory) = Size + 3 /\ Memory[Size] = NUL
      /\ start \in 1..Size /\ Memory[start] = First /\ First \in Digits
  BY StartFacts DEF First, IsNumber
<1>2. /\ IntegerEnd \in start + 1..Size /\ FractionEnd \in IntegerEnd..Size
      /\ HasExponent => ExponentDigits \in FractionEnd + 1..Size
      /\ HasExponent => NumberEnd \in ExponentDigits..Size
      /\ NumberEnd \in FractionEnd..Size
  <2>1. HasExponent => NumberEnd \in ExponentDigits..Size
    <3>1. SUFFICES ASSUME HasExponent  PROVE NumberEnd \in ExponentDigits..Size
      OBVIOUS
    <3>2. ExponentDigits \in 1..Size
      BY <1>1, <3>1, NumberFacts
    <3>. QED  BY <3>1, <3>2, AfterStays, CharactersApart DEF NumberEnd
  <2>. QED  BY <1>1, <2>1, NumberFacts
<1>3. end \in Int /\ start \in Int /\ t.chars + t.length = end
  BY <1>1, <1>2
<1>4. "e" \notin Digits /\ "E" \notin Digits /\ "." \notin Digits /\ Digits \subseteq WordChars
  BY DEF Digits, WordChars
<1>5. Memory[IntegerEnd] \notin Digits
  <2>1. CASE HasPoint
    BY <1>4, <2>1 DEF HasPoint
  <2>2. CASE ~HasPoint
    <3>1. FractionEnd = IntegerEnd
      BY <2>2 DEF FractionEnd, HasFraction
    <3>2. CASE HasExponent
      BY <1>4, <3>1, <3>2 DEF HasExponent
    <3>3. CASE ~HasExponent
      BY <1>4, <2>2, <3>1, <3>3 DEF IsNumber, NumberEnd
    <3>. QED  BY <3>2, <3>3
  <2>. QED  BY <2>1, <2>2
<1>6. After(start, Digits) = IntegerEnd
  <2>1. CASE First = "0"
    <3>1. IntegerEnd = start + 1
      BY <2>1 DEF IntegerEnd
    <3>2. /\ start \in Nat /\ start + 1 \in start..Len(Memory) /\ Len(Memory) \in Nat
          /\ \A k \in start..(start + 1) - 1 : Memory[k] \in Digits
      BY <1>1
    <3>. DEFINE i == start + 1
    <3>3. i \in start..Len(Memory) /\ Memory[i] \notin Digits /\ \A k \in start..i - 1 : Memory[k] \in Digits
      BY <1>5, <3>1, <3>2
    <3>. HIDE DEF i
    <3>4. After(start, Digits) = i
      BY <3>2, <3>3, AfterIs
    <3>. QED  BY <3>1, <3>4 DEF i
  <2>2. CASE First # "0"
    BY <2>2 DEF IntegerEnd
  <2>. QED  BY <2>1, <2>2
<1>. DEFINE fraction == IF HasPoint THEN After(IntegerEnd + 1, Digits) ELSE IntegerEnd
            sign == IF Memory[fraction + 1] \in {"+", "-"} THEN fraction + 2 ELSE fraction + 1
<1>7. ConversionEnd(t) = CASE t.kind = "Int" -> IntegerEnd
        [] t.kind = "Number" /\ Memory[fraction] \in {"e", "E"} /\ Memory[sign] \in Digits -> After(sign, Digits)
        [] OTHER -> fraction
  BY <1>6, Zenon DEF ConversionEnd, HasPoint
<1>8. CASE HasPoint /\ ~HasFraction
  BY <1>1, <1>2, <1>3, <1>6, <1>8 DEF BeforeDots, NumberKind, HasPoint, HasFraction
<1>9. CASE HasFraction
  <2>1. t.kind = "Number" /\ fraction = FractionEnd /\ end = NumberEnd /\ HasPoint
    BY <1>9 DEF NumberKind, HasFraction, FractionEnd
  <2>2. sign = ExponentDigits
    BY <2>1 DEF ExponentDigits
  <2>. HIDE DEF fraction, sign
  <2>3. CASE HasExponent
    <3>1. Memory[fraction] \in {"e", "E"} /\ Memory[sign] \in Digits /\ end = After(sign, Digits)
      BY <1>9, <2>1, <2>2, <2>3 DEF IsNumber, HasExponent, NumberEnd
    <3>2. ConversionEnd(t) = end
      BY <1>7, <2>1, <3>1
    <3>. QED  BY <1>3, <3>2 DEF Converts
  <2>4. CASE ~HasExponent
    <3>1. Memory[fraction] \notin {"e", "E"} /\ end = fraction
      BY <2>1, <2>4 DEF HasExponent, NumberEnd
    <3>2. ConversionEnd(t) = end
      BY <1>7, <2>1, <3>1
    <3>. QED  BY <1>3, <3>2 DEF Converts
  <2>. QED  BY <2>3, <2>4
<1>10. CASE ~HasPoint
  <2>1. t.kind = "Int" /\ FractionEnd = IntegerEnd /\ end = NumberEnd
    BY <1>10 DEF NumberKind, HasFraction, FractionEnd
  <2>2. ConversionEnd(t) = IntegerEnd
    <3>. HIDE DEF fraction, sign
    <3>. QED  BY <1>7, <2>1
  <2>3. CASE HasExponent
    <3>1. IntegerEnd < end /\ Memory[IntegerEnd] \in {"e", "E"}
      BY <1>1, <1>2, <2>1, <2>3 DEF HasExponent
    <3>. QED  BY <1>3, <2>1, <2>2, <3>1 DEF Converts
  <2>4. CASE ~HasExponent
    <3>1. end = IntegerEnd
      BY <2>1, <2>4 DEF NumberEnd
    <3>. QED  BY <1>3, <2>2, <3>1 DEF Converts
  <2>. QED  BY <2>3, <2>4
<1>. QED  BY <1>8, <1>9, <1>10 DEF HasFraction

\* What follows the dot is a second one, or no token.
LEMMA DotsConvert ==
  ASSUME Filled, Ahead, NEW t, BeforeDots(t, curr)
  PROVE  start = curr /\ First = "." /\ (Memory[start + 1] = "." => Converts(t))
<1>1. Size \in Nat /\ Len(Memory) = Size + 3 /\ curr \in 1..Size
  BY StartFacts DEF Ahead
<1>2. /\ t.kind = "Number" /\ t.chars + t.length = curr
      /\ After(t.chars, Digits) = curr /\ Memory[curr] = "." /\ Memory[curr + 1] \notin Digits
  BY DEF BeforeDots
<1>3. start = curr
  <2>1. curr \in Nat /\ Len(Memory) \in Nat /\ curr \in curr..Len(Memory) /\ \A k \in curr..curr - 1 : Memory[k] \in Spaces
    BY <1>1
  <2>2. Memory[curr] \notin Spaces
    BY <1>2, CharactersApart
  <2>. QED  BY <2>1, <2>2, AfterIs DEF start
<1>4. ASSUME Memory[curr + 1] = "."  PROVE Converts(t)
  <2>. DEFINE i == curr + 1
  <2>1. i \in Nat /\ Len(Memory) \in Nat /\ i \in i..Len(Memory) /\ \A k \in i..i - 1 : Memory[k] \in Digits
    BY <1>1
  <2>2. Memory[i] \notin Digits /\ Memory[i] \notin {"e", "E"}
    BY <1>2, <1>4
  <2>. HIDE DEF i
  <2>3. After(i, Digits) = i
    BY <2>1, <2>2, AfterIs
  <2>. DEFINE sign == IF Memory[i + 1] \in {"+", "-"} THEN i + 2 ELSE i + 1
  <2>4. ConversionEnd(t) = CASE t.kind = "Int" -> curr
          [] t.kind = "Number" /\ Memory[i] \in {"e", "E"} /\ Memory[sign] \in Digits -> After(sign, Digits)
          [] OTHER -> i
    BY <1>2, <2>3 DEF ConversionEnd, i
  <2>. HIDE DEF sign
  <2>5. ConversionEnd(t) = curr + 1
    <3>1. t.kind = "Number" /\ t.kind # "Int"
      BY <1>2
    <3>2. ConversionEnd(t) = i
      BY <2>2, <2>4, <3>1
    <3>. QED  BY <3>2 DEF i
  <2>. QED  BY <1>1, <1>2, <2>5 DEF Converts
<1>5. First = "." /\ Memory[start + 1] = Memory[curr + 1]
  BY <1>2, <1>3 DEF First
<1>6. Memory[start + 1] = "." => Converts(t)
  <2>1. CASE Memory[curr + 1] = "."
    BY <1>4, <2>1
  <2>2. CASE Memory[curr + 1] # "."
    BY <1>5, <2>2
  <2>. QED  BY <2>1, <2>2
<1>. QED  BY <1>3, <1>5, <1>6

\* While the scan goes on, the last number is converted whole, or would be with
\* the dot of a range behind it.
Converted ==
  phase = "scanning" /\ token.kind \in {"Int", "Number"} =>
    \E t, c : t = token /\ c = curr /\ (Converts(t) \/ BeforeDots(t, c))

LEMMA ConversionStays ==
  ASSUME UNCHANGED <<bytes, behind>>, NEW t, NEW c
  PROVE  (Converts(t) \/ BeforeDots(t, c))' = (Converts(t) \/ BeforeDots(t, c))
<1>1. Memory' = Memory /\ Size' = Size
  BY DEF Memory, Size
<1>2. ConversionEnd(t)' = ConversionEnd(t)
  BY <1>1 DEF ConversionEnd, After
<1>3. Converts(t)' = Converts(t)
  BY <1>1, <1>2 DEF Converts, After
<1>4. BeforeDots(t, c)' = BeforeDots(t, c)
  BY <1>1 DEF BeforeDots, After
<1>. QED  BY <1>3, <1>4, Zenon

LEMMA ConvertedStep == Scanned /\ Converted /\ [LexerNext]_lexerVars => Converted'
<1>. SUFFICES ASSUME Scanned, Converted, [LexerNext]_lexerVars, phase' = "scanning", token'.kind \in {"Int", "Number"}
     PROVE  \E t, c : t = token' /\ c = curr' /\ (Converts(t) \/ BeforeDots(t, c))'
  BY DEF Converted
<1>1. "None" \notin {"Int", "Number"}
  OBVIOUS
<1>2. ASSUME NEW kind, NEW end, NEW quotes, Token(kind, end, quotes)  PROVE kind \in {"Int", "Number"}
  BY <1>2 DEF Token
<1>3. CASE ReadByte \/ EndOfInput
  <2>1. token' = NoToken
    BY <1>3 DEF ReadByte, EndOfInput, Write, scanVars, Scanned
  <2>. QED  BY <1>1, <2>1 DEF NoToken
<1>4. CASE MatchEof \/ MatchChars \/ MatchName
  BY <1>2, <1>4 DEF MatchEof, MatchChars, MatchName
<1>5. CASE MatchChar
  BY <1>2, <1>5, PunctuationIs DEF MatchChar, SpecialKinds
<1>6. CASE MatchKeyword
  BY <1>2, <1>6, KeywordKindsAre DEF MatchKeyword, SpecialKinds
<1>7. CASE MatchString \/ Unexpected
  BY <1>2, <1>7 DEF MatchString, Unexpected, LexicalError
<1>8. CASE MatchNumber
  <2>1. PICK end : end = IF HasPoint /\ ~HasFraction THEN IntegerEnd ELSE NumberEnd
    OBVIOUS
  <2>2. Filled /\ Ahead /\ IsNumber /\ Token(NumberKind, end, 0) /\ UNCHANGED <<bytes, behind>>
    BY <1>8, <2>1 DEF MatchNumber, Scans, Scanned
  <2>3. PICK t : t = token'
    OBVIOUS
  <2>4. t.kind = NumberKind /\ t.chars = start + 0 /\ t.length = end - start - 2 * 0 /\ curr' = end
    BY <2>2, <2>3 DEF Token
  <2>5. start \in Int /\ end \in Int
    <3>1. start \in 1..Size /\ Size \in Nat /\ First \in Digits
      BY <2>2, StartFacts DEF IsNumber
    <3>2. IntegerEnd \in start + 1..Size /\ FractionEnd \in IntegerEnd..Size /\ NumberEnd \in FractionEnd..Size
      BY <2>2, <3>1, NumberFacts
    <3>3. IntegerEnd \in Int /\ NumberEnd \in Int
      BY <3>1, <3>2
    <3>. QED  BY <2>1, <3>1, <3>3
  <2>6. t.chars = start /\ t.length = end - start
    BY <2>4, <2>5
  <2>7. Converts(t) \/ BeforeDots(t, end)
    BY <2>1, <2>2, <2>4, <2>6, NumberConverts
  <2>8. (Converts(t) \/ BeforeDots(t, end))'
    BY <2>2, <2>7, ConversionStays
  <2>. QED  BY <2>3, <2>4, <2>8
<1>9. CASE UNCHANGED lexerVars
  <2>1. UNCHANGED <<bytes, behind, token, curr, phase>>
    BY <1>9 DEF lexerVars
  <2>2. PICK t, c : t = token /\ c = curr /\ (Converts(t) \/ BeforeDots(t, c))
    BY <2>1 DEF Converted
  <2>3. (Converts(t) \/ BeforeDots(t, c))'
    BY <2>1, <2>2, ConversionStays
  <2>. QED  BY <2>1, <2>2, <2>3
<1>. QED
  BY <1>3, <1>4, <1>5, <1>6, <1>7, <1>8, <1>9 DEF LexerNext

LEMMA ConvertedAgrees ==
  ASSUME Scanned, Converted, [LexerNext]_lexerVars, token.kind \in {"Int", "Number"}, token' # token
  PROVE  Converts(token)
<1>1. LexerNext
  BY DEF lexerVars
<1>2. phase = "scanning"
  <2>1. phase # "reading"
    <3>1. NoToken.kind \notin {"Int", "Number"}
      BY DEF NoToken
    <3>. QED  BY <3>1 DEF Scanned
  <2>. QED
    BY <1>1, <2>1 DEF LexerNext, ReadByte, EndOfInput, Scans, MatchEof, MatchChar, MatchChars,
       MatchNumber, MatchString, MatchKeyword, MatchName, Unexpected
<1>3. CASE BeforeDots(token, curr)
  <2>1. Filled /\ Ahead
    BY <1>2 DEF Scanned
  <2>2. First = "." /\ (Memory[start + 1] = "." => Converts(token))
    BY <1>3, <2>1, DotsConvert
  <2>3. /\ "." # NUL /\ "." \notin DOMAIN Punctuation /\ "." \notin Digits /\ "." # Quote
        /\ "." \notin Letters \union {"_"}
    <3>1. "." # Quote
      BY DEF Quote
    <3>. QED  BY <3>1, CharactersApart DEF Digits
  <2>4. CASE IsDotDot
    BY <2>2, <2>4 DEF IsDotDot
  <2>5. CASE ~IsDotDot
    BY <1>1, <1>2, <2>2, <2>3, <2>5
    DEF LexerNext, ReadByte, EndOfInput, MatchEof, MatchChar, MatchChars, MatchNumber, IsNumber,
        MatchString, MatchKeyword, MatchName, IsName, Unexpected, LexicalError
  <2>. QED  BY <2>4, <2>5
<1>. QED  BY <1>2, <1>3 DEF Converted

\* The number a token is converted to is the one it spells: what strtoll and
\* strtod take, who do not know where the token ends, is the token and at most one
\* dot of a range behind it; or the token is an integer with an exponent.
THEOREM NumbersAreConverted == LexerSpec => ConversionsAgree
<1>1. LexerInit => Scanned /\ Converted
  <2>1. LexerInit => Converted
    BY DEF LexerInit, Converted
  <2>. QED  BY <2>1, ScannedInitial
<1>2. Scanned /\ Converted /\ [LexerNext]_lexerVars => (Scanned /\ Converted)'
  BY ScannedStep, ConvertedStep
<1>3. /\ Scanned /\ Converted /\ [LexerNext]_lexerVars
      => [token.kind \in {"Int", "Number"} /\ token' # token => Converts(token)]_lexerVars
  BY ConvertedAgrees
<1>. QED  BY <1>1, <1>2, <1>3, PTL DEF LexerSpec, ConversionsAgree

-----------------------------------------------------------------------------
\* The text, and the parts of it.

\* The scan goes on after no error, and there is no NUL behind it.
OnText ==
  /\ phase # "done" => lrc = "Ok"
  /\ phase = "scanning" => \A k \in 1..curr - 1 : Memory[k] # NUL

\* Where the text ends.
Final == Len(Text)
Part(a, b) == SubSeq(Text, a, b)

LEMMA TextFacts ==
  ASSUME Scanned, OnText, phase = "scanning"
  PROVE  /\ Final \in Nat /\ Final + 1 \in 1..Size /\ Memory[Final + 1] = NUL
         /\ curr \in 1..Final + 1
         /\ Text = SubSeq(bytes, 1, Final)
         /\ \A k \in 1..Final : Text[k] = Memory[k] /\ Memory[k] # NUL
         /\ \E S : Text \in Seq(S)
<1>1. /\ Filled /\ Ahead /\ Size \in Nat /\ \A k \in 1..Size : Memory[k] = bytes[k]
      /\ curr \in 1..Size /\ bytes[Size] = NUL /\ lrc = "Ok"
  BY MemoryIs DEF Scanned, Ahead, OnText
<1>. PICK S : bytes \in Seq(S)
  BY <1>1 DEF Filled
<1>. DEFINE U == {k \in 1..Size : bytes[k] = NUL}
            Ends(i) == bytes[i] = NUL /\ \A j \in 1..i - 1 : bytes[j] # NUL
<1>2. U \subseteq Nat /\ Size \in U
  BY <1>1
<1>3. PICK e \in U : \A k \in U : e <= k
  <2>. HIDE DEF U
  <2>. QED  BY <1>2, LeastMember
<1>4. e \in DOMAIN bytes /\ Ends(e)
  BY <1>1, <1>3 DEF Size
<1>5. TextEnd = CHOOSE i \in DOMAIN bytes : Ends(i)
  BY DEF TextEnd
<1>6. TextEnd \in DOMAIN bytes /\ Ends(TextEnd)
  <2>. HIDE DEF Ends
  <2>. QED  BY <1>4, <1>5
<1>7. TextEnd \in 1..Size /\ bytes[TextEnd] = NUL /\ \A j \in 1..TextEnd - 1 : bytes[j] # NUL
  BY <1>6 DEF Size
<1>. DEFINE n == TextEnd - 1
<1>8. n \in Nat /\ n + 1 = TextEnd /\ Text = SubSeq(bytes, 1, n)
  BY <1>1, <1>7 DEF Text
<1>. HIDE DEF n, U, Ends
<1>9. \A i \in 1..n : bytes[i] \in S
  <2>1. ASSUME NEW i \in 1..n  PROVE i \in 1..Len(bytes)
    BY <1>1, <1>7, <1>8 DEF Size
  <2>. QED  BY <2>1, ElementOfSeq
<1>10. Text \in Seq(S) /\ Final = n /\ \A k \in 1..n : Text[k] = bytes[k]
  <2>1. 1 \in Int /\ n \in Int
    BY <1>8
  <2>. DEFINE s == SubSeq(bytes, 1, n)
  <2>2. /\ s \in Seq(S) /\ Len(s) = (IF 1 <= n THEN n - 1 + 1 ELSE 0)
        /\ \A i \in 1..n - 1 + 1 : s[i] = bytes[1 + i - 1]
    BY <1>9, <2>1, SubSeqProperties
  <2>. HIDE DEF s
  <2>3. s = Text
    BY <1>8 DEF s
  <2>. QED  BY <1>8, <2>2, <2>3 DEF Final
<1>11. curr <= n + 1
  <2>1. Memory[n + 1] = NUL
    BY <1>1, <1>7, <1>8
  <2>2. n + 1 \notin 1..curr - 1
    BY <2>1 DEF OnText
  <2>. QED  BY <1>1, <1>8, <2>2
<1>12. Final \in Nat /\ Final + 1 \in 1..Size /\ Memory[Final + 1] = NUL
  <2>1. n + 1 \in 1..Size /\ Memory[n + 1] = bytes[n + 1]
    BY <1>1, <1>7, <1>8
  <2>. QED  BY <1>7, <1>8, <1>10, <2>1
<1>13. curr \in 1..Final + 1
  <2>1. curr \in 1..n + 1
    BY <1>1, <1>8, <1>11
  <2>. QED  BY <1>10, <2>1
<1>14. ASSUME NEW k \in 1..n  PROVE Text[k] = Memory[k] /\ Memory[k] # NUL
  <2>1. k \in 1..Size /\ k \in 1..TextEnd - 1
    BY <1>1, <1>7, <1>8
  <2>. QED  BY <1>1, <1>7, <1>10, <2>1
<1>. QED  BY <1>8, <1>10, <1>12, <1>13, <1>14

\* The scan starts where the abstract scanner does.
LEMMA StartAgrees ==
  ASSUME Scanned, OnText, phase = "scanning"
  PROVE  start \in curr..Final + 1 /\ start \in 1..Final + 1 /\ Scanner!Start = start
<1>1. /\ Final \in Nat /\ Final + 1 \in 1..Size /\ Memory[Final + 1] = NUL
      /\ curr \in 1..Final + 1
      /\ \A k \in 1..Final : Text[k] = Memory[k] /\ Memory[k] # NUL
  BY TextFacts
<1>2. /\ start \in curr..Size /\ Memory[start] \notin Spaces
      /\ \A k \in curr..start - 1 : Memory[k] \in Spaces
  BY StartFacts DEF Scanned, First
<1>3. Size \in Nat /\ NUL \notin Spaces
  BY CharactersApart, MemoryIs DEF Scanned
<1>4. start \in curr..Final + 1
  <2>1. Final + 1 \notin curr..start - 1
    BY <1>1, <1>2, <1>3
  <2>. QED  BY <1>1, <1>2, <1>3, <2>1
<1>. DEFINE Starts(i) == /\ \A j \in curr - 1 + 1..i - 1 : Text[j] \in Spaces
                         /\ i > Final \/ Text[i] \notin Spaces
<1>5. Scanner!Start = CHOOSE i \in curr - 1 + 1..Final + 1 : Starts(i)
  BY DEF Scanner!Start, Final
<1>6. start \in curr - 1 + 1..Final + 1 /\ Starts(start)
  BY <1>1, <1>2, <1>4
<1>7. ASSUME NEW i \in curr - 1 + 1..Final + 1, Starts(i)  PROVE i = start
  <2>1. i \in curr..Final + 1
    BY <1>1
  <2>2. ~(i < start)
    <3>1. SUFFICES ASSUME i < start  PROVE FALSE
      OBVIOUS
    <3>2. i \in curr..start - 1 /\ i \in 1..Final
      BY <1>1, <1>4, <2>1, <3>1
    <3>3. Text[i] \in Spaces /\ ~(i > Final)
      BY <1>1, <1>2, <3>2
    <3>. QED  BY <1>7, <3>3
  <2>3. ~(start < i)
    <3>1. SUFFICES ASSUME start < i  PROVE FALSE
      OBVIOUS
    <3>2. start \in curr - 1 + 1..i - 1 /\ start \in 1..Final
      BY <1>1, <1>4, <2>1, <3>1
    <3>3. Text[start] \in Spaces
      BY <1>7, <3>2
    <3>. QED  BY <1>1, <1>2, <3>2, <3>3
  <2>. QED  BY <1>1, <1>4, <2>1, <2>2, <2>3
<1>8. Scanner!Start = start
  <2>. HIDE DEF Starts
  <2>. QED  BY <1>5, <1>6, <1>7
<1>. QED  BY <1>1, <1>4, <1>8

LEMMA PartIs ==
  ASSUME Scanned, OnText, phase = "scanning", NEW a \in 1..Final + 1, NEW b \in a - 1..Final
  PROVE  /\ \E S : Part(a, b) \in Seq(S)
         /\ Len(Part(a, b)) = b - a + 1 /\ DOMAIN Part(a, b) = 1..b - a + 1
         /\ \A i \in 1..b - a + 1 : Part(a, b)[i] = Memory[a + i - 1]
         /\ (b = a - 1) <=> (Part(a, b) = <<>>)
<1>1. Final \in Nat /\ \A k \in 1..Final : Text[k] = Memory[k]
  BY TextFacts
<1>. PICK S : Text \in Seq(S)
  BY TextFacts
<1>2. \A i \in a..b : Text[i] \in S
  <2>1. ASSUME NEW i \in a..b  PROVE i \in 1..Len(Text)
    BY <1>1 DEF Final
  <2>. QED  BY <2>1, ElementOfSeq
<1>3. a \in Int /\ b \in Int /\ a >= 1 /\ b <= Final /\ a - 1 <= b
  BY <1>1
<1>. DEFINE s == SubSeq(Text, a, b)
<1>4. /\ s \in Seq(S) /\ Len(s) = (IF a <= b THEN b - a + 1 ELSE 0)
      /\ \A i \in 1..b - a + 1 : s[i] = Text[a + i - 1]
  BY <1>2, <1>3, SubSeqProperties
<1>. HIDE DEF s
<1>5. Len(s) = b - a + 1 /\ DOMAIN s = 1..b - a + 1
  BY <1>3, <1>4, LenProperties
<1>6. \A i \in 1..b - a + 1 : s[i] = Memory[a + i - 1]
  <2>1. ASSUME NEW i \in 1..b - a + 1  PROVE a + i - 1 \in 1..Final
    BY <1>1, <1>3
  <2>. QED  BY <1>1, <1>4, <2>1
<1>7. (b = a - 1) <=> (s = <<>>)
  BY <1>3, <1>4, <1>5, EmptySeq
<1>. QED  BY <1>4, <1>5, <1>6, <1>7 DEF s, Part

\* A part of a part is a part.
LEMMA PartOf ==
  ASSUME Scanned, OnText, phase = "scanning", NEW a \in 1..Final + 1, NEW b \in a - 1..Final,
         NEW i \in 1..b - a + 2, NEW j \in i - 1..b - a + 1
  PROVE  SubSeq(Part(a, b), i, j) = Part(a + i - 1, a + j - 1)
<1>1. /\ Final \in Nat /\ a \in Int /\ b \in Int /\ i \in Int /\ j \in Int
      /\ a >= 1 /\ b <= Final /\ a - 1 <= b /\ i >= 1 /\ i - 1 <= j /\ j <= b - a + 1
  BY TextFacts
<1>. DEFINE c == a + i - 1
            d == a + j - 1
<1>2. c \in 1..Final + 1 /\ d \in c - 1..Final /\ c \in Int /\ d \in Int /\ d - c + 1 = j - i + 1
  BY <1>1
<1>. DEFINE s == Part(a, b)
            t == Part(c, d)
<1>3. PICK S : s \in Seq(S)
  BY PartIs
<1>4. Len(s) = b - a + 1 /\ \A k \in 1..b - a + 1 : s[k] = Memory[a + k - 1]
  BY PartIs
<1>5. PICK T : t \in Seq(T)
  <2>. HIDE DEF c, d
  <2>. QED  BY <1>2, PartIs
<1>6. Len(t) = d - c + 1 /\ \A k \in 1..d - c + 1 : t[k] = Memory[c + k - 1]
  <2>. HIDE DEF c, d
  <2>. QED  BY <1>2, PartIs
<1>. DEFINE M == S \union T
<1>7. s \in Seq(M) /\ t \in Seq(M)
  <2>. HIDE DEF s, t
  <2>. QED  BY <1>3, <1>5, SeqMonotonic
<1>. HIDE DEF s, t, M
<1>8. \A k \in i..j : k \in 1..b - a + 1 /\ s[k] \in M
  <2>1. ASSUME NEW k \in i..j  PROVE k \in 1..b - a + 1 /\ s[k] \in M
    <3>1. k \in 1..b - a + 1 /\ k \in 1..Len(s)
      BY <1>1, <1>4
    <3>2. s[k] \in M
      BY <1>7, <3>1, ElementOfSeq
    <3>. QED  BY <3>1, <3>2
  <2>. QED  BY <2>1
<1>. DEFINE u == SubSeq(s, i, j)
<1>9. /\ u \in Seq(M) /\ Len(u) = (IF i <= j THEN j - i + 1 ELSE 0)
      /\ \A k \in 1..j - i + 1 : u[k] = s[i + k - 1]
  BY <1>1, <1>8, SubSeqProperties
<1>. HIDE DEF u
<1>10. Len(u) = j - i + 1
  BY <1>1, <1>9
<1>11. \A k \in 1..Len(u) : u[k] = t[k]
  <2>1. ASSUME NEW k \in 1..Len(u)  PROVE u[k] = t[k]
    <3>1. k \in 1..j - i + 1 /\ k \in 1..d - c + 1 /\ i + k - 1 \in 1..b - a + 1 /\ k \in Int
      BY <1>1, <1>2, <1>10
    <3>2. a + (i + k - 1) - 1 = c + k - 1
      BY <1>1, <3>1 DEF c
    <3>3. u[k] = s[i + k - 1] /\ s[i + k - 1] = Memory[a + (i + k - 1) - 1] /\ t[k] = Memory[c + k - 1]
      BY <1>4, <1>6, <1>9, <3>1
    <3>. QED  BY <3>2, <3>3
  <2>. QED  BY <2>1
<1>12. Len(u) = Len(t)
  BY <1>2, <1>6, <1>10
<1>13. u = t
  BY <1>7, <1>9, <1>11, <1>12, SeqEqual
<1>. QED  BY <1>13 DEF u, s, t, c, d

-----------------------------------------------------------------------------
\* The languages of the abstract scanner, on parts of the text.

LEMMA TailPart ==
  ASSUME Scanned, OnText, phase = "scanning", NEW a \in 1..Final, NEW b \in a..Final
  PROVE  Tail(Part(a, b)) = Part(a + 1, b)
<1>1. Final \in Nat /\ a \in Int /\ b \in Int /\ a >= 1 /\ a <= b /\ b <= Final
  BY TextFacts
<1>2. a \in 1..Final + 1 /\ b \in a - 1..Final
  BY <1>1
<1>. DEFINE s == Part(a, b)
<1>3. PICK S : s \in Seq(S)
  BY <1>2, PartIs
<1>4. Len(s) = b - a + 1 /\ (b = a - 1 <=> s = <<>>)
  BY <1>2, PartIs
<1>. HIDE DEF s
<1>5. s # <<>>
  BY <1>1, <1>4
<1>6. Tail(s) = SubSeq(s, 2, b - a + 1)
  BY <1>3, <1>4, <1>5, TailIsSubSeq
<1>. DEFINE j == b - a + 1
<1>7. 2 \in 1..b - a + 2 /\ j \in 2 - 1..b - a + 1
  BY <1>1
<1>8. SubSeq(s, 2, j) = Part(a + 2 - 1, a + j - 1)
  <2>. HIDE DEF j
  <2>. QED  BY <1>2, <1>7, PartOf DEF s
<1>9. a + 2 - 1 = a + 1 /\ a + j - 1 = b
  BY <1>1
<1>. QED  BY <1>6, <1>8, <1>9 DEF s

AllDigits(a, b) == \A k \in a..b : Memory[k] \in Digits

LEMMA ManyIs ==
  ASSUME Scanned, OnText, phase = "scanning", NEW a \in 1..Final + 1, NEW b \in a - 1..Final
  PROVE  Scanner!Many(Part(a, b)) <=> a <= b /\ AllDigits(a, b)
<1>1. Final \in Nat /\ a \in Int /\ b \in Int /\ a - 1 <= b
  BY TextFacts
<1>. DEFINE s == Part(a, b)
<1>2. /\ DOMAIN s = 1..b - a + 1 /\ (b = a - 1 <=> s = <<>>)
      /\ \A i \in 1..b - a + 1 : s[i] = Memory[a + i - 1]
  BY PartIs
<1>. HIDE DEF s
<1>3. ASSUME Range(s) \subseteq Digits  PROVE AllDigits(a, b)
  <2>1. ASSUME NEW k \in a..b  PROVE Memory[k] \in Digits
    <3>. DEFINE i == k - a + 1
    <3>1. i \in 1..b - a + 1 /\ a + i - 1 = k
      BY <1>1
    <3>. HIDE DEF i
    <3>2. s[i] = Memory[k] /\ s[i] \in Range(s)
      BY <1>2, <3>1 DEF Range
    <3>. QED  BY <1>3, <3>2
  <2>. QED  BY <2>1 DEF AllDigits
<1>4. ASSUME AllDigits(a, b)  PROVE Range(s) \subseteq Digits
  <2>1. ASSUME NEW i \in DOMAIN s  PROVE s[i] \in Digits
    <3>1. s[i] = Memory[a + i - 1] /\ a + i - 1 \in a..b
      BY <1>1, <1>2
    <3>. QED  BY <1>4, <3>1 DEF AllDigits
  <2>. QED  BY <2>1 DEF Range
<1>5. Scanner!Many(s) <=> s # <<>> /\ Range(s) \subseteq Digits
  BY DEF Scanner!Many, Scanner!Digits, Digits, Scanner!Range, Range
<1>. QED  BY <1>1, <1>2, <1>3, <1>4, <1>5 DEF s

LEMMA WholeIs ==
  ASSUME Scanned, OnText, phase = "scanning", NEW a \in 1..Final, NEW b \in a..Final
  PROVE  Scanner!Whole(Part(a, b)) <=>
           \/ b = a /\ Memory[a] = "0"
           \/ Memory[a] # "0" /\ AllDigits(a, b)
<1>1. Final \in Nat /\ a \in Int /\ b \in Int /\ a <= b /\ a \in 1..Final + 1 /\ b \in a - 1..Final
  BY TextFacts
<1>. DEFINE s == Part(a, b)
<1>2. PICK S : s \in Seq(S)
  BY <1>1, PartIs
<1>3. Len(s) = b - a + 1 /\ \A i \in 1..b - a + 1 : s[i] = Memory[a + i - 1]
  BY <1>1, PartIs
<1>4. Scanner!Many(s) <=> AllDigits(a, b)
  BY <1>1, ManyIs
<1>. HIDE DEF s
<1>5. s[1] = Memory[a]
  <2>1. 1 \in 1..b - a + 1 /\ a + 1 - 1 = a
    BY <1>1
  <2>. QED  BY <1>3, <2>1
<1>6. s = <<"0">> <=> b = a /\ Memory[a] = "0"
  <2>1. ASSUME s = <<"0">>  PROVE b = a /\ Memory[a] = "0"
    <3>1. Len(s) = 1 /\ s[1] = "0"
      BY <2>1
    <3>2. b - a + 1 = 1
      BY <1>3, <3>1
    <3>3. b = a
      BY <1>1, <3>2
    <3>. QED  BY <1>5, <3>1, <3>3
  <2>2. ASSUME b = a, Memory[a] = "0"  PROVE s = <<"0">>
    <3>1. Len(s) = 1 /\ s[1] = "0"
      BY <1>1, <1>3, <1>5, <2>2
    <3>. QED  BY <1>2, <3>1
  <2>. QED  BY <2>1, <2>2
<1>7. Scanner!Whole(s) <=> s = <<"0">> \/ (Scanner!Many(s) /\ s[1] # "0")
  BY DEF Scanner!Whole
<1>. QED  BY <1>4, <1>5, <1>6, <1>7 DEF s

LEMMA FractionIs ==
  ASSUME Scanned, OnText, phase = "scanning", NEW a \in 1..Final + 1, NEW b \in a - 1..Final
  PROVE  Scanner!Fraction(Part(a, b)) <=>
           b = a - 1 \/ (a < b /\ Memory[a] = "." /\ AllDigits(a + 1, b))
<1>1. Final \in Nat /\ a \in Int /\ b \in Int /\ a - 1 <= b /\ a >= 1 /\ b <= Final
  BY TextFacts
<1>. DEFINE s == Part(a, b)
<1>2. (b = a - 1 <=> s = <<>>) /\ \A i \in 1..b - a + 1 : s[i] = Memory[a + i - 1]
  BY PartIs
<1>3. ASSUME a <= b
      PROVE  s[1] = Memory[a] /\ (Scanner!Many(Tail(s)) <=> a + 1 <= b /\ AllDigits(a + 1, b))
  <2>1. 1 \in 1..b - a + 1 /\ a + 1 - 1 = a /\ a \in 1..Final /\ b \in a..Final
    BY <1>1, <1>3
  <2>. DEFINE c == a + 1
  <2>2. Tail(s) = Part(c, b)
    BY <2>1, TailPart
  <2>3. c \in 1..Final + 1 /\ b \in c - 1..Final
    BY <1>1, <1>3
  <2>. HIDE DEF c
  <2>4. Scanner!Many(Part(c, b)) <=> c <= b /\ AllDigits(c, b)
    BY <2>3, ManyIs
  <2>5. s[1] = Memory[a]
    <3>. HIDE DEF s
    <3>. QED  BY <1>2, <2>1
  <2>. QED  BY <2>2, <2>4, <2>5 DEF c
<1>. HIDE DEF s
<1>4. Scanner!Fraction(s) <=> s = <<>> \/ (s[1] = "." /\ Scanner!Many(Tail(s)))
  BY DEF Scanner!Fraction
<1>5. CASE a <= b
  <2>1. b # a - 1 /\ (a + 1 <= b <=> a < b)
    BY <1>1, <1>5
  <2>. QED  BY <1>2, <1>3, <1>4, <1>5, <2>1 DEF s
<1>6. CASE ~(a <= b)
  <2>1. b = a - 1
    BY <1>1, <1>6
  <2>. QED  BY <1>2, <1>4, <2>1 DEF s
<1>. QED  BY <1>5, <1>6

LEMMA ExponentIs ==
  ASSUME Scanned, OnText, phase = "scanning", NEW a \in 1..Final + 1, NEW b \in a - 1..Final
  PROVE  Scanner!Exponent(Part(a, b)) <=>
           \/ b = a - 1
           \/ /\ Memory[a] \in {"e", "E"}
              /\ \/ a < b /\ AllDigits(a + 1, b)
                 \/ a + 1 < b /\ Memory[a + 1] \in {"+", "-"} /\ AllDigits(a + 2, b)
<1>1. Final \in Nat /\ a \in Int /\ b \in Int /\ a - 1 <= b /\ a >= 1 /\ b <= Final
  BY TextFacts
<1>. DEFINE s == Part(a, b)
<1>2. /\ (b = a - 1 <=> s = <<>>) /\ Len(s) = b - a + 1
      /\ \A i \in 1..b - a + 1 : s[i] = Memory[a + i - 1]
  BY PartIs
<1>3. ASSUME a <= b
      PROVE  /\ s[1] = Memory[a] /\ (Scanner!Many(Tail(s)) <=> a + 1 <= b /\ AllDigits(a + 1, b))
             /\ Tail(s) = Part(a + 1, b)
  <2>1. 1 \in 1..b - a + 1 /\ a + 1 - 1 = a /\ a \in 1..Final /\ b \in a..Final
    BY <1>1, <1>3
  <2>. DEFINE c == a + 1
  <2>2. Tail(s) = Part(c, b)
    BY <2>1, TailPart
  <2>3. c \in 1..Final + 1 /\ b \in c - 1..Final
    BY <1>1, <1>3
  <2>. HIDE DEF c
  <2>4. Scanner!Many(Part(c, b)) <=> c <= b /\ AllDigits(c, b)
    BY <2>3, ManyIs
  <2>5. s[1] = Memory[a]
    <3>. HIDE DEF s
    <3>. QED  BY <1>2, <2>1
  <2>. QED  BY <2>2, <2>4, <2>5 DEF c
<1>4. ASSUME a < b
      PROVE  /\ s[2] = Memory[a + 1]
             /\ Scanner!Many(Tail(Tail(s))) <=> a + 2 <= b /\ AllDigits(a + 2, b)
  <2>. DEFINE c == a + 1
              d == a + 2
  <2>1. 2 \in 1..b - a + 1 /\ a + 2 - 1 = c /\ c \in 1..Final /\ b \in c..Final /\ a <= b
    BY <1>1, <1>4
  <2>2. c + 1 = d /\ d \in 1..Final + 1 /\ b \in d - 1..Final
    BY <1>1, <1>4
  <2>3. Tail(s) = Part(c, b)
    BY <1>3, <2>1
  <2>. HIDE DEF c, d
  <2>4. Tail(Part(c, b)) = Part(d, b)
    BY <2>1, <2>2, TailPart
  <2>5. Scanner!Many(Part(d, b)) <=> d <= b /\ AllDigits(d, b)
    BY <2>2, ManyIs
  <2>6. s[2] = Memory[c]
    <3>. HIDE DEF s
    <3>. QED  BY <1>2, <2>1
  <2>. QED  BY <2>3, <2>4, <2>5, <2>6 DEF c, d
<1>. HIDE DEF s
<1>5. Scanner!Exponent(s) <=>
        \/ s = <<>>
        \/ /\ s[1] \in {"e", "E"}
           /\ Scanner!Many(Tail(s)) \/ (Len(s) > 1 /\ s[2] \in {"+", "-"} /\ Scanner!Many(Tail(Tail(s))))
  BY DEF Scanner!Exponent
<1>6. CASE a < b
  <2>1. b # a - 1 /\ a <= b /\ a + 1 <= b /\ (a + 2 <= b <=> a + 1 < b) /\ Len(s) > 1
    BY <1>1, <1>2, <1>6
  <2>. QED  BY <1>2, <1>3, <1>4, <1>5, <1>6, <2>1 DEF s
<1>7. CASE a = b
  <2>1. b # a - 1 /\ a <= b /\ ~(a + 1 <= b) /\ ~(a < b) /\ ~(a + 1 < b) /\ ~(Len(s) > 1)
    BY <1>1, <1>2, <1>7
  <2>. QED  BY <1>2, <1>3, <1>5, <2>1 DEF s
<1>8. CASE b = a - 1
  BY <1>2, <1>5, <1>8 DEF s
<1>9. a < b \/ a = b \/ b = a - 1
  BY <1>1
<1>. QED  BY <1>6, <1>7, <1>8, <1>9

\* A numeral from the start of the token up to k.
NumeralTo(k) ==
  \E p \in start..k, q \in start..k :
    /\ p <= q
    /\ \/ p = start /\ First = "0"
       \/ First # "0" /\ AllDigits(start, p)
    /\ \/ q = p
       \/ p + 1 < q /\ Memory[p + 1] = "." /\ AllDigits(p + 2, q)
    /\ \/ k = q
       \/ /\ Memory[q + 1] \in {"e", "E"}
          /\ \/ q + 1 < k /\ AllDigits(q + 2, k)
             \/ q + 2 < k /\ Memory[q + 2] \in {"+", "-"} /\ AllDigits(q + 3, k)

LEMMA NumeralIs ==
  ASSUME Scanned, OnText, phase = "scanning", NEW k \in start..Final
  PROVE  Scanner!IsNumeral(Part(start, k)) <=> NumeralTo(k)
<1>1. /\ Final \in Nat /\ start \in 1..Final + 1 /\ start \in Int /\ k \in Int
      /\ start >= 1 /\ start <= k /\ k <= Final /\ k \in start - 1..Final
  BY TextFacts, StartAgrees
<1>. DEFINE a == start
            s == Part(a, k)
            n == k - a + 1
            Here(p, q) == /\ p <= q
                          /\ \/ p = a /\ First = "0"
                             \/ First # "0" /\ AllDigits(a, p)
                          /\ \/ q = p
                             \/ p + 1 < q /\ Memory[p + 1] = "." /\ AllDigits(p + 2, q)
                          /\ \/ k = q
                             \/ /\ Memory[q + 1] \in {"e", "E"}
                                /\ \/ q + 1 < k /\ AllDigits(q + 2, k)
                                   \/ q + 2 < k /\ Memory[q + 2] \in {"+", "-"} /\ AllDigits(q + 3, k)
            There(i, j) == /\ i <= j
                           /\ Scanner!Whole(SubSeq(s, 1, i))
                           /\ Scanner!Fraction(SubSeq(s, i + 1, j))
                           /\ Scanner!Exponent(SubSeq(s, j + 1, Len(s)))
<1>2. Len(s) = n
  BY <1>1, PartIs
<1>3. ASSUME NEW i \in 1..n, NEW j \in 1..n, i <= j, NEW p, NEW q, p = a + i - 1, q = a + j - 1
      PROVE  There(i, j) <=> Here(p, q)
  <2>1. /\ i \in Int /\ j \in Int /\ i >= 1 /\ j >= 1 /\ i <= n /\ j <= n /\ n \in Int
        /\ p \in a..k /\ q \in a..k /\ p <= q /\ p \in Int /\ q \in Int
    BY <1>1, <1>3
  <2>2. Scanner!Whole(SubSeq(s, 1, i)) <=> (p = a /\ First = "0") \/ (First # "0" /\ AllDigits(a, p))
    <3>1. 1 \in 1..k - a + 2 /\ i \in 1 - 1..k - a + 1 /\ a + 1 - 1 = a
      BY <1>1, <2>1
    <3>2. SubSeq(s, 1, i) = Part(a, p)
      <4>1. SubSeq(s, 1, i) = Part(a + 1 - 1, a + i - 1)
        BY <1>1, <3>1, PartOf
      <4>. QED  BY <1>3, <3>1, <4>1
    <3>3. a \in 1..Final /\ p \in a..Final
      BY <1>1, <2>1
    <3>4. Memory[a] = First
      BY DEF First
    <3>. QED  BY <3>2, <3>3, <3>4, WholeIs
  <2>3. Scanner!Fraction(SubSeq(s, i + 1, j)) <=>
          q = p \/ (p + 1 < q /\ Memory[p + 1] = "." /\ AllDigits(p + 2, q))
    <3>. DEFINE c == p + 1
                h == i + 1
    <3>1. h \in 1..k - a + 2 /\ j \in h - 1..k - a + 1 /\ a + h - 1 = c /\ a + j - 1 = q
      BY <1>1, <1>3, <2>1
    <3>2. c \in 1..Final + 1 /\ q \in c - 1..Final /\ c + 1 = p + 2 /\ (q = c - 1 <=> q = p)
      BY <1>1, <1>3, <2>1
    <3>. HIDE DEF c, h
    <3>3. SubSeq(s, h, j) = Part(a + h - 1, a + j - 1)
      BY <1>1, <3>1, PartOf
    <3>4. SubSeq(s, h, j) = Part(c, q)
      BY <3>1, <3>3
    <3>5. Scanner!Fraction(Part(c, q)) <=> q = c - 1 \/ (c < q /\ Memory[c] = "." /\ AllDigits(c + 1, q))
      BY <3>2, FractionIs
    <3>6. Scanner!Fraction(SubSeq(s, h, j)) <=> q = p \/ (c < q /\ Memory[c] = "." /\ AllDigits(p + 2, q))
      BY <3>2, <3>4, <3>5
    <3>. QED  BY <3>6 DEF c, h
  <2>4. Scanner!Exponent(SubSeq(s, j + 1, n)) <=>
          \/ k = q
          \/ /\ Memory[q + 1] \in {"e", "E"}
             /\ \/ q + 1 < k /\ AllDigits(q + 2, k)
                \/ q + 2 < k /\ Memory[q + 2] \in {"+", "-"} /\ AllDigits(q + 3, k)
    <3>. DEFINE c == q + 1
                h == j + 1
    <3>1. h \in 1..k - a + 2 /\ n \in h - 1..k - a + 1 /\ a + h - 1 = c /\ a + n - 1 = k
      BY <1>1, <1>3, <2>1
    <3>2. c \in 1..Final + 1 /\ k \in c - 1..Final /\ c + 1 = q + 2 /\ c + 2 = q + 3 /\ (k = c - 1 <=> k = q)
      BY <1>1, <1>3, <2>1
    <3>. HIDE DEF c, h, n
    <3>3. SubSeq(s, h, n) = Part(a + h - 1, a + n - 1)
      BY <1>1, <3>1, PartOf
    <3>4. SubSeq(s, h, n) = Part(c, k)
      BY <3>1, <3>3
    <3>5. Scanner!Exponent(Part(c, k)) <=>
            \/ k = c - 1
            \/ /\ Memory[c] \in {"e", "E"}
               /\ \/ c < k /\ AllDigits(c + 1, k)
                  \/ c + 1 < k /\ Memory[c + 1] \in {"+", "-"} /\ AllDigits(c + 2, k)
      BY <3>2, ExponentIs
    <3>6. Scanner!Exponent(SubSeq(s, h, n)) <=>
            \/ k = q
            \/ /\ Memory[c] \in {"e", "E"}
               /\ \/ c < k /\ AllDigits(q + 2, k)
                  \/ q + 2 < k /\ Memory[q + 2] \in {"+", "-"} /\ AllDigits(q + 3, k)
      BY <3>2, <3>4, <3>5
    <3>. QED  BY <3>6 DEF c, h
  <2>. HIDE DEF s, n, a
  <2>. QED  BY <1>2, <1>3, <2>1, <2>2, <2>3, <2>4
<1>4. Scanner!IsNumeral(s) <=> \E i \in 1..n, j \in 1..n : There(i, j)
  <2>1. Scanner!IsNumeral(s) <=> \E i \in 1..Len(s), j \in 1..Len(s) : There(i, j)
    BY DEF Scanner!IsNumeral
  <2>. HIDE DEF s, n, There
  <2>. QED  BY <1>2, <2>1
<1>5. NumeralTo(k) <=> \E p \in a..k, q \in a..k : Here(p, q)
  BY DEF NumeralTo
<1>6. ASSUME NEW i \in 1..n, NEW j \in 1..n, There(i, j)  PROVE NumeralTo(k)
  <2>. DEFINE p == a + i - 1
              q == a + j - 1
  <2>1. p \in a..k /\ q \in a..k
    BY <1>1
  <2>2. i <= j
    BY <1>6
  <2>. HIDE DEF s, n, There, Here
  <2>3. Here(p, q)
    BY <1>3, <1>6, <2>2
  <2>. HIDE DEF p, q, a
  <2>. QED  BY <1>5, <2>1, <2>3
<1>7. ASSUME NEW p \in a..k, NEW q \in a..k, Here(p, q)  PROVE Scanner!IsNumeral(s)
  <2>. DEFINE i == p - a + 1
              j == q - a + 1
  <2>1. i \in 1..n /\ j \in 1..n /\ p = a + i - 1 /\ q = a + j - 1
    BY <1>1
  <2>2. p <= q
    BY <1>7
  <2>3. i <= j
    BY <1>1, <2>2
  <2>. HIDE DEF s, n, There, Here, i, j
  <2>4. There(i, j)
    BY <1>3, <1>7, <2>1, <2>3
  <2>. HIDE DEF a
  <2>. QED  BY <1>4, <2>1, <2>4
<1>8. Scanner!IsNumeral(s) => NumeralTo(k)
  <2>. HIDE DEF s, n, There
  <2>. QED  BY <1>4, <1>6
<1>9. NumeralTo(k) => Scanner!IsNumeral(s)
  <2>. HIDE DEF s, Here
  <2>. QED  BY <1>5, <1>7
<1>. QED  BY <1>8, <1>9 DEF s, a

-----------------------------------------------------------------------------
\* The longest numeral.

\* What is in the four parts of match_number.
LEMMA NumberParts ==
  ASSUME Filled, Ahead, First \in Digits
  PROVE  /\ Size \in Nat /\ start \in 1..Size /\ Memory[start] = First
         /\ IntegerEnd \in start + 1..Size /\ AllDigits(start, IntegerEnd - 1)
         /\ First = "0" => IntegerEnd = start + 1
         /\ First # "0" => Memory[IntegerEnd] \notin Digits
         /\ FractionEnd \in IntegerEnd..Size
         /\ HasFraction => /\ FractionEnd > IntegerEnd + 1 /\ AllDigits(IntegerEnd + 1, FractionEnd - 1)
                           /\ Memory[FractionEnd] \notin Digits
         /\ HasExponent => /\ ExponentDigits \in FractionEnd + 1..Size
                           /\ NumberEnd \in ExponentDigits..Size /\ Memory[NumberEnd] \notin Digits
                           /\ AllDigits(ExponentDigits, NumberEnd - 1)
<1>1. /\ Size \in Nat /\ start \in 1..Size /\ Memory[start] = First
  BY StartFacts DEF First
<1>2. /\ IntegerEnd \in start + 1..Size /\ FractionEnd \in IntegerEnd..Size
      /\ HasPoint => IntegerEnd + 1 \in 1..Size
      /\ HasExponent => ExponentDigits \in FractionEnd + 1..Size
  BY NumberFacts
<1>3. NUL \notin Digits
  BY CharactersApart
<1>4. /\ AllDigits(start, IntegerEnd - 1)
      /\ First = "0" => IntegerEnd = start + 1
      /\ First # "0" => Memory[IntegerEnd] \notin Digits
  <2>1. CASE First = "0"
    <3>1. IntegerEnd = start + 1
      BY <2>1 DEF IntegerEnd
    <3>2. ASSUME NEW k \in start..IntegerEnd - 1  PROVE k = start
      BY <1>1, <3>1
    <3>. QED  BY <1>1, <2>1, <3>1, <3>2 DEF AllDigits
  <2>2. CASE First # "0"
    <3>1. IntegerEnd = After(start, Digits)
      BY <2>2 DEF IntegerEnd
    <3>2. Memory[After(start, Digits)] \notin Digits /\ \A k \in start..After(start, Digits) - 1 : Memory[k] \in Digits
      BY <1>1, <1>3, AfterStays
    <3>. QED  BY <2>2, <3>1, <3>2 DEF AllDigits
  <2>. QED  BY <2>1, <2>2
<1>5. ASSUME HasFraction
      PROVE  /\ FractionEnd > IntegerEnd + 1 /\ AllDigits(IntegerEnd + 1, FractionEnd - 1)
             /\ Memory[FractionEnd] \notin Digits
  <2>. DEFINE i == IntegerEnd + 1
  <2>1. i \in 1..Size /\ Memory[i] \in Digits /\ FractionEnd = After(i, Digits)
    BY <1>2, <1>5 DEF HasFraction, FractionEnd
  <2>. HIDE DEF i
  <2>2. /\ After(i, Digits) \in i..Size /\ Memory[After(i, Digits)] \notin Digits
        /\ \A k \in i..After(i, Digits) - 1 : Memory[k] \in Digits
    BY <1>3, <2>1, AfterStays
  <2>3. FractionEnd # i
    BY <2>1, <2>2
  <2>4. FractionEnd > i
    BY <1>1, <2>1, <2>2, <2>3
  <2>. QED  BY <2>1, <2>2, <2>4 DEF AllDigits, i
<1>6. ASSUME HasExponent
      PROVE  /\ NumberEnd \in ExponentDigits..Size /\ Memory[NumberEnd] \notin Digits
             /\ AllDigits(ExponentDigits, NumberEnd - 1)
  <2>1. ExponentDigits \in 1..Size /\ NumberEnd = After(ExponentDigits, Digits)
    BY <1>1, <1>2, <1>6 DEF NumberEnd
  <2>2. /\ After(ExponentDigits, Digits) \in ExponentDigits..Size /\ Memory[After(ExponentDigits, Digits)] \notin Digits
        /\ \A k \in ExponentDigits..After(ExponentDigits, Digits) - 1 : Memory[k] \in Digits
    BY <1>3, <2>1, AfterStays
  <2>. QED  BY <2>1, <2>2 DEF AllDigits
<1>. QED  BY <1>1, <1>2, <1>4, <1>5, <1>6

\* One past the longest numeral, which the lexer takes or finds something behind.
NumeralEnd ==
  IF HasPoint /\ ~HasFraction THEN IntegerEnd
  ELSE IF HasExponent /\ Memory[ExponentDigits] \notin Digits THEN FractionEnd
  ELSE NumberEnd

LEMMA NumeralEnds ==
  ASSUME Filled, Ahead, First \in Digits
  PROVE  /\ NumeralEnd \in start + 1..Size
         /\ IsNumber => /\ NumeralEnd = IF HasPoint /\ ~HasFraction THEN IntegerEnd ELSE NumberEnd
                        /\ Memory[NumeralEnd] \notin WordChars
         /\ ~IsNumber => Memory[NumeralEnd] \in WordChars
<1>1. /\ IntegerEnd \in start + 1..Size /\ FractionEnd \in IntegerEnd..Size
      /\ NumberEnd \in FractionEnd..Size /\ start \in 1..Size /\ Size \in Nat
  BY NumberFacts, NumberParts
<1>2. FractionEnd \in start + 1..Size /\ NumberEnd \in start + 1..Size
  BY <1>1
<1>3. NumeralEnd \in start + 1..Size
  BY <1>1, <1>2 DEF NumeralEnd
<1>4. "." \notin WordChars /\ "e" \in WordChars /\ "E" \in WordChars
  BY CharactersApart
<1>5. CASE HasPoint /\ ~HasFraction
  BY <1>3, <1>4, <1>5 DEF NumeralEnd, IsNumber, HasPoint
<1>6. CASE ~(HasPoint /\ ~HasFraction)
  BY <1>3, <1>4, <1>6 DEF NumeralEnd, IsNumber, HasExponent
<1>. QED  BY <1>5, <1>6

\* What starts with a digit is a numeral as far as match_number reads.
LEMMA IsNumeralThere ==
  ASSUME Filled, Ahead, First \in Digits
  PROVE  NumeralTo(NumeralEnd - 1)
<1>. DEFINE p == IntegerEnd - 1
            q == FractionEnd - 1
            k == NumeralEnd - 1
            Wholly == \/ p = start /\ First = "0"
                      \/ First # "0" /\ AllDigits(start, p)
            Fractional(x) == \/ x = p
                             \/ p + 1 < x /\ Memory[p + 1] = "." /\ AllDigits(p + 2, x)
            Exponential(x) == \/ k = x
                              \/ /\ Memory[x + 1] \in {"e", "E"}
                                 /\ \/ x + 1 < k /\ AllDigits(x + 2, k)
                                    \/ x + 2 < k /\ Memory[x + 2] \in {"+", "-"} /\ AllDigits(x + 3, k)
<1>1. /\ Size \in Nat /\ start \in Int /\ IntegerEnd \in Int /\ FractionEnd \in Int
      /\ start < IntegerEnd /\ IntegerEnd <= FractionEnd
      /\ HasExponent => ExponentDigits \in Int /\ NumberEnd \in Int /\ ExponentDigits <= NumberEnd /\ FractionEnd < ExponentDigits
      /\ ~HasExponent => NumberEnd = FractionEnd
      /\ ~HasFraction => FractionEnd = IntegerEnd
  <2>1. /\ Size \in Nat /\ start \in 1..Size /\ IntegerEnd \in start + 1..Size /\ FractionEnd \in IntegerEnd..Size
        /\ HasExponent => ExponentDigits \in FractionEnd + 1..Size /\ NumberEnd \in ExponentDigits..Size
    BY NumberParts
  <2>2. /\ ~HasExponent => NumberEnd = FractionEnd
        /\ ~HasFraction => FractionEnd = IntegerEnd
    BY DEF NumberEnd, FractionEnd
  <2>3. start \in Int /\ IntegerEnd \in Int /\ FractionEnd \in Int
    BY <2>1
  <2>. QED  BY <2>1, <2>2, <2>3
<1>2. ASSUME NEW x \in {p, q}, k >= x, Fractional(x), Exponential(x)  PROVE NumeralTo(k)
  <2>1. k \in Int
    <3>1. NumeralEnd \in start + 1..Size
      BY NumeralEnds
    <3>. QED  BY <1>1, <3>1
  <2>2. p \in start..k /\ x \in start..k /\ p <= x
    BY <1>1, <1>2, <2>1
  <2>3. Wholly
    <3>1. AllDigits(start, p) /\ (First = "0" => p = start)
      BY <1>1, NumberParts
    <3>. QED  BY <3>1
  <2>. HIDE DEF p, q, k
  <2>. QED  BY <1>2, <2>2, <2>3 DEF NumeralTo
<1>3. CASE HasPoint /\ ~HasFraction
  <2>1. k = p
    BY <1>3 DEF NumeralEnd
  <2>2. k >= p
    BY <1>1, <2>1
  <2>. QED  BY <1>2, <2>1, <2>2
<1>4. CASE ~(HasPoint /\ ~HasFraction)
  <2>1. Fractional(q)
    <3>1. CASE HasFraction
      <4>1. FractionEnd > IntegerEnd + 1 /\ AllDigits(IntegerEnd + 1, FractionEnd - 1) /\ Memory[IntegerEnd] = "."
        BY <3>1, NumberParts DEF HasFraction, HasPoint
      <4>2. p + 1 = IntegerEnd /\ p + 2 = IntegerEnd + 1 /\ p + 1 < q
        BY <1>1, <4>1
      <4>. HIDE DEF p
      <4>. QED  BY <4>1, <4>2
    <3>2. CASE ~HasFraction
      BY <1>1, <3>2
    <3>. QED  BY <3>1, <3>2
  <2>2. CASE HasExponent /\ Memory[ExponentDigits] \notin Digits
    <3>1. k = q
      BY <1>4, <2>2 DEF NumeralEnd
    <3>2. k >= q
      BY <1>1, <3>1
    <3>. QED  BY <1>2, <2>1, <3>1, <3>2
  <2>3. CASE HasExponent /\ Memory[ExponentDigits] \in Digits
    <3>1. k = NumberEnd - 1
      BY <1>4, <2>3 DEF NumeralEnd
    <3>2. AllDigits(ExponentDigits, k) /\ Memory[NumberEnd] \notin Digits
      BY <2>3, <3>1, NumberParts
    <3>3. ExponentDigits < NumberEnd
      <4>1. ExponentDigits # NumberEnd
        BY <2>3, <3>2
      <4>. QED  BY <1>1, <2>3, <4>1
    <3>4. Memory[FractionEnd] \in {"e", "E"} /\ q + 1 = FractionEnd /\ q + 2 = FractionEnd + 1 /\ q + 3 = FractionEnd + 2
      BY <1>1, <2>3 DEF HasExponent
    <3>5. Exponential(q)
      <4>1. CASE Memory[FractionEnd + 1] \in {"+", "-"}
        <5>1. ExponentDigits = FractionEnd + 2
          BY <4>1 DEF ExponentDigits
        <5>2. q + 2 < k
          BY <1>1, <2>3, <3>1, <3>3, <5>1
        <5>. HIDE DEF q, k
        <5>. QED  BY <3>2, <3>4, <4>1, <5>1, <5>2
      <4>2. CASE Memory[FractionEnd + 1] \notin {"+", "-"}
        <5>1. ExponentDigits = FractionEnd + 1
          BY <4>2 DEF ExponentDigits
        <5>2. q + 1 < k
          BY <1>1, <2>3, <3>1, <3>3, <5>1
        <5>. HIDE DEF q, k
        <5>. QED  BY <3>2, <3>4, <5>1, <5>2
      <4>. QED  BY <4>1, <4>2
    <3>6. k >= q
      BY <1>1, <2>3, <3>1
    <3>7. q \in {p, q}
      OBVIOUS
    <3>. HIDE DEF Fractional, Exponential, k, p, q
    <3>8. NumeralTo(k)
      BY <1>2, <2>1, <3>5, <3>6, <3>7
    <3>. QED  BY <3>8 DEF k
  <2>4. CASE ~HasExponent
    <3>1. k = q
      BY <1>1, <1>4, <2>4 DEF NumeralEnd
    <3>2. k >= q
      BY <1>1, <3>1
    <3>. QED  BY <1>2, <2>1, <3>1, <3>2
  <2>. QED  BY <2>2, <2>3, <2>4
<1>. QED  BY <1>3, <1>4

\* No numeral is longer.
LEMMA NoNumeralBeyond ==
  ASSUME Filled, Ahead, First \in Digits, NEW k \in Nat, k >= NumeralEnd
  PROVE  ~NumeralTo(k)
<1>. SUFFICES ASSUME NumeralTo(k)  PROVE FALSE
  OBVIOUS
<1>1. /\ Size \in Nat /\ start \in Int /\ IntegerEnd \in Int /\ FractionEnd \in Int /\ NumeralEnd \in Int
      /\ start < IntegerEnd /\ IntegerEnd <= FractionEnd
      /\ HasExponent => ExponentDigits \in Int /\ NumberEnd \in Int /\ ExponentDigits <= NumberEnd /\ FractionEnd < ExponentDigits
      /\ ~HasExponent => NumberEnd = FractionEnd
      /\ ~HasFraction => FractionEnd = IntegerEnd
      /\ IntegerEnd <= NumeralEnd
      /\ ~(HasPoint /\ ~HasFraction) => FractionEnd <= NumeralEnd
  <2>1. /\ Size \in Nat /\ start \in 1..Size /\ IntegerEnd \in start + 1..Size /\ FractionEnd \in IntegerEnd..Size
        /\ HasExponent => ExponentDigits \in FractionEnd + 1..Size /\ NumberEnd \in ExponentDigits..Size
    BY NumberParts
  <2>2. /\ ~HasExponent => NumberEnd = FractionEnd
        /\ ~HasFraction => FractionEnd = IntegerEnd
    BY DEF NumberEnd, FractionEnd
  <2>3. start \in Int /\ IntegerEnd \in Int /\ FractionEnd \in Int /\ NumberEnd \in Int /\ FractionEnd <= NumberEnd
        /\ IntegerEnd <= FractionEnd /\ start < IntegerEnd
    BY <2>1, <2>2
  <2>4. NumeralEnd \in {IntegerEnd, FractionEnd, NumberEnd} /\ (~(HasPoint /\ ~HasFraction) => NumeralEnd \in {FractionEnd, NumberEnd})
    BY DEF NumeralEnd
  <2>5. NumeralEnd \in Int /\ IntegerEnd <= NumeralEnd
    BY <2>3, <2>4
  <2>6. ~(HasPoint /\ ~HasFraction) => FractionEnd <= NumeralEnd
    BY <2>3, <2>4
  <2>. QED  BY <2>1, <2>2, <2>3, <2>5, <2>6
<1>2. PICK p \in start..k, q \in start..k :
         /\ p <= q
         /\ \/ p = start /\ First = "0"
            \/ First # "0" /\ AllDigits(start, p)
         /\ \/ q = p
            \/ p + 1 < q /\ Memory[p + 1] = "." /\ AllDigits(p + 2, q)
         /\ \/ k = q
            \/ /\ Memory[q + 1] \in {"e", "E"}
               /\ \/ q + 1 < k /\ AllDigits(q + 2, k)
                  \/ q + 2 < k /\ Memory[q + 2] \in {"+", "-"} /\ AllDigits(q + 3, k)
  BY DEF NumeralTo
<1>3. p \in Int /\ q \in Int /\ start <= p /\ p <= k /\ start <= q /\ q <= k
  BY <1>1
<1>4. "." \notin Digits /\ "e" \notin Digits /\ "E" \notin Digits /\ "+" \notin Digits /\ "-" \notin Digits
  BY DEF Digits
<1>5. p < IntegerEnd
  <2>1. CASE First = "0"
    <3>1. p = start
      BY <1>2, <2>1
    <3>. QED  BY <1>1, <3>1
  <2>2. CASE First # "0"
    <3>1. Memory[IntegerEnd] \notin Digits /\ AllDigits(start, p)
      BY <1>2, <2>2, NumberParts
    <3>2. IntegerEnd \notin start..p
      BY <3>1 DEF AllDigits
    <3>. QED  BY <1>1, <1>3, <3>2
  <2>. QED  BY <2>1, <2>2
<1>6. p = IntegerEnd - 1
  <2>1. SUFFICES ASSUME p < IntegerEnd - 1  PROVE FALSE
    BY <1>1, <1>3, <1>5
  <2>2. Memory[p + 1] \in Digits
    <3>1. p + 1 \in start..IntegerEnd - 1
      BY <1>1, <1>3, <2>1
    <3>. QED  BY <3>1, NumberParts DEF AllDigits
  <2>3. q = p
    BY <1>2, <1>4, <2>2
  <2>4. k = q
    <3>1. Memory[q + 1] \notin {"e", "E"}
      BY <1>4, <2>2, <2>3
    <3>. QED  BY <1>2, <3>1
  <2>. QED  BY <1>1, <1>3, <2>1, <2>3, <2>4
<1>7. p + 1 = IntegerEnd /\ p + 2 = IntegerEnd + 1
  BY <1>1, <1>6
<1>8. q # p => HasFraction /\ q < FractionEnd
  <2>1. SUFFICES ASSUME q # p  PROVE HasFraction /\ q < FractionEnd
    OBVIOUS
  <2>2. IntegerEnd < q /\ Memory[IntegerEnd] = "." /\ AllDigits(IntegerEnd + 1, q)
    BY <1>2, <1>7, <2>1
  <2>3. HasFraction
    <3>1. IntegerEnd + 1 \in IntegerEnd + 1..q
      BY <1>1, <1>3, <2>2
    <3>. QED  BY <2>2, <3>1 DEF HasFraction, HasPoint, AllDigits
  <2>4. FractionEnd \notin IntegerEnd + 1..q
    BY <2>2, <2>3, NumberParts DEF AllDigits
  <2>5. FractionEnd > IntegerEnd + 1
    BY <2>3, NumberParts
  <2>. QED  BY <1>1, <1>3, <2>3, <2>4, <2>5
<1>9. ASSUME HasPoint, q = p  PROVE k = q
  <2>1. Memory[q + 1] = "."
    BY <1>7, <1>9 DEF HasPoint
  <2>2. Memory[q + 1] \notin {"e", "E"}
    BY <2>1
  <2>. QED  BY <1>2, <2>2
<1>10. CASE HasPoint /\ ~HasFraction
  <2>1. q = p /\ k = q
    BY <1>8, <1>9, <1>10
  <2>. QED  BY <1>1, <1>3, <1>5, <2>1
<1>11. CASE ~(HasPoint /\ ~HasFraction)
  <2>1. q = FractionEnd - 1
    <3>1. CASE HasFraction
      <4>1. FractionEnd > IntegerEnd + 1 /\ AllDigits(IntegerEnd + 1, FractionEnd - 1) /\ HasPoint
        BY <3>1, NumberParts DEF HasFraction
      <4>2. q # p
        <5>1. SUFFICES ASSUME q = p  PROVE FALSE
          OBVIOUS
        <5>2. k = p
          BY <1>9, <4>1, <5>1
        <5>. QED  BY <1>1, <1>3, <1>5, <5>2
      <4>3. IntegerEnd < q /\ q < FractionEnd
        BY <1>2, <1>7, <1>8, <4>2
      <4>4. SUFFICES ASSUME q < FractionEnd - 1  PROVE FALSE
        BY <1>1, <1>3, <4>3
      <4>5. q + 1 \in IntegerEnd + 1..FractionEnd - 1
        BY <1>1, <1>3, <4>3, <4>4
      <4>6. Memory[q + 1] \notin {"e", "E"}
        BY <1>4, <4>1, <4>5 DEF AllDigits
      <4>7. k = q
        BY <1>2, <4>6
      <4>. QED  BY <1>1, <1>3, <1>11, <4>3, <4>7
    <3>2. CASE ~HasFraction
      <4>1. q = p /\ FractionEnd = IntegerEnd
        BY <1>1, <1>8, <3>2
      <4>. QED  BY <1>1, <1>6, <4>1
    <3>. QED  BY <3>1, <3>2
  <2>2. q + 1 = FractionEnd /\ q + 2 = FractionEnd + 1 /\ q + 3 = FractionEnd + 2
    BY <1>1, <2>1
  <2>3. k # q
    BY <1>1, <1>3, <1>11, <2>1
  <2>4. /\ HasExponent
        /\ \/ FractionEnd < k /\ AllDigits(FractionEnd + 1, k)
           \/ /\ FractionEnd + 1 < k /\ Memory[FractionEnd + 1] \in {"+", "-"}
              /\ AllDigits(FractionEnd + 2, k)
    BY <1>2, <2>2, <2>3 DEF HasExponent
  <2>5. ExponentDigits <= k /\ AllDigits(ExponentDigits, k)
    <3>1. CASE Memory[FractionEnd + 1] \in {"+", "-"}
      <4>1. ExponentDigits = FractionEnd + 2
        BY <3>1 DEF ExponentDigits
      <4>2. ~(FractionEnd < k /\ AllDigits(FractionEnd + 1, k))
        <5>1. SUFFICES ASSUME FractionEnd < k, AllDigits(FractionEnd + 1, k)  PROVE FALSE
          OBVIOUS
        <5>2. FractionEnd + 1 \in FractionEnd + 1..k
          BY <1>1, <5>1
        <5>. QED  BY <1>4, <3>1, <5>1, <5>2 DEF AllDigits
      <4>. QED  BY <1>1, <2>4, <4>1, <4>2
    <3>2. CASE Memory[FractionEnd + 1] \notin {"+", "-"}
      <4>1. ExponentDigits = FractionEnd + 1
        BY <3>2 DEF ExponentDigits
      <4>. QED  BY <1>1, <2>4, <3>2, <4>1
    <3>. QED  BY <3>1, <3>2
  <2>6. Memory[ExponentDigits] \in Digits
    <3>1. ExponentDigits \in ExponentDigits..k
      BY <1>1, <2>4, <2>5
    <3>. QED  BY <2>5, <3>1 DEF AllDigits
  <2>7. NumeralEnd = NumberEnd
    BY <1>11, <2>6 DEF NumeralEnd
  <2>8. NumberEnd \in ExponentDigits..k
    BY <1>1, <2>4, <2>7
  <2>9. Memory[NumberEnd] \notin Digits
    BY <2>4, NumberParts
  <2>. QED  BY <2>5, <2>8, <2>9 DEF AllDigits
<1>. QED  BY <1>10, <1>11

\* A numeral is part of the text.
LEMMA NumeralInText ==
  ASSUME Scanned, OnText, phase = "scanning", NEW k \in Nat, NumeralTo(k)
  PROVE  k \in start..Final
<1>1. /\ Final \in Nat /\ Memory[Final + 1] = NUL /\ start \in 1..Final + 1
  BY TextFacts, StartAgrees
<1>2. PICK p \in start..k, q \in start..k :
         /\ p <= q
         /\ \/ p = start /\ First = "0"
            \/ First # "0" /\ AllDigits(start, p)
         /\ \/ q = p
            \/ p + 1 < q /\ Memory[p + 1] = "." /\ AllDigits(p + 2, q)
         /\ \/ k = q
            \/ /\ Memory[q + 1] \in {"e", "E"}
               /\ \/ q + 1 < k /\ AllDigits(q + 2, k)
                  \/ q + 2 < k /\ Memory[q + 2] \in {"+", "-"} /\ AllDigits(q + 3, k)
  BY DEF NumeralTo
<1>3. p \in Int /\ q \in Int /\ start \in Int /\ start <= p /\ p <= k /\ start <= q /\ q <= k
  BY <1>1
<1>4. NUL \notin Digits /\ NUL # "." /\ NUL \notin {"e", "E"} /\ NUL \notin {"+", "-"} /\ NUL # "0"
  BY DEF NUL, Digits
<1>. DEFINE z == Final + 1
<1>5. z \in Int /\ start <= z /\ Memory[z] = NUL
  BY <1>1
<1>. HIDE DEF z
<1>6. p < z
  <2>1. CASE p = start /\ First = "0"
    <3>1. z # start
      BY <1>4, <1>5, <2>1 DEF First
    <3>. QED  BY <1>3, <1>5, <2>1, <3>1
  <2>2. CASE AllDigits(start, p)
    <3>1. z \notin start..p
      BY <1>4, <1>5, <2>2 DEF AllDigits
    <3>. QED  BY <1>3, <1>5, <3>1
  <2>. QED  BY <1>2, <2>1, <2>2
<1>7. q < z
  <2>1. CASE q = p
    BY <1>6, <2>1
  <2>2. CASE Memory[p + 1] = "." /\ AllDigits(p + 2, q)
    <3>1. z # p + 1 /\ z \notin p + 2..q
      BY <1>4, <1>5, <2>2 DEF AllDigits
    <3>. QED  BY <1>3, <1>5, <1>6, <3>1
  <2>. QED  BY <1>2, <2>1, <2>2
<1>8. k < z
  <2>1. CASE k = q
    BY <1>7, <2>1
  <2>2. CASE Memory[q + 1] \in {"e", "E"} /\ AllDigits(q + 2, k)
    <3>1. z # q + 1 /\ z \notin q + 2..k
      BY <1>4, <1>5, <2>2 DEF AllDigits
    <3>. QED  BY <1>3, <1>5, <1>7, <3>1
  <2>3. CASE Memory[q + 1] \in {"e", "E"} /\ Memory[q + 2] \in {"+", "-"} /\ AllDigits(q + 3, k)
    <3>1. z # q + 1 /\ z # q + 2 /\ z \notin q + 3..k
      BY <1>4, <1>5, <2>3 DEF AllDigits
    <3>. QED  BY <1>3, <1>5, <1>7, <3>1
  <2>. QED  BY <1>2, <2>1, <2>2, <2>3
<1>. QED  BY <1>1, <1>3, <1>8 DEF z

-----------------------------------------------------------------------------
\* The class of a part that begins at the start of the token.

LEMMA PartFacts ==
  ASSUME Scanned, OnText, phase = "scanning", NEW k \in start..Final, NEW s, s = Part(start, k)
  PROVE  /\ s = <<".", ".">> <=> k = start + 1 /\ First = "." /\ Memory[start + 1] = "."
         /\ Len(s) = 1 /\ s[1] \in DOMAIN Punctuation <=> k = start /\ First \in DOMAIN Punctuation
         /\ Scanner!IsWord(s) <=> First \notin Digits /\ \A i \in start..k : Memory[i] \in WordChars
         /\ s \in DOMAIN KeywordKinds => \A i \in start..k : Memory[i] \in Letters
         /\ Scanner!IsNumeral(s) <=> NumeralTo(k)
         /\ Scanner!IsString(s) <=> /\ k > start /\ First = Quote /\ Memory[k] = Quote
                                    /\ \A i \in start + 1..k - 1 : Memory[i] # Quote
<1>1. /\ Final \in Nat /\ start \in Int /\ k \in Int /\ 1 <= start /\ start <= k /\ k <= Final
      /\ start \in 1..Final + 1 /\ k \in start - 1..Final /\ Memory[start] = First
  BY TextFacts, StartAgrees DEF First
<1>. DEFINE n == k - start + 1
<1>2. n \in Nat /\ 1 <= n
  BY <1>1
<1>3. PICK S : s \in Seq(S)
  BY <1>1, PartIs
<1>4. Len(s) = n /\ DOMAIN s = 1..n /\ s # <<>> /\ \A i \in 1..n : s[i] = Memory[start + i - 1]
  <2>1. /\ Len(s) = n /\ DOMAIN s = 1..n /\ (k = start - 1 <=> s = <<>>)
        /\ \A i \in 1..n : s[i] = Memory[start + i - 1]
    BY <1>1, PartIs
  <2>2. k # start - 1
    BY <1>1
  <2>. QED  BY <2>1, <2>2
<1>5. \A i \in start..k : i - start + 1 \in 1..n /\ s[i - start + 1] = Memory[i]
  <2>1. ASSUME NEW i \in start..k  PROVE i - start + 1 \in 1..n /\ s[i - start + 1] = Memory[i]
    <3>. DEFINE j == i - start + 1
    <3>1. j \in 1..n /\ start + j - 1 = i
      BY <1>1
    <3>. HIDE DEF j, n
    <3>2. j \in 1..n /\ s[j] = Memory[i]
      BY <1>4, <3>1
    <3>. QED  BY <3>2 DEF j
  <2>. QED  BY <2>1
<1>6. \A i \in 1..n : start + i - 1 \in start..k /\ s[i] = Memory[start + i - 1]
  <2>1. \A i \in 1..n : start + i - 1 \in start..k
    BY <1>1
  <2>. HIDE DEF n
  <2>. QED  BY <1>4, <2>1
<1>7. s[1] = First /\ s[n] = Memory[k]
  <2>1. 1 \in 1..n /\ n \in 1..n /\ start + 1 - 1 = start /\ start + n - 1 = k
    BY <1>1
  <2>. HIDE DEF n
  <2>. QED  BY <1>1, <1>4, <2>1
<1>8. n > 1 => s[2] = Memory[start + 1]
  <2>1. n > 1 => 2 \in 1..n
    BY <1>2
  <2>2. start + 2 - 1 = start + 1
    BY <1>1
  <2>. HIDE DEF n
  <2>. QED  BY <1>4, <2>1, <2>2
<1>9. /\ (n = 1 <=> k = start) /\ (n = 2 <=> k = start + 1) /\ (n > 1 <=> k > start)
  BY <1>1
<1>10. s = <<".", ".">> <=> k = start + 1 /\ First = "." /\ Memory[start + 1] = "."
  <2>. HIDE DEF n
  <2>1. ASSUME s = <<".", ".">>  PROVE k = start + 1 /\ First = "." /\ Memory[start + 1] = "."
    <3>1. Len(s) = 2 /\ s[1] = "." /\ s[2] = "."
      BY <2>1
    <3>. QED  BY <1>2, <1>4, <1>7, <1>8, <1>9, <3>1
  <2>2. ASSUME k = start + 1, First = ".", Memory[start + 1] = "."  PROVE s = <<".", ".">>
    <3>1. Len(s) = 2 /\ s[1] = "." /\ s[2] = "."
      BY <1>2, <1>4, <1>7, <1>8, <1>9, <2>2
    <3>. QED  BY <1>3, <3>1
  <2>. QED  BY <2>1, <2>2
<1>11. Len(s) = 1 /\ s[1] \in DOMAIN Punctuation <=> k = start /\ First \in DOMAIN Punctuation
  <2>. HIDE DEF n
  <2>. QED  BY <1>4, <1>7, <1>9
<1>12. ASSUME NEW C  PROVE Range(s) \subseteq C <=> \A i \in start..k : Memory[i] \in C
  <2>. HIDE DEF n
  <2>1. ASSUME Range(s) \subseteq C, NEW i \in start..k  PROVE Memory[i] \in C
    BY <1>4, <1>5, <2>1 DEF Range
  <2>2. ASSUME \A i \in start..k : Memory[i] \in C, NEW i \in 1..n  PROVE s[i] \in C
    BY <1>6, <2>2
  <2>3. (\A i \in start..k : Memory[i] \in C) => Range(s) \subseteq C
    BY <1>4, <2>2 DEF Range
  <2>. QED  BY <2>1, <2>3
<1>13. Scanner!IsWord(s) <=> First \notin Digits /\ \A i \in start..k : Memory[i] \in WordChars
  <2>1. Scanner!WordChars = WordChars /\ Scanner!Digits = Digits
    BY DEF Scanner!WordChars, WordChars, Scanner!Digits, Digits
  <2>2. Scanner!IsWord(s) <=> s # <<>> /\ s[1] \notin Digits /\ Range(s) \subseteq WordChars
    BY <2>1 DEF Scanner!IsWord, Scanner!Range, Range
  <2>. HIDE DEF n
  <2>. QED  BY <1>4, <1>7, <1>12, <2>2
<1>14. s \in DOMAIN KeywordKinds => \A i \in start..k : Memory[i] \in Letters
  <2>1. s \in DOMAIN KeywordKinds => Range(s) \subseteq UNION {Range(w) : w \in DOMAIN KeywordKinds}
    OBVIOUS
  <2>2. s \in DOMAIN KeywordKinds => Range(s) \subseteq Letters
    BY <2>1, LettersAssumption
  <2>. QED  BY <1>12, <2>2
<1>15. Scanner!IsString(s) <=> /\ k > start /\ First = Quote /\ Memory[k] = Quote
                               /\ \A i \in start + 1..k - 1 : Memory[i] # Quote
  <2>1. Scanner!IsString(s) <=> /\ n > 1 /\ s[1] = Quote /\ s[n] = Quote
                                /\ \A j \in 2..n - 1 : s[j] # Quote
    <3>. HIDE DEF n
    <3>. QED  BY <1>4 DEF Scanner!IsString, Quote
  <2>2. ASSUME \A j \in 2..n - 1 : s[j] # Quote, NEW i \in start + 1..k - 1  PROVE Memory[i] # Quote
    <3>1. i - start + 1 \in 2..n - 1 /\ i \in start..k
      BY <1>1
    <3>. HIDE DEF n
    <3>. QED  BY <1>5, <2>2, <3>1
  <2>3. ASSUME \A i \in start + 1..k - 1 : Memory[i] # Quote, NEW j \in 2..n - 1  PROVE s[j] # Quote
    <3>1. start + j - 1 \in start + 1..k - 1 /\ j \in 1..n
      BY <1>1
    <3>. HIDE DEF n
    <3>. QED  BY <1>6, <2>3, <3>1
  <2>. HIDE DEF n
  <2>. QED  BY <1>7, <1>9, <2>1, <2>2, <2>3
<1>16. Scanner!IsNumeral(s) <=> NumeralTo(k)
  BY NumeralIs
<1>. QED  BY <1>10, <1>11, <1>13, <1>14, <1>15, <1>16

\* The class of s, from the languages it is in.
LEMMA ClassFrom ==
  ASSUME NEW s, NEW mark \in BOOLEAN, NEW keyword \in BOOLEAN, NEW named \in BOOLEAN,
         NEW numeral \in BOOLEAN, NEW string \in BOOLEAN,
         mark <=> s = <<".", ".">> \/ (Len(s) = 1 /\ s[1] \in DOMAIN Punctuation),
         keyword <=> s \in DOMAIN KeywordKinds,
         named <=> Scanner!IsWord(s),
         numeral <=> Scanner!IsNumeral(s),
         string <=> Scanner!IsString(s)
  PROVE  /\ mark /\ ~keyword /\ ~named /\ ~numeral /\ ~string => Scanner!Class(s) = "mark"
         /\ ~mark /\ keyword /\ ~numeral /\ ~string => Scanner!Class(s) = "keyword"
         /\ ~mark /\ ~keyword /\ named /\ ~numeral /\ ~string => Scanner!Class(s) = "name"
         /\ ~mark /\ ~keyword /\ ~named /\ numeral /\ ~string => Scanner!Class(s) = "number"
         /\ ~mark /\ ~keyword /\ ~named /\ ~numeral /\ string => Scanner!Class(s) = "string"
         /\ ~mark /\ ~keyword /\ ~named /\ ~numeral /\ ~string => Scanner!Class(s) = "none"
BY DEF Scanner!Class

\* What the first character says of the languages.
LEMMA FirstDecides ==
  ASSUME Scanned, OnText, phase = "scanning", NEW k \in start..Final, NEW s, s = Part(start, k)
  PROVE  /\ Scanner!IsWord(s) => First \in Letters \union {"_"}
         /\ s \in DOMAIN KeywordKinds => First \in Letters /\ Scanner!IsWord(s)
         /\ NumeralTo(k) => First \in Digits
         /\ Scanner!IsString(s) => First = Quote
         /\ First \in DOMAIN Punctuation =>
              First # "." /\ First # Quote /\ First \notin Digits /\ First \notin Letters \union {"_"}
         /\ First \in Digits => First # "." /\ First # Quote /\ First \notin Letters \union {"_"}
         /\ First = "." => First # Quote /\ First \notin Letters \union {"_"}
         /\ First = Quote => First \notin Letters \union {"_"}
<1>1. start \in Int /\ k \in Int /\ start \in start..k /\ Memory[start] = First
  BY TextFacts, StartAgrees DEF First
<1>2. /\ Scanner!IsWord(s) <=> First \notin Digits /\ \A i \in start..k : Memory[i] \in WordChars
      /\ s \in DOMAIN KeywordKinds => \A i \in start..k : Memory[i] \in Letters
      /\ Scanner!IsString(s) => First = Quote
  BY PartFacts
<1>3. Scanner!IsWord(s) => First \in Letters \union {"_"}
  <2>1. Scanner!IsWord(s) => First \in WordChars \ Digits
    BY <1>1, <1>2
  <2>. QED  BY <2>1 DEF WordChars
<1>4. /\ Letters \intersect Digits = {} /\ Letters \intersect DOMAIN Punctuation = {}
      /\ "." \notin Letters /\ Quote \notin Letters
  BY LettersAssumption
<1>5. s \in DOMAIN KeywordKinds => First \in Letters /\ Scanner!IsWord(s)
  <2>1. Letters \subseteq WordChars
    BY DEF WordChars
  <2>. QED  BY <1>1, <1>2, <1>4, <2>1
<1>6. NumeralTo(k) => First \in Digits
  <2>1. "0" \in Digits
    BY DEF Digits
  <2>2. ASSUME NEW p \in start..k, AllDigits(start, p)  PROVE First \in Digits
    <3>1. start \in start..p
      BY <1>1
    <3>. QED  BY <1>1, <2>2, <3>1 DEF AllDigits
  <2>. QED  BY <2>1, <2>2 DEF NumeralTo
<1>7. /\ First \in DOMAIN Punctuation => First # "." /\ First # Quote /\ First \notin Digits /\ First # "_"
      /\ First \in Digits => First # "." /\ First # Quote /\ First # "_"
      /\ First = "." => First # Quote /\ First # "_"
      /\ First = Quote => First # "_"
  BY DEF Digits, Quote, Punctuation
<1>. QED  BY <1>2, <1>3, <1>4, <1>5, <1>6, <1>7

LEMMA ClassIs ==
  ASSUME Scanned, OnText, phase = "scanning", NEW k \in start..Final
  PROVE  /\ First \in DOMAIN Punctuation =>
              Scanner!Class(Part(start, k)) = IF k = start THEN "mark" ELSE "none"
         /\ First = "." =>
              Scanner!Class(Part(start, k)) = IF k = start + 1 /\ Memory[start + 1] = "." THEN "mark" ELSE "none"
         /\ First \in Digits =>
              Scanner!Class(Part(start, k)) = IF NumeralTo(k) THEN "number" ELSE "none"
         /\ First = Quote =>
              Scanner!Class(Part(start, k)) =
                IF k > start /\ Memory[k] = Quote /\ \A i \in start + 1..k - 1 : Memory[i] # Quote
                THEN "string" ELSE "none"
         /\ First \in Letters \union {"_"} =>
              Scanner!Class(Part(start, k)) =
                IF \E i \in start..k : Memory[i] \notin WordChars THEN "none"
                ELSE IF Part(start, k) \in DOMAIN KeywordKinds THEN "keyword" ELSE "name"
         /\ First \notin DOMAIN Punctuation \union {".", Quote} \union Digits \union Letters \union {"_"} =>
              Scanner!Class(Part(start, k)) = "none"
<1>. DEFINE s == Part(start, k)
<1>. HIDE DEF s
<1>1. s = Part(start, k)
  BY DEF s
<1>2. /\ s = <<".", ".">> <=> k = start + 1 /\ First = "." /\ Memory[start + 1] = "."
      /\ Len(s) = 1 /\ s[1] \in DOMAIN Punctuation <=> k = start /\ First \in DOMAIN Punctuation
      /\ Scanner!IsWord(s) <=> First \notin Digits /\ \A i \in start..k : Memory[i] \in WordChars
      /\ Scanner!IsNumeral(s) <=> NumeralTo(k)
      /\ Scanner!IsString(s) <=> /\ k > start /\ First = Quote /\ Memory[k] = Quote
                                 /\ \A i \in start + 1..k - 1 : Memory[i] # Quote
  BY <1>1, PartFacts
<1>3. /\ Scanner!IsWord(s) => First \in Letters \union {"_"}
      /\ s \in DOMAIN KeywordKinds => First \in Letters /\ Scanner!IsWord(s)
      /\ NumeralTo(k) => First \in Digits
      /\ Scanner!IsString(s) => First = Quote
      /\ First \in DOMAIN Punctuation =>
           First # "." /\ First # Quote /\ First \notin Digits /\ First \notin Letters \union {"_"}
      /\ First \in Digits => First # "." /\ First # Quote /\ First \notin Letters \union {"_"}
      /\ First = "." => First # Quote /\ First \notin Letters \union {"_"}
      /\ First = Quote => First \notin Letters \union {"_"}
  BY <1>1, FirstDecides
<1>4. First = "." => First \notin DOMAIN Punctuation
  BY PunctuationIs
<1>. DEFINE mark == s = <<".", ".">> \/ (Len(s) = 1 /\ s[1] \in DOMAIN Punctuation)
            keyword == s \in DOMAIN KeywordKinds
            named == Scanner!IsWord(s)
            numeral == Scanner!IsNumeral(s)
            string == Scanner!IsString(s)
            C == Scanner!Class(s)
<1>5. /\ mark /\ ~keyword /\ ~named /\ ~numeral /\ ~string => C = "mark"
      /\ ~mark /\ keyword /\ ~numeral /\ ~string => C = "keyword"
      /\ ~mark /\ ~keyword /\ named /\ ~numeral /\ ~string => C = "name"
      /\ ~mark /\ ~keyword /\ ~named /\ numeral /\ ~string => C = "number"
      /\ ~mark /\ ~keyword /\ ~named /\ ~numeral /\ string => C = "string"
      /\ ~mark /\ ~keyword /\ ~named /\ ~numeral /\ ~string => C = "none"
  BY ClassFrom
<1>6. /\ mark <=> \/ k = start + 1 /\ First = "." /\ Memory[start + 1] = "."
                  \/ k = start /\ First \in DOMAIN Punctuation
      /\ keyword => First \in Letters /\ named
      /\ named => First \in Letters \union {"_"}
      /\ named <=> First \notin Digits /\ ~(\E i \in start..k : Memory[i] \notin WordChars)
      /\ numeral <=> NumeralTo(k)
      /\ numeral => First \in Digits
      /\ string <=> /\ k > start /\ First = Quote /\ Memory[k] = Quote
                    /\ \A i \in start + 1..k - 1 : Memory[i] # Quote
  BY <1>2, <1>3
<1>. HIDE DEF mark, keyword, named, numeral, string, C
<1>7. First \in DOMAIN Punctuation => C = IF k = start THEN "mark" ELSE "none"
  BY <1>3, <1>5, <1>6
<1>8. First = "." => C = IF k = start + 1 /\ Memory[start + 1] = "." THEN "mark" ELSE "none"
  BY <1>3, <1>4, <1>5, <1>6
<1>9. First \in Digits => C = IF NumeralTo(k) THEN "number" ELSE "none"
  BY <1>3, <1>5, <1>6
<1>10. First = Quote =>
         C = IF k > start /\ Memory[k] = Quote /\ \A i \in start + 1..k - 1 : Memory[i] # Quote
             THEN "string" ELSE "none"
  BY <1>3, <1>5, <1>6
<1>11. First \in Letters \union {"_"} =>
         C = IF \E i \in start..k : Memory[i] \notin WordChars THEN "none"
             ELSE IF keyword THEN "keyword" ELSE "name"
  BY <1>3, <1>5, <1>6
<1>12. First \notin DOMAIN Punctuation \union {".", Quote} \union Digits \union Letters \union {"_"} => C = "none"
  BY <1>3, <1>5, <1>6
<1>. QED  BY <1>7, <1>8, <1>9, <1>10, <1>11, <1>12 DEF C, keyword, s

-----------------------------------------------------------------------------
\* Every call of akw_lexer_next is a step of the abstract scanner.

LEMMA TextStays ==
  ASSUME UNCHANGED bytes, phase # "reading", phase' # "reading", lrc # "Range", lrc' # "Range"
  PROVE  Text' = Text
BY DEF Text, TextEnd

\* Where the abstract scanner's token ends.
LEMMA LongestIs ==
  ASSUME Scanned, OnText, phase = "scanning", NEW e \in start..Final,
         Scanner!Class(Part(start, e)) # "none",
         \A k \in e + 1..Final : Scanner!Class(Part(start, k)) = "none"
  PROVE  Scanner!Ends # {} /\ Scanner!Longest = e
<1>1. Final \in Nat /\ start \in 1..Final + 1 /\ Scanner!Start = start
  BY TextFacts, StartAgrees
<1>. DEFINE E == {j \in start..Final : Scanner!Class(Part(start, j)) # "none"}
<1>2. Scanner!Ends = E
  BY <1>1 DEF Scanner!Ends, Part, Final
<1>3. e \in E
  OBVIOUS
<1>4. \A k \in E : k \in Int /\ k <= e
  <2>1. ASSUME NEW k \in E  PROVE k \in Int /\ k <= e
    <3>1. k \in start..Final /\ k \notin e + 1..Final
      OBVIOUS
    <3>. QED  BY <1>1, <3>1
  <2>. QED  BY <2>1
<1>. HIDE DEF E
<1>5. Scanner!Longest = CHOOSE j \in E : \A k \in E : k <= j
  BY <1>2 DEF Scanner!Longest
<1>6. \A j \in E : (\A k \in E : k <= j) => j = e
  BY <1>3, <1>4
<1>. QED  BY <1>2, <1>3, <1>4, <1>5, <1>6

\* What a token made of a part of the text says.
LEMMA TokenSpans ==
  ASSUME NEW kind, NEW end, NEW quotes, NEW last \in Int, Token(kind, end, quotes),
         quotes = IF kind = "String" THEN 1 ELSE 0, start \in Int, start >= 1, end = last + 1
  PROVE  /\ token'.kind = kind /\ token' # NoToken
         /\ FirstOf(token)' = start /\ LastOf(token)' = last
         /\ ClassOf(token.kind)' = ClassOf(kind)
         /\ curr' = end /\ lrc' = lrc
         /\ phase' = IF kind = "Eof" THEN "done" ELSE "scanning"
<1>. DEFINE here == Moved(curr, start)
            there == Moved(curr, end)
            chars == start + quotes
            length == end - start - 2 * quotes
<1>1. /\ token' = [kind |-> kind, ln |-> here.ln, col |-> here.col, chars |-> chars, length |-> length]
      /\ curr' = end /\ lrc' = lrc
      /\ phase' = IF kind = "Eof" THEN "done" ELSE "scanning"
  BY DEF Token
<1>2. chars # 0 /\ chars - quotes = start /\ chars + length - 1 + quotes = last
  <2>1. quotes \in {0, 1}
    OBVIOUS
  <2>. QED  BY <2>1
<1>. HIDE DEF here, there, chars, length
<1>3. token'.kind = kind /\ token'.chars = chars /\ token'.length = length
  BY <1>1
<1>4. token' # NoToken
  BY <1>2, <1>3 DEF NoToken
<1>5. Quotes(token)' = quotes
  BY <1>3 DEF Quotes
<1>6. FirstOf(token)' = chars - quotes
  <2>1. FirstOf(token)' = token'.chars - Quotes(token)'
    BY DEF FirstOf
  <2>. QED  BY <1>3, <1>5, <2>1
<1>7. LastOf(token)' = chars + length - 1 + quotes
  <2>1. LastOf(token)' = token'.chars + token'.length - 1 + Quotes(token)'
    BY DEF LastOf
  <2>. QED  BY <1>3, <1>5, <2>1
<1>8. ClassOf(token.kind)' = ClassOf(kind)
  BY <1>3 DEF ClassOf
<1>. QED  BY <1>1, <1>2, <1>3, <1>4, <1>6, <1>7, <1>8

LEMMA SplitsOff ==
  ASSUME Scanned, OnText, phase = "scanning", Scans, NEW kind, NEW e \in start..Final, NEW quotes,
         quotes = IF kind = "String" THEN 1 ELSE 0, kind # "Eof", Token(kind, e + 1, quotes),
         Scanner!Class(Part(start, e)) = ClassOf(kind), ClassOf(kind) # "none",
         \A k \in e + 1..Final : Scanner!Class(Part(start, k)) = "none",
         ClassOf(kind) \in {"keyword", "name", "number"} => Memory[e + 1] \notin WordChars
  PROVE  Scanner!Split /\ OnText'
<1>1. /\ Final \in Nat /\ start \in 1..Final + 1 /\ Scanner!Start = start
      /\ \A k \in 1..Final : Text[k] = Memory[k] /\ Memory[k] # NUL
  BY TextFacts, StartAgrees
<1>2. UNCHANGED <<bytes, behind>> /\ lrc = "Ok"
  BY DEF Scans, OnText
<1>. DEFINE end == e + 1
<1>3. /\ lrc' = lrc /\ phase' = "scanning" /\ curr' = end
      /\ token' # NoToken /\ FirstOf(token)' = start /\ LastOf(token)' = e
      /\ ClassOf(token.kind)' = ClassOf(kind)
  <2>1. start \in Int /\ start >= 1 /\ e \in Int /\ end = e + 1 /\ Token(kind, end, quotes)
    BY <1>1
  <2>. HIDE DEF end
  <2>. QED  BY <2>1, TokenSpans
<1>4. Text' = Text
  BY <1>2, <1>3, TextStays
<1>5. Scanner!Ends # {} /\ Scanner!Longest = e
  BY LongestIs
<1>6. Scanner!Class(SubSeq(Text, Scanner!Start, Scanner!Longest)) = ClassOf(kind)
  BY <1>1, <1>5 DEF Part
<1>7. ~Scanner!CutShort(Scanner!Longest)
  <2>1. Scanner!WordChars = WordChars
    BY DEF Scanner!WordChars, WordChars, Scanner!Digits, Digits
  <2>2. e < Final => Text[e + 1] = Memory[e + 1]
    BY <1>1
  <2>3. Scanner!CutShort(Scanner!Longest) =>
          ClassOf(kind) \in {"keyword", "name", "number"} /\ e < Final /\ Text[e + 1] \in WordChars
    BY <1>5, <1>6, <2>1 DEF Scanner!CutShort, Final
  <2>. QED  BY <2>2, <2>3
<1>8. Scanner!Split
  <2>1. e + 1 - 1 = e
    BY <1>1
  <2>. QED
    BY <1>1, <1>2, <1>4, <1>5, <1>6, <1>7, <1>3, <2>1 DEF Scanner!Split, Scanner!Span
<1>9. OnText'
  <2>1. ASSUME NEW k \in 1..e  PROVE Memory[k] # NUL
    BY <1>1
  <2>2. Memory' = Memory /\ e + 1 - 1 = e
    BY <1>1, <1>2 DEF Memory
  <2>. QED  BY <1>2, <1>3, <2>1, <2>2 DEF OnText
<1>. QED  BY <1>8, <1>9

LEMMA IsRejected ==
  ASSUME Scanned, OnText, phase = "scanning", Scans, LexicalError, start <= Final,
         \/ \A k \in start..Final : Scanner!Class(Part(start, k)) = "none"
         \/ \E e \in start..Final :
              /\ Scanner!Class(Part(start, e)) \in {"keyword", "name", "number"}
              /\ Memory[e + 1] \in WordChars
              /\ \A k \in e + 1..Final : Scanner!Class(Part(start, k)) = "none"
  PROVE  Scanner!Reject /\ OnText'
<1>1. /\ Final \in Nat /\ start \in 1..Final + 1 /\ Scanner!Start = start
      /\ \A k \in 1..Final : Text[k] = Memory[k] /\ Memory[k] # NUL
      /\ Memory[Final + 1] = NUL
  BY TextFacts, StartAgrees
<1>2. /\ UNCHANGED <<bytes, token>> /\ lrc = "Ok" /\ lrc' = "Lexical" /\ phase' = "done" /\ curr' = start
  BY DEF Scans, OnText, LexicalError
<1>3. Text' = Text
  BY <1>2, TextStays
<1>4. Scanner!Ends = {} \/ Scanner!CutShort(Scanner!Longest)
  <2>1. CASE \A k \in start..Final : Scanner!Class(Part(start, k)) = "none"
    BY <1>1, <2>1 DEF Scanner!Ends, Part, Final
  <2>2. ASSUME NEW e \in start..Final,
               Scanner!Class(Part(start, e)) \in {"keyword", "name", "number"},
               Memory[e + 1] \in WordChars,
               \A k \in e + 1..Final : Scanner!Class(Part(start, k)) = "none"
        PROVE  Scanner!CutShort(Scanner!Longest)
    <3>1. Scanner!Longest = e
      <4>1. Scanner!Class(Part(start, e)) # "none"
        BY <2>2
      <4>. QED  BY <2>2, <4>1, LongestIs
    <3>2. e < Final /\ Text[e + 1] = Memory[e + 1]
      <4>1. NUL \notin WordChars
        BY CharactersApart
      <4>2. e # Final
        BY <1>1, <2>2, <4>1
      <4>. QED  BY <1>1, <4>2
    <3>3. Scanner!WordChars = WordChars
      BY DEF Scanner!WordChars, WordChars, Scanner!Digits, Digits
    <3>. QED  BY <1>1, <2>2, <3>1, <3>2, <3>3 DEF Scanner!CutShort, Part, Final
  <2>. QED  BY <2>1, <2>2
<1>5. Scanner!Reject
  <2>1. ClassOf(token.kind)' = ClassOf(token.kind) /\ FirstOf(token)' = FirstOf(token) /\ LastOf(token)' = LastOf(token)
    BY <1>2 DEF ClassOf, FirstOf, LastOf, Quotes
  <2>. QED  BY <1>1, <1>2, <1>3, <1>4, <2>1 DEF Scanner!Reject, Final
<1>. QED  BY <1>2, <1>5 DEF OnText

\* Reading the input, and its end or refusal.
LEMMA ReadingSupplies ==
  ASSUME Scanned, OnText, phase = "reading", NEW c, NEW next \in {"reading", "scanning"}, Write(c, next)
  PROVE  (Scanner!Supply \/ UNCHANGED Scanner!vars) /\ OnText'
<1>1. /\ UNCHANGED <<curr, token>> /\ curr = 1 /\ token = NoToken /\ lrc = "Ok" /\ Text = <<>>
  BY DEF Write, scanVars, Scanned, OnText, Text
<1>2. ClassOf(token.kind)' = ClassOf(token.kind) /\ FirstOf(token)' = FirstOf(token) /\ LastOf(token)' = LastOf(token)
  BY <1>1 DEF ClassOf, FirstOf, LastOf, Quotes
<1>3. CASE CannotHold(buf, buf.count + 1)
  <2>1. lrc' = "Range" /\ phase' = "done"
    BY <1>3 DEF Write
  <2>2. Text' = <<>>
    BY <2>1 DEF Text
  <2>. QED  BY <1>1, <1>2, <2>1, <2>2 DEF Scanner!Supply, OnText
<1>4. CASE ~CannotHold(buf, buf.count + 1)
  <2>1. phase' = next /\ lrc' = "Ok"
    BY <1>1, <1>4 DEF Write
  <2>2. OnText'
    BY <1>1, <2>1 DEF OnText
  <2>3. CASE next = "reading"
    <3>1. Text' = Text
      BY <1>1, <2>1, <2>3 DEF Text
    <3>. QED  BY <1>1, <1>2, <2>1, <2>2, <2>3, <3>1 DEF Scanner!vars
  <2>4. CASE next = "scanning"
    BY <1>1, <1>2, <2>1, <2>2, <2>4 DEF Scanner!Supply
  <2>. QED  BY <2>3, <2>4
<1>. QED  BY <1>3, <1>4

LEMMA KindClasses ==
  /\ \A c \in DOMAIN Punctuation : ClassOf(Punctuation[c]) = "mark"
  /\ \A w \in DOMAIN KeywordKinds : ClassOf(KeywordKinds[w]) = "keyword"
  /\ ClassOf("DotDot") = "mark" /\ ClassOf("Int") = "number" /\ ClassOf("Number") = "number"
  /\ ClassOf("Name") = "name" /\ ClassOf("String") = "string" /\ ClassOf("Eof") = "end"
<1>. DEFINE K == {KeywordKinds[w] : w \in DOMAIN KeywordKinds}
            M == {Punctuation[c] : c \in DOMAIN Punctuation}
<1>1. \A c \in DOMAIN Punctuation :
        Punctuation[c] \in {"Comma", "Semicolon", "LParen", "RParen", "LBracket", "RBracket", "LBrace",
                            "RBrace", "Amp", "Eq", "Plus", "Minus", "Star", "Slash", "Percent"}
  BY ZenonT(40) DEF Punctuation
<1>2. \A w \in DOMAIN KeywordKinds :
        KeywordKinds[w] \in {"FalseKw", "InoutKw", "LetKw", "NilKw", "ReturnKw", "TrueKw"}
  <2>. DEFINE Kind(w) == CASE w[1] = "f" -> "FalseKw" [] w[1] = "i" -> "InoutKw" [] w[1] = "l" -> "LetKw"
                           [] w[1] = "n" -> "NilKw" [] w[1] = "r" -> "ReturnKw" [] w[1] = "t" -> "TrueKw"
              W == DOMAIN KeywordKinds
  <2>1. \A w \in W : KeywordKinds[w] = Kind(w)
    BY DEF KeywordKinds
  <2>2. \A w \in W : w[1] \in {"f", "i", "l", "n", "r", "t"}
    BY DEF KeywordKinds
  <2>3. \A w : w[1] \in {"f", "i", "l", "n", "r", "t"} =>
               Kind(w) \in {"FalseKw", "InoutKw", "LetKw", "NilKw", "ReturnKw", "TrueKw"}
    OBVIOUS
  <2>. HIDE DEF W, Kind
  <2>. QED  BY <2>1, <2>2, <2>3 DEF W
<1>3. \A x \in K : x \in {"FalseKw", "InoutKw", "LetKw", "NilKw", "ReturnKw", "TrueKw"}
  BY <1>2
<1>4. \A x \in M : x \in {"Comma", "Semicolon", "LParen", "RParen", "LBracket", "RBracket", "LBrace",
                          "RBrace", "Amp", "Eq", "Plus", "Minus", "Star", "Slash", "Percent"}
  BY <1>1
<1>5. /\ \A c \in DOMAIN Punctuation : Punctuation[c] \in M
      /\ \A w \in DOMAIN KeywordKinds : KeywordKinds[w] \in K
  OBVIOUS
<1>6. \A kind : ClassOf(kind) =
        CASE kind \in {"Int", "Number"} -> "number" [] kind \in K -> "keyword"
          [] kind \in M \union {"DotDot"} -> "mark"
          [] kind = "Name" -> "name" [] kind = "String" -> "string"
          [] kind = "Eof" -> "end" [] OTHER -> "none"
  BY Zenon DEF ClassOf
<1>. HIDE DEF K, M
<1>7. \A x \in M : ClassOf(x) = "mark"
  BY <1>3, <1>4, <1>6
<1>8. \A x \in K : ClassOf(x) = "keyword"
  BY <1>3, <1>4, <1>6
<1>9. /\ ClassOf("DotDot") = "mark" /\ ClassOf("Int") = "number" /\ ClassOf("Number") = "number"
      /\ ClassOf("Name") = "name" /\ ClassOf("String") = "string" /\ ClassOf("Eof") = "end"
  BY <1>3, <1>4, <1>6
<1>. QED  BY <1>5, <1>7, <1>8, <1>9

\* What begins with another character than the NUL is in the text.
LEMMA FirstInText ==
  ASSUME Scanned, OnText, phase = "scanning"
  PROVE  IF First = NUL THEN start = Final + 1 ELSE start \in 1..Final
<1>1. /\ Final \in Nat /\ start \in 1..Final + 1 /\ Memory[Final + 1] = NUL
      /\ \A k \in 1..Final : Memory[k] # NUL
  BY TextFacts, StartAgrees
<1>. QED  BY <1>1 DEF First

\* Up to a character that no NUL comes before, it is the text.
LEMMA StaysInText ==
  ASSUME Scanned, OnText, phase = "scanning", First # NUL, NEW e \in Nat, e >= start,
         \A k \in start + 1..e : Memory[k] # NUL
  PROVE  e \in start..Final /\ e \in 1..Final
<1>1. /\ Final \in Nat /\ start \in 1..Final /\ Memory[Final + 1] = NUL
  BY TextFacts, FirstInText
<1>2. Final + 1 \notin start + 1..e
  BY <1>1
<1>. QED  BY <1>1, <1>2

LEMMA EofSplits ==
  ASSUME Scanned, OnText, phase = "scanning", MatchEof
  PROVE  Scanner!Accept /\ OnText'
<1>1. /\ First = NUL /\ start = Final + 1 /\ Final \in Nat /\ Scanner!Start = start
  BY TextFacts, StartAgrees, FirstInText DEF MatchEof
<1>2. UNCHANGED bytes /\ lrc = "Ok"
  BY DEF MatchEof, Scans, OnText
<1>. DEFINE end == start + 1
<1>3. /\ lrc' = lrc /\ phase' = "done" /\ curr' = end
      /\ token' # NoToken /\ FirstOf(token)' = start /\ LastOf(token)' = start
      /\ ClassOf(token.kind)' = "end"
  <2>1. start \in Int /\ start >= 1 /\ end = start + 1 /\ Token("Eof", end, 0)
    BY <1>1 DEF MatchEof
  <2>. DEFINE last == start
  <2>2. last \in Int /\ end = last + 1 /\ last = start
    BY <2>1
  <2>. HIDE DEF end, last
  <2>. QED  BY <2>1, <2>2, KindClasses, TokenSpans
<1>4. Text' = Text
  BY <1>2, <1>3, TextStays
<1>5. Scanner!Accept
  <2>1. start + 1 - 1 = start /\ start > Len(Text)
    BY <1>1 DEF Final
  <2>. QED  BY <1>1, <1>2, <1>3, <1>4, <2>1 DEF Scanner!Accept, Scanner!Span
<1>. QED  BY <1>2, <1>3, <1>5 DEF OnText

LEMMA MarkSplits ==
  ASSUME Scanned, OnText, phase = "scanning", MatchChar \/ MatchChars
  PROVE  Scanner!Split /\ OnText'
<1>1. Final \in Nat /\ start \in Int
  BY TextFacts, StartAgrees
<1>2. CASE MatchChar
  <2>1. start \in 1..Final /\ start \in start..Final
    BY <1>1, <1>2, PunctuationIs, FirstInText DEF MatchChar
  <2>2. Scanner!Class(Part(start, start)) = "mark"
    BY <1>2, <2>1, ClassIs DEF MatchChar
  <2>3. \A k \in start + 1..Final : Scanner!Class(Part(start, k)) = "none"
    <3>1. ASSUME NEW k \in start + 1..Final  PROVE k \in start..Final /\ k # start
      BY <1>1
    <3>. QED  BY <1>2, <3>1, ClassIs DEF MatchChar
  <2>4. ClassOf(Punctuation[First]) = "mark" /\ Punctuation[First] # "String" /\ Punctuation[First] # "Eof"
    BY <1>2, KindClasses, PunctuationIs DEF MatchChar, SpecialKinds
  <2>. QED  BY <1>2, <2>1, <2>2, <2>3, <2>4, SplitsOff DEF MatchChar
<1>3. CASE MatchChars
  <2>. DEFINE e == start + 1
  <2>1. First = "." /\ Memory[e] = "." /\ First # NUL /\ "." # NUL
    BY <1>3, CharactersApart DEF MatchChars, IsDotDot
  <2>2. e \in start..Final /\ e + 1 = start + 2
    <3>1. start \in 1..Final
      BY <2>1, FirstInText
    <3>2. e \in Nat /\ e >= start /\ \A k \in start + 1..e : k = e
      BY <1>1, <3>1
    <3>. HIDE DEF e
    <3>3. e \in start..Final
      BY <2>1, <3>2, StaysInText
    <3>. QED  BY <1>1, <3>3 DEF e
  <2>3. Scanner!Class(Part(start, e)) = "mark"
    BY <2>1, <2>2, ClassIs
  <2>4. \A k \in e + 1..Final : Scanner!Class(Part(start, k)) = "none"
    <3>1. ASSUME NEW k \in e + 1..Final  PROVE k \in start..Final /\ k # start + 1
      BY <1>1
    <3>. QED  BY <2>1, <3>1, ClassIs
  <2>5. Token("DotDot", e + 1, 0) /\ Scans
    BY <1>3, <2>2 DEF MatchChars
  <2>. HIDE DEF e
  <2>. QED  BY <2>2, <2>3, <2>4, <2>5, KindClasses, SplitsOff
<1>. QED  BY <1>2, <1>3

\* The end of the longest numeral, for the abstract scanner.
LEMMA NumeralSplits ==
  ASSUME Scanned, OnText, phase = "scanning", First \in Digits, NEW e, e = NumeralEnd - 1
  PROVE  /\ e \in start..Final /\ e + 1 = NumeralEnd
         /\ Scanner!Class(Part(start, e)) = "number"
         /\ \A k \in e + 1..Final : Scanner!Class(Part(start, k)) = "none"
<1>1. Filled /\ Ahead /\ Final \in Nat /\ start \in Nat
  BY TextFacts, StartAgrees DEF Scanned
<1>2. NumeralEnd \in start + 1..Size /\ Size \in Nat
  BY <1>1, NumeralEnds, NumberParts
<1>3. e \in Nat /\ e + 1 = NumeralEnd
  BY <1>1, <1>2
<1>4. NumeralTo(e)
  BY <1>1, IsNumeralThere
<1>5. e \in start..Final
  BY <1>3, <1>4, NumeralInText
<1>6. \A k \in e + 1..Final : k \in start..Final /\ ~NumeralTo(k)
  <2>1. ASSUME NEW k \in e + 1..Final  PROVE k \in Nat /\ k >= NumeralEnd /\ k \in start..Final
    BY <1>1, <1>2, <1>3
  <2>. QED  BY <1>1, <2>1, NoNumeralBeyond
<1>. QED  BY <1>3, <1>4, <1>5, <1>6, ClassIs

LEMMA NumberSplits ==
  ASSUME Scanned, OnText, phase = "scanning", MatchNumber
  PROVE  Scanner!Split /\ OnText'
<1>1. Filled /\ Ahead /\ First \in Digits /\ IsNumber
  BY DEF Scanned, MatchNumber, IsNumber
<1>. DEFINE e == NumeralEnd - 1
<1>2. /\ e \in start..Final /\ e + 1 = NumeralEnd
      /\ Scanner!Class(Part(start, e)) = "number"
      /\ \A k \in e + 1..Final : Scanner!Class(Part(start, k)) = "none"
  BY <1>1, NumeralSplits
<1>3. NumeralEnd = (IF HasPoint /\ ~HasFraction THEN IntegerEnd ELSE NumberEnd) /\ Memory[NumeralEnd] \notin WordChars
  BY <1>1, NumeralEnds
<1>4. Scans /\ Token(NumberKind, e + 1, 0)
  BY <1>2, <1>3 DEF MatchNumber
<1>5. NumberKind # "String" /\ NumberKind # "Eof" /\ ClassOf(NumberKind) = "number"
  BY KindClasses DEF NumberKind
<1>. HIDE DEF e
<1>. QED  BY <1>2, <1>3, <1>4, <1>5, SplitsOff

LEMMA StringSplits ==
  ASSUME Scanned, OnText, phase = "scanning", MatchString
  PROVE  (Scanner!Split \/ Scanner!Reject) /\ OnText'
<1>1. /\ Filled /\ Ahead /\ First = Quote /\ First # NUL /\ Quote # NUL
      /\ Final \in Nat /\ start \in 1..Final /\ start \in Nat
  <2>1. Filled /\ Ahead /\ First = Quote /\ Quote # NUL
    BY DEF Scanned, MatchString, Quote, NUL
  <2>. QED  BY <2>1, TextFacts, FirstInText
<1>2. /\ StringEnd \in start + 1..Size /\ Size \in Nat /\ Memory[StringEnd] \in {Quote, NUL}
      /\ \A k \in start + 1..StringEnd - 1 : Memory[k] \notin {Quote, NUL}
  BY <1>1, StringFacts, MemoryIs
<1>3. StringEnd \in Nat /\ StringEnd > start
  BY <1>1, <1>2
<1>4. CASE Memory[StringEnd] = Quote /\ Token("String", StringEnd + 1, 1)
  <2>. DEFINE e == StringEnd
  <2>1. \A k \in start + 1..e : Memory[k] # NUL
    <3>1. ASSUME NEW k \in start + 1..e  PROVE k = e \/ k \in start + 1..StringEnd - 1
      BY <1>1, <1>3
    <3>. QED  BY <1>1, <1>2, <1>4, <3>1
  <2>2. e \in start..Final
    <3>1. e \in Nat /\ e >= start
      BY <1>1, <1>3
    <3>. HIDE DEF e
    <3>. QED  BY <1>1, <2>1, <3>1, StaysInText
  <2>3. Scanner!Class(Part(start, e)) = "string"
    BY <1>1, <1>2, <1>3, <1>4, <2>2, ClassIs
  <2>4. \A k \in e + 1..Final : Scanner!Class(Part(start, k)) = "none"
    <3>1. ASSUME NEW k \in e + 1..Final  PROVE k \in start..Final /\ e \in start + 1..k - 1
      BY <1>1, <1>3
    <3>. QED  BY <1>1, <1>4, <3>1, ClassIs
  <2>5. Token("String", e + 1, 1) /\ Scans
    BY <1>4 DEF MatchString
  <2>. HIDE DEF e
  <2>. QED  BY <2>2, <2>3, <2>4, <2>5, KindClasses, SplitsOff
<1>5. CASE Memory[StringEnd] = NUL /\ LexicalError
  <2>1. StringEnd > Final
    <3>1. StringEnd \notin 1..Final
      BY <1>5, TextFacts
    <3>. QED  BY <1>1, <1>3, <3>1
  <2>2. \A k \in start..Final : Scanner!Class(Part(start, k)) = "none"
    <3>1. ASSUME NEW k \in start..Final  PROVE k > start => k \in start + 1..StringEnd - 1
      BY <1>1, <1>3, <2>1
    <3>. QED  BY <1>1, <1>2, <3>1, ClassIs
  <2>3. Scans /\ start <= Final
    BY <1>1 DEF MatchString
  <2>. QED  BY <1>5, <2>2, <2>3, IsRejected
<1>. QED  BY <1>4, <1>5 DEF MatchString

LEMMA WordSplits ==
  ASSUME Scanned, OnText, phase = "scanning", MatchKeyword \/ MatchName
  PROVE  Scanner!Split /\ OnText'
<1>1. Filled /\ Ahead /\ IsName /\ First \in Letters \union {"_"} /\ Scans
  BY DEF Scanned, MatchKeyword, MatchName, IsName
<1>2. NUL \notin WordChars /\ First # NUL
  <2>1. First \in WordChars
    BY <1>1 DEF WordChars
  <2>. QED  BY <2>1, CharactersApart
<1>3. Final \in Nat /\ start \in 1..Final /\ start \in Nat /\ start \in 1..Size /\ Size \in Nat
  <2>1. Final \in Nat /\ start \in 1..Final
    BY <1>2, TextFacts, FirstInText
  <2>2. start \in 1..Size /\ Size \in Nat
    BY <1>1, StartFacts
  <2>. QED  BY <2>1, <2>2
<1>4. WordEnd \in start + 1..Size
  BY <1>1, WordFacts
<1>5. Memory[WordEnd] \notin WordChars /\ \A k \in start..WordEnd - 1 : Memory[k] \in WordChars
  BY <1>1, <1>2, <1>3, AfterStays DEF WordEnd
<1>. DEFINE e == WordEnd - 1
<1>6. e \in Nat /\ e >= start /\ e + 1 = WordEnd
  BY <1>3, <1>4
<1>7. e \in start..Final
  <2>1. \A k \in start + 1..e : Memory[k] # NUL
    <3>1. ASSUME NEW k \in start + 1..e  PROVE k \in start..WordEnd - 1
      BY <1>3
    <3>. QED  BY <1>2, <1>5, <3>1
  <2>. HIDE DEF e
  <2>. QED  BY <1>2, <1>6, <2>1, StaysInText
<1>8. Spelling = Part(start, e)
  <2>. DEFINE s == Part(start, e)
              n == e - start + 1
  <2>. HIDE DEF e
  <2>1. start \in 1..Final + 1 /\ e \in start - 1..Final /\ start \in Int /\ e \in Int
    BY <1>3, <1>7
  <2>2. PICK S : s \in Seq(S)
    BY <2>1, PartIs
  <2>3. Len(s) = n /\ \A i \in 1..n : s[i] = Memory[start + i - 1]
    BY <2>1, PartIs
  <2>. HIDE DEF s
  <2>4. \A i \in start..e : Memory[i] \in S
    <3>1. ASSUME NEW i \in start..e  PROVE Memory[i] \in S
      <4>. DEFINE j == i - start + 1
      <4>1. j \in 1..n /\ start + j - 1 = i
        BY <2>1
      <4>. HIDE DEF j, n
      <4>2. j \in 1..Len(s) /\ s[j] = Memory[i]
        BY <2>3, <4>1
      <4>. QED  BY <2>2, <4>2, ElementOfSeq
    <3>. QED  BY <3>1
  <2>. DEFINE t == SubSeq(Memory, start, e)
  <2>5. /\ t \in Seq(S) /\ Len(t) = (IF start <= e THEN e - start + 1 ELSE 0)
        /\ \A i \in 1..e - start + 1 : t[i] = Memory[start + i - 1]
    BY <2>1, <2>4, SubSeqProperties
  <2>. HIDE DEF t
  <2>6. start <= e
    BY <1>6
  <2>7. Len(t) = Len(s) /\ \A i \in 1..Len(t) : t[i] = s[i]
    BY <2>3, <2>5, <2>6
  <2>8. t = s
    BY <2>2, <2>5, <2>7, SeqEqual
  <2>9. Spelling = t
    BY DEF Spelling, t, e
  <2>. QED  BY <2>8, <2>9 DEF s
<1>9. Scanner!Class(Part(start, e)) = IF Spelling \in DOMAIN KeywordKinds THEN "keyword" ELSE "name"
  <2>1. ~(\E i \in start..e : Memory[i] \notin WordChars)
    BY <1>5
  <2>. HIDE DEF e
  <2>. QED  BY <1>1, <1>7, <1>8, <2>1, ClassIs
<1>10. \A k \in e + 1..Final : Scanner!Class(Part(start, k)) = "none"
  <2>1. ASSUME NEW k \in e + 1..Final  PROVE k \in start..Final /\ WordEnd \in start..k
    BY <1>3, <1>4
  <2>. HIDE DEF e
  <2>. QED  BY <1>1, <1>5, <2>1, ClassIs
<1>11. Memory[e + 1] \notin WordChars
  BY <1>5, <1>6
<1>. HIDE DEF e
<1>12. CASE MatchKeyword
  <2>1. Spelling \in DOMAIN KeywordKinds /\ Token(KeywordKinds[Spelling], e + 1, 0)
    BY <1>6, <1>12 DEF MatchKeyword
  <2>2. /\ KeywordKinds[Spelling] # "String" /\ KeywordKinds[Spelling] # "Eof"
        /\ ClassOf(KeywordKinds[Spelling]) = "keyword"
    BY <2>1, KeywordKindsAre, KindClasses DEF SpecialKinds
  <2>. QED  BY <1>1, <1>7, <1>9, <1>10, <1>11, <2>1, <2>2, SplitsOff
<1>13. CASE MatchName
  <2>1. Spelling \notin DOMAIN KeywordKinds /\ Token("Name", e + 1, 0)
    BY <1>6, <1>13 DEF MatchName
  <2>. QED  BY <1>1, <1>7, <1>9, <1>10, <1>11, <2>1, KindClasses, SplitsOff
<1>. QED  BY <1>12, <1>13

LEMMA UnexpectedRejected ==
  ASSUME Scanned, OnText, phase = "scanning", Unexpected
  PROVE  Scanner!Reject /\ OnText'
<1>1. /\ First \notin DOMAIN Punctuation /\ First # NUL /\ First # Quote
      /\ ~IsDotDot /\ ~IsNumber /\ First \notin Letters \union {"_"} /\ Scans /\ LexicalError
  BY DEF Unexpected, IsName
<1>2. Final \in Nat /\ start \in 1..Final /\ Filled /\ Ahead /\ start <= Final
  <2>1. Final \in Nat /\ start \in 1..Final
    BY <1>1, TextFacts, FirstInText
  <2>2. Filled /\ Ahead
    BY DEF Scanned
  <2>. QED  BY <2>1, <2>2
<1>3. CASE First \in Digits
  <2>. DEFINE e == NumeralEnd - 1
  <2>1. /\ e \in start..Final /\ e + 1 = NumeralEnd
        /\ Scanner!Class(Part(start, e)) = "number"
        /\ \A k \in e + 1..Final : Scanner!Class(Part(start, k)) = "none"
    BY <1>3, NumeralSplits
  <2>2. Memory[NumeralEnd] \in WordChars
    BY <1>1, <1>2, <1>3, NumeralEnds
  <2>. HIDE DEF e
  <2>. QED  BY <1>1, <1>2, <2>1, <2>2, IsRejected
<1>4. CASE First \notin Digits
  <2>1. \A k \in start..Final : Scanner!Class(Part(start, k)) = "none"
    <3>1. First = "." => Memory[start + 1] # "."
      BY <1>1 DEF IsDotDot
    <3>. QED  BY <1>1, <1>4, <3>1, ClassIs
  <2>. QED  BY <1>1, <1>2, <2>1, IsRejected
<1>. QED  BY <1>3, <1>4

LEMMA StepScans ==
  ASSUME Scanned, OnText, [LexerNext]_lexerVars
  PROVE  [Scanner!Next]_Scanner!vars /\ OnText'
<1>1. CASE ReadByte \/ EndOfInput
  <2>1. phase = "reading" /\ \E c, next : next \in {"reading", "scanning"} /\ Write(c, next)
    BY <1>1 DEF ReadByte, EndOfInput
  <2>. QED  BY <2>1, ReadingSupplies DEF Scanner!Next
<1>2. CASE phase = "scanning" /\ LexerNext
  BY <1>1, <1>2, EofSplits, MarkSplits, NumberSplits, StringSplits, WordSplits, UnexpectedRejected
  DEF LexerNext, Scanner!Next
<1>3. CASE UNCHANGED lexerVars
  <2>1. UNCHANGED <<bytes, behind, phase, lrc, curr, token>>
    BY <1>3 DEF lexerVars
  <2>2. UNCHANGED Scanner!vars
    BY <2>1 DEF Scanner!vars, Text, TextEnd, ClassOf, FirstOf, LastOf, Quotes
  <2>3. OnText'
    BY <2>1 DEF OnText, Memory
  <2>. QED  BY <2>2, <2>3
<1>. QED
  BY <1>1, <1>2, <1>3
  DEF LexerNext, Scans, MatchEof, MatchChar, MatchChars, MatchNumber, MatchString, MatchKeyword,
      MatchName, Unexpected

\* The ordered tries of akw_lexer_next split every text as longest match does,
\* and refuse what no token begins or what is left over of one (lexer.c).
THEOREM LexerIsScanner == LexerSpec => ScansByLongestMatch
<1>1. LexerInit => Scanner!Init /\ OnText
  BY DEF LexerInit, OnText, Scanner!Init, Scanner!Span, Text
<1>2. Scanned /\ OnText /\ [LexerNext]_lexerVars => [Scanner!Next]_Scanner!vars /\ OnText'
  BY StepScans
<1>. QED
  BY <1>1, <1>2, ScannedInitial, ScannedStep, PTL DEF LexerSpec, ScansByLongestMatch, Scanner!Spec
=============================================================================
