----------------------------- MODULE AkwMeaning -----------------------------
(***************************************************************************)
(* What a program means, and that compiling and running it gives that.     *)
(*                                                                         *)
(* `text` records the tokens the compiler has read.  Meaning evaluates     *)
(* them directly, with neither code nor stack nor counts: an expression is *)
(* cut in two at the last operator of its weakest level, a variable is an  *)
(* entry of an environment, an array is a sequence of values and has no    *)
(* address.  Only a string literal keeps its identity, its number in the   *)
(* text.                                                                   *)
(***************************************************************************)
EXTENDS Akwan, FiniteSetsExt, SequencesExt

VARIABLE text  \* the tokens read so far

meaningVars == <<programVars, text>>

Literals == {i \in DOMAIN text : text[i].kind = "String"}

\* A String gets the number the compiler's string object will have.
ObserveText ==
  text' = IF lexVars' = lexVars \/ rc' = "Lexical" THEN text
          ELSE Append(text, IF tok'.kind = "String"
                            THEN [tok' EXCEPT !.num = Cardinality(Literals) + 1] ELSE tok')

MeaningInit == ProgramInit /\ text = <<>>
MeaningNext == ProgramNext /\ ObserveText
MeaningSpec == MeaningInit /\ [][MeaningNext]_meaningVars /\ WF_meaningVars(MeaningNext)

-----------------------------------------------------------------------------
\* What an expression may come to, besides the values without an object:
\* an error, a number not known any further, or nothing known at all.

Fails(error) == [type |-> "Fails", error |-> error]
AnyNumber == [type |-> "AnyNumber"]
Unknown == [type |-> "Unknown"]
Interval(start, end) == [type |-> "Range", start |-> start, end |-> end]
Row(elems) == [type |-> "Array", elems |-> elems]

Ends(v) == v.type \in {"Fails", "Unknown"}
Numeric(v) == IsNumber(v) \/ v = AnyNumber

\* The quotient, if it is an integer.  Of any other, code and documents disagree
\* whether it is one (DividesAsDocumented), and it is any number here.
Quotient(a, b) ==
  LET exact == {q \in -Abs(a)..Abs(a) : q * b = a}
  IN CASE b = 0 -> FractionValue
       [] b # 0 /\ exact # {} -> IntValue(CHOOSE q \in exact : TRUE)
       [] b # 0 /\ exact = {} -> AnyNumber

\* The remainder has the sign of a.
Modulus(a, b) ==
  IF b = 0 THEN FractionValue
  ELSE IntValue(CHOOSE r \in 1 - Abs(b)..Abs(b) - 1 : r * a >= 0 /\ \E q \in -Abs(a)..Abs(a) : a = q * b + r)

Calculated(op, a, b) ==
  CASE op = "Plus" -> IntValue(a + b)
    [] op = "Minus" -> IntValue(a - b)
    [] op = "Star" -> IntValue(a * b)
    [] op = "Slash" -> Quotient(a, b)
    [] op = "Percent" -> Modulus(a, b)
    [] op = "DotDot" -> Interval(a, b)

Applied(op, a, b) ==
  CASE Ends(a) -> a
    [] ~Ends(a) /\ Ends(b) -> b
    [] ~Ends(a) /\ ~Ends(b) /\ ~(Numeric(a) /\ Numeric(b)) -> Fails("Type")
    [] IsInt(a) /\ IsInt(b) -> Calculated(op, a.n, b.n)
    [] Numeric(a) /\ Numeric(b) /\ ~(IsInt(a) /\ IsInt(b)) ->
         IF op # "DotDot" THEN AnyNumber
         ELSE IF FractionValue \in {a, b} THEN Fails("Type") ELSE Unknown

Negated(a) ==
  CASE IsInt(a) -> IntValue(-a.n)
    [] a \in {FractionValue, AnyNumber} \/ Ends(a) -> a
    [] OTHER -> Fails("Type")

Items(c) ==
  IF c.type = "Array" THEN c.elems
  ELSE [i \in 1..Cardinality(c.start..c.end - 1) |-> IntValue(c.start + i - 1)]

ItemAt(c, i) ==
  CASE Ends(c) -> c
    [] ~Ends(c) /\ Ends(i) -> i
    [] ~Ends(c) /\ ~Ends(i) /\ c.type \notin {"Array", "Range"} -> Fails("Type")
    [] c.type \in {"Array", "Range"} /\ ~Ends(i) ->
         CASE IsInt(i) -> IF i.n + 1 \in DOMAIN Items(c) THEN Items(c)[i.n + 1] ELSE Fails("Range")
           [] i = AnyNumber -> Unknown
           [] OTHER -> Fails("Type")

RowOf(elems) ==
  LET ending == {i \in DOMAIN elems : Ends(elems[i])}
  IN IF ending = {} THEN Row(elems) ELSE elems[Min(ending)]

-----------------------------------------------------------------------------
\* Names.  A variable is its name, the depth of its block, whether it is an
\* inout, and its value; its number is its place in the environment.

Entry(name, depth, inout, value) ==
  [name |-> name, depth |-> depth, inout |-> inout, value |-> value]

Meant(env, name) == Max({i \in DOMAIN env : env[i].name = name})

\* The variable itself, or the one an inout stands for.
Target(env, name) ==
  LET i == Meant(env, name) IN IF env[i].inout THEN env[i].value.n + 1 ELSE i

\* A reference to a variable; to an inout, the one it holds.
Address(env, name) ==
  LET i == Meant(env, name) IN IF env[i].inout THEN env[i].value ELSE RefValue(i - 1)

-----------------------------------------------------------------------------
\* Expressions.

Openings == {"LParen", "LBracket"}
Closings == {"RParen", "RBracket"}

\* How many brackets are open in front of position i.
Nesting(e, i) ==
  Cardinality({j \in 1..i - 1 : e[j].kind \in Openings})
    - Cardinality({j \in 1..i - 1 : e[j].kind \in Closings})

\* The weakest operators first.
Levels == <<{"DotDot"}, {"Plus", "Minus"}, {"Star", "Slash", "Percent"}>>

\* The operators of a level that stand between two operands of e; a Minus that
\* follows an operator is a sign.
Between(e, level) ==
  {i \in 2..Len(e) : /\ e[i].kind \in Levels[level]
                     /\ Nesting(e, i) = 0
                     /\ e[i - 1].kind \notin UNION {Levels[k] : k \in 1..3}}

Before(e, i) == SubSeq(e, 1, i - 1)
After(e, i) == SubSeq(e, i + 1, Len(e))

\* The positions around the elements of the array literal e.
Cuts(e) ==
  SetToSortSeq({1, Len(e)} \union {i \in DOMAIN e : e[i].kind = "Comma" /\ Nesting(e, i) = 1}, <)

\* Where the last index of a subscripted name opens.
LastIndex(e) == Max({i \in DOMAIN e : e[i].kind = "LBracket" /\ Nesting(e, i) = 0})

RECURSIVE Value(_, _)
Value(e, env) ==
  LET present == {k \in 1..3 : Between(e, k) # {}}
      last == Max(Between(e, Min(present)))
      first == Head(e)
      inside(from, to) == Value(SubSeq(e, from + 1, to - 1), env)
      cuts == Cuts(e)
  IN IF present # {}
     THEN Applied(e[last].kind, Value(Before(e, last), env), Value(After(e, last), env))
     ELSE CASE first.kind = "Minus" -> Negated(Value(Tail(e), env))
            [] first.kind = "NilKw" -> NilValue
            [] first.kind = "FalseKw" -> BoolValue(FALSE)
            [] first.kind = "TrueKw" -> BoolValue(TRUE)
            [] first.kind \in {"Int", "WholeNumber"} -> IntValue(first.num)
            [] first.kind = "Number" -> FractionValue
            [] first.kind = "String" -> ObjectValue("String", first.num)
            [] first.kind = "LParen" -> inside(1, Len(e))
            [] first.kind = "LBracket" ->
                 IF Len(e) = 2 THEN Row(<<>>)
                 ELSE RowOf([i \in 1..Len(cuts) - 1 |-> inside(cuts[i], cuts[i + 1])])
            [] first.kind = "Amp" -> Address(env, e[2].text)
            [] first.kind = "Name" ->
                 IF Len(e) = 1 THEN env[Target(env, first.text)].value
                 ELSE ItemAt(Value(Before(e, LastIndex(e)), env), inside(LastIndex(e), Len(e)))

-----------------------------------------------------------------------------
\* Statements.

SemicolonFrom(i) == Min({j \in i..Len(text) : text[j].kind = "Semicolon"})

\* What the statements from position i on return, with env the variables of the
\* `depth` blocks around it.
RECURSIVE Returned(_, _, _)
Returned(i, env, depth) ==
  LET end == SemicolonFrom(i)
      kind == text[i].kind
      name == text[i + 1].text
      from(j) == IF j >= end THEN NilValue ELSE Value(SubSeq(text, j, end - 1), env)
      then(v, e) == IF Ends(v) THEN v ELSE Returned(end + 1, e, depth)
  IN CASE kind = "Eof" -> NilValue
       [] kind = "LBrace" -> Returned(i + 1, env, depth + 1)
       [] kind = "RBrace" ->
            Returned(i + 1, SelectSeq(env, LAMBDA v : v.depth < depth), depth - 1)
       [] kind = "ReturnKw" -> from(i + 1)
       [] kind = "LetKw" -> then(from(i + 3), Append(env, Entry(name, depth, FALSE, from(i + 3))))
       [] kind = "InoutKw" -> then(from(i + 3), Append(env, Entry(name, depth, TRUE, from(i + 3))))
       [] kind = "Name" ->
            then(from(i + 2), [env EXCEPT ![Target(env, text[i].text)].value = from(i + 2)])
       [] OTHER -> then(from(i), env)

Meaning == Returned(1, <<>>, 0)

\* v, a value of the VM, is what m says.
RECURSIVE Denotes(_, _)
Denotes(m, v) ==
  CASE m = Unknown -> TRUE
    [] m = AnyNumber -> IsNumber(v)
    [] m.type = "Array" ->
         /\ v.type = "Array"
         /\ LET elems == heap[v.n].elems
            IN /\ DOMAIN elems = DOMAIN m.elems
               /\ \A i \in DOMAIN elems : Denotes(m.elems[i], elems[i])
    [] m.type = "Range" ->
         v.type = "Range" /\ heap[v.n].start = m.start /\ heap[v.n].end = m.end
    [] OTHER -> v = m

-----------------------------------------------------------------------------

\* The slots of closed blocks are used no more: behind the first block that
\* closes no variable is declared and no block opened.  (The other programs
\* are the subject of LocalsInPlace.)
NoSlotReused ==
  \A i, j \in DOMAIN text :
    text[i].kind = "RBrace" /\ i < j => text[j].kind \notin {"LetKw", "InoutKw", "LBrace"}

\* An instruction that only pushes has found the stack full.
StackWasFull == top = StackSize - 1 /\ Pops(Opcode, Operand) = 0

\* The compiler and the machine together are an evaluator: a program that is
\* accepted prints the value it means, precedence, association, order of
\* operands, references and in-place assignments included, and fails with the
\* error its meaning has, unless the stack is too small.  What an inexact quotient
\* is, is left open.
PrintsMeaning ==
  phase = "run" /\ NoSlotReused =>
    /\ status = "returned" => Denotes(Meaning, slots[top])
    /\ status = "failed" => StackWasFull \/ Meaning \in {Fails(vrc), Unknown}

\* docs/README.md, "Arithmetic Operators": `println(10 / 3); // 3`.  A program
\* that returns the quotient of two integers prints an integer, rounded down.
DividesAsDocumented ==
  LET kinds == [i \in DOMAIN text |-> text[i].kind]
      quotient == <<"ReturnKw", "Int", "Slash", "Int", "Semicolon", "Eof">>
  IN phase = "run" /\ status = "returned" /\ kinds = quotient /\ text[4].num # 0 =>
       slots[top] = IntValue(text[2].num \div text[4].num)

\* The text gives an inout variable an integer literal, perhaps in brackets.
GivesInoutInteger ==
  \E i \in DOMAIN text :
    /\ text[i].kind = "InoutKw"
    /\ \A j \in i + 3..SemicolonFrom(i) - 1 : text[j].kind \in {"Int", "LParen", "RParen"}

\* An instruction takes the integer that an inout variable was given for a Ref.
IntegerUsedAsRef ==
  GivesInoutInteger /\ Opcode \in ByRefOps /\ Operand \in Cells /\ IsInt(slots[Operand])

\* A program that is accepted, and whose arrays have no more elements than fit
\* their count, leaves what the models of C define in two places only: at an empty
\* array on a stack that is full, the one write that does not ask (do_array), and
\* at an inout variable that was given an integer literal, which the compiler does
\* not refuse (InoutTakesReference).  Whatever else an instruction fails on,
\* whatever a block leaves behind and however far the stack fills up, the machine
\* goes on in its stack or reports an error, and so does the clean-up.
CrashesOnlyWhereUnchecked ==
  Crashed /\ NoSlotReused =>
    phase = "run" /\ (~(Unchecked \subseteq Cells) \/ IntegerUsedAsRef)

\* The cells that can be read or written through value v, also from within arrays.
RECURSIVE CellsReferredTo(_)
CellsReferredTo(v) ==
  CASE v.type = "Ref" -> {v.n}
    [] v.type = "Array" ->
         LET elems == heap[v.n].elems
         IN UNION {CellsReferredTo(elems[i]) : i \in DOMAIN elems}
    [] OTHER -> {}

\* A reference is the bare address of a cell and nothing counts it, yet it is of no
\* use beyond its variable: when a block has closed and its variables are popped,
\* no reference to one of them can be reached any more, through a variable, a
\* temporary or an array.  What keeps it so is that find_variable finds no variable
\* of an enclosing block: an assignment out of the block would leave one behind.
\* (While the block's own variables are popped, one after the other, a variable may
\* still refer to a later one.)
NoRefOutlivesVariable ==
  phase = "run" /\ status \in {"running", "returned"} /\ releasing = <<>> /\ NoSlotReused =>
    Opcode = Op.Pop \/ \A c \in 0..top : CellsReferredTo(slots[c]) \subseteq 0..top

=============================================================================
