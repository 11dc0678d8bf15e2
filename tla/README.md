# Akwan in TLA+

Akwan is a small scripting language: a lexer, a single-pass compiler to
bytecode, a stack machine, and reference-counted values, in C.  The modules
here model the lexer, the compiler, the machine, the array library and the
program that joins them, as they are written in `src/` and `include/akwan/`.
TLC checks them on small instances: against invariants, and against four
specifications of what they are for (a longest-match scanner, garbage-collected
sequences, the compiler's own check-only mode, and a direct evaluator of
programs).  For every instance, the TLA+ proof system proves thirty-five theorems:
about the compiler and its code, the stack it counts on, the program and its
references, the lexer and the array library.

Paths below are relative to the repository: `src/compiler.c`, `docs/README.md`.

## The system

| part | state | operations | interacts with |
| --- | --- | --- | --- |
| lexer (`src/lexer.c`) | position, line and column in the text, current token | `akw_lexer_next` | called by the compiler, one token of lookahead; reads the input buffer |
| compiler (`src/compiler.c`) | `rc`, `scopeDepth`, `variables`, `typeInfo`, the C call stack | one `compile_xxx` per grammar rule, `define_variable`, `find_variable`, `pop_scope` | pulls tokens, emits into the chunk, allocates strings |
| chunk (`src/chunk.c`) | `code`, `consts` | emit an opcode or a byte, append a constant, release the constants | written by the compiler, read by the VM, released by `main` |
| VM (`src/vm.c`, `include/akwan/stack.h`) | instruction pointer, stack, `rc` | one handler per instruction, `akw_vm_deinit` | reads the chunk, shares the objects in it |
| values (`src/value.c`, `string.c`, `range.c`, `array.c`) | objects with a `refCount` | create, retain, release (an array releases its elements); the array library, copying and in place | held by constants, stack cells and arrays |
| `main` (`src/main.c`) | how far it is | read standard input, compile, run, print, clean up | all of the above |
| buffer, vector (`src/buffer.c`, `include/akwan/vector.h`) | count, capacity | append, double, refuse beyond `AKW_MAX_CAPACITY` | input text, code, constants, variables, array elements, characters |
| error, memory, dump | - | message text; malloc, realloc and free, whose results nobody checks; listing | - |

There is one thread.  What is hard is not concurrency but agreement between
parts that never talk to each other:

- The compiler never computes how high the VM stack is.  It gives the n-th
  variable slot n and trusts every emission before it, in every order and
  nesting, to have left exactly one value per variable.
- Names are found by walking `variables` from the end and breaking at the first
  shallower scope, in an array from which nothing is ever removed.
- `typeInfo` is a side result of the last expression, read after others have
  been compiled.
- Every path out of an expression, errors included, must leave each object
  counted once per holder: stack cell, constant, array element.
- A reference is the bare address of a stack cell, and nothing tells it when its
  variable ends.
- The lexer steps over the terminating NUL: nothing may ask for a token after
  the end of the file.  It has no length to stop at, so every loop in it ends
  because of that NUL.
- A literal is converted from its first character, without its length, once
  the next token has been read: scanner and C library must agree on its end.
- The check-only mode leaves three functions early and skips every emission;
  nothing it skips may matter to the rest of the check.
- In-place array operations work on arrays that are shared, or are their own
  argument.
- Limits: 256 variables, operands of one byte, a code buffer that may be full
  between an opcode and its operand, a stack that may be full at any push.

What makes each part correct is, for the lexer, that it splits a text as its
tokens are meant and says where it was; for the compiler, that stack, slots and
scopes agree, that the code means what the text does, and that it terminates;
for the chunk, that it decodes and ends in
`Return`; for the VM, that it stays in its stack; for the values, that counts
equal holders and arrays are sequences; for `main`, that it reports errors and gives everything back.
`PROJECT.json` lists the hazards with their lines and the properties that cover
them.

## The modules

| module | models | built on |
| --- | --- | --- |
| `AkwValue` | values, objects, retain and release | |
| `AkwChunk` | opcodes and their stack effect, code, constants, heap | `AkwValue` |
| `AkwCompiler` | lexer interface, parser and code generator | `AkwChunk` |
| `AkwScopes` | the compiler beside what its code does to the stack | `AkwCompiler` |
| `AkwChecking` | the two modes of the compiler side by side | `AkwCompiler`, twice |
| `AkwVM` | the stack machine | `AkwChunk` |
| `Akwan` | `main`: compiler, machine, clean-up, reference ledger | `AkwCompiler`, `AkwVM` |
| `AkwMeaning` | the program beside what its text means | `Akwan` |
| `AkwBuffer` | capacities: doubling, refusal, the sum of two counts | |
| `AkwSequences` | abstract: what the array library promises | |
| `AkwArrays` | the array library, storage of strings | `AkwValue`, `AkwBuffer`; implements `AkwSequences` |
| `AkwTokens` | abstract: a longest-match scanner | |
| `AkwLexer` | reading standard input, the lexer on characters | `AkwBuffer`; implements `AkwTokens` |
| `MCCompiler`, `MCAkwan`, `MCArrays`, `MCLexer` | source texts, values and characters for TLC | the modules above |
| `AkwLemmas` | numbers, sequences, counting: what the proofs share | the library's theorems |
| `AkwCompilerProofs`, `AkwCheckingProofs` | theorems about the compiler and their proofs | `AkwCompiler`, `AkwChecking` |
| `AkwScopesProofs` | theorems about names, the code, inouts and the stack | `AkwScopes`, `AkwCompilerProofs` |
| `AkwanProofs` | theorems about the program | `Akwan`, `AkwScopesProofs` |
| `AkwBufferProofs`, `AkwLexerProofs`, `AkwArraysProofs` | theorems about storage, the input and the array library | `AkwBuffer`, `AkwLexer`, `AkwArrays` |

Definitions whose comment begins with "Faulty variant" are plausible mistakes in
the definition that follows them; no specification uses them.  They show, one
for each property, that the property would notice.

**Compiler.**  The recursion of the C functions is the variable `todo`: the
calls and statements still to be executed, the next one first.  A `compile_xxx`
action replaces its call by the calls it makes, in their order; what a C local
holds across a call (a name, an element count) is a field of the pending item.
Every call in the code is followed by a return on error, so the first error
leaves `todo` as it is and no action is enabled any more.  `next`, `consume` and
the `emit` macros are `Advance`, `ConsumeToken` and `Emit`, with their own error
returns.  An action that emits two bytes writes the first of them if only one
fits, as the code does.

| action | code |
| --- | --- |
| `CompileStmt`, `CompileLetStmt`/`LetValue`/`Define`, `CompileInoutStmt`/`DefineInout`, `CompileReturnStmt` | `compile_stmt`, `compile_let_stmt`, `compile_inout_stmt`, `compile_return_stmt` up to and after the calls in them |
| `PushScope`, `CompileBlockStmt`, `PopScope` | `compile_block_stmt`, `pop_scope` |
| `CompileExpr`/`RangeOperator`, `AddLoop`, `MulLoop`, `CompileUnaryExpr`, `CompilePrimExpr` | the levels of the expression grammar |
| `CompileInt`, `CompileNumber`, `CompileString`, `CompileArray`/`ArrayLoop`/`ArrayEnd` | literals |
| `CompileRef`/`RefTo`, `CompileVariable`/`IndexLoop`, `AssignVariable` | uses of variables, through `find_variable` |

Source text is a concatenation of members of the constant `Fragments`, drawn
when the lexer reaches them; a fragment may be one token (so that every text up
to a length is produced, also the ill-formed ones) or a statement.  The lexer
is seen from the parser here: it delivers a token, an error or the end.  The
token kind `Number` of the code is two, `WholeNumber` being one whose value is an
integer, as the `1` of `1..5`, which the lexer does not take for an `Int`.

**Scopes.**  `AkwScopes` adds a history variable `env`: the variables of the open
blocks as the language defines them, each with the cell its value was really put
in, computed from the code emitted.  It constrains nothing.

**Checking.**  `AkwChecking` instantiates the compiler a second time with
`CheckOnly = TRUE` and an empty chunk in place of the chunk.  `ChecksAlike` says
that the compiler implements the checker under the mapping that forgets the
chunk: it starts as the checker does and each of its steps is a step of the
checker.  The steps that report `AKW_RANGE_ERROR` are excepted: only the chunk can
be full, and a check has none.

**VM.**  One action per handler.  Popping leaves a cell's contents in place and
nothing bounds an index, as in the macros of `stack.h`.  Where C leaves the
result undefined (a cell outside the stack, a freed object, something that is no
`Ref` used as one, a cell that was never written) the machine may `Crash`; a cell
never written may also read as `nil`.  `akw_value_release` recurses; `releasing`
holds the objects still to be released and the next instruction waits for it.
Integral doubles keep their value; any other double is one value `FractionValue`,
from which arithmetic may come back to the integers in `SampleInts`.

**Program.**  `Akwan` goes through the phases of `main`, on success and on each
error path, and defines the ledger: `Holders(id)` counts the stack cells,
constants, array elements and pending releases that hold an object, `Surplus`
is its count less its holders.

**Meaning.**  `AkwMeaning` records the tokens read in a history variable `text` and
evaluates them directly, without code, stack or counts.  An expression is cut in
two at the last operator of its weakest level that stands outside brackets, which
is where precedence and association come from; a variable is an entry in an
environment from which the end of a block removes its entries; an array is a
sequence without an address, a string literal is its number in the text.
`PrintsMeaning` compares this with the value on top of the stack when the machine
returns, and with its error when it fails.  Three things are left open: the
quotient of two integers that is no integer and what is computed with a fraction
are any number (of the quotient the code and `docs/README.md` disagree, see
`integer_division`), a range that needs one is not known at all, and the machine
may fail because its stack is full.  Programs that declare a variable
or open a block behind the first block that closed are excepted (`NoSlotReused`):
for them the code is wrong, see `closed_block_slots`.

**Buffers.**  `AkwBuffer` has the arithmetic shared by `buffer.c`, `vector.h` and
`string.c`: capacities double until the need fits, a need beyond the largest is
refused, and a need is an `int`, so that a sum of two counts may wrap around.

**Arrays.**  `AkwArrays` has one action for each function of `src/array.c` that
makes or changes an array, called by a caller that retains what it is given,
passes only what it holds, and puts no array into itself.  A call is one step;
what it releases is released object by object in `ReleaseObject` before the next
call.  Using a freed object ends in the status `usedFreed`, writing behind an
array in `overran`.  `AkwSequences` knows no counts and no capacities: arrays are
sequences, a copying operation makes a new one, an in-place one is seen by all
who share the array, a refused one changes nothing, and what the caller cannot
reach does not exist.  The refinement mapping takes as `contents` the elements of
the objects the caller can reach that are not freed, as `owned` what the caller
holds, as `outcome` the error code.  `akw_array_remove_at` gives back a reference
that the old array still has (`array.c:212`); the history `lost` counts this,
`CountsExact` holds up to it and the refinement holds until it first happens.

| action | code |
| --- | --- |
| `New`, `Copy`, `Appended`, `With`, `Without`, `Concat` | `akw_array_new_with_capacity`, `akw_array_copy`, `_append`, `_set`, `_remove_at`, `_concat` |
| `Reserve`, `InplaceAppend`, `InplaceSet`, `InplaceRemoveAt`, `InplaceConcat`, `Clear` | `akw_array_ensure_capacity`, the `akw_array_inplace_` functions, `akw_array_clear` |
| `NewString` | `akw_string_new_from` |
| `Drop`, `ReleaseObject` | `akw_value_release` of what the caller holds, and its recursion |

**Lexer.**  `AkwLexer` reads standard input into a growing buffer and scans it.  A
character is a string of length one; `Memory` is the text, its NUL, and behind it
two cells that were never written and hold some character of `Garbage`.  Each
`match_` function is an action, taken where the tries before it in
`akw_lexer_next` fail.  `AkwTokens` defines the tokens as languages (with the names
of `docs/akwan.ebnf`, as the lexer spells them) and splits a text by longest match,
refusing a word or number of which something is left over.  The mapping takes the
text up to the first NUL, the number of characters passed, and the span of the
last token; step by step the lexer has to be that scanner, so that
`match_number`'s lookahead and the order of the tries are what is checked.

## The runs

`CHECK_DEADLOCK FALSE` is in every configuration because the program stops.
Figures are distinct states.

| run | source | what it shows |
| --- | --- | --- |
| `compiler_expressions` | any 6 of 14 fragments: operands, operators, brackets, an illegal character (541 000) | `CodeDecodes`: the bytes decode at every moment, constants and variables they name exist. `ConstantsInOrder`: each `Const` loads its own constant. `OperandsReady`: no pending instruction reaches below its temporaries. `NeverReadsPastEof`. |
| `compiler_statements` | any 7 of 15 fragments: declarations, inouts, assignments, returns (667 000) | `StackBalanced`: height of the stack, pending work and variables in scope always agree. `LocalsInPlace`: a variable is found in the cell its value is in. `InoutRejectsComputed`: only references and, by the defect below, integer literals get into an inout. `ChecksAlike`: a check of the text goes the same way. |
| `compiler_blocks` | any 6 of 8: braces and whole statements; 2 variables, operands up to 1, 10 bytes of code (247 000) | `TypeOK`, `SlotNumbering`, `CompleteChunk` at the limits; `DepthCountsBlocks`, `OwnBlockFirst`, `NoDuplicates`, `NoValueLeftBehind` under nesting; `ChecksAlike` until the chunk is full; `CompileTerminates`. |
| `program_objects` | any 6 of 10 statements on strings, arrays, ranges and references; stack of 5 (395 000) | `NeverCrashes`, `NoDangling`, `StoresInUse` (an assignment writes a cell in use), `LeaksOnlyByAssignment` step by step, `ExitReports`, `ProgramTypeOK`, `Terminates`; `PrintsMeaning` for shared and replaced objects and references. |
| `program_operands` | each operator, index and negation on each pair of operand types, every chain of two operators, nested blocks, references within blocks and out of them, rows that fill the stack, inouts that are given an integer, and programs after closed blocks (90 000) | `FetchesInstructions`: the VM fetches whole instructions of the chunk, whatever it does to the stack; `LeakFreeWithoutAssignment` when an instruction fails half-way or leaves the stack; `PrintsMeaning` for precedence, association, order of operands, errors, and variables of inner blocks; `NoRefOutlivesVariable`: when a block has closed, no reference to its variables can be reached; `CrashesOnlyWhereUnchecked`: the machine crashes at the one write of `do_array` that does not ask whether the stack is full and at an integer literal that the compiler let into an inout, and nowhere else. |
| `arrays` | every order of calls on 3 objects of at most 2 elements (263 000) | `ImplementsSequences`; `CountsExact`, `FreedOnlyByRemoveAt`: each object is counted once per holder and freed at the right time, up to `akw_array_remove_at`; `StorageOK`, `OverrunsOnlyByOverflow`: no write behind the end, except where the sum of two counts wraps in `akw_array_concat`. |
| `lexer` | every input of up to 4 of 12 pieces: digits, letters, dots, quotes, spaces, line breaks, NUL; buffer of 8 bytes (174 000) | `ScansByLongestMatch`; `ConversionsAgree`: a number is converted from its own characters; `PositionsRight`; `InputFits`; `EveryTextEnds`. |

Why the bounds are enough.  Six tokens hold two nested bracket pairs or three
operands with two operators, in any arrangement, and a parser with one token of
lookahead has no longer memory than `todo`, which these texts fill in each
combination of two nested functions.  Seven tokens hold a declaration, a second
statement that uses it and the start of a third.  Six statements or braces hold
three blocks in each arrangement, sibling and nested; with `UINT8_MAX = 1` the
third variable is refused and every literal is too large for an operand, with
`MaxCapacity = 10` the code fills up at every byte of every instruction.  Six
statements on objects hold: an object, an array of it, a reference to it, an
assignment through the reference, an index and a return; a stack of five cells
holds three variables and two temporaries, and the array of a return overflows it
after two of its elements have been pushed.  Two operators in a row, with every
pair of operators and with brackets and signs, decide precedence and association
between any two levels.  A reference can be carried out of its block only by what is
outside it: a variable, an array in one, or what an inout stands for, and the
programs of `Escaping` try each; its other programs make the variables of one block
refer to each other, in both orders, before the block closes.  With `UINT8_MAX = 255`
no array of these programs has more elements than its count can hold
(`ArraysCounted`), which `CrashesOnlyWhereUnchecked` presupposes.

Three objects hold an array in an array with a shared element, or two arrays and
a string; `MinCapacity = 1`, `Doublings = 1` makes the capacities 1 and 2 and the
largest `int` 3, so that growth, refusal and the wrapping sum of two full arrays
are all reached with two elements.  The number of calls is not bounded, only the
number of objects ever made.  Capacities of 2, 4 and 8 bytes let the text grow
twice and be refused in the middle of a token and at the NUL alone; four pieces hold
a fraction with an exponent, a range between numbers, a string with a line break
in front of a token, and each of them cut off by the end of the text.

Fairness is weak fairness of the whole next-state relation.  The program is
sequential and waits for nothing: while it has a step it takes one.  This holds of the compiler alone, of the lexer
that reads a finite input (`LexerSpec`) and of the whole program (`ProgramSpec`,
`MeaningSpec`).  The array library promises nothing about its caller, and
`ArraysSpec` has no fairness.

### Disagreements between the code and its documents

Each of these runs has one property, and TLC finds it violated.

| run | what the code does |
| --- | --- |
| `enclosing_scope` | `find_variable` returns only variables of exactly the current depth; `docs/README.md:43` uses a variable of the enclosing block. |
| `closed_block_slots` | `pop_scope` leaves the block's variables in `variables`: a later block finds them and the variables after them are numbered too high (`docs/README.md:37`, `:45`). Two sibling blocks each pop the variables of both. |
| `inout_of_integer` | an integer literal does not set `typeInfo`; `inout y = 1;` is accepted after a reference or, uninitialised, at the start. The compiler's own message (`compiler.c:262`) says it is not. |
| `integer_division` | `do_div` divides doubles and keeps the fraction; `docs/README.md:87` has `println(10 / 3); // 3`. |
| `assignment_leak` | `do_set_local` and `do_set_local_by_ref` retain a value that they also move off the stack: one reference is never given back, as the AddressSanitizer build (`CMakeLists.txt:18`) reports on `examples/assign.akw`. |

Because of the second, `StackBalanced` and `LocalsInPlace` are checked on texts
without blocks and `compiler_blocks` checks the parts that do hold with them.
`NeverCrashes` is likewise checked on programs without blocks and without integer
inouts; `program_operands` contains both, and it is false there.
`CrashesOnlyWhereUnchecked`, `NoRefOutlivesVariable` and `PrintsMeaning` leave aside
the programs that go on to declare a variable or open a block after one has closed.

Because of the first no reference outlives its variable: `find_variable` finds no
variable of an enclosing block, so nothing in a block can store a reference where it
would be found after the block.  A `find_variable` that did what `docs/README.md:43`
shows would let `let x = 3; { let y = "s"; x = &y; }` leave a reference in `x` to a
cell that has been popped.  That is the mutant of `NoRefOutlivesVariable`: the
documented scope rule needs a check of references that the code does not have.

What the models follow without a run of its own: an exponent does not make an
integer a number, so that `1e5` is one token `Int` and is converted as 1
(`ConversionsAgree` states it as the exception); the 257th constant of a chunk gets
the number of the first; `return;` emits nothing, so that execution goes on behind it
(`docs/akwan.ebnf:7` has the statement, `docs/vm.md:30` says that it returns); an array
cannot be indexed by a range as `docs/README.md:143` does.

## What is proved

Each theorem holds for every value of the constants that satisfies the named
assumptions of the modules it is about; each says of the code:

- `FragmentsAssumption`, `BoundsAssumption`: texts are made of tokens, and the
  limits are positive numbers;
- `VMAssumption`, `ProgramAssumption`: the stack has a cell, the inexact results
  that are given are numbers, and `CheckOnly` is `FALSE`, as `main` passes no
  flags (`main.c:52`);
- `CapacityAssumption`, `ArraysAssumption`, `LexerAssumption`: capacities are
  positive and doubled, and the largest `int` is beyond the largest capacity;
- `LettersAssumption`: `isalpha` takes the letters of the keywords and `e`, and no
  space, digit, mark, quote, dot, underscore or NUL.

Some theorems have a hypothesis about the program besides.  Each names something
that the code leaves to chance, and without it the property is false:

- `ArraysCounted`: no array literal has more than `UINT8_MAX` elements.  Their
  count is a `uint8_t` (`compiler.c:533`); where it wraps, the excess elements
  stay on the stack.
- `NoneClosed`, `BlocksDeclareNothing`: no block that declared a variable has been
  closed.  `pop_scope` leaves it in `variables`, and what the compiler believes
  about the stack is wrong from there on (`closed_block_slots`).
- `InoutsRefer`: what the compiler takes for a reference, when it passes a value to
  an inout variable, is one; it is not for an integer literal
  (`inout_of_integer`).
- `RoomForEmptyArrays`: no empty array is made on a full stack.  It is the one that
  takes more room than its elements, and `do_array` does not ask for it.

`AkwLemmas` holds what the proofs share.  Induction is over sets of numbers
(`NatSetInduction`), which a leaf can name where it cannot name a predicate; from
it come the existence of functions defined by recursion (`RecursionExists`), and
how concatenation, replacement and removal change the number of occurrences in a
sequence or in a table of sequences (`OccurrencesConcat` to `EntriesChange`).

### The compiler (`AkwCompilerProofs`, `AkwCheckingProofs`)

- `TypeCorrect`, `CompilerSpec => []TypeOK`: every byte of the code is an opcode
  or fits a `uint8_t`, code and constants stay within their capacity.
- `SlotsAreNumbered`, `[]SlotNumbering`: the n-th variable has slot n, and the
  conversion to `uint8_t` never changes a slot.
- `LexerStopsAtEof`, `NeverReadsPastEof`: after the end of the file the lexer is
  not called, however long the text.
- `DepthIsNesting`, `[]DepthCountsBlocks`: `scopeDepth` is the number of open
  blocks.
- `CompilesAsChecked`, `ChecksAlike`: compiling is checking and emitting, until
  the chunk is full.

`TypeOK` is inductive by itself because its last conjunct says what a pending
call may hold: an `emit` or `operator` item an opcode, an array item a byte, a
`consume` item a token kind other than the end of the file.  The lemmas follow
the shape of the model: the types of items and tokens, then of the pieces
actions are made of (`AdvanceType`, `EmitType`, `UseVariableType`), then one step
per action in `StatementType` and `ExpressionType`.  `SlotNumbering` is
inductive with it: only `Define` and `DefineInout` change `variables`
(`VariablesChange`), and there `Len(variables) <= UINT8_MAX` makes `Byte` the
identity.  For `NeverReadsPastEof`, each action that reads matches a token kind
first and none of those kinds is `Eof`.  `DepthIsNesting` counts the pending block ends
in `todo` as `Occurrences` of a set of calls: every other action takes and adds none of them
(`ExpressionOther`, `StatementOther`), the three that do change `scopeDepth` with
them (`DepthStep`).  `CompilesAsChecked` is a step simulation; what needs an
argument is where the modes part: an emission in a check always succeeds, a large
integer takes the other branch of `CompileInt`, and the depth of a closed block is
decremented behind emissions that a check skips.

### Names, code and inouts (`AkwScopesProofs`)

- `NamesAreUnique`, `ScopesSpec => []NoDuplicates`, and `LookupFindsOwnBlock`,
  `[]OwnBlockFirst`: in any nesting of blocks no scope has two variables of one
  name, and a name declared in the current block is found as that declaration.
- `CodeAlwaysDecodes`, `[]CodeDecodes`; `ConstantsLoadInOrder`,
  `[]ConstantsInOrder`; `ChunkIsComplete`, `[]CompleteChunk`: the code is whole
  instructions at every moment, the constants and slots they name exist, each
  constant is loaded once and in order (the 257th by the number of the first,
  which no run reaches), and a finished chunk ends in `Nil`, `Return`.
- `InoutsAreJudged`, `InoutRejectsComputed`: in a program that is compiled, not
  only checked, no computed value initialises an inout variable.

`comp->variables` keeps the variables of closed blocks among those of the open
ones, so that the first two need to know how the two are mixed.  `EnvMatches`
says it: each variable of an open block has its entry (`EntriesMatch`), in order
(`EnvOrdered`), none of them deeper than the current block (`EnvOpen`), and
whatever was entered after it while its block is open lies at its depth or deeper
(`EnvShields`), so that the search, which breaks at the first shallower entry, is
not stopped in front of it.

The three about code rest on `CodeOK`.  Where instructions start is a
recursive function of the code; `StartsUnique` shows that it is the only set with
`StopsAt` (0 starts one, each start is followed by the next, nothing else), so
that a set can be given for the longer code and needs no recursion
(`AppendInstruction`).  `CodeOK` then says that the code is well formed and that
the `Const` instructions are numbered; one lemma per form of
emission, one step per action in `EmissionStep`.  `ChunkIsLast` adds that nothing
is emitted after the chunk's own `Return`.

The `typeInfo` that `compile_inout_stmt` reads may be stale at almost any moment
of a compilation; it is right when the statement comes to it because of what is
still to be called.  `InoutsJudged` says so: before each pending `defineInout`
there is a call that ends with `typeInfo` set for the instruction emitted last
(`Judging`), with only calls behind it that either do nothing or end in such a
one (`Passing`), or all of these calls have been made and `typeInfo` is right
(`Judged`).  Each action replaces the first call by calls that keep it so
(`ExpressionJudges`, `StatementJudges`, `InoutsStayJudged`).  The exception that
makes `InoutTakesReference` false, integer literals, is in `Judged`.

### The stack the compiler counts on (`AkwScopesProofs`)

- `OperandsAreReady`, `ScopesSpec /\ []ArraysCounted => []OperandsReady`: every
  instruction still to come finds its operands above the variables.
- `NothingLeftBehind`, `[]NoValueLeftBehind` under the same hypothesis: there is
  never more on the stack than variables and temporaries.
- `StackIsBalanced`, `[](NoneClosed => StackBalanced)`, and `LocalsAreInPlace`,
  `[](NoneClosed => LocalsInPlace)`: there is exactly that, and the n-th variable
  is in the n-th cell.

The compiler keeps no height; the conservation law does.  `Total(todo)` is what
the pending calls will still change the height by, `Settled` that each of them
finds what it takes, and `Balance` says that the height of the code so far and
`Total(todo)` add up to the variables.  `Height` is a recursive function of the
code from its end (`HeightFrom`), so that it takes an induction to see that one
more instruction adds its effect (`HeightPlain`, `HeightOperand`); `NetFrom` goes over
`todo` from its end, where calls are taken off and put on at the front
(`FrontCall`).  With these each action is a few lines of arithmetic about
`KeepsBalance`.  At `popScope` the number of `Pop` instructions is the number of
entries of the block, which is at least that of its variables: equality needs
`NoneClosed`.

### The program (`AkwanProofs`)

- `ProgramTypesKept`, `ProgramSpec => []ProgramTypeOK`: the state of compiler and
  machine keeps its types through every instruction, failure and clean-up.
- `ResultIsReported`, `[]ExitReports`: `main` succeeds exactly when neither
  compiler nor VM reported an error, and then with an empty stack.
- `FetchIsSafe`, `[]FetchesInstructions`: of a program the compiler accepts, the
  VM fetches whole instructions only, until it stops.

`ProgramTypeOK` is not inductive: an instruction puts into a cell what it finds
in a constant, an array or another cell, and retains or releases the object at
its address.  `Addressed` closes it: every address in the heap, in a cell, in the
constants or among the pending releases is that of an object.  It holds whatever
the VM does wrong, which is why the theorem covers programs with closed blocks,
where the machine uses freed objects; that those are never used is another
matter, see below.  Each handler is one of a few kinds of step (`WriteKeeps`,
`PutObjectKeeps`, `PopKeeps`, `StoreKeeps`, `ReleaseKeeps`), and `VMKeeps` has one
step per handler.  `Reporting` ties phase, status and `rc` together.  `Fetching`
takes `CodeOK` and `ChunkIsLast` over from the compiler: the instruction pointer
stays on the starts (`NextInstruction`), and at the last start stands `Return`,
which stops.

### The ledger of references (`AkwanProofs`)

- `LeakFree`, `ProgramSpec => []LeakFreeWithoutAssignment`: a program compiled
  without an assignment has given back every object when `main` is done, whatever
  the text, the limits, the size of the stack and the errors met on the way.
- `NothingDangles`, `ProgramSpec /\ []StoresInUse => []NoDangling`: nothing that
  is still held is freed.
- `OnlyAssignmentsLeak`, `ProgramSpec /\ []StoresInUse =>
  LeaksOnlyByAssignment`: step by step every count stays exact, but for the one
  reference an assignment leaves behind.

The hypothesis `StoresInUse` says that an assignment writes a cell no higher than
the value it stores, which is what compiler and machine rely on and neither
checks.  It cannot be dropped: behind a closed block the compiler's slot may lie
above the stack (`closed_block_slots`), and such a store puts a value where
nothing releases it and releases what was left there.  A program without
assignments meets it trivially, which is how `LeakFree` needs no hypothesis; for
programs without closed blocks it is proved below (`AssignmentsHitVariables`).

That counts are exact is not inductive by itself.  The inductive invariant is
`Ledger`: for each object `Now`, its count less its holders, is what the
assignments left in excess and never negative (`Balanced`); nothing is pending
release between instructions and the constants are gone once released (`Calm`);
live objects have a positive count, arrays hold no more than the stack had, and
their elements are older than they are (`Orderly`); and the code takes at least
two bytes per constant (`Spacious`), so that the constants are never full when
`compile_string` has made an object to append (`compiler.c:508`, where it would be
lost).  Each handler shifts the
ledger by a known amount, at most one reference of one value: `Balances(lost)`,
one lemma for each (`PushBalances`, `ArrayBalances`, `GetElementBalances`,
`StoreBalances`, `ReleaseBalances`, ...), put together in `VMBalances` and, with
compiler and clean-up, in `StepBalances`.  The holders of an object are cells,
constants, pending releases and pairs of array and index, counted with the lemmas
of `AkwLemmas`.  At the end cells, constants and releases are empty and counts
are exact, so that a live object would need an array that holds it, which is
younger; the youngest live object has none (`NothingIsLeft`).

### Cells, references and crashes (`AkwanProofs`)

- `AssignmentsHitVariables`, `ProgramSpec /\ []ArraysCounted /\
  []BlocksDeclareNothing => []StoresInUse`; with it `CountsAreRight`, under the same
  hypotheses `[]NoDangling` and `LeaksOnlyByAssignment`.
- `ReferencesStayValid`, `[]RefsPointToStack`: a reference in a cell or in a live
  array names a cell in use.  In these programs no variable ends before the program
  does; where blocks close, `NoRefOutlivesVariable` is checked and not proved, as it
  follows references through nested arrays.
- `NothingCrashes`, with `InoutsRefer` and `RoomForEmptyArrays` besides,
  `[]NeverCrashes`: nothing that crashes the machine of `AkwVM` happens.

Compiler and machine never meet: the first three say that the machine's stack is
what the compiler counted on.  `Leveled` takes the balance over from the
compilation, and adds `LeavesCells`, a property of code alone: where an
instruction names a cell, neither it nor a later one takes that cell off the
stack.  `Floor` is how far down an instruction reaches; the code is checked
against it one instruction at a time (`FloorAppend`), as each is emitted
(`LeveledStep`).  `Grounded` then follows the machine through the finished code:
its height is the height in front of the instruction, and every reference in a
cell, a constant or an array is to a cell that an instruction behind `ip` has
named, hence below every later `Floor` (`NamedInUse`).

For `NothingCrashes` there is more to say of code: instructions do not overlap
(`Apart`), by-reference instructions are for inout variables and the others are
not (`Suits`), and each inout variable has one instruction that puts a reference
into its cell, in front of all that use it (`Initialises`).  `Suited` joins
these, is kept by every emission (`SuitedAppend`), and gives the machine `Sane`:
once an inout variable's instruction has been executed its cell holds a `Ref`.
The rest are the five ways to crash, each excluded by an invariant above: cells
outside the stack and cells never written by `Grounded`, freed objects by
`Ledger`, and what is no `Ref` by `Sane`.

### The lexer (`AkwLexerProofs`)

- `InputAlwaysFits`, `LexerSpec => []InputFits`: no byte of the text, its NUL
  included, goes behind the buffer, also when it is refused.
- `PositionsAreRight`, `[]PositionsRight`: line and column of a token are those of
  its first character.
- `NumbersAreConverted`, `ConversionsAgree`: `strtoll` and `strtod` take the token
  the scanner saw.
- `LexerIsScanner`, `LexerSpec => ScansByLongestMatch`: for every alphabet and every
  text the lexer implements `AkwTokens`.

The lexer has no length; that every loop in it ends at the NUL is `AfterStops` and
`AfterStays`: a scan over a set of characters without the NUL, from a position of
the text, stays in it.  `Scanned` is the invariant: between two tokens the NUL is
still ahead, and `ln`, `col` are what the line breaks before `curr` make them
(`Position`).  `MovedIs` carries this over a run of `next_char`, by induction;
`NumberFacts`, `StringFacts` and `WordFacts` say where each kind of token ends,
and `TokenKeeps` covers all of them.  `Converted` adds what the conversion of the
last number would take if it were done now: the token, or the token and a dot
behind it, which can only be the first of `..` if there is a next token at all
(`DotsConvert`).

For the refinement, the text of `AkwTokens` is what stands before the first NUL
(`TextFacts`), and both scanners start at the same character (`StartAgrees`).  The
languages of `AkwTokens` are then said of the memory instead of a subsequence
(`PartFacts`), and the first character decides which of them a part can be in
(`ClassIs`); no class needs an induction, because each either fixes the length or
says the same of all characters up to the end.  Numbers are the hard case:
`NumeralTo(k)` says that a numeral ends at `k`, and by `IsNumeralThere` and
`NoNumeralBeyond` the longest ends before `NumeralEnd`, which is where `match_number`
stops or the exponent it refuses begins.  There the refusal has to be that of
`AkwTokens`: a number is cut short just when a letter, a digit or an underscore
follows.  `EofSplits` to `UnexpectedRejected` map each try to `Split`, `Accept` or
`Reject`.  The invariant they add is `OnText`: no NUL has been passed yet.

### Storage and arrays

- `GrownIsTheLoop` (`AkwBufferProofs`): the least sufficient capacity the models
  use is what the doubling loop of `akw_vector_ensure_capacity` arrives at.
- `StorageAlwaysOK`, `ArraysSpec => []StorageOK`; `OverrunsNeedOverflow`,
  `OverrunsOnlyByOverflow`; `CountsAlwaysExact`, `[]CountsExact`;
  `FreedOnlyAfterRemoveAt`, `[]FreedOnlyByRemoveAt` (`AkwArraysProofs`).
- `ArraysAreSequences`, `ArraysSpec => ImplementsSequences`: the counted arrays
  implement the sequences of `AkwSequences`, up to the first reference given back
  in excess.

`GrownIsLeast` gets the properties of the capacities from `RecursionExists`; the
rest about storage is that every write is preceded by a request it fits
(`EnsureHolds`, `ExtendedHolds`), except that the sum of two counts may wrap.

The fifteen calls of the array library are five kinds of step: nothing changes,
an object is made, one is altered, a reference of the caller is given up, an
object is released (`StepKinds`, from one lemma per function).  Three invariants
are proved once per kind instead of once per function: `Stored` (every address is
that of an object), `Sized` (buffers count the elements) and `Counted` (a count is
the places that hold the object, its occurrences among the releases and what
`akw_array_remove_at` gave back in excess).  The places are pairs of object and
index, counted by `EntriesChange`.  From `Counted`, what the caller can reach has a
positive count unless something was lost, hence `FreedOnlyByRemoveAt`.

For the refinement the fifteen calls are five `Deeds` seen from the caller: an
array is created, one becomes another sequence, a call is declined, a reference is
dropped, or nothing is seen (`StepDeeds`).  `CreatesPromised` to `StaysPromised`
map each to a step of `AkwSequences` or to a stutter.  What the mapping needs of
the state is `OneEach`, every object has one handle, and `Kept`, which follows from
the invariants above: no array is too long, and while nothing is lost all that the
caller can reach is live.  Concrete and abstract sequences each define what is
reachable by recursion, over different graphs and in different numbers of rounds.
Both are the least set closed under their graph (`RoundsReach`: as many rounds as
there are places are enough, since each but the last adds one), and where the
graphs agree the least sets do (`LeastIsUnique`).  So releasing an object the
caller cannot reach, however deep the cascade, changes nothing for it.

### Only model-checked

- Liveness: `CompileTerminates`, `Terminates`, `EveryTextEnds`.  The installed
  provers prove nothing about fairness and `ENABLED`.
- `PrintsMeaning`, `NoRefOutlivesVariable` and `CrashesOnlyWhereUnchecked`:
  `AkwMeaning` evaluates with RECURSIVE operators, out of the provers' reach, as is
  induction over the structure of a text.

## What is not modelled

- The wording of messages, the dump, how values are printed.
- What strings contain; the value of a double that is no integer; overflow of
  `int64_t` in ranges.
- What C leaves undefined in arithmetic: `akw_is_int` and `akw_as_int` cast an
  infinity or a NaN, which a division by zero gives, to `int64_t`.  Here these are no
  integers, which is what the conversions of current processors come to.
  `NeverCrashes` and `CrashesOnlyWhereUnchecked` say nothing about it.
- Requests for more capacity than there is: `New` and `Reserve` have the branch that
  refuses them, but the caller of `AkwArrays` asks for `Capacities` only.  The
  refusals that are reached are those of arrays that get too long.
- Failing allocation.  Nobody checks the results of `malloc` and `realloc`; the
  next write ends the program.
- The growth of the code and of the constants by doubling: the compiler's model
  keeps only the limit.  `AkwBuffer` has the growth.
- Characters outside ASCII, for which `isspace` and the like are called with a
  negative number where `char` is signed.
- The depth of the C stack, on which handlers and release recurse.
- Lexer and compiler in one run: the compiler gets tokens, and
  `ScansByLongestMatch` says which tokens a text has.

## Plan

In this order; all are done.

1. `AkwValue`, `AkwChunk`, `AkwCompiler`, and `AkwScopes` with the conservation
   law of the stack.
2. `AkwVM` and `Akwan`: the ledger of references across compiler and VM.
3. Runs for expressions, statements, blocks, objects and operands.
4. `TypeCorrect`, `SlotsAreNumbered`, `LexerStopsAtEof`.
5. `AkwBuffer`, `AkwArrays`: the copying and in-place operations with their
   counts, as an implementation of `AkwSequences`.
6. `AkwLexer` as an implementation of `AkwTokens`.
7. `AkwMeaning`: programs against a direct evaluation.
8. `AkwChecking`: the check-only mode beside the emitting mode, and
   `CompilesAsChecked`.
9. Theorems about names, code, the program, storage and arrays: each invariant a
   run checks that is true for every instance.
10. The ledger of references in `Akwan`: nothing held is freed, nothing but an
    assignment leaks, and without one nothing is left.
11. The stack discipline of compiled code: `OperandsReady` to `LocalsInPlace`, and
    from it `StoresInUse`, `RefsPointToStack` and `NeverCrashes`; the lexer's
    positions and conversions.
12. The refinements of `AkwSequences` by the array library and of `AkwTokens` by
    the lexer, step by step.

What is left: runs in which an array literal has more elements than its count can
hold.
