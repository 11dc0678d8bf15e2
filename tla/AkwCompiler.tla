---------------------------- MODULE AkwCompiler ----------------------------
(***************************************************************************)
(* The single-pass compiler (src/compiler.c): a recursive-descent parser   *)
(* that emits bytecode as it goes.                                         *)
(*                                                                         *)
(* The C call stack is `todo`, the sequence of the function calls and the  *)
(* statements still to be executed, the next one first.  A compile_xxx     *)
(* function replaces itself by the calls it makes, in order; as every call *)
(* is followed by "if (!akw_compiler_is_ok(comp)) return;", the first      *)
(* error abandons all of `todo`, which is then never looked at again.      *)
(*                                                                         *)
(* The source text is a concatenation of at most MaxFragments members of   *)
(* Fragments, drawn when the lexer gets there: a fragment is a sequence of *)
(* tokens, from a single token up to a whole statement.                    *)
(***************************************************************************)
EXTENDS AkwChunk, FiniteSets

CONSTANTS
  Names,         \* the identifiers in source text
  Fragments,     \* the pieces (sequences of tokens) that source text is made of
  MaxFragments,  \* bound on the length of the source, in fragments
  UINT8_MAX,     \* 255 in the code; smaller in the runs that reach the limit
  MaxCapacity,   \* AKW_MAX_CAPACITY: most bytes of code, most constants
  CheckOnly      \* AKW_COMPILER_FLAG_CHECK_ONLY: parse and check, emit nothing

\* "None" is the token before the lexer has run; "Error" stands for text the
\* lexer rejects.  The kind Number is two: a number may be whole, as the 1 of
\* 1..5, which the lexer does not take for an Int.
TokenKinds ==
  {"None", "Error", "Eof", "Comma", "Semicolon", "LParen", "RParen", "LBracket",
   "RBracket", "LBrace", "RBrace", "Amp", "Eq", "Plus", "Minus", "Star", "Slash",
   "Percent", "DotDot", "Int", "Number", "WholeNumber", "String", "FalseKw", "InoutKw", "LetKw",
   "NilKw", "ReturnKw", "TrueKw", "Name"}

\* `text` is the spelling of a Name, `num` the value of an Int or WholeNumber.
Tokens == [kind : TokenKinds, text : Names \union {""}, num : Nat]

Token(kind) == [kind |-> kind, text |-> "", num |-> 0]
NameToken(name) == [kind |-> "Name", text |-> name, num |-> 0]
IntToken(n) == [kind |-> "Int", text |-> "", num |-> n]

ASSUME FragmentsAssumption ==
  Fragments \subseteq Seq(Tokens) \ {<<>>}

ASSUME BoundsAssumption ==
  /\ MaxFragments \in Nat
  /\ UINT8_MAX \in Nat \ {0}
  /\ MaxCapacity \in Nat \ {0}
  /\ CheckOnly \in BOOLEAN

VARIABLES
  source,      \* the tokens of the current fragment the lexer has not reached
  fed,         \* number of fragments drawn so far
  tok,         \* lex.token
  rc,          \* comp->rc
  scopeDepth,  \* comp->scopeDepth
  variables,   \* comp->variables
  isRef,       \* comp->typeInfo.isRef
  todo         \* what remains to be executed

lexVars == <<source, fed, tok>>
compilerVars == <<source, fed, tok, rc, scopeDepth, variables, isRef, todo>>
vars == <<chunkVars, compilerVars>>

ErrorKinds == {"Lexical", "Syntax", "Semantic", "Type", "Range"}

\* An element of `todo`: what to execute, with the name or number it holds on
\* to (a local of the C function) across the calls before it.
Do(fn) == [fn |-> fn, name |-> "", n |-> 0]
DoName(fn, name) == [fn |-> fn, name |-> name, n |-> 0]
DoNum(fn, n) == [fn |-> fn, name |-> "", n |-> n]

Consume(kind) == DoName("consume", kind)
Operator(op) == DoNum("operator", op)
EmitOp(op) == DoNum("emit", op)

At(fn) == rc = "Ok" /\ todo # <<>> /\ Head(todo).fn = fn
Match(kind) == tok.kind = kind
Return == todo' = Tail(todo)
Call(items) == todo' = items \o Tail(todo)

-----------------------------------------------------------------------------
\* The lexer as the parser sees it.

\* akw_lexer_next delivers t; on an error it leaves lex.token alone.
Deliver(t) ==
  IF t.kind = "Error" THEN rc' = "Lexical" /\ tok' = tok
                      ELSE rc' = "Ok" /\ tok' = t

\* The macro next(c).
Advance ==
  \/ /\ source # <<>>
     /\ Deliver(Head(source))
     /\ source' = Tail(source)
     /\ fed' = fed
  \/ /\ source = <<>>
     /\ fed < MaxFragments
     /\ \E f \in Fragments : Deliver(Head(f)) /\ source' = Tail(f)
     /\ fed' = fed + 1
  \/ /\ source = <<>>
     /\ Deliver(Token("Eof"))
     /\ UNCHANGED <<source, fed>>

Fail(error) == rc' = error /\ UNCHANGED <<chunkVars, lexVars, scopeDepth, variables, isRef, todo>>

\* A step that only moves on in the source or in `todo`.
Parses == UNCHANGED <<chunkVars, scopeDepth, variables, isRef>>

\* Skip the current token, then make the calls.
SkipThen(items) == Advance /\ Call(items) /\ Parses
Then(items) == Call(items) /\ Parses /\ UNCHANGED <<lexVars, rc>>

-----------------------------------------------------------------------------
\* Emitting code.

\* Faulty variant: nobody looks at the result of the write.
EmitUnchecked(bytes) ==
  /\ code' = SubSeq(code \o bytes, 1, IF Len(code) + Len(bytes) <= MaxCapacity
                                      THEN Len(code) + Len(bytes) ELSE MaxCapacity)
  /\ rc' = "Ok"

\* emit_opcode and emit_byte, one byte after the other: a byte that does not
\* fit into the buffer is "code too large".
Emit(bytes) ==
  IF CheckOnly
  THEN rc' = "Ok" /\ code' = code
  ELSE LET fit == IF Len(code) + Len(bytes) <= MaxCapacity
                  THEN Len(bytes) ELSE MaxCapacity - Len(code)
       IN /\ code' = code \o SubSeq(bytes, 1, fit)
          /\ rc' = IF fit = Len(bytes) THEN "Ok" ELSE "Range"

\* The conversion (uint8_t).
Byte(n) == n % (UINT8_MAX + 1)

\* Faulty variant: the operand is the count after the constant was appended.
EmitConstantNext(v, h) ==
  /\ consts' = Append(consts, v)
  /\ heap' = Retain(h, v)
  /\ Emit(<<Op.Const, Byte(Len(consts) + 1)>>)

\* akw_chunk_append_constant, and the Const instruction that loads the constant:
\* its operand is the low byte of the index.  h is the heap with the constant.
EmitConstant(v, h) ==
  IF Len(consts) < MaxCapacity
  THEN /\ consts' = Append(consts, v)
       /\ heap' = Retain(h, v)
       /\ Emit(<<Op.Const, Byte(Len(consts))>>)
  ELSE /\ heap' = h
       /\ rc' = "Range"
       /\ UNCHANGED <<consts, code>>

-----------------------------------------------------------------------------
\* Variables.  A search of comp->variables runs from the last one down and
\* breaks at the first that is shallower than the current scope.

Searched(i) == \A j \in i..Len(variables) : variables[j].depth >= scopeDepth

\* Faulty variant: the loop ends before the first variable.
AlreadyDefinedExceptFirst(name) ==
  \E i \in DOMAIN variables \ {1} : Searched(i) /\ variables[i].name = name

\* define_variable compares the name with every variable searched, also with
\* those of closed inner scopes.
AlreadyDefined(name) ==
  \E i \in DOMAIN variables : Searched(i) /\ variables[i].name = name

\* Faulty variant: the variables of closed inner scopes are not skipped.
InScopeOrDeeper == {i \in DOMAIN variables : Searched(i)}

\* find_variable and pop_scope skip those of closed inner scopes.
InScope == {i \in DOMAIN variables : Searched(i) /\ variables[i].depth = scopeDepth}

\* Faulty variant: variables of the enclosing blocks are found too.
CandidatesOfOpenBlocks(name) ==
  {i \in DOMAIN variables : variables[i].depth <= scopeDepth /\ variables[i].name = name}

Candidates(name) == {i \in InScope : variables[i].name = name}

\* The variable a name means: the last one searched that has it.
FoundVariable(name) ==
  variables[CHOOSE i \in Candidates(name) : \A j \in Candidates(name) : j <= i]

\* Faulty variant: no limit on the number of variables.
CannotDefineAgain(name) == AlreadyDefined(name)

CannotDefine(name) == AlreadyDefined(name) \/ Len(variables) > UINT8_MAX

\* Faulty variant: slots are numbered from one.
DefineVariableFromOne(name, ref, outcome) ==
  IF CannotDefine(name)
  THEN rc' = "Semantic" /\ UNCHANGED variables
  ELSE /\ rc' = outcome
       /\ variables' = Append(variables,
            [name |-> name, depth |-> scopeDepth, isRef |-> ref, index |-> Byte(Len(variables) + 1)])

\* define_variable; `outcome` is what comp->rc becomes when it succeeds.
DefineVariable(name, ref, outcome) ==
  IF CannotDefine(name)
  THEN rc' = "Semantic" /\ UNCHANGED variables
  ELSE /\ rc' = outcome
       /\ variables' = Append(variables,
            [name |-> name, depth |-> scopeDepth, isRef |-> ref, index |-> Byte(Len(variables))])

-----------------------------------------------------------------------------
\* Statements.

\* akw_compiler_init reads the first token; typeInfo is left uninitialised.
BeginCompile ==
  /\ At("init")
  /\ SkipThen(<<Do("chunk")>>)

\* An emission that ends or goes on with the function; after an error the
\* compiler reads neither typeInfo nor todo again, so both may move on.
EmitThen(bytes, items) ==
  /\ Emit(bytes)
  /\ Call(items)
  /\ UNCHANGED <<consts, heap, lexVars, scopeDepth, variables>>

CompileChunk ==
  /\ At("chunk")
  /\ \/ ~Match("Eof") /\ Then(<<Do("stmt"), Do("chunk")>>)
     \/ Match("Eof") /\ EmitThen(<<Op.Nil, Op.Return>>, <<>>) /\ UNCHANGED isRef

CompileStmt ==
  /\ At("stmt")
  /\ \/ Match("LetKw") /\ SkipThen(<<Do("let")>>)
     \/ Match("InoutKw") /\ SkipThen(<<Do("inout")>>)
     \/ /\ Match("Name")
        /\ SkipThen(<<Consume("Eq"), Do("expr"), Consume("Semicolon"), DoName("assign", tok.text)>>)
     \/ Match("ReturnKw") /\ SkipThen(<<Do("return")>>)
     \/ Match("LBrace") /\ SkipThen(<<Do("pushScope")>>)
     \/ /\ tok.kind \notin {"LetKw", "InoutKw", "Name", "ReturnKw", "LBrace"}
        /\ Then(<<Do("expr"), Consume("Semicolon"), EmitOp(Op.Pop)>>)

\* Faulty variant: any token will do.
ConsumeAnyToken == At("consume") /\ SkipThen(<<>>)

\* The macro consume(c, t).
ConsumeToken ==
  /\ At("consume")
  /\ IF Match(Head(todo).name) THEN SkipThen(<<>>) ELSE Fail("Syntax")

EmitOpcode ==
  /\ At("emit")
  /\ EmitThen(<<Head(todo).n>>, <<>>)
  /\ UNCHANGED isRef

CompileLetStmt ==
  /\ At("let")
  /\ IF Match("Name") THEN SkipThen(<<DoName("letValue", tok.text)>>) ELSE Fail("Syntax")

\* Faulty variant: without an initialiser nothing is put on the stack.
LetValueUninitialised ==
  LET define == <<Consume("Semicolon"), DoName("define", Head(todo).name)>>
  IN /\ At("letValue")
     /\ IF Match("Eq") THEN SkipThen(<<Do("expr")>> \o define) ELSE Then(define)

LetValue ==
  LET define == <<Consume("Semicolon"), DoName("define", Head(todo).name)>>
  IN /\ At("letValue")
     /\ \/ Match("Eq") /\ SkipThen(<<Do("expr")>> \o define)
        \/ ~Match("Eq") /\ EmitThen(<<Op.Nil>>, define) /\ UNCHANGED isRef

Define ==
  /\ At("define")
  /\ DefineVariable(Head(todo).name, FALSE, "Ok")
  /\ Return
  /\ UNCHANGED <<chunkVars, lexVars, scopeDepth, isRef>>

CompileInoutStmt ==
  /\ At("inout")
  /\ IF Match("Name")
     THEN SkipThen(<<Consume("Eq"), Do("expr"), Consume("Semicolon"), DoName("defineInout", tok.text)>>)
     ELSE Fail("Syntax")

\* The variable is defined before the type of its value is looked at.
DefineInout ==
  /\ At("defineInout")
  /\ DefineVariable(Head(todo).name, TRUE, IF isRef THEN "Ok" ELSE "Type")
  /\ Return
  /\ UNCHANGED <<chunkVars, lexVars, scopeDepth, isRef>>

\* find_variable for `name`, then the instruction for the variable it finds:
\* `byRef` if the variable is an inout, `direct` otherwise.
UseVariable(name, byRef, direct, items) ==
  IF Candidates(name) = {}
  THEN rc' = "Semantic" /\ UNCHANGED <<chunkVars, lexVars, scopeDepth, variables, todo>>
  ELSE LET var == FoundVariable(name)
       IN EmitThen(<<IF var.isRef THEN byRef ELSE direct, var.index>>, items)

\* The end of compile_assign_stmt, once the value is on the stack.
AssignVariable ==
  /\ At("assign")
  /\ UseVariable(Head(todo).name, Op.SetLocalByRef, Op.SetLocal, <<>>)
  /\ UNCHANGED isRef

\* "return;" compiles to no code at all.
CompileReturnStmt ==
  /\ At("return")
  /\ \/ Match("Semicolon") /\ SkipThen(<<>>)
     \/ ~Match("Semicolon") /\ Then(<<Do("expr"), Consume("Semicolon"), EmitOp(Op.Return)>>)

PushScope ==
  /\ At("pushScope")
  /\ scopeDepth' = scopeDepth + 1
  /\ Call(<<Do("block")>>)
  /\ UNCHANGED <<chunkVars, lexVars, rc, variables, isRef>>

\* Faulty variant: a block goes on at the end of the file.
CompileBlockStmtAtEof ==
  /\ At("block")
  /\ CASE Match("RBrace") -> SkipThen(<<Do("popScope")>>)
       [] Match("Eof") -> Then(<<Do("block")>>)
       [] OTHER -> Then(<<Do("stmt"), Do("block")>>)

CompileBlockStmt ==
  /\ At("block")
  /\ \/ ~Match("RBrace") /\ Then(<<Do("stmt"), Do("block")>>)
     \/ Match("RBrace") /\ SkipThen(<<Do("popScope")>>)

\* Faulty variants: the block's variables stay on the stack; the depth stays.
PopScopeKeepingValues ==
  /\ At("popScope")
  /\ scopeDepth' = scopeDepth - 1
  /\ Return
  /\ UNCHANGED <<chunkVars, lexVars, rc, variables, isRef>>
PopScopeKeepingDepth ==
  /\ At("popScope")
  /\ EmitThen([i \in 1..Cardinality(InScope) |-> Op.Pop], <<>>)
  /\ UNCHANGED isRef

\* Faulty variant: a check leaves the function with the first Pop it skips.
PopScopeUnlessChecking ==
  /\ At("popScope")
  /\ Emit([i \in 1..Cardinality(InScope) |-> Op.Pop])
  /\ scopeDepth' = IF rc' = "Ok" /\ ~(CheckOnly /\ InScope # {}) THEN scopeDepth - 1 ELSE scopeDepth
  /\ Return
  /\ UNCHANGED <<consts, heap, lexVars, variables, isRef>>

\* One Pop for every variable in scope; the variables stay in comp->variables.
\* An emission that fails returns before the depth is decremented.
PopScope ==
  /\ At("popScope")
  /\ Emit([i \in 1..Cardinality(InScope) |-> Op.Pop])
  /\ scopeDepth' = IF rc' = "Ok" THEN scopeDepth - 1 ELSE scopeDepth
  /\ Return
  /\ UNCHANGED <<consts, heap, lexVars, variables, isRef>>

-----------------------------------------------------------------------------
\* Expressions.

CompileExpr ==
  /\ At("expr")
  /\ Then(<<Do("add"), Do("range")>>)

\* At most one "..": a second one is not an operator of this expression.
RangeOperator ==
  /\ At("range")
  /\ \/ Match("DotDot") /\ SkipThen(<<Do("add"), Operator(Op.Range)>>)
     \/ ~Match("DotDot") /\ Then(<<>>)

AddOperators == [Plus |-> Op.Add, Minus |-> Op.Sub]
MulOperators == [Star |-> Op.Mul, Slash |-> Op.Div, Percent |-> Op.Mod]

\* Faulty variant: the operator is emitted before its right operand.
OperatorLoopPrefix(loop, operand, operators) ==
  /\ At(loop)
  /\ IF tok.kind \in DOMAIN operators
     THEN SkipThen(<<Operator(operators[tok.kind]), Do(operand), Do(loop)>>)
     ELSE Then(<<>>)

\* Faulty variant: the operator waits for all of the operands to its right.
OperatorLoopRight(loop, operand, operators) ==
  /\ At(loop)
  /\ IF tok.kind \in DOMAIN operators
     THEN SkipThen(<<Do(operand), Do(loop), Operator(operators[tok.kind])>>)
     ELSE Then(<<>>)

\* The loop of a left-associative level: as long as one of its operators
\* follows, an operand of the next level and the operator's instruction.
OperatorLoop(loop, operand, operators) ==
  /\ At(loop)
  /\ \/ /\ tok.kind \in DOMAIN operators
        /\ SkipThen(<<Do(operand), Operator(operators[tok.kind]), Do(loop)>>)
     \/ tok.kind \notin DOMAIN operators /\ Then(<<>>)

CompileAddExpr == At("add") /\ Then(<<Do("mul"), Do("addLoop")>>)
AddLoop == OperatorLoop("addLoop", "mul", AddOperators)
CompileMulExpr == At("mul") /\ Then(<<Do("unary"), Do("mulLoop")>>)
MulLoop == OperatorLoop("mulLoop", "unary", MulOperators)

\* Faulty variant: typeInfo is not reset.
EmitOperatorKeepingType ==
  /\ At("operator")
  /\ EmitThen(<<Head(todo).n>>, <<>>)
  /\ UNCHANGED isRef

\* An operator, or the literal nil, false or true: its result is no reference.
EmitOperator ==
  /\ At("operator")
  /\ EmitThen(<<Head(todo).n>>, <<>>)
  /\ isRef' = FALSE

CompileUnaryExpr ==
  /\ At("unary")
  /\ \/ Match("Minus") /\ SkipThen(<<Do("unary"), Operator(Op.Neg)>>)
     \/ ~Match("Minus") /\ Then(<<Do("prim")>>)

\* What compile_prim_expr does after the token it starts with.
PrimCalls ==
  [NilKw    |-> <<Operator(Op.Nil)>>,
   FalseKw  |-> <<Operator(Op.False)>>,
   TrueKw   |-> <<Operator(Op.True)>>,
   Int      |-> <<DoNum("int", tok.num)>>,
   Number   |-> <<Do("number")>>,
   WholeNumber |-> <<DoNum("whole", tok.num)>>,
   String   |-> <<Do("string")>>,
   LBracket |-> <<Do("array")>>,
   Amp      |-> <<Do("ref")>>,
   Name     |-> <<DoName("variable", tok.text)>>,
   LParen   |-> <<Do("expr"), Consume("RParen")>>]

CompilePrimExpr ==
  /\ At("prim")
  /\ IF tok.kind \in DOMAIN PrimCalls THEN SkipThen(PrimCalls[tok.kind]) ELSE Fail("Syntax")

\* Faulty variant: every integer becomes an operand.
CompileIntShort ==
  /\ At("int")
  /\ EmitThen(<<Op.Int, Head(todo).n>>, <<>>)
  /\ UNCHANGED isRef

\* A number the instruction can hold is its operand.  typeInfo stays what the
\* expression compiled before has left.
CompileInt ==
  /\ At("int")
  /\ \/ /\ ~CheckOnly
        /\ Head(todo).n > UINT8_MAX
        /\ EmitConstant(IntValue(Head(todo).n), heap)
     \/ /\ CheckOnly \/ Head(todo).n <= UINT8_MAX
        /\ Emit(<<Op.Int, Head(todo).n>>)
        /\ UNCHANGED <<consts, heap>>
  /\ Return
  /\ UNCHANGED <<lexVars, scopeDepth, variables, isRef>>

NumberValue == IF At("whole") THEN IntValue(Head(todo).n) ELSE FractionValue

\* Faulty variant: a check stops before typeInfo is reset.
CompileNumberChecked ==
  /\ At("number") \/ At("whole")
  /\ IF CheckOnly THEN UNCHANGED <<chunkVars, rc>> ELSE EmitConstant(NumberValue, heap)
  /\ isRef' = (CheckOnly /\ isRef)
  /\ Return
  /\ UNCHANGED <<lexVars, scopeDepth, variables>>

\* Always a constant, whole or not.
CompileNumber ==
  /\ At("number") \/ At("whole")
  /\ IF CheckOnly THEN UNCHANGED <<chunkVars, rc>> ELSE EmitConstant(NumberValue, heap)
  /\ isRef' = FALSE
  /\ Return
  /\ UNCHANGED <<lexVars, scopeDepth, variables>>

\* A new string object each time: equal literals are not shared.
CompileString ==
  /\ At("string")
  /\ IF CheckOnly THEN UNCHANGED <<chunkVars, rc>>
     ELSE EmitConstant(ObjectValue("String", NewId(heap)), Append(heap, StringObject))
  /\ isRef' = FALSE
  /\ Return
  /\ UNCHANGED <<lexVars, scopeDepth, variables>>

CompileArray ==
  /\ At("array")
  /\ \/ Match("RBracket") /\ SkipThen(<<DoNum("arrayEnd", 0)>>)
     \/ ~Match("RBracket") /\ Then(<<Do("expr"), DoNum("arrayLoop", 1)>>)

\* The element count is a uint8_t.
ArrayLoop ==
  LET n == Head(todo).n
  IN /\ At("arrayLoop")
     /\ \/ Match("Comma") /\ SkipThen(<<Do("expr"), DoNum("arrayLoop", Byte(n + 1))>>)
        \/ ~Match("Comma") /\ Then(<<Consume("RBracket"), DoNum("arrayEnd", n)>>)

\* Faulty variant: the operand is missing.
ArrayEndWithoutCount ==
  /\ At("arrayEnd")
  /\ EmitThen(<<Op.Array>>, <<>>)
  /\ isRef' = FALSE

ArrayEnd ==
  /\ At("arrayEnd")
  /\ EmitThen(<<Op.Array, Head(todo).n>>, <<>>)
  /\ isRef' = FALSE

CompileRef ==
  /\ At("ref")
  /\ IF Match("Name") THEN SkipThen(<<DoName("refTo", tok.text)>>) ELSE Fail("Syntax")

\* A reference to an inout variable is the reference it holds.
RefTo ==
  /\ At("refTo")
  /\ UseVariable(Head(todo).name, Op.GetLocal, Op.LocalRef, <<>>)
  /\ isRef' = TRUE

CompileVariable ==
  /\ At("variable")
  /\ UseVariable(Head(todo).name, Op.GetLocalByRef, Op.GetLocal, <<Do("indexLoop")>>)
  /\ UNCHANGED isRef

IndexLoop ==
  /\ At("indexLoop")
  /\ \/ /\ Match("LBracket")
        /\ SkipThen(<<Do("expr"), Consume("RBracket"), EmitOp(Op.GetElement), Do("indexLoop")>>)
     \/ /\ ~Match("LBracket")
        /\ isRef' = FALSE
        /\ Return
        /\ UNCHANGED <<chunkVars, lexVars, rc, scopeDepth, variables>>

-----------------------------------------------------------------------------

CompilerInit ==
  /\ code = <<>> /\ consts = <<>> /\ heap = <<>>
  /\ source = <<>> /\ fed = 0 /\ tok = Token("None")
  /\ rc = "Ok"
  /\ scopeDepth = 0
  /\ variables = <<>>
  /\ isRef \in BOOLEAN
  /\ todo = <<Do("init")>>

Statement ==
  \/ BeginCompile \/ CompileChunk \/ CompileStmt \/ ConsumeToken \/ EmitOpcode
  \/ CompileLetStmt \/ LetValue \/ Define \/ CompileInoutStmt \/ DefineInout
  \/ AssignVariable \/ CompileReturnStmt \/ PushScope \/ CompileBlockStmt \/ PopScope

Expression ==
  \/ CompileExpr \/ RangeOperator \/ CompileAddExpr \/ AddLoop \/ CompileMulExpr \/ MulLoop
  \/ EmitOperator \/ CompileUnaryExpr \/ CompilePrimExpr \/ CompileInt \/ CompileNumber
  \/ CompileString \/ CompileArray \/ ArrayLoop \/ ArrayEnd \/ CompileRef \/ RefTo
  \/ CompileVariable \/ IndexLoop

CompilerNext == Statement \/ Expression

\* The compiler is a sequential program: it always takes its next step.
CompilerSpec == CompilerInit /\ [][CompilerNext]_vars /\ WF_vars(CompilerNext)

-----------------------------------------------------------------------------
\* Type invariant.

Functions ==
  {"chunk", "stmt", "let", "letValue", "define", "inout", "defineInout", "assign", "return",
   "pushScope", "block", "popScope", "expr", "range", "add", "addLoop", "mul", "mulLoop",
   "unary", "prim", "int", "number", "whole", "string", "array", "ref", "refTo", "variable", "indexLoop"}

\* What todo is made of: only an opcode without an operand is emitted on its own,
\* the count of an array's elements is a byte, and the token consumed is never Eof.
Calls ==
  [fn : Functions, name : Names \union {""}, n : Nat]
  \union [fn : {"consume"}, name : TokenKinds \ {"None", "Error", "Eof"}, n : {0}]
  \union [fn : {"emit", "operator"}, name : {""}, n : Opcodes \ OperandOps]
  \union [fn : {"arrayLoop", "arrayEnd"}, name : {""}, n : 0..UINT8_MAX]

\* Before the first token has been read.
Starting == todo = <<Do("init")>> /\ tok = Token("None")

Variables == [name : Names \union {""}, depth : Int, isRef : BOOLEAN, index : 0..UINT8_MAX]

\* No byte is wider than a uint8_t, and neither buffer outgrows its limit.
ChunkTypeOK ==
  /\ code \in Seq(Opcodes \union 0..UINT8_MAX) /\ Len(code) <= MaxCapacity
  /\ consts \in Seq(Values) /\ Len(consts) <= MaxCapacity
  /\ heap \in Seq(Objects)

LexerTypeOK ==
  /\ source \in Seq(Tokens)
  /\ fed \in 0..MaxFragments
  /\ tok \in Tokens

ScopeTypeOK ==
  /\ scopeDepth \in Int
  /\ variables \in Seq(Variables)

\* The state of the compiler and of the chunk has the types the code gives it;
\* above all, every byte of the code is an opcode or fits into a uint8_t.
TypeOK ==
  /\ ChunkTypeOK
  /\ LexerTypeOK
  /\ rc \in {"Ok"} \union ErrorKinds
  /\ ScopeTypeOK
  /\ isRef \in BOOLEAN
  /\ todo \in Seq(Calls) \/ Starting

-----------------------------------------------------------------------------
\* Safety.

Done == rc # "Ok" \/ todo = <<>>

\* Slot n belongs to the n-th variable, and no slot number was cut off to fit
\* into its byte (define_variable, "too many variables").
SlotNumbering ==
  \A i \in DOMAIN variables : variables[i].index = i - 1

\* scopeDepth counts the blocks whose end is still to come, so that the top
\* level is depth 0 again after any nesting.
DepthCountsBlocks ==
  rc = "Ok" =>
    scopeDepth = Cardinality({k \in DOMAIN todo : todo[k].fn \in {"block", "popScope"}})

\* The parser never asks the lexer for a token after the end of the file, where
\* the lexer would go on behind the terminating NUL.
NeverReadsPastEof ==
  [][Match("Eof") => UNCHANGED lexVars]_vars

\* Every source text is accepted or rejected: the compiler terminates.
CompileTerminates == <>Done

=============================================================================
