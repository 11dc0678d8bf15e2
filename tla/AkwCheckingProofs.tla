-------------------------- MODULE AkwCheckingProofs --------------------------
(***************************************************************************)
(* Proof that compiling is checking and emitting (ChecksAlike), for every  *)
(* value of the constants: each action of the compiler is the same action  *)
(* of the checker once the chunk is forgotten, unless the chunk is full.   *)
(***************************************************************************)
EXTENDS AkwChecking, TLAPS

Full == rc' = "Range"

-----------------------------------------------------------------------------
\* The pieces actions are made of.

\* The opcodes and the pending calls are the same values in both.
LEMMA SameOp == Op = Checking!Op
  BY DEF Op, Checking!Op

LEMMA SameCalls ==
  /\ \A fn : Do(fn) = Checking!Do(fn)
  /\ \A fn, name : DoName(fn, name) = Checking!DoName(fn, name)
  /\ \A fn, n : DoNum(fn, n) = Checking!DoNum(fn, n)
  /\ \A kind : Consume(kind) = Checking!Consume(kind)
  /\ \A op : Operator(op) = Checking!Operator(op)
  /\ \A op : EmitOp(op) = Checking!EmitOp(op)
  BY DEF Do, Checking!Do, DoName, Checking!DoName, DoNum, Checking!DoNum, Consume,
         Checking!Consume, Operator, Checking!Operator, EmitOp, Checking!EmitOp

LEMMA SameTests ==
  /\ \A fn : At(fn) = Checking!At(fn)
  /\ \A kind : Match(kind) = Checking!Match(kind)
  BY DEF At, Checking!At, Match, Checking!Match

\* Both search the same variables.
LEMMA SameScope ==
  /\ InScope = Checking!InScope
  /\ \A name : Candidates(name) = Checking!Candidates(name)
  /\ \A name : FoundVariable(name) = Checking!FoundVariable(name)
  /\ \A name : CannotDefine(name) = Checking!CannotDefine(name)
<1>1. \A i : Searched(i) = Checking!Searched(i)
  BY DEF Searched, Checking!Searched
<1>2. InScope = Checking!InScope
  BY <1>1 DEF InScope, Checking!InScope
<1>3. \A name : Candidates(name) = Checking!Candidates(name)
  BY <1>2 DEF Candidates, Checking!Candidates
<1>4. \A name : FoundVariable(name) = Checking!FoundVariable(name)
  BY <1>3 DEF FoundVariable, Checking!FoundVariable
<1>5. \A name : CannotDefine(name) = Checking!CannotDefine(name)
  BY <1>1 DEF CannotDefine, Checking!CannotDefine, AlreadyDefined, Checking!AlreadyDefined
<1>. QED  BY <1>2, <1>3, <1>4, <1>5

\* Reading a token, and moving on in todo, touch no chunk.
LEMMA SameSkipThen ==
  ASSUME NEW items, SkipThen(items)
  PROVE  Checking!SkipThen(items)
<1>1. Checking!Advance
  BY DEF SkipThen, Advance, Checking!Advance, Deliver, Checking!Deliver, Token, Checking!Token
<1>. QED
  BY <1>1 DEF SkipThen, Checking!SkipThen, Call, Checking!Call, Parses, Checking!Parses,
              chunkVars, Checking!chunkVars

LEMMA SameThen ==
  ASSUME NEW items, Then(items)
  PROVE  Checking!Then(items)
  BY DEF Then, Checking!Then, Call, Checking!Call, Parses, Checking!Parses,
         chunkVars, Checking!chunkVars, lexVars, Checking!lexVars

LEMMA SameFail ==
  ASSUME NEW error, Fail(error)
  PROVE  Checking!Fail(error)
  BY DEF Fail, Checking!Fail, chunkVars, Checking!chunkVars, lexVars, Checking!lexVars

\* An emission succeeds in a check; it fails only for a chunk that is full.
LEMMA SameEmit ==
  ASSUME NEW bytes, Emit(bytes)
  PROVE  Full \/ (rc' = "Ok" /\ \A any : Checking!Emit(any))
  BY DEF Emit, Checking!Emit, Full

LEMMA SameEmitThen ==
  ASSUME NEW bytes, NEW items, EmitThen(bytes, items)
  PROVE  Full \/ \A any : Checking!EmitThen(any, items)
<1>1. Full \/ \A any : Checking!Emit(any)
  BY SameEmit DEF EmitThen
<1>. QED
  BY <1>1 DEF EmitThen, Checking!EmitThen, Call, Checking!Call, lexVars, Checking!lexVars

\* So does a constant, where a check does nothing.
LEMMA SameConstant ==
  ASSUME NEW v, NEW h, EmitConstant(v, h)
  PROVE  Full \/ rc' = "Ok"
  BY SameEmit DEF EmitConstant, Full

LEMMA SameUseVariable ==
  ASSUME NEW name, NEW byRef, NEW direct, NEW items, UseVariable(name, byRef, direct, items)
  PROVE  Full \/ \A r, d : Checking!UseVariable(name, r, d, items)
<1>1. CASE Candidates(name) = {}
  BY <1>1, SameScope DEF UseVariable, Checking!UseVariable, chunkVars, Checking!chunkVars,
     lexVars, Checking!lexVars
<1>2. CASE Candidates(name) # {}
  <2>1. Full \/ \A any : Checking!EmitThen(any, items)
    BY <1>2, SameEmitThen DEF UseVariable
  <2>. QED
    BY <1>2, <2>1, SameScope DEF Checking!UseVariable
<1>. QED  BY <1>1, <1>2

LEMMA SameDefineVariable ==
  ASSUME NEW name, NEW ref, NEW outcome, DefineVariable(name, ref, outcome)
  PROVE  Checking!DefineVariable(name, ref, outcome)
  BY SameScope DEF DefineVariable, Checking!DefineVariable, Byte, Checking!Byte

-----------------------------------------------------------------------------
\* One step per action.

LEMMA SameStatement ==
  ASSUME Statement
  PROVE  Full \/ Checking!Statement
<1>. USE SameTests, SameCalls DEF Checking!Statement
<1>1. CASE BeginCompile
  BY <1>1, SameSkipThen DEF BeginCompile, Checking!BeginCompile
<1>2. CASE CompileChunk
  <2>1. CASE Match("Eof")
    BY <1>2, <2>1, SameEmitThen DEF CompileChunk, Checking!CompileChunk
  <2>2. CASE ~Match("Eof")
    BY <1>2, <2>2, SameThen DEF CompileChunk, Checking!CompileChunk
  <2>. QED  BY <2>1, <2>2
<1>3. CASE CompileStmt
  <2>1. \A items : /\ SkipThen(items) => Checking!SkipThen(items)
                   /\ Then(items) => Checking!Then(items)
    BY SameSkipThen, SameThen
  <2>. QED  BY <1>3, <2>1, SameOp DEF CompileStmt, Checking!CompileStmt
<1>4. CASE ConsumeToken
  BY <1>4, SameSkipThen, SameFail DEF ConsumeToken, Checking!ConsumeToken
<1>5. CASE EmitOpcode
  BY <1>5, SameEmitThen DEF EmitOpcode, Checking!EmitOpcode
<1>6. CASE CompileLetStmt
  BY <1>6, SameSkipThen, SameFail DEF CompileLetStmt, Checking!CompileLetStmt
<1>7. CASE LetValue
  BY <1>7, SameSkipThen, SameEmitThen DEF LetValue, Checking!LetValue
<1>8. CASE Define
  BY <1>8, SameDefineVariable
     DEF Define, Checking!Define, Return, Checking!Return, chunkVars, Checking!chunkVars,
         lexVars, Checking!lexVars
<1>9. CASE CompileInoutStmt
  BY <1>9, SameSkipThen, SameFail DEF CompileInoutStmt, Checking!CompileInoutStmt
<1>10. CASE DefineInout
  BY <1>10, SameDefineVariable
     DEF DefineInout, Checking!DefineInout, Return, Checking!Return, chunkVars,
         Checking!chunkVars, lexVars, Checking!lexVars
<1>11. CASE AssignVariable
  BY <1>11, SameUseVariable DEF AssignVariable, Checking!AssignVariable
<1>12. CASE CompileReturnStmt
  BY <1>12, SameSkipThen, SameThen, SameOp DEF CompileReturnStmt, Checking!CompileReturnStmt
<1>13. CASE PushScope
  BY <1>13 DEF PushScope, Checking!PushScope, Call, Checking!Call, chunkVars,
               Checking!chunkVars, lexVars, Checking!lexVars
<1>14. CASE CompileBlockStmt
  BY <1>14, SameSkipThen, SameThen DEF CompileBlockStmt, Checking!CompileBlockStmt
<1>15. CASE PopScope
  \* The depth changes after the last Pop, which a check does not emit.
  <2>1. Full \/ (rc' = "Ok" /\ \A any : Checking!Emit(any))
    BY <1>15, SameEmit DEF PopScope
  <2>. QED
    BY <1>15, <2>1 DEF PopScope, Checking!PopScope, Return, Checking!Return,
                       lexVars, Checking!lexVars
<1>. QED
  BY <1>1, <1>2, <1>3, <1>4, <1>5, <1>6, <1>7, <1>8, <1>9, <1>10, <1>11, <1>12, <1>13,
     <1>14, <1>15 DEF Statement

LEMMA SameExpression ==
  ASSUME Expression
  PROVE  Full \/ Checking!Expression
<1>. USE SameTests, SameCalls, SameOp DEF Checking!Expression
<1>1. CASE CompileExpr
  BY <1>1, SameThen DEF CompileExpr, Checking!CompileExpr
<1>2. CASE RangeOperator
  BY <1>2, SameThen, SameSkipThen DEF RangeOperator, Checking!RangeOperator
<1>3. \A loop, operand, operators :
        OperatorLoop(loop, operand, operators) => Checking!OperatorLoop(loop, operand, operators)
  <2>1. \A items : /\ SkipThen(items) => Checking!SkipThen(items)
                   /\ Then(items) => Checking!Then(items)
    BY SameSkipThen, SameThen
  <2>. QED  BY <2>1 DEF OperatorLoop, Checking!OperatorLoop
<1>4. CASE CompileAddExpr
  BY <1>4, SameThen DEF CompileAddExpr, Checking!CompileAddExpr
<1>5. CASE AddLoop
  BY <1>3, <1>5 DEF AddLoop, Checking!AddLoop, AddOperators, Checking!AddOperators
<1>6. CASE CompileMulExpr
  BY <1>6, SameThen DEF CompileMulExpr, Checking!CompileMulExpr
<1>7. CASE MulLoop
  BY <1>3, <1>7 DEF MulLoop, Checking!MulLoop, MulOperators, Checking!MulOperators
<1>8. CASE EmitOperator
  BY <1>8, SameEmitThen DEF EmitOperator, Checking!EmitOperator
<1>9. CASE CompileUnaryExpr
  BY <1>9, SameThen, SameSkipThen DEF CompileUnaryExpr, Checking!CompileUnaryExpr
<1>10. CASE CompilePrimExpr
  <2>1. PrimCalls = Checking!PrimCalls
    BY DEF PrimCalls, Checking!PrimCalls
  <2>. QED
    BY <1>10, <2>1, SameSkipThen, SameFail DEF CompilePrimExpr, Checking!CompilePrimExpr
<1>11. CASE CompileInt
  \* A number that needs a constant takes the other branch in a check.
  <2>1. Full \/ rc' = "Ok"
    BY <1>11, SameEmit, SameConstant DEF CompileInt
  <2>2. Full \/ \A any : Checking!Emit(any)
    BY <2>1 DEF Checking!Emit
  <2>. QED
    BY <1>11, <2>2 DEF CompileInt, Checking!CompileInt, Return, Checking!Return,
                       lexVars, Checking!lexVars
<1>12. CASE CompileNumber
  <2>1. Full \/ rc' = "Ok"
    BY <1>12, SameConstant DEF CompileNumber, At
  <2>. QED
    BY <1>12, <2>1 DEF CompileNumber, Checking!CompileNumber, Return, Checking!Return, At,
                       lexVars, Checking!lexVars, chunkVars, Checking!chunkVars
<1>13. CASE CompileString
  <2>1. Full \/ rc' = "Ok"
    BY <1>13, SameConstant DEF CompileString, At
  <2>. QED
    BY <1>13, <2>1 DEF CompileString, Checking!CompileString, Return, Checking!Return, At,
                       lexVars, Checking!lexVars, chunkVars, Checking!chunkVars
<1>14. CASE CompileArray
  BY <1>14, SameThen, SameSkipThen DEF CompileArray, Checking!CompileArray
<1>15. CASE ArrayLoop
  BY <1>15, SameThen, SameSkipThen DEF ArrayLoop, Checking!ArrayLoop, Byte, Checking!Byte
<1>16. CASE ArrayEnd
  BY <1>16, SameEmitThen DEF ArrayEnd, Checking!ArrayEnd
<1>17. CASE CompileRef
  BY <1>17, SameSkipThen, SameFail DEF CompileRef, Checking!CompileRef
<1>18. CASE RefTo
  BY <1>18, SameUseVariable DEF RefTo, Checking!RefTo
<1>19. CASE CompileVariable
  BY <1>19, SameUseVariable DEF CompileVariable, Checking!CompileVariable
<1>20. CASE IndexLoop
  BY <1>20, SameSkipThen DEF IndexLoop, Checking!IndexLoop, Return, Checking!Return,
     lexVars, Checking!lexVars, chunkVars, Checking!chunkVars
<1>. QED
  BY <1>1, <1>2, <1>4, <1>5, <1>6, <1>7, <1>8, <1>9, <1>10, <1>11, <1>12, <1>13, <1>14,
     <1>15, <1>16, <1>17, <1>18, <1>19, <1>20 DEF Expression

-----------------------------------------------------------------------------
\* Compiling is checking and emitting: for every text, every alphabet and every
\* limit the compiler reads, declares and reports what a check (the flag
\* AKW_COMPILER_FLAG_CHECK_ONLY) does, up to the point where the chunk is full.
THEOREM CompilesAsChecked == CompilerSpec => ChecksAlike
<1>1. CompilerInit => Checking!CompilerInit
  BY SameCalls, SameTests DEF CompilerInit, Checking!CompilerInit, Token, Checking!Token
<1>2. [CompilerNext]_vars => [rc' = "Range" \/ Checking!CompilerNext]_compilerVars
  BY SameStatement, SameExpression
     DEF CompilerNext, Checking!CompilerNext, Full, vars, compilerVars, lexVars
<1>. QED  BY <1>1, <1>2, PTL DEF CompilerSpec, ChecksAlike

=============================================================================
