------------------------- MODULE AkwCompilerProofs -------------------------
(***************************************************************************)
(* What holds of the compiler for every source text and every value of the *)
(* constants.  The type invariant comes first; it carries just enough of   *)
(* the structure of `todo` (what a pending call may hold) for the other    *)
(* theorems to be inductive together with it.                              *)
(***************************************************************************)
EXTENDS AkwCompiler, AkwLemmas

Bytes == Opcodes \union 0..UINT8_MAX

-----------------------------------------------------------------------------
\* Lemmas about the operators.

\* Every opcode of the enum is a byte.
LEMMA OpcodesAreBytes ==
  /\ \A name \in DOMAIN Op : Op[name] \in Opcodes
  /\ Opcodes \subseteq Bytes
  /\ Opcodes \subseteq Nat
BY DEF Op, Opcodes, Bytes

\* The conversion to uint8_t gives a uint8_t, and changes no number that is one.
LEMMA ByteType ==
  ASSUME NEW n \in Nat
  PROVE  /\ Byte(n) \in 0..UINT8_MAX
         /\ n <= UINT8_MAX => Byte(n) = n
BY BoundsAssumption DEF Byte

\* The elements of todo that the functions put there are calls.
LEMMA CallTypes ==
  ASSUME NEW fn \in Functions
  PROVE  /\ Do(fn) \in Calls
         /\ \A name \in Names \union {""} : DoName(fn, name) \in Calls
         /\ \A n \in Nat : DoNum(fn, n) \in Calls
<1>1. \A name \in Names \union {""}, n \in Nat : [fn |-> fn, name |-> name, n |-> n] \in Calls
  BY DEF Calls
<1>. QED  BY <1>1 DEF Do, DoName, DoNum

\* The same for the calls that hold a token, an opcode or a count.
LEMMA ConsumeType ==
  ASSUME NEW kind \in TokenKinds \ {"None", "Error", "Eof"}
  PROVE  Consume(kind) \in Calls
BY DEF Consume, DoName, Calls

LEMMA OperatorType ==
  ASSUME NEW op \in Opcodes \ OperandOps
  PROVE  Operator(op) \in Calls /\ EmitOp(op) \in Calls
BY DEF Operator, EmitOp, DoNum, Calls

LEMMA CountType ==
  ASSUME NEW n \in 0..UINT8_MAX
  PROVE  DoNum("arrayLoop", n) \in Calls /\ DoNum("arrayEnd", n) \in Calls
BY DEF DoNum, Calls

\* What is being executed, and what is left after it, once the compiler runs.
LEMMA TodoType ==
  ASSUME TypeOK, NEW fn, fn # "init", At(fn)
  PROVE  /\ todo \in Seq(Calls)
         /\ todo # <<>>
         /\ Head(todo) \in Calls
         /\ Head(todo).fn = fn
         /\ Tail(todo) \in Seq(Calls)
<1>1. todo # <<>> /\ Head(todo).fn = fn
  BY DEF At
<1>2. ~Starting
  <2>1. SUFFICES ASSUME todo = <<Do("init")>>  PROVE FALSE
    BY DEF Starting
  <2>2. Head(todo) = Do("init")
    BY <2>1
  <2>3. Do("init").fn = "init"
    BY DEF Do
  <2>. QED  BY <2>2, <2>3, <1>1
<1>3. todo \in Seq(Calls)
  BY <1>2 DEF TypeOK
<1>. QED  BY <1>1, <1>3

-----------------------------------------------------------------------------
\* Lemmas about the pieces that actions are made of.

LEMMA EofIsToken == Token("Eof") \in Tokens
BY DEF Token, Tokens, TokenKinds

LEMMA DeliverType ==
  ASSUME tok \in Tokens, NEW t \in Tokens, Deliver(t)
  PROVE  tok' \in Tokens /\ rc' \in {"Ok"} \union ErrorKinds
BY DEF Deliver, ErrorKinds

\* The lexer delivers tokens, from the fragment it is in or from a new one.
LEMMA AdvanceType ==
  ASSUME LexerTypeOK, Advance
  PROVE  LexerTypeOK' /\ rc' \in {"Ok"} \union ErrorKinds
<1>1. CASE /\ source # <<>>
           /\ Deliver(Head(source))
           /\ source' = Tail(source)
           /\ fed' = fed
  <2>1. Head(source) \in Tokens /\ Tail(source) \in Seq(Tokens)
    BY <1>1, HeadTailProperties DEF LexerTypeOK
  <2>2. tok' \in Tokens /\ rc' \in {"Ok"} \union ErrorKinds
    BY <1>1, <2>1, DeliverType DEF LexerTypeOK
  <2>. QED  BY <1>1, <2>1, <2>2 DEF LexerTypeOK
<1>2. CASE /\ fed < MaxFragments
           /\ \E f \in Fragments : Deliver(Head(f)) /\ source' = Tail(f)
           /\ fed' = fed + 1
  <2>1. PICK f \in Fragments : Deliver(Head(f)) /\ source' = Tail(f)
    BY <1>2
  <2>2. f \in Seq(Tokens) /\ f # <<>>
    BY FragmentsAssumption
  <2>3. Head(f) \in Tokens /\ Tail(f) \in Seq(Tokens)
    BY <2>2, HeadTailProperties
  <2>4. tok' \in Tokens /\ rc' \in {"Ok"} \union ErrorKinds
    BY <2>1, <2>3, DeliverType DEF LexerTypeOK
  <2>5. fed' \in 0..MaxFragments
    BY <1>2, BoundsAssumption DEF LexerTypeOK
  <2>. QED  BY <2>1, <2>3, <2>4, <2>5 DEF LexerTypeOK
<1>3. CASE Deliver(Token("Eof")) /\ UNCHANGED <<source, fed>>
  <2>1. tok' \in Tokens /\ rc' \in {"Ok"} \union ErrorKinds
    BY <1>3, EofIsToken, DeliverType DEF LexerTypeOK
  <2>. QED  BY <1>3, <2>1 DEF LexerTypeOK
<1>. QED  BY <1>1, <1>2, <1>3 DEF Advance

\* What todo becomes.
LEMMA CallType ==
  ASSUME NEW items \in Seq(Calls), Tail(todo) \in Seq(Calls), Call(items)
  PROVE  todo' \in Seq(Calls)
BY ConcatProperties DEF Call

LEMMA SkipThenType ==
  ASSUME TypeOK, NEW items \in Seq(Calls), Tail(todo) \in Seq(Calls), SkipThen(items)
  PROVE  TypeOK'
<1>1. LexerTypeOK' /\ rc' \in {"Ok"} \union ErrorKinds
  BY AdvanceType DEF SkipThen, TypeOK
<1>2. todo' \in Seq(Calls)
  BY CallType DEF SkipThen
<1>3. ChunkTypeOK' /\ ScopeTypeOK' /\ isRef' \in BOOLEAN
  BY DEF SkipThen, Parses, TypeOK, ChunkTypeOK, ScopeTypeOK, chunkVars
<1>. QED  BY <1>1, <1>2, <1>3 DEF TypeOK

LEMMA ThenType ==
  ASSUME TypeOK, NEW items \in Seq(Calls), Tail(todo) \in Seq(Calls), Then(items)
  PROVE  TypeOK'
<1>1. LexerTypeOK' /\ rc' \in {"Ok"} \union ErrorKinds
  BY DEF Then, TypeOK, LexerTypeOK, lexVars
<1>2. todo' \in Seq(Calls)
  BY CallType DEF Then
<1>3. ChunkTypeOK' /\ ScopeTypeOK' /\ isRef' \in BOOLEAN
  BY DEF Then, Parses, TypeOK, ChunkTypeOK, ScopeTypeOK, chunkVars
<1>. QED  BY <1>1, <1>2, <1>3 DEF TypeOK

LEMMA FailType ==
  ASSUME TypeOK, NEW error \in ErrorKinds, todo \in Seq(Calls), Fail(error)
  PROVE  TypeOK'
BY DEF Fail, TypeOK, ChunkTypeOK, LexerTypeOK, ScopeTypeOK, chunkVars, lexVars

\* The first bytes of what is emitted fit, and the code stays within its limit.
LEMMA EmitType ==
  ASSUME ChunkTypeOK, NEW bytes, CheckOnly \/ bytes \in Seq(Bytes), Emit(bytes)
  PROVE  /\ code' \in Seq(Bytes) /\ Len(code') <= MaxCapacity
         /\ rc' \in {"Ok", "Range"}
<1>0. code \in Seq(Bytes) /\ Len(code) <= MaxCapacity
  BY DEF ChunkTypeOK, Bytes
<1>1. CASE CheckOnly
  BY <1>0, <1>1 DEF Emit
<1>2. CASE ~CheckOnly
  <2>. DEFINE fit == IF Len(code) + Len(bytes) <= MaxCapacity
                     THEN Len(bytes) ELSE MaxCapacity - Len(code)
              part == SubSeq(bytes, 1, fit)
  <2>1. bytes \in Seq(Bytes) /\ Len(bytes) \in Nat /\ Len(code) \in Nat
    BY <1>0, <1>2, LenProperties
  <2>2. fit \in 0..Len(bytes) /\ Len(code) + fit <= MaxCapacity
    BY <1>0, <2>1, BoundsAssumption
  <2>3. code' = code \o part /\ rc' \in {"Ok", "Range"}
    BY <1>2 DEF Emit
  <2>4. \A i \in 1..fit : bytes[i] \in Bytes
    BY <2>1, <2>2, ElementOfSeq
  <2>5. part \in Seq(Bytes) /\ Len(part) = fit
    <3>. HIDE DEF fit
    <3>1. /\ SubSeq(bytes, 1, fit) \in Seq(Bytes)
          /\ Len(SubSeq(bytes, 1, fit)) = IF 1 <= fit THEN fit - 1 + 1 ELSE 0
      BY <2>2, <2>4, SubSeqProperties
    <3>. QED  BY <2>2, <3>1
  <2>6. code \o part \in Seq(Bytes) /\ Len(code \o part) = Len(code) + Len(part)
    <3>. HIDE DEF part
    <3>. QED  BY <1>0, <2>5, ConcatProperties
  <2>. QED  BY <2>2, <2>3, <2>5, <2>6
<1>. QED  BY <1>1, <1>2

LEMMA EmitThenType ==
  ASSUME TypeOK, NEW bytes \in Seq(Bytes), NEW items \in Seq(Calls),
         Tail(todo) \in Seq(Calls), EmitThen(bytes, items), isRef' \in BOOLEAN
  PROVE  TypeOK'
<1>1. /\ code' \in Seq(Bytes) /\ Len(code') <= MaxCapacity
      /\ rc' \in {"Ok", "Range"}
  BY EmitType DEF EmitThen, TypeOK
<1>2. todo' \in Seq(Calls)
  BY CallType DEF EmitThen
<1>3. ChunkTypeOK'
  BY <1>1 DEF EmitThen, TypeOK, ChunkTypeOK, Bytes
<1>4. LexerTypeOK' /\ ScopeTypeOK'
  BY DEF EmitThen, TypeOK, LexerTypeOK, ScopeTypeOK, lexVars
<1>5. rc' \in {"Ok"} \union ErrorKinds
  BY <1>1 DEF ErrorKinds
<1>. QED  BY <1>2, <1>3, <1>4, <1>5 DEF TypeOK

-----------------------------------------------------------------------------
\* Lemmas about constants, variables and scopes.

\* Another count leaves an object an object.
LEMMA CountedObject ==
  ASSUME NEW obj \in Objects, NEW n \in Int
  PROVE  [obj EXCEPT !.refCount = n] \in Objects
BY DEF Objects

LEMMA RetainType ==
  ASSUME NEW h \in Seq(Objects), NEW v \in Values, IsObject(v) => v.n \in 1..Len(h)
  PROVE  Retain(h, v) \in Seq(Objects)
<1>1. CASE IsObject(v)
  <2>. DEFINE more == [h[v.n] EXCEPT !.refCount = @ + 1]
  <2>1. h[v.n] \in Objects
    BY <1>1, ElementOfSeq
  <2>2. h[v.n].refCount + 1 \in Int
    BY <2>1 DEF Objects
  <2>3. more \in Objects
    BY <2>1, <2>2, CountedObject
  <2>4. Retain(h, v) = [h EXCEPT ![v.n] = more]
    BY <1>1 DEF Retain
  <2>. QED
    <3>. HIDE DEF more
    <3>. QED  BY <1>1, <2>3, <2>4, ExceptSeq
<1>2. CASE ~IsObject(v)
  BY <1>2 DEF Retain
<1>. QED  BY <1>1, <1>2

LEMMA EmitConstantType ==
  ASSUME ChunkTypeOK, NEW h \in Seq(Objects), NEW v \in Values,
         IsObject(v) => v.n \in 1..Len(h), EmitConstant(v, h)
  PROVE  ChunkTypeOK' /\ rc' \in {"Ok"} \union ErrorKinds
<1>1. CASE Len(consts) < MaxCapacity
  <2>1. consts' = Append(consts, v) /\ heap' = Retain(h, v)
    BY <1>1 DEF EmitConstant
  <2>2. <<Op.Const, Byte(Len(consts))>> \in Seq(Bytes)
    <3>1. Byte(Len(consts)) \in Bytes /\ Op.Const \in Bytes
      BY ByteType, LenProperties, BoundsAssumption DEF ChunkTypeOK, Bytes, Op, Opcodes
    <3>. QED  BY <3>1
  <2>3. Emit(<<Op.Const, Byte(Len(consts))>>)
    BY <1>1 DEF EmitConstant
  <2>4. /\ code' \in Seq(Bytes) /\ Len(code') <= MaxCapacity
        /\ rc' \in {"Ok", "Range"}
    <3>. DEFINE bytes == <<Op.Const, Byte(Len(consts))>>
    <3>. HIDE DEF bytes
    <3>1. bytes \in Seq(Bytes) /\ Emit(bytes)
      BY <2>2, <2>3 DEF bytes
    <3>. QED  BY <3>1, EmitType
  <2>5. consts' \in Seq(Values) /\ Len(consts') <= MaxCapacity
    BY <1>1, <2>1, AppendProperties, LenProperties, BoundsAssumption DEF ChunkTypeOK
  <2>6. heap' \in Seq(Objects)
    BY <2>1, RetainType
  <2>. QED  BY <2>4, <2>5, <2>6 DEF ChunkTypeOK, Bytes, ErrorKinds
<1>2. CASE ~(Len(consts) < MaxCapacity)
  BY <1>2 DEF EmitConstant, ChunkTypeOK, ErrorKinds
<1>. QED  BY <1>1, <1>2

\* A search that finds a variable finds one of comp->variables.
LEMMA FoundVariableType ==
  ASSUME TypeOK, NEW name, Candidates(name) # {}
  PROVE  FoundVariable(name) \in Variables
<1>1. variables \in Seq(Variables) /\ Len(variables) \in Nat /\ DOMAIN variables = 1..Len(variables)
  BY LenProperties DEF TypeOK, ScopeTypeOK
<1>2. Candidates(name) \subseteq 1..Len(variables)
  BY <1>1 DEF Candidates, InScope
<1>3. \E i \in Candidates(name) : \A j \in Candidates(name) : j <= i
  BY <1>1, <1>2, LastIndex
<1>4. (CHOOSE i \in Candidates(name) : \A j \in Candidates(name) : j <= i) \in 1..Len(variables)
  BY <1>2, <1>3
<1>. QED  BY <1>1, <1>4, ElementOfSeq DEF FoundVariable

LEMMA UseVariableType ==
  ASSUME TypeOK, todo \in Seq(Calls), Tail(todo) \in Seq(Calls), isRef' \in BOOLEAN,
         NEW name, NEW byRef \in Opcodes, NEW direct \in Opcodes, NEW items \in Seq(Calls),
         UseVariable(name, byRef, direct, items)
  PROVE  TypeOK'
<1>1. CASE Candidates(name) = {}
  <2>1. rc' = "Semantic" /\ UNCHANGED <<chunkVars, lexVars, scopeDepth, variables, todo>>
    BY <1>1 DEF UseVariable
  <2>. QED  BY <2>1 DEF TypeOK, ChunkTypeOK, LexerTypeOK, ScopeTypeOK, chunkVars, lexVars, ErrorKinds
<1>2. CASE Candidates(name) # {}
  <2>. DEFINE op == IF FoundVariable(name).isRef THEN byRef ELSE direct
              bytes == <<op, FoundVariable(name).index>>
  <2>1. EmitThen(bytes, items)
    BY <1>2 DEF UseVariable
  <2>2. FoundVariable(name).index \in Bytes
    BY <1>2, FoundVariableType DEF Variables, Bytes
  <2>3. op \in Bytes
    BY DEF Bytes
  <2>4. bytes \in Seq(Bytes)
    <3>. HIDE DEF op
    <3>. QED  BY <2>2, <2>3
  <2>. QED
    <3>. HIDE DEF bytes
    <3>. QED  BY <2>1, <2>4, EmitThenType
<1>. QED  BY <1>1, <1>2

\* define_variable: the index of the new variable is a byte.
LEMMA DefineVariableType ==
  ASSUME ScopeTypeOK, UNCHANGED scopeDepth, NEW name \in Names \union {""}, NEW ref \in BOOLEAN,
         NEW outcome \in {"Ok"} \union ErrorKinds, DefineVariable(name, ref, outcome)
  PROVE  ScopeTypeOK' /\ rc' \in {"Ok"} \union ErrorKinds
<1>1. CASE CannotDefine(name)
  BY <1>1 DEF DefineVariable, ScopeTypeOK, ErrorKinds
<1>2. CASE ~CannotDefine(name)
  <2>. DEFINE new == [name |-> name, depth |-> scopeDepth, isRef |-> ref, index |-> Byte(Len(variables))]
  <2>1. Byte(Len(variables)) \in 0..UINT8_MAX
    BY ByteType, LenProperties DEF ScopeTypeOK
  <2>2. new \in Variables
    BY <2>1 DEF ScopeTypeOK, Variables
  <2>3. variables' = Append(variables, new) /\ rc' = outcome
    BY <1>2 DEF DefineVariable
  <2>. HIDE DEF new
  <2>4. variables' \in Seq(Variables)
    BY <2>2, <2>3, AppendProperties DEF ScopeTypeOK
  <2>. QED  BY <2>3, <2>4 DEF ScopeTypeOK
<1>. QED  BY <1>1, <1>2

-----------------------------------------------------------------------------
\* Every action keeps the types.

\* What a pending call holds.
LEMMA CallFields ==
  ASSUME NEW item \in Calls
  PROVE  /\ item.n \in Nat
         /\ item.fn \in Functions => item.name \in Names \union {""}
         /\ item.fn = "consume" => item.name \in TokenKinds \ {"None", "Error", "Eof"}
         /\ item.fn \in {"emit", "operator"} => item.n \in Opcodes \ OperandOps
         /\ item.fn \in {"arrayLoop", "arrayEnd"} => item.n \in 0..UINT8_MAX
<1>1. /\ "consume" \notin Functions /\ "emit" \notin Functions /\ "operator" \notin Functions
      /\ "arrayLoop" \notin Functions /\ "arrayEnd" \notin Functions
  BY DEF Functions
<1>2. CASE item \in [fn : Functions, name : Names \union {""}, n : Nat]
  <2>1. item.fn \in Functions /\ item.name \in Names \union {""} /\ item.n \in Nat
    BY <1>2
  <2>2. item.fn \notin {"consume", "emit", "operator", "arrayLoop", "arrayEnd"}
    BY <1>1, <2>1
  <2>. QED  BY <2>1, <2>2
<1>3. CASE item \in [fn : {"consume"}, name : TokenKinds \ {"None", "Error", "Eof"}, n : {0}]
  <2>1. item.fn = "consume" /\ item.name \in TokenKinds \ {"None", "Error", "Eof"} /\ item.n = 0
    BY <1>3
  <2>2. item.n \in Nat /\ item.fn \notin Functions
    BY <1>1, <2>1
  <2>3. item.fn \notin {"emit", "operator", "arrayLoop", "arrayEnd"}
    BY <2>1
  <2>. QED  BY <2>1, <2>2, <2>3
<1>4. CASE item \in [fn : {"emit", "operator"}, name : {""}, n : Opcodes \ OperandOps]
  <2>1. item.fn \in {"emit", "operator"} /\ item.n \in Opcodes \ OperandOps
    BY <1>4
  <2>2. item.n \in Nat
    BY <2>1, OpcodesAreBytes
  <2>. QED  BY <1>1, <2>1, <2>2
<1>5. CASE item \in [fn : {"arrayLoop", "arrayEnd"}, name : {""}, n : 0..UINT8_MAX]
  <2>1. item.fn \in {"arrayLoop", "arrayEnd"} /\ item.n \in 0..UINT8_MAX
    BY <1>5
  <2>2. item.n \in Nat
    BY <2>1, BoundsAssumption
  <2>. QED  BY <1>1, <2>1, <2>2
<1>. QED  BY <1>2, <1>3, <1>4, <1>5 DEF Calls

\* The calls of functions without an argument.
LEMMA PlainCalls ==
  /\ Do("chunk") \in Calls /\ Do("stmt") \in Calls /\ Do("let") \in Calls
  /\ Do("inout") \in Calls /\ Do("return") \in Calls /\ Do("pushScope") \in Calls
  /\ Do("block") \in Calls /\ Do("popScope") \in Calls /\ Do("expr") \in Calls
  /\ Do("range") \in Calls /\ Do("add") \in Calls /\ Do("addLoop") \in Calls
  /\ Do("mul") \in Calls /\ Do("mulLoop") \in Calls /\ Do("unary") \in Calls
  /\ Do("prim") \in Calls /\ Do("number") \in Calls /\ Do("string") \in Calls
  /\ Do("array") \in Calls /\ Do("ref") \in Calls /\ Do("indexLoop") \in Calls
BY CallTypes DEF Functions

\* The calls that hold a name.
LEMMA NamedCalls ==
  ASSUME NEW name \in Names \union {""}
  PROVE  /\ DoName("letValue", name) \in Calls /\ DoName("define", name) \in Calls
         /\ DoName("defineInout", name) \in Calls /\ DoName("assign", name) \in Calls
         /\ DoName("refTo", name) \in Calls /\ DoName("variable", name) \in Calls
BY CallTypes DEF Functions

\* The tokens that are consumed.
LEMMA ConsumeCalls ==
  /\ Consume("Eq") \in Calls /\ Consume("Semicolon") \in Calls
  /\ Consume("RParen") \in Calls /\ Consume("RBracket") \in Calls
BY ConsumeType DEF TokenKinds

LEMMA TokenFields ==
  ASSUME TypeOK
  PROVE  tok.text \in Names \union {""} /\ tok.num \in Nat /\ tok.kind \in TokenKinds
BY DEF TypeOK, LexerTypeOK, Tokens

\* The opcodes that the actions name are opcodes of the enum.
LEMMA OpValues ==
  /\ Op.Nil \in Opcodes /\ Op.False \in Opcodes /\ Op.True \in Opcodes
  /\ Op.Int \in Opcodes /\ Op.Const \in Opcodes /\ Op.Range \in Opcodes
  /\ Op.Array \in Opcodes /\ Op.LocalRef \in Opcodes /\ Op.Pop \in Opcodes
  /\ Op.GetLocal \in Opcodes /\ Op.SetLocal \in Opcodes
  /\ Op.GetLocalByRef \in Opcodes /\ Op.SetLocalByRef \in Opcodes
  /\ Op.GetElement \in Opcodes /\ Op.Neg \in Opcodes /\ Op.Return \in Opcodes
  /\ Op.Add \in Opcodes /\ Op.Sub \in Opcodes /\ Op.Mul \in Opcodes
  /\ Op.Div \in Opcodes /\ Op.Mod \in Opcodes
BY DEF Op, Opcodes

\* Those that stand without an operand.
LEMMA PlainOps ==
  /\ Op.Nil \notin OperandOps /\ Op.False \notin OperandOps /\ Op.True \notin OperandOps
  /\ Op.Range \notin OperandOps /\ Op.Pop \notin OperandOps /\ Op.GetElement \notin OperandOps
  /\ Op.Neg \notin OperandOps /\ Op.Return \notin OperandOps
  /\ Op.Add \notin OperandOps /\ Op.Sub \notin OperandOps /\ Op.Mul \notin OperandOps
  /\ Op.Div \notin OperandOps /\ Op.Mod \notin OperandOps
BY DEF Op, OperandOps, LocalOps

LEMMA StatementType ==
  ASSUME TypeOK, Statement
  PROVE  TypeOK'
<1>. USE PlainCalls, ConsumeCalls
<1>0. <<>> \in Seq(Calls)
  OBVIOUS
<1>1. ASSUME BeginCompile  PROVE TypeOK'
  <2>1. Tail(todo) \in Seq(Calls)
    <3>1. CASE Starting
      BY <3>1 DEF Starting
    <3>2. CASE ~Starting
      BY <1>1, <3>2, HeadTailProperties DEF TypeOK, BeginCompile, At
    <3>. QED  BY <3>1, <3>2
  <2>2. <<Do("chunk")>> \in Seq(Calls) /\ SkipThen(<<Do("chunk")>>)
    BY <1>1 DEF BeginCompile
  <2>. QED  BY <2>1, <2>2, SkipThenType
<1>2. ASSUME CompileChunk  PROVE TypeOK'
  <2>1. Tail(todo) \in Seq(Calls)
    BY <1>2, TodoType DEF CompileChunk
  <2>2. CASE Then(<<Do("stmt"), Do("chunk")>>)
    <3>1. <<Do("stmt"), Do("chunk")>> \in Seq(Calls)
      OBVIOUS
    <3>. QED  BY <2>1, <2>2, <3>1, ThenType
  <2>3. CASE EmitThen(<<Op.Nil, Op.Return>>, <<>>) /\ UNCHANGED isRef
    <3>1. <<Op.Nil, Op.Return>> \in Seq(Bytes)
      BY OpValues DEF Bytes
    <3>2. isRef' \in BOOLEAN
      BY <2>3 DEF TypeOK
    <3>. QED  BY <1>0, <2>1, <2>3, <3>1, <3>2, EmitThenType
  <2>. QED  BY <1>2, <2>2, <2>3 DEF CompileChunk
<1>3. ASSUME CompileStmt  PROVE TypeOK'
  <2>1. Tail(todo) \in Seq(Calls)
    BY <1>3, TodoType DEF CompileStmt
  <2>2. ASSUME NEW fn \in {"let", "inout", "return", "pushScope"}, SkipThen(<<Do(fn)>>)  PROVE TypeOK'
    <3>1. Do(fn) \in Calls
      BY <2>2
    <3>2. <<Do(fn)>> \in Seq(Calls)
      BY <3>1
    <3>. QED  BY <2>1, <2>2, <3>2, SkipThenType
  <2>3. CASE SkipThen(<<Consume("Eq"), Do("expr"), Consume("Semicolon"), DoName("assign", tok.text)>>)
    <3>1. DoName("assign", tok.text) \in Calls
      BY TokenFields, NamedCalls
    <3>2. <<Consume("Eq"), Do("expr"), Consume("Semicolon"), DoName("assign", tok.text)>> \in Seq(Calls)
      BY <3>1
    <3>. QED  BY <2>1, <2>3, <3>2, SkipThenType
  <2>4. CASE Then(<<Do("expr"), Consume("Semicolon"), EmitOp(Op.Pop)>>)
    <3>1. <<Do("expr"), Consume("Semicolon"), EmitOp(Op.Pop)>> \in Seq(Calls)
      BY OpValues, PlainOps, OperatorType
    <3>. QED  BY <2>1, <2>4, <3>1, ThenType
  <2>. QED  BY <1>3, <2>2, <2>3, <2>4 DEF CompileStmt
<1>4. ASSUME ConsumeToken  PROVE TypeOK'
  <2>1. todo \in Seq(Calls) /\ Tail(todo) \in Seq(Calls)
    BY <1>4, TodoType DEF ConsumeToken
  <2>2. CASE SkipThen(<<>>)
    BY <1>0, <2>1, <2>2, SkipThenType
  <2>3. CASE Fail("Syntax")
    BY <2>1, <2>3, FailType DEF ErrorKinds
  <2>. QED  BY <1>4, <2>2, <2>3 DEF ConsumeToken
<1>5. ASSUME EmitOpcode  PROVE TypeOK'
  <2>1. Tail(todo) \in Seq(Calls) /\ Head(todo) \in Calls /\ Head(todo).fn = "emit"
    BY <1>5, TodoType DEF EmitOpcode
  <2>2. Head(todo).n \in Bytes
    BY <2>1, CallFields DEF Bytes
  <2>3. <<Head(todo).n>> \in Seq(Bytes) /\ isRef' \in BOOLEAN
    BY <1>5, <2>2 DEF EmitOpcode, TypeOK
  <2>. QED  BY <1>0, <1>5, <2>1, <2>3, EmitThenType DEF EmitOpcode
<1>6. ASSUME CompileLetStmt  PROVE TypeOK'
  <2>1. todo \in Seq(Calls) /\ Tail(todo) \in Seq(Calls)
    BY <1>6, TodoType DEF CompileLetStmt
  <2>2. CASE SkipThen(<<DoName("letValue", tok.text)>>)
    <3>1. DoName("letValue", tok.text) \in Calls
      BY TokenFields, NamedCalls
    <3>2. <<DoName("letValue", tok.text)>> \in Seq(Calls)
      BY <3>1
    <3>. QED  BY <2>1, <2>2, <3>2, SkipThenType
  <2>3. CASE Fail("Syntax")
    BY <2>1, <2>3, FailType DEF ErrorKinds
  <2>. QED  BY <1>6, <2>2, <2>3 DEF CompileLetStmt
<1>7. ASSUME LetValue  PROVE TypeOK'
  <2>. DEFINE define == <<Consume("Semicolon"), DoName("define", Head(todo).name)>>
  <2>1. Tail(todo) \in Seq(Calls) /\ Head(todo) \in Calls /\ Head(todo).fn = "letValue"
    BY <1>7, TodoType DEF LetValue
  <2>2. Head(todo).name \in Names \union {""}
    BY <2>1, CallFields DEF Functions
  <2>3. define \in Seq(Calls)
    <3>1. DoName("define", Head(todo).name) \in Calls
      BY <2>2, NamedCalls
    <3>. QED  BY <3>1
  <2>4. <<Do("expr")>> \o define \in Seq(Calls)
    <3>. HIDE DEF define
    <3>1. <<Do("expr")>> \in Seq(Calls)
      OBVIOUS
    <3>. QED  BY <2>3, <3>1, ConcatProperties
  <2>5. CASE SkipThen(<<Do("expr")>> \o define)
    <3>. HIDE DEF define
    <3>. QED  BY <2>1, <2>4, <2>5, SkipThenType
  <2>6. CASE EmitThen(<<Op.Nil>>, define) /\ UNCHANGED isRef
    <3>1. <<Op.Nil>> \in Seq(Bytes) /\ isRef' \in BOOLEAN
      BY <2>6, OpValues DEF Bytes, TypeOK
    <3>. HIDE DEF define
    <3>. QED  BY <2>1, <2>3, <2>6, <3>1, EmitThenType
  <2>. QED  BY <1>7, <2>5, <2>6 DEF LetValue
<1>8. ASSUME Define  PROVE TypeOK'
  <2>1. Tail(todo) \in Seq(Calls) /\ Head(todo) \in Calls /\ Head(todo).fn = "define"
    BY <1>8, TodoType DEF Define
  <2>2. Head(todo).name \in Names \union {""}
    BY <2>1, CallFields DEF Functions
  <2>3. ScopeTypeOK' /\ rc' \in {"Ok"} \union ErrorKinds
    BY <1>8, <2>2, DefineVariableType DEF Define, TypeOK
  <2>. QED  BY <1>8, <2>1, <2>3 DEF Define, Return, TypeOK, ChunkTypeOK, LexerTypeOK, chunkVars, lexVars
<1>9. ASSUME CompileInoutStmt  PROVE TypeOK'
  <2>. DEFINE items == <<Consume("Eq"), Do("expr"), Consume("Semicolon"), DoName("defineInout", tok.text)>>
  <2>1. todo \in Seq(Calls) /\ Tail(todo) \in Seq(Calls)
    BY <1>9, TodoType DEF CompileInoutStmt
  <2>2. CASE SkipThen(items)
    <3>1. DoName("defineInout", tok.text) \in Calls
      BY TokenFields, NamedCalls
    <3>2. items \in Seq(Calls)
      BY <3>1
    <3>. HIDE DEF items
    <3>. QED  BY <2>1, <2>2, <3>2, SkipThenType
  <2>3. CASE Fail("Syntax")
    BY <2>1, <2>3, FailType DEF ErrorKinds
  <2>. QED  BY <1>9, <2>2, <2>3 DEF CompileInoutStmt
<1>10. ASSUME DefineInout  PROVE TypeOK'
  <2>. DEFINE outcome == IF isRef THEN "Ok" ELSE "Type"
  <2>1. Tail(todo) \in Seq(Calls) /\ Head(todo) \in Calls /\ Head(todo).fn = "defineInout"
    BY <1>10, TodoType DEF DefineInout
  <2>2. Head(todo).name \in Names \union {""}
    BY <2>1, CallFields DEF Functions
  <2>3. outcome \in {"Ok"} \union ErrorKinds
    BY DEF ErrorKinds
  <2>4. ScopeTypeOK' /\ rc' \in {"Ok"} \union ErrorKinds
    <3>1. DefineVariable(Head(todo).name, TRUE, outcome) /\ UNCHANGED scopeDepth
      BY <1>10 DEF DefineInout
    <3>. HIDE DEF outcome
    <3>. QED  BY <2>2, <2>3, <3>1, DefineVariableType DEF TypeOK
  <2>. QED  BY <1>10, <2>1, <2>4 DEF DefineInout, Return, TypeOK, ChunkTypeOK, LexerTypeOK, chunkVars, lexVars
<1>11. ASSUME AssignVariable  PROVE TypeOK'
  <2>1. todo \in Seq(Calls) /\ Tail(todo) \in Seq(Calls)
    BY <1>11, TodoType DEF AssignVariable
  <2>2. isRef' \in BOOLEAN /\ UseVariable(Head(todo).name, Op.SetLocalByRef, Op.SetLocal, <<>>)
    BY <1>11 DEF AssignVariable, TypeOK
  <2>. QED  BY <1>0, <2>1, <2>2, OpValues, UseVariableType
<1>12. ASSUME CompileReturnStmt  PROVE TypeOK'
  <2>1. Tail(todo) \in Seq(Calls)
    BY <1>12, TodoType DEF CompileReturnStmt
  <2>2. CASE SkipThen(<<>>)
    BY <1>0, <2>1, <2>2, SkipThenType
  <2>3. CASE Then(<<Do("expr"), Consume("Semicolon"), EmitOp(Op.Return)>>)
    <3>1. <<Do("expr"), Consume("Semicolon"), EmitOp(Op.Return)>> \in Seq(Calls)
      BY OpValues, PlainOps, OperatorType
    <3>. QED  BY <2>1, <2>3, <3>1, ThenType
  <2>. QED  BY <1>12, <2>2, <2>3 DEF CompileReturnStmt
<1>13. ASSUME PushScope  PROVE TypeOK'
  <2>1. Tail(todo) \in Seq(Calls)
    BY <1>13, TodoType DEF PushScope
  <2>2. <<Do("block")>> \in Seq(Calls)
    OBVIOUS
  <2>3. todo' \in Seq(Calls)
    BY <1>13, <2>1, <2>2, CallType DEF PushScope
  <2>4. ScopeTypeOK'
    BY <1>13 DEF PushScope, TypeOK, ScopeTypeOK
  <2>. QED  BY <1>13, <2>3, <2>4 DEF PushScope, TypeOK, ChunkTypeOK, LexerTypeOK, chunkVars, lexVars
<1>14. ASSUME CompileBlockStmt  PROVE TypeOK'
  <2>1. Tail(todo) \in Seq(Calls)
    BY <1>14, TodoType DEF CompileBlockStmt
  <2>2. <<Do("stmt"), Do("block")>> \in Seq(Calls) /\ <<Do("popScope")>> \in Seq(Calls)
    OBVIOUS
  <2>. QED  BY <1>14, <2>1, <2>2, ThenType, SkipThenType DEF CompileBlockStmt
<1>15. ASSUME PopScope  PROVE TypeOK'
  <2>. DEFINE pops == [i \in 1..Cardinality(InScope) |-> Op.Pop]
  <2>1. Tail(todo) \in Seq(Calls)
    BY <1>15, TodoType DEF PopScope
  <2>2. Cardinality(InScope) \in Nat
    <3>1. InScope \subseteq 1..Len(variables) /\ Len(variables) \in Nat
      BY LenProperties DEF InScope, TypeOK, ScopeTypeOK
    <3>2. IsFiniteSet(1..Len(variables))
      BY <3>1, FS_Interval
    <3>3. IsFiniteSet(InScope)
      BY <3>1, <3>2, FS_Subset
    <3>. QED  BY <3>3, FS_CardinalityType
  <2>3. Op.Pop \in Bytes
    BY OpValues DEF Bytes
  <2>4. pops \in Seq(Bytes)
    BY <2>2, <2>3
  <2>5. /\ code' \in Seq(Bytes) /\ Len(code') <= MaxCapacity
        /\ rc' \in {"Ok", "Range"}
    <3>1. Emit(pops)
      BY <1>15 DEF PopScope
    <3>. HIDE DEF pops
    <3>. QED  BY <2>4, <3>1, EmitType DEF TypeOK
  <2>6. ChunkTypeOK' /\ rc' \in {"Ok"} \union ErrorKinds
    BY <1>15, <2>5 DEF PopScope, TypeOK, ChunkTypeOK, Bytes, ErrorKinds
  <2>7. ScopeTypeOK' /\ LexerTypeOK' /\ isRef' \in BOOLEAN
    BY <1>15 DEF PopScope, TypeOK, ScopeTypeOK, LexerTypeOK, lexVars
  <2>8. todo' \in Seq(Calls)
    BY <1>15, <2>1 DEF PopScope, Return
  <2>. QED  BY <2>6, <2>7, <2>8 DEF TypeOK
<1>. QED  BY <1>1, <1>2, <1>3, <1>4, <1>5, <1>6, <1>7, <1>8, <1>9, <1>10, <1>11, <1>12, <1>13,
            <1>14, <1>15 DEF Statement

\* What a primary expression goes on with, for each token it may start with.
LEMMA PrimCallsType ==
  ASSUME TypeOK, tok.kind \in DOMAIN PrimCalls
  PROVE  PrimCalls[tok.kind] \in Seq(Calls)
<1>. USE PlainCalls, ConsumeCalls
<1>1. /\ Operator(Op.Nil) \in Calls /\ Operator(Op.False) \in Calls /\ Operator(Op.True) \in Calls
  BY OpValues, PlainOps, OperatorType
<1>2. DoName("variable", tok.text) \in Calls
  BY TokenFields, NamedCalls
<1>3. DoNum("int", tok.num) \in Calls /\ DoNum("whole", tok.num) \in Calls
  BY TokenFields, CallTypes DEF Functions
<1>4. /\ PrimCalls.NilKw \in Seq(Calls) /\ PrimCalls.FalseKw \in Seq(Calls)
      /\ PrimCalls.TrueKw \in Seq(Calls) /\ PrimCalls.Int \in Seq(Calls)
      /\ PrimCalls.Number \in Seq(Calls) /\ PrimCalls.String \in Seq(Calls)
      /\ PrimCalls.WholeNumber \in Seq(Calls)
      /\ PrimCalls.LBracket \in Seq(Calls) /\ PrimCalls.Amp \in Seq(Calls)
      /\ PrimCalls.Name \in Seq(Calls) /\ PrimCalls.LParen \in Seq(Calls)
  BY <1>1, <1>2, <1>3 DEF PrimCalls
<1>5. tok.kind \in {"NilKw", "FalseKw", "TrueKw", "Int", "Number", "WholeNumber", "String", "LBracket",
                    "Amp", "Name", "LParen"}
  BY DEF PrimCalls
<1>. QED  BY <1>4, <1>5

\* The loops over the operators of a level.
LEMMA OperatorLoopType ==
  ASSUME TypeOK, NEW loop \in Functions, NEW operand \in Functions, NEW operators,
         \A kind \in DOMAIN operators : operators[kind] \in Opcodes \ OperandOps,
         OperatorLoop(loop, operand, operators)
  PROVE  TypeOK'
<1>. DEFINE items == <<Do(operand), Operator(operators[tok.kind]), Do(loop)>>
<1>1. loop # "init"
  BY DEF Functions
<1>2. Tail(todo) \in Seq(Calls)
  BY <1>1, TodoType DEF OperatorLoop
<1>3. CASE tok.kind \in DOMAIN operators /\ SkipThen(items)
  <2>1. Do(operand) \in Calls /\ Do(loop) \in Calls /\ Operator(operators[tok.kind]) \in Calls
    BY <1>3, CallTypes, OperatorType
  <2>2. items \in Seq(Calls)
    BY <2>1
  <2>. HIDE DEF items
  <2>. QED  BY <1>2, <1>3, <2>2, SkipThenType
<1>4. CASE Then(<<>>)
  <2>1. <<>> \in Seq(Calls)
    OBVIOUS
  <2>. QED  BY <1>2, <1>4, <2>1, ThenType
<1>. QED  BY <1>3, <1>4 DEF OperatorLoop

\* An action that emits one instruction, with no call left to make.
LEMMA EmitOnlyType ==
  ASSUME TypeOK, NEW bytes \in Seq(Bytes), Tail(todo) \in Seq(Calls),
         EmitThen(bytes, <<>>), isRef' \in BOOLEAN
  PROVE  TypeOK'
<1>1. <<>> \in Seq(Calls)
  OBVIOUS
<1>. QED  BY <1>1, EmitThenType

LEMMA ExpressionType ==
  ASSUME TypeOK, Expression
  PROVE  TypeOK'
<1>. USE PlainCalls, ConsumeCalls
<1>0. <<>> \in Seq(Calls)
  OBVIOUS
<1>1. ASSUME NEW fn, fn # "init", At(fn),
             NEW first \in {"add", "mul", "unary"}, NEW second \in {"range", "addLoop", "mulLoop"},
             Then(<<Do(first), Do(second)>>)
      PROVE  TypeOK'
  <2>1. Tail(todo) \in Seq(Calls)
    BY <1>1, TodoType
  <2>2. Do(first) \in Calls /\ Do(second) \in Calls
    BY <1>1
  <2>3. <<Do(first), Do(second)>> \in Seq(Calls)
    BY <2>2
  <2>. QED  BY <1>1, <2>1, <2>3, ThenType
<1>2. ASSUME CompileExpr  PROVE TypeOK'
  BY <1>1, <1>2 DEF CompileExpr
<1>3. ASSUME RangeOperator  PROVE TypeOK'
  <2>1. Tail(todo) \in Seq(Calls)
    BY <1>3, TodoType DEF RangeOperator
  <2>2. Operator(Op.Range) \in Calls
    BY OpValues, PlainOps, OperatorType
  <2>3. <<Do("add"), Operator(Op.Range)>> \in Seq(Calls)
    BY <2>2
  <2>. QED  BY <1>0, <1>3, <2>1, <2>3, SkipThenType, ThenType DEF RangeOperator
<1>4. ASSUME CompileAddExpr  PROVE TypeOK'
  BY <1>1, <1>4 DEF CompileAddExpr
<1>5. ASSUME AddLoop  PROVE TypeOK'
  <2>1. \A kind \in DOMAIN AddOperators : AddOperators[kind] \in Opcodes \ OperandOps
    BY OpValues, PlainOps DEF AddOperators
  <2>2. "addLoop" \in Functions /\ "mul" \in Functions
    BY DEF Functions
  <2>. QED  BY <1>5, <2>1, <2>2, OperatorLoopType DEF AddLoop
<1>6. ASSUME CompileMulExpr  PROVE TypeOK'
  BY <1>1, <1>6 DEF CompileMulExpr
<1>7. ASSUME MulLoop  PROVE TypeOK'
  <2>1. \A kind \in DOMAIN MulOperators : MulOperators[kind] \in Opcodes \ OperandOps
    BY OpValues, PlainOps DEF MulOperators
  <2>2. "mulLoop" \in Functions /\ "unary" \in Functions
    BY DEF Functions
  <2>. QED  BY <1>7, <2>1, <2>2, OperatorLoopType DEF MulLoop
<1>8. ASSUME EmitOperator  PROVE TypeOK'
  <2>1. Tail(todo) \in Seq(Calls) /\ Head(todo) \in Calls /\ Head(todo).fn = "operator"
    BY <1>8, TodoType DEF EmitOperator
  <2>2. Head(todo).n \in Bytes
    BY <2>1, CallFields DEF Bytes
  <2>3. <<Head(todo).n>> \in Seq(Bytes)
    BY <2>2
  <2>4. isRef' \in BOOLEAN
    BY <1>8 DEF EmitOperator
  <2>. QED  BY <1>8, <2>1, <2>3, <2>4, EmitOnlyType DEF EmitOperator
<1>9. ASSUME CompileUnaryExpr  PROVE TypeOK'
  <2>1. Tail(todo) \in Seq(Calls)
    BY <1>9, TodoType DEF CompileUnaryExpr
  <2>2. Operator(Op.Neg) \in Calls
    BY OpValues, PlainOps, OperatorType
  <2>3. <<Do("unary"), Operator(Op.Neg)>> \in Seq(Calls)
    BY <2>2
  <2>4. <<Do("prim")>> \in Seq(Calls)
    OBVIOUS
  <2>. QED  BY <1>9, <2>1, <2>3, <2>4, SkipThenType, ThenType DEF CompileUnaryExpr
<1>10. ASSUME CompilePrimExpr  PROVE TypeOK'
  <2>1. todo \in Seq(Calls) /\ Tail(todo) \in Seq(Calls)
    BY <1>10, TodoType DEF CompilePrimExpr
  <2>2. CASE tok.kind \in DOMAIN PrimCalls /\ SkipThen(PrimCalls[tok.kind])
    BY <2>1, <2>2, PrimCallsType, SkipThenType
  <2>3. CASE Fail("Syntax")
    BY <2>1, <2>3, FailType DEF ErrorKinds
  <2>. QED  BY <1>10, <2>2, <2>3 DEF CompilePrimExpr
<1>11. ASSUME CompileInt  PROVE TypeOK'
  <2>1. Tail(todo) \in Seq(Calls) /\ Head(todo) \in Calls
    BY <1>11, TodoType DEF CompileInt
  <2>2. Head(todo).n \in Nat
    BY <2>1, CallFields
  <2>3. ChunkTypeOK' /\ rc' \in {"Ok"} \union ErrorKinds
    <3>1. CASE EmitConstant(IntValue(Head(todo).n), heap)
      <4>. DEFINE v == IntValue(Head(todo).n)
      <4>1. v \in Values /\ ~IsObject(v)
        BY <2>2 DEF IntValue, Values, ValueTypes, NumberTypes, IsObject, ObjectTypes
      <4>2. ChunkTypeOK /\ heap \in Seq(Objects) /\ EmitConstant(v, heap)
        BY <3>1 DEF TypeOK, ChunkTypeOK
      <4>. HIDE DEF v
      <4>. QED  BY <4>1, <4>2, EmitConstantType
    <3>2. CASE /\ CheckOnly \/ Head(todo).n <= UINT8_MAX
               /\ Emit(<<Op.Int, Head(todo).n>>)
               /\ UNCHANGED <<consts, heap>>
      <4>. DEFINE bytes == <<Op.Int, Head(todo).n>>
      <4>1. CheckOnly \/ bytes \in Seq(Bytes)
        <5>1. SUFFICES ASSUME ~CheckOnly  PROVE bytes \in Seq(Bytes)
          OBVIOUS
        <5>2. Head(todo).n \in Bytes /\ Op.Int \in Bytes
          BY <2>2, <3>2, <5>1, OpValues, BoundsAssumption DEF Bytes
        <5>. QED  BY <5>2
      <4>2. Emit(bytes) /\ ChunkTypeOK
        BY <3>2 DEF TypeOK
      <4>3. /\ code' \in Seq(Bytes) /\ Len(code') <= MaxCapacity
            /\ rc' \in {"Ok", "Range"}
        <5>. HIDE DEF bytes
        <5>. QED  BY <4>1, <4>2, EmitType
      <4>. QED  BY <3>2, <4>2, <4>3 DEF ChunkTypeOK, Bytes, ErrorKinds
    <3>. QED  BY <1>11, <3>1, <3>2 DEF CompileInt
  <2>4. LexerTypeOK' /\ ScopeTypeOK' /\ isRef' \in BOOLEAN
    BY <1>11 DEF CompileInt, TypeOK, LexerTypeOK, ScopeTypeOK, lexVars
  <2>5. todo' \in Seq(Calls)
    BY <1>11, <2>1 DEF CompileInt, Return
  <2>. QED  BY <2>3, <2>4, <2>5 DEF TypeOK
<1>12. ASSUME CompileNumber  PROVE TypeOK'
  <2>1. Tail(todo) \in Seq(Calls) /\ Head(todo) \in Calls
    BY <1>12, TodoType DEF CompileNumber
  <2>2. ChunkTypeOK' /\ rc' \in {"Ok"} \union ErrorKinds
    <3>1. CASE UNCHANGED <<chunkVars, rc>>
      BY <3>1 DEF TypeOK, ChunkTypeOK, chunkVars
    <3>2. CASE EmitConstant(NumberValue, heap)
      <4>1. Head(todo).n \in Nat
        BY <2>1, CallFields
      <4>2. NumberValue \in Values /\ ~IsObject(NumberValue)
        BY <4>1 DEF NumberValue, IntValue, FractionValue, Values, ValueTypes, NumberTypes,
                    IsObject, ObjectTypes
      <4>. QED  BY <3>2, <4>2, EmitConstantType DEF TypeOK, ChunkTypeOK
    <3>. QED  BY <1>12, <3>1, <3>2 DEF CompileNumber
  <2>3. LexerTypeOK' /\ ScopeTypeOK' /\ isRef' \in BOOLEAN
    BY <1>12 DEF CompileNumber, TypeOK, LexerTypeOK, ScopeTypeOK, lexVars
  <2>4. todo' \in Seq(Calls)
    BY <1>12, <2>1 DEF CompileNumber, Return
  <2>. QED  BY <2>2, <2>3, <2>4 DEF TypeOK
<1>13. ASSUME CompileString  PROVE TypeOK'
  <2>1. Tail(todo) \in Seq(Calls)
    BY <1>13, TodoType DEF CompileString
  <2>2. ChunkTypeOK' /\ rc' \in {"Ok"} \union ErrorKinds
    <3>1. CASE UNCHANGED <<chunkVars, rc>>
      BY <3>1 DEF TypeOK, ChunkTypeOK, chunkVars
    <3>2. CASE EmitConstant(ObjectValue("String", NewId(heap)), Append(heap, StringObject))
      <4>. DEFINE v == ObjectValue("String", NewId(heap))
                  h == Append(heap, StringObject)
      <4>1. StringObject \in Objects
        <5>1. <<>> \in Seq(Values)
          OBVIOUS
        <5>. QED  BY <5>1 DEF StringObject, Objects
      <4>2. heap \in Seq(Objects) /\ Len(heap) \in Nat
        BY LenProperties DEF TypeOK, ChunkTypeOK
      <4>3. h \in Seq(Objects) /\ Len(h) = Len(heap) + 1
        BY <4>1, <4>2, AppendProperties
      <4>4. v \in Values /\ v.n = Len(heap) + 1
        BY <4>2 DEF ObjectValue, NewId, Values, ValueTypes, ObjectTypes
      <4>5. v.n \in 1..Len(h)
        BY <4>2, <4>3, <4>4
      <4>6. EmitConstant(v, h) /\ ChunkTypeOK
        BY <3>2 DEF TypeOK
      <4>. HIDE DEF v, h
      <4>. QED  BY <4>3, <4>4, <4>5, <4>6, EmitConstantType
    <3>. QED  BY <1>13, <3>1, <3>2 DEF CompileString
  <2>3. LexerTypeOK' /\ ScopeTypeOK' /\ isRef' \in BOOLEAN
    BY <1>13 DEF CompileString, TypeOK, LexerTypeOK, ScopeTypeOK, lexVars
  <2>4. todo' \in Seq(Calls)
    BY <1>13, <2>1 DEF CompileString, Return
  <2>. QED  BY <2>2, <2>3, <2>4 DEF TypeOK
<1>14. ASSUME CompileArray  PROVE TypeOK'
  <2>1. Tail(todo) \in Seq(Calls)
    BY <1>14, TodoType DEF CompileArray
  <2>2. CASE SkipThen(<<DoNum("arrayEnd", 0)>>)
    <3>1. DoNum("arrayEnd", 0) \in Calls
      BY CountType, BoundsAssumption
    <3>2. <<DoNum("arrayEnd", 0)>> \in Seq(Calls)
      BY <3>1
    <3>. QED  BY <2>1, <2>2, <3>2, SkipThenType
  <2>3. CASE Then(<<Do("expr"), DoNum("arrayLoop", 1)>>)
    <3>1. DoNum("arrayLoop", 1) \in Calls
      BY CountType, BoundsAssumption
    <3>2. <<Do("expr"), DoNum("arrayLoop", 1)>> \in Seq(Calls)
      BY <3>1
    <3>. QED  BY <2>1, <2>3, <3>2, ThenType
  <2>. QED  BY <1>14, <2>2, <2>3 DEF CompileArray
<1>15. ASSUME ArrayLoop  PROVE TypeOK'
  <2>. DEFINE n == Head(todo).n
              more == <<Do("expr"), DoNum("arrayLoop", Byte(n + 1))>>
              end == <<Consume("RBracket"), DoNum("arrayEnd", n)>>
  <2>1. Tail(todo) \in Seq(Calls) /\ Head(todo) \in Calls /\ Head(todo).fn = "arrayLoop"
    BY <1>15, TodoType DEF ArrayLoop
  <2>2. n \in 0..UINT8_MAX
    BY <2>1, CallFields
  <2>3. DoNum("arrayLoop", Byte(n + 1)) \in Calls /\ DoNum("arrayEnd", n) \in Calls
    <3>1. n + 1 \in Nat
      BY <2>2, BoundsAssumption
    <3>. HIDE DEF n
    <3>. QED  BY <2>2, <3>1, ByteType, CountType
  <2>4. more \in Seq(Calls)
    <3>. HIDE DEF n
    <3>. QED  BY <2>3
  <2>5. end \in Seq(Calls)
    <3>. HIDE DEF n
    <3>. QED  BY <2>3
  <2>6. SkipThen(more) \/ Then(end)
    BY <1>15 DEF ArrayLoop
  <2>. HIDE DEF more, end
  <2>. QED  BY <2>1, <2>4, <2>5, <2>6, SkipThenType, ThenType
<1>16. ASSUME ArrayEnd  PROVE TypeOK'
  <2>1. Tail(todo) \in Seq(Calls) /\ Head(todo) \in Calls /\ Head(todo).fn = "arrayEnd"
    BY <1>16, TodoType DEF ArrayEnd
  <2>2. Op.Array \in Bytes /\ Head(todo).n \in Bytes
    BY <2>1, CallFields, OpValues DEF Bytes
  <2>3. <<Op.Array, Head(todo).n>> \in Seq(Bytes)
    BY <2>2
  <2>4. isRef' \in BOOLEAN
    BY <1>16 DEF ArrayEnd
  <2>. QED  BY <1>16, <2>1, <2>3, <2>4, EmitOnlyType DEF ArrayEnd
<1>17. ASSUME CompileRef  PROVE TypeOK'
  <2>1. todo \in Seq(Calls) /\ Tail(todo) \in Seq(Calls)
    BY <1>17, TodoType DEF CompileRef
  <2>2. CASE SkipThen(<<DoName("refTo", tok.text)>>)
    <3>1. DoName("refTo", tok.text) \in Calls
      BY TokenFields, NamedCalls
    <3>2. <<DoName("refTo", tok.text)>> \in Seq(Calls)
      BY <3>1
    <3>. QED  BY <2>1, <2>2, <3>2, SkipThenType
  <2>3. CASE Fail("Syntax")
    BY <2>1, <2>3, FailType DEF ErrorKinds
  <2>. QED  BY <1>17, <2>2, <2>3 DEF CompileRef
<1>18. ASSUME RefTo  PROVE TypeOK'
  <2>1. todo \in Seq(Calls) /\ Tail(todo) \in Seq(Calls)
    BY <1>18, TodoType DEF RefTo
  <2>2. isRef' \in BOOLEAN /\ UseVariable(Head(todo).name, Op.GetLocal, Op.LocalRef, <<>>)
    BY <1>18 DEF RefTo
  <2>. QED  BY <1>0, <2>1, <2>2, OpValues, UseVariableType
<1>19. ASSUME CompileVariable  PROVE TypeOK'
  <2>1. todo \in Seq(Calls) /\ Tail(todo) \in Seq(Calls)
    BY <1>19, TodoType DEF CompileVariable
  <2>2. /\ isRef' \in BOOLEAN
        /\ UseVariable(Head(todo).name, Op.GetLocalByRef, Op.GetLocal, <<Do("indexLoop")>>)
    BY <1>19 DEF CompileVariable, TypeOK
  <2>3. <<Do("indexLoop")>> \in Seq(Calls)
    OBVIOUS
  <2>. QED  BY <2>1, <2>2, <2>3, OpValues, UseVariableType
<1>20. ASSUME IndexLoop  PROVE TypeOK'
  <2>. DEFINE items == <<Do("expr"), Consume("RBracket"), EmitOp(Op.GetElement), Do("indexLoop")>>
  <2>1. Tail(todo) \in Seq(Calls)
    BY <1>20, TodoType DEF IndexLoop
  <2>2. CASE SkipThen(items)
    <3>1. EmitOp(Op.GetElement) \in Calls
      BY OpValues, PlainOps, OperatorType
    <3>2. items \in Seq(Calls)
      BY <3>1
    <3>. HIDE DEF items
    <3>. QED  BY <2>1, <2>2, <3>2, SkipThenType
  <2>3. CASE isRef' = FALSE /\ Return /\ UNCHANGED <<chunkVars, lexVars, rc, scopeDepth, variables>>
    BY <2>1, <2>3 DEF Return, TypeOK, ChunkTypeOK, LexerTypeOK, ScopeTypeOK, chunkVars, lexVars
  <2>. QED  BY <1>20, <2>2, <2>3 DEF IndexLoop
<1>. QED  BY <1>2, <1>3, <1>4, <1>5, <1>6, <1>7, <1>8, <1>9, <1>10, <1>11, <1>12, <1>13, <1>14,
            <1>15, <1>16, <1>17, <1>18, <1>19, <1>20 DEF Expression

-----------------------------------------------------------------------------
\* The theorems.

LEMMA TypeInitial ==
  ASSUME CompilerInit
  PROVE  TypeOK
<1>1. tok \in Tokens /\ Starting
  BY DEF CompilerInit, Token, Tokens, TokenKinds, Starting
<1>2. ChunkTypeOK
  BY EmptySeq, BoundsAssumption DEF CompilerInit, ChunkTypeOK
<1>3. LexerTypeOK /\ ScopeTypeOK
  BY <1>1, BoundsAssumption DEF CompilerInit, LexerTypeOK, ScopeTypeOK
<1>. QED  BY <1>1, <1>2, <1>3 DEF CompilerInit, TypeOK

LEMMA TypeStep ==
  ASSUME TypeOK, [CompilerNext]_vars
  PROVE  TypeOK'
<1>1. CASE CompilerNext
  BY <1>1, StatementType, ExpressionType DEF CompilerNext
<1>2. CASE UNCHANGED vars
  BY <1>2 DEF vars, chunkVars, compilerVars, TypeOK, ChunkTypeOK, LexerTypeOK, ScopeTypeOK, Starting
<1>. QED  BY <1>1, <1>2

\* The compiler keeps the types of its state and of the chunk: above all,
\* everything emit_opcode and emit_byte write is a byte, and neither buffer
\* outgrows AKW_MAX_CAPACITY, for every source text and every limit.
THEOREM TypeCorrect == CompilerSpec => []TypeOK
<1>1. CompilerInit => TypeOK
  BY TypeInitial
<1>2. TypeOK /\ [CompilerNext]_vars => TypeOK'
  BY TypeStep
<1>. QED  BY <1>1, <1>2, PTL DEF CompilerSpec

\* comp->variables changes in define_variable only.
LEMMA VariablesChange ==
  ASSUME CompilerNext
  PROVE  \/ UNCHANGED variables
         \/ \E name, ref, outcome : DefineVariable(name, ref, outcome)
<1>. USE DEF Then, SkipThen, Parses, Fail, EmitThen
<1>1. ASSUME NEW name, NEW byRef, NEW direct, NEW items, UseVariable(name, byRef, direct, items)
      PROVE  UNCHANGED variables
  BY <1>1 DEF UseVariable
<1>2. CASE BeginCompile \/ CompileChunk \/ CompileStmt \/ ConsumeToken \/ EmitOpcode
  BY <1>2 DEF BeginCompile, CompileChunk, CompileStmt, ConsumeToken, EmitOpcode
<1>3. CASE CompileLetStmt \/ LetValue \/ CompileInoutStmt \/ CompileReturnStmt
  BY <1>3 DEF CompileLetStmt, LetValue, CompileInoutStmt, CompileReturnStmt
<1>4. CASE PushScope \/ CompileBlockStmt \/ PopScope
  BY <1>4 DEF PushScope, CompileBlockStmt, PopScope
<1>5. CASE Define \/ DefineInout
  BY <1>5 DEF Define, DefineInout
<1>6. CASE AssignVariable \/ RefTo \/ CompileVariable
  BY <1>1, <1>6 DEF AssignVariable, RefTo, CompileVariable
<1>7. CASE CompileExpr \/ RangeOperator \/ CompileAddExpr \/ AddLoop \/ CompileMulExpr \/ MulLoop
  BY <1>7 DEF CompileExpr, RangeOperator, CompileAddExpr, AddLoop, CompileMulExpr, MulLoop, OperatorLoop
<1>8. CASE EmitOperator \/ CompileUnaryExpr \/ CompilePrimExpr \/ CompileInt \/ CompileNumber \/ CompileString
  BY <1>8 DEF EmitOperator, CompileUnaryExpr, CompilePrimExpr, CompileInt, CompileNumber, CompileString
<1>9. CASE CompileArray \/ ArrayLoop \/ ArrayEnd \/ CompileRef \/ IndexLoop
  BY <1>9 DEF CompileArray, ArrayLoop, ArrayEnd, CompileRef, IndexLoop
<1>. QED  BY <1>2, <1>3, <1>4, <1>5, <1>6, <1>7, <1>8, <1>9 DEF CompilerNext, Statement, Expression

\* A new variable gets the slot after the last one: the limit on the number of
\* variables comes before the conversion of the slot number to a byte.
LEMMA DefineVariableSlot ==
  ASSUME ScopeTypeOK, SlotNumbering, NEW name, NEW ref, NEW outcome,
         DefineVariable(name, ref, outcome)
  PROVE  SlotNumbering'
<1>1. CASE CannotDefine(name)
  BY <1>1 DEF DefineVariable, SlotNumbering
<1>2. CASE ~CannotDefine(name)
  <2>. DEFINE n == Len(variables)
              new == [name |-> name, depth |-> scopeDepth, isRef |-> ref, index |-> Byte(n)]
  <2>1. n \in Nat /\ DOMAIN variables = 1..n
    BY LenProperties DEF ScopeTypeOK
  <2>2. n <= UINT8_MAX
    BY <1>2, <2>1, BoundsAssumption DEF CannotDefine
  <2>3. Byte(n) = n
    BY <2>1, <2>2, ByteType
  <2>4. variables' = Append(variables, new) /\ new.index = n
    BY <1>2, <2>3 DEF DefineVariable
  <2>. HIDE DEF new
  <2>5. Len(variables') = n + 1 /\ DOMAIN variables' = 1..n + 1 /\ variables'[n + 1] = new
    BY <2>1, <2>4 DEF ScopeTypeOK
  <2>6. \A i \in 1..n : variables'[i] = variables[i]
    BY <2>1, <2>4 DEF ScopeTypeOK
  <2>7. ASSUME NEW i \in 1..n + 1  PROVE variables'[i].index = i - 1
    <3>1. CASE i \in 1..n
      BY <2>1, <2>6, <3>1 DEF SlotNumbering
    <3>2. CASE i = n + 1
      BY <2>1, <2>4, <2>5, <3>2
    <3>. QED  BY <2>1, <3>1, <3>2
  <2>. QED  BY <2>5, <2>7 DEF SlotNumbering
<1>. QED  BY <1>1, <1>2

LEMMA SlotStep ==
  ASSUME TypeOK, SlotNumbering, [CompilerNext]_vars
  PROVE  SlotNumbering'
<1>1. CASE UNCHANGED variables
  BY <1>1 DEF SlotNumbering
<1>2. CASE \E name, ref, outcome : DefineVariable(name, ref, outcome)
  BY <1>2, DefineVariableSlot DEF TypeOK
<1>3. CASE UNCHANGED vars
  BY <1>1, <1>3 DEF vars, compilerVars
<1>. QED  BY <1>1, <1>2, <1>3, VariablesChange

\* Variables and slots are in step: the n-th variable the compiler defines is
\* the n-th slot of the VM stack and no slot number wraps around, for any limit.
THEOREM SlotsAreNumbered == CompilerSpec => []SlotNumbering
<1>1. CompilerInit => SlotNumbering
  BY DEF CompilerInit, SlotNumbering
<1>2. TypeOK /\ SlotNumbering /\ [CompilerNext]_vars => SlotNumbering'
  BY SlotStep
<1>. QED  BY <1>1, <1>2, TypeCorrect, PTL DEF CompilerSpec

\* No call of a function that asks for a token is made at the end of the file.
LEMMA EofStops ==
  ASSUME TypeOK, CompilerNext, Match("Eof")
  PROVE  UNCHANGED lexVars
<1>. USE DEF Then, Fail, EmitThen, Match
<1>0. ASSUME NEW name, NEW byRef, NEW direct, NEW items, UseVariable(name, byRef, direct, items)
      PROVE  UNCHANGED lexVars
  BY <1>0 DEF UseVariable
<1>1. CASE BeginCompile
  <2>1. CASE Starting
    BY <2>1 DEF Starting, Token
  <2>2. CASE ~Starting
    <3>1. Head(todo) \in Calls /\ Head(todo).fn = "init"
      BY <1>1, <2>2, HeadTailProperties DEF TypeOK, BeginCompile, At
    <3>2. "init" \notin Functions
      BY DEF Functions
    <3>. QED  BY <3>1, <3>2 DEF Calls
  <2>. QED  BY <2>1, <2>2
<1>2. CASE ConsumeToken
  <2>1. Head(todo) \in Calls /\ Head(todo).fn = "consume"
    BY <1>2, TodoType DEF ConsumeToken
  <2>2. Head(todo).name # "Eof"
    BY <2>1, CallFields
  <2>. QED  BY <1>2, <2>2 DEF ConsumeToken
<1>3. CASE CompileChunk \/ CompileStmt \/ EmitOpcode \/ CompileLetStmt
  BY <1>3 DEF CompileChunk, CompileStmt, EmitOpcode, CompileLetStmt
<1>4. CASE LetValue \/ CompileInoutStmt \/ CompileReturnStmt
  BY <1>4 DEF LetValue, CompileInoutStmt, CompileReturnStmt
<1>5. CASE PushScope \/ CompileBlockStmt \/ PopScope \/ Define \/ DefineInout
  BY <1>5 DEF PushScope, CompileBlockStmt, PopScope, Define, DefineInout
<1>6. CASE AssignVariable \/ RefTo \/ CompileVariable
  BY <1>0, <1>6 DEF AssignVariable, RefTo, CompileVariable
<1>7. CASE CompileExpr \/ RangeOperator \/ CompileAddExpr \/ CompileMulExpr
  BY <1>7 DEF CompileExpr, RangeOperator, CompileAddExpr, CompileMulExpr
<1>8. CASE AddLoop \/ MulLoop
  <2>1. "Eof" \notin DOMAIN AddOperators /\ "Eof" \notin DOMAIN MulOperators
    BY DEF AddOperators, MulOperators
  <2>. QED  BY <1>8, <2>1 DEF AddLoop, MulLoop, OperatorLoop
<1>9. CASE CompilePrimExpr
  <2>1. "Eof" \notin DOMAIN PrimCalls
    BY DEF PrimCalls
  <2>. QED  BY <1>9, <2>1 DEF CompilePrimExpr
<1>10. CASE EmitOperator \/ CompileUnaryExpr \/ CompileInt \/ CompileNumber \/ CompileString
  BY <1>10 DEF EmitOperator, CompileUnaryExpr, CompileInt, CompileNumber, CompileString
<1>11. CASE CompileArray \/ ArrayLoop \/ ArrayEnd \/ CompileRef \/ IndexLoop
  BY <1>11 DEF CompileArray, ArrayLoop, ArrayEnd, CompileRef, IndexLoop
<1>. QED  BY <1>1, <1>2, <1>3, <1>4, <1>5, <1>6, <1>7, <1>8, <1>9, <1>10, <1>11
          DEF CompilerNext, Statement, Expression

\* Once the lexer has delivered the end of the file it is not called again, so
\* it never reads behind the terminating NUL of the source text.
THEOREM LexerStopsAtEof == CompilerSpec => NeverReadsPastEof
<1>1. TypeOK /\ [CompilerNext]_vars => [Match("Eof") => UNCHANGED lexVars]_vars
  BY EofStops
<1>. QED  BY <1>1, TypeCorrect, PTL DEF CompilerSpec, NeverReadsPastEof

-----------------------------------------------------------------------------
\* Blocks.

\* The calls that stand for the end of a block, and the others.
BlockCalls == {call \in Calls : call.fn \in {"block", "popScope"}}
OtherCalls == Calls \ BlockCalls

\* What an action other than the three of the blocks does: it replaces a call by
\* others, and none of them is the end of a block.
OtherStep ==
  /\ UNCHANGED scopeDepth
  /\ todo # <<>> /\ Head(todo).fn \notin {"block", "popScope"}
  /\ \E items \in Seq(OtherCalls) : Call(items)

LEMMA OtherCallTypes ==
  /\ Do("chunk") \in OtherCalls /\ Do("stmt") \in OtherCalls /\ Do("let") \in OtherCalls
  /\ Do("inout") \in OtherCalls /\ Do("return") \in OtherCalls /\ Do("pushScope") \in OtherCalls
  /\ Do("expr") \in OtherCalls
  /\ Do("range") \in OtherCalls /\ Do("add") \in OtherCalls /\ Do("addLoop") \in OtherCalls
  /\ Do("mul") \in OtherCalls /\ Do("mulLoop") \in OtherCalls /\ Do("unary") \in OtherCalls
  /\ Do("prim") \in OtherCalls /\ Do("number") \in OtherCalls /\ Do("string") \in OtherCalls
  /\ Do("array") \in OtherCalls /\ Do("ref") \in OtherCalls /\ Do("indexLoop") \in OtherCalls
  /\ Consume("Eq") \in OtherCalls /\ Consume("Semicolon") \in OtherCalls
  /\ Consume("RParen") \in OtherCalls /\ Consume("RBracket") \in OtherCalls
BY PlainCalls, ConsumeCalls DEF OtherCalls, BlockCalls, Do, Consume, DoName

LEMMA OtherNamedCalls ==
  ASSUME NEW name \in Names \union {""}
  PROVE  /\ DoName("letValue", name) \in OtherCalls /\ DoName("define", name) \in OtherCalls
         /\ DoName("defineInout", name) \in OtherCalls /\ DoName("assign", name) \in OtherCalls
         /\ DoName("refTo", name) \in OtherCalls /\ DoName("variable", name) \in OtherCalls
BY NamedCalls DEF OtherCalls, BlockCalls, DoName

LEMMA OtherOperators ==
  ASSUME NEW op \in Opcodes \ OperandOps
  PROVE  Operator(op) \in OtherCalls /\ EmitOp(op) \in OtherCalls
BY OperatorType DEF OtherCalls, BlockCalls, Operator, EmitOp, DoNum

LEMMA OtherCounts ==
  ASSUME NEW n \in 0..UINT8_MAX
  PROVE  DoNum("arrayLoop", n) \in OtherCalls /\ DoNum("arrayEnd", n) \in OtherCalls
BY CountType DEF OtherCalls, BlockCalls, DoNum

\* Those of a primary expression.
LEMMA PrimCallsOther ==
  ASSUME TypeOK, tok.kind \in DOMAIN PrimCalls
  PROVE  PrimCalls[tok.kind] \in Seq(OtherCalls)
<1>. USE OtherCallTypes
<1>1. /\ Operator(Op.Nil) \in OtherCalls /\ Operator(Op.False) \in OtherCalls
      /\ Operator(Op.True) \in OtherCalls
  BY OpValues, PlainOps, OtherOperators
<1>2. DoName("variable", tok.text) \in OtherCalls
  BY TokenFields, OtherNamedCalls
<1>3. DoNum("int", tok.num) \in OtherCalls /\ DoNum("whole", tok.num) \in OtherCalls
  BY TokenFields, CallTypes DEF Functions, OtherCalls, BlockCalls, DoNum
<1>4. /\ PrimCalls.NilKw \in Seq(OtherCalls) /\ PrimCalls.FalseKw \in Seq(OtherCalls)
      /\ PrimCalls.TrueKw \in Seq(OtherCalls) /\ PrimCalls.Int \in Seq(OtherCalls)
      /\ PrimCalls.Number \in Seq(OtherCalls) /\ PrimCalls.String \in Seq(OtherCalls)
      /\ PrimCalls.WholeNumber \in Seq(OtherCalls)
      /\ PrimCalls.LBracket \in Seq(OtherCalls) /\ PrimCalls.Amp \in Seq(OtherCalls)
      /\ PrimCalls.Name \in Seq(OtherCalls) /\ PrimCalls.LParen \in Seq(OtherCalls)
  BY <1>1, <1>2, <1>3 DEF PrimCalls
<1>5. tok.kind \in {"NilKw", "FalseKw", "TrueKw", "Int", "Number", "WholeNumber", "String", "LBracket",
                    "Amp", "Name", "LParen"}
  BY DEF PrimCalls
<1>. QED  BY <1>4, <1>5

\* The loops over the operators of a level.
LEMMA OperatorLoopOther ==
  ASSUME TypeOK, NEW loop \in Functions \ {"block", "popScope"},
         NEW operand \in Functions \ {"block", "popScope"}, NEW operators,
         \A kind \in DOMAIN operators : operators[kind] \in Opcodes \ OperandOps,
         OperatorLoop(loop, operand, operators)
  PROVE  OtherStep
<1>. DEFINE items == <<Do(operand), Operator(operators[tok.kind]), Do(loop)>>
<1>1. UNCHANGED scopeDepth /\ todo # <<>> /\ Head(todo).fn = loop
  BY DEF OperatorLoop, At, SkipThen, Then, Parses
<1>2. CASE tok.kind \in DOMAIN operators /\ SkipThen(items)
  <2>1. Do(operand) \in OtherCalls /\ Do(loop) \in OtherCalls
    BY CallTypes DEF OtherCalls, BlockCalls, Do
  <2>2. Operator(operators[tok.kind]) \in OtherCalls
    BY <1>2, OtherOperators
  <2>3. items \in Seq(OtherCalls)
    BY <2>1, <2>2
  <2>4. Call(items)
    BY <1>2 DEF SkipThen
  <2>. HIDE DEF items
  <2>. QED  BY <1>1, <2>3, <2>4 DEF OtherStep
<1>3. CASE Then(<<>>)
  <2>1. <<>> \in Seq(OtherCalls) /\ Call(<<>>)
    BY <1>3 DEF Then
  <2>. QED  BY <1>1, <2>1 DEF OtherStep
<1>. QED  BY <1>2, <1>3 DEF OperatorLoop

\* The expressions have no blocks.
LEMMA ExpressionOther ==
  ASSUME TypeOK, Expression, rc' = "Ok"
  PROVE  OtherStep
<1>. USE OtherCallTypes
<1>0. <<>> \in Seq(OtherCalls)
  OBVIOUS
<1>1. ASSUME NEW items \in Seq(OtherCalls), SkipThen(items) \/ Then(items),
             NEW fn \in Functions \ {"block", "popScope"}, At(fn)
      PROVE  OtherStep
  BY <1>1 DEF OtherStep, At, SkipThen, Then, Parses
<1>2. ASSUME NEW bytes, NEW items \in Seq(OtherCalls), EmitThen(bytes, items),
             NEW fn \in {"operator"} \union (Functions \ {"block", "popScope"}), At(fn)
      PROVE  OtherStep
  BY <1>2 DEF OtherStep, At, EmitThen, Functions
<1>3. ASSUME Return, UNCHANGED scopeDepth, NEW fn \in Functions \ {"block", "popScope"}, At(fn)
      PROVE  OtherStep
  <2>1. Tail(todo) \in Seq(Calls)
    BY <1>3, TodoType DEF Functions
  <2>2. Call(<<>>)
    BY <1>3, <2>1 DEF Return, Call
  <2>. QED  BY <1>0, <1>3, <2>2 DEF OtherStep, At
<1>4. ASSUME NEW name, NEW byRef, NEW direct, NEW items \in Seq(OtherCalls),
             UseVariable(name, byRef, direct, items),
             NEW fn \in Functions \ {"block", "popScope"}, At(fn)
      PROVE  OtherStep
  <2>1. CASE Candidates(name) = {}
    BY <1>4, <2>1 DEF UseVariable
  <2>2. CASE Candidates(name) # {}
    <3>1. PICK bytes : EmitThen(bytes, items)
      BY <1>4, <2>2 DEF UseVariable
    <3>. QED  BY <1>2, <1>4, <3>1
  <2>. QED  BY <2>1, <2>2
<1>5. CASE CompileExpr
  <2>1. <<Do("add"), Do("range")>> \in Seq(OtherCalls)
    OBVIOUS
  <2>. QED  BY <1>1, <1>5, <2>1 DEF CompileExpr, Functions
<1>6. CASE RangeOperator
  <2>1. Operator(Op.Range) \in OtherCalls
    BY OpValues, PlainOps, OtherOperators
  <2>2. <<Do("add"), Operator(Op.Range)>> \in Seq(OtherCalls)
    BY <2>1
  <2>. QED  BY <1>0, <1>1, <1>6, <2>2 DEF RangeOperator, Functions
<1>7. CASE CompileAddExpr
  <2>1. <<Do("mul"), Do("addLoop")>> \in Seq(OtherCalls)
    OBVIOUS
  <2>. QED  BY <1>1, <1>7, <2>1 DEF CompileAddExpr, Functions
<1>8. CASE AddLoop
  <2>1. \A kind \in DOMAIN AddOperators : AddOperators[kind] \in Opcodes \ OperandOps
    BY OpValues, PlainOps DEF AddOperators
  <2>2. "addLoop" \in Functions /\ "mul" \in Functions
    BY DEF Functions
  <2>. QED  BY <1>8, <2>1, <2>2, OperatorLoopOther DEF AddLoop
<1>9. CASE CompileMulExpr
  <2>1. <<Do("unary"), Do("mulLoop")>> \in Seq(OtherCalls)
    OBVIOUS
  <2>. QED  BY <1>1, <1>9, <2>1 DEF CompileMulExpr, Functions
<1>10. CASE MulLoop
  <2>1. \A kind \in DOMAIN MulOperators : MulOperators[kind] \in Opcodes \ OperandOps
    BY OpValues, PlainOps DEF MulOperators
  <2>2. "mulLoop" \in Functions /\ "unary" \in Functions
    BY DEF Functions
  <2>. QED  BY <1>10, <2>1, <2>2, OperatorLoopOther DEF MulLoop
<1>11. CASE EmitOperator
  BY <1>0, <1>2, <1>11 DEF EmitOperator
<1>12. CASE CompileUnaryExpr
  <2>1. Operator(Op.Neg) \in OtherCalls
    BY OpValues, PlainOps, OtherOperators
  <2>2. <<Do("unary"), Operator(Op.Neg)>> \in Seq(OtherCalls) /\ <<Do("prim")>> \in Seq(OtherCalls)
    BY <2>1
  <2>. QED  BY <1>1, <1>12, <2>2 DEF CompileUnaryExpr, Functions
<1>13. CASE CompilePrimExpr
  <2>1. CASE tok.kind \in DOMAIN PrimCalls /\ SkipThen(PrimCalls[tok.kind])
    <3>1. PrimCalls[tok.kind] \in Seq(OtherCalls)
      BY <2>1, PrimCallsOther
    <3>. QED  BY <1>1, <1>13, <2>1, <3>1 DEF CompilePrimExpr, Functions
  <2>2. CASE Fail("Syntax")
    BY <2>2 DEF Fail
  <2>. QED  BY <1>13, <2>1, <2>2 DEF CompilePrimExpr
<1>14. CASE CompileInt \/ CompileNumber \/ CompileString
  BY <1>3, <1>14 DEF CompileInt, CompileNumber, CompileString, Functions
<1>15. CASE CompileArray
  <2>1. DoNum("arrayEnd", 0) \in OtherCalls /\ DoNum("arrayLoop", 1) \in OtherCalls
    BY OtherCounts, BoundsAssumption
  <2>2. /\ <<DoNum("arrayEnd", 0)>> \in Seq(OtherCalls)
        /\ <<Do("expr"), DoNum("arrayLoop", 1)>> \in Seq(OtherCalls)
    BY <2>1
  <2>. QED  BY <1>1, <1>15, <2>2 DEF CompileArray, Functions
<1>16. CASE ArrayLoop
  <2>. DEFINE n == Head(todo).n
              more == <<Do("expr"), DoNum("arrayLoop", Byte(n + 1))>>
              end == <<Consume("RBracket"), DoNum("arrayEnd", n)>>
  <2>1. todo # <<>> /\ Head(todo) \in Calls /\ Head(todo).fn = "arrayLoop"
    BY <1>16, TodoType DEF ArrayLoop
  <2>2. n \in 0..UINT8_MAX
    BY <2>1, CallFields
  <2>7. n + 1 \in Nat
    <3>. HIDE DEF n
    <3>. QED  BY <2>2, BoundsAssumption
  <2>3. DoNum("arrayLoop", Byte(n + 1)) \in OtherCalls /\ DoNum("arrayEnd", n) \in OtherCalls
    <3>. HIDE DEF n
    <3>. QED  BY <2>2, <2>7, ByteType, OtherCounts
  <2>4. more \in Seq(OtherCalls) /\ end \in Seq(OtherCalls)
    <3>. HIDE DEF n
    <3>. QED  BY <2>3
  <2>5. (SkipThen(more) \/ Then(end)) /\ UNCHANGED scopeDepth
    BY <1>16 DEF ArrayLoop, SkipThen, Then, Parses
  <2>6. Call(more) \/ Call(end)
    BY <2>5 DEF SkipThen, Then
  <2>. HIDE DEF more, end
  <2>. QED  BY <2>1, <2>4, <2>5, <2>6 DEF OtherStep
<1>17. CASE ArrayEnd
  <2>1. todo # <<>> /\ Head(todo).fn = "arrayEnd" /\ UNCHANGED scopeDepth /\ Call(<<>>)
    BY <1>17 DEF ArrayEnd, At, EmitThen
  <2>. QED  BY <1>0, <2>1 DEF OtherStep
<1>18. CASE CompileRef
  <2>1. <<DoName("refTo", tok.text)>> \in Seq(OtherCalls)
    <3>1. DoName("refTo", tok.text) \in OtherCalls
      BY TokenFields, OtherNamedCalls
    <3>. QED  BY <3>1
  <2>. QED  BY <1>1, <1>18, <2>1 DEF CompileRef, Fail, Functions
<1>19. CASE RefTo
  BY <1>0, <1>4, <1>19 DEF RefTo, Functions
<1>20. CASE CompileVariable
  <2>1. <<Do("indexLoop")>> \in Seq(OtherCalls)
    OBVIOUS
  <2>. QED  BY <1>4, <1>20, <2>1 DEF CompileVariable, Functions
<1>21. CASE IndexLoop
  <2>1. EmitOp(Op.GetElement) \in OtherCalls
    BY OpValues, PlainOps, OtherOperators
  <2>2. <<Do("expr"), Consume("RBracket"), EmitOp(Op.GetElement), Do("indexLoop")>> \in Seq(OtherCalls)
    BY <2>1
  <2>. QED  BY <1>1, <1>3, <1>21, <2>2 DEF IndexLoop, Functions
<1>. QED  BY <1>5, <1>6, <1>7, <1>8, <1>9, <1>10, <1>11, <1>12, <1>13, <1>14, <1>15, <1>16, <1>17,
            <1>18, <1>19, <1>20, <1>21 DEF Expression

\* Of the statements, three actions open and close blocks.
LEMMA StatementOther ==
  ASSUME TypeOK, Statement, rc' = "Ok"
  PROVE  PushScope \/ CompileBlockStmt \/ PopScope \/ OtherStep
<1>. USE OtherCallTypes
<1>0. <<>> \in Seq(OtherCalls)
  OBVIOUS
<1>1. ASSUME NEW items \in Seq(OtherCalls), SkipThen(items) \/ Then(items),
             NEW fn \in {"init", "consume"} \union (Functions \ {"block", "popScope"}), At(fn)
      PROVE  OtherStep
  BY <1>1 DEF OtherStep, At, SkipThen, Then, Parses, Functions
<1>2. ASSUME NEW bytes, NEW items \in Seq(OtherCalls), EmitThen(bytes, items),
             NEW fn \in {"emit"} \union (Functions \ {"block", "popScope"}), At(fn)
      PROVE  OtherStep
  BY <1>2 DEF OtherStep, At, EmitThen, Functions
<1>3. CASE BeginCompile
  <2>1. <<Do("chunk")>> \in Seq(OtherCalls)
    OBVIOUS
  <2>. QED  BY <1>1, <1>3, <2>1 DEF BeginCompile
<1>4. CASE CompileChunk
  <2>1. <<Do("stmt"), Do("chunk")>> \in Seq(OtherCalls)
    OBVIOUS
  <2>. QED  BY <1>0, <1>1, <1>2, <1>4, <2>1 DEF CompileChunk, Functions
<1>5. CASE CompileStmt
  <2>1. /\ <<Do("let")>> \in Seq(OtherCalls) /\ <<Do("inout")>> \in Seq(OtherCalls)
        /\ <<Do("return")>> \in Seq(OtherCalls) /\ <<Do("pushScope")>> \in Seq(OtherCalls)
    OBVIOUS
  <2>2. DoName("assign", tok.text) \in OtherCalls /\ EmitOp(Op.Pop) \in OtherCalls
    BY TokenFields, OtherNamedCalls, OpValues, PlainOps, OtherOperators
  <2>3. /\ <<Consume("Eq"), Do("expr"), Consume("Semicolon"), DoName("assign", tok.text)>> \in Seq(OtherCalls)
        /\ <<Do("expr"), Consume("Semicolon"), EmitOp(Op.Pop)>> \in Seq(OtherCalls)
    BY <2>2
  <2>. QED  BY <1>1, <1>5, <2>1, <2>3 DEF CompileStmt, Functions
<1>6. CASE ConsumeToken
  BY <1>0, <1>1, <1>6 DEF ConsumeToken, Fail
<1>7. CASE EmitOpcode
  BY <1>0, <1>2, <1>7 DEF EmitOpcode
<1>8. CASE CompileLetStmt
  <2>1. <<DoName("letValue", tok.text)>> \in Seq(OtherCalls)
    <3>1. DoName("letValue", tok.text) \in OtherCalls
      BY TokenFields, OtherNamedCalls
    <3>. QED  BY <3>1
  <2>. QED  BY <1>1, <1>8, <2>1 DEF CompileLetStmt, Fail, Functions
<1>9. CASE LetValue
  <2>. DEFINE define == <<Consume("Semicolon"), DoName("define", Head(todo).name)>>
  <2>1. Head(todo).name \in Names \union {""}
    BY <1>9, TodoType, CallFields DEF LetValue, Functions
  <2>2. define \in Seq(OtherCalls)
    <3>1. DoName("define", Head(todo).name) \in OtherCalls
      BY <2>1, OtherNamedCalls
    <3>. QED  BY <3>1
  <2>3. <<Do("expr")>> \o define \in Seq(OtherCalls)
    <3>. HIDE DEF define
    <3>1. <<Do("expr")>> \in Seq(OtherCalls)
      OBVIOUS
    <3>. QED  BY <2>2, <3>1, ConcatProperties
  <2>4. SkipThen(<<Do("expr")>> \o define) \/ EmitThen(<<Op.Nil>>, define)
    BY <1>9 DEF LetValue
  <2>5. At("letValue")
    BY <1>9 DEF LetValue
  <2>. HIDE DEF define
  <2>. QED  BY <1>1, <1>2, <2>2, <2>3, <2>4, <2>5 DEF Functions
<1>10. CASE Define \/ DefineInout
  <2>1. todo # <<>> /\ Head(todo).fn \in {"define", "defineInout"} /\ UNCHANGED scopeDepth
    BY <1>10 DEF Define, DefineInout, At
  <2>2. Tail(todo) \in Seq(Calls) /\ todo' = Tail(todo)
    BY <1>10, TodoType DEF Define, DefineInout, Return
  <2>3. Call(<<>>)
    BY <2>2 DEF Call
  <2>. QED  BY <1>0, <2>1, <2>3 DEF OtherStep
<1>11. CASE CompileInoutStmt
  <2>1. DoName("defineInout", tok.text) \in OtherCalls
    BY TokenFields, OtherNamedCalls
  <2>2. <<Consume("Eq"), Do("expr"), Consume("Semicolon"), DoName("defineInout", tok.text)>> \in Seq(OtherCalls)
    BY <2>1
  <2>. QED  BY <1>1, <1>11, <2>2 DEF CompileInoutStmt, Fail, Functions
<1>12. CASE AssignVariable
  <2>1. PICK bytes : EmitThen(bytes, <<>>)
    BY <1>12 DEF AssignVariable, UseVariable
  <2>. QED  BY <1>0, <1>2, <1>12, <2>1 DEF AssignVariable, Functions
<1>13. CASE CompileReturnStmt
  <2>1. EmitOp(Op.Return) \in OtherCalls
    BY OpValues, PlainOps, OtherOperators
  <2>2. <<Do("expr"), Consume("Semicolon"), EmitOp(Op.Return)>> \in Seq(OtherCalls)
    BY <2>1
  <2>. QED  BY <1>0, <1>1, <1>13, <2>2 DEF CompileReturnStmt, Functions
<1>. QED  BY <1>3, <1>4, <1>5, <1>6, <1>7, <1>8, <1>9, <1>10, <1>11, <1>12, <1>13 DEF Statement

\* todo holds calls, the first one included.
AllCalls == Calls \union {Do("init")}

\* Which of them are about blocks.
LEMMA BlockCallsByName ==
  /\ \A call \in AllCalls : call \in BlockCalls <=> call.fn \in {"block", "popScope"}
  /\ Do("block") \in BlockCalls /\ Do("popScope") \in BlockCalls /\ Do("stmt") \notin BlockCalls
<1>1. /\ Do("block").fn = "block" /\ Do("popScope").fn = "popScope"
      /\ Do("stmt").fn = "stmt" /\ Do("init").fn = "init"
  BY DEF Do
<1>2. Do("block") \in Calls /\ Do("popScope") \in Calls
  BY PlainCalls
<1>. QED  BY <1>1, <1>2 DEF AllCalls, BlockCalls

LEMMA AllCallsType ==
  ASSUME TypeOK
  PROVE  todo \in Seq(AllCalls)
<1>1. CASE todo \in Seq(Calls)
  BY <1>1, SeqMonotonic DEF AllCalls
<1>2. CASE Starting
  BY <1>2 DEF Starting, AllCalls
<1>. QED  BY <1>1, <1>2 DEF TypeOK

LEMMA AllCallsTypeNext ==
  ASSUME TypeOK'
  PROVE  todo' \in Seq(AllCalls)
<1>1. CASE todo' \in Seq(Calls)
  BY <1>1, SeqMonotonic DEF AllCalls
<1>2. CASE Starting'
  BY <1>2 DEF Starting, AllCalls
<1>. QED  BY <1>1, <1>2 DEF TypeOK

\* The compiler only goes on while there is no error.
LEMMA RunsOnlyOk ==
  ASSUME CompilerNext
  PROVE  rc = "Ok" /\ todo # <<>>
<1>. USE DEF At
<1>1. CASE Statement
  BY <1>1 DEF Statement, BeginCompile, CompileChunk, CompileStmt, ConsumeToken, EmitOpcode,
     CompileLetStmt, LetValue, Define, CompileInoutStmt, DefineInout, AssignVariable,
     CompileReturnStmt, PushScope, CompileBlockStmt, PopScope
<1>2. CASE Expression
  BY <1>2 DEF Expression, CompileExpr, RangeOperator, CompileAddExpr, AddLoop, CompileMulExpr,
     MulLoop, OperatorLoop, EmitOperator, CompileUnaryExpr, CompilePrimExpr, CompileInt,
     CompileNumber, CompileString, CompileArray, ArrayLoop, ArrayEnd, CompileRef, RefTo,
     CompileVariable, IndexLoop
<1>. QED  BY <1>1, <1>2 DEF CompilerNext

\* The ends of blocks that are still to come, before and after a step that
\* replaces a call by others.
LEMMA BlocksAfterCall ==
  ASSUME TypeOK, todo # <<>>, NEW items \in Seq(Calls), Call(items)
  PROVE  Occurrences(todo', BlockCalls) =
           Occurrences(todo, BlockCalls) + Occurrences(items, BlockCalls)
           - (IF Head(todo).fn \in {"block", "popScope"} THEN 1 ELSE 0)
<1>1. todo \in Seq(AllCalls) /\ items \in Seq(AllCalls)
  BY AllCallsType, SeqMonotonic DEF AllCalls
<1>2. Head(todo) \in AllCalls /\ Tail(todo) \in Seq(AllCalls)
  BY <1>1, HeadTailProperties
<1>3. Occurrences(todo', BlockCalls) =
        Occurrences(items, BlockCalls) + Occurrences(Tail(todo), BlockCalls)
  BY <1>1, <1>2, OccurrencesConcat DEF Call
<1>4. Occurrences(todo, BlockCalls) =
        (IF Head(todo) \in BlockCalls THEN 1 ELSE 0) + Occurrences(Tail(todo), BlockCalls)
  BY <1>1, OccurrencesHeadTail
<1>5. Head(todo) \in BlockCalls <=> Head(todo).fn \in {"block", "popScope"}
  BY <1>2, BlockCallsByName
<1>6. /\ Occurrences(items, BlockCalls) \in Nat /\ Occurrences(Tail(todo), BlockCalls) \in Nat
  BY <1>1, <1>2, OccurrencesType
<1>. QED  BY <1>3, <1>4, <1>5, <1>6

\* What the property counts.
LEMMA BlocksToCome ==
  ASSUME TypeOK
  PROVE  DepthCountsBlocks <=> (rc = "Ok" => scopeDepth = Occurrences(todo, BlockCalls))
<1>1. todo \in Seq(AllCalls)
  BY AllCallsType
<1>2. \A k \in DOMAIN todo : todo[k] \in AllCalls
  BY <1>1
<1>3. {k \in DOMAIN todo : todo[k].fn \in {"block", "popScope"}} = {k \in DOMAIN todo : todo[k] \in BlockCalls}
  BY <1>2, BlockCallsByName
<1>. QED  BY <1>3 DEF DepthCountsBlocks, Occurrences

\* Every action keeps the depth in step with the blocks to come: a block that
\* was opened is closed by the "}" of its own, also where others lie in between.
LEMMA DepthStep ==
  ASSUME TypeOK, TypeOK', CompilerNext, rc' = "Ok", scopeDepth = Occurrences(todo, BlockCalls)
  PROVE  scopeDepth' = Occurrences(todo', BlockCalls)
<1>. USE PlainCalls
<1>0. todo # <<>> => Occurrences(todo, BlockCalls) \in Nat
  BY AllCallsType, OccurrencesType
<1>1. CASE PushScope
  <2>1. scopeDepth' = scopeDepth + 1 /\ todo # <<>> /\ Head(todo).fn = "pushScope" /\ Call(<<Do("block")>>)
    BY <1>1 DEF PushScope, At
  <2>2. <<Do("block")>> \in Seq(Calls) /\ Do("block") \in BlockCalls
    BY BlockCallsByName
  <2>3. Occurrences(<<Do("block")>>, BlockCalls) = 1
    BY <2>2, OccurrencesSingle
  <2>4. Occurrences(todo', BlockCalls) =
           Occurrences(todo, BlockCalls) + Occurrences(<<Do("block")>>, BlockCalls)
           - (IF Head(todo).fn \in {"block", "popScope"} THEN 1 ELSE 0)
    BY <2>1, <2>2, BlocksAfterCall
  <2>. QED  BY <1>0, <2>1, <2>3, <2>4
<1>2. CASE CompileBlockStmt
  <2>1. scopeDepth' = scopeDepth /\ todo # <<>> /\ Head(todo).fn = "block"
    BY <1>2 DEF CompileBlockStmt, At, SkipThen, Then, Parses
  <2>2. ASSUME NEW items \in Seq(Calls), Call(items), Occurrences(items, BlockCalls) = 1
        PROVE  scopeDepth' = Occurrences(todo', BlockCalls)
    <3>1. Occurrences(todo', BlockCalls) =
             Occurrences(todo, BlockCalls) + Occurrences(items, BlockCalls)
             - (IF Head(todo).fn \in {"block", "popScope"} THEN 1 ELSE 0)
      BY <2>1, <2>2, BlocksAfterCall
    <3>. QED  BY <1>0, <2>1, <2>2, <3>1
  <2>3. /\ Do("stmt") \notin BlockCalls /\ Do("block") \in BlockCalls /\ Do("popScope") \in BlockCalls
    BY BlockCallsByName
  <2>4. CASE Call(<<Do("stmt"), Do("block")>>)
    <3>. DEFINE items == <<Do("stmt"), Do("block")>>
    <3>1. items \in Seq(Calls) /\ DOMAIN items = 1..2 /\ items[1] = Do("stmt") /\ items[2] = Do("block")
      OBVIOUS
    <3>2. Call(items)
      BY <2>4
    <3>. HIDE DEF items
    <3>3. Occurrences(items, BlockCalls) = 1
      <4>1. 2 \in DOMAIN items /\ \A k \in DOMAIN items : items[k] \in BlockCalls <=> k = 2
        BY <2>3, <3>1
      <4>. QED  BY <4>1, OccurrencesOne
    <3>. QED  BY <2>2, <3>1, <3>2, <3>3
  <2>5. CASE Call(<<Do("popScope")>>)
    <3>1. <<Do("popScope")>> \in Seq(Calls) /\ Occurrences(<<Do("popScope")>>, BlockCalls) = 1
      BY <2>3, OccurrencesSingle
    <3>. QED  BY <2>2, <2>5, <3>1
  <2>. QED  BY <1>2, <2>4, <2>5 DEF CompileBlockStmt, SkipThen, Then
<1>3. CASE PopScope
  <2>1. scopeDepth' = scopeDepth - 1 /\ todo # <<>> /\ Head(todo).fn = "popScope"
    BY <1>3 DEF PopScope, At
  <2>2. <<>> \in Seq(Calls) /\ Call(<<>>)
    <3>1. Tail(todo) \in Seq(Calls)
      BY <1>3, TodoType DEF PopScope
    <3>. QED  BY <1>3, <3>1 DEF PopScope, Return, Call
  <2>3. Occurrences(<<>>, BlockCalls) = 0
    BY OccurrencesNone
  <2>4. Occurrences(todo', BlockCalls) =
           Occurrences(todo, BlockCalls) + Occurrences(<<>>, BlockCalls)
           - (IF Head(todo).fn \in {"block", "popScope"} THEN 1 ELSE 0)
    BY <2>1, <2>2, BlocksAfterCall
  <2>. QED  BY <1>0, <2>1, <2>3, <2>4
<1>4. CASE OtherStep
  <2>1. PICK items \in Seq(OtherCalls) : Call(items)
    BY <1>4 DEF OtherStep
  <2>2. items \in Seq(Calls) /\ \A k \in DOMAIN items : items[k] \notin BlockCalls
    <3>1. \A k \in DOMAIN items : items[k] \in OtherCalls
      BY <2>1
    <3>2. OtherCalls \subseteq Calls
      BY DEF OtherCalls
    <3>. QED  BY <2>1, <3>1, <3>2, SeqMonotonic DEF OtherCalls
  <2>3. Occurrences(items, BlockCalls) = 0
    BY <2>2, OccurrencesNone
  <2>4. scopeDepth' = scopeDepth /\ todo # <<>> /\ Head(todo).fn \notin {"block", "popScope"}
    BY <1>4 DEF OtherStep
  <2>5. Occurrences(todo', BlockCalls) =
           Occurrences(todo, BlockCalls) + Occurrences(items, BlockCalls)
           - (IF Head(todo).fn \in {"block", "popScope"} THEN 1 ELSE 0)
    BY <2>1, <2>2, <2>4, BlocksAfterCall
  <2>. QED  BY <1>0, <2>3, <2>4, <2>5
<1>. QED  BY <1>1, <1>2, <1>3, <1>4, StatementOther, ExpressionOther DEF CompilerNext

\* However blocks are nested, and whatever limit is reached on the way, scopeDepth
\* is the number of blocks whose end is still to come as long as there is no
\* error: the top level is depth 0 again after every block.
THEOREM DepthIsNesting == CompilerSpec => []DepthCountsBlocks
<1>1. CompilerInit => DepthCountsBlocks
  <2>1. SUFFICES ASSUME CompilerInit  PROVE DepthCountsBlocks
    OBVIOUS
  <2>2. {k \in DOMAIN todo : todo[k].fn \in {"block", "popScope"}} = {}
    <3>1. Do("init").fn = "init" /\ todo = <<Do("init")>>
      BY <2>1 DEF CompilerInit, Do
    <3>. QED  BY <3>1
  <2>. QED  BY <2>1, <2>2, FS_EmptySet DEF CompilerInit, DepthCountsBlocks
<1>2. TypeOK /\ TypeOK' /\ DepthCountsBlocks /\ [CompilerNext]_vars => DepthCountsBlocks'
  <2>1. SUFFICES ASSUME TypeOK, TypeOK', DepthCountsBlocks, [CompilerNext]_vars, rc' = "Ok"
                 PROVE  scopeDepth' = Cardinality({k \in DOMAIN todo' : todo'[k].fn \in {"block", "popScope"}})
    BY DEF DepthCountsBlocks
  <2>2. CASE UNCHANGED vars
    BY <2>1, <2>2 DEF vars, compilerVars, DepthCountsBlocks
  <2>3. CASE CompilerNext
    <3>1. rc = "Ok"
      BY <2>3, RunsOnlyOk
    <3>2. scopeDepth = Occurrences(todo, BlockCalls)
      BY <2>1, <3>1, BlocksToCome
    <3>3. scopeDepth' = Occurrences(todo', BlockCalls)
      BY <2>1, <2>3, <3>2, DepthStep
    <3>4. \A k \in DOMAIN todo' : todo'[k] \in AllCalls
      BY <2>1, AllCallsTypeNext
    <3>. QED  BY <3>3, <3>4, BlockCallsByName DEF Occurrences
  <2>. QED  BY <2>1, <2>2, <2>3
<1>. QED  BY <1>1, <1>2, TypeCorrect, PTL DEF CompilerSpec

=============================================================================
