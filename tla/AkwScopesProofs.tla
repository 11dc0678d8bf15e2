-------------------------- MODULE AkwScopesProofs --------------------------
(***************************************************************************)
(* What holds of the scopes, of the emitted code and of what inouts are    *)
(* given, for every source text and every value of the constants.          *)
(*                                                                         *)
(* The scopes: comp->variables keeps the variables of closed blocks among  *)
(* those of open ones, and the search has to skip them.  That it finds the *)
(* right one rests on how the two are mixed, which EnvMatches says.        *)
(*                                                                         *)
(* The stack: the compiler never computes its height.  What the code so    *)
(* far leaves on it and what the pending calls will change it by add up to *)
(* the variables, which Balance says.                                      *)
(***************************************************************************)
EXTENDS AkwScopes, AkwCompilerProofs

\* The entry of comp->variables that the i-th variable of env stands for.
Entry(i) == env[i].index + 1

EntriesMatch ==
  \A i \in DOMAIN env :
    /\ env[i].index \in Nat
    /\ Entry(i) \in DOMAIN variables
    /\ variables[Entry(i)].name = env[i].name
    /\ variables[Entry(i)].depth = env[i].depth

\* Variables are entered in order, the outer block's first.
EnvOrdered ==
  \A i, j \in DOMAIN env : i < j => env[i].index < env[j].index /\ env[i].depth <= env[j].depth

\* No open block is deeper than the current one.
EnvOpen ==
  \A i \in DOMAIN env : env[i].depth <= scopeDepth

\* As long as a variable's block is open, all that is entered after it is in
\* that block or deeper, and nothing at the same depth has the same name.
EnvShields ==
  \A i \in DOMAIN env : \A p \in Entry(i) + 1..Len(variables) :
    /\ variables[p].depth >= env[i].depth
    /\ variables[p].depth = env[i].depth => variables[p].name # env[i].name

EnvMatches ==
  /\ \E S : env \in Seq(S)
  /\ EntriesMatch
  /\ EnvOrdered
  /\ EnvOpen
  /\ EnvShields

-----------------------------------------------------------------------------
\* Scopes.

\* The types that the proofs about env need.
LEMMA EnvFacts ==
  ASSUME TypeOK, EnvMatches
  PROVE  /\ Len(env) \in Nat /\ DOMAIN env = 1..Len(env)
         /\ Len(variables) \in Nat /\ DOMAIN variables = 1..Len(variables)
         /\ scopeDepth \in Int
         /\ \A p \in 1..Len(variables) : variables[p].depth \in Int
         /\ \A i \in DOMAIN env : /\ Entry(i) \in 1..Len(variables)
                                  /\ env[i].index = Entry(i) - 1
                                  /\ env[i].index \in Int
                                  /\ env[i].depth \in Int
<1>1. Len(env) \in Nat /\ DOMAIN env = 1..Len(env)
  BY LenProperties DEF EnvMatches
<1>2. /\ Len(variables) \in Nat /\ DOMAIN variables = 1..Len(variables)
      /\ variables \in Seq(Variables) /\ scopeDepth \in Int
  BY LenProperties DEF TypeOK, ScopeTypeOK
<1>3. \A p \in 1..Len(variables) : variables[p].depth \in Int
  <2>1. \A p \in 1..Len(variables) : variables[p] \in Variables
    BY <1>2, ElementOfSeq
  <2>. QED  BY <2>1 DEF Variables
<1>4. \A i \in DOMAIN env : /\ Entry(i) \in 1..Len(variables)
                            /\ env[i].index = Entry(i) - 1
                            /\ env[i].index \in Int
                            /\ env[i].depth \in Int
  BY <1>2, <1>3 DEF EnvMatches, EntriesMatch, Entry
<1>. QED  BY <1>1, <1>2, <1>3, <1>4

\* The depth changes in push_scope and pop_scope only, and no variable is defined
\* there.
LEMMA DepthChange ==
  ASSUME TypeOK, CompilerNext
  PROVE  \/ UNCHANGED scopeDepth
         \/ scopeDepth' \in {scopeDepth + 1, scopeDepth - 1} /\ UNCHANGED variables
<1>. USE DEF Then, SkipThen, Parses, Fail, EmitThen
<1>1. ASSUME NEW name, NEW byRef, NEW direct, NEW items, UseVariable(name, byRef, direct, items)
      PROVE  UNCHANGED scopeDepth
  BY <1>1 DEF UseVariable
<1>2. CASE BeginCompile \/ CompileChunk \/ CompileStmt \/ ConsumeToken \/ EmitOpcode
  BY <1>2 DEF BeginCompile, CompileChunk, CompileStmt, ConsumeToken, EmitOpcode
<1>3. CASE CompileLetStmt \/ LetValue \/ CompileInoutStmt \/ CompileReturnStmt
  BY <1>3 DEF CompileLetStmt, LetValue, CompileInoutStmt, CompileReturnStmt
<1>4. CASE PushScope \/ CompileBlockStmt \/ PopScope
  BY <1>4 DEF PushScope, CompileBlockStmt, PopScope
<1>5. CASE Define \/ DefineInout
  BY <1>5 DEF Define, DefineInout
<1>6. CASE AssignVariable \/ RefTo \/ CompileVariable
  BY <1>1, <1>6 DEF AssignVariable, RefTo, CompileVariable
<1>7. CASE CompileExpr \/ RangeOperator \/ CompileAddExpr \/ AddLoop \/ CompileMulExpr \/ MulLoop
  BY <1>7 DEF CompileExpr, RangeOperator, CompileAddExpr, AddLoop, CompileMulExpr, MulLoop, OperatorLoop
<1>8. CASE EmitOperator \/ CompileUnaryExpr \/ CompilePrimExpr \/ CompileInt \/ CompileNumber \/ CompileString
  BY <1>8 DEF EmitOperator, CompileUnaryExpr, CompilePrimExpr, CompileInt, CompileNumber, CompileString
<1>9. CASE CompileArray \/ ArrayLoop \/ ArrayEnd \/ CompileRef \/ IndexLoop
  BY <1>9 DEF CompileArray, ArrayLoop, ArrayEnd, CompileRef, IndexLoop
<1>. QED  BY <1>2, <1>3, <1>4, <1>5, <1>6, <1>7, <1>8, <1>9 DEF CompilerNext, Statement, Expression

\* A new variable: its name is not that of any variable the search goes over.
LEMMA EnvDefine ==
  ASSUME TypeOK, SlotNumbering, EnvMatches, UNCHANGED scopeDepth, ObserveScopes, Declared,
         NEW name, NEW ref, NEW outcome, DefineVariable(name, ref, outcome)
  PROVE  EnvMatches'
<1>. DEFINE n == Len(variables)
            new == [name |-> name, depth |-> scopeDepth, isRef |-> ref, index |-> Byte(n)]
            var == variables'[Len(variables')]
            item == [name |-> var.name, depth |-> var.depth, index |-> var.index, cell |-> TopCell]
<1>1. /\ Len(env) \in Nat /\ DOMAIN env = 1..Len(env)
      /\ n \in Nat /\ DOMAIN variables = 1..n
      /\ scopeDepth \in Int
      /\ \A p \in 1..n : variables[p].depth \in Int
  BY EnvFacts
<1>2. \A i \in DOMAIN env : /\ Entry(i) \in 1..n
                            /\ env[i].index = Entry(i) - 1
                            /\ env[i].index \in Int
                            /\ env[i].depth \in Int
  BY EnvFacts
<1>3. ~CannotDefine(name) /\ variables' = Append(variables, new)
  BY DEF DefineVariable, Declared
<1>4. Byte(n) = n
  BY <1>1, <1>3, ByteType, BoundsAssumption DEF CannotDefine
<1>5. /\ Len(variables') = n + 1 /\ DOMAIN variables' = 1..n + 1
      /\ variables'[n + 1] = new /\ \A p \in 1..n : variables'[p] = variables[p]
  <2>. HIDE DEF new
  <2>. QED  BY <1>1, <1>3 DEF TypeOK, ScopeTypeOK
<1>6. var = new /\ item = [name |-> name, depth |-> scopeDepth, index |-> n, cell |-> TopCell]
  BY <1>4, <1>5
<1>7. env' = Append(env, item)
  BY DEF ObserveScopes
<1>8. PICK S : env \in Seq(S)
  BY DEF EnvMatches
<1>9. env \in Seq(S \union {item}) /\ item \in S \union {item}
  BY <1>8, SeqMonotonic
<1>10. /\ env' \in Seq(S \union {item}) /\ Len(env') = Len(env) + 1 /\ DOMAIN env' = 1..Len(env) + 1
       /\ env'[Len(env) + 1] = item /\ \A i \in DOMAIN env : env'[i] = env[i]
  <2>. HIDE DEF item
  <2>. QED  BY <1>1, <1>7, <1>9, AppendProperties
<1>. HIDE DEF new, var, item
<1>11. /\ item.name = name /\ item.depth = scopeDepth /\ item.index = n
       /\ new.name = name /\ new.depth = scopeDepth
  BY <1>6 DEF new
<1>12. EntriesMatch'
  <2>1. ASSUME NEW i \in DOMAIN env'
        PROVE  /\ env'[i].index \in Nat
               /\ env'[i].index + 1 \in DOMAIN variables'
               /\ variables'[env'[i].index + 1].name = env'[i].name
               /\ variables'[env'[i].index + 1].depth = env'[i].depth
    <3>1. CASE i \in DOMAIN env
      <4>1. /\ env[i].index \in Nat /\ env[i].index + 1 \in 1..n
            /\ variables[env[i].index + 1].name = env[i].name
            /\ variables[env[i].index + 1].depth = env[i].depth
        BY <1>1, <3>1 DEF EnvMatches, EntriesMatch, Entry
      <4>. QED  BY <1>1, <1>5, <1>10, <3>1, <4>1
    <3>2. CASE i = Len(env) + 1
      BY <1>1, <1>5, <1>10, <1>11, <3>2
    <3>. QED  BY <1>1, <1>10, <3>1, <3>2
  <2>. QED  BY <2>1 DEF EntriesMatch, Entry
<1>13. EnvOrdered'
  <2>1. ASSUME NEW i \in DOMAIN env', NEW j \in DOMAIN env', i < j
        PROVE  env'[i].index < env'[j].index /\ env'[i].depth <= env'[j].depth
    <3>1. i \in DOMAIN env
      BY <1>1, <1>10, <2>1
    <3>2. CASE j \in DOMAIN env
      BY <1>10, <2>1, <3>1, <3>2 DEF EnvMatches, EnvOrdered
    <3>3. CASE j = Len(env) + 1
      <4>1. env[i].index < n /\ env[i].depth <= scopeDepth
        BY <1>1, <1>2, <3>1 DEF EnvMatches, EnvOpen
      <4>. QED  BY <1>10, <1>11, <3>1, <3>3, <4>1
    <3>. QED  BY <1>1, <1>10, <3>2, <3>3
  <2>. QED  BY <2>1 DEF EnvOrdered
<1>14. EnvOpen'
  <2>1. ASSUME NEW i \in DOMAIN env'  PROVE env'[i].depth <= scopeDepth
    <3>1. CASE i \in DOMAIN env
      BY <1>10, <3>1 DEF EnvMatches, EnvOpen
    <3>2. CASE i = Len(env) + 1
      BY <1>1, <1>10, <1>11, <3>2
    <3>. QED  BY <1>1, <1>10, <3>1, <3>2
  <2>. QED  BY <2>1 DEF EnvOpen
<1>15. EnvShields'
  <2>1. ASSUME NEW i \in DOMAIN env', NEW p \in env'[i].index + 1 + 1..Len(variables')
        PROVE  /\ variables'[p].depth >= env'[i].depth
               /\ variables'[p].depth = env'[i].depth => variables'[p].name # env'[i].name
    <3>1. i \in DOMAIN env /\ p \in Int
      BY <1>1, <1>5, <1>10, <1>11, <2>1
    <3>2. env'[i] = env[i] /\ p \in Entry(i) + 1..n + 1 /\ Entry(i) \in 1..n
      BY <1>2, <1>5, <1>10, <2>1, <3>1 DEF Entry
    <3>3. CASE p <= n
      <4>1. p \in Entry(i) + 1..n /\ variables'[p] = variables[p]
        BY <1>1, <1>5, <3>1, <3>2, <3>3
      <4>. QED  BY <3>1, <3>2, <4>1 DEF EnvMatches, EnvShields
    <3>4. CASE p = n + 1
      <4>1. variables'[p].depth = scopeDepth /\ variables'[p].name = name
        BY <1>5, <1>11, <3>4
      <4>2. scopeDepth >= env[i].depth
        BY <1>1, <1>2, <3>1 DEF EnvMatches, EnvOpen
      <4>3. ASSUME scopeDepth = env[i].depth, name = env[i].name  PROVE FALSE
        <5>1. variables[Entry(i)].depth = env[i].depth /\ variables[Entry(i)].name = env[i].name
          BY <3>1 DEF EnvMatches, EntriesMatch
        <5>2. \A q \in Entry(i)..n : q = Entry(i) \/ q \in Entry(i) + 1..n
          BY <1>1, <3>2
        <5>3. \A q \in Entry(i)..n : variables[q].depth >= scopeDepth
          BY <1>1, <3>1, <4>3, <5>1, <5>2 DEF EnvMatches, EnvShields
        <5>4. AlreadyDefined(name)
          BY <1>1, <3>2, <4>3, <5>1, <5>3 DEF AlreadyDefined, Searched
        <5>. QED  BY <1>3, <5>4 DEF CannotDefine
      <4>. QED  BY <3>2, <4>1, <4>2, <4>3
    <3>. QED  BY <1>1, <3>1, <3>2, <3>3, <3>4
  <2>. QED  BY <2>1 DEF EnvShields, Entry
<1>. QED  BY <1>10, <1>12, <1>13, <1>14, <1>15 DEF EnvMatches

\* A step that defines no variable leaves env as it is, or takes the variables of
\* the block that it closes from the end of it.
LEMMA EnvDepth ==
  ASSUME TypeOK, EnvMatches, UNCHANGED variables, ObserveScopes,
         scopeDepth' \in {scopeDepth, scopeDepth + 1, scopeDepth - 1}
  PROVE  EnvMatches'
<1>1. /\ Len(env) \in Nat /\ DOMAIN env = 1..Len(env)
      /\ scopeDepth \in Int
      /\ \A i \in DOMAIN env : env[i].depth \in Int
  BY EnvFacts
<1>2. PICK S : env \in Seq(S)
  BY DEF EnvMatches
<1>3. PICK n \in 0..Len(env) :
        /\ env' = SubSeq(env, 1, n)
        /\ scopeDepth' < scopeDepth => \A i \in 1..n : env[i].depth < scopeDepth
  <2>1. CASE Closed
    <3>. DEFINE T == {i \in DOMAIN env : env[i].depth < scopeDepth}
    <3>1. \E n \in 0..Len(env) : \A i \in DOMAIN env : i <= n <=> env[i].depth < scopeDepth
      <4>1. CASE T = {}
        <5>1. \A i \in DOMAIN env : i <= 0 <=> env[i].depth < scopeDepth
          BY <1>1, <4>1
        <5>. QED  BY <1>1, <5>1
      <4>2. CASE T # {}
        <5>1. PICK n \in T : \A j \in T : j <= n
          <6>1. T \subseteq 1..Len(env)
            BY <1>1
          <6>. HIDE DEF T
          <6>. QED  BY <1>1, <4>2, <6>1, LastIndex
        <5>2. ASSUME NEW i \in DOMAIN env, i <= n  PROVE env[i].depth < scopeDepth
          <6>1. i = n \/ i < n
            BY <1>1, <5>2
          <6>2. env[i].depth <= env[n].depth
            BY <1>1, <6>1 DEF EnvMatches, EnvOrdered
          <6>. QED  BY <1>1, <6>2
        <5>. QED  BY <1>1, <5>1, <5>2
      <4>. QED  BY <4>1, <4>2
    <3>2. Outer \in 0..Len(env) /\ \A i \in DOMAIN env : i <= Outer <=> env[i].depth < scopeDepth
      BY <3>1 DEF Outer
    <3>3. env' = SubSeq(env, 1, Outer)
      BY <2>1 DEF ObserveScopes, Declared
    <3>4. \A i \in 1..Outer : env[i].depth < scopeDepth
      BY <1>1, <3>2
    <3>. QED  BY <3>2, <3>3, <3>4
  <2>2. CASE ~Closed
    <3>1. env' = env
      BY <2>2 DEF ObserveScopes, Declared
    <3>2. env = SubSeq(env, 1, Len(env))
      BY <1>1, <1>2
    <3>3. Len(env) \in 0..Len(env) /\ env' = SubSeq(env, 1, Len(env))
      BY <1>1, <3>1, <3>2
    <3>4. ~(scopeDepth' < scopeDepth)
      BY <2>2 DEF Closed
    <3>. QED  BY <3>3, <3>4
  <2>. QED  BY <2>1, <2>2
<1>4. \A i \in 1..n : env[i] \in S
  BY <1>1, <1>2, ElementOfSeq
<1>5. /\ env' \in Seq(S) /\ DOMAIN env' = 1..n
      /\ \A i \in 1..n : env'[i] = env[i]
  BY <1>1, <1>2, <1>3, <1>4, SubSeqProperties
<1>6. 1..n \subseteq DOMAIN env /\ variables' = variables
  BY <1>1
<1>7. EntriesMatch'
  BY <1>5, <1>6 DEF EntriesMatch, EnvMatches, Entry
<1>8. EnvOrdered'
  BY <1>5, <1>6 DEF EnvOrdered, EnvMatches
<1>9. EnvOpen'
  <2>1. ASSUME NEW i \in 1..n  PROVE env[i].depth <= scopeDepth'
    <3>1. env[i].depth \in Int /\ env[i].depth <= scopeDepth
      BY <1>1, <1>6 DEF EnvMatches, EnvOpen
    <3>. QED  BY <1>1, <1>3, <3>1
  <2>. QED  BY <1>5, <2>1 DEF EnvOpen
<1>10. EnvShields'
  BY <1>5, <1>6 DEF EnvShields, EnvMatches, Entry
<1>. QED  BY <1>5, <1>7, <1>8, <1>9, <1>10 DEF EnvMatches

LEMMA EnvStep ==
  ASSUME TypeOK, SlotNumbering, EnvMatches, [ScopesNext]_scopeVars
  PROVE  EnvMatches'
<1>1. CASE UNCHANGED scopeVars
  BY <1>1 DEF scopeVars, vars, compilerVars, EnvMatches, EntriesMatch, EnvOrdered, EnvOpen, EnvShields, Entry
<1>2. CASE ScopesNext
  <2>1. CompilerNext /\ ObserveScopes
    BY <1>2 DEF ScopesNext
  <2>2. CASE UNCHANGED variables
    <3>1. scopeDepth' \in {scopeDepth, scopeDepth + 1, scopeDepth - 1}
      BY <2>1, DepthChange
    <3>. QED  BY <2>1, <2>2, <3>1, EnvDepth
  <2>3. CASE Declared
    <3>1. PICK name, ref, outcome : DefineVariable(name, ref, outcome)
      BY <2>1, <2>3, VariablesChange DEF Declared
    <3>2. UNCHANGED scopeDepth
      BY <2>1, <2>3, DepthChange DEF Declared
    <3>. QED  BY <2>1, <2>3, <3>1, <3>2, EnvDefine
  <2>. QED  BY <2>2, <2>3 DEF Declared
<1>. QED  BY <1>1, <1>2

\* The invariant of the scopes, along every compilation.
LEMMA EnvInvariant ==
  ScopesSpec => [](TypeOK /\ SlotNumbering /\ EnvMatches)
<1>1. ScopesInit => TypeOK /\ SlotNumbering /\ EnvMatches
  <2>1. SUFFICES ASSUME ScopesInit  PROVE TypeOK /\ SlotNumbering /\ EnvMatches
    OBVIOUS
  <2>2. TypeOK
    BY <2>1, TypeInitial DEF ScopesInit
  <2>3. variables = <<>> /\ env = <<>> /\ scopeDepth = 0
    BY <2>1 DEF ScopesInit, CompilerInit
  <2>4. SlotNumbering
    BY <2>3 DEF SlotNumbering
  <2>5. env \in Seq({})
    BY <2>3
  <2>6. EntriesMatch /\ EnvOrdered /\ EnvOpen /\ EnvShields
    BY <2>3 DEF EntriesMatch, EnvOrdered, EnvOpen, EnvShields
  <2>. QED  BY <2>2, <2>4, <2>5, <2>6 DEF EnvMatches
<1>2. TypeOK /\ SlotNumbering /\ EnvMatches /\ [ScopesNext]_scopeVars
        => (TypeOK /\ SlotNumbering /\ EnvMatches)'
  <2>1. SUFFICES ASSUME TypeOK, SlotNumbering, EnvMatches, [ScopesNext]_scopeVars
                 PROVE  (TypeOK /\ SlotNumbering /\ EnvMatches)'
    OBVIOUS
  <2>2. [CompilerNext]_vars
    BY <2>1 DEF ScopesNext, scopeVars
  <2>. QED  BY <2>1, <2>2, TypeStep, SlotStep, EnvStep
<1>. QED  BY <1>1, <1>2, PTL DEF ScopesSpec

\* Two variables of a block that is open have different names: define_variable's
\* search goes over all of them, past those of the blocks closed in between.
THEOREM NamesAreUnique == ScopesSpec => []NoDuplicates
<1>1. TypeOK /\ EnvMatches => NoDuplicates
  <2>1. SUFFICES ASSUME TypeOK, EnvMatches, NEW i \in DOMAIN env, NEW j \in DOMAIN env,
                        env[i].name = env[j].name, env[i].depth = env[j].depth, i < j
                 PROVE  FALSE
    <3>1. DOMAIN env \subseteq Int
      BY LenProperties DEF EnvMatches
    <3>. QED  BY <3>1 DEF NoDuplicates
  <2>2. env[i].index < env[j].index
    BY <2>1 DEF EnvMatches, EnvOrdered
  <2>3. Entry(j) \in Entry(i) + 1..Len(variables)
    BY <2>1, <2>2, EnvFacts
  <2>4. variables[Entry(j)].name = env[j].name /\ variables[Entry(j)].depth = env[j].depth
    BY <2>1 DEF EnvMatches, EntriesMatch
  <2>. QED  BY <2>1, <2>3, <2>4 DEF EnvMatches, EnvShields
<1>. QED  BY <1>1, EnvInvariant, PTL

\* A name that is declared in the block being compiled means that declaration:
\* find_variable gives its slot, whatever blocks have been opened and closed
\* since, and whatever they have left in comp->variables.
THEOREM LookupFindsOwnBlock == ScopesSpec => []OwnBlockFirst
<1>1. TypeOK /\ SlotNumbering /\ EnvMatches => OwnBlockFirst
  <2>1. SUFFICES ASSUME TypeOK, SlotNumbering, EnvMatches, NEW name,
                        NEW i \in DOMAIN env, env[i].name = name, env[i].depth = scopeDepth
                 PROVE  Candidates(name) # {} /\ FoundVariable(name).index = env[i].index
    BY DEF OwnBlockFirst, Visible
  <2>. DEFINE n == Len(variables)
  <2>2. /\ n \in Nat /\ DOMAIN variables = 1..n /\ scopeDepth \in Int
        /\ \A p \in 1..n : variables[p].depth \in Int
        /\ Entry(i) \in 1..n /\ env[i].index = Entry(i) - 1
    BY <2>1, EnvFacts
  <2>3. variables[Entry(i)].name = name /\ variables[Entry(i)].depth = scopeDepth
    BY <2>1 DEF EnvMatches, EntriesMatch
  <2>4. \A q \in Entry(i)..n : q = Entry(i) \/ q \in Entry(i) + 1..n
    BY <2>2
  <2>5. \A q \in Entry(i)..n : variables[q].depth >= scopeDepth
    <3>1. \A q \in Entry(i) + 1..n : variables[q].depth >= scopeDepth
      BY <2>1 DEF EnvMatches, EnvShields
    <3>. QED  BY <2>2, <2>3, <2>4, <3>1
  <2>6. Entry(i) \in Candidates(name)
    BY <2>2, <2>3, <2>5 DEF Candidates, InScope, Searched
  <2>7. \A c \in Candidates(name) : c \in 1..n /\ variables[c].name = name /\ variables[c].depth = scopeDepth
    BY <2>2 DEF Candidates, InScope
  <2>8. \A c \in Candidates(name) : c <= Entry(i)
    <3>1. SUFFICES ASSUME NEW c \in Candidates(name), c > Entry(i)  PROVE FALSE
      BY <2>2, <2>7
    <3>2. c \in Entry(i) + 1..n
      BY <2>2, <2>7, <3>1
    <3>. QED  BY <2>1, <2>7, <3>2 DEF EnvMatches, EnvShields
  <2>9. (CHOOSE c \in Candidates(name) : \A d \in Candidates(name) : d <= c) = Entry(i)
    <3>. DEFINE last == CHOOSE c \in Candidates(name) : \A d \in Candidates(name) : d <= c
    <3>1. last \in Candidates(name) /\ \A d \in Candidates(name) : d <= last
      BY <2>6, <2>8
    <3>. HIDE DEF last
    <3>2. last <= Entry(i) /\ Entry(i) <= last /\ last \in Int
      BY <2>2, <2>6, <2>7, <2>8, <3>1
    <3>3. last = Entry(i)
      BY <2>2, <3>2
    <3>. QED  BY <3>3 DEF last
  <2>10. FoundVariable(name) = variables[Entry(i)]
    BY <2>9 DEF FoundVariable
  <2>11. variables[Entry(i)].index = env[i].index
    BY <2>1, <2>2 DEF SlotNumbering
  <2>. QED  BY <2>6, <2>10, <2>11
<1>. QED  BY <1>1, EnvInvariant, PTL

-----------------------------------------------------------------------------
\* The emitted code: where its instructions start.

LEMMA WidthType ==
  ASSUME NEW op
  PROVE  Width(op) \in {1, 2} /\ (Width(op) = 2 <=> op \in OperandOps)
BY DEF Width

\* T holds the positions a reader of `bytes` stops at: the first, and each one
\* that is reached by stepping over an instruction.
StopsAt(T, bytes) ==
  /\ T \subseteq 1..Len(bytes) + 2
  /\ \A i \in 1..Len(bytes) + 2 :
       i \in T <=> i = 1 \/ \E j \in T : j <= Len(bytes) /\ i = j + Width(bytes[j])

\* InstructionStarts is such a set: the recursive function it is made of exists.
LEMMA StartsEquation ==
  ASSUME NEW S, NEW bytes \in Seq(S)
  PROVE  StopsAt(InstructionStarts(bytes), bytes)
<1>. DEFINE m == Len(bytes) + 2
            after(T, i) == {k \in {i} : k = 1 \/ \E j \in T : j <= Len(bytes) /\ k = j + Width(bytes[j])}
            F(f) == [i \in 0..m |-> IF i = 0 THEN {} ELSE LET T == f[i - 1] IN T \union after(T, i)]
            upTo == CHOOSE f : f = F(f)
            Reached(T, n) == /\ T \subseteq 1..n
                             /\ \A i \in 1..n : i \in T <=>
                                  i = 1 \/ \E j \in T : j <= Len(bytes) /\ i = j + Width(bytes[j])
<1>1. InstructionStarts(bytes) = upTo[m]
  BY DEF InstructionStarts
<1>2. Len(bytes) \in Nat
  BY LenProperties
<1>3. \E f : f = F(f)
  <2>. DEFINE Sets == SUBSET Int
              step == [n \in Nat |-> [T \in Sets |-> T \union after(T, n)]]
  <2>1. ASSUME NEW n \in Nat, NEW T \in Sets  PROVE T \union after(T, n) \in Sets
    <3>1. /\ \A x \in after(T, n) : x = n
          /\ \A x \in T : x \in Int
      OBVIOUS
    <3>. HIDE DEF after
    <3>2. \A x \in T \union after(T, n) : x \in Int
      BY <3>1
    <3>. QED  BY <3>2
  <2>2. {} \in Sets /\ step \in [Nat -> [Sets -> Sets]] /\ m \in Nat
    <3>1. step \in [Nat -> [Sets -> Sets]]
      <4>. HIDE DEF after, Sets
      <4>. QED  BY <2>1
    <3>2. {} \in Sets /\ m \in Nat
      BY <1>2
    <3>. HIDE DEF step, Sets
    <3>. QED  BY <3>1, <3>2
  <2>3. PICK f \in [0..m -> Sets] : f[0] = {} /\ \A i \in 1..m : f[i] = step[i][f[i - 1]]
    <3>. DEFINE zero == {}
    <3>. HIDE DEF step, Sets, m, zero
    <3>1. zero \in Sets
      BY <2>2 DEF zero
    <3>2. \E f : Unrolled(f, Sets, zero, step, m)
      <4>1. step \in Steps(Sets)
        BY <2>2 DEF Steps
      <4>2. m \in Nat
        BY <2>2
      <4>. QED  BY <3>1, <4>1, <4>2, RecursionExists
    <3>. QED  BY <3>2 DEF zero, Unrolled
  <2>4. \A i \in 1..m : f[i] = f[i - 1] \union after(f[i - 1], i)
    <3>1. ASSUME NEW i \in 1..m  PROVE f[i] = f[i - 1] \union after(f[i - 1], i)
      <4>1. f[i - 1] \in Sets /\ i \in Nat
        BY <1>2
      <4>. HIDE DEF after, Sets, m
      <4>. QED  BY <2>3, <4>1
    <3>. QED  BY <3>1
  <2>5. f = F(f)
    <3>1. \A i \in 0..m : i = 0 \/ i \in 1..m
      BY <1>2
    <3>. HIDE DEF after, m, Sets
    <3>. QED  BY <2>3, <2>4, <3>1
  <2>. QED  BY <2>5
<1>4. upTo = F(upTo)
  <2>. HIDE DEF F
  <2>. QED  BY <1>3
<1>5. upTo[0] = {} /\ \A i \in 1..m : upTo[i] = upTo[i - 1] \union after(upTo[i - 1], i)
  <2>1. \A i \in 0..m : upTo[i] = IF i = 0 THEN {} ELSE upTo[i - 1] \union after(upTo[i - 1], i)
    <3>. HIDE DEF upTo, after, m
    <3>. QED  BY <1>4
  <2>2. 0 \in 0..m /\ \A i \in 1..m : i \in 0..m /\ i # 0
    BY <1>2
  <2>. HIDE DEF upTo, after, m
  <2>. QED  BY <2>1, <2>2
<1>. HIDE DEF upTo
<1>6. \A n \in Nat : n <= m => Reached(upTo[n], n)
  <2>. DEFINE U == {n \in Nat : n <= m => Reached(upTo[n], n)}
  <2>1. 0 \in U
    BY <1>5
  <2>2. ASSUME NEW n \in Nat, n \in U  PROVE n + 1 \in U
    <3>. SUFFICES ASSUME n + 1 <= m  PROVE Reached(upTo[n + 1], n + 1)
      OBVIOUS
    <3>. DEFINE A == upTo[n]
                B == upTo[n + 1]
    <3>1. Reached(A, n)
      BY <1>2, <2>2
    <3>2. B = A \union after(A, n + 1)
      <4>1. n + 1 \in 1..m /\ (n + 1) - 1 = n
        BY <1>2
      <4>. HIDE DEF after
      <4>. QED  BY <1>5, <4>1
    <3>. HIDE DEF A, B
    <3>3. after(A, n + 1) \subseteq {n + 1} /\ A \subseteq 1..n
      BY <3>1
    <3>4. B \subseteq 1..n + 1 /\ \A i \in 1..n : i \in B <=> i \in A
      <4>. HIDE DEF after
      <4>1. \A j \in B : j \in A \/ j = n + 1
        BY <3>2, <3>3
      <4>2. A \subseteq B /\ \A i \in 1..n : i # n + 1
        BY <3>2
      <4>. QED  BY <3>3, <4>1, <4>2
    <3>5. \A j \in B : \A i \in 1..n + 1 : i = j + Width(bytes[j]) => j \in A
      <4>1. SUFFICES ASSUME NEW j \in B, NEW i \in 1..n + 1, i = j + Width(bytes[j])  PROVE j \in A
        OBVIOUS
      <4>2. j < i
        BY <3>4, <4>1, WidthType
      <4>. QED  BY <3>4, <4>1, <4>2
    <3>6. ASSUME NEW i \in 1..n
          PROVE  i \in B <=> i = 1 \/ \E j \in B : j <= Len(bytes) /\ i = j + Width(bytes[j])
      BY <3>1, <3>2, <3>4, <3>5
    <3>7. n + 1 \in B <=> n + 1 = 1 \/ \E j \in B : j <= Len(bytes) /\ n + 1 = j + Width(bytes[j])
      <4>1. n + 1 \notin A
        BY <3>3
      <4>2. n + 1 \in B <=> n + 1 \in after(A, n + 1)
        BY <3>2, <4>1
      <4>3. n + 1 \in 1..n + 1
        OBVIOUS
      <4>. QED  BY <3>2, <3>5, <4>2, <4>3
    <3>8. \A i \in 1..n + 1 : i \in 1..n \/ i = n + 1
      OBVIOUS
    <3>9. Reached(B, n + 1)
      BY <3>4, <3>6, <3>7, <3>8
    <3>. QED  BY <3>9 DEF B
  <2>3. \A n \in Nat : n \in U
    <3>. HIDE DEF U
    <3>. QED  BY <2>1, <2>2, NatSetInduction
  <2>. QED  BY <2>3
<1>7. Reached(upTo[m], m)
  BY <1>2, <1>6
<1>. QED  BY <1>1, <1>7 DEF StopsAt

\* There is no other.
LEMMA StartsUnique ==
  ASSUME NEW S, NEW bytes \in Seq(S), NEW T, StopsAt(T, bytes)
  PROVE  InstructionStarts(bytes) = T
<1>. DEFINE A == InstructionStarts(bytes)
            m == Len(bytes) + 2
            D == {i \in 1..m : ~(i \in A <=> i \in T)}
<1>1. m \in Nat /\ StopsAt(A, bytes)
  BY LenProperties, StartsEquation
<1>. HIDE DEF A
<1>2. D = {}
  <2>1. SUFFICES ASSUME D # {}  PROVE FALSE
    OBVIOUS
  <2>2. PICK d \in D : \A i \in D : d <= i
    <3>1. D \subseteq Nat
      BY <1>1
    <3>. HIDE DEF D
    <3>. QED  BY <2>1, <3>1, LeastMember
  <2>3. \A i \in 1..m : i < d => (i \in A <=> i \in T)
    BY <1>1, <2>2
  <2>4. \A j : j + Width(bytes[j]) = d /\ j \in 1..m => j < d
    BY <1>1, WidthType
  <2>5. \A j : j <= Len(bytes) /\ d = j + Width(bytes[j]) => (j \in A <=> j \in T)
    BY <1>1, <2>3, <2>4 DEF StopsAt
  <2>. QED  BY <1>1, <2>2, <2>5 DEF StopsAt
<1>. QED  BY <1>1, <1>2 DEF StopsAt, A

\* One whole instruction more adds one position: the one behind it.
LEMMA StartsAppend ==
  ASSUME NEW S, NEW bytes \in Seq(S), NEW instr \in Seq(S),
         instr # <<>>, Len(instr) = Width(instr[1]),
         InstructionStarts(bytes) \subseteq 1..Len(bytes) + 1,
         Len(bytes) + 1 \in InstructionStarts(bytes)
  PROVE  InstructionStarts(bytes \o instr) =
           InstructionStarts(bytes) \union {Len(bytes) + Len(instr) + 1}
<1>. DEFINE A == InstructionStarts(bytes)
            n == Len(bytes)
            w == Len(instr)
            more == bytes \o instr
            T == A \union {n + w + 1}
<1>1. n \in Nat /\ w \in {1, 2} /\ StopsAt(A, bytes) /\ A \subseteq 1..n + 1 /\ n + 1 \in A
  BY LenProperties, StartsEquation, WidthType
<1>2. /\ more \in Seq(S) /\ Len(more) = n + w
      /\ \A i \in 1..n : more[i] = bytes[i]
      /\ more[n + 1] = instr[1]
  BY <1>1, ConcatProperties
<1>3. Width(more[n + 1]) = w
  BY <1>2
<1>. HIDE DEF A, w, n, more
<1>4. \A i \in A : i <= n \/ i = n + 1
  BY <1>1
<1>5. \A i \in A : i <= n => Width(more[i]) = Width(bytes[i]) /\ i + Width(bytes[i]) \in A
  <2>1. ASSUME NEW i \in A, i <= n  PROVE Width(more[i]) = Width(bytes[i]) /\ i + Width(bytes[i]) \in A
    <3>1. i \in 1..n /\ Width(bytes[i]) \in {1, 2}
      BY <1>1, <2>1, WidthType
    <3>2. i + Width(bytes[i]) \in 1..n + 2
      BY <1>1, <3>1
    <3>. QED  BY <1>2, <2>1, <3>1, <3>2, <1>1 DEF StopsAt, n
  <2>. QED  BY <2>1
<1>6. StopsAt(T, more)
  <2>1. T \subseteq 1..Len(more) + 2
    BY <1>1, <1>2
  <2>2. ASSUME NEW i \in T, i # 1
        PROVE  \E j \in T : j <= Len(more) /\ i = j + Width(more[j])
    <3>1. CASE i \in A
      <4>1. PICK j \in A : j <= n /\ i = j + Width(bytes[j])
        BY <1>1, <2>2, <3>1 DEF StopsAt, n
      <4>. QED  BY <1>1, <1>2, <1>5, <4>1
    <3>2. CASE i = n + w + 1
      <4>1. n + 1 \in T /\ n + 1 <= Len(more)
        BY <1>1, <1>2
      <4>2. i = n + 1 + Width(more[n + 1])
        BY <1>1, <1>3, <3>2
      <4>. QED  BY <4>1, <4>2
    <3>. QED  BY <3>1, <3>2
  <2>3. ASSUME NEW j \in T, j <= Len(more)  PROVE j + Width(more[j]) \in T
    <3>1. CASE j \in A /\ j <= n
      BY <1>5, <3>1
    <3>2. CASE j = n + 1
      BY <1>1, <1>3, <3>2
    <3>. QED  BY <1>1, <1>2, <1>4, <2>3, <3>1, <3>2
  <2>4. 1 \in T
    BY <1>1 DEF StopsAt, n
  <2>. QED  BY <2>1, <2>2, <2>3, <2>4 DEF StopsAt
<1>7. InstructionStarts(more) = T
  <2>. HIDE DEF T
  <2>. QED  BY <1>2, <1>6, StartsUnique
<1>. QED  BY <1>7 DEF A, w, n, more

-----------------------------------------------------------------------------
\* The emitted code: instructions and operands.

\* c decodes into whole instructions, the operands of which are below the numbers
\* of constants (nc) and of variables (nv).
WellFormed(c, nc, nv) ==
  /\ InstructionStarts(c) \subseteq 1..Len(c) + 1
  /\ Len(c) + 1 \in InstructionStarts(c)
  /\ \A i \in InstructionStarts(c) : i <= Len(c) =>
       /\ c[i] \in Opcodes
       /\ c[i] = Op.Const => c[i + 1] < nc
       /\ c[i] \in LocalOps => c[i + 1] < nv

\* Where constants are loaded.
Loads(c) == {i \in InstructionStarts(c) : i < Len(c) /\ c[i] = Op.Const}

\* There is a load for each constant, and they are in order.
Numbered(c, nc) ==
  /\ IsFiniteSet(Loads(c)) /\ Cardinality(Loads(c)) = nc
  /\ \A i \in Loads(c) : c[i + 1] = Byte(Cardinality({j \in Loads(c) : j < i}))

CodeOK(c, nc, nv) == c \in Seq(Bytes) /\ WellFormed(c, nc, nv) /\ Numbered(c, nc)

\* An instruction stays within the code.
LEMMA InstructionFits ==
  ASSUME NEW c \in Seq(Bytes), NEW nc, NEW nv, WellFormed(c, nc, nv),
         NEW i \in InstructionStarts(c), i <= Len(c)
  PROVE  i \in 1..Len(c) /\ i + Width(c[i]) <= Len(c) + 1
<1>1. StopsAt(InstructionStarts(c), c) /\ Len(c) \in Nat /\ Width(c[i]) \in {1, 2}
  BY StartsEquation, LenProperties, WidthType
<1>2. i \in 1..Len(c) /\ i + Width(c[i]) \in 1..Len(c) + 2
  BY <1>1 DEF StopsAt
<1>3. i + Width(c[i]) \in InstructionStarts(c)
  BY <1>1, <1>2 DEF StopsAt
<1>. QED  BY <1>1, <1>2, <1>3 DEF WellFormed

\* One more instruction, for the nc-th constant or for no constant.
LEMMA AppendInstruction ==
  ASSUME NEW c, NEW instr \in Seq(Bytes), NEW nc \in Nat, NEW nv \in Nat, NEW mc \in Nat,
         CodeOK(c, nc, nv), instr # <<>>, instr[1] \in Opcodes, Len(instr) = Width(instr[1]),
         instr[1] \in LocalOps => instr[2] < nv,
         IF instr[1] = Op.Const THEN mc = nc + 1 /\ instr[2] = Byte(nc) ELSE mc = nc
  PROVE  CodeOK(c \o instr, mc, nv)
<1>. DEFINE n == Len(c)
            w == Len(instr)
            d == c \o instr
            A == InstructionStarts(c)
            B == InstructionStarts(d)
<1>1. c \in Seq(Bytes) /\ WellFormed(c, nc, nv) /\ Numbered(c, nc)
  BY DEF CodeOK
<1>2. n \in Nat /\ w \in {1, 2}
  BY <1>1, LenProperties, WidthType
<1>3. /\ d \in Seq(Bytes) /\ Len(d) = n + w
      /\ \A i \in 1..n : d[i] = c[i]
      /\ d[n + 1] = instr[1] /\ (w = 2 => d[n + 2] = instr[2])
  BY <1>1, <1>2, ConcatProperties
<1>4. A \subseteq 1..n + 1 /\ n + 1 \in A
  BY <1>1 DEF WellFormed
<1>5. B = A \union {n + w + 1}
  BY <1>1, <1>4, StartsAppend
<1>6. \A i \in A : i <= n => i \in 1..n /\ d[i] = c[i] /\ i + Width(c[i]) <= n + 1
  BY <1>1, <1>3, InstructionFits
<1>7. Op.Const \in OperandOps /\ LocalOps \subseteq OperandOps /\ Op.Const \notin LocalOps
  BY DEF Op, OperandOps, LocalOps
<1>8. instr[1] = Op.Const => w = 2 /\ instr[2] < mc
  <2>1. SUFFICES ASSUME instr[1] = Op.Const  PROVE w = 2 /\ Byte(nc) < nc + 1
    OBVIOUS
  <2>2. Byte(nc) <= nc /\ Byte(nc) \in Nat
    BY BoundsAssumption DEF Byte
  <2>. QED  BY <1>7, <2>1, <2>2, WidthType
<1>9. instr[1] \in LocalOps => w = 2
  BY <1>7, WidthType
<1>10. nc <= mc
  OBVIOUS
<1>. HIDE DEF n, w, d, A, B
<1>11. \A i \in B : i <= n + w => (i \in A /\ i <= n) \/ i = n + 1
  BY <1>2, <1>4, <1>5
<1>12. \A i \in A : i <= n =>
         /\ d[i] \in OperandOps => i + 1 \in 1..n /\ d[i + 1] = c[i + 1]
         /\ d[i] \in Opcodes
         /\ d[i] = Op.Const => c[i + 1] < nc
         /\ d[i] \in LocalOps => c[i + 1] < nv
  <2>1. ASSUME NEW i \in A, i <= n
        PROVE  /\ d[i] \in OperandOps => i + 1 \in 1..n /\ d[i + 1] = c[i + 1]
               /\ d[i] \in Opcodes
               /\ d[i] = Op.Const => c[i + 1] < nc
               /\ d[i] \in LocalOps => c[i + 1] < nv
    <3>1. i \in 1..n /\ d[i] = c[i] /\ i + Width(c[i]) <= n + 1
      BY <1>6, <2>1
    <3>2. d[i] \in OperandOps => i + 1 \in 1..n
      BY <1>2, <3>1, WidthType
    <3>3. /\ c[i] \in Opcodes
          /\ c[i] = Op.Const => c[i + 1] < nc
          /\ c[i] \in LocalOps => c[i + 1] < nv
      BY <1>1, <2>1 DEF WellFormed, A, n
    <3>. QED  BY <1>3, <3>1, <3>2, <3>3
  <2>. QED  BY <2>1
<1>13. WellFormed(d, mc, nv)
  <2>1. B \subseteq 1..n + w + 1 /\ n + w + 1 \in B
    BY <1>2, <1>4, <1>5
  <2>2. ASSUME NEW i \in B, i <= n + w
        PROVE  /\ d[i] \in Opcodes
               /\ d[i] = Op.Const => d[i + 1] < mc
               /\ d[i] \in LocalOps => d[i + 1] < nv
    <3>1. CASE i = n + 1
      <4>1. i + 1 = n + 2
        BY <1>2, <3>1
      <4>. QED  BY <1>3, <1>8, <1>9, <3>1, <4>1
    <3>2. CASE i \in A /\ i <= n
      <4>1. d[i] = Op.Const => d[i + 1] < nc /\ d[i + 1] \in Nat
        <5>1. \A k \in 1..n : c[k] \in Nat
          <6>1. Bytes \subseteq Nat
            BY OpcodesAreBytes, BoundsAssumption DEF Bytes
          <6>. QED  BY <1>1, <6>1, ElementOfSeq DEF n
        <5>. QED  BY <1>7, <1>12, <3>2, <5>1
      <4>. QED  BY <1>7, <1>10, <1>12, <3>2, <4>1
    <3>. QED  BY <1>11, <2>2, <3>1, <3>2
  <2>. QED  BY <1>3, <2>1, <2>2 DEF WellFormed, B
<1>14. \A i \in A : i <= n /\ c[i] = Op.Const => i < n /\ d[i + 1] = c[i + 1]
  BY <1>2, <1>6, <1>7, <1>12
<1>15. Loads(c) = {i \in A : i <= n /\ c[i] = Op.Const} /\ \A i \in Loads(c) : i \in 1..n
  BY <1>2, <1>4, <1>6, <1>14 DEF Loads, A, n
<1>16. CASE instr[1] = Op.Const
  <2>1. Loads(d) = Loads(c) \union {n + 1}
    <3>1. \A i \in B : i < n + w => (i \in A /\ i <= n) \/ i = n + 1
      BY <1>2, <1>4, <1>5
    <3>2. n + 1 \in B /\ n + 1 < n + w /\ d[n + 1] = Op.Const
      BY <1>2, <1>3, <1>4, <1>5, <1>8, <1>16
    <3>3. \A i \in A : i <= n => i \in B /\ i < n + w
      BY <1>2, <1>4, <1>5
    <3>. QED  BY <1>3, <1>6, <1>15, <3>1, <3>2, <3>3 DEF Loads, B
  <2>2. n + 1 \notin Loads(c)
    BY <1>2, <1>15
  <2>3. IsFiniteSet(Loads(d)) /\ Cardinality(Loads(d)) = nc + 1
    BY <1>1, <2>1, <2>2, FS_AddElement DEF Numbered
  <2>4. ASSUME NEW i \in Loads(c)
        PROVE  d[i + 1] = Byte(Cardinality({j \in Loads(d) : j < i}))
    <3>1. {j \in Loads(d) : j < i} = {j \in Loads(c) : j < i}
      BY <1>2, <1>15, <2>1, <2>4
    <3>2. d[i + 1] = c[i + 1]
      BY <1>14, <1>15, <2>4
    <3>. QED  BY <1>1, <3>1, <3>2 DEF Numbered
  <2>5. d[n + 1 + 1] = Byte(Cardinality({j \in Loads(d) : j < n + 1}))
    <3>1. {j \in Loads(d) : j < n + 1} = Loads(c)
      BY <1>2, <1>15, <2>1
    <3>2. n + 1 + 1 = n + 2
      BY <1>2
    <3>. QED  BY <1>1, <1>3, <1>8, <1>16, <3>1, <3>2 DEF Numbered
  <2>6. Numbered(d, mc)
    BY <1>16, <2>1, <2>3, <2>4, <2>5 DEF Numbered
  <2>. QED  BY <1>3, <1>13, <2>6 DEF CodeOK, d
<1>17. CASE instr[1] # Op.Const
  <2>1. Loads(d) = Loads(c)
    <3>1. \A i \in B : i < n + w => (i \in A /\ i <= n) \/ i = n + 1
      BY <1>2, <1>4, <1>5
    <3>2. d[n + 1] # Op.Const
      BY <1>3, <1>17
    <3>3. \A i \in A : i <= n => i \in B /\ i < n + w
      BY <1>2, <1>4, <1>5
    <3>. QED  BY <1>3, <1>6, <1>15, <3>1, <3>2, <3>3 DEF Loads, B
  <2>2. \A i \in Loads(c) : d[i + 1] = c[i + 1]
    BY <1>14, <1>15
  <2>3. Numbered(d, mc)
    BY <1>1, <1>17, <2>1, <2>2 DEF Numbered
  <2>. QED  BY <1>3, <1>13, <2>3 DEF CodeOK, d
<1>. QED  BY <1>16, <1>17

\* An instruction of an opcode alone.
LEMMA AppendPlain ==
  ASSUME NEW c, NEW nc \in Nat, NEW nv \in Nat, CodeOK(c, nc, nv),
         NEW op \in Opcodes \ OperandOps
  PROVE  CodeOK(c \o <<op>>, nc, nv)
<1>. DEFINE instr == <<op>>
<1>1. /\ instr \in Seq(Bytes) /\ instr # <<>> /\ instr[1] = op /\ Len(instr) = 1
  BY OpcodesAreBytes
<1>2. Width(op) = 1 /\ op # Op.Const /\ op \notin LocalOps
  BY WidthType DEF OperandOps
<1>. HIDE DEF instr
<1>3. CodeOK(c \o instr, nc, nv)
  BY <1>1, <1>2, AppendInstruction
<1>. QED  BY <1>3 DEF instr

\* An instruction with its operand.
LEMMA AppendOperand ==
  ASSUME NEW c, NEW nc \in Nat, NEW nv \in Nat, NEW mc \in Nat, CodeOK(c, nc, nv),
         NEW op \in OperandOps, NEW operand \in 0..UINT8_MAX,
         op \in LocalOps => operand < nv,
         IF op = Op.Const THEN mc = nc + 1 /\ operand = Byte(nc) ELSE mc = nc
  PROVE  CodeOK(c \o <<op, operand>>, mc, nv)
<1>. DEFINE instr == <<op, operand>>
<1>1. op \in Opcodes
  BY OpValues DEF OperandOps, LocalOps
<1>2. /\ instr \in Seq(Bytes) /\ instr # <<>> /\ instr[1] = op /\ instr[2] = operand /\ Len(instr) = 2
  BY <1>1, OpcodesAreBytes DEF Bytes
<1>3. Width(op) = 2
  BY WidthType
<1>. HIDE DEF instr
<1>4. CodeOK(c \o instr, mc, nv)
  BY <1>1, <1>2, <1>3, AppendInstruction
<1>. QED  BY <1>4 DEF instr

\* The Pops at the end of a block.
LEMMA AppendPops ==
  ASSUME NEW c, NEW nc \in Nat, NEW nv \in Nat, CodeOK(c, nc, nv)
  PROVE  \A k \in Nat : CodeOK(c \o [i \in 1..k |-> Op.Pop], nc, nv)
<1>. DEFINE pops(k) == [i \in 1..k |-> Op.Pop]
            U == {k \in Nat : CodeOK(c \o pops(k), nc, nv)}
<1>0. c \in Seq(Bytes) /\ Op.Pop \in Bytes /\ Op.Pop \in Opcodes \ OperandOps
  BY OpValues, PlainOps, OpcodesAreBytes DEF CodeOK
<1>1. 0 \in U
  <2>1. pops(0) = <<>>
    OBVIOUS
  <2>2. c \o <<>> = c
    BY <1>0
  <2>. HIDE DEF pops
  <2>. QED  BY <2>1, <2>2
<1>2. ASSUME NEW k \in Nat, k \in U  PROVE k + 1 \in U
  <2>1. pops(k) \in Seq(Bytes) /\ Len(pops(k)) = k
    BY <1>0
  <2>2. pops(k + 1) = pops(k) \o <<Op.Pop>>
    BY <1>0
  <2>. HIDE DEF pops
  <2>3. c \o pops(k + 1) = (c \o pops(k)) \o <<Op.Pop>>
    <3>. DEFINE p == pops(k)
    <3>1. p \in Seq(Bytes) /\ <<Op.Pop>> \in Seq(Bytes) /\ c \in Seq(Bytes)
      BY <1>0, <2>1
    <3>. HIDE DEF p
    <3>2. c \o (p \o <<Op.Pop>>) = (c \o p) \o <<Op.Pop>>
      BY <3>1
    <3>. QED  BY <2>2, <3>2 DEF p
  <2>4. CodeOK((c \o pops(k)) \o <<Op.Pop>>, nc, nv)
    BY <1>0, <1>2, AppendPlain
  <2>5. CodeOK(c \o pops(k + 1), nc, nv)
    BY <2>3, <2>4
  <2>. QED  BY <2>5
<1>3. \A k \in Nat : k \in U
  <2>. HIDE DEF U
  <2>. QED  BY <1>1, <1>2, NatSetInduction
<1>. QED  BY <1>3

\* More variables make no operand wrong.
LEMMA MoreVariables ==
  ASSUME NEW c, NEW nc, NEW nv \in Nat, CodeOK(c, nc, nv), NEW mv \in Nat, nv <= mv
  PROVE  CodeOK(c, nc, mv)
<1>1. c \in Seq(Bytes) /\ WellFormed(c, nc, nv) /\ Numbered(c, nc)
  BY DEF CodeOK
<1>2. ASSUME NEW i \in InstructionStarts(c), i <= Len(c), c[i] \in LocalOps
      PROVE  c[i + 1] < mv
  <2>1. c[i + 1] < nv
    BY <1>1, <1>2 DEF WellFormed
  <2>2. i \in 1..Len(c) /\ i + Width(c[i]) <= Len(c) + 1 /\ Width(c[i]) = 2
    BY <1>1, <1>2, InstructionFits, WidthType DEF OperandOps
  <2>3. i + 1 \in 1..Len(c)
    BY <1>1, <2>2, LenProperties
  <2>4. c[i + 1] \in Nat
    <3>1. Bytes \subseteq Nat
      BY OpcodesAreBytes, BoundsAssumption DEF Bytes
    <3>. QED  BY <1>1, <2>3, <3>1, ElementOfSeq
  <2>. QED  BY <2>1, <2>4
<1>. QED  BY <1>1, <1>2 DEF CodeOK, WellFormed

-----------------------------------------------------------------------------
\* What the compiler emits.

\* What a step without error does to the code and to the constants: nothing, or
\* one of the forms of emission that the functions of the compiler have.
Emission ==
  \/ UNCHANGED <<code, consts>>
  \/ /\ consts' = consts
     /\ \/ \E op \in Opcodes \ OperandOps : code' = code \o <<op>>
        \/ \E op \in OperandOps \ {Op.Const}, operand \in 0..UINT8_MAX :
             /\ op \in LocalOps => operand < Len(variables)
             /\ code' = code \o <<op, operand>>
        \/ code' = code \o <<Op.Nil, Op.Return>>
        \/ \E k \in Nat : code' = code \o [i \in 1..k |-> Op.Pop]
  \/ \E v \in Values : /\ consts' = Append(consts, v)
                       /\ code' = code \o <<Op.Const, Byte(Len(consts))>>

\* An emission without error is complete, unless the compiler only checks.
LEMMA EmitWhole ==
  ASSUME ChunkTypeOK, NEW bytes, Emit(bytes), rc' = "Ok", CheckOnly \/ bytes \in Seq(Bytes)
  PROVE  IF CheckOnly THEN code' = code ELSE code' = code \o bytes
<1>1. CASE CheckOnly
  BY <1>1 DEF Emit
<1>2. CASE ~CheckOnly
  <2>. DEFINE fit == IF Len(code) + Len(bytes) <= MaxCapacity
                     THEN Len(bytes) ELSE MaxCapacity - Len(code)
  <2>1. code' = code \o SubSeq(bytes, 1, fit) /\ fit = Len(bytes)
    BY <1>2 DEF Emit
  <2>2. SubSeq(bytes, 1, Len(bytes)) = bytes
    BY <1>2
  <2>. HIDE DEF fit
  <2>. QED  BY <1>2, <2>1, <2>2
<1>. QED  BY <1>1, <1>2

LEMMA EmissionOfOpcode ==
  ASSUME TypeOK, rc' = "Ok", consts' = consts, NEW op \in Opcodes \ OperandOps, Emit(<<op>>)
  PROVE  Emission
<1>. DEFINE bytes == <<op>>
<1>1. bytes \in Seq(Bytes)
  BY OpcodesAreBytes
<1>2. IF CheckOnly THEN code' = code ELSE code' = code \o bytes
  <2>. HIDE DEF bytes
  <2>1. Emit(bytes)
    BY DEF bytes
  <2>. QED  BY <1>1, <2>1, EmitWhole DEF TypeOK
<1>. QED  BY <1>2 DEF Emission

LEMMA EmissionOfOperand ==
  ASSUME TypeOK, rc' = "Ok", consts' = consts, NEW op \in OperandOps \ {Op.Const}, NEW operand,
         CheckOnly \/ operand \in 0..UINT8_MAX, op \in LocalOps => operand < Len(variables),
         Emit(<<op, operand>>)
  PROVE  Emission
<1>. DEFINE bytes == <<op, operand>>
<1>1. CheckOnly \/ bytes \in Seq(Bytes)
  <2>1. op \in Bytes
    BY OpValues, OpcodesAreBytes DEF OperandOps, LocalOps
  <2>. QED  BY <2>1 DEF Bytes
<1>2. IF CheckOnly THEN code' = code ELSE code' = code \o bytes
  <2>. HIDE DEF bytes
  <2>1. Emit(bytes)
    BY DEF bytes
  <2>. QED  BY <1>1, <2>1, EmitWhole DEF TypeOK
<1>. QED  BY <1>2 DEF Emission

LEMMA EmissionOfConstant ==
  ASSUME TypeOK, rc' = "Ok", ~CheckOnly, NEW v \in Values, NEW h, EmitConstant(v, h)
  PROVE  Emission
<1>. DEFINE bytes == <<Op.Const, Byte(Len(consts))>>
<1>1. consts' = Append(consts, v) /\ Emit(bytes)
  BY DEF EmitConstant
<1>2. bytes \in Seq(Bytes)
  <2>1. Byte(Len(consts)) \in Bytes /\ Op.Const \in Bytes
    BY ByteType, LenProperties DEF TypeOK, ChunkTypeOK, Bytes, Op, Opcodes
  <2>. QED  BY <2>1
<1>3. code' = code \o bytes
  <2>. HIDE DEF bytes
  <2>. QED  BY <1>1, <1>2, EmitWhole DEF TypeOK
<1>. QED  BY <1>1, <1>3 DEF Emission

\* The instruction for a variable that was found: its slot is that of a variable.
LEMMA EmissionOfVariable ==
  ASSUME TypeOK, SlotNumbering, rc' = "Ok", NEW name, NEW byRef \in LocalOps, NEW direct \in LocalOps,
         NEW items, UseVariable(name, byRef, direct, items)
  PROVE  Emission
<1>. DEFINE var == FoundVariable(name)
            op == IF var.isRef THEN byRef ELSE direct
<1>1. Candidates(name) # {} /\ EmitThen(<<op, var.index>>, items)
  BY DEF UseVariable
<1>2. Candidates(name) \subseteq 1..Len(variables) /\ Len(variables) \in Nat /\ DOMAIN variables = 1..Len(variables)
  BY LenProperties DEF TypeOK, ScopeTypeOK, Candidates, InScope
<1>3. (CHOOSE i \in Candidates(name) : \A j \in Candidates(name) : j <= i) \in 1..Len(variables)
  BY <1>1, <1>2, LastIndex
<1>4. PICK i \in 1..Len(variables) : var = variables[i]
  BY <1>3 DEF FoundVariable
<1>5. var.index < Len(variables)
  BY <1>2, <1>4 DEF SlotNumbering
<1>6. var.index \in 0..UINT8_MAX
  BY <1>1, FoundVariableType DEF Variables
<1>7. op \in LocalOps /\ op \in OperandOps \ {Op.Const}
  BY DEF OperandOps, LocalOps, Op
<1>8. Emit(<<op, var.index>>) /\ consts' = consts
  BY <1>1 DEF EmitThen
<1>. HIDE DEF op, var
<1>. QED  BY <1>5, <1>6, <1>7, <1>8, EmissionOfOperand

\* Every step of the compiler that leads to no error emits in one of these forms.
LEMMA EmissionStep ==
  ASSUME TypeOK, SlotNumbering, CompilerNext, rc' = "Ok"
  PROVE  Emission
<1>0. ASSUME UNCHANGED chunkVars  PROVE Emission
  BY <1>0 DEF chunkVars, Emission
<1>1. ASSUME NEW op \in Opcodes \ OperandOps, NEW items, EmitThen(<<op>>, items)  PROVE Emission
  BY <1>1, EmissionOfOpcode DEF EmitThen
<1>2. CASE CompileChunk
  <2>1. CASE EmitThen(<<Op.Nil, Op.Return>>, <<>>)
    <3>. DEFINE bytes == <<Op.Nil, Op.Return>>
    <3>1. bytes \in Seq(Bytes)
      <4>1. Op.Nil \in Bytes /\ Op.Return \in Bytes
        BY OpValues, OpcodesAreBytes
      <4>. QED  BY <4>1
    <3>2. Emit(bytes) /\ consts' = consts
      BY <2>1 DEF EmitThen
    <3>. HIDE DEF bytes
    <3>3. IF CheckOnly THEN code' = code ELSE code' = code \o bytes
      BY <3>1, <3>2, EmitWhole DEF TypeOK
    <3>. QED  BY <3>2, <3>3 DEF Emission, bytes
  <2>. QED  BY <1>0, <1>2, <2>1 DEF CompileChunk, Then, Parses
<1>3. CASE EmitOpcode \/ EmitOperator
  <2>1. Head(todo) \in Calls /\ Head(todo).fn \in {"emit", "operator"}
    BY <1>3, TodoType DEF EmitOpcode, EmitOperator
  <2>2. Head(todo).n \in Opcodes \ OperandOps
    BY <2>1, CallFields
  <2>. QED  BY <1>1, <1>3, <2>2 DEF EmitOpcode, EmitOperator
<1>4. CASE LetValue
  <2>1. Op.Nil \in Opcodes \ OperandOps
    BY OpValues, PlainOps
  <2>2. CASE \E items : SkipThen(items)
    BY <1>0, <2>2 DEF SkipThen, Parses
  <2>3. CASE \E items : EmitThen(<<Op.Nil>>, items)
    BY <1>1, <2>1, <2>3
  <2>. QED  BY <1>4, <2>2, <2>3 DEF LetValue
<1>5. CASE AssignVariable \/ RefTo \/ CompileVariable
  <2>1. /\ Op.SetLocalByRef \in LocalOps /\ Op.SetLocal \in LocalOps /\ Op.GetLocal \in LocalOps
        /\ Op.LocalRef \in LocalOps /\ Op.GetLocalByRef \in LocalOps
    BY DEF LocalOps
  <2>. QED  BY <1>5, <2>1, EmissionOfVariable DEF AssignVariable, RefTo, CompileVariable
<1>6. CASE ArrayEnd
  <2>1. Head(todo) \in Calls /\ Head(todo).fn = "arrayEnd"
    BY <1>6, TodoType DEF ArrayEnd
  <2>2. Head(todo).n \in 0..UINT8_MAX
    BY <2>1, CallFields
  <2>3. Op.Array \in OperandOps \ {Op.Const} /\ Op.Array \notin LocalOps
    BY DEF OperandOps, LocalOps, Op
  <2>4. Emit(<<Op.Array, Head(todo).n>>) /\ consts' = consts
    BY <1>6 DEF ArrayEnd, EmitThen
  <2>. QED  BY <2>2, <2>3, <2>4, EmissionOfOperand
<1>7. CASE CompileInt
  <2>1. Head(todo) \in Calls /\ Head(todo).fn = "int"
    BY <1>7, TodoType DEF CompileInt
  <2>2. Head(todo).n \in Nat
    BY <2>1, CallFields
  <2>3. CASE ~CheckOnly /\ EmitConstant(IntValue(Head(todo).n), heap)
    <3>1. IntValue(Head(todo).n) \in Values
      BY <2>2 DEF IntValue, Values, ValueTypes, NumberTypes
    <3>. QED  BY <2>3, <3>1, EmissionOfConstant
  <2>4. CASE /\ CheckOnly \/ Head(todo).n <= UINT8_MAX
             /\ Emit(<<Op.Int, Head(todo).n>>)
             /\ UNCHANGED <<consts, heap>>
    <3>1. Op.Int \in OperandOps \ {Op.Const} /\ Op.Int \notin LocalOps
      BY DEF OperandOps, LocalOps, Op
    <3>2. CheckOnly \/ Head(todo).n \in 0..UINT8_MAX
      BY <2>2, <2>4, BoundsAssumption
    <3>. QED  BY <2>4, <3>1, <3>2, EmissionOfOperand
  <2>. QED  BY <1>7, <2>3, <2>4 DEF CompileInt
<1>8. CASE CompileNumber
  <2>1. Head(todo).n \in Nat
    <3>1. CASE At("number")
      BY <3>1, TodoType, CallFields
    <3>2. CASE At("whole")
      BY <3>2, TodoType, CallFields
    <3>. QED  BY <1>8, <3>1, <3>2 DEF CompileNumber
  <2>2. NumberValue \in Values
    BY <2>1 DEF NumberValue, IntValue, FractionValue, Values, ValueTypes, NumberTypes
  <2>. QED  BY <1>0, <1>8, <2>2, EmissionOfConstant DEF CompileNumber
<1>9. CASE CompileString
  <2>1. ObjectValue("String", NewId(heap)) \in Values
    BY LenProperties DEF TypeOK, ChunkTypeOK, NewId, ObjectValue, Values, ValueTypes, ObjectTypes
  <2>. QED  BY <1>0, <1>9, <2>1, EmissionOfConstant DEF CompileString
<1>10. CASE PopScope
  <2>. DEFINE k == Cardinality(InScope)
              bytes == [i \in 1..k |-> Op.Pop]
  <2>1. k \in Nat
    BY IndicesFinite DEF TypeOK, ScopeTypeOK, InScope
  <2>2. bytes \in Seq(Bytes)
    <3>1. Op.Pop \in Bytes
      BY OpValues, OpcodesAreBytes
    <3>. HIDE DEF k
    <3>. QED  BY <2>1, <3>1
  <2>3. Emit(bytes) /\ consts' = consts
    BY <1>10 DEF PopScope
  <2>4. IF CheckOnly THEN code' = code ELSE code' = code \o bytes
    <3>. HIDE DEF bytes
    <3>. QED  BY <2>2, <2>3, EmitWhole DEF TypeOK
  <2>. HIDE DEF k
  <2>. QED  BY <2>1, <2>3, <2>4 DEF Emission
<1>. USE DEF Then, SkipThen, Parses, Fail
<1>11. CASE BeginCompile \/ CompileStmt \/ ConsumeToken \/ CompileLetStmt \/ CompileInoutStmt
  BY <1>0, <1>11 DEF BeginCompile, CompileStmt, ConsumeToken, CompileLetStmt, CompileInoutStmt
<1>12. CASE Define \/ DefineInout \/ CompileReturnStmt \/ PushScope \/ CompileBlockStmt
  BY <1>0, <1>12 DEF Define, DefineInout, CompileReturnStmt, PushScope, CompileBlockStmt
<1>13. CASE CompileExpr \/ RangeOperator \/ CompileAddExpr \/ AddLoop \/ CompileMulExpr \/ MulLoop
  BY <1>0, <1>13 DEF CompileExpr, RangeOperator, CompileAddExpr, AddLoop, CompileMulExpr, MulLoop, OperatorLoop
<1>14. CASE CompileUnaryExpr \/ CompilePrimExpr \/ CompileArray \/ ArrayLoop \/ CompileRef \/ IndexLoop
  BY <1>0, <1>14 DEF CompileUnaryExpr, CompilePrimExpr, CompileArray, ArrayLoop, CompileRef, IndexLoop
<1>. QED  BY <1>2, <1>3, <1>4, <1>5, <1>6, <1>7, <1>8, <1>9, <1>10, <1>11, <1>12, <1>13, <1>14
          DEF CompilerNext, Statement, Expression

\* comp->variables never gets shorter.
LEMMA VariablesGrow ==
  ASSUME TypeOK, TypeOK', CompilerNext
  PROVE  Len(variables) \in Nat /\ Len(variables') \in Nat /\ Len(variables) <= Len(variables')
<1>1. Len(variables) \in Nat /\ Len(variables') \in Nat
  BY LenProperties DEF TypeOK, ScopeTypeOK
<1>2. CASE UNCHANGED variables
  BY <1>1, <1>2
<1>3. ASSUME NEW var, variables' = Append(variables, var)  PROVE Len(variables') = Len(variables) + 1
  BY <1>3 DEF TypeOK, ScopeTypeOK
<1>4. CASE \E name, ref, outcome : DefineVariable(name, ref, outcome)
  <2>1. UNCHANGED variables \/ \E var : variables' = Append(variables, var)
    BY <1>4 DEF DefineVariable
  <2>. QED  BY <1>1, <1>2, <1>3, <2>1
<1>. QED  BY <1>2, <1>4, VariablesChange

\* As long as there is no error, the code is whole.
CodeWhole == rc = "Ok" => CodeOK(code, Len(consts), Len(variables))

LEMMA CodeStep ==
  ASSUME TypeOK, TypeOK', SlotNumbering, CodeWhole, [CompilerNext]_vars
  PROVE  CodeWhole'
<1>1. CASE UNCHANGED vars
  BY <1>1 DEF vars, chunkVars, compilerVars, CodeWhole
<1>2. CASE CompilerNext
  <2>. SUFFICES ASSUME rc' = "Ok"  PROVE CodeOK(code', Len(consts'), Len(variables'))
    BY DEF CodeWhole
  <2>. DEFINE nc == Len(consts)
              nv == Len(variables)
              mv == Len(variables')
  <2>1. CodeOK(code, nc, nv)
    BY <1>2, RunsOnlyOk DEF CodeWhole
  <2>2. nc \in Nat /\ nv \in Nat /\ mv \in Nat /\ nv <= mv
    BY <1>2, VariablesGrow, LenProperties DEF TypeOK, ChunkTypeOK
  <2>3. CodeOK(code, nc, mv)
    BY <2>1, <2>2, MoreVariables
  <2>4. Emission
    BY <1>2, EmissionStep
  <2>. HIDE DEF nc, nv, mv
  <2>5. CASE UNCHANGED <<code, consts>>
    BY <2>3, <2>5 DEF nc, mv
  <2>6. ASSUME consts' = consts, NEW op \in Opcodes \ OperandOps, code' = code \o <<op>>
        PROVE  CodeOK(code', nc, mv)
    BY <2>2, <2>3, <2>6, AppendPlain
  <2>7. ASSUME consts' = consts, NEW op \in OperandOps \ {Op.Const}, NEW operand \in 0..UINT8_MAX,
               op \in LocalOps => operand < nv, code' = code \o <<op, operand>>
        PROVE  CodeOK(code', nc, mv)
    <3>1. op \in LocalOps => operand < mv
      BY <2>2, <2>7, BoundsAssumption
    <3>. QED  BY <2>2, <2>3, <2>7, <3>1, AppendOperand
  <2>8. CASE consts' = consts /\ code' = code \o <<Op.Nil, Op.Return>>
    <3>1. Op.Nil \in Opcodes \ OperandOps /\ Op.Return \in Opcodes \ OperandOps
      BY OpValues, PlainOps
    <3>2. code' = (code \o <<Op.Nil>>) \o <<Op.Return>>
      <4>1. code \in Seq(Bytes) /\ Op.Nil \in Bytes /\ Op.Return \in Bytes
        BY <2>1, OpValues, OpcodesAreBytes DEF CodeOK
      <4>. QED  BY <2>8, <4>1
    <3>3. CodeOK(code \o <<Op.Nil>>, nc, mv)
      BY <2>2, <2>3, <3>1, AppendPlain
    <3>4. CodeOK(code', nc, mv)
      BY <2>2, <3>1, <3>2, <3>3, AppendPlain
    <3>. QED  BY <2>8, <3>4 DEF nc, mv
  <2>9. ASSUME consts' = consts, NEW k \in Nat, code' = code \o [i \in 1..k |-> Op.Pop]
        PROVE  CodeOK(code', nc, mv)
    BY <2>2, <2>3, <2>9, AppendPops
  <2>10. ASSUME NEW v \in Values, consts' = Append(consts, v),
                code' = code \o <<Op.Const, Byte(nc)>>
         PROVE  CodeOK(code', Len(consts'), mv)
    <3>1. Len(consts') = nc + 1
      BY <2>10 DEF TypeOK, ChunkTypeOK, nc
    <3>2. /\ Op.Const \in OperandOps /\ Op.Const \notin LocalOps
          /\ Byte(nc) \in 0..UINT8_MAX /\ nc + 1 \in Nat
      BY <2>2, ByteType DEF OperandOps, LocalOps, Op
    <3>3. CodeOK(code', nc + 1, mv)
      BY <2>2, <2>3, <2>10, <3>2, AppendOperand
    <3>. QED  BY <3>1, <3>3
  <2>. QED  BY <2>4, <2>5, <2>6, <2>7, <2>8, <2>9, <2>10 DEF Emission, nc, nv, mv
<1>. QED  BY <1>1, <1>2

LEMMA CodeInitial ==
  ASSUME CompilerInit
  PROVE  TypeOK /\ SlotNumbering /\ CodeWhole
<1>1. TypeOK /\ code = <<>> /\ consts = <<>> /\ variables = <<>>
  BY TypeInitial DEF CompilerInit
<1>2. SlotNumbering
  BY <1>1 DEF SlotNumbering
<1>3. StopsAt({1}, <<>>) /\ <<>> \in Seq(Bytes)
  BY DEF StopsAt
<1>4. InstructionStarts(<<>>) = {1}
  BY <1>3, StartsUnique
<1>5. WellFormed(<<>>, 0, 0)
  BY <1>4 DEF WellFormed
<1>6. Loads(<<>>) = {}
  BY <1>4 DEF Loads
<1>7. Numbered(<<>>, 0)
  BY <1>6, FS_EmptySet DEF Numbered
<1>. QED  BY <1>1, <1>2, <1>3, <1>5, <1>7 DEF CodeWhole, CodeOK

\* The invariant of the code, along every compilation.
LEMMA CodeInvariant ==
  ScopesSpec => [](TypeOK /\ SlotNumbering /\ CodeWhole)
<1>1. ScopesInit => TypeOK /\ SlotNumbering /\ CodeWhole
  BY CodeInitial DEF ScopesInit
<1>2. TypeOK /\ SlotNumbering /\ CodeWhole /\ [ScopesNext]_scopeVars
        => (TypeOK /\ SlotNumbering /\ CodeWhole)'
  <2>1. SUFFICES ASSUME TypeOK, SlotNumbering, CodeWhole, [ScopesNext]_scopeVars
                 PROVE  (TypeOK /\ SlotNumbering /\ CodeWhole)'
    OBVIOUS
  <2>2. [CompilerNext]_vars
    BY <2>1 DEF ScopesNext, scopeVars
  <2>3. TypeOK' /\ SlotNumbering'
    BY <2>1, <2>2, TypeStep, SlotStep
  <2>. QED  BY <2>1, <2>2, <2>3, CodeStep
<1>. QED  BY <1>1, <1>2, PTL DEF ScopesSpec

\* Whatever has been emitted reads as whole instructions, and each operand names
\* a constant or a variable that exists: no path of the compiler leaves an opcode
\* without its byte, whatever the source text and the limits.
THEOREM CodeAlwaysDecodes == ScopesSpec => []CodeDecodes
<1>1. TypeOK /\ CodeWhole => CodeDecodes
  <2>1. SUFFICES ASSUME TypeOK, CodeOK(code, Len(consts), Len(variables))  PROVE CodeDecodes
    BY DEF CodeWhole, CodeDecodes
  <2>2. Len(code) \in Nat /\ \A i \in 1..Len(code) + 1 : i # Len(code) + 1 => i <= Len(code)
    BY LenProperties DEF TypeOK, ChunkTypeOK
  <2>. QED  BY <2>1, <2>2 DEF CodeDecodes, CodeOK, WellFormed
<1>. QED  BY <1>1, CodeInvariant, PTL

\* The n-th Const instruction loads the n-th constant, as far as a byte can say:
\* the operand is taken from the number of constants before the append, and no
\* path appends a constant without its load.
THEOREM ConstantsLoadInOrder == ScopesSpec => []ConstantsInOrder
<1>1. CodeWhole => ConstantsInOrder
  BY DEF CodeWhole, ConstantsInOrder, CodeOK, Numbered, Loads
<1>. QED  BY <1>1, CodeInvariant, PTL

-----------------------------------------------------------------------------
\* The end of the code.

\* The last pending call is compile_chunk, or the initialisation before it.
ChunkIsLast == rc = "Ok" /\ todo # <<>> => todo[Len(todo)].fn \in {"chunk", "init"}

\* Every step without error replaces the first pending call by others.
LEMMA CallsStep ==
  ASSUME TypeOK, CompilerNext, rc' = "Ok"
  PROVE  \E items \in Seq(Calls) : Call(items)
<1>. USE PlainCalls
<1>1. CASE PushScope
  <2>1. <<Do("block")>> \in Seq(Calls)
    OBVIOUS
  <2>. QED  BY <1>1, <2>1 DEF PushScope
<1>2. CASE CompileBlockStmt
  <2>1. <<Do("popScope")>> \in Seq(Calls) /\ <<Do("stmt"), Do("block")>> \in Seq(Calls)
    OBVIOUS
  <2>. QED  BY <1>2, <2>1 DEF CompileBlockStmt, SkipThen, Then
<1>3. CASE PopScope
  <2>1. Tail(todo) \in Seq(Calls)
    BY <1>3, TodoType DEF PopScope
  <2>2. <<>> \in Seq(Calls) /\ Call(<<>>)
    BY <1>3, <2>1 DEF PopScope, Return, Call
  <2>. QED  BY <2>2
<1>4. CASE OtherStep
  <2>1. PICK items \in Seq(OtherCalls) : Call(items)
    BY <1>4 DEF OtherStep
  <2>2. items \in Seq(Calls)
    BY SeqMonotonic DEF OtherCalls
  <2>. QED  BY <2>1, <2>2
<1>. QED  BY <1>1, <1>2, <1>3, <1>4, StatementOther, ExpressionOther DEF CompilerNext

\* compile_chunk is executed by its own action.
LEMMA ChunkActs ==
  ASSUME TypeOK, CompilerNext, Head(todo).fn \in {"chunk", "init"}
  PROVE  BeginCompile \/ CompileChunk
<1>. USE DEF At
<1>1. CASE Statement
  BY <1>1 DEF Statement, CompileStmt, ConsumeToken, EmitOpcode,
     CompileLetStmt, LetValue, Define, CompileInoutStmt, DefineInout, AssignVariable,
     CompileReturnStmt, PushScope, CompileBlockStmt, PopScope
<1>2. CASE Expression
  BY <1>2 DEF Expression, CompileExpr, RangeOperator, CompileAddExpr, AddLoop, CompileMulExpr,
     MulLoop, OperatorLoop, EmitOperator, CompileUnaryExpr, CompilePrimExpr, CompileInt,
     CompileNumber, CompileString, CompileArray, ArrayLoop, ArrayEnd, CompileRef, RefTo,
     CompileVariable, IndexLoop
<1>. QED  BY <1>1, <1>2 DEF CompilerNext

LEMMA ChunkStaysLast ==
  ASSUME TypeOK, ChunkIsLast, [CompilerNext]_vars
  PROVE  ChunkIsLast'
<1>1. CASE UNCHANGED vars
  BY <1>1 DEF vars, compilerVars, ChunkIsLast
<1>2. CASE CompilerNext
  <2>1. SUFFICES ASSUME rc' = "Ok", todo' # <<>>  PROVE todo'[Len(todo')].fn \in {"chunk", "init"}
    BY DEF ChunkIsLast
  <2>2. PICK items \in Seq(Calls) : Call(items)
    BY <1>2, <2>1, CallsStep
  <2>3. todo # <<>> /\ todo[Len(todo)].fn \in {"chunk", "init"}
    BY <1>2, RunsOnlyOk DEF ChunkIsLast
  <2>. DEFINE n == Len(todo)
              k == Len(items)
              rest == Tail(todo)
  <2>4. todo \in Seq(AllCalls) /\ items \in Seq(AllCalls)
    BY AllCallsType, SeqMonotonic DEF AllCalls
  <2>5. n \in Nat /\ n # 0 /\ k \in Nat /\ Len(items) = k /\ Len(todo) = n
    BY <2>3, <2>4, LenProperties, EmptySeq
  <2>6. /\ rest \in Seq(AllCalls) /\ Len(rest) = n - 1
        /\ \A i \in 1..n - 1 : rest[i] = todo[i + 1]
    BY <2>3, <2>4, HeadTailProperties
  <2>7. todo' = items \o rest
    BY <2>2 DEF Call
  <2>. HIDE DEF n, k, rest
  <2>8. CASE n > 1
    <3>1. Len(todo') = k + (n - 1) /\ todo'[k + (n - 1)] = rest[n - 1]
      <4>1. /\ Len(items \o rest) = Len(items) + Len(rest)
            /\ \A i \in 1..Len(items) + Len(rest) :
                 (items \o rest)[i] = IF i <= Len(items) THEN items[i] ELSE rest[i - Len(items)]
        BY <2>4, <2>6, ConcatProperties
      <4>2. k + (n - 1) \in 1..k + (n - 1) /\ ~(k + (n - 1) <= k) /\ (k + (n - 1)) - k = n - 1
        BY <2>5, <2>8
      <4>. QED  BY <2>5, <2>6, <2>7, <4>1, <4>2
    <3>2. rest[n - 1] = todo[n]
      BY <2>5, <2>6, <2>8
    <3>. QED  BY <2>3, <2>5, <3>1, <3>2
  <2>9. CASE n = 1
    <3>1. Head(todo).fn \in {"chunk", "init"}
      BY <2>3, <2>5, <2>9
    <3>2. BeginCompile \/ CompileChunk
      BY <1>2, <3>1, ChunkActs
    <3>3. rest = <<>>
      <4>1. Len(rest) = 0
        BY <2>6, <2>9
      <4>. QED  BY <2>6, <4>1, EmptySeq
    <3>4. \/ todo' = <<Do("chunk")>> \o rest
          \/ todo' = <<Do("stmt"), Do("chunk")>> \o rest
          \/ todo' = <<>> \o rest
      BY <3>2 DEF BeginCompile, CompileChunk, SkipThen, Then, EmitThen, Call, rest
    <3>5. todo' = <<Do("chunk")>> \/ todo' = <<Do("stmt"), Do("chunk")>>
      BY <2>1, <3>3, <3>4
    <3>6. todo'[Len(todo')] = Do("chunk")
      <4>1. CASE todo' = <<Do("chunk")>>
        BY <4>1
      <4>2. CASE todo' = <<Do("stmt"), Do("chunk")>>
        BY <4>2
      <4>. QED  BY <3>5, <4>1, <4>2
    <3>7. Do("chunk").fn = "chunk"
      BY DEF Do
    <3>. QED  BY <3>6, <3>7
  <2>. QED  BY <2>5, <2>8, <2>9
<1>. QED  BY <1>1, <1>2

LEMMA ChunkCompletes ==
  ASSUME TypeOK, TypeOK', SlotNumbering, CodeWhole, ChunkIsLast, CompleteChunk, [CompilerNext]_vars
  PROVE  CompleteChunk'
<1>1. CASE UNCHANGED vars
  BY <1>1 DEF vars, chunkVars, compilerVars, CompleteChunk, Compiling
<1>2. CASE CompilerNext
  <2>1. SUFFICES ASSUME rc' = "Ok", ~CheckOnly, todo' = <<>>
                 PROVE  /\ {Len(code') - 1, Len(code')} \subseteq InstructionStarts(code')
                        /\ SubSeq(code', Len(code') - 1, Len(code')) = <<Op.Nil, Op.Return>>
    BY DEF CompleteChunk, Compiling
  <2>2. rc = "Ok" /\ todo # <<>> /\ todo[Len(todo)].fn \in {"chunk", "init"}
    BY <1>2, RunsOnlyOk DEF ChunkIsLast
  <2>3. PICK items \in Seq(Calls) : Call(items)
    BY <1>2, <2>1, CallsStep
  <2>4. Len(todo) = 1
    <3>. DEFINE rest == Tail(todo)
    <3>1. todo \in Seq(AllCalls) /\ items \in Seq(AllCalls)
      BY AllCallsType, SeqMonotonic DEF AllCalls
    <3>2. rest \in Seq(AllCalls) /\ Len(rest) = Len(todo) - 1 /\ Len(todo) \in Nat /\ Len(items) \in Nat
      BY <2>2, <3>1, HeadTailProperties, LenProperties
    <3>3. items \o rest = <<>>
      BY <2>1, <2>3 DEF Call
    <3>. HIDE DEF rest
    <3>4. Len(items) + Len(rest) = 0
      BY <3>1, <3>2, <3>3, ConcatProperties
    <3>. QED  BY <3>2, <3>4
  <2>5. Head(todo).fn \in {"chunk", "init"}
    BY <2>2, <2>4
  <2>6. EmitThen(<<Op.Nil, Op.Return>>, <<>>)
    <3>1. BeginCompile \/ CompileChunk
      BY <1>2, <2>5, ChunkActs
    <3>2. Tail(todo) \in Seq(AllCalls)
      BY <2>2, AllCallsType, HeadTailProperties
    <3>3. \/ todo' = <<Do("chunk")>> \o Tail(todo)
          \/ todo' = <<Do("stmt"), Do("chunk")>> \o Tail(todo)
          \/ EmitThen(<<Op.Nil, Op.Return>>, <<>>)
      BY <3>1 DEF BeginCompile, CompileChunk, SkipThen, Then, Call
    <3>. DEFINE rest == Tail(todo)
    <3>4. Do("chunk") \in AllCalls /\ Do("stmt") \in AllCalls
      BY PlainCalls DEF AllCalls
    <3>. HIDE DEF rest
    <3>5. <<Do("chunk")>> \o rest # <<>> /\ <<Do("stmt"), Do("chunk")>> \o rest # <<>>
      BY <3>2, <3>4 DEF rest
    <3>. QED  BY <2>1, <3>3, <3>5 DEF rest
  <2>. DEFINE n == Len(code)
              one == code \o <<Op.Nil>>
  <2>7. /\ Op.Nil \in Bytes /\ Op.Return \in Bytes
        /\ Op.Nil \in Opcodes \ OperandOps /\ Op.Return \in Opcodes \ OperandOps
    BY OpValues, PlainOps, OpcodesAreBytes
  <2>8. CodeOK(code, Len(consts), Len(variables)) /\ Len(consts) \in Nat /\ Len(variables) \in Nat
    BY <2>2, LenProperties DEF CodeWhole, TypeOK, ChunkTypeOK, ScopeTypeOK
  <2>9. code \in Seq(Bytes) /\ n \in Nat
    BY <2>8, LenProperties DEF CodeOK
  <2>10. code' = code \o <<Op.Nil, Op.Return>>
    <3>. DEFINE bytes == <<Op.Nil, Op.Return>>
    <3>1. bytes \in Seq(Bytes) /\ Emit(bytes)
      BY <2>6, <2>7 DEF EmitThen
    <3>. HIDE DEF bytes
    <3>2. code' = code \o bytes
      BY <2>1, <3>1, EmitWhole DEF TypeOK
    <3>. QED  BY <3>2 DEF bytes
  <2>11. code' = one \o <<Op.Return>> /\ one \in Seq(Bytes) /\ Len(one) = n + 1 /\ Len(code') = n + 2
    BY <2>7, <2>9, <2>10
  <2>12. CodeOK(one, Len(consts), Len(variables))
    BY <2>7, <2>8, AppendPlain
  <2>13. CodeOK(code', Len(consts), Len(variables))
    <3>. HIDE DEF one
    <3>. QED  BY <2>7, <2>8, <2>11, <2>12, AppendPlain
  <2>14. n + 1 \in InstructionStarts(one)
    <3>. DEFINE instr == <<Op.Nil>>
    <3>1. /\ instr \in Seq(Bytes) /\ instr # <<>> /\ Len(instr) = Width(instr[1])
      BY <2>7, WidthType
    <3>. HIDE DEF instr
    <3>2. InstructionStarts(code \o instr) = InstructionStarts(code) \union {n + Len(instr) + 1}
      BY <2>8, <2>9, <3>1, StartsAppend DEF CodeOK, WellFormed
    <3>. QED  BY <2>8, <3>2 DEF instr, CodeOK, WellFormed
  <2>15. n + 1 \in InstructionStarts(code') /\ n + 2 \in InstructionStarts(code')
    <3>. DEFINE instr == <<Op.Return>>
    <3>1. /\ instr \in Seq(Bytes) /\ instr # <<>> /\ Len(instr) = Width(instr[1])
      BY <2>7, WidthType
    <3>. HIDE DEF instr, one
    <3>2. InstructionStarts(one \o instr) = InstructionStarts(one) \union {Len(one) + Len(instr) + 1}
      <4>1. /\ InstructionStarts(one) \subseteq 1..Len(one) + 1
            /\ Len(one) + 1 \in InstructionStarts(one)
        BY <2>12 DEF CodeOK, WellFormed
      <4>2. one \in Seq(Bytes)
        BY <2>11
      <4>. QED  BY <3>1, <4>1, <4>2, StartsAppend
    <3>3. n + 2 \in InstructionStarts(one)
      BY <2>9, <2>11, <2>12 DEF CodeOK, WellFormed
    <3>. QED  BY <2>11, <2>14, <3>2, <3>3 DEF instr
  <2>16. SubSeq(code', n + 1, n + 2) = <<Op.Nil, Op.Return>>
    <3>1. /\ Len(code') = n + 2 /\ code' \in Seq(Bytes)
          /\ code'[n + 1] = Op.Nil /\ code'[n + 2] = Op.Return
      BY <2>7, <2>9, <2>10
    <3>. HIDE DEF n, one
    <3>. DEFINE part == SubSeq(code', n + 1, n + 2)
    <3>2. \A i \in n + 1..n + 2 : code'[i] \in Bytes
      BY <2>7, <2>9, <3>1
    <3>3. /\ part \in Seq(Bytes)
          /\ Len(part) = 2 /\ part[1] = code'[n + 1] /\ part[2] = code'[n + 2]
      <4>1. n + 1 \in Int /\ n + 2 \in Int /\ n + 1 <= n + 2 /\ (n + 2) - (n + 1) + 1 = 2
            /\ (n + 1) + 1 - 1 = n + 1 /\ (n + 1) + 2 - 1 = n + 2
        BY <2>9
      <4>2. /\ part \in Seq(Bytes)
            /\ Len(part) = IF n + 1 <= n + 2 THEN (n + 2) - (n + 1) + 1 ELSE 0
            /\ \A i \in 1..(n + 2) - (n + 1) + 1 : part[i] = code'[(n + 1) + i - 1]
        BY <3>2, <4>1, SubSeqProperties
      <4>. HIDE DEF part
      <4>3. 1 \in 1..2 /\ 2 \in 1..2
        OBVIOUS
      <4>. QED  BY <4>1, <4>2, <4>3
    <3>. HIDE DEF part
    <3>4. part = <<Op.Nil, Op.Return>>
      BY <3>1, <3>3
    <3>. QED  BY <3>4 DEF part
  <2>17. Len(code') - 1 = n + 1
    BY <2>9, <2>11
  <2>. QED  BY <2>11, <2>15, <2>16, <2>17
<1>. QED  BY <1>1, <1>2

LEMMA ChunkInitial ==
  ASSUME CompilerInit
  PROVE  ChunkIsLast /\ CompleteChunk
<1>1. todo = <<Do("init")>> /\ Do("init").fn = "init"
  BY DEF CompilerInit, Do
<1>2. todo # <<>> /\ todo[Len(todo)] = Do("init")
  BY <1>1
<1>. QED  BY <1>1, <1>2 DEF ChunkIsLast, CompleteChunk

\* Whatever the source text, a chunk compiled without error ends in the Nil,
\* Return pair, and a reader stops at both: neither can be taken for an operand.
THEOREM ChunkIsComplete == ScopesSpec => []CompleteChunk
<1>1. ScopesInit => ChunkIsLast /\ CompleteChunk
  BY ChunkInitial DEF ScopesInit
<1>2. /\ TypeOK /\ SlotNumbering /\ CodeWhole
      /\ (TypeOK /\ SlotNumbering /\ CodeWhole)'
      /\ ChunkIsLast /\ CompleteChunk
      /\ [ScopesNext]_scopeVars
      => (ChunkIsLast /\ CompleteChunk)'
  <2>1. [ScopesNext]_scopeVars => [CompilerNext]_vars
    BY DEF ScopesNext, scopeVars
  <2>. QED  BY <2>1, ChunkStaysLast, ChunkCompletes
<1>. QED  BY <1>1, <1>2, CodeInvariant, PTL DEF ScopesSpec

-----------------------------------------------------------------------------
\* What an inout variable is initialised with.

\* Calls that end with comp->typeInfo saying what the value they leave is, and
\* calls that may as well do nothing.
Judging == {"expr", "add", "mul", "unary", "prim", "int", "number", "whole", "string", "array",
            "arrayLoop", "arrayEnd", "ref", "refTo", "variable", "indexLoop", "operator"}
Passing == {"consume", "range", "addLoop", "mulLoop"}

\* typeInfo calls a value a reference only where the last instruction is one
\* that may leave one, or that of an integer literal, which does not set it.
Judged == isRef => LeavesReference \/ LeavesInteger

\* When the k-th of the calls is made, the ones before it have judged.
JudgedBefore(calls, k) ==
  \E j \in 1..k - 1 : calls[j].fn \in Judging /\ \A i \in j + 1..k - 1 : calls[i].fn \in Passing

Judges(items) == JudgedBefore(items, Len(items) + 1)

InoutsJudged ==
  rc = "Ok" => \A k \in DOMAIN todo : todo[k].fn = "defineInout" =>
    \/ JudgedBefore(todo, k)
    \/ Judged /\ \A i \in 1..k - 1 : todo[i].fn \in Passing

\* What becomes of the first pending call, in a step without error.
JudgingStep ==
  \E S : \E items \in Seq(S) :
    /\ Call(items)
    /\ Head(todo).fn \in Judging => Judges(items) \/ (items = <<>> /\ Judged')
    /\ Head(todo).fn \in Passing => Judges(items) \/ (items = <<>> /\ (Judged => Judged'))
    /\ \A k \in DOMAIN items : items[k].fn = "defineInout" => JudgedBefore(items, k)

\* Such a step keeps the invariant.
LEMMA InoutsStayJudged ==
  ASSUME TypeOK, todo # <<>>, rc = "Ok", InoutsJudged, JudgingStep
  PROVE  InoutsJudged'
<1>1. PICK S : \E items \in Seq(S) :
        /\ Call(items)
        /\ Head(todo).fn \in Judging => Judges(items) \/ (items = <<>> /\ Judged')
        /\ Head(todo).fn \in Passing => Judges(items) \/ (items = <<>> /\ (Judged => Judged'))
        /\ \A k \in DOMAIN items : items[k].fn = "defineInout" => JudgedBefore(items, k)
  BY DEF JudgingStep
<1>2. PICK items \in Seq(S) :
        /\ Call(items)
        /\ Head(todo).fn \in Judging => Judges(items) \/ (items = <<>> /\ Judged')
        /\ Head(todo).fn \in Passing => Judges(items) \/ (items = <<>> /\ (Judged => Judged'))
        /\ \A k \in DOMAIN items : items[k].fn = "defineInout" => JudgedBefore(items, k)
  BY <1>1
<1>. DEFINE T == S \union AllCalls
            m == Len(items)
            n == Len(todo)
            new == items \o Tail(todo)
<1>3. items \in Seq(T) /\ todo \in Seq(T) /\ m \in Nat /\ n \in Nat /\ n >= 1
  BY AllCallsType, SeqMonotonic, LenProperties
<1>4. Tail(todo) \in Seq(T) /\ Len(Tail(todo)) = n - 1 /\ Head(todo) = todo[1]
      /\ \A i \in 1..n - 1 : Tail(todo)[i] = todo[i + 1]
  BY <1>3
<1>. DEFINE tail == Tail(todo)
<1>9. m = Len(items) /\ tail \in Seq(T) /\ Len(tail) = n - 1 /\ \A i \in 1..n - 1 : tail[i] = todo[i + 1]
  BY <1>4
<1>10. new = items \o tail
  OBVIOUS
<1>. HIDE DEF T, m, n, tail, new
<1>11. /\ new \in Seq(T) /\ Len(new) = m + (n - 1)
       /\ \A i \in 1..m + (n - 1) : new[i] = IF i <= m THEN items[i] ELSE tail[i - m]
  <2>1. items \in Seq(T) /\ tail \in Seq(T) /\ Len(items) = m /\ Len(tail) = n - 1
    BY <1>3, <1>9
  <2>2. /\ items \o tail \in Seq(T) /\ Len(items \o tail) = Len(items) + Len(tail)
        /\ \A i \in 1..Len(items) + Len(tail) :
             (items \o tail)[i] = IF i <= Len(items) THEN items[i] ELSE tail[i - Len(items)]
    BY <2>1, ConcatProperties
  <2>. QED  BY <1>10, <2>1, <2>2
<1>12. ASSUME NEW i \in m + 1..m + n - 1  PROVE new[i] = todo[i - m + 1]
  <2>1. i - m \in 1..n - 1 /\ i \in 1..m + (n - 1) /\ ~(i <= m)
    BY <1>3
  <2>. QED  BY <1>9, <1>11, <2>1
<1>5. /\ new \in Seq(T) /\ Len(new) = m + n - 1 /\ DOMAIN new = 1..m + n - 1
      /\ \A i \in 1..m : new[i] = items[i]
      /\ \A i \in m + 1..m + n - 1 : new[i] = todo[i - m + 1]
  BY <1>3, <1>11, <1>12
<1>6. todo' = new /\ DOMAIN items = 1..m /\ DOMAIN todo = 1..n
  BY <1>2, <1>3 DEF Call, m, n, new
<1>7. ASSUME NEW k \in 1..m + n - 1, new[k].fn = "defineInout"
      PROVE  \/ JudgedBefore(new, k)
             \/ Judged' /\ \A i \in 1..k - 1 : new[i].fn \in Passing
  <2>1. CASE k <= m
    <3>0. k \in 1..m
      BY <1>3, <1>7, <2>1
    <3>1. JudgedBefore(items, k)
      <4>1. k \in DOMAIN items
        BY <1>6, <3>0
      <4>2. items[k].fn = "defineInout"
        BY <1>5, <1>7, <3>0
      <4>. QED  BY <1>2, <4>1, <4>2
    <3>2. PICK j \in 1..k - 1 : /\ items[j].fn \in Judging
                               /\ \A i \in j + 1..k - 1 : items[i].fn \in Passing
      BY <3>1 DEF JudgedBefore
    <3>3. (\A i \in 1..k - 1 : new[i] = items[i]) /\ \A i \in j + 1..k - 1 : i \in 1..k - 1
      BY <1>3, <1>5, <3>0
    <3>4. JudgedBefore(new, k)
      BY <3>2, <3>3 DEF JudgedBefore
    <3>. QED  BY <3>4
  <2>2. CASE k > m
    <3>. DEFINE h == k - m + 1
    <3>1. h \in 2..n /\ todo[h].fn = "defineInout"
      BY <1>3, <1>5, <1>7, <2>2
    <3>2. \/ JudgedBefore(todo, h)
          \/ Judged /\ \A i \in 1..h - 1 : todo[i].fn \in Passing
      BY <1>6, <3>1 DEF InoutsJudged
    <3>3. ASSUME NEW i \in 2..h - 1  PROVE i + m - 1 \in m + 1..k - 1 /\ new[i + m - 1] = todo[i]
      <4>. DEFINE j == i + m - 1
      <4>1. j \in m + 1..k - 1 /\ j \in m + 1..m + n - 1 /\ j - m + 1 = i
        BY <1>3, <1>7, <2>2
      <4>. HIDE DEF j, m, n, new
      <4>2. new[j] = todo[i]
        BY <1>5, <4>1
      <4>. QED  BY <4>1, <4>2 DEF j
    <3>4. \A i \in m + 1..k - 1 : i - m + 1 \in 2..h - 1 /\ new[i] = todo[i - m + 1]
      BY <1>3, <1>5, <2>2
    <3>5. ASSUME NEW j \in 2..h - 1, todo[j].fn \in Judging,
                 \A i \in j + 1..h - 1 : todo[i].fn \in Passing
          PROVE  JudgedBefore(new, k)
      <4>1. j + m - 1 \in 1..k - 1 /\ new[j + m - 1].fn \in Judging
        BY <1>3, <3>3, <3>5
      <4>2. ASSUME NEW i \in (j + m - 1) + 1..k - 1  PROVE new[i].fn \in Passing
        <5>1. i - m + 1 \in j + 1..h - 1 /\ i \in m + 1..k - 1
          BY <1>3, <1>7
        <5>. QED  BY <3>4, <3>5, <5>1
      <4>. QED  BY <4>1, <4>2 DEF JudgedBefore
    <3>6. ASSUME \A i \in 2..h - 1 : todo[i].fn \in Passing, Judges(items)
          PROVE  JudgedBefore(new, k)
      <4>1. PICK j \in 1..m : items[j].fn \in Judging /\ \A i \in j + 1..m : items[i].fn \in Passing
        BY <1>3, <3>6 DEF Judges, JudgedBefore, m
      <4>2. ASSUME NEW i \in j + 1..k - 1  PROVE new[i].fn \in Passing
        <5>1. CASE i <= m
          BY <1>3, <1>5, <4>1, <5>1
        <5>2. CASE i > m
          <6>1. i \in m + 1..k - 1
            BY <1>3, <5>2
          <6>. QED  BY <3>4, <3>6, <6>1
        <5>. QED  BY <1>3, <5>1, <5>2
      <4>3. j \in 1..k - 1 /\ new[j].fn \in Judging
        BY <1>3, <1>5, <2>2, <4>1
      <4>. QED  BY <4>2, <4>3 DEF JudgedBefore
    <3>7. ASSUME \A i \in 2..h - 1 : todo[i].fn \in Passing, items = <<>>
          PROVE  \A i \in 1..k - 1 : new[i].fn \in Passing
      <4>1. m = 0
        BY <3>7 DEF m
      <4>. QED  BY <1>3, <3>4, <3>7, <4>1
    <3>8. CASE JudgedBefore(todo, h)
      <4>1. PICK j \in 1..h - 1 :
              todo[j].fn \in Judging /\ \A i \in j + 1..h - 1 : todo[i].fn \in Passing
        BY <3>8 DEF JudgedBefore
      <4>2. CASE j = 1
        BY <1>2, <1>4, <3>6, <3>7, <4>1, <4>2
      <4>3. CASE j # 1
        <5>1. j \in 2..h - 1
          BY <3>1, <4>3
        <5>. QED  BY <3>5, <4>1, <5>1
      <4>. QED  BY <4>2, <4>3
    <3>9. CASE Judged /\ \A i \in 1..h - 1 : todo[i].fn \in Passing
      <4>1. Head(todo).fn \in Passing /\ \A i \in 2..h - 1 : todo[i].fn \in Passing
        BY <1>4, <3>1, <3>9
      <4>. QED  BY <1>2, <3>6, <3>7, <3>9, <4>1
    <3>. QED  BY <3>2, <3>8, <3>9
  <2>. QED  BY <1>3, <2>1, <2>2
<1>8. \A k \in DOMAIN todo' : todo'[k].fn = "defineInout" =>
        JudgedBefore(todo', k) \/ (Judged' /\ \A i \in 1..k - 1 : todo'[i].fn \in Passing)
  BY <1>5, <1>6, <1>7
<1>. QED  BY <1>8 DEF InoutsJudged, JudgedBefore

\* The calls that the actions make: a few, the last of them or the one before
\* those that pass judges.
Others(items) == \A i \in DOMAIN items : items[i].fn # "defineInout"

LEMMA OneCall ==
  ASSUME NEW a, a.fn # "defineInout"
  PROVE  <<a>> \in Seq({a}) /\ Others(<<a>>) /\ (a.fn \in Judging => Judges(<<a>>))
<1>. DEFINE items == <<a>>
<1>1. items \in Seq({a}) /\ Len(items) = 1 /\ DOMAIN items = 1..1 /\ items[1] = a
  OBVIOUS
<1>. HIDE DEF items
<1>2. items \in Seq({a}) /\ Others(items) /\ (a.fn \in Judging => Judges(items))
  BY <1>1 DEF Others, Judges, JudgedBefore
<1>. QED  BY <1>2 DEF items

LEMMA TwoCalls ==
  ASSUME NEW a, NEW b, a.fn # "defineInout", b.fn # "defineInout"
  PROVE  /\ <<a, b>> \in Seq({a, b}) /\ Others(<<a, b>>)
         /\ b.fn \in Judging => Judges(<<a, b>>)
         /\ a.fn \in Judging /\ b.fn \in Passing => Judges(<<a, b>>)
<1>. DEFINE items == <<a, b>>
<1>1. items \in Seq({a, b}) /\ Len(items) = 2 /\ DOMAIN items = 1..2 /\ items[1] = a /\ items[2] = b
  OBVIOUS
<1>. HIDE DEF items
<1>2. Others(items)
  BY <1>1 DEF Others
<1>3. b.fn \in Judging => Judges(items)
  BY <1>1 DEF Judges, JudgedBefore
<1>4. a.fn \in Judging /\ b.fn \in Passing => Judges(items)
  BY <1>1 DEF Judges, JudgedBefore
<1>. QED  BY <1>1, <1>2, <1>3, <1>4 DEF items

LEMMA ThreeCalls ==
  ASSUME NEW a, NEW b, NEW c, a.fn # "defineInout", b.fn # "defineInout", c.fn # "defineInout"
  PROVE  /\ <<a, b, c>> \in Seq({a, b, c}) /\ Others(<<a, b, c>>)
         /\ b.fn \in Judging /\ c.fn \in Passing => Judges(<<a, b, c>>)
<1>. DEFINE items == <<a, b, c>>
<1>1. /\ items \in Seq({a, b, c}) /\ Len(items) = 3 /\ DOMAIN items = 1..3
      /\ items[1] = a /\ items[2] = b /\ items[3] = c
  OBVIOUS
<1>. HIDE DEF items
<1>2. Others(items)
  BY <1>1 DEF Others
<1>3. b.fn \in Judging /\ c.fn \in Passing => Judges(items)
  BY <1>1 DEF Judges, JudgedBefore
<1>. QED  BY <1>1, <1>2, <1>3 DEF items

LEMMA FourCalls ==
  ASSUME NEW a, NEW b, NEW c, NEW d, a.fn # "defineInout", b.fn # "defineInout", c.fn # "defineInout"
  PROVE  /\ <<a, b, c, d>> \in Seq({a, b, c, d})
         /\ d.fn # "defineInout" => Others(<<a, b, c, d>>)
         /\ d.fn \in Judging => Judges(<<a, b, c, d>>)
         /\ b.fn \in Judging /\ c.fn \in Passing =>
              \A k \in DOMAIN <<a, b, c, d>> : <<a, b, c, d>>[k].fn = "defineInout" =>
                JudgedBefore(<<a, b, c, d>>, k)
<1>. DEFINE items == <<a, b, c, d>>
<1>1. /\ items \in Seq({a, b, c, d}) /\ Len(items) = 4 /\ DOMAIN items = 1..4
      /\ items[1] = a /\ items[2] = b /\ items[3] = c /\ items[4] = d
  OBVIOUS
<1>. HIDE DEF items
<1>2. d.fn # "defineInout" => Others(items)
  BY <1>1 DEF Others
<1>3. d.fn \in Judging => Judges(items)
  BY <1>1 DEF Judges, JudgedBefore
<1>4. ASSUME b.fn \in Judging, c.fn \in Passing, NEW k \in DOMAIN items, items[k].fn = "defineInout"
      PROVE  JudgedBefore(items, k)
  <2>1. k = 4
    BY <1>1, <1>4
  <2>. QED  BY <1>1, <1>4, <2>1 DEF JudgedBefore
<1>. QED  BY <1>1, <1>2, <1>3, <1>4 DEF items

\* The fields of what is called, in one place.
LEMMA Fields ==
  /\ \A fn : Do(fn).fn = fn
  /\ \A fn, name : DoName(fn, name).fn = fn
  /\ \A fn, n : DoNum(fn, n).fn = fn
  /\ \A kind : Consume(kind).fn = "consume"
  /\ \A op : Operator(op).fn = "operator" /\ EmitOp(op).fn = "emit"
BY DEF Do, DoName, DoNum, Consume, Operator, EmitOp

\* How a step is shown to be such a step: it makes calls that judge; or it makes
\* none and has judged, or has done nothing; or nobody counts on it.
LEMMA CallsJudge ==
  ASSUME NEW S, NEW items \in Seq(S), Call(items), Others(items), Judges(items)
  PROVE  JudgingStep
BY DEF JudgingStep, Others

LEMMA NothingCalled ==
  ASSUME Call(<<>>), Judged' \/ (Head(todo).fn \notin Judging /\ (Judged => Judged'))
  PROVE  JudgingStep
<1>1. <<>> \in Seq({}) /\ DOMAIN <<>> = {}
  OBVIOUS
<1>. QED  BY <1>1 DEF JudgingStep

LEMMA StatementCalls ==
  ASSUME NEW S, NEW items \in Seq(S), Call(items), Others(items),
         Head(todo).fn \notin Judging \union Passing
  PROVE  JudgingStep
BY DEF JudgingStep, Others

\* The instruction emitted last is the one that was appended.
LEMMA LastAppended ==
  ASSUME NEW nc, NEW nv, CodeOK(code, nc, nv), NEW instr \in Seq(Bytes),
         instr # <<>>, Len(instr) = Width(instr[1]), code' = code \o instr
  PROVE  /\ code'[LastInstruction'] = instr[1]
         /\ Len(instr) = 2 => code'[LastInstruction' + 1] = instr[2]
<1>. DEFINE n == Len(code)
            w == Len(instr)
            A == InstructionStarts(code)
            d == code \o instr
            Last(i) == i \in InstructionStarts(d) /\ i <= Len(d) /\ i + Width(d[i]) = Len(d) + 1
<1>1. code \in Seq(Bytes) /\ WellFormed(code, nc, nv) /\ n \in Nat /\ w \in {1, 2}
  BY LenProperties, WidthType DEF CodeOK
<1>2. A \subseteq 1..n + 1 /\ n + 1 \in A
  BY <1>1 DEF WellFormed
<1>3. InstructionStarts(d) = A \union {n + w + 1}
  BY <1>1, <1>2, StartsAppend
<1>4. Len(d) = n + w /\ (\A i \in 1..n : d[i] = code[i]) /\ d[n + 1] = instr[1]
      /\ (w = 2 => d[n + 2] = instr[2])
  BY <1>1, ConcatProperties
<1>5. \A i \in A : i <= n => i \in 1..n /\ i + Width(code[i]) <= n + 1
  BY <1>1, InstructionFits
<1>. HIDE DEF A, n, d
<1>6. Last(n + 1)
  BY <1>1, <1>2, <1>3, <1>4
<1>7. ASSUME NEW i, Last(i)  PROVE i = n + 1
  <2>1. i \in A /\ i + Width(d[i]) = n + w + 1
    BY <1>1, <1>3, <1>4, <1>7
  <2>2. i \in 1..n + 1
    BY <1>2, <2>1
  <2>3. ~(i <= n)
    <3>1. SUFFICES ASSUME i <= n  PROVE FALSE
      OBVIOUS
    <3>2. d[i] = code[i] /\ i + Width(code[i]) <= n + 1
      BY <1>4, <1>5, <2>1, <3>1
    <3>. QED  BY <1>1, <2>1, <3>2
  <2>. QED  BY <1>1, <2>2, <2>3
<1>8. (CHOOSE i \in InstructionStarts(d) : i <= Len(d) /\ i + Width(d[i]) = Len(d) + 1) = n + 1
  BY <1>6, <1>7
<1>9. code' = d
  BY DEF d
<1>10. LastInstruction' = n + 1
  BY <1>8, <1>9 DEF LastInstruction
<1>11. n + 1 + 1 = n + 2
  BY <1>1
<1>. QED  BY <1>4, <1>9, <1>10, <1>11

\* An opcode and its operand can be read where they were emitted.
LEMMA OperandAppended ==
  ASSUME TypeOK, CodeWhole, rc = "Ok", rc' = "Ok", ~CheckOnly,
         NEW op \in OperandOps, NEW operand \in 0..UINT8_MAX, Emit(<<op, operand>>)
  PROVE  code'[LastInstruction'] = op /\ code'[LastInstruction' + 1] = operand
<1>. DEFINE instr == <<op, operand>>
<1>1. op \in Opcodes
  BY OpValues DEF OperandOps, LocalOps
<1>2. instr \in Seq(Bytes) /\ instr # <<>> /\ instr[1] = op /\ instr[2] = operand /\ Len(instr) = 2
  BY <1>1, OpcodesAreBytes DEF Bytes
<1>3. Width(op) = 2
  BY <1>1, WidthType
<1>4. Emit(instr)
  OBVIOUS
<1>. HIDE DEF instr
<1>5. code' = code \o instr
  BY <1>2, <1>4, EmitWhole DEF TypeOK
<1>6. CodeOK(code, Len(consts), Len(variables))
  BY DEF CodeWhole
<1>. QED  BY <1>2, <1>3, <1>5, <1>6, LastAppended

\* Where nothing is emitted and typeInfo stays, nothing changes.
LEMMA JudgedStays ==
  ASSUME Parses
  PROVE  Judged => Judged'
<1>1. code' = code /\ isRef' = isRef /\ consts' = consts /\ variables' = variables
  BY DEF Parses, chunkVars
<1>2. LastInstruction' = LastInstruction
  BY <1>1 DEF LastInstruction
<1>. QED  BY <1>1, <1>2 DEF Judged, LeavesReference, LeavesInteger

LEMMA ReturnCalls ==
  ASSUME TypeOK, todo # <<>>, Return
  PROVE  Call(<<>>)
<1>1. Tail(todo) \in Seq(AllCalls)
  BY AllCallsType
<1>. QED  BY <1>1 DEF Return, Call

LEMMA PrimJudges ==
  ASSUME TypeOK, tok.kind \in DOMAIN PrimCalls, At("prim"), SkipThen(PrimCalls[tok.kind])
  PROVE  JudgingStep
<1>. DEFINE items == PrimCalls[tok.kind]
<1>1. ASSUME NEW a, a.fn \in Judging, items = <<a>>  PROVE JudgingStep
  <2>1. a.fn # "defineInout"
    BY <1>1 DEF Judging
  <2>2. <<a>> \in Seq({a}) /\ Others(<<a>>) /\ Judges(<<a>>)
    BY <1>1, <2>1, OneCall
  <2>3. Call(<<a>>)
    BY <1>1 DEF SkipThen
  <2>. QED  BY <2>2, <2>3, CallsJudge
<1>2. ASSUME items = <<Do("expr"), Consume("RParen")>>  PROVE JudgingStep
  <2>. DEFINE a == Do("expr")
              b == Consume("RParen")
  <2>1. a.fn = "expr" /\ b.fn = "consume"
    BY Fields
  <2>2. Call(<<a, b>>)
    BY <1>2 DEF SkipThen
  <2>. HIDE DEF a, b
  <2>3. <<a, b>> \in Seq({a, b}) /\ Others(<<a, b>>) /\ Judges(<<a, b>>)
    BY <2>1, TwoCalls DEF Judging, Passing
  <2>. QED  BY <2>2, <2>3, CallsJudge
<1>3. tok.kind \in {"NilKw", "FalseKw", "TrueKw", "Int", "Number", "WholeNumber", "String", "LBracket",
                    "Amp", "Name", "LParen"}
  BY DEF PrimCalls
<1>4. CASE tok.kind \in {"NilKw", "FalseKw", "TrueKw"}
  <2>1. PICK op : items = <<Operator(op)>>
    BY <1>4 DEF PrimCalls
  <2>. QED  BY <1>1, <2>1, Fields DEF Judging
<1>5. CASE tok.kind \in {"Int", "WholeNumber"}
  <2>1. items = <<DoNum("int", tok.num)>> \/ items = <<DoNum("whole", tok.num)>>
    BY <1>5 DEF PrimCalls
  <2>. QED  BY <1>1, <2>1, Fields DEF Judging
<1>6. CASE tok.kind \in {"Number", "String", "LBracket", "Amp"}
  <2>1. PICK fn \in {"number", "string", "array", "ref"} : items = <<Do(fn)>>
    BY <1>6 DEF PrimCalls
  <2>. QED  BY <1>1, <2>1, Fields DEF Judging
<1>7. CASE tok.kind = "Name"
  <2>1. items = <<DoName("variable", tok.text)>>
    BY <1>7 DEF PrimCalls
  <2>. QED  BY <1>1, <2>1, Fields DEF Judging
<1>8. CASE tok.kind = "LParen"
  BY <1>2, <1>8 DEF PrimCalls
<1>. QED  BY <1>3, <1>4, <1>5, <1>6, <1>7, <1>8

LEMMA LoopJudges ==
  ASSUME NEW loop \in {"addLoop", "mulLoop"}, NEW operand \in {"mul", "unary"}, NEW operators,
         OperatorLoop(loop, operand, operators)
  PROVE  JudgingStep
<1>. DEFINE a == Do(operand)
            b == Operator(operators[tok.kind])
            c == Do(loop)
<1>1. a.fn = operand /\ b.fn = "operator" /\ c.fn = loop
  BY Fields
<1>2. CASE SkipThen(<<a, b, c>>)
  <2>1. Call(<<a, b, c>>)
    BY <1>2 DEF SkipThen
  <2>. HIDE DEF a, b, c
  <2>2. <<a, b, c>> \in Seq({a, b, c}) /\ Others(<<a, b, c>>) /\ Judges(<<a, b, c>>)
    BY <1>1, ThreeCalls DEF Judging, Passing
  <2>. QED  BY <2>1, <2>2, CallsJudge
<1>3. CASE Then(<<>>)
  <2>1. Head(todo).fn \notin Judging
    BY DEF OperatorLoop, At, Judging
  <2>. QED  BY <1>3, <2>1, JudgedStays, NothingCalled DEF Then
<1>. QED  BY <1>2, <1>3 DEF OperatorLoop

\* An expression is judged by the call that ends it.
LEMMA ExpressionJudges ==
  ASSUME TypeOK, SlotNumbering, CodeWhole, ~CheckOnly, Expression, rc' = "Ok"
  PROVE  JudgingStep
<1>0. rc = "Ok" /\ todo # <<>>
  BY RunsOnlyOk DEF CompilerNext
<1>1. ASSUME NEW a, a.fn \in Judging, Call(<<a>>)  PROVE JudgingStep
  <2>1. a.fn # "defineInout"
    BY <1>1 DEF Judging
  <2>2. <<a>> \in Seq({a}) /\ Others(<<a>>) /\ Judges(<<a>>)
    BY <1>1, <2>1, OneCall
  <2>. QED  BY <1>1, <2>2, CallsJudge
<1>2. ASSUME NEW a, NEW b, a.fn \in Judging \union Passing, b.fn \in Judging \union Passing,
             b.fn \in Judging \/ a.fn \in Judging, Call(<<a, b>>)
      PROVE  JudgingStep
  <2>1. a.fn # "defineInout" /\ b.fn # "defineInout"
    BY <1>2 DEF Judging, Passing
  <2>2. <<a, b>> \in Seq({a, b}) /\ Others(<<a, b>>) /\ Judges(<<a, b>>)
    BY <1>2, <2>1, TwoCalls
  <2>. QED  BY <1>2, <2>2, CallsJudge
<1>3. ASSUME isRef' = FALSE, Call(<<>>) \/ Return  PROVE JudgingStep
  <2>1. Judged'
    BY <1>3 DEF Judged
  <2>. QED  BY <1>0, <1>3, <2>1, ReturnCalls, NothingCalled
<1>4. CASE CompileExpr
  <2>1. Call(<<Do("add"), Do("range")>>)
    BY <1>4 DEF CompileExpr, Then
  <2>. QED  BY <1>2, <2>1, Fields DEF Judging, Passing
<1>5. CASE RangeOperator
  <2>1. CASE Call(<<Do("add"), Operator(Op.Range)>>)
    BY <1>2, <2>1, Fields DEF Judging, Passing
  <2>2. CASE Then(<<>>)
    <3>1. Head(todo).fn \notin Judging
      BY <1>5 DEF RangeOperator, At, Judging
    <3>. QED  BY <2>2, <3>1, JudgedStays, NothingCalled DEF Then
  <2>. QED  BY <1>5, <2>1, <2>2 DEF RangeOperator, SkipThen
<1>6. CASE CompileAddExpr
  <2>1. Call(<<Do("mul"), Do("addLoop")>>)
    BY <1>6 DEF CompileAddExpr, Then
  <2>. QED  BY <1>2, <2>1, Fields DEF Judging, Passing
<1>7. CASE CompileMulExpr
  <2>1. Call(<<Do("unary"), Do("mulLoop")>>)
    BY <1>7 DEF CompileMulExpr, Then
  <2>. QED  BY <1>2, <2>1, Fields DEF Judging, Passing
<1>8. CASE AddLoop \/ MulLoop
  BY <1>8, LoopJudges DEF AddLoop, MulLoop
<1>9. CASE EmitOperator \/ ArrayEnd
  BY <1>3, <1>9 DEF EmitOperator, ArrayEnd, EmitThen
<1>10. CASE CompileUnaryExpr
  <2>1. CASE Call(<<Do("unary"), Operator(Op.Neg)>>)
    BY <1>2, <2>1, Fields DEF Judging, Passing
  <2>2. CASE Call(<<Do("prim")>>)
    BY <1>1, <2>2, Fields DEF Judging
  <2>. QED  BY <1>10, <2>1, <2>2 DEF CompileUnaryExpr, SkipThen, Then
<1>11. CASE CompilePrimExpr
  BY <1>11, PrimJudges DEF CompilePrimExpr, Fail
<1>12. CASE CompileInt
  <2>. DEFINE n == Head(todo).n
  <2>1. Return /\ Head(todo) \in Calls
    BY <1>12, TodoType DEF CompileInt, Functions
  <2>0. Op.Const \in OperandOps /\ Op.Int \in OperandOps
    BY DEF OperandOps
  <2>2. Judged'
    <3>1. CASE EmitConstant(IntValue(n), heap)
      <4>1. consts' = Append(consts, IntValue(n)) /\ Emit(<<Op.Const, Byte(Len(consts))>>)
        BY <3>1 DEF EmitConstant
      <4>2. Byte(Len(consts)) \in 0..UINT8_MAX
        BY ByteType, LenProperties DEF TypeOK, ChunkTypeOK
      <4>3. code'[LastInstruction'] = Op.Const
        BY <1>0, <2>0, <4>1, <4>2, OperandAppended
      <4>4. consts \in Seq(Values) /\ IntValue(n) \in Values
        <5>1. n \in Nat
          BY <2>1, CallFields
        <5>. HIDE DEF n
        <5>. QED  BY <5>1 DEF TypeOK, ChunkTypeOK, IntValue, Values, ValueTypes, NumberTypes
      <4>5. consts'[Len(consts')] = IntValue(n)
        <5>. DEFINE v == IntValue(n)
        <5>. HIDE DEF v
        <5>1. consts' = Append(consts, v) /\ consts \in Seq(Values) /\ v \in Values
          BY <4>1, <4>4 DEF v
        <5>2. consts'[Len(consts')] = v
          BY <5>1
        <5>. QED  BY <5>2 DEF v
      <4>. QED  BY <4>3, <4>5 DEF Judged, LeavesInteger, IsInt, IntValue
    <3>2. CASE n <= UINT8_MAX /\ Emit(<<Op.Int, n>>)
      <4>0. n \in Nat
        BY <2>1, CallFields
      <4>1. n \in 0..UINT8_MAX
        <5>. HIDE DEF n
        <5>. QED  BY <3>2, <4>0, BoundsAssumption
      <4>2. code'[LastInstruction'] = Op.Int
        BY <1>0, <2>0, <3>2, <4>1, OperandAppended
      <4>. QED  BY <4>2 DEF Judged, LeavesInteger
    <3>. QED  BY <1>12, <3>1, <3>2 DEF CompileInt
  <2>. QED  BY <1>0, <2>1, <2>2, ReturnCalls, NothingCalled
<1>13. CASE CompileNumber \/ CompileString
  BY <1>3, <1>13 DEF CompileNumber, CompileString
<1>14. CASE CompileArray
  <2>1. CASE Call(<<DoNum("arrayEnd", 0)>>)
    BY <1>1, <2>1, Fields DEF Judging
  <2>2. CASE Call(<<Do("expr"), DoNum("arrayLoop", 1)>>)
    BY <1>2, <2>2, Fields DEF Judging, Passing
  <2>. QED  BY <1>14, <2>1, <2>2 DEF CompileArray, SkipThen, Then
<1>15. CASE ArrayLoop
  <2>. DEFINE n == Head(todo).n
  <2>1. CASE Call(<<Do("expr"), DoNum("arrayLoop", Byte(n + 1))>>)
    BY <1>2, <2>1, Fields DEF Judging, Passing
  <2>2. CASE Call(<<Consume("RBracket"), DoNum("arrayEnd", n)>>)
    BY <1>2, <2>2, Fields DEF Judging, Passing
  <2>. QED  BY <1>15, <2>1, <2>2 DEF ArrayLoop, SkipThen, Then
<1>16. CASE CompileRef
  <2>1. Call(<<DoName("refTo", tok.text)>>)
    BY <1>16 DEF CompileRef, SkipThen, Fail
  <2>. QED  BY <1>1, <2>1, Fields DEF Judging
<1>17. CASE RefTo
  <2>. DEFINE name == Head(todo).name
              var == FoundVariable(name)
              op == IF var.isRef THEN Op.GetLocal ELSE Op.LocalRef
  <2>1. Candidates(name) # {} /\ EmitThen(<<op, var.index>>, <<>>)
    BY <1>17 DEF RefTo, UseVariable
  <2>2. var.index \in 0..UINT8_MAX
    BY <2>1, FoundVariableType DEF Variables
  <2>3. Emit(<<op, var.index>>) /\ Call(<<>>)
    BY <2>1 DEF EmitThen
  <2>4. op \in OperandOps
    BY DEF OperandOps, LocalOps
  <2>6. variables' = variables
    BY <1>17 DEF RefTo, UseVariable, EmitThen
  <2>7. variables[var.index + 1] = var
    <3>1. Candidates(name) \subseteq 1..Len(variables) /\ Len(variables) \in Nat /\ DOMAIN variables = 1..Len(variables)
      BY LenProperties DEF TypeOK, ScopeTypeOK, Candidates, InScope
    <3>2. (CHOOSE i \in Candidates(name) : \A j \in Candidates(name) : j <= i) \in 1..Len(variables)
      BY <2>1, <3>1, LastIndex
    <3>3. PICK i \in 1..Len(variables) : var = variables[i]
      BY <3>2 DEF FoundVariable
    <3>4. var.index + 1 = i
      BY <3>1, <3>3 DEF SlotNumbering
    <3>. QED  BY <3>3, <3>4
  <2>8. var.isRef => op = Op.GetLocal
    OBVIOUS
  <2>9. ~var.isRef => op = Op.LocalRef
    OBVIOUS
  <2>. HIDE DEF op, var
  <2>10. code'[LastInstruction'] = op /\ code'[LastInstruction' + 1] = var.index
    BY <1>0, <2>2, <2>3, <2>4, OperandAppended
  <2>5. Judged'
    BY <2>6, <2>7, <2>8, <2>9, <2>10 DEF Judged, LeavesReference
  <2>. QED  BY <2>3, <2>5, NothingCalled
<1>18. CASE CompileVariable
  <2>1. Call(<<Do("indexLoop")>>)
    BY <1>18 DEF CompileVariable, UseVariable, EmitThen
  <2>. QED  BY <1>1, <2>1, Fields DEF Judging
<1>19. CASE IndexLoop
  <2>. DEFINE a == Do("expr")
              b == Consume("RBracket")
              c == EmitOp(Op.GetElement)
              d == Do("indexLoop")
  <2>1. a.fn = "expr" /\ b.fn = "consume" /\ c.fn = "emit" /\ d.fn = "indexLoop"
    BY Fields
  <2>2. CASE Call(<<a, b, c, d>>)
    <3>. HIDE DEF a, b, c, d
    <3>1. <<a, b, c, d>> \in Seq({a, b, c, d}) /\ Others(<<a, b, c, d>>) /\ Judges(<<a, b, c, d>>)
      BY <2>1, FourCalls DEF Judging
    <3>. QED  BY <2>2, <3>1, CallsJudge
  <2>3. CASE isRef' = FALSE /\ Return
    BY <1>3, <2>3
  <2>. QED  BY <1>19, <2>2, <2>3 DEF IndexLoop, SkipThen
<1>. QED  BY <1>4, <1>5, <1>6, <1>7, <1>8, <1>9, <1>10, <1>11, <1>12, <1>13, <1>14, <1>15, <1>16,
            <1>17, <1>18, <1>19 DEF Expression

\* A statement that initialises an inout variable has its expression first.
LEMMA StatementJudges ==
  ASSUME TypeOK, Statement, rc' = "Ok"
  PROVE  JudgingStep
<1>0. rc = "Ok" /\ todo # <<>>
  BY RunsOnlyOk DEF CompilerNext
<1>. DEFINE Free == Head(todo).fn \notin Judging \union Passing
<1>1. ASSUME Free, NEW a, a.fn # "defineInout", Call(<<a>>)  PROVE JudgingStep
  BY <1>1, OneCall, StatementCalls
<1>2. ASSUME Free, NEW a, NEW b, a.fn # "defineInout", b.fn # "defineInout", Call(<<a, b>>)
      PROVE  JudgingStep
  BY <1>2, TwoCalls, StatementCalls
<1>3. ASSUME Free, NEW a, NEW b, NEW c, a.fn # "defineInout", b.fn # "defineInout",
             c.fn # "defineInout", Call(<<a, b, c>>)
      PROVE  JudgingStep
  BY <1>3, ThreeCalls, StatementCalls
<1>4. ASSUME Free, Call(<<>>) \/ Return  PROVE JudgingStep
  <2>1. <<>> \in Seq({}) /\ Others(<<>>) /\ Call(<<>>)
    BY <1>0, <1>4, ReturnCalls DEF Others
  <2>. QED  BY <1>4, <2>1, StatementCalls
<1>5. ASSUME NEW fn \in {"init", "chunk", "stmt", "emit", "let", "letValue", "define", "inout",
                         "defineInout", "assign", "return", "pushScope", "block", "popScope"}, At(fn)
      PROVE  Free
  BY <1>5 DEF At, Judging, Passing
<1>6. CASE BeginCompile
  <2>1. Call(<<Do("chunk")>>) /\ Free
    BY <1>5, <1>6 DEF BeginCompile, SkipThen
  <2>. HIDE DEF Free
  <2>. QED  BY <1>1, <2>1, Fields
<1>7. CASE CompileChunk
  <2>1. (Call(<<Do("stmt"), Do("chunk")>>) \/ Call(<<>>)) /\ Free
    BY <1>5, <1>7 DEF CompileChunk, Then, EmitThen
  <2>. HIDE DEF Free
  <2>. QED  BY <1>2, <1>4, <2>1, Fields
<1>8. CASE CompileStmt
  <2>. DEFINE a == Consume("Eq")
              b == Do("expr")
              c == Consume("Semicolon")
              d == DoName("assign", tok.text)
              e == EmitOp(Op.Pop)
  <2>1. /\ Free
        /\ \/ Call(<<Do("let")>>) \/ Call(<<Do("inout")>>) \/ Call(<<Do("return")>>)
           \/ Call(<<Do("pushScope")>>)
           \/ Call(<<a, b, c, d>>)
           \/ Call(<<b, c, e>>)
    BY <1>5, <1>8 DEF CompileStmt, SkipThen, Then
  <2>2. a.fn = "consume" /\ b.fn = "expr" /\ c.fn = "consume" /\ d.fn = "assign" /\ e.fn = "emit"
    BY Fields
  <2>. HIDE DEF Free, a, b, c, d, e
  <2>3. CASE Call(<<a, b, c, d>>)
    <3>1. <<a, b, c, d>> \in Seq({a, b, c, d}) /\ Others(<<a, b, c, d>>)
      BY <2>2, FourCalls
    <3>. QED  BY <2>1, <2>3, <3>1, StatementCalls DEF Free
  <2>4. CASE Call(<<b, c, e>>)
    BY <1>3, <2>1, <2>2, <2>4
  <2>. QED  BY <1>1, <2>1, <2>3, <2>4, Fields
<1>9. CASE ConsumeToken
  <2>1. SkipThen(<<>>) /\ Head(todo).fn \notin Judging
    BY <1>9 DEF ConsumeToken, Fail, At, Judging
  <2>. QED  BY <2>1, JudgedStays, NothingCalled DEF SkipThen
<1>10. CASE EmitOpcode
  <2>1. Call(<<>>) /\ Free
    BY <1>5, <1>10 DEF EmitOpcode, EmitThen
  <2>. HIDE DEF Free
  <2>. QED  BY <1>4, <2>1
<1>11. CASE CompileLetStmt
  <2>1. Call(<<DoName("letValue", tok.text)>>) /\ Free
    BY <1>5, <1>11 DEF CompileLetStmt, SkipThen, Fail
  <2>. HIDE DEF Free
  <2>. QED  BY <1>1, <2>1, Fields
<1>12. CASE LetValue
  <2>. DEFINE a == Do("expr")
              b == Consume("Semicolon")
              c == DoName("define", Head(todo).name)
  <2>1. (Call(<<a>> \o <<b, c>>) \/ Call(<<b, c>>)) /\ Free
    BY <1>5, <1>12 DEF LetValue, SkipThen, EmitThen
  <2>3. a.fn = "expr" /\ b.fn = "consume" /\ c.fn = "define"
    BY Fields
  <2>. HIDE DEF Free, a, b, c
  <2>2. <<a>> \o <<b, c>> \in Seq({a, b, c}) /\ Others(<<a>> \o <<b, c>>)
    <3>1. <<a>> \in Seq({a, b, c}) /\ <<b, c>> \in Seq({a, b, c})
      OBVIOUS
    <3>2. <<a>> \o <<b, c>> \in Seq({a, b, c})
      BY <3>1, ConcatProperties
    <3>3. \A i \in DOMAIN (<<a>> \o <<b, c>>) : (<<a>> \o <<b, c>>)[i] \in {a, b, c}
      <4>. DEFINE items == <<a>> \o <<b, c>>
      <4>1. items \in Seq({a, b, c})
        BY <3>2
      <4>. HIDE DEF items
      <4>2. \A i \in DOMAIN items : items[i] \in {a, b, c}
        BY <4>1, ElementOfSeq
      <4>. QED  BY <4>2 DEF items
    <3>. QED  BY <2>3, <3>2, <3>3 DEF Others
  <2>4. CASE Call(<<a>> \o <<b, c>>)
    BY <2>1, <2>2, <2>4, StatementCalls DEF Free
  <2>5. CASE Call(<<b, c>>)
    BY <1>2, <2>1, <2>3, <2>5
  <2>. QED  BY <2>1, <2>4, <2>5
<1>13. CASE Define \/ DefineInout \/ PopScope
  <2>1. Return /\ Free
    BY <1>5, <1>13 DEF Define, DefineInout, PopScope
  <2>. HIDE DEF Free
  <2>. QED  BY <1>4, <2>1
<1>14. CASE CompileInoutStmt
  <2>. DEFINE a == Consume("Eq")
              b == Do("expr")
              c == Consume("Semicolon")
              d == DoName("defineInout", tok.text)
  <2>1. Call(<<a, b, c, d>>) /\ Free
    BY <1>5, <1>14 DEF CompileInoutStmt, SkipThen, Fail
  <2>2. a.fn = "consume" /\ b.fn = "expr" /\ c.fn = "consume"
    BY Fields
  <2>. HIDE DEF a, b, c, d
  <2>3. /\ <<a, b, c, d>> \in Seq({a, b, c, d})
        /\ \A k \in DOMAIN <<a, b, c, d>> : <<a, b, c, d>>[k].fn = "defineInout" =>
             JudgedBefore(<<a, b, c, d>>, k)
    BY <2>2, FourCalls DEF Judging, Passing
  <2>. QED  BY <2>1, <2>3 DEF JudgingStep
<1>15. CASE AssignVariable
  <2>1. Call(<<>>) /\ Free
    BY <1>5, <1>15 DEF AssignVariable, UseVariable, EmitThen
  <2>. HIDE DEF Free
  <2>. QED  BY <1>4, <2>1
<1>16. CASE CompileReturnStmt
  <2>. DEFINE a == Do("expr")
              b == Consume("Semicolon")
              c == EmitOp(Op.Return)
  <2>1. (Call(<<>>) \/ Call(<<a, b, c>>)) /\ Free
    BY <1>5, <1>16 DEF CompileReturnStmt, SkipThen, Then
  <2>2. a.fn = "expr" /\ b.fn = "consume" /\ c.fn = "emit"
    BY Fields
  <2>. HIDE DEF Free, a, b, c
  <2>. QED  BY <1>3, <1>4, <2>1, <2>2
<1>17. CASE PushScope \/ CompileBlockStmt
  <2>1. (Call(<<Do("block")>>) \/ Call(<<Do("stmt"), Do("block")>>) \/ Call(<<Do("popScope")>>)) /\ Free
    BY <1>5, <1>17 DEF PushScope, CompileBlockStmt, SkipThen, Then
  <2>. HIDE DEF Free
  <2>. QED  BY <1>1, <1>2, <2>1, Fields
<1>. QED  BY <1>6, <1>7, <1>8, <1>9, <1>10, <1>11, <1>12, <1>13, <1>14, <1>15, <1>16, <1>17 DEF Statement

\* The statement is executed by its own action.
LEMMA InoutActs ==
  ASSUME CompilerNext, At("defineInout")
  PROVE  DefineInout
<1>. USE DEF At
<1>1. CASE Statement
  BY <1>1 DEF Statement, BeginCompile, CompileChunk, CompileStmt, ConsumeToken, EmitOpcode,
     CompileLetStmt, LetValue, Define, CompileInoutStmt, AssignVariable,
     CompileReturnStmt, PushScope, CompileBlockStmt, PopScope
<1>2. CASE Expression
  BY <1>2 DEF Expression, CompileExpr, RangeOperator, CompileAddExpr, AddLoop, CompileMulExpr,
     MulLoop, OperatorLoop, EmitOperator, CompileUnaryExpr, CompilePrimExpr, CompileInt,
     CompileNumber, CompileString, CompileArray, ArrayLoop, ArrayEnd, CompileRef, RefTo,
     CompileVariable, IndexLoop
<1>. QED  BY <1>1, <1>2 DEF CompilerNext

\* A program in which an inout variable is initialised with the value read from
\* a variable, an element, an array, a string, a number that is no Int literal or
\* an operator is refused, however the expression is nested and whatever
\* comp->typeInfo was before it: each expression ends with setting it, but for
\* integer literals.
THEOREM InoutsAreJudged ==
  ASSUME ~CheckOnly
  PROVE  ScopesSpec => InoutRejectsComputed
<1>1. ScopesInit => InoutsJudged
  <2>1. CompilerInit => todo = <<Do("init")>>
    BY DEF CompilerInit
  <2>2. \A k \in DOMAIN <<Do("init")>> : <<Do("init")>>[k].fn # "defineInout"
    <3>1. Do("init").fn = "init"
      BY Fields
    <3>. QED  BY <3>1
  <2>. QED  BY <2>1, <2>2 DEF ScopesInit, InoutsJudged
<1>2. TypeOK /\ SlotNumbering /\ CodeWhole /\ InoutsJudged /\ [ScopesNext]_scopeVars => InoutsJudged'
  <2>1. SUFFICES ASSUME TypeOK, SlotNumbering, CodeWhole, InoutsJudged, [ScopesNext]_scopeVars
                 PROVE  InoutsJudged'
    OBVIOUS
  <2>2. CASE CompilerNext /\ rc' = "Ok"
    <3>1. rc = "Ok" /\ todo # <<>>
      BY <2>2, RunsOnlyOk
    <3>2. JudgingStep
      BY <2>1, <2>2, StatementJudges, ExpressionJudges DEF CompilerNext
    <3>. QED  BY <2>1, <3>1, <3>2, InoutsStayJudged
  <2>3. CASE rc' # "Ok"
    BY <2>3 DEF InoutsJudged
  <2>4. CASE UNCHANGED scopeVars
    <3>1. LastInstruction' = LastInstruction /\ UNCHANGED <<code, consts, variables, isRef, rc, todo>>
      BY <2>4 DEF scopeVars, vars, chunkVars, compilerVars, LastInstruction
    <3>. QED  BY <2>1, <3>1 DEF InoutsJudged, Judged, LeavesReference, LeavesInteger
  <2>. QED  BY <2>1, <2>2, <2>3, <2>4 DEF ScopesNext
<1>3. InoutsJudged /\ [ScopesNext]_scopeVars =>
        [At("defineInout") /\ rc' = "Ok" => LeavesReference \/ LeavesInteger]_scopeVars
  <2>1. SUFFICES ASSUME InoutsJudged, ScopesNext, At("defineInout"), rc' = "Ok"
                 PROVE  LeavesReference \/ LeavesInteger
    OBVIOUS
  <2>2. isRef
    BY <2>1, InoutActs DEF ScopesNext, DefineInout, DefineVariable
  <2>3. 1 \in DOMAIN todo /\ todo[1].fn = "defineInout" /\ rc = "Ok"
    BY <2>1 DEF At
  <2>4. ~JudgedBefore(todo, 1)
    BY DEF JudgedBefore
  <2>. QED  BY <2>1, <2>2, <2>3, <2>4 DEF InoutsJudged, Judged
<1>. QED  BY <1>1, <1>2, <1>3, CodeInvariant, PTL DEF ScopesSpec, InoutRejectsComputed

-----------------------------------------------------------------------------
\* The effect of pending calls on the stack, summed from the end.

\* NetFrom, for any sequence of calls.
SuffixNet(s) ==
  LET from[k \in 1..Len(s) + 1] == IF k > Len(s) THEN 0 ELSE Net(s[k]) + from[k + 1]
  IN from

Summed(f, s) ==
  /\ f = [k \in 1..Len(s) + 1 |-> f[k]]
  /\ f[Len(s) + 1] = 0
  /\ \A k \in 1..Len(s) : f[k] = Net(s[k]) + f[k + 1]

\* There is at most one such function.
LEMMA SummedOnce ==
  ASSUME NEW s, Len(s) \in Nat, NEW f, NEW g, Summed(f, s), Summed(g, s)
  PROVE  f = g
<1>. DEFINE m == Len(s)
            D == {i \in Nat : i <= m /\ g[m + 1 - i] # f[m + 1 - i]}
<1>0. m \in Nat
  OBVIOUS
<1>1. /\ f = [k \in 1..m + 1 |-> f[k]] /\ f[m + 1] = 0
      /\ \A k \in 1..m : f[k] = Net(s[k]) + f[k + 1]
      /\ g = [k \in 1..m + 1 |-> g[k]] /\ g[m + 1] = 0
      /\ \A k \in 1..m : g[k] = Net(s[k]) + g[k + 1]
  BY DEF Summed
<1>. HIDE DEF m
<1>2. ASSUME D # {}  PROVE FALSE
  <2>1. PICK d \in D : \A i \in D : d <= i
    <3>1. D \subseteq Nat
      OBVIOUS
    <3>. HIDE DEF D
    <3>. QED  BY <1>2, <3>1, LeastMember
  <2>2. d # 0
    <3>1. m + 1 - 0 = m + 1
      BY <1>0
    <3>. QED  BY <1>1, <2>1, <3>1
  <2>. DEFINE k == m + 1 - d
  <2>3. k \in 1..m /\ k + 1 = m + 1 - (d - 1) /\ d - 1 \in Nat /\ d - 1 <= m
    BY <1>0, <2>1, <2>2
  <2>4. d - 1 \notin D
    BY <2>1
  <2>5. g[k + 1] = f[k + 1] /\ g[k] # f[k]
    BY <2>1, <2>3, <2>4
  <2>. QED  BY <1>1, <2>3, <2>5
<1>3. ASSUME NEW k \in 1..m + 1  PROVE g[k] = f[k]
  <2>1. m + 1 - k \in Nat /\ m + 1 - k <= m /\ m + 1 - (m + 1 - k) = k
    BY <1>0
  <2>. QED  BY <1>2, <2>1
<1>. HIDE DEF D
<1>. QED  BY <1>1, <1>3

\* It exists, and SuffixNet is it.
LEMMA SuffixNetSums ==
  ASSUME NEW S, NEW s \in Seq(S), \A item \in S : Net(item) \in Int
  PROVE  Summed(SuffixNet(s), s) /\ SuffixNet(s) \in [1..Len(s) + 1 -> Int]
<1>. DEFINE m == Len(s)
            F(f) == [k \in 1..Len(s) + 1 |-> IF k > Len(s) THEN 0 ELSE Net(s[k]) + f[k + 1]]
            from == CHOOSE f : f = F(f)
            step == [i \in Nat |-> [v \in Int |-> IF i \in 1..m THEN Net(s[m + 1 - i]) + v ELSE v]]
<1>1. m \in Nat /\ \A k \in 1..m : Net(s[k]) \in Int
  BY LenProperties, ElementOfSeq
<1>2. step \in Steps(Int)
  <2>1. ASSUME NEW i \in Nat, NEW v \in Int
        PROVE  (IF i \in 1..m THEN Net(s[m + 1 - i]) + v ELSE v) \in Int
    <3>1. CASE i \in 1..m
      <4>1. m + 1 - i \in 1..m
        BY <1>1, <3>1
      <4>2. Net(s[m + 1 - i]) \in Int
        BY <1>1, <4>1
      <4>. HIDE DEF m
      <4>. QED  BY <3>1, <4>2
    <3>. QED  BY <3>1
  <2>. QED  BY <2>1 DEF Steps
<1>3. PICK g : Unrolled(g, Int, 0, step, m)
  <2>1. 0 \in Int
    OBVIOUS
  <2>2. m \in Nat
    BY <1>1
  <2>. HIDE DEF step, m
  <2>. QED  BY <1>2, <2>1, <2>2, RecursionExists
<1>. DEFINE f == [k \in 1..m + 1 |-> g[m + 1 - k]]
<1>4. /\ g \in [0..m -> Int] /\ g[0] = 0
      /\ \A i \in 1..m : g[i] = Net(s[m + 1 - i]) + g[i - 1]
  <2>1. g \in [0..m -> Int] /\ g[0] = 0 /\ \A i \in 1..m : g[i] = step[i][g[i - 1]]
    BY <1>3 DEF Unrolled
  <2>2. ASSUME NEW i \in 1..m  PROVE g[i] = Net(s[m + 1 - i]) + g[i - 1]
    <3>1. g[i - 1] \in Int /\ i \in Nat
      BY <1>1, <2>1
    <3>2. step[i][g[i - 1]] = Net(s[m + 1 - i]) + g[i - 1]
      <4>. DEFINE v == g[i - 1]
      <4>. HIDE DEF m, v
      <4>1. v \in Int
        BY <3>1 DEF v
      <4>2. step[i] = [x \in Int |-> IF i \in 1..m THEN Net(s[m + 1 - i]) + x ELSE x]
        BY <3>1
      <4>3. step[i][v] = Net(s[m + 1 - i]) + v
        <5>. HIDE DEF step
        <5>. QED  BY <4>1, <4>2
      <4>. QED  BY <4>3 DEF v
    <3>. QED  BY <2>1, <3>2
  <2>. QED  BY <2>1, <2>2
<1>5. f \in [1..m + 1 -> Int] /\ f[m + 1] = 0 /\ \A k \in 1..m : f[k] = Net(s[k]) + f[k + 1]
  <2>1. \A k \in 1..m + 1 : m + 1 - k \in 0..m
    BY <1>1
  <2>2. f \in [1..m + 1 -> Int] /\ f[m + 1] = 0
    BY <1>1, <1>4, <2>1
  <2>3. ASSUME NEW k \in 1..m  PROVE f[k] = Net(s[k]) + f[k + 1]
    <3>1. m + 1 - k \in 1..m /\ m + 1 - (m + 1 - k) = k /\ (m + 1 - k) - 1 = m + 1 - (k + 1)
      BY <1>1
    <3>2. f[k] = g[m + 1 - k] /\ f[k + 1] = g[m + 1 - (k + 1)]
      BY <1>1
    <3>. QED  BY <1>4, <3>1, <3>2
  <2>. QED  BY <2>2, <2>3
<1>6. f = F(f)
  <2>1. ASSUME NEW k \in 1..m + 1  PROVE f[k] = F(f)[k]
    <3>1. k > m <=> k = m + 1
      BY <1>1
    <3>2. F(f)[k] = IF k > m THEN 0 ELSE Net(s[k]) + f[k + 1]
      OBVIOUS
    <3>3. k # m + 1 => k \in 1..m
      BY <1>1
    <3>. HIDE DEF f, F
    <3>. QED  BY <1>5, <3>1, <3>2, <3>3
  <2>2. DOMAIN f = 1..m + 1 /\ DOMAIN F(f) = 1..m + 1 /\ f = [k \in 1..m + 1 |-> f[k]]
        /\ F(f) = [k \in 1..m + 1 |-> F(f)[k]]
    OBVIOUS
  <2>. HIDE DEF f, F, m
  <2>. QED  BY <2>1, <2>2
<1>7. from = F(from)
  <2>. HIDE DEF f, F
  <2>. QED  BY <1>6
<1>8. SuffixNet(s) = from
  BY DEF SuffixNet
<1>9. Summed(from, s)
  <2>1. from = [k \in 1..m + 1 |-> IF k > m THEN 0 ELSE Net(s[k]) + from[k + 1]]
    BY <1>7
  <2>2. /\ m + 1 \in 1..m + 1 /\ m + 1 > m
        /\ \A k \in 1..m : k \in 1..m + 1 /\ ~(k > m)
    BY <1>1
  <2>. HIDE DEF from
  <2>3. \A k \in 1..m + 1 : from[k] = IF k > m THEN 0 ELSE Net(s[k]) + from[k + 1]
    BY <2>1
  <2>4. from = [k \in 1..m + 1 |-> from[k]]
    BY <2>1
  <2>. HIDE DEF f, F
  <2>. QED  BY <2>2, <2>3, <2>4 DEF Summed
<1>10. Summed(f, s)
  <2>1. f = [k \in 1..m + 1 |-> f[k]]
    BY <1>5
  <2>. HIDE DEF f
  <2>. QED  BY <1>5, <2>1 DEF Summed
<1>11. from = f
  <2>. HIDE DEF from, f
  <2>. QED  BY <1>1, <1>9, <1>10, SummedOnce
<1>. QED  BY <1>5, <1>8, <1>10, <1>11

-----------------------------------------------------------------------------
\* What is ready to be executed.

LEMMA EffectType ==
  ASSUME NEW op, NEW operand \in Int
  PROVE  Pops(op, operand) \in Int /\ Pushes(op) \in Int /\ Effect(op, operand) \in Int
<1>1. Pops(op, operand) \in {0, 1, 2, operand} /\ Pushes(op) \in {0, 1}
  BY DEF Pops, Pushes
<1>. QED  BY <1>1 DEF Effect

LEMMA NetType == \A item \in AllCalls : item.n \in Int /\ Net(item) \in Int /\ Needs(item) \in Int
<1>. SUFFICES ASSUME NEW item \in AllCalls  PROVE item.n \in Int /\ Net(item) \in Int /\ Needs(item) \in Int
  OBVIOUS
<1>1. item.n \in Int
  <2>1. CASE item \in Calls
    <3>1. item.n \in Nat
      BY <2>1, CallFields
    <3>. QED  BY <3>1
  <2>2. CASE item = Do("init")
    <3>1. item.n = 0
      BY <2>2 DEF Do
    <3>. QED  BY <3>1
  <2>. QED  BY <2>1, <2>2 DEF AllCalls
<1>2. Net(item) \in {1, -1, 0, 1 - item.n, Effect(item.n, 0)}
  BY DEF Net
<1>3. Needs(item) \in {1, 0, item.n, Pops(item.n, 0)}
  BY DEF Needs
<1>4. 0 \in Int /\ 1 \in Int /\ -1 \in Int /\ 1 - item.n \in Int
  BY <1>1
<1>. QED  BY <1>1, <1>2, <1>3, <1>4, EffectType

\* The calls of statements: no temporary is pending behind them.
StatementCall == {"init", "chunk", "stmt", "let", "letValue", "define", "inout", "defineInout",
                  "assign", "return", "pushScope", "block", "popScope"}

\* A call finds its operands, given what is pending behind it.
Settled(item, behind) ==
  /\ Needs(item) + Net(item) + behind <= 0
  /\ item.fn \in StatementCall => behind = 0

Total(s) == SuffixNet(s)[1]
AllSettled(s) == \A k \in 1..Len(s) : Settled(s[k], SuffixNet(s)[k + 1])

LEMMA NothingPending == Total(<<>>) = 0 /\ AllSettled(<<>>)
<1>1. <<>> \in Seq(AllCalls) /\ Len(<<>>) = 0
  OBVIOUS
<1>2. Summed(SuffixNet(<<>>), <<>>)
  BY <1>1, NetType, SuffixNetSums
<1>. QED  BY <1>1, <1>2 DEF Summed, Total, AllSettled

\* One more call in front of others.
LEMMA FrontCall ==
  ASSUME NEW item \in AllCalls, NEW s \in Seq(AllCalls)
  PROVE  /\ <<item>> \o s \in Seq(AllCalls)
         /\ Total(s) \in Int
         /\ Total(<<item>> \o s) = Net(item) + Total(s)
         /\ AllSettled(<<item>> \o s) <=> Settled(item, Total(s)) /\ AllSettled(s)
<1>. DEFINE m == Len(s)
            new == <<item>> \o s
            f == SuffixNet(s)
            g == [k \in 1..m + 2 |-> IF k = 1 THEN Net(item) + f[1] ELSE f[k - 1]]
<1>1. m \in Nat /\ Summed(f, s) /\ f \in [1..m + 1 -> Int]
  BY LenProperties, NetType, SuffixNetSums
<1>2. /\ new \in Seq(AllCalls) /\ Len(new) = m + 1 /\ new[1] = item
      /\ \A k \in 1..m : new[k + 1] = s[k]
  <2>. DEFINE one == <<item>>
  <2>1. one \in Seq(AllCalls) /\ Len(one) = 1 /\ one[1] = item
    OBVIOUS
  <2>. HIDE DEF one
  <2>2. /\ one \o s \in Seq(AllCalls) /\ Len(one \o s) = 1 + m
        /\ \A i \in 1..1 + m : (one \o s)[i] = IF i <= 1 THEN one[i] ELSE s[i - 1]
    <3>1. /\ one \o s \in Seq(AllCalls) /\ Len(one \o s) = Len(one) + Len(s)
          /\ \A i \in 1..Len(one) + Len(s) :
               (one \o s)[i] = IF i <= Len(one) THEN one[i] ELSE s[i - Len(one)]
      BY <2>1, ConcatProperties
    <3>. QED  BY <2>1, <3>1
  <2>3. /\ 1 \in 1..1 + m
        /\ \A k \in 1..m : k + 1 \in 1..1 + m /\ ~(k + 1 <= 1) /\ (k + 1) - 1 = k
    BY <1>1
  <2>4. one \o s \in Seq(AllCalls) /\ Len(one \o s) = m + 1 /\ (one \o s)[1] = item
    BY <1>1, <2>1, <2>2, <2>3
  <2>5. ASSUME NEW k \in 1..m  PROVE (one \o s)[k + 1] = s[k]
    BY <2>2, <2>3
  <2>. QED  BY <2>4, <2>5 DEF one
<1>3. /\ f[m + 1] = 0 /\ \A k \in 1..m : f[k] = Net(s[k]) + f[k + 1]
  BY <1>1 DEF Summed
<1>. HIDE DEF new, f
<1>4. /\ \A k \in 1..m + 1 : g[k + 1] = f[k]
      /\ g[1] = Net(item) + f[1]
  <2>1. \A k \in 1..m + 1 : k + 1 \in 1..m + 2 /\ k + 1 # 1 /\ (k + 1) - 1 = k
    BY <1>1
  <2>2. 1 \in 1..m + 2
    BY <1>1
  <2>. HIDE DEF m
  <2>. QED  BY <2>1, <2>2
<1>5. Summed(g, new)
  <2>1. g[(m + 1) + 1] = 0
    BY <1>1, <1>3, <1>4
  <2>2. ASSUME NEW k \in 1..m + 1  PROVE g[k] = Net(new[k]) + g[k + 1]
    <3>1. CASE k = 1
      BY <1>1, <1>2, <1>4, <3>1
    <3>2. CASE k # 1
      <4>1. k - 1 \in 1..m /\ (k - 1) + 1 = k
        BY <1>1, <3>2
      <4>2. new[k] = s[k - 1] /\ g[k] = f[k - 1]
        <5>1. k - 1 \in 1..m + 1
          BY <1>1, <4>1
        <5>. HIDE DEF g
        <5>. QED  BY <1>2, <1>4, <4>1, <5>1
      <4>3. g[k + 1] = f[k]
        <5>. HIDE DEF g
        <5>. QED  BY <1>4
      <4>. QED  BY <1>3, <4>1, <4>2, <4>3
    <3>. QED  BY <3>1, <3>2
  <2>3. g = [k \in 1..(m + 1) + 1 |-> g[k]]
    BY <1>1
  <2>. HIDE DEF g, m
  <2>. QED  BY <1>2, <2>1, <2>2, <2>3 DEF Summed
<1>6. SuffixNet(new) = g
  <2>1. Summed(SuffixNet(new), new) /\ Len(new) \in Nat
    BY <1>1, <1>2, NetType, SuffixNetSums
  <2>. HIDE DEF g
  <2>. QED  BY <1>5, <2>1, SummedOnce
<1>. HIDE DEF g
<1>7. Total(s) \in Int /\ Total(s) = f[1] /\ Total(new) = Net(item) + Total(s)
  <2>1. 1 \in 1..m + 1
    BY <1>1
  <2>. QED  BY <1>1, <1>4, <1>6, <2>1 DEF Total, f
<1>8. AllSettled(new) <=> Settled(item, f[1]) /\ \A k \in 1..m : Settled(s[k], f[k + 1])
  <2>1. AllSettled(new) <=> \A k \in 1..m + 1 : Settled(new[k], g[k + 1])
    BY <1>2, <1>6 DEF AllSettled
  <2>2. 1 \in 1..m + 1 /\ new[1] = item /\ g[1 + 1] = f[1]
    BY <1>1, <1>2, <1>4
  <2>3. ASSUME NEW k \in 1..m  PROVE k + 1 \in 1..m + 1 /\ new[k + 1] = s[k] /\ g[(k + 1) + 1] = f[k + 1]
    BY <1>1, <1>2, <1>4
  <2>4. ASSUME NEW k \in 1..m + 1, k # 1  PROVE k - 1 \in 1..m /\ new[k] = s[k - 1] /\ g[k + 1] = f[(k - 1) + 1]
    <3>. DEFINE j == k - 1
    <3>1. j \in 1..m /\ j + 1 = k
      BY <1>1, <2>4
    <3>. HIDE DEF j, m, new, f
    <3>2. new[j + 1] = s[j] /\ g[(j + 1) + 1] = f[j + 1]
      BY <2>3, <3>1
    <3>. QED  BY <3>1, <3>2 DEF j
  <2>. HIDE DEF m, Settled
  <2>5. AllSettled(new) => Settled(item, f[1]) /\ \A k \in 1..m : Settled(s[k], f[k + 1])
    BY <2>1, <2>2, <2>3
  <2>6. Settled(item, f[1]) /\ (\A k \in 1..m : Settled(s[k], f[k + 1])) => AllSettled(new)
    BY <2>1, <2>2, <2>4
  <2>. QED  BY <2>5, <2>6
<1>. QED  BY <1>2, <1>7, <1>8 DEF AllSettled, new, f

-----------------------------------------------------------------------------
\* The height of the stack after code.

\* What Height sums up: the effect of the code from each position on.
HeightFrom(bytes) ==
  LET from[i \in 1..Len(bytes) + 2] ==
        IF i > Len(bytes) THEN 0
        ELSE Effect(bytes[i], OperandAt(bytes, i)) + from[i + Width(bytes[i])]
  IN from

Falls(f, bytes) ==
  /\ f = [i \in 1..Len(bytes) + 2 |-> f[i]]
  /\ f[Len(bytes) + 1] = 0 /\ f[Len(bytes) + 2] = 0
  /\ \A i \in 1..Len(bytes) :
       f[i] = Effect(bytes[i], OperandAt(bytes, i)) + f[i + Width(bytes[i])]

\* There is at most one such function.
LEMMA FallsOnce ==
  ASSUME NEW bytes, Len(bytes) \in Nat, NEW f, NEW g, Falls(f, bytes), Falls(g, bytes)
  PROVE  f = g
<1>. DEFINE m == Len(bytes)
            D == {i \in Nat : i <= m + 1 /\ g[m + 2 - i] # f[m + 2 - i]}
<1>0. m \in Nat
  OBVIOUS
<1>1. /\ f = [i \in 1..m + 2 |-> f[i]] /\ f[m + 1] = 0 /\ f[m + 2] = 0
      /\ \A i \in 1..m : f[i] = Effect(bytes[i], OperandAt(bytes, i)) + f[i + Width(bytes[i])]
      /\ g = [i \in 1..m + 2 |-> g[i]] /\ g[m + 1] = 0 /\ g[m + 2] = 0
      /\ \A i \in 1..m : g[i] = Effect(bytes[i], OperandAt(bytes, i)) + g[i + Width(bytes[i])]
  BY DEF Falls
<1>. HIDE DEF m
<1>2. ASSUME D # {}  PROVE FALSE
  <2>1. PICK d \in D : \A i \in D : d <= i
    <3>1. D \subseteq Nat
      OBVIOUS
    <3>. HIDE DEF D
    <3>. QED  BY <1>2, <3>1, LeastMember
  <2>2. d \notin {0, 1}
    <3>1. m + 2 - 0 = m + 2 /\ m + 2 - 1 = m + 1
      BY <1>0
    <3>. QED  BY <1>1, <2>1, <3>1
  <2>. DEFINE k == m + 2 - d
              w == Width(bytes[k])
  <2>3. w \in {1, 2}
    BY WidthType
  <2>4. d \in Nat /\ d <= m + 1
    OBVIOUS
  <2>. HIDE DEF w
  <2>5. k \in 1..m /\ k + w = m + 2 - (d - w) /\ d - w \in Nat /\ d - w <= m + 1 /\ ~(d <= d - w)
    BY <1>0, <2>2, <2>3, <2>4
  <2>6. d - w \notin D
    <3>. HIDE DEF D
    <3>. QED  BY <2>1, <2>5
  <2>7. g[k + w] = f[k + w] /\ g[k] # f[k]
    BY <2>1, <2>5, <2>6
  <2>. HIDE DEF k
  <2>. QED  BY <1>1, <2>5, <2>7 DEF w
<1>3. ASSUME NEW k \in 1..m + 2  PROVE g[k] = f[k]
  <2>1. m + 2 - k \in Nat /\ m + 2 - k <= m + 1 /\ m + 2 - (m + 2 - k) = k
    BY <1>0
  <2>. QED  BY <1>2, <2>1
<1>. HIDE DEF D
<1>. QED  BY <1>1, <1>3

\* It exists, and HeightFrom is it.
LEMMA HeightFalls ==
  ASSUME NEW bytes \in Seq(Bytes)
  PROVE  Falls(HeightFrom(bytes), bytes) /\ HeightFrom(bytes) \in [1..Len(bytes) + 2 -> Int]
<1>. DEFINE m == Len(bytes)
            e(k) == Effect(bytes[k], OperandAt(bytes, k))
            F(f) == [i \in 1..Len(bytes) + 2 |->
                       IF i > Len(bytes) THEN 0
                       ELSE Effect(bytes[i], OperandAt(bytes, i)) + f[i + Width(bytes[i])]]
            from == CHOOSE f : f = F(f)
            Pairs == Int \X Int
            zero == <<0, 0>>
            step == [i \in Nat |-> [v \in Pairs |->
                       IF i \in 1..m
                       THEN <<e(m + 1 - i) + (IF Width(bytes[m + 1 - i]) = 1 THEN v[1] ELSE v[2]), v[1]>>
                       ELSE v]]
<1>1. m \in Nat /\ \A k \in 1..m : e(k) \in Int
  <2>1. Bytes \subseteq Int
    BY OpcodesAreBytes, BoundsAssumption DEF Bytes
  <2>2. m \in Nat /\ \A k \in 1..m : bytes[k] \in Int
    BY <2>1, LenProperties, ElementOfSeq
  <2>3. ASSUME NEW k \in 1..m  PROVE OperandAt(bytes, k) \in Int
    <3>1. k < m => k + 1 \in 1..m
      BY <2>2
    <3>. QED  BY <2>2, <3>1 DEF OperandAt
  <2>. QED  BY <2>2, <2>3, EffectType
<1>. HIDE DEF e
<1>2. step \in Steps(Pairs) /\ zero \in Pairs
  <2>1. ASSUME NEW i \in Nat, NEW v \in Pairs, i \in 1..m
        PROVE  <<e(m + 1 - i) + (IF Width(bytes[m + 1 - i]) = 1 THEN v[1] ELSE v[2]), v[1]>> \in Pairs
    <3>1. m + 1 - i \in 1..m
      BY <1>1, <2>1
    <3>2. e(m + 1 - i) \in Int
      BY <1>1, <3>1
    <3>3. v[1] \in Int /\ v[2] \in Int
      OBVIOUS
    <3>. QED  BY <3>2, <3>3
  <2>. HIDE DEF Pairs, m
  <2>2. step \in Steps(Pairs)
    BY <2>1 DEF Steps
  <2>. QED  BY <2>2 DEF Pairs
<1>3. PICK g : Unrolled(g, Pairs, zero, step, m)
  <2>1. m \in Nat
    BY <1>1
  <2>. HIDE DEF step, m, Pairs, zero
  <2>. QED  BY <1>2, <2>1, RecursionExists
<1>. DEFINE f == [k \in 1..m + 2 |-> IF k = m + 2 THEN 0 ELSE g[m + 1 - k][1]]
<1>4. /\ g \in [0..m -> Pairs] /\ g[0] = zero
      /\ \A i \in 1..m :
           /\ g[i][1] = e(m + 1 - i) + (IF Width(bytes[m + 1 - i]) = 1 THEN g[i - 1][1] ELSE g[i - 1][2])
           /\ g[i][2] = g[i - 1][1]
  <2>1. g \in [0..m -> Pairs] /\ g[0] = zero /\ \A i \in 1..m : g[i] = step[i][g[i - 1]]
    BY <1>3 DEF Unrolled
  <2>2. ASSUME NEW i \in 1..m
        PROVE  /\ g[i][1] = e(m + 1 - i) + (IF Width(bytes[m + 1 - i]) = 1 THEN g[i - 1][1] ELSE g[i - 1][2])
               /\ g[i][2] = g[i - 1][1]
    <3>1. g[i - 1] \in Pairs /\ i \in Nat
      <4>1. i - 1 \in 0..m /\ i \in Nat
        BY <1>1
      <4>. HIDE DEF Pairs, m
      <4>. QED  BY <2>1, <4>1
    <3>. DEFINE v == g[i - 1]
    <3>2. step[i][v] = <<e(m + 1 - i) + (IF Width(bytes[m + 1 - i]) = 1 THEN v[1] ELSE v[2]), v[1]>>
      <4>. HIDE DEF m, v, Pairs
      <4>. QED  BY <3>1 DEF v
    <3>3. g[i] = step[i][v]
      <4>. HIDE DEF step, m
      <4>. QED  BY <2>1
    <3>. HIDE DEF step, m, Pairs
    <3>. QED  BY <3>2, <3>3
  <2>. QED  BY <2>1, <2>2
<1>5. f \in [1..m + 2 -> Int]
  <2>1. ASSUME NEW k \in 1..m + 2, k # m + 2  PROVE g[m + 1 - k][1] \in Int
    <3>1. m + 1 - k \in 0..m
      BY <1>1, <2>1
    <3>. QED  BY <1>4, <3>1
  <2>. QED  BY <2>1
<1>6. f[m + 1] = 0 /\ f[m + 2] = 0
  <2>1. m + 1 \in 1..m + 2 /\ m + 1 # m + 2 /\ m + 2 \in 1..m + 2 /\ m + 1 - (m + 1) = 0
    BY <1>1
  <2>2. f[m + 1] = g[0][1]
    BY <2>1
  <2>. QED  BY <1>4, <2>1, <2>2
<1>7. \A k \in 1..m : f[k] = e(k) + f[k + Width(bytes[k])]
  <2>. SUFFICES ASSUME NEW k \in 1..m  PROVE f[k] = e(k) + f[k + Width(bytes[k])]
    OBVIOUS
  <2>. DEFINE i == m + 1 - k
              w == Width(bytes[k])
  <2>1. w \in {1, 2}
    BY WidthType
  <2>. HIDE DEF w
  <2>2. i \in 1..m /\ m + 1 - i = k /\ k \in 1..m + 2 /\ k # m + 2
    BY <1>1
  <2>3. f[k] = g[i][1]
    BY <2>2
  <2>4. g[i][1] = e(k) + (IF w = 1 THEN g[i - 1][1] ELSE g[i - 1][2])
    BY <1>4, <2>2 DEF w
  <2>5. CASE w = 1
    <3>1. k + 1 \in 1..m + 2 /\ k + 1 # m + 2 /\ m + 1 - (k + 1) = i - 1
      BY <1>1
    <3>2. f[k + 1] = g[i - 1][1]
      BY <3>1
    <3>. HIDE DEF f, i
    <3>. QED  BY <2>3, <2>4, <2>5, <3>2 DEF w
  <2>6. CASE w = 2 /\ k = m
    <3>1. k + 2 = m + 2 /\ i - 1 = 0
      BY <1>1, <2>6
    <3>2. f[k + 2] = 0 /\ g[i - 1][2] = 0
      BY <1>4, <1>6, <3>1
    <3>. HIDE DEF f, i
    <3>. QED  BY <2>3, <2>4, <2>6, <3>2 DEF w
  <2>7. CASE w = 2 /\ k # m
    <3>1. k + 2 \in 1..m + 2 /\ k + 2 # m + 2 /\ m + 1 - (k + 2) = (i - 1) - 1 /\ i - 1 \in 1..m
      BY <1>1, <2>7
    <3>2. f[k + 2] = g[(i - 1) - 1][1] /\ g[i - 1][2] = g[(i - 1) - 1][1]
      BY <1>4, <3>1
    <3>. HIDE DEF f, i
    <3>. QED  BY <2>3, <2>4, <2>7, <3>2 DEF w
  <2>. QED  BY <2>1, <2>5, <2>6, <2>7
<1>8. Falls(f, bytes)
  <2>1. f = [k \in 1..m + 2 |-> f[k]]
    BY <1>5
  <2>. HIDE DEF f
  <2>. QED  BY <1>6, <1>7, <2>1 DEF Falls, e
<1>9. ASSUME NEW h, Falls(h, bytes)  PROVE h = F(h)
  <2>1. /\ h = [i \in 1..m + 2 |-> h[i]] /\ h[m + 1] = 0 /\ h[m + 2] = 0
        /\ \A i \in 1..m : h[i] = e(i) + h[i + Width(bytes[i])]
    BY <1>9 DEF Falls, e
  <2>2. ASSUME NEW i \in 1..m + 2
        PROVE  h[i] = IF i > m THEN 0 ELSE e(i) + h[i + Width(bytes[i])]
    <3>1. i \in 1..m \/ i = m + 1 \/ i = m + 2
      BY <1>1
    <3>2. i > m <=> i \notin 1..m
      BY <1>1
    <3>. QED  BY <2>1, <3>1, <3>2
  <2>3. F(h) = [i \in 1..m + 2 |-> IF i > m THEN 0 ELSE e(i) + h[i + Width(bytes[i])]]
    BY DEF e
  <2>. HIDE DEF F, m
  <2>. QED  BY <2>1, <2>2, <2>3
<1>10. from = F(from)
  <2>1. f = F(f)
    <3>. HIDE DEF f, F
    <3>. QED  BY <1>8, <1>9
  <2>. HIDE DEF f, F
  <2>. QED  BY <2>1
<1>11. Falls(from, bytes)
  <2>1. from = [i \in 1..m + 2 |-> IF i > m THEN 0 ELSE e(i) + from[i + Width(bytes[i])]]
    BY <1>10 DEF e
  <2>2. /\ m + 1 \in 1..m + 2 /\ m + 1 > m /\ m + 2 \in 1..m + 2 /\ m + 2 > m
        /\ \A i \in 1..m : i \in 1..m + 2 /\ ~(i > m)
    BY <1>1
  <2>. HIDE DEF from
  <2>3. \A i \in 1..m + 2 : from[i] = IF i > m THEN 0 ELSE e(i) + from[i + Width(bytes[i])]
    BY <2>1
  <2>4. from = [i \in 1..m + 2 |-> from[i]]
    BY <2>1
  <2>. HIDE DEF f, F
  <2>. QED  BY <2>2, <2>3, <2>4 DEF Falls, e
<1>12. HeightFrom(bytes) = from
  BY DEF HeightFrom
<1>13. from = f
  <2>. HIDE DEF from, f
  <2>. QED  BY <1>1, <1>8, <1>11, FallsOnce
<1>. QED  BY <1>5, <1>8, <1>12, <1>13

LEMMA HeightIs == \A bytes : Height(bytes) = HeightFrom(bytes)[1]
BY DEF Height, HeightFrom

\* One instruction more: the height behind each instruction moves by its effect.
LEMMA InstructionEffect ==
  ASSUME NEW c, NEW nc, NEW nv, CodeOK(c, nc, nv), NEW instr \in Seq(Bytes),
         instr # <<>>, Len(instr) = Width(instr[1]),
         NEW e \in Int, e = Effect(instr[1], IF Len(instr) = 2 THEN instr[2] ELSE 0)
  PROVE  \A i \in InstructionStarts(c) : HeightFrom(c \o instr)[i] = HeightFrom(c)[i] + e
<1>. DEFINE n == Len(c)
            w == Len(instr)
            d == c \o instr
            A == InstructionStarts(c)
            f == HeightFrom(c)
            g == HeightFrom(d)
            D == {x \in Nat : \E i \in A : i = n + 1 - x /\ g[i] # f[i] + e}
<1>1. c \in Seq(Bytes) /\ WellFormed(c, nc, nv) /\ A \subseteq 1..n + 1
  BY DEF CodeOK, WellFormed
<1>2. n \in Nat /\ w \in {1, 2}
  BY <1>1, LenProperties, WidthType
<1>3. /\ d \in Seq(Bytes) /\ Len(d) = n + w
      /\ \A i \in 1..n : d[i] = c[i]
      /\ d[n + 1] = instr[1] /\ (w = 2 => d[n + 2] = instr[2])
  BY <1>1, <1>2, ConcatProperties
<1>4. Falls(f, c) /\ Falls(g, d) /\ f \in [1..n + 2 -> Int] /\ g \in [1..n + w + 2 -> Int]
  <2>1. f \in [1..Len(c) + 2 -> Int] /\ g \in [1..Len(d) + 2 -> Int] /\ Falls(f, c) /\ Falls(g, d)
    BY <1>1, <1>3, HeightFalls
  <2>. HIDE DEF f, g, d
  <2>. QED  BY <1>3, <2>1
<1>5. \A i \in A : i <= n =>
        i \in 1..n /\ i + Width(c[i]) <= n + 1 /\ i + Width(c[i]) \in A /\ OperandAt(d, i) = OperandAt(c, i)
  <2>. SUFFICES ASSUME NEW i \in A, i <= n
                PROVE  i \in 1..n /\ i + Width(c[i]) <= n + 1 /\ i + Width(c[i]) \in A
                       /\ OperandAt(d, i) = OperandAt(c, i)
    OBVIOUS
  <2>1. i \in 1..n /\ i + Width(c[i]) <= n + 1
    BY <1>1, InstructionFits
  <2>2. Width(c[i]) \in {1, 2} /\ (Width(c[i]) = 2 <=> c[i] \in OperandOps)
    BY WidthType
  <2>3. i + Width(c[i]) \in A
    <3>1. StopsAt(A, c)
      BY <1>1, StartsEquation
    <3>2. i + Width(c[i]) \in 1..n + 2
      BY <1>2, <2>1, <2>2
    <3>. HIDE DEF A
    <3>. QED  BY <2>1, <3>1, <3>2 DEF StopsAt
  <2>4. OperandAt(d, i) = OperandAt(c, i)
    <3>1. CASE c[i] \in OperandOps
      <4>1. i + 1 \in 1..n /\ i < n /\ i < n + w
        BY <1>2, <2>1, <2>2, <3>1
      <4>. HIDE DEF d
      <4>. QED  BY <1>3, <2>1, <3>1, <4>1 DEF OperandAt
    <3>2. CASE c[i] \notin OperandOps
      <4>. HIDE DEF d
      <4>. QED  BY <1>3, <2>1, <3>2 DEF OperandAt
    <3>. QED  BY <3>1, <3>2
  <2>. QED  BY <2>1, <2>3, <2>4
<1>6. f[n + 1] = 0 /\ g[n + 1] = e
  <2>1. f[n + 1] = 0
    BY <1>4 DEF Falls
  <2>2. OperandAt(d, n + 1) = IF w = 2 THEN instr[2] ELSE 0
    <3>1. w = 2 <=> instr[1] \in OperandOps
      BY WidthType
    <3>2. n + 1 < n + w <=> w = 2
      BY <1>2
    <3>. HIDE DEF d, w, n
    <3>. QED  BY <1>2, <1>3, <3>1, <3>2 DEF OperandAt
  <2>3. n + 1 \in 1..Len(d) /\ g[(n + 1) + w] = 0
    <3>1. g[Len(d) + 1] = 0
      BY <1>4 DEF Falls
    <3>2. (n + 1) + w = (n + w) + 1 /\ n + 1 \in 1..n + w
      BY <1>2
    <3>. HIDE DEF d, w, n, g
    <3>. QED  BY <1>3, <3>1, <3>2
  <2>4. g[n + 1] = Effect(d[n + 1], OperandAt(d, n + 1)) + g[(n + 1) + Width(d[n + 1])]
    <3>. HIDE DEF d, g
    <3>. QED  BY <1>4, <2>3 DEF Falls
  <2>. HIDE DEF d, g, n
  <2>. QED  BY <1>3, <2>1, <2>2, <2>3, <2>4
<1>. HIDE DEF A, d, f, g
<1>7. ASSUME D # {}  PROVE FALSE
  <2>1. PICK x \in D : \A y \in D : x <= y
    <3>1. D \subseteq Nat
      OBVIOUS
    <3>. HIDE DEF D
    <3>. QED  BY <1>7, <3>1, LeastMember
  <2>2. PICK i \in A : i = n + 1 - x /\ g[i] # f[i] + e
    OBVIOUS
  <2>3. x \in Nat /\ i \in 1..n + 1
    BY <1>1
  <2>4. CASE i = n + 1
    BY <1>6, <2>2, <2>4
  <2>5. CASE i # n + 1
    <3>. DEFINE v == Width(c[i])
                j == i + v
    <3>1. i <= n
      BY <1>2, <2>3, <2>5
    <3>2. i \in 1..n /\ j <= n + 1 /\ j \in A /\ OperandAt(d, i) = OperandAt(c, i) /\ d[i] = c[i]
      BY <1>3, <1>5, <3>1
    <3>3. v \in {1, 2}
      BY WidthType
    <3>4. x - v \in Nat /\ j = n + 1 - (x - v) /\ ~(x <= x - v)
      <4>1. j \in Int
        BY <3>2, <3>3
      <4>. HIDE DEF v
      <4>. QED  BY <1>2, <2>2, <2>3, <3>2, <3>3, <4>1
    <3>5. g[j] = f[j] + e
      <4>1. x - v \notin D
        <5>. HIDE DEF D, v
        <5>. QED  BY <2>1, <3>4
      <4>. HIDE DEF v, j
      <4>. QED  BY <3>2, <3>4, <4>1
    <3>6. f[i] = Effect(c[i], OperandAt(c, i)) + f[j]
      BY <1>4, <3>2 DEF Falls
    <3>7. g[i] = Effect(d[i], OperandAt(d, i)) + g[i + Width(d[i])]
      <4>1. i \in 1..Len(d)
        BY <1>2, <1>3, <3>2
      <4>. QED  BY <1>4, <4>1 DEF Falls
    <3>8. f[j] \in Int /\ f[i] \in Int /\ g[i] = Effect(c[i], OperandAt(c, i)) + g[j]
      <4>1. j \in 1..n + 2 /\ i \in 1..n + 2
        BY <1>2, <3>2, <3>3
      <4>2. f[j] \in Int /\ f[i] \in Int
        <5>. HIDE DEF j, n
        <5>. QED  BY <1>4, <4>1
      <4>. QED  BY <3>2, <3>7, <4>2
    <3>9. Effect(c[i], OperandAt(c, i)) \in Int
      <4>1. OperandAt(c, i) \in Int
        <5>1. Bytes \subseteq Int
          BY OpcodesAreBytes, BoundsAssumption DEF Bytes
        <5>2. i < n => i + 1 \in 1..n
          BY <1>2, <3>2
        <5>3. i < n => c[i + 1] \in Int
          BY <1>1, <5>1, <5>2, ElementOfSeq
        <5>. QED  BY <5>3 DEF OperandAt
      <4>. QED  BY <4>1, EffectType
    <3>. DEFINE eff == Effect(c[i], OperandAt(c, i))
    <3>. HIDE DEF eff, j
    <3>10. g[i] = eff + (f[j] + e) /\ f[i] = eff + f[j] /\ eff \in Int /\ f[j] \in Int
      BY <3>5, <3>6, <3>8, <3>9 DEF eff
    <3>. QED  BY <2>2, <3>10
  <2>. QED  BY <2>4, <2>5
<1>8. ASSUME NEW i \in A  PROVE g[i] = f[i] + e
  <2>1. n + 1 - i \in Nat /\ i = n + 1 - (n + 1 - i)
    BY <1>1, <1>2
  <2>. QED  BY <1>7, <2>1
<1>. QED  BY <1>8 DEF A, f, g, d

LEMMA HeightType ==
  ASSUME NEW c, NEW nc, NEW nv, CodeOK(c, nc, nv)
  PROVE  Height(c) \in Int /\ Height(c) = HeightFrom(c)[1] /\ 1 \in InstructionStarts(c)
<1>1. c \in Seq(Bytes) /\ Len(c) \in Nat
  BY LenProperties DEF CodeOK
<1>2. HeightFrom(c) \in [1..Len(c) + 2 -> Int] /\ StopsAt(InstructionStarts(c), c)
  BY <1>1, HeightFalls, StartsEquation
<1>3. 1 \in 1..Len(c) + 2
  BY <1>1
<1>4. 1 \in InstructionStarts(c)
  BY <1>2, <1>3 DEF StopsAt
<1>. QED  BY <1>2, <1>3, <1>4, HeightIs

LEMMA HeightEmpty == Height(<<>>) = 0
<1>1. <<>> \in Seq(Bytes) /\ Len(<<>>) = 0
  OBVIOUS
<1>2. Falls(HeightFrom(<<>>), <<>>)
  BY <1>1, HeightFalls
<1>. QED  BY <1>1, <1>2, HeightIs DEF Falls

LEMMA HeightPlain ==
  ASSUME NEW c, NEW nc \in Nat, NEW nv \in Nat, CodeOK(c, nc, nv), NEW op \in Opcodes \ OperandOps
  PROVE  /\ Height(c \o <<op>>) = Height(c) + Effect(op, 0)
         /\ Effect(op, 0) \in Int
<1>. DEFINE instr == <<op>>
            e == Effect(op, 0)
<1>1. /\ instr \in Seq(Bytes) /\ instr # <<>> /\ instr[1] = op /\ Len(instr) = 1
  BY OpcodesAreBytes
<1>2. Width(op) = 1 /\ e \in Int
  BY WidthType, EffectType
<1>. HIDE DEF instr
<1>3. e = Effect(instr[1], IF Len(instr) = 2 THEN instr[2] ELSE 0)
  BY <1>1
<1>. HIDE DEF e
<1>4. \A i \in InstructionStarts(c) : HeightFrom(c \o instr)[i] = HeightFrom(c)[i] + e
  BY <1>1, <1>2, <1>3, InstructionEffect
<1>5. Height(c \o instr) = Height(c) + e
  BY <1>4, HeightType, HeightIs
<1>. QED  BY <1>2, <1>5 DEF instr, e

LEMMA HeightOperand ==
  ASSUME NEW c, NEW nc \in Nat, NEW nv \in Nat, CodeOK(c, nc, nv),
         NEW op \in OperandOps, NEW operand \in 0..UINT8_MAX
  PROVE  /\ Height(c \o <<op, operand>>) = Height(c) + Effect(op, operand)
         /\ Effect(op, operand) \in Int
<1>. DEFINE instr == <<op, operand>>
            e == Effect(op, operand)
<1>1. op \in Opcodes
  BY OpValues DEF OperandOps, LocalOps
<1>2. /\ instr \in Seq(Bytes) /\ instr # <<>> /\ instr[1] = op /\ instr[2] = operand /\ Len(instr) = 2
  BY <1>1, OpcodesAreBytes DEF Bytes
<1>3. Width(op) = 2 /\ e \in Int
  <2>1. operand \in Int
    BY BoundsAssumption
  <2>. QED  BY <2>1, WidthType, EffectType
<1>. HIDE DEF instr
<1>4. e = Effect(instr[1], IF Len(instr) = 2 THEN instr[2] ELSE 0)
  BY <1>2
<1>. HIDE DEF e
<1>5. \A i \in InstructionStarts(c) : HeightFrom(c \o instr)[i] = HeightFrom(c)[i] + e
  BY <1>2, <1>3, <1>4, InstructionEffect
<1>6. Height(c \o instr) = Height(c) + e
  BY <1>5, HeightType, HeightIs
<1>. QED  BY <1>3, <1>6 DEF instr, e

LEMMA HeightPops ==
  ASSUME NEW c, NEW nc \in Nat, NEW nv \in Nat, CodeOK(c, nc, nv)
  PROVE  \A k \in Nat : Height(c \o [i \in 1..k |-> Op.Pop]) = Height(c) - k
<1>. DEFINE pops(k) == [i \in 1..k |-> Op.Pop]
            U == {k \in Nat : Height(c \o pops(k)) = Height(c) - k}
<1>0. /\ c \in Seq(Bytes) /\ Op.Pop \in Bytes /\ Op.Pop \in Opcodes \ OperandOps
      /\ \A k \in Nat : CodeOK(c \o pops(k), nc, nv)
      /\ Height(c) \in Int
  BY OpValues, PlainOps, OpcodesAreBytes, AppendPops, HeightType DEF CodeOK
<1>1. 0 \in U
  <2>1. pops(0) = <<>>
    OBVIOUS
  <2>2. c \o <<>> = c
    BY <1>0
  <2>3. Height(c \o pops(0)) = Height(c) - 0
    <3>1. c \o pops(0) = c
      BY <2>1, <2>2, Zenon
    <3>2. Height(c) - 0 = Height(c)
      <4>. HIDE DEF pops
      <4>. QED  BY <1>0
    <3>. HIDE DEF pops
    <3>. QED  BY <3>1, <3>2
  <2>4. 0 \in Nat
    OBVIOUS
  <2>. HIDE DEF pops
  <2>. QED  BY <2>3, <2>4
<1>2. ASSUME NEW k \in Nat, k \in U  PROVE k + 1 \in U
  <2>. DEFINE p == pops(k)
              longer == pops(k + 1)
  <2>1. p \in Seq(Bytes) /\ longer = p \o <<Op.Pop>>
    BY <1>0
  <2>. HIDE DEF p, longer, pops
  <2>2. c \o longer = (c \o p) \o <<Op.Pop>>
    <3>1. <<Op.Pop>> \in Seq(Bytes) /\ c \in Seq(Bytes)
      BY <1>0
    <3>2. c \o (p \o <<Op.Pop>>) = (c \o p) \o <<Op.Pop>>
      BY <2>1, <3>1
    <3>. QED  BY <2>1, <3>2
  <2>3. CodeOK(c \o p, nc, nv)
    BY <1>0 DEF p
  <2>4. Height((c \o p) \o <<Op.Pop>>) = Height(c \o p) + Effect(Op.Pop, 0)
    BY <1>0, <2>3, HeightPlain
  <2>5. Effect(Op.Pop, 0) = -1
    BY DEF Effect, Pushes, Pops, Op, ArithmeticOps
  <2>6. Height(c \o p) = Height(c) - k
    BY <1>2 DEF p
  <2>7. Height(c \o longer) = Height(c) - (k + 1)
    <3>1. Height(c \o longer) = Height(c) - k + -1
      BY <2>2, <2>4, <2>5, <2>6
    <3>. QED  BY <1>0, <3>1
  <2>8. k + 1 \in Nat /\ Height(c \o pops(k + 1)) = Height(c) - (k + 1)
    BY <2>7 DEF longer
  <2>. QED  BY <2>8
<1>3. \A k \in Nat : k \in U
  <2>. HIDE DEF U
  <2>. QED  BY <1>1, <1>2, NatSetInduction
<1>. QED  BY <1>3

-----------------------------------------------------------------------------
\* What a step does to the pending calls.

\* The effects of the opcodes that the compiler names.
LEMMA EffectValues ==
  /\ \A op \in ArithmeticOps \union {Op.Range, Op.GetElement} : Effect(op, 0) = -1 /\ Pushes(op) = 1
  /\ \A op \in {Op.Nil, Op.False, Op.True} : Effect(op, 0) = 1 /\ Pushes(op) = 1
  /\ \A op \in {Op.Pop, Op.Return} : Effect(op, 0) = -1 /\ Pushes(op) = 0
  /\ Effect(Op.Neg, 0) = 0 /\ Pushes(Op.Neg) = 1
  /\ \A n : \A op \in {Op.LocalRef, Op.GetLocal, Op.GetLocalByRef, Op.Int, Op.Const} : Effect(op, n) = 1
  /\ \A n : \A op \in {Op.SetLocal, Op.SetLocalByRef} : Effect(op, n) = -1
  /\ \A n \in Int : Effect(Op.Array, n) = 1 - n
BY DEF Effect, Pushes, Pops, Op, ArithmeticOps

\* What the kinds of calls leave, and what they ask of those behind them.
LEMMA CallKinds ==
  ASSUME NEW item \in AllCalls, NEW b \in Int
  PROVE  /\ item.fn \in Value1 => Net(item) = 1 /\ (Settled(item, b) <=> b <= -1)
         /\ item.fn \in Store1 => Net(item) = -1 /\ (Settled(item, b) <=> b = 0)
         /\ item.fn \in {"addLoop", "mulLoop", "range", "indexLoop"} =>
              Net(item) = 0 /\ (Settled(item, b) <=> b <= -1)
         /\ item.fn = "consume" => Net(item) = 0 /\ (Settled(item, b) <=> b <= 0)
         /\ item.fn \in StatementCall \ Store1 => Net(item) = 0 /\ (Settled(item, b) <=> b = 0)
         /\ item.fn \in {"emit", "operator"} =>
              Net(item) = Effect(item.n, 0) /\ (Settled(item, b) <=> b <= -Pushes(item.n))
         /\ item.fn \in {"arrayLoop", "arrayEnd"} =>
              Net(item) = 1 - item.n /\ (Settled(item, b) <=> b <= -1)
<1>1. item.n \in Int /\ Net(item) \in Int /\ Needs(item) \in Int
  BY NetType
<1>2. CASE item.fn \in Value1
  <2>1. Net(item) = 1 /\ Needs(item) = 0 /\ item.fn \notin StatementCall \union Store1
    BY <1>2 DEF Net, Needs, Value1, Store1, StatementCall
  <2>2. item.fn \notin {"addLoop", "mulLoop", "range", "indexLoop", "consume", "emit", "operator",
                        "arrayLoop", "arrayEnd"}
    BY <1>2 DEF Value1
  <2>. QED  BY <2>1, <2>2 DEF Settled
<1>3. CASE item.fn \in Store1
  <2>1. Net(item) = -1 /\ Needs(item) = 1 /\ item.fn \in StatementCall /\ item.fn \notin Value1
    BY <1>3 DEF Net, Needs, Value1, Store1, StatementCall
  <2>2. item.fn \notin {"addLoop", "mulLoop", "range", "indexLoop", "consume", "emit", "operator",
                        "arrayLoop", "arrayEnd"}
    BY <1>3 DEF Store1
  <2>. QED  BY <1>3, <2>1, <2>2 DEF Settled
<1>4. CASE item.fn \in StatementCall \ Store1
  <2>1. Net(item) = 0 /\ Needs(item) = 0 /\ item.fn \notin Value1
    BY <1>4 DEF Net, Needs, Value1, Store1, StatementCall
  <2>2. item.fn \notin {"addLoop", "mulLoop", "range", "indexLoop", "consume", "emit", "operator",
                        "arrayLoop", "arrayEnd"}
    BY <1>4 DEF StatementCall
  <2>. QED  BY <1>4, <2>1, <2>2 DEF Settled
<1>5. CASE item.fn \in {"addLoop", "mulLoop", "range", "indexLoop"}
  <2>1. /\ Net(item) = 0 /\ Needs(item) = 1 /\ item.fn \notin Value1 \union StatementCall \union Store1
        /\ item.fn \notin {"consume", "emit", "operator", "arrayLoop", "arrayEnd"}
    BY <1>5 DEF Net, Needs, Value1, Store1, StatementCall
  <2>. QED  BY <1>5, <2>1 DEF Settled
<1>6. CASE item.fn = "consume"
  <2>1. Net(item) = 0 /\ Needs(item) = 0 /\ item.fn \notin Value1 \union StatementCall \union Store1
    BY <1>6 DEF Net, Needs, Value1, Store1, StatementCall
  <2>. QED  BY <1>6, <2>1 DEF Settled
<1>7. CASE item.fn \in {"emit", "operator"}
  <2>1. /\ Net(item) = Effect(item.n, 0) /\ Needs(item) = Pops(item.n, 0)
        /\ item.fn \notin Value1 \union StatementCall \union Store1
        /\ item.fn \notin {"addLoop", "mulLoop", "range", "indexLoop", "consume", "arrayLoop", "arrayEnd"}
    BY <1>7 DEF Net, Needs, Value1, Store1, StatementCall
  <2>2. Pops(item.n, 0) \in Int /\ Pushes(item.n) \in Int
    BY EffectType
  <2>3. Needs(item) + Net(item) = Pushes(item.n)
    BY <2>1, <2>2 DEF Effect
  <2>. HIDE DEF Effect
  <2>. QED  BY <1>7, <2>1, <2>2, <2>3 DEF Settled
<1>8. CASE item.fn \in {"arrayLoop", "arrayEnd"}
  <2>1. /\ Net(item) = 1 - item.n /\ Needs(item) = item.n
        /\ item.fn \notin Value1 \union StatementCall \union Store1
        /\ item.fn \notin {"addLoop", "mulLoop", "range", "indexLoop", "consume", "emit", "operator"}
    BY <1>8 DEF Net, Needs, Value1, Store1, StatementCall
  <2>. QED  BY <1>1, <1>8, <2>1 DEF Settled
<1>. QED  BY <1>2, <1>3, <1>4, <1>5, <1>6, <1>7, <1>8

\* The first pending call, and those behind it.
LEMMA HeadSettled ==
  ASSUME TypeOK, todo # <<>>, AllSettled(todo)
  PROVE  /\ Head(todo) \in AllCalls /\ Tail(todo) \in Seq(AllCalls)
         /\ Total(Tail(todo)) \in Int /\ Net(Head(todo)) \in Int
         /\ Total(todo) = Net(Head(todo)) + Total(Tail(todo))
         /\ Settled(Head(todo), Total(Tail(todo)))
         /\ AllSettled(Tail(todo))
<1>1. todo \in Seq(AllCalls)
  BY AllCallsType
<1>2. Head(todo) \in AllCalls /\ Tail(todo) \in Seq(AllCalls) /\ todo = <<Head(todo)>> \o Tail(todo)
  BY <1>1
<1>. DEFINE h == Head(todo)
            t == Tail(todo)
<1>. HIDE DEF h, t
<1>3. h \in AllCalls /\ t \in Seq(AllCalls) /\ todo = <<h>> \o t
  BY <1>2 DEF h, t
<1>4. Total(t) \in Int /\ Total(todo) = Net(h) + Total(t) /\ (AllSettled(todo) <=> Settled(h, Total(t)) /\ AllSettled(t))
  BY <1>3, FrontCall
<1>. QED  BY <1>3, <1>4, NetType DEF h, t

\* Sequences of two and three.
LEMMA PairAppended ==
  ASSUME NEW S, NEW a \in S, NEW b \in S, NEW s \in Seq(S)
  PROVE  s \o <<a, b>> = (s \o <<a>>) \o <<b>>
<1>. DEFINE p == <<a, b>>
            q == <<a>>
            r == <<b>>
<1>1. p \in Seq(S) /\ q \in Seq(S) /\ r \in Seq(S) /\ p = Append(q, b)
  OBVIOUS
<1>2. Append(q, b) = q \o r
  <2>. HIDE DEF q
  <2>. QED  BY <1>1
<1>. HIDE DEF p, q, r
<1>3. (s \o q) \o r = s \o (q \o r)
  BY <1>1
<1>4. s \o p = (s \o q) \o r
  BY <1>1, <1>2, <1>3
<1>. QED  BY <1>4 DEF p, q, r

LEMMA OneAndTwo ==
  ASSUME NEW S, NEW a \in S, NEW b \in S, NEW c \in S
  PROVE  <<a>> \o <<b, c>> = <<a, b, c>>
<1>. DEFINE p == <<a>>
            q == <<b, c>>
            r == <<a, b, c>>
<1>1. /\ p \in Seq(S) /\ Len(p) = 1 /\ p[1] = a
      /\ q \in Seq(S) /\ Len(q) = 2 /\ q[1] = b /\ q[2] = c
      /\ r \in Seq(S) /\ Len(r) = 3 /\ r[1] = a /\ r[2] = b /\ r[3] = c
  OBVIOUS
<1>. HIDE DEF p, q, r
<1>2. /\ p \o q \in Seq(S) /\ Len(p \o q) = Len(p) + Len(q)
      /\ \A i \in 1..Len(p) + Len(q) : (p \o q)[i] = IF i <= Len(p) THEN p[i] ELSE q[i - Len(p)]
  BY <1>1, ConcatProperties
<1>3. /\ Len(p \o q) = 3
      /\ \A i \in 1..3 : (p \o q)[i] = IF i <= 1 THEN p[i] ELSE q[i - 1]
  BY <1>1, <1>2
<1>4. (p \o q)[1] = a /\ (p \o q)[2] = b /\ (p \o q)[3] = c
  BY <1>1, <1>3
<1>5. \A i \in 1..3 : (p \o q)[i] = r[i]
  <2>1. \A i \in 1..3 : i = 1 \/ i = 2 \/ i = 3
    OBVIOUS
  <2>. QED  BY <1>1, <1>4, <2>1
<1>6. p \o q = r
  BY <1>1, <1>2, <1>3, <1>5, SeqEqual
<1>. QED  BY <1>6 DEF p, q, r

\* The calls that a step makes, by their number.
LEMMA NoneCalled ==
  ASSUME NEW t \in Seq(AllCalls)
  PROVE  <<>> \o t = t
OBVIOUS

LEMMA OneCalled ==
  ASSUME NEW t \in Seq(AllCalls), AllSettled(t), NEW a \in AllCalls
  PROVE  /\ Total(<<a>> \o t) = Net(a) + Total(t)
         /\ AllSettled(<<a>> \o t) <=> Settled(a, Total(t))
BY FrontCall

LEMMA TwoCalled ==
  ASSUME NEW t \in Seq(AllCalls), AllSettled(t), NEW a \in AllCalls, NEW b \in AllCalls
  PROVE  /\ Total(<<a, b>> \o t) = Net(a) + Net(b) + Total(t)
         /\ AllSettled(<<a, b>> \o t) <=> Settled(a, Net(b) + Total(t)) /\ Settled(b, Total(t))
<1>. DEFINE u == <<b>> \o t
<1>1. <<a, b>> \o t = <<a>> \o (<<b>> \o t)
  <2>. DEFINE p == <<a, b>>
              q == <<a>>
              r == <<b>>
  <2>1. p \in Seq(AllCalls) /\ q \in Seq(AllCalls) /\ r \in Seq(AllCalls) /\ p = Append(q, b)
    OBVIOUS
  <2>2. Append(q, b) = q \o r
    <3>. HIDE DEF q
    <3>. QED  BY <2>1
  <2>. HIDE DEF p, q, r
  <2>3. (q \o r) \o t = q \o (r \o t)
    BY <2>1
  <2>4. p \o t = q \o (r \o t)
    BY <2>1, <2>2, <2>3
  <2>. QED  BY <2>4 DEF p, q, r
<1>2. /\ u \in Seq(AllCalls) /\ Total(t) \in Int /\ Total(u) = Net(b) + Total(t)
      /\ AllSettled(u) <=> Settled(b, Total(t))
  BY FrontCall
<1>3. Net(a) \in Int /\ Net(b) \in Int
  BY NetType
<1>. HIDE DEF u
<1>4. Total(<<a>> \o u) = Net(a) + Total(u) /\ (AllSettled(<<a>> \o u) <=> Settled(a, Total(u)) /\ AllSettled(u))
  BY <1>2, FrontCall
<1>5. Total(<<a>> \o u) = Net(a) + Net(b) + Total(t)
  BY <1>2, <1>3, <1>4
<1>. QED  BY <1>1, <1>2, <1>4, <1>5 DEF u

LEMMA ThreeCalled ==
  ASSUME NEW t \in Seq(AllCalls), AllSettled(t), NEW a \in AllCalls, NEW b \in AllCalls, NEW c \in AllCalls
  PROVE  /\ Total(<<a, b, c>> \o t) = Net(a) + Net(b) + Net(c) + Total(t)
         /\ AllSettled(<<a, b, c>> \o t) <=>
              /\ Settled(a, Net(b) + Net(c) + Total(t)) /\ Settled(b, Net(c) + Total(t))
              /\ Settled(c, Total(t))
<1>. DEFINE u == <<b, c>> \o t
<1>1. <<a, b, c>> \o t = <<a>> \o (<<b, c>> \o t)
  OBVIOUS
<1>2. /\ Total(u) = Net(b) + Net(c) + Total(t)
      /\ AllSettled(u) <=> Settled(b, Net(c) + Total(t)) /\ Settled(c, Total(t))
  BY TwoCalled
<1>3. Net(a) \in Int /\ Net(b) \in Int /\ Net(c) \in Int /\ Total(t) \in Int
  BY NetType, FrontCall
<1>4. u \in Seq(AllCalls)
  OBVIOUS
<1>. HIDE DEF u
<1>5. Total(<<a>> \o u) = Net(a) + Total(u) /\ (AllSettled(<<a>> \o u) <=> Settled(a, Total(u)) /\ AllSettled(u))
  BY <1>4, FrontCall
<1>6. Total(<<a>> \o u) = Net(a) + Net(b) + Net(c) + Total(t)
  BY <1>2, <1>3, <1>5
<1>. QED  BY <1>1, <1>2, <1>5, <1>6 DEF u

LEMMA FourCalled ==
  ASSUME NEW t \in Seq(AllCalls), AllSettled(t), NEW a \in AllCalls, NEW b \in AllCalls, NEW c \in AllCalls,
         NEW d \in AllCalls
  PROVE  /\ Total(<<a, b, c, d>> \o t) = Net(a) + Net(b) + Net(c) + Net(d) + Total(t)
         /\ AllSettled(<<a, b, c, d>> \o t) <=>
              /\ Settled(a, Net(b) + Net(c) + Net(d) + Total(t)) /\ Settled(b, Net(c) + Net(d) + Total(t))
              /\ Settled(c, Net(d) + Total(t)) /\ Settled(d, Total(t))
<1>. DEFINE u == <<b, c, d>> \o t
<1>1. <<a, b, c, d>> \o t = <<a>> \o (<<b, c, d>> \o t)
  OBVIOUS
<1>2. /\ Total(u) = Net(b) + Net(c) + Net(d) + Total(t)
      /\ AllSettled(u) <=> /\ Settled(b, Net(c) + Net(d) + Total(t)) /\ Settled(c, Net(d) + Total(t))
                      /\ Settled(d, Total(t))
  BY ThreeCalled
<1>3. Net(a) \in Int /\ Net(b) \in Int /\ Net(c) \in Int /\ Net(d) \in Int /\ Total(t) \in Int
  BY NetType, FrontCall
<1>4. u \in Seq(AllCalls)
  OBVIOUS
<1>. HIDE DEF u
<1>5. Total(<<a>> \o u) = Net(a) + Total(u) /\ (AllSettled(<<a>> \o u) <=> Settled(a, Total(u)) /\ AllSettled(u))
  BY <1>4, FrontCall
<1>6. Total(<<a>> \o u) = Net(a) + Net(b) + Net(c) + Net(d) + Total(t)
  BY <1>2, <1>3, <1>5
<1>. QED  BY <1>1, <1>2, <1>5, <1>6 DEF u

-----------------------------------------------------------------------------
\* Every step keeps the balance.

\* No array literal has had more elements than a byte can count: one that has
\* passes through the count 0.
ArraysCounted == \A k \in DOMAIN todo : todo[k].fn = "arrayLoop" => todo[k].n >= 1

Behind == Total(Tail(todo))

\* What the code leaves and the pending calls will change it by, taken together,
\* stays what it is; and the pending calls stay ready.
KeepsBalance == AllSettled(todo') /\ Height(code') + Total(todo') = Height(code) + Total(todo)

\* What the pending calls are that the functions of the compiler make.
LEMMA PlainKinds ==
  ASSUME NEW call \in AllCalls
  PROVE  /\ call.fn \in {"expr", "add", "mul", "unary", "prim", "int", "number", "whole", "string",
                         "array", "ref", "refTo", "variable"} =>
              Net(call) = 1 /\ \A b \in Int : Settled(call, b) <=> b <= -1
         /\ call.fn \in {"range", "addLoop", "mulLoop", "indexLoop"} =>
              Net(call) = 0 /\ \A b \in Int : Settled(call, b) <=> b <= -1
         /\ call.fn = "consume" => Net(call) = 0 /\ \A b \in Int : Settled(call, b) <=> b <= 0
         /\ call.fn \in {"init", "chunk", "stmt", "let", "letValue", "inout", "return", "pushScope",
                         "block", "popScope"} =>
              Net(call) = 0 /\ \A b \in Int : Settled(call, b) <=> b = 0
         /\ call.fn \in {"define", "defineInout", "assign"} =>
              Net(call) = -1 /\ \A b \in Int : Settled(call, b) <=> b = 0
         /\ call.fn \in {"emit", "operator"} =>
              Net(call) = Effect(call.n, 0) /\ \A b \in Int : Settled(call, b) <=> b <= -Pushes(call.n)
         /\ call.fn \in {"arrayLoop", "arrayEnd"} =>
              Net(call) = 1 - call.n /\ \A b \in Int : Settled(call, b) <=> b <= -1
<1>1. /\ {"expr", "add", "mul", "unary", "prim", "int", "number", "whole", "string",
          "array", "ref", "refTo", "variable"} = Value1
      /\ {"define", "defineInout", "assign"} = Store1
      /\ {"init", "chunk", "stmt", "let", "letValue", "inout", "return", "pushScope",
          "block", "popScope"} = StatementCall \ Store1
  BY DEF Value1, Store1, StatementCall
<1>2. 0 \in Int
  OBVIOUS
<1>. QED  BY <1>1, <1>2, CallKinds

\* The first pending call is what is going on.
LEMMA AtHead ==
  ASSUME TypeOK, todo # <<>>, AllSettled(todo)
  PROVE  /\ Head(todo) \in AllCalls /\ Tail(todo) \in Seq(AllCalls) /\ Behind \in Int
         /\ Net(Head(todo)) \in Int /\ Total(todo) = Net(Head(todo)) + Behind
         /\ Settled(Head(todo), Behind) /\ AllSettled(Tail(todo))
BY HeadSettled DEF Behind

\* How a step is shown to keep it, by the number of the calls it makes.
LEMMA KeptNone ==
  ASSUME TypeOK, todo # <<>>, AllSettled(todo), Call(<<>>), Height(code) \in Int,
         Height(code') = Height(code) + Net(Head(todo))
  PROVE  KeepsBalance
<1>1. todo' = Tail(todo)
  BY AtHead, NoneCalled DEF Call
<1>. QED  BY <1>1, AtHead DEF KeepsBalance, Behind

LEMMA KeptOne ==
  ASSUME TypeOK, todo # <<>>, AllSettled(todo), Height(code) \in Int,
         NEW a \in AllCalls, NEW e \in Int, Call(<<a>>), Height(code') = Height(code) + e,
         Net(a) + e = Net(Head(todo)), Settled(a, Behind)
  PROVE  KeepsBalance
<1>1. todo' = <<a>> \o Tail(todo) /\ Tail(todo) \in Seq(AllCalls) /\ AllSettled(Tail(todo))
  BY AtHead DEF Call
<1>2. Total(todo') = Net(a) + Behind /\ AllSettled(todo')
  BY <1>1, OneCalled DEF Behind
<1>3. Net(a) \in Int
  BY NetType
<1>. QED  BY <1>2, <1>3, AtHead DEF KeepsBalance

LEMMA KeptTwo ==
  ASSUME TypeOK, todo # <<>>, AllSettled(todo), Height(code) \in Int,
         NEW a \in AllCalls, NEW b \in AllCalls, NEW e \in Int, Call(<<a, b>>),
         Height(code') = Height(code) + e, Net(a) + Net(b) + e = Net(Head(todo)),
         Settled(a, Net(b) + Behind), Settled(b, Behind)
  PROVE  KeepsBalance
<1>. DEFINE t == Tail(todo)
<1>1. todo' = <<a, b>> \o t /\ t \in Seq(AllCalls) /\ AllSettled(t) /\ Behind = Total(t)
  BY AtHead DEF Call, Behind
<1>. HIDE DEF t
<1>2. Total(<<a, b>> \o t) = Net(a) + Net(b) + Behind /\ AllSettled(<<a, b>> \o t)
  BY <1>1, TwoCalled
<1>3. Net(a) \in Int /\ Net(b) \in Int
  BY NetType
<1>4. Total(todo') = Net(a) + Net(b) + Behind /\ AllSettled(todo')
  BY <1>1, <1>2, Zenon
<1>. QED  BY <1>3, <1>4, AtHead DEF KeepsBalance

LEMMA KeptThree ==
  ASSUME TypeOK, todo # <<>>, AllSettled(todo), Height(code) \in Int,
         NEW a \in AllCalls, NEW b \in AllCalls, NEW c \in AllCalls, Call(<<a, b, c>>),
         Height(code') = Height(code), Net(a) + Net(b) + Net(c) = Net(Head(todo)),
         Settled(a, Net(b) + Net(c) + Behind), Settled(b, Net(c) + Behind), Settled(c, Behind)
  PROVE  KeepsBalance
<1>. DEFINE t == Tail(todo)
<1>1. todo' = <<a, b, c>> \o t /\ t \in Seq(AllCalls) /\ AllSettled(t) /\ Behind = Total(t)
  BY AtHead DEF Call, Behind
<1>. HIDE DEF t
<1>2. Total(<<a, b, c>> \o t) = Net(a) + Net(b) + Net(c) + Behind /\ AllSettled(<<a, b, c>> \o t)
  BY <1>1, ThreeCalled
<1>3. Net(a) \in Int /\ Net(b) \in Int /\ Net(c) \in Int
  BY NetType
<1>4. Total(todo') = Net(a) + Net(b) + Net(c) + Behind /\ AllSettled(todo')
  BY <1>1, <1>2, Zenon
<1>. QED  BY <1>3, <1>4, AtHead DEF KeepsBalance

LEMMA KeptFour ==
  ASSUME TypeOK, todo # <<>>, AllSettled(todo), Height(code) \in Int,
         NEW a \in AllCalls, NEW b \in AllCalls, NEW c \in AllCalls, NEW d \in AllCalls,
         Call(<<a, b, c, d>>), Height(code') = Height(code),
         Net(a) + Net(b) + Net(c) + Net(d) = Net(Head(todo)),
         Settled(a, Net(b) + Net(c) + Net(d) + Behind), Settled(b, Net(c) + Net(d) + Behind),
         Settled(c, Net(d) + Behind), Settled(d, Behind)
  PROVE  KeepsBalance
<1>. DEFINE t == Tail(todo)
<1>1. todo' = <<a, b, c, d>> \o t /\ t \in Seq(AllCalls) /\ AllSettled(t) /\ Behind = Total(t)
  BY AtHead DEF Call, Behind
<1>. HIDE DEF t
<1>2. Total(<<a, b, c, d>> \o t) = Net(a) + Net(b) + Net(c) + Net(d) + Behind /\ AllSettled(<<a, b, c, d>> \o t)
  BY <1>1, FourCalled
<1>3. Net(a) \in Int /\ Net(b) \in Int /\ Net(c) \in Int /\ Net(d) \in Int
  BY NetType
<1>4. Total(todo') = Net(a) + Net(b) + Net(c) + Net(d) + Behind /\ AllSettled(todo')
  BY <1>1, <1>2, Zenon
<1>. QED  BY <1>3, <1>4, AtHead DEF KeepsBalance

\* A step without an error, of a compilation that emits code and is in balance.
Moving == TypeOK /\ SlotNumbering /\ CodeWhole /\ ~CheckOnly /\ rc = "Ok" /\ rc' = "Ok" /\ todo # <<>> /\ AllSettled(todo)

LEMMA MovingFacts ==
  ASSUME Moving
  PROVE  /\ CodeOK(code, Len(consts), Len(variables)) /\ Len(consts) \in Nat /\ Len(variables) \in Nat
         /\ Height(code) \in Int /\ Behind \in Int /\ Head(todo) \in AllCalls
         /\ Net(Head(todo)) \in Int /\ Settled(Head(todo), Behind)
<1>1. CodeOK(code, Len(consts), Len(variables)) /\ Len(consts) \in Nat /\ Len(variables) \in Nat
  BY LenProperties DEF Moving, CodeWhole, TypeOK, ChunkTypeOK, ScopeTypeOK
<1>. QED  BY <1>1, HeightType, AtHead DEF Moving

LEMMA EmitPlainHeight ==
  ASSUME Moving, NEW op \in Opcodes \ OperandOps, NEW items, EmitThen(<<op>>, items)
  PROVE  Height(code') = Height(code) + Effect(op, 0) /\ Effect(op, 0) \in Int /\ Call(items)
<1>. DEFINE bytes == <<op>>
<1>1. bytes \in Seq(Bytes) /\ Emit(bytes) /\ Call(items)
  BY OpcodesAreBytes DEF EmitThen
<1>2. code' = code \o bytes
  <2>. HIDE DEF bytes
  <2>. QED  BY <1>1, EmitWhole DEF TypeOK, Moving
<1>. QED  BY <1>1, <1>2, MovingFacts, HeightPlain

LEMMA EmitOperandHeight ==
  ASSUME Moving, NEW op \in OperandOps, NEW operand \in 0..UINT8_MAX, Emit(<<op, operand>>)
  PROVE  Height(code') = Height(code) + Effect(op, operand) /\ Effect(op, operand) \in Int
<1>. DEFINE bytes == <<op, operand>>
<1>1. bytes \in Seq(Bytes) /\ Emit(bytes)
  <2>1. op \in Bytes
    BY OpValues, OpcodesAreBytes DEF OperandOps, LocalOps
  <2>. QED  BY <2>1 DEF Bytes
<1>2. code' = code \o bytes
  <2>. HIDE DEF bytes
  <2>. QED  BY <1>1, EmitWhole DEF TypeOK, Moving
<1>. QED  BY <1>1, <1>2, MovingFacts, HeightOperand

LEMMA EmitConstantHeight ==
  ASSUME Moving, NEW v, NEW h, EmitConstant(v, h)
  PROVE  Height(code') = Height(code) + 1
<1>1. Emit(<<Op.Const, Byte(Len(consts))>>)
  BY DEF EmitConstant, Moving
<1>2. Byte(Len(consts)) \in 0..UINT8_MAX /\ Op.Const \in OperandOps
  BY ByteType, MovingFacts DEF OperandOps
<1>3. Effect(Op.Const, Byte(Len(consts))) = 1
  BY EffectValues
<1>. QED  BY <1>1, <1>2, <1>3, EmitOperandHeight

\* Both instructions for a variable have the same effect.
LEMMA UseVariableHeight ==
  ASSUME Moving, NEW name, NEW byRef \in LocalOps, NEW direct \in LocalOps, NEW items, NEW e \in Int,
         \A n : Effect(byRef, n) = e /\ Effect(direct, n) = e, UseVariable(name, byRef, direct, items)
  PROVE  Height(code') = Height(code) + e /\ Call(items)
<1>. DEFINE var == FoundVariable(name)
            op == IF var.isRef THEN byRef ELSE direct
<1>1. Candidates(name) # {} /\ EmitThen(<<op, var.index>>, items)
  BY DEF UseVariable, Moving
<1>2. var.index \in 0..UINT8_MAX
  BY <1>1, FoundVariableType DEF Variables, Moving, TypeOK
<1>3. op \in OperandOps
  BY DEF OperandOps
<1>4. Emit(<<op, var.index>>) /\ Call(items)
  BY <1>1 DEF EmitThen
<1>5. Effect(op, var.index) = e
  OBVIOUS
<1>. HIDE DEF op, var
<1>. QED  BY <1>2, <1>3, <1>4, <1>5, EmitOperandHeight

\* Steps that emit nothing.
LEMMA QuietNone ==
  ASSUME Moving, Call(<<>>), UNCHANGED code, Net(Head(todo)) = 0
  PROVE  KeepsBalance
BY KeptNone, MovingFacts DEF Moving

LEMMA QuietOne ==
  ASSUME Moving, UNCHANGED code, NEW a \in AllCalls, Call(<<a>>),
         Net(a) = Net(Head(todo)), Settled(a, Behind)
  PROVE  KeepsBalance
<1>1. Height(code') = Height(code) + 0 /\ Net(a) + 0 = Net(Head(todo)) /\ 0 \in Int
  BY MovingFacts
<1>. QED  BY <1>1, KeptOne, MovingFacts DEF Moving

LEMMA QuietTwo ==
  ASSUME Moving, UNCHANGED code, NEW a \in AllCalls, NEW b \in AllCalls, Call(<<a, b>>),
         Net(a) + Net(b) = Net(Head(todo)), Settled(a, Net(b) + Behind), Settled(b, Behind)
  PROVE  KeepsBalance
<1>1. Height(code') = Height(code) + 0 /\ Net(a) + Net(b) + 0 = Net(Head(todo)) /\ 0 \in Int
  BY MovingFacts
<1>. QED  BY <1>1, KeptTwo, MovingFacts DEF Moving

\* The loop of a left-associative level.
LEMMA LoopKeeps ==
  ASSUME Moving, NEW loop \in {"addLoop", "mulLoop"}, NEW operand \in {"mul", "unary"}, NEW operators,
         \A kind \in DOMAIN operators : operators[kind] \in ArithmeticOps,
         OperatorLoop(loop, operand, operators)
  PROVE  KeepsBalance
<1>. DEFINE a == Do(operand)
            b == Operator(operators[tok.kind])
            c == Do(loop)
<1>1. Head(todo).fn = loop /\ Net(Head(todo)) = 0 /\ Behind <= -1 /\ Behind \in Int
  <2>1. Head(todo).fn = loop
    BY DEF OperatorLoop, At
  <2>. QED  BY <2>1, MovingFacts, PlainKinds
<1>2. CASE tok.kind \in DOMAIN operators /\ SkipThen(<<a, b, c>>)
  <2>1. /\ operators[tok.kind] \in Opcodes \ OperandOps
        /\ Effect(operators[tok.kind], 0) = -1 /\ Pushes(operators[tok.kind]) = 1
    BY <1>2, OpValues, PlainOps, EffectValues DEF ArithmeticOps
  <2>2. a \in AllCalls /\ b \in AllCalls /\ c \in AllCalls
    BY <2>1, PlainCalls, OperatorType DEF AllCalls
  <2>3. a.fn = operand /\ b.fn = "operator" /\ c.fn = loop /\ b.n = operators[tok.kind]
    BY Fields DEF Operator, DoNum
  <2>4. Call(<<a, b, c>>) /\ UNCHANGED code
    BY <1>2 DEF SkipThen, Parses, chunkVars
  <2>. HIDE DEF a, b, c
  <2>5. /\ Net(a) = 1 /\ Net(b) = -1 /\ Net(c) = 0
        /\ \A x \in Int : (Settled(a, x) <=> x <= -1) /\ (Settled(b, x) <=> x <= -1) /\ (Settled(c, x) <=> x <= -1)
    BY <2>1, <2>2, <2>3, PlainKinds
  <2>6. /\ Settled(a, Net(b) + Net(c) + Behind) /\ Settled(b, Net(c) + Behind) /\ Settled(c, Behind)
        /\ Net(a) + Net(b) + Net(c) = 0
    BY <1>1, <2>5
  <2>. QED  BY <1>1, <2>2, <2>4, <2>6, KeptThree, MovingFacts DEF Moving
<1>3. CASE Then(<<>>)
  <2>1. Call(<<>>) /\ UNCHANGED code
    BY <1>3 DEF Then, Parses, chunkVars
  <2>. QED  BY <1>1, <2>1, QuietNone
<1>. QED  BY <1>2, <1>3 DEF OperatorLoop

LEMMA PrimKeeps ==
  ASSUME Moving, CompilePrimExpr
  PROVE  KeepsBalance
<1>. DEFINE items == PrimCalls[tok.kind]
<1>1. tok.kind \in DOMAIN PrimCalls /\ SkipThen(items) /\ Head(todo).fn = "prim"
  BY DEF CompilePrimExpr, Fail, Moving, At
<1>2. Net(Head(todo)) = 1 /\ Behind <= -1 /\ Behind \in Int
  BY <1>1, MovingFacts, PlainKinds
<1>3. Call(items) /\ UNCHANGED code
  BY <1>1 DEF SkipThen, Parses, chunkVars
<1>4. tok.text \in Names \union {""} /\ tok.num \in Nat
  BY TokenFields DEF Moving
<1>5. ASSUME NEW a \in AllCalls, items = <<a>>, Net(a) = 1, Settled(a, Behind)  PROVE KeepsBalance
  <2>1. Call(<<a>>)
    BY <1>3, <1>5
  <2>. QED  BY <1>2, <1>3, <1>5, <2>1, QuietOne
<1>6. ASSUME NEW a \in AllCalls, items = <<a>>, a.fn \in {"int", "whole", "number", "string", "array", "ref", "variable"}
      PROVE  KeepsBalance
  <2>1. Net(a) = 1 /\ Settled(a, Behind)
    BY <1>2, <1>6, PlainKinds
  <2>. QED  BY <1>5, <1>6, <2>1
<1>7. tok.kind \in {"NilKw", "FalseKw", "TrueKw", "Int", "Number", "WholeNumber", "String", "LBracket",
                    "Amp", "Name", "LParen"}
  BY <1>1 DEF PrimCalls
<1>8. CASE tok.kind \in {"NilKw", "FalseKw", "TrueKw"}
  <2>1. PICK op \in {Op.Nil, Op.False, Op.True} : items = <<Operator(op)>>
    BY <1>8 DEF PrimCalls
  <2>2. op \in Opcodes \ OperandOps /\ Effect(op, 0) = 1 /\ Pushes(op) = 1
    BY OpValues, PlainOps, EffectValues
  <2>3. Operator(op) \in AllCalls /\ Operator(op).fn = "operator" /\ Operator(op).n = op
    BY <2>2, OperatorType DEF AllCalls, Operator, DoNum
  <2>4. Net(Operator(op)) = 1 /\ Settled(Operator(op), Behind)
    BY <1>2, <2>2, <2>3, PlainKinds
  <2>. QED  BY <1>5, <2>1, <2>3, <2>4
<1>9. CASE tok.kind \in {"Int", "WholeNumber"}
  <2>1. PICK fn \in {"int", "whole"} : items = <<DoNum(fn, tok.num)>>
    BY <1>9 DEF PrimCalls
  <2>2. DoNum(fn, tok.num) \in AllCalls /\ DoNum(fn, tok.num).fn = fn
    BY <1>4, CallTypes DEF AllCalls, DoNum, Functions, Calls
  <2>. QED  BY <1>6, <2>1, <2>2
<1>10. CASE tok.kind \in {"Number", "String", "LBracket", "Amp"}
  <2>1. PICK fn \in {"number", "string", "array", "ref"} : items = <<Do(fn)>>
    BY <1>10 DEF PrimCalls
  <2>2. Do(fn) \in AllCalls /\ Do(fn).fn = fn
    BY PlainCalls, Fields DEF AllCalls
  <2>. QED  BY <1>6, <2>1, <2>2
<1>11. CASE tok.kind = "Name"
  <2>1. items = <<DoName("variable", tok.text)>>
    BY <1>11 DEF PrimCalls
  <2>2. DoName("variable", tok.text) \in AllCalls /\ DoName("variable", tok.text).fn = "variable"
    BY <1>4, NamedCalls, Fields DEF AllCalls
  <2>. QED  BY <1>6, <2>1, <2>2
<1>12. CASE tok.kind = "LParen"
  <2>. DEFINE a == Do("expr")
              b == Consume("RParen")
  <2>1. Call(<<a, b>>)
    <3>1. items = <<a, b>>
      BY <1>12 DEF PrimCalls
    <3>. QED  BY <1>3, <3>1
  <2>2. a \in AllCalls /\ b \in AllCalls /\ a.fn = "expr" /\ b.fn = "consume"
    BY PlainCalls, ConsumeCalls, Fields DEF AllCalls
  <2>. HIDE DEF a, b
  <2>3. /\ Net(a) = 1 /\ Net(b) = 0
        /\ \A x \in Int : (Settled(a, x) <=> x <= -1) /\ (Settled(b, x) <=> x <= 0)
    BY <2>2, PlainKinds
  <2>4. Settled(a, Net(b) + Behind) /\ Settled(b, Behind) /\ Net(a) + Net(b) = 1
    BY <1>2, <2>3
  <2>. QED  BY <1>2, <1>3, <2>1, <2>2, <2>4, QuietTwo
<1>. QED  BY <1>7, <1>8, <1>9, <1>10, <1>11, <1>12

LEMMA ExpressionKeeps ==
  ASSUME Moving, ArraysCounted', Expression
  PROVE  KeepsBalance
<1>. USE DEF At
<1>0. ASSUME NEW fn, At(fn)  PROVE Head(todo).fn = fn
  BY <1>0
<1>1. /\ Head(todo) \in AllCalls /\ Behind \in Int /\ Net(Head(todo)) \in Int
      /\ Height(code) \in Int /\ Settled(Head(todo), Behind) /\ rc' = "Ok" /\ ~CheckOnly
  BY MovingFacts DEF Moving
<1>2. tok.text \in Names \union {""} /\ tok.num \in Nat
  BY TokenFields DEF Moving
<1>3. ASSUME Head(todo).fn \in {"expr", "add", "mul", "unary", "prim", "int", "number", "whole", "string",
                                "array", "ref", "refTo", "variable"}
      PROVE  Net(Head(todo)) = 1 /\ Behind <= -1
  BY <1>1, <1>3, PlainKinds
<1>4. ASSUME Head(todo).fn \in {"range", "addLoop", "mulLoop", "indexLoop"}
      PROVE  Net(Head(todo)) = 0 /\ Behind <= -1
  BY <1>1, <1>4, PlainKinds
<1>5. ASSUME NEW items, SkipThen(items) \/ Then(items)  PROVE Call(items) /\ UNCHANGED code
  BY <1>5 DEF SkipThen, Then, Parses, chunkVars
<1>6. ASSUME NEW error \in ErrorKinds  PROVE ~Fail(error)
  BY <1>1, <1>6 DEF Fail, ErrorKinds
<1>7. ASSUME Return  PROVE Call(<<>>)
  BY <1>7, ReturnCalls DEF Moving
<1>8. CASE CompileExpr
  <2>. DEFINE a == Do("add")
              b == Do("range")
  <2>1. Call(<<a, b>>) /\ UNCHANGED code /\ Head(todo).fn = "expr"
    BY <1>5, <1>8 DEF CompileExpr
  <2>2. a \in AllCalls /\ b \in AllCalls /\ a.fn = "add" /\ b.fn = "range"
    BY PlainCalls, Fields DEF AllCalls
  <2>. HIDE DEF a, b
  <2>3. /\ Net(a) = 1 /\ Net(b) = 0
        /\ \A x \in Int : (Settled(a, x) <=> x <= -1) /\ (Settled(b, x) <=> x <= -1)
    BY <2>2, PlainKinds
  <2>4. Settled(a, Net(b) + Behind) /\ Settled(b, Behind) /\ Net(a) + Net(b) = Net(Head(todo))
    BY <1>1, <1>3, <2>1, <2>3
  <2>. QED  BY <2>1, <2>2, <2>4, QuietTwo
<1>9. CASE RangeOperator
  <2>. DEFINE a == Do("add")
              b == Operator(Op.Range)
  <2>1. Head(todo).fn = "range"
    BY <1>9 DEF RangeOperator
  <2>2. CASE SkipThen(<<a, b>>)
    <3>1. Call(<<a, b>>) /\ UNCHANGED code
      BY <1>5, <2>2
    <3>2. Op.Range \in Opcodes \ OperandOps /\ Effect(Op.Range, 0) = -1 /\ Pushes(Op.Range) = 1
      BY OpValues, PlainOps, EffectValues
    <3>3. a \in AllCalls /\ b \in AllCalls /\ a.fn = "add" /\ b.fn = "operator" /\ b.n = Op.Range
      BY <3>2, PlainCalls, OperatorType, Fields DEF AllCalls, Operator, DoNum
    <3>. HIDE DEF a, b
    <3>4. /\ Net(a) = 1 /\ Net(b) = -1
          /\ \A x \in Int : (Settled(a, x) <=> x <= -1) /\ (Settled(b, x) <=> x <= -1)
      BY <3>2, <3>3, PlainKinds
    <3>5. Settled(a, Net(b) + Behind) /\ Settled(b, Behind) /\ Net(a) + Net(b) = Net(Head(todo))
      BY <1>1, <1>4, <2>1, <3>4
    <3>. QED  BY <3>1, <3>3, <3>5, QuietTwo
  <2>3. CASE Then(<<>>)
    BY <1>4, <1>5, <2>1, <2>3, QuietNone
  <2>. QED  BY <1>9, <2>2, <2>3 DEF RangeOperator
<1>10. CASE CompileAddExpr
  <2>. DEFINE a == Do("mul")
              b == Do("addLoop")
  <2>1. Call(<<a, b>>) /\ UNCHANGED code /\ Head(todo).fn = "add"
    BY <1>5, <1>10 DEF CompileAddExpr
  <2>2. a \in AllCalls /\ b \in AllCalls /\ a.fn = "mul" /\ b.fn = "addLoop"
    BY PlainCalls, Fields DEF AllCalls
  <2>. HIDE DEF a, b
  <2>3. /\ Net(a) = 1 /\ Net(b) = 0
        /\ \A x \in Int : (Settled(a, x) <=> x <= -1) /\ (Settled(b, x) <=> x <= -1)
    BY <2>2, PlainKinds
  <2>4. Settled(a, Net(b) + Behind) /\ Settled(b, Behind) /\ Net(a) + Net(b) = Net(Head(todo))
    BY <1>1, <1>3, <2>1, <2>3
  <2>. QED  BY <2>1, <2>2, <2>4, QuietTwo
<1>11. CASE CompileMulExpr
  <2>. DEFINE a == Do("unary")
              b == Do("mulLoop")
  <2>1. Call(<<a, b>>) /\ UNCHANGED code /\ Head(todo).fn = "mul"
    BY <1>5, <1>11 DEF CompileMulExpr
  <2>2. a \in AllCalls /\ b \in AllCalls /\ a.fn = "unary" /\ b.fn = "mulLoop"
    BY PlainCalls, Fields DEF AllCalls
  <2>. HIDE DEF a, b
  <2>3. /\ Net(a) = 1 /\ Net(b) = 0
        /\ \A x \in Int : (Settled(a, x) <=> x <= -1) /\ (Settled(b, x) <=> x <= -1)
    BY <2>2, PlainKinds
  <2>4. Settled(a, Net(b) + Behind) /\ Settled(b, Behind) /\ Net(a) + Net(b) = Net(Head(todo))
    BY <1>1, <1>3, <2>1, <2>3
  <2>. QED  BY <2>1, <2>2, <2>4, QuietTwo
<1>12. CASE AddLoop
  <2>1. \A kind \in DOMAIN AddOperators : AddOperators[kind] \in ArithmeticOps
    BY DEF AddOperators, ArithmeticOps
  <2>. QED  BY <1>12, <2>1, LoopKeeps DEF AddLoop
<1>13. CASE MulLoop
  <2>1. \A kind \in DOMAIN MulOperators : MulOperators[kind] \in ArithmeticOps
    BY DEF MulOperators, ArithmeticOps
  <2>. QED  BY <1>13, <2>1, LoopKeeps DEF MulLoop
<1>14. CASE EmitOperator
  <2>1. Head(todo).fn = "operator" /\ EmitThen(<<Head(todo).n>>, <<>>)
    BY <1>14 DEF EmitOperator
  <2>2. Head(todo) \in Calls
    BY <2>1, <1>14, TodoType DEF EmitOperator, Moving
  <2>3. Head(todo).n \in Opcodes \ OperandOps
    BY <2>1, <2>2, CallFields
  <2>4. Height(code') = Height(code) + Effect(Head(todo).n, 0) /\ Call(<<>>)
    BY <2>1, <2>3, EmitPlainHeight
  <2>5. Net(Head(todo)) = Effect(Head(todo).n, 0)
    BY <1>1, <2>1, PlainKinds
  <2>. QED  BY <1>1, <2>4, <2>5, KeptNone DEF Moving
<1>15. CASE CompileUnaryExpr
  <2>1. Head(todo).fn = "unary"
    BY <1>15 DEF CompileUnaryExpr
  <2>. DEFINE a == Do("unary")
              b == Operator(Op.Neg)
              c == Do("prim")
  <2>2. CASE SkipThen(<<a, b>>)
    <3>1. Call(<<a, b>>) /\ UNCHANGED code
      BY <1>5, <2>2
    <3>2. Op.Neg \in Opcodes \ OperandOps /\ Effect(Op.Neg, 0) = 0 /\ Pushes(Op.Neg) = 1
      BY OpValues, PlainOps, EffectValues
    <3>3. a \in AllCalls /\ b \in AllCalls /\ a.fn = "unary" /\ b.fn = "operator" /\ b.n = Op.Neg
      BY <3>2, PlainCalls, OperatorType, Fields DEF AllCalls, Operator, DoNum
    <3>. HIDE DEF a, b
    <3>4. /\ Net(a) = 1 /\ Net(b) = 0
          /\ \A x \in Int : (Settled(a, x) <=> x <= -1) /\ (Settled(b, x) <=> x <= -1)
      BY <3>2, <3>3, PlainKinds
    <3>5. Settled(a, Net(b) + Behind) /\ Settled(b, Behind) /\ Net(a) + Net(b) = Net(Head(todo))
      BY <1>1, <1>3, <2>1, <3>4
    <3>. QED  BY <3>1, <3>3, <3>5, QuietTwo
  <2>3. CASE Then(<<c>>)
    <3>1. Call(<<c>>) /\ UNCHANGED code
      BY <1>5, <2>3
    <3>2. c \in AllCalls /\ c.fn = "prim"
      BY PlainCalls, Fields DEF AllCalls
    <3>. HIDE DEF c
    <3>3. Net(c) = 1 /\ Settled(c, Behind)
      BY <1>1, <1>3, <2>1, <3>2, PlainKinds
    <3>. QED  BY <1>3, <2>1, <3>1, <3>2, <3>3, QuietOne
  <2>. QED  BY <1>15, <2>2, <2>3 DEF CompileUnaryExpr
<1>16. CASE CompilePrimExpr
  BY <1>16, PrimKeeps
<1>17. CASE CompileInt
  <2>1. Head(todo).fn = "int" /\ Call(<<>>)
    BY <1>7, <1>17 DEF CompileInt
  <2>2. Head(todo).n \in Nat
    BY <1>17, TodoType, CallFields DEF CompileInt, Moving
  <2>3. CASE EmitConstant(IntValue(Head(todo).n), heap)
    <3>1. Height(code') = Height(code) + 1
      BY <2>3, EmitConstantHeight
    <3>. QED  BY <1>1, <1>3, <2>1, <3>1, KeptNone DEF Moving
  <2>4. CASE Head(todo).n <= UINT8_MAX /\ Emit(<<Op.Int, Head(todo).n>>)
    <3>1. Head(todo).n \in 0..UINT8_MAX /\ Op.Int \in OperandOps
      BY <2>2, <2>4, BoundsAssumption DEF OperandOps
    <3>2. Effect(Op.Int, Head(todo).n) = 1
      BY EffectValues
    <3>3. Height(code') = Height(code) + 1
      BY <2>4, <3>1, <3>2, EmitOperandHeight
    <3>. QED  BY <1>1, <1>3, <2>1, <3>3, KeptNone DEF Moving
  <2>. QED  BY <1>1, <1>17, <2>3, <2>4 DEF CompileInt
<1>18. CASE CompileNumber \/ CompileString
  <2>1. Head(todo).fn \in {"number", "whole", "string"} /\ Call(<<>>)
    BY <1>7, <1>18 DEF CompileNumber, CompileString
  <2>2. \E v, h : EmitConstant(v, h)
    BY <1>1, <1>18 DEF CompileNumber, CompileString
  <2>3. Height(code') = Height(code) + 1
    BY <2>2, EmitConstantHeight
  <2>. QED  BY <1>1, <1>3, <2>1, <2>3, KeptNone DEF Moving
<1>19. CASE CompileArray
  <2>1. Head(todo).fn = "array"
    BY <1>19 DEF CompileArray
  <2>. DEFINE a == DoNum("arrayEnd", 0)
              b == Do("expr")
              c == DoNum("arrayLoop", 1)
  <2>2. /\ a \in AllCalls /\ a.fn = "arrayEnd" /\ a.n = 0
        /\ b \in AllCalls /\ b.fn = "expr"
        /\ c \in AllCalls /\ c.fn = "arrayLoop" /\ c.n = 1
    <3>1. 0 \in 0..UINT8_MAX /\ 1 \in 0..UINT8_MAX
      BY BoundsAssumption
    <3>2. a.n = 0 /\ c.n = 1
      BY DEF DoNum
    <3>. QED  BY <3>1, <3>2, CountType, PlainCalls, Fields DEF AllCalls
  <2>3. CASE SkipThen(<<a>>)
    <3>1. Call(<<a>>) /\ UNCHANGED code
      BY <1>5, <2>3
    <3>. HIDE DEF a
    <3>2. Net(a) = 1 /\ Settled(a, Behind)
      BY <1>1, <1>3, <2>1, <2>2, PlainKinds
    <3>. QED  BY <1>3, <2>1, <2>2, <3>1, <3>2, QuietOne
  <2>4. CASE Then(<<b, c>>)
    <3>1. Call(<<b, c>>) /\ UNCHANGED code
      BY <1>5, <2>4
    <3>. HIDE DEF b, c
    <3>2. /\ Net(b) = 1 /\ Net(c) = 0
          /\ \A x \in Int : (Settled(b, x) <=> x <= -1) /\ (Settled(c, x) <=> x <= -1)
      BY <2>2, PlainKinds
    <3>3. Settled(b, Net(c) + Behind) /\ Settled(c, Behind) /\ Net(b) + Net(c) = Net(Head(todo))
      BY <1>1, <1>3, <2>1, <3>2
    <3>. QED  BY <2>2, <3>1, <3>3, QuietTwo
  <2>. QED  BY <1>19, <2>3, <2>4 DEF CompileArray
<1>20. CASE ArrayLoop
  <2>. DEFINE n == Head(todo).n
              a == Do("expr")
              b == DoNum("arrayLoop", Byte(n + 1))
              c == Consume("RBracket")
              d == DoNum("arrayEnd", n)
  <2>1. Head(todo).fn = "arrayLoop" /\ n \in 0..UINT8_MAX
    BY <1>20, TodoType, CallFields DEF ArrayLoop, Moving
  <2>2. Net(Head(todo)) = 1 - n /\ Behind <= -1
    BY <1>1, <2>1, PlainKinds
  <2>3. n \in Nat /\ Byte(n + 1) \in 0..UINT8_MAX
    <3>1. n \in Nat /\ n + 1 \in Nat
      BY <2>1, BoundsAssumption
    <3>. QED  BY <3>1, ByteType
  <2>4. /\ a \in AllCalls /\ a.fn = "expr"
        /\ b \in AllCalls /\ b.fn = "arrayLoop" /\ b.n = Byte(n + 1)
        /\ c \in AllCalls /\ c.fn = "consume"
        /\ d \in AllCalls /\ d.fn = "arrayEnd" /\ d.n = n
    <3>1. b.n = Byte(n + 1) /\ d.n = n
      BY DEF DoNum
    <3>. QED  BY <2>1, <2>3, <3>1, CountType, PlainCalls, ConsumeCalls, Fields DEF AllCalls
  <2>5. CASE SkipThen(<<a, b>>)
    <3>1. Call(<<a, b>>) /\ UNCHANGED code
      BY <1>5, <2>5
    <3>2. Byte(n + 1) >= 1
      <4>1. todo' = <<a, b>> \o Tail(todo) /\ Tail(todo) \in Seq(AllCalls)
        BY <3>1, AtHead DEF Call, Moving
      <4>. HIDE DEF a, b
      <4>2. 2 \in DOMAIN todo' /\ todo'[2] = b
        BY <2>4, <4>1
      <4>. QED  BY <2>4, <4>2 DEF ArraysCounted
    <3>3. Byte(n + 1) = n + 1
      <4>1. n = UINT8_MAX => Byte(n + 1) = 0
        BY BoundsAssumption DEF Byte
      <4>2. n # UINT8_MAX => n + 1 <= UINT8_MAX /\ n + 1 \in Nat
        BY <2>1, <2>3, BoundsAssumption
      <4>. QED  BY <3>2, <4>1, <4>2, ByteType
    <3>4. b.n = n + 1
      BY <2>4, <3>3
    <3>. HIDE DEF a, b, n
    <3>5. /\ Net(a) = 1 /\ Net(b) = 1 - (n + 1)
          /\ \A x \in Int : (Settled(a, x) <=> x <= -1) /\ (Settled(b, x) <=> x <= -1)
      BY <2>4, <3>4, PlainKinds
    <3>6. Settled(a, Net(b) + Behind) /\ Settled(b, Behind) /\ Net(a) + Net(b) = Net(Head(todo))
      BY <1>1, <2>2, <2>3, <3>5
    <3>. QED  BY <2>4, <3>1, <3>6, QuietTwo
  <2>6. CASE Then(<<c, d>>)
    <3>1. Call(<<c, d>>) /\ UNCHANGED code
      BY <1>5, <2>6
    <3>. HIDE DEF c, d, n
    <3>2. /\ Net(c) = 0 /\ Net(d) = 1 - n
          /\ \A x \in Int : (Settled(c, x) <=> x <= 0) /\ (Settled(d, x) <=> x <= -1)
      BY <2>4, PlainKinds
    <3>3. Settled(c, Net(d) + Behind) /\ Settled(d, Behind) /\ Net(c) + Net(d) = Net(Head(todo))
      BY <1>1, <2>2, <2>3, <3>2
    <3>. QED  BY <2>4, <3>1, <3>3, QuietTwo
  <2>. QED  BY <1>20, <2>5, <2>6 DEF ArrayLoop
<1>21. CASE ArrayEnd
  <2>. DEFINE n == Head(todo).n
  <2>1. Head(todo).fn = "arrayEnd" /\ n \in 0..UINT8_MAX
    BY <1>21, TodoType, CallFields DEF ArrayEnd, Moving
  <2>2. Emit(<<Op.Array, n>>) /\ Call(<<>>)
    BY <1>21 DEF ArrayEnd, EmitThen
  <2>3. n \in Int /\ Op.Array \in OperandOps
    BY <2>1, BoundsAssumption DEF OperandOps
  <2>4. Effect(Op.Array, n) = 1 - n /\ Net(Head(todo)) = 1 - n
    BY <1>1, <2>1, <2>3, EffectValues, PlainKinds
  <2>5. Height(code') = Height(code) + Effect(Op.Array, n)
    BY <2>1, <2>2, <2>3, EmitOperandHeight
  <2>. QED  BY <1>1, <2>2, <2>4, <2>5, KeptNone DEF Moving
<1>22. CASE CompileRef
  <2>1. SkipThen(<<DoName("refTo", tok.text)>>) /\ Head(todo).fn = "ref"
    BY <1>6, <1>22 DEF CompileRef, ErrorKinds
  <2>. DEFINE a == DoName("refTo", tok.text)
  <2>2. Call(<<a>>) /\ UNCHANGED code
    BY <1>5, <2>1
  <2>3. a \in AllCalls /\ a.fn = "refTo"
    BY <1>2, NamedCalls, Fields DEF AllCalls
  <2>. HIDE DEF a
  <2>4. Net(a) = 1 /\ Settled(a, Behind)
    BY <1>1, <1>3, <2>1, <2>3, PlainKinds
  <2>. QED  BY <1>3, <2>1, <2>2, <2>3, <2>4, QuietOne
<1>23. CASE RefTo
  <2>1. Head(todo).fn = "refTo" /\ UseVariable(Head(todo).name, Op.GetLocal, Op.LocalRef, <<>>)
    BY <1>23 DEF RefTo
  <2>2. /\ Op.GetLocal \in LocalOps /\ Op.LocalRef \in LocalOps
        /\ \A m : Effect(Op.GetLocal, m) = 1 /\ Effect(Op.LocalRef, m) = 1
    BY EffectValues DEF LocalOps
  <2>3. Height(code') = Height(code) + 1 /\ Call(<<>>)
    BY <2>1, <2>2, UseVariableHeight
  <2>. QED  BY <1>1, <1>3, <2>1, <2>3, KeptNone DEF Moving
<1>24. CASE CompileVariable
  <2>. DEFINE a == Do("indexLoop")
  <2>1. Head(todo).fn = "variable" /\ UseVariable(Head(todo).name, Op.GetLocalByRef, Op.GetLocal, <<a>>)
    BY <1>24 DEF CompileVariable
  <2>2. /\ Op.GetLocal \in LocalOps /\ Op.GetLocalByRef \in LocalOps
        /\ \A m : Effect(Op.GetLocal, m) = 1 /\ Effect(Op.GetLocalByRef, m) = 1
    BY EffectValues DEF LocalOps
  <2>3. Height(code') = Height(code) + 1 /\ Call(<<a>>)
    BY <2>1, <2>2, UseVariableHeight
  <2>4. a \in AllCalls /\ a.fn = "indexLoop"
    BY PlainCalls, Fields DEF AllCalls
  <2>. HIDE DEF a
  <2>5. Net(a) = 0 /\ Settled(a, Behind) /\ Net(a) + 1 = Net(Head(todo))
    BY <1>1, <1>3, <2>1, <2>4, PlainKinds
  <2>. QED  BY <1>1, <2>3, <2>4, <2>5, KeptOne DEF Moving
<1>25. CASE IndexLoop
  <2>1. Head(todo).fn = "indexLoop"
    BY <1>25 DEF IndexLoop
  <2>. DEFINE a == Do("expr")
              b == Consume("RBracket")
              c == EmitOp(Op.GetElement)
              d == Do("indexLoop")
  <2>2. CASE SkipThen(<<a, b, c, d>>)
    <3>1. Call(<<a, b, c, d>>) /\ UNCHANGED code
      BY <1>5, <2>2
    <3>2. Op.GetElement \in Opcodes \ OperandOps /\ Effect(Op.GetElement, 0) = -1 /\ Pushes(Op.GetElement) = 1
      BY OpValues, PlainOps, EffectValues
    <3>3. /\ a \in AllCalls /\ b \in AllCalls /\ c \in AllCalls /\ d \in AllCalls
          /\ a.fn = "expr" /\ b.fn = "consume" /\ c.fn = "emit" /\ c.n = Op.GetElement /\ d.fn = "indexLoop"
      <4>1. c.n = Op.GetElement
        BY DEF EmitOp, DoNum
      <4>. QED  BY <3>2, <4>1, PlainCalls, ConsumeCalls, OperatorType, Fields DEF AllCalls
    <3>. HIDE DEF a, b, c, d
    <3>4. /\ Net(a) = 1 /\ Net(b) = 0 /\ Net(c) = -1 /\ Net(d) = 0
          /\ \A x \in Int : /\ Settled(a, x) <=> x <= -1
                            /\ Settled(b, x) <=> x <= 0
                            /\ Settled(c, x) <=> x <= -1
                            /\ Settled(d, x) <=> x <= -1
      BY <3>2, <3>3, PlainKinds
    <3>5. /\ Settled(a, Net(b) + Net(c) + Net(d) + Behind) /\ Settled(b, Net(c) + Net(d) + Behind)
          /\ Settled(c, Net(d) + Behind) /\ Settled(d, Behind)
          /\ Net(a) + Net(b) + Net(c) + Net(d) = Net(Head(todo))
      BY <1>1, <1>4, <2>1, <3>4
    <3>. QED  BY <1>1, <3>1, <3>3, <3>5, KeptFour DEF Moving
  <2>3. CASE Return /\ UNCHANGED chunkVars
    <3>1. Call(<<>>) /\ UNCHANGED code
      BY <1>7, <2>3 DEF chunkVars
    <3>. QED  BY <1>4, <2>1, <3>1, QuietNone
  <2>. QED  BY <1>25, <2>2, <2>3 DEF IndexLoop
<1>. QED  BY <1>8, <1>9, <1>10, <1>11, <1>12, <1>13, <1>14, <1>15, <1>16, <1>17, <1>18, <1>19, <1>20,
             <1>21, <1>22, <1>23, <1>24, <1>25 DEF Expression

\* Every statement but those that define a variable or close a block.
LEMMA StatementKeeps ==
  ASSUME Moving, Statement, UNCHANGED variables, ~PopScope
  PROVE  KeepsBalance
<1>. USE DEF At
<1>1. /\ Head(todo) \in AllCalls /\ Behind \in Int /\ Net(Head(todo)) \in Int
      /\ Height(code) \in Int /\ Settled(Head(todo), Behind) /\ rc' = "Ok" /\ ~CheckOnly
  BY MovingFacts DEF Moving
<1>2. tok.text \in Names \union {""} /\ tok.num \in Nat
  BY TokenFields DEF Moving
<1>3. ASSUME Head(todo).fn \in {"init", "chunk", "stmt", "let", "letValue", "inout", "return", "pushScope",
                                "block"}
      PROVE  Net(Head(todo)) = 0 /\ Behind = 0
  BY <1>1, <1>3, PlainKinds
<1>4. ASSUME NEW items, SkipThen(items) \/ Then(items)  PROVE Call(items) /\ UNCHANGED code
  BY <1>4 DEF SkipThen, Then, Parses, chunkVars
<1>5. ASSUME NEW error \in ErrorKinds  PROVE ~Fail(error)
  BY <1>1, <1>5 DEF Fail, ErrorKinds
<1>6. ASSUME NEW a \in AllCalls, Call(<<a>>), UNCHANGED code,
             Head(todo).fn \in {"init", "chunk", "stmt", "let", "letValue", "inout", "return", "pushScope",
                                "block"},
             a.fn \in {"chunk", "stmt", "let", "letValue", "inout", "return", "pushScope", "block", "popScope"}
      PROVE  KeepsBalance
  <2>1. Net(a) = 0 /\ Settled(a, Behind)
    BY <1>1, <1>3, <1>6, PlainKinds
  <2>. QED  BY <1>3, <1>6, <2>1, QuietOne
<1>7. ASSUME NEW a \in AllCalls, NEW b \in AllCalls, Call(<<a, b>>), UNCHANGED code,
             Head(todo).fn \in {"chunk", "block"}, a.fn = "stmt", b.fn \in {"chunk", "block"}
      PROVE  KeepsBalance
  <2>1. /\ Net(a) = 0 /\ Net(b) = 0
        /\ \A x \in Int : (Settled(a, x) <=> x = 0) /\ (Settled(b, x) <=> x = 0)
    BY <1>7, PlainKinds
  <2>2. Settled(a, Net(b) + Behind) /\ Settled(b, Behind) /\ Net(a) + Net(b) = Net(Head(todo))
    BY <1>1, <1>3, <1>7, <2>1
  <2>. QED  BY <1>7, <2>2, QuietTwo
<1>8. ASSUME NEW a \in AllCalls, NEW b \in AllCalls, NEW c \in AllCalls, NEW d \in AllCalls,
             Call(<<a, b, c, d>>), UNCHANGED code, Head(todo).fn \in {"stmt", "inout"},
             a.fn = "consume", b.fn = "expr", c.fn = "consume", d.fn \in {"assign", "defineInout"}
      PROVE  KeepsBalance
  <2>1. /\ Net(a) = 0 /\ Net(b) = 1 /\ Net(c) = 0 /\ Net(d) = -1
        /\ \A x \in Int : /\ Settled(a, x) <=> x <= 0
                          /\ Settled(b, x) <=> x <= -1
                          /\ Settled(c, x) <=> x <= 0
                          /\ Settled(d, x) <=> x = 0
    BY <1>8, PlainKinds
  <2>2. /\ Settled(a, Net(b) + Net(c) + Net(d) + Behind) /\ Settled(b, Net(c) + Net(d) + Behind)
        /\ Settled(c, Net(d) + Behind) /\ Settled(d, Behind)
        /\ Net(a) + Net(b) + Net(c) + Net(d) = Net(Head(todo))
    BY <1>1, <1>3, <1>8, <2>1
  <2>. QED  BY <1>1, <1>8, <2>2, KeptFour DEF Moving
\* An expression whose value the last call takes off again.
<1>9. ASSUME NEW a \in AllCalls, NEW b \in AllCalls, NEW c \in AllCalls, Call(<<a, b, c>>), UNCHANGED code,
             Head(todo).fn \in {"stmt", "return", "letValue"}, a.fn = "expr", b.fn = "consume",
             \/ c.fn = "define"
             \/ c.fn = "emit" /\ c.n \in {Op.Pop, Op.Return}
      PROVE  KeepsBalance
  <2>1. Net(c) = -1 /\ Settled(c, Behind)
    <3>1. CASE c.fn = "define"
      BY <1>1, <1>3, <1>9, <3>1, PlainKinds
    <3>2. CASE c.fn = "emit" /\ c.n \in {Op.Pop, Op.Return}
      <4>1. Effect(c.n, 0) = -1 /\ Pushes(c.n) = 0
        BY <3>2, EffectValues
      <4>2. Net(c) = -1 /\ (Settled(c, Behind) <=> Behind <= -0)
        BY <1>1, <3>2, <4>1, PlainKinds
      <4>. QED  BY <1>3, <1>9, <4>2
    <3>. QED  BY <1>9, <3>1, <3>2
  <2>2. /\ Net(a) = 1 /\ Net(b) = 0
        /\ \A x \in Int : (Settled(a, x) <=> x <= -1) /\ (Settled(b, x) <=> x <= 0)
    BY <1>9, PlainKinds
  <2>3. /\ Settled(a, Net(b) + Net(c) + Behind) /\ Settled(b, Net(c) + Behind)
        /\ Net(a) + Net(b) + Net(c) = Net(Head(todo))
    BY <1>1, <1>3, <1>9, <2>1, <2>2
  <2>. QED  BY <1>1, <1>9, <2>1, <2>3, KeptThree DEF Moving
<1>10. CASE BeginCompile
  <2>1. Call(<<Do("chunk")>>) /\ UNCHANGED code /\ Head(todo).fn = "init"
    BY <1>4, <1>10 DEF BeginCompile
  <2>2. Do("chunk") \in AllCalls /\ Do("chunk").fn = "chunk"
    BY PlainCalls, Fields DEF AllCalls
  <2>. QED  BY <1>6, <2>1, <2>2
<1>11. CASE CompileChunk
  <2>. DEFINE a == Do("stmt")
              b == Do("chunk")
  <2>1. Head(todo).fn = "chunk"
    BY <1>11 DEF CompileChunk
  <2>2. CASE Then(<<a, b>>)
    <3>1. Call(<<a, b>>) /\ UNCHANGED code
      BY <1>4, <2>2
    <3>2. a \in AllCalls /\ b \in AllCalls /\ a.fn = "stmt" /\ b.fn = "chunk"
      BY PlainCalls, Fields DEF AllCalls
    <3>. HIDE DEF a, b
    <3>. QED  BY <1>7, <2>1, <3>1, <3>2
  <2>3. CASE EmitThen(<<Op.Nil, Op.Return>>, <<>>)
    <3>. DEFINE bytes == <<Op.Nil, Op.Return>>
    <3>1. bytes \in Seq(Bytes)
      <4>1. Op.Nil \in Bytes /\ Op.Return \in Bytes
        BY OpValues, OpcodesAreBytes
      <4>. QED  BY <4>1
    <3>2. Emit(bytes) /\ Call(<<>>)
      BY <2>3 DEF EmitThen
    <3>3. code' = code \o bytes
      <4>. HIDE DEF bytes
      <4>. QED  BY <1>1, <3>1, <3>2, EmitWhole DEF TypeOK, Moving
    <3>4. /\ Op.Nil \in Opcodes \ OperandOps /\ Op.Return \in Opcodes \ OperandOps
          /\ Op.Nil \in Bytes /\ Op.Return \in Bytes
          /\ Effect(Op.Nil, 0) = 1 /\ Effect(Op.Return, 0) = -1
      BY OpValues, PlainOps, OpcodesAreBytes, EffectValues
    <3>5. CodeOK(code, Len(consts), Len(variables)) /\ Len(consts) \in Nat /\ Len(variables) \in Nat
      BY MovingFacts
    <3>6. CodeOK(code \o <<Op.Nil>>, Len(consts), Len(variables))
      BY <3>4, <3>5, AppendPlain
    <3>7. Height((code \o <<Op.Nil>>) \o <<Op.Return>>) = Height(code \o <<Op.Nil>>) + Effect(Op.Return, 0)
      BY <3>4, <3>5, <3>6, HeightPlain
    <3>8. Height(code \o <<Op.Nil>>) = Height(code) + Effect(Op.Nil, 0)
      BY <3>4, <3>5, HeightPlain
    <3>9. code' = (code \o <<Op.Nil>>) \o <<Op.Return>>
      <4>1. code \in Seq(Bytes)
        BY <3>5 DEF CodeOK
      <4>2. code \o <<Op.Nil, Op.Return>> = (code \o <<Op.Nil>>) \o <<Op.Return>>
        BY <3>4, <4>1, PairAppended
      <4>. QED  BY <3>3, <4>2
    <3>10. Height(code') = Height(code) + Net(Head(todo))
      <4>1. Net(Head(todo)) = 0
        BY <1>3, <2>1
      <4>2. Height(code') = (Height(code) + 1) + (-1)
        BY <3>4, <3>7, <3>8, <3>9
      <4>. QED  BY <1>1, <4>1, <4>2
    <3>. QED  BY <1>1, <3>2, <3>10, KeptNone DEF Moving
  <2>. QED  BY <1>11, <2>2, <2>3 DEF CompileChunk
<1>12. CASE CompileStmt
  <2>1. Head(todo).fn = "stmt"
    BY <1>12 DEF CompileStmt
  <2>2. CASE \E fn \in {"let", "inout", "return", "pushScope"} : SkipThen(<<Do(fn)>>)
    <3>1. PICK fn \in {"let", "inout", "return", "pushScope"} : SkipThen(<<Do(fn)>>)
      BY <2>2
    <3>2. Call(<<Do(fn)>>) /\ UNCHANGED code
      BY <1>4, <3>1
    <3>3. Do(fn) \in AllCalls /\ Do(fn).fn = fn
      BY PlainCalls, Fields DEF AllCalls
    <3>. QED  BY <1>6, <2>1, <3>2, <3>3
  <2>3. CASE SkipThen(<<Consume("Eq"), Do("expr"), Consume("Semicolon"), DoName("assign", tok.text)>>)
    <3>. DEFINE a == Consume("Eq")
                b == Do("expr")
                c == Consume("Semicolon")
                d == DoName("assign", tok.text)
    <3>1. Call(<<a, b, c, d>>) /\ UNCHANGED code
      BY <1>4, <2>3
    <3>2. /\ a \in AllCalls /\ b \in AllCalls /\ c \in AllCalls /\ d \in AllCalls
          /\ a.fn = "consume" /\ b.fn = "expr" /\ c.fn = "consume" /\ d.fn = "assign"
      BY <1>2, PlainCalls, ConsumeCalls, NamedCalls, Fields DEF AllCalls
    <3>. HIDE DEF a, b, c, d
    <3>. QED  BY <1>8, <2>1, <3>1, <3>2
  <2>4. CASE Then(<<Do("expr"), Consume("Semicolon"), EmitOp(Op.Pop)>>)
    <3>. DEFINE a == Do("expr")
                b == Consume("Semicolon")
                c == EmitOp(Op.Pop)
    <3>1. Call(<<a, b, c>>) /\ UNCHANGED code
      BY <1>4, <2>4
    <3>2. /\ a \in AllCalls /\ b \in AllCalls /\ c \in AllCalls
          /\ a.fn = "expr" /\ b.fn = "consume" /\ c.fn = "emit" /\ c.n = Op.Pop
      <4>1. c.n = Op.Pop
        BY DEF EmitOp, DoNum
      <4>. QED  BY <4>1, PlainCalls, ConsumeCalls, OperatorType, OpValues, PlainOps, Fields DEF AllCalls
    <3>. HIDE DEF a, b, c
    <3>. QED  BY <1>9, <2>1, <3>1, <3>2
  <2>. QED  BY <1>12, <2>2, <2>3, <2>4 DEF CompileStmt
<1>13. CASE ConsumeToken
  <2>1. Head(todo).fn = "consume" /\ SkipThen(<<>>)
    BY <1>5, <1>13 DEF ConsumeToken, ErrorKinds
  <2>2. Net(Head(todo)) = 0
    BY <1>1, <2>1, PlainKinds
  <2>. QED  BY <1>4, <2>1, <2>2, QuietNone
<1>14. CASE EmitOpcode
  <2>1. Head(todo).fn = "emit" /\ EmitThen(<<Head(todo).n>>, <<>>)
    BY <1>14 DEF EmitOpcode
  <2>2. Head(todo) \in Calls
    BY <2>1, <1>14, TodoType DEF EmitOpcode, Moving
  <2>3. Head(todo).n \in Opcodes \ OperandOps
    BY <2>1, <2>2, CallFields
  <2>4. Height(code') = Height(code) + Effect(Head(todo).n, 0) /\ Call(<<>>)
    BY <2>1, <2>3, EmitPlainHeight
  <2>5. Net(Head(todo)) = Effect(Head(todo).n, 0)
    BY <1>1, <2>1, PlainKinds
  <2>. QED  BY <1>1, <2>4, <2>5, KeptNone DEF Moving
<1>15. CASE CompileLetStmt
  <2>1. SkipThen(<<DoName("letValue", tok.text)>>) /\ Head(todo).fn = "let"
    BY <1>5, <1>15 DEF CompileLetStmt, ErrorKinds
  <2>2. Call(<<DoName("letValue", tok.text)>>) /\ UNCHANGED code
    BY <1>4, <2>1
  <2>3. DoName("letValue", tok.text) \in AllCalls /\ DoName("letValue", tok.text).fn = "letValue"
    BY <1>2, NamedCalls, Fields DEF AllCalls
  <2>. QED  BY <1>6, <2>1, <2>2, <2>3
<1>16. CASE LetValue
  <2>. DEFINE a == Do("expr")
              b == Consume("Semicolon")
              c == DoName("define", Head(todo).name)
  <2>1. Head(todo).fn = "letValue" /\ Head(todo).name \in Names \union {""}
    <3>1. "letValue" \in Functions
      BY DEF Functions
    <3>. QED  BY <1>16, <3>1, TodoType, CallFields DEF LetValue, Moving
  <2>2. /\ a \in AllCalls /\ b \in AllCalls /\ c \in AllCalls
        /\ a.fn = "expr" /\ b.fn = "consume" /\ c.fn = "define"
    BY <2>1, PlainCalls, ConsumeCalls, NamedCalls, Fields DEF AllCalls
  <2>3. CASE SkipThen(<<a>> \o <<b, c>>)
    <3>. HIDE DEF a, b, c
    <3>1. <<a>> \o <<b, c>> = <<a, b, c>>
      BY <2>2, OneAndTwo
    <3>2. Call(<<a, b, c>>) /\ UNCHANGED code
      BY <1>4, <2>3, <3>1
    <3>. QED  BY <1>9, <2>1, <2>2, <3>2
  <2>4. CASE EmitThen(<<Op.Nil>>, <<b, c>>)
    <3>1. Op.Nil \in Opcodes \ OperandOps /\ Effect(Op.Nil, 0) = 1
      BY OpValues, PlainOps, EffectValues
    <3>2. Height(code') = Height(code) + 1 /\ Call(<<b, c>>)
      BY <2>4, <3>1, EmitPlainHeight
    <3>. HIDE DEF b, c
    <3>3. /\ Net(b) = 0 /\ Net(c) = -1
          /\ \A x \in Int : (Settled(b, x) <=> x <= 0) /\ (Settled(c, x) <=> x = 0)
      BY <2>2, PlainKinds
    <3>4. Settled(b, Net(c) + Behind) /\ Settled(c, Behind) /\ Net(b) + Net(c) + 1 = Net(Head(todo))
      <4>1. Net(Head(todo)) = 0 /\ Behind = 0
        BY <1>3, <2>1
      <4>2. Net(c) + Behind = -1 /\ -1 \in Int /\ Net(b) + Net(c) + 1 = 0
        BY <3>3, <4>1
      <4>. QED  BY <3>3, <4>1, <4>2
    <3>. QED  BY <1>1, <2>2, <3>2, <3>4, KeptTwo DEF Moving
  <2>. QED  BY <1>16, <2>3, <2>4 DEF LetValue
<1>17. ~Define /\ ~DefineInout
  <2>1. ASSUME NEW name, NEW ref, NEW outcome, DefineVariable(name, ref, outcome)  PROVE FALSE
    <3>1. ~CannotDefine(name)
      BY <1>1, <2>1 DEF DefineVariable
    <3>2. PICK var : variables' = Append(variables, var)
      BY <2>1, <3>1 DEF DefineVariable
    <3>3. Len(variables') = Len(variables) + 1 /\ Len(variables) \in Nat
      BY <3>2, LenProperties DEF Moving, TypeOK, ScopeTypeOK
    <3>. QED  BY <3>3
  <2>. QED  BY <2>1 DEF Define, DefineInout
<1>18. CASE CompileInoutStmt
  <2>. DEFINE a == Consume("Eq")
              b == Do("expr")
              c == Consume("Semicolon")
              d == DoName("defineInout", tok.text)
  <2>1. SkipThen(<<a, b, c, d>>) /\ Head(todo).fn = "inout"
    BY <1>5, <1>18 DEF CompileInoutStmt, ErrorKinds
  <2>2. Call(<<a, b, c, d>>) /\ UNCHANGED code
    BY <1>4, <2>1
  <2>3. /\ a \in AllCalls /\ b \in AllCalls /\ c \in AllCalls /\ d \in AllCalls
        /\ a.fn = "consume" /\ b.fn = "expr" /\ c.fn = "consume" /\ d.fn = "defineInout"
    BY <1>2, PlainCalls, ConsumeCalls, NamedCalls, Fields DEF AllCalls
  <2>. HIDE DEF a, b, c, d
  <2>. QED  BY <1>8, <2>1, <2>2, <2>3
<1>19. CASE AssignVariable
  <2>1. Head(todo).fn = "assign" /\ UseVariable(Head(todo).name, Op.SetLocalByRef, Op.SetLocal, <<>>)
    BY <1>19 DEF AssignVariable
  <2>2. /\ Op.SetLocal \in LocalOps /\ Op.SetLocalByRef \in LocalOps /\ -1 \in Int
        /\ \A m : Effect(Op.SetLocalByRef, m) = -1 /\ Effect(Op.SetLocal, m) = -1
    BY EffectValues DEF LocalOps
  <2>3. Height(code') = Height(code) + (-1) /\ Call(<<>>)
    BY <2>1, <2>2, UseVariableHeight
  <2>4. Net(Head(todo)) = -1
    BY <1>1, <2>1, PlainKinds
  <2>. QED  BY <1>1, <2>3, <2>4, KeptNone DEF Moving
<1>20. CASE CompileReturnStmt
  <2>. DEFINE a == Do("expr")
              b == Consume("Semicolon")
              c == EmitOp(Op.Return)
  <2>1. Head(todo).fn = "return"
    BY <1>20 DEF CompileReturnStmt
  <2>2. CASE SkipThen(<<>>)
    BY <1>3, <1>4, <2>1, <2>2, QuietNone
  <2>3. CASE Then(<<a, b, c>>)
    <3>1. Call(<<a, b, c>>) /\ UNCHANGED code
      BY <1>4, <2>3
    <3>2. /\ a \in AllCalls /\ b \in AllCalls /\ c \in AllCalls
          /\ a.fn = "expr" /\ b.fn = "consume" /\ c.fn = "emit" /\ c.n = Op.Return
      <4>1. c.n = Op.Return
        BY DEF EmitOp, DoNum
      <4>. QED  BY <4>1, PlainCalls, ConsumeCalls, OperatorType, OpValues, PlainOps, Fields DEF AllCalls
    <3>. HIDE DEF a, b, c
    <3>. QED  BY <1>9, <2>1, <3>1, <3>2
  <2>. QED  BY <1>20, <2>2, <2>3 DEF CompileReturnStmt
<1>21. CASE PushScope
  <2>1. Call(<<Do("block")>>) /\ UNCHANGED code /\ Head(todo).fn = "pushScope"
    BY <1>21 DEF PushScope, chunkVars
  <2>2. Do("block") \in AllCalls /\ Do("block").fn = "block"
    BY PlainCalls, Fields DEF AllCalls
  <2>. QED  BY <1>6, <2>1, <2>2
<1>22. CASE CompileBlockStmt
  <2>. DEFINE a == Do("stmt")
              b == Do("block")
              c == Do("popScope")
  <2>1. Head(todo).fn = "block"
    BY <1>22 DEF CompileBlockStmt
  <2>2. /\ a \in AllCalls /\ b \in AllCalls /\ c \in AllCalls
        /\ a.fn = "stmt" /\ b.fn = "block" /\ c.fn = "popScope"
    BY PlainCalls, Fields DEF AllCalls
  <2>3. CASE Then(<<a, b>>)
    <3>1. Call(<<a, b>>) /\ UNCHANGED code
      BY <1>4, <2>3
    <3>. HIDE DEF a, b
    <3>. QED  BY <1>7, <2>1, <2>2, <3>1
  <2>4. CASE SkipThen(<<c>>)
    <3>1. Call(<<c>>) /\ UNCHANGED code
      BY <1>4, <2>4
    <3>. HIDE DEF c
    <3>. QED  BY <1>6, <2>1, <2>2, <3>1
  <2>. QED  BY <1>22, <2>3, <2>4 DEF CompileBlockStmt
<1>. QED  BY <1>10, <1>11, <1>12, <1>13, <1>14, <1>15, <1>16, <1>17, <1>18, <1>19, <1>20, <1>21, <1>22
          DEF Statement

-----------------------------------------------------------------------------
\* Variables come and go.

\* Every step but these three leaves comp->variables and the open blocks alone.
LEMMA OrdinarySteps ==
  ASSUME TypeOK, CompilerNext, ~PopScope, ~Define, ~DefineInout
  PROVE  UNCHANGED variables /\ ~Closed
<1>. USE DEF Then, SkipThen, Parses, Fail, EmitThen
<1>0. ASSUME UNCHANGED scopeDepth \/ scopeDepth' = scopeDepth + 1  PROVE ~Closed
  BY <1>0 DEF Closed, TypeOK, ScopeTypeOK
<1>1. ASSUME NEW name, NEW byRef, NEW direct, NEW items, UseVariable(name, byRef, direct, items)
      PROVE  UNCHANGED <<variables, scopeDepth>>
  BY <1>1 DEF UseVariable
<1>2. CASE BeginCompile \/ CompileChunk \/ CompileStmt \/ ConsumeToken \/ EmitOpcode
  BY <1>0, <1>2 DEF BeginCompile, CompileChunk, CompileStmt, ConsumeToken, EmitOpcode
<1>3. CASE CompileLetStmt \/ LetValue \/ CompileInoutStmt \/ CompileReturnStmt
  BY <1>0, <1>3 DEF CompileLetStmt, LetValue, CompileInoutStmt, CompileReturnStmt
<1>4. CASE PushScope \/ CompileBlockStmt
  BY <1>0, <1>4 DEF PushScope, CompileBlockStmt
<1>5. CASE AssignVariable \/ RefTo \/ CompileVariable
  BY <1>0, <1>1, <1>5 DEF AssignVariable, RefTo, CompileVariable
<1>6. CASE CompileExpr \/ RangeOperator \/ CompileAddExpr \/ AddLoop \/ CompileMulExpr \/ MulLoop
  BY <1>0, <1>6 DEF CompileExpr, RangeOperator, CompileAddExpr, AddLoop, CompileMulExpr, MulLoop, OperatorLoop
<1>7. CASE EmitOperator \/ CompileUnaryExpr \/ CompilePrimExpr \/ CompileInt \/ CompileNumber \/ CompileString
  BY <1>0, <1>7 DEF EmitOperator, CompileUnaryExpr, CompilePrimExpr, CompileInt, CompileNumber, CompileString
<1>8. CASE CompileArray \/ ArrayLoop \/ ArrayEnd \/ CompileRef \/ IndexLoop
  BY <1>0, <1>8 DEF CompileArray, ArrayLoop, ArrayEnd, CompileRef, IndexLoop
<1>. QED  BY <1>2, <1>3, <1>4, <1>5, <1>6, <1>7, <1>8 DEF CompilerNext, Statement, Expression

\* Where the variables of the current block begin in env.
LEMMA OuterIs ==
  ASSUME TypeOK, EnvMatches
  PROVE  Outer \in 0..Len(env) /\ \A i \in DOMAIN env : i <= Outer <=> env[i].depth < scopeDepth
<1>. DEFINE T == {i \in DOMAIN env : env[i].depth < scopeDepth}
<1>0. /\ Len(env) \in Nat /\ DOMAIN env = 1..Len(env)
      /\ scopeDepth \in Int
      /\ \A i \in DOMAIN env : env[i].depth \in Int
  BY EnvFacts
<1>1. CASE T = {}
  <2>1. \A i \in DOMAIN env : i <= 0 <=> env[i].depth < scopeDepth
    BY <1>0, <1>1
  <2>2. 0 \in 0..Len(env)
    BY <1>0
  <2>. QED  BY <2>1, <2>2 DEF Outer
<1>2. CASE T # {}
  <2>1. PICK n \in T : \A j \in T : j <= n
    <3>1. T \subseteq 1..Len(env)
      BY <1>0
    <3>. HIDE DEF T
    <3>. QED  BY <1>0, <1>2, <3>1, LastIndex
  <2>2. ASSUME NEW i \in DOMAIN env, i <= n  PROVE env[i].depth < scopeDepth
    <3>1. i = n \/ i < n
      BY <1>0, <2>2
    <3>2. env[i].depth <= env[n].depth
      BY <1>0, <3>1 DEF EnvMatches, EnvOrdered
    <3>. QED  BY <1>0, <3>2
  <2>3. n \in 0..Len(env) /\ \A i \in DOMAIN env : i <= n <=> env[i].depth < scopeDepth
    BY <1>0, <2>1, <2>2
  <2>. QED  BY <2>3 DEF Outer
<1>. QED  BY <1>1, <1>2

\* The innermost block's variables are all in scope, so that a block is closed
\* with at least as many Pops as it has variables.
LEMMA BlockIsInScope ==
  ASSUME TypeOK, EnvMatches
  PROVE  /\ Cardinality(InScope) \in Nat
         /\ Len(env) - Outer <= Cardinality(InScope)
<1>. DEFINE n == Len(env)
            m == Outer
            T == m + 1..n
            f == [i \in T |-> Entry(i)]
<1>1. /\ n \in Nat /\ DOMAIN env = 1..n /\ m \in 0..n
      /\ \A i \in DOMAIN env : i <= m <=> env[i].depth < scopeDepth
      /\ Len(variables) \in Nat /\ DOMAIN variables = 1..Len(variables) /\ scopeDepth \in Int
      /\ \A i \in DOMAIN env : /\ Entry(i) \in 1..Len(variables)
                               /\ env[i].index = Entry(i) - 1 /\ env[i].index \in Int /\ env[i].depth \in Int
  BY EnvFacts, OuterIs
<1>. HIDE DEF n, m
<1>2. ASSUME NEW i \in T  PROVE Entry(i) \in InScope
  <2>1. i \in DOMAIN env /\ ~(i <= m)
    BY <1>1
  <2>2. env[i].depth = scopeDepth
    BY <1>1, <2>1 DEF EnvMatches, EnvOpen
  <2>3. variables[Entry(i)].depth = scopeDepth
    BY <2>1, <2>2 DEF EnvMatches, EntriesMatch
  <2>4. ASSUME NEW p \in Entry(i)..Len(variables)  PROVE variables[p].depth >= scopeDepth
    <3>1. p = Entry(i) \/ p \in Entry(i) + 1..Len(variables)
      BY <1>1, <2>1
    <3>2. CASE p = Entry(i)
      BY <1>1, <2>3, <3>2
    <3>3. CASE p \in Entry(i) + 1..Len(variables)
      BY <2>1, <2>2, <3>3 DEF EnvMatches, EnvShields
    <3>. QED  BY <3>1, <3>2, <3>3
  <2>. QED  BY <1>1, <2>1, <2>3, <2>4 DEF InScope, Searched
<1>3. IsFiniteSet(InScope) /\ Cardinality(InScope) \in Nat
  BY IndicesFinite DEF TypeOK, ScopeTypeOK, InScope
<1>4. f \in Injection(T, InScope)
  <2>1. f \in [T -> InScope]
    BY <1>2
  <2>2. ASSUME NEW i \in T, NEW j \in T, f[i] = f[j]  PROVE i = j
    <3>1. i \in DOMAIN env /\ j \in DOMAIN env /\ i \in Int /\ j \in Int
      BY <1>1
    <3>2. env[i].index = env[j].index
      BY <1>1, <2>2, <3>1
    <3>3. ~(i < j) /\ ~(j < i)
      BY <1>1, <3>1, <3>2 DEF EnvMatches, EnvOrdered
    <3>. QED  BY <3>1, <3>3
  <2>. HIDE DEF f
  <2>. QED  BY <2>1, <2>2 DEF Injection, IsInjective
<1>5. IsFiniteSet(T) /\ Cardinality(T) = n - m
  <2>1. m + 1 \in Int /\ n \in Int
    BY <1>1
  <2>2. IsFiniteSet(T) /\ Cardinality(T) = IF m + 1 > n THEN 0 ELSE n - (m + 1) + 1
    BY <2>1, FS_Interval
  <2>. HIDE DEF T
  <2>. QED  BY <1>1, <2>2
<1>6. Cardinality(T) <= Cardinality(InScope)
  <2>. HIDE DEF f, T
  <2>. QED  BY <1>3, <1>4, FS_Injection
<1>. QED  BY <1>1, <1>3, <1>5, <1>6 DEF n, m

\* The steps that define a variable, and the one that closes a block.
LEMMA DefineMoves ==
  ASSUME Moving, Define \/ DefineInout
  PROVE  /\ AllSettled(todo') /\ Total(todo) = -1 /\ Total(todo') = 0 /\ code' = code
         /\ UNCHANGED scopeDepth
         /\ \E name, ref, outcome : DefineVariable(name, ref, outcome) /\ ~CannotDefine(name)
<1>1. /\ Head(todo).fn \in {"define", "defineInout"} /\ Return
      /\ code' = code /\ UNCHANGED scopeDepth
      /\ \E name, ref, outcome : DefineVariable(name, ref, outcome) /\ ~CannotDefine(name)
  <2>1. Head(todo).fn \in {"define", "defineInout"}
    BY DEF Define, DefineInout, At
  <2>2. PICK name, ref, outcome : DefineVariable(name, ref, outcome)
    BY DEF Define, DefineInout
  <2>3. ~CannotDefine(name)
    BY <2>2 DEF DefineVariable, Moving
  <2>. QED  BY <2>1, <2>2, <2>3 DEF Define, DefineInout, chunkVars
<1>2. Net(Head(todo)) = -1 /\ Behind = 0
  BY <1>1, MovingFacts, PlainKinds
<1>3. todo' = Tail(todo)
  BY <1>1 DEF Return
<1>. QED  BY <1>1, <1>2, <1>3, AtHead DEF Moving, Behind

LEMMA PopMoves ==
  ASSUME Moving, PopScope
  PROVE  /\ AllSettled(todo') /\ Total(todo) = 0 /\ Total(todo') = 0
         /\ Height(code') = Height(code) - Cardinality(InScope)
         /\ scopeDepth' = scopeDepth - 1 /\ UNCHANGED variables
<1>. DEFINE k == Cardinality(InScope)
            bytes == [i \in 1..k |-> Op.Pop]
<1>1. /\ Head(todo).fn = "popScope" /\ Return /\ Emit(bytes)
      /\ scopeDepth' = scopeDepth - 1 /\ UNCHANGED variables
  BY DEF PopScope, At, Moving
<1>2. Net(Head(todo)) = 0 /\ Behind = 0
  BY <1>1, MovingFacts, PlainKinds
<1>3. todo' = Tail(todo)
  BY <1>1 DEF Return
<1>4. AllSettled(todo') /\ Total(todo) = 0 /\ Total(todo') = 0
  BY <1>2, <1>3, AtHead DEF Moving, Behind
<1>5. k \in Nat
  BY IndicesFinite DEF Moving, TypeOK, ScopeTypeOK, InScope
<1>6. bytes \in Seq(Bytes)
  <2>1. Op.Pop \in Bytes
    BY OpValues, OpcodesAreBytes
  <2>. HIDE DEF k
  <2>. QED  BY <1>5, <2>1
<1>7. code' = code \o bytes
  <2>. HIDE DEF bytes
  <2>. QED  BY <1>1, <1>6, EmitWhole DEF Moving, TypeOK
<1>. HIDE DEF k
<1>8. Height(code') = Height(code) - k
  BY <1>5, <1>7, MovingFacts, HeightPops
<1>. QED  BY <1>1, <1>4, <1>8 DEF k

-----------------------------------------------------------------------------
\* The balance of the stack.

\* No block with a variable of its own has been closed.
NoneClosed == Len(env) = Len(variables)

\* The n-th variable has slot n - 1, and its value is in that cell.
CellsInPlace == \A i \in DOMAIN env : env[i].cell = i - 1 /\ env[i].index = i - 1

Balance ==
  /\ Len(env) <= Len(variables)
  /\ Compiling =>
       /\ AllSettled(todo)
       /\ Height(code) + Total(todo) <= Len(env)
       /\ NoneClosed => Height(code) + Total(todo) = Len(env) /\ CellsInPlace

\* Variables are never more than comp->variables, and only the end of a block
\* takes them away.
LEMMA EnvShrinks ==
  ASSUME TypeOK, EnvMatches, ObserveScopes, UNCHANGED variables
  PROVE  /\ ~Closed => env' = env
         /\ Closed => Len(env') = Outer /\ (Outer = Len(env) => env' = env)
         /\ Len(env') \in Nat /\ Len(env') <= Len(env)
<1>1. Len(env) \in Nat /\ Outer \in 0..Len(env)
  BY EnvFacts, OuterIs
<1>2. CASE ~Closed
  BY <1>1, <1>2 DEF ObserveScopes, Declared
<1>3. CASE Closed
  <2>1. env' = SubSeq(env, 1, Outer)
    BY <1>3 DEF ObserveScopes, Declared
  <2>2. PICK S : env \in Seq(S)
    BY DEF EnvMatches
  <2>3. \A i \in 1..Outer : env[i] \in S
    BY <1>1, <2>2, ElementOfSeq
  <2>4. Len(SubSeq(env, 1, Outer)) = Outer
    BY <1>1, <2>2, <2>3, SubSeqProperties
  <2>5. SubSeq(env, 1, Len(env)) = env
    BY <2>2
  <2>6. Len(env') = Outer
    BY <2>1, <2>4
  <2>7. Outer = Len(env) => env' = env
    BY <2>1, <2>5
  <2>8. Outer \in Nat /\ Outer <= Len(env)
    BY <1>1
  <2>. QED  BY <1>3, <2>6, <2>7, <2>8
<1>. QED  BY <1>2, <1>3

\* A variable that is defined is entered in both.
LEMMA EnvGrows ==
  ASSUME TypeOK, SlotNumbering, EnvMatches, ObserveScopes,
         NEW name, NEW ref, NEW outcome, DefineVariable(name, ref, outcome), ~CannotDefine(name)
  PROVE  /\ Len(env') = Len(env) + 1 /\ Len(variables') = Len(variables) + 1
         /\ \A i \in DOMAIN env : env'[i] = env[i]
         /\ env'[Len(env) + 1].cell = TopCell /\ env'[Len(env) + 1].index = Len(variables)
<1>. DEFINE n == Len(variables)
            new == [name |-> name, depth |-> scopeDepth, isRef |-> ref, index |-> Byte(n)]
            var == variables'[Len(variables')]
            item == [name |-> var.name, depth |-> var.depth, index |-> var.index, cell |-> TopCell]
<1>1. Len(env) \in Nat /\ DOMAIN env = 1..Len(env) /\ n \in Nat
  BY EnvFacts
<1>2. variables' = Append(variables, new)
  BY DEF DefineVariable
<1>3. Byte(n) = n
  BY <1>1, ByteType, BoundsAssumption DEF CannotDefine
<1>4. new.index = n
  BY <1>3
<1>. HIDE DEF new
<1>5. Len(variables') = n + 1 /\ variables'[n + 1] = new /\ variables' # variables
  BY <1>1, <1>2 DEF TypeOK, ScopeTypeOK
<1>6. env' = Append(env, item)
  BY <1>5 DEF ObserveScopes, Declared
<1>7. item.cell = TopCell /\ item.index = n
  <2>1. var = new
    BY <1>5
  <2>. QED  BY <1>4, <2>1
<1>8. PICK S : env \in Seq(S)
  BY DEF EnvMatches
<1>. HIDE DEF item, n
<1>9. env \in Seq(S \union {item}) /\ item \in S \union {item}
  BY <1>8, SeqMonotonic
<1>10. /\ Len(env') = Len(env) + 1 /\ env'[Len(env) + 1] = item /\ \A i \in DOMAIN env : env'[i] = env[i]
  BY <1>1, <1>6, <1>9, AppendProperties
<1>. QED  BY <1>5, <1>7, <1>10 DEF n

LEMMA BalanceStep ==
  ASSUME TypeOK, TypeOK', SlotNumbering, EnvMatches, EnvMatches', CodeWhole, CodeWhole', ArraysCounted', Balance,
         [ScopesNext]_scopeVars
  PROVE  Balance'
<1>1. CASE UNCHANGED scopeVars
  <2>1. UNCHANGED <<todo, code, env, variables, rc>>
    BY <1>1 DEF scopeVars, vars, chunkVars, compilerVars
  <2>. QED  BY <2>1 DEF Balance, Compiling, NoneClosed, CellsInPlace
<1>2. CASE ScopesNext
  <2>1. CompilerNext /\ ObserveScopes /\ rc = "Ok" /\ todo # <<>>
    BY <1>2, RunsOnlyOk DEF ScopesNext
  <2>2. /\ Len(env) \in Nat /\ DOMAIN env = 1..Len(env) /\ Len(variables) \in Nat
        /\ Len(env') \in Nat /\ DOMAIN env' = 1..Len(env') /\ Len(variables') \in Nat
        /\ Len(env) <= Len(variables)
    <3>1. Len(env) \in Nat /\ DOMAIN env = 1..Len(env) /\ Len(variables) \in Nat
      BY EnvFacts
    <3>2. Len(env') \in Nat /\ DOMAIN env' = 1..Len(env')
      BY LenProperties DEF EnvMatches
    <3>3. Len(variables') \in Nat
      BY LenProperties DEF TypeOK, ScopeTypeOK
    <3>. QED  BY <3>1, <3>2, <3>3 DEF Balance
  <2>3. Len(env') <= Len(variables')
    <3>1. CASE UNCHANGED variables
      BY <2>1, <2>2, <3>1, EnvShrinks
    <3>2. ASSUME NEW name, NEW ref, NEW outcome, DefineVariable(name, ref, outcome)
          PROVE  Len(env') <= Len(variables')
      <4>1. CASE CannotDefine(name)
        BY <3>1, <3>2, <4>1 DEF DefineVariable
      <4>2. CASE ~CannotDefine(name)
        <5>1. Len(env') = Len(env) + 1 /\ Len(variables') = Len(variables) + 1
          BY <2>1, <3>2, <4>2, EnvGrows
        <5>. QED  BY <2>2, <5>1
      <4>. QED  BY <4>1, <4>2
    <3>. QED  BY <2>1, <3>1, <3>2, VariablesChange
  <2>4. ASSUME Compiling'
        PROVE  /\ AllSettled(todo') /\ Height(code') + Total(todo') <= Len(env')
               /\ NoneClosed' => Height(code') + Total(todo') = Len(env') /\ CellsInPlace'
    <3>1. Moving /\ Compiling
      <4>1. Compiling
        BY <2>1, <2>4 DEF Compiling
      <4>. QED  BY <2>1, <2>4, <4>1 DEF Moving, Compiling, Balance
    <3>2. /\ Height(code) + Total(todo) <= Len(env)
          /\ NoneClosed => Height(code) + Total(todo) = Len(env) /\ CellsInPlace
          /\ Height(code) \in Int /\ Total(todo) \in Int
      BY <3>1, MovingFacts, AtHead DEF Balance, Moving
    <3>3. CASE ~PopScope /\ ~Define /\ ~DefineInout
      <4>1. UNCHANGED variables /\ ~Closed
        BY <2>1, <3>3, OrdinarySteps
      <4>2. env' = env
        BY <2>1, <4>1, EnvShrinks
      <4>3. KeepsBalance
        BY <2>1, <3>1, <3>3, <4>1, ExpressionKeeps, StatementKeeps DEF CompilerNext
      <4>. QED  BY <3>2, <4>1, <4>2, <4>3 DEF KeepsBalance, NoneClosed, CellsInPlace
    <3>4. CASE Define \/ DefineInout
      <4>1. /\ AllSettled(todo') /\ Total(todo) = -1 /\ Total(todo') = 0 /\ code' = code
            /\ \E name, ref, outcome : DefineVariable(name, ref, outcome) /\ ~CannotDefine(name)
        BY <3>1, <3>4, DefineMoves
      <4>2. /\ Len(env') = Len(env) + 1 /\ Len(variables') = Len(variables) + 1
            /\ \A i \in DOMAIN env : env'[i] = env[i]
            /\ env'[Len(env) + 1].cell = Height(code) - 1 /\ env'[Len(env) + 1].index = Len(variables)
        BY <2>1, <4>1, EnvGrows DEF TopCell
      <4>3. Height(code') + Total(todo') = (Height(code) + Total(todo)) + 1
        BY <3>2, <4>1
      <4>4. ASSUME NoneClosed'  PROVE Height(code') + Total(todo') = Len(env') /\ CellsInPlace'
        <5>1. NoneClosed
          BY <2>2, <4>2, <4>4 DEF NoneClosed
        <5>2. Height(code) - 1 = Len(env) /\ Len(variables) = Len(env)
          BY <2>2, <3>2, <4>1, <5>1 DEF NoneClosed
        <5>3. ASSUME NEW i \in DOMAIN env'  PROVE env'[i].cell = i - 1 /\ env'[i].index = i - 1
          <6>1. CASE i \in DOMAIN env
            BY <3>2, <4>2, <5>1, <6>1 DEF CellsInPlace
          <6>2. CASE i = Len(env) + 1
            BY <2>2, <4>2, <5>2, <6>2
          <6>. QED  BY <2>2, <4>2, <6>1, <6>2
        <5>4. Height(code') + Total(todo') = Len(env')
          BY <2>2, <3>2, <4>2, <4>3, <5>1
        <5>. QED  BY <5>3, <5>4 DEF CellsInPlace
      <4>5. Height(code') + Total(todo') <= Len(env')
        BY <2>2, <3>2, <4>2, <4>3
      <4>. QED  BY <4>1, <4>4, <4>5
    <3>5. CASE PopScope
      <4>. DEFINE k == Cardinality(InScope)
      <4>1. /\ AllSettled(todo') /\ Total(todo) = 0 /\ Total(todo') = 0 /\ Height(code') = Height(code) - k
            /\ scopeDepth' = scopeDepth - 1 /\ UNCHANGED variables
        BY <3>1, <3>5, PopMoves
      <4>2. Closed
        BY <4>1 DEF Closed, TypeOK, ScopeTypeOK
      <4>3. Len(env') = Outer /\ (Outer = Len(env) => env' = env) /\ Outer \in Int
        BY <2>1, <2>2, <4>1, <4>2, EnvShrinks
      <4>4. k \in Nat /\ Len(env) - Outer <= k
        BY BlockIsInScope
      <4>5. Height(code') + Total(todo') <= Len(env')
        <5>1. Height(code') + Total(todo') = Height(code) - k
          <6>. HIDE DEF k
          <6>. QED  BY <3>2, <4>1, <4>4
        <5>2. Height(code) <= Len(env)
          BY <3>2, <4>1
        <5>3. ASSUME NEW h \in Int, NEW n \in Int, NEW o \in Int, NEW c \in Int, h <= n, n - o <= c
              PROVE  h - c <= o
          BY <5>3
        <5>4. k \in Int /\ Len(env) \in Int
          BY <2>2, <4>4
        <5>. HIDE DEF k
        <5>5. Height(code) - k <= Outer
          BY <3>2, <4>3, <4>4, <5>2, <5>3, <5>4
        <5>. QED  BY <4>3, <5>1, <5>5
      <4>6. ASSUME NoneClosed'  PROVE Height(code') + Total(todo') = Len(env') /\ CellsInPlace'
        <5>1. Outer = Len(env) /\ Len(env) = Len(variables) /\ env' = env
          <6>1. Outer \in 0..Len(env)
            BY OuterIs
          <6>2. Outer = Len(variables)
            BY <4>1, <4>3, <4>6 DEF NoneClosed
          <6>3. ASSUME NEW o, NEW n \in Nat, NEW m \in Nat, o \in 0..n, o = m, n <= m
                PROVE  o = n /\ n = m
            BY <6>3
          <6>4. Outer = Len(env) /\ Len(env) = Len(variables)
            BY <2>2, <6>1, <6>2, <6>3
          <6>. QED  BY <4>3, <6>4
        <5>2. NoneClosed /\ CellsInPlace /\ Height(code) + Total(todo) = Len(env)
          BY <3>2, <5>1 DEF NoneClosed
        <5>3. InScope = {}
          <6>1. SUFFICES ASSUME NEW p \in InScope  PROVE FALSE
            OBVIOUS
          <6>2. p \in DOMAIN variables /\ variables[p].depth = scopeDepth
            BY DEF InScope
          <6>3. p \in DOMAIN env /\ p <= Outer
            <7>1. DOMAIN variables = 1..Len(variables)
              BY EnvFacts
            <7>. QED  BY <2>2, <5>1, <6>2, <7>1
          <6>4. Entry(p) = p
            BY <2>2, <5>2, <6>3 DEF CellsInPlace, Entry
          <6>5. env[p].depth = scopeDepth
            BY <6>2, <6>3, <6>4 DEF EnvMatches, EntriesMatch
          <6>6. env[p].depth < scopeDepth
            BY <6>3, OuterIs
          <6>. QED  BY <6>5, <6>6, EnvFacts
        <5>4. k = 0
          BY <5>3, FS_EmptySet
        <5>. HIDE DEF k
        <5>. QED  BY <2>2, <3>2, <4>1, <5>1, <5>2, <5>4 DEF CellsInPlace
      <4>. QED  BY <4>1, <4>5, <4>6
    <3>. QED  BY <3>3, <3>4, <3>5
  <2>. QED  BY <2>3, <2>4 DEF Balance
<1>. QED  BY <1>1, <1>2

LEMMA BalanceInitial ==
  ASSUME ScopesInit
  PROVE  Balance
<1>1. env = <<>> /\ variables = <<>> /\ code = <<>> /\ todo = <<Do("init")>>
  BY DEF ScopesInit, CompilerInit
<1>. DEFINE a == Do("init")
<1>2. a \in AllCalls /\ a.fn = "init"
  BY Fields DEF AllCalls
<1>3. <<>> \in Seq(AllCalls) /\ Total(<<>>) = 0 /\ AllSettled(<<>>)
  BY NothingPending
<1>. HIDE DEF a
<1>4. <<a>> \o <<>> = <<a>>
  BY <1>2
<1>5. Net(a) = 0 /\ Settled(a, 0)
  BY <1>2, PlainKinds
<1>6. Total(<<a>> \o <<>>) = Net(a) + Total(<<>>) /\ (AllSettled(<<a>> \o <<>>) <=> Settled(a, Total(<<>>)) /\ AllSettled(<<>>))
  BY <1>2, <1>3, FrontCall
<1>7. Total(todo) = 0 /\ AllSettled(todo)
  BY <1>1, <1>3, <1>4, <1>5, <1>6 DEF a
<1>8. Len(env) = 0 /\ Len(variables) = 0 /\ DOMAIN env = {}
  BY <1>1
<1>9. Height(code) = 0
  BY <1>1, HeightEmpty
<1>. QED  BY <1>7, <1>8, <1>9 DEF Balance, CellsInPlace

\* The invariant of the stack, along every compilation whose array literals have
\* elements that a byte can count.
LEMMA BalanceInvariant ==
  ScopesSpec /\ []ArraysCounted => [](TypeOK /\ SlotNumbering /\ EnvMatches /\ CodeWhole /\ Balance)
<1>. DEFINE Known == (TypeOK /\ SlotNumbering /\ EnvMatches) /\ (TypeOK /\ SlotNumbering /\ CodeWhole)
<1>1. ScopesInit => Balance
  BY BalanceInitial
<1>2. Known /\ Known' /\ ArraysCounted' /\ Balance /\ [ScopesNext]_scopeVars => Balance'
  BY BalanceStep
<1>. HIDE DEF Known
<1>3. ScopesSpec => []Known
  <2>. USE DEF Known
  <2>. QED  BY EnvInvariant, CodeInvariant, PTL
<1>4. ScopesSpec /\ []ArraysCounted => []Balance
  BY <1>1, <1>2, <1>3, PTL DEF ScopesSpec
<1>5. Known /\ Balance => TypeOK /\ SlotNumbering /\ EnvMatches /\ CodeWhole /\ Balance
  BY DEF Known
<1>. QED  BY <1>3, <1>4, <1>5, PTL

LEMMA NetFromIs == NetFrom = SuffixNet(todo)
BY DEF NetFrom, SuffixNet

\* Every instruction that is still to come finds the operands it pops, above the
\* variables, and the end of a statement finds none left over.
THEOREM OperandsAreReady == ScopesSpec /\ []ArraysCounted => []OperandsReady
<1>1. TypeOK /\ Balance => OperandsReady
  <2>1. SUFFICES ASSUME TypeOK, Balance, Compiling, NEW k \in DOMAIN todo
                 PROVE  Needs(todo[k]) <= -NetFrom[k]
    BY DEF OperandsReady
  <2>2. todo \in Seq(AllCalls) /\ Len(todo) \in Nat /\ k \in 1..Len(todo) /\ todo[k] \in AllCalls
    BY <2>1, AllCallsType, LenProperties, ElementOfSeq
  <2>. DEFINE f == SuffixNet(todo)
  <2>3. Summed(f, todo) /\ f \in [1..Len(todo) + 1 -> Int]
    BY <2>2, NetType, SuffixNetSums
  <2>4. Settled(todo[k], f[k + 1])
    BY <2>1, <2>2 DEF Balance, AllSettled
  <2>. HIDE DEF f
  <2>5. f[k] = Net(todo[k]) + f[k + 1] /\ f[k + 1] \in Int
    <3>1. k + 1 \in 1..Len(todo) + 1
      BY <2>2
    <3>. QED  BY <2>2, <2>3, <3>1 DEF Summed
  <2>6. Needs(todo[k]) \in Int /\ Net(todo[k]) \in Int
    BY <2>2, NetType
  <2>7. Needs(todo[k]) <= -f[k]
    BY <2>4, <2>5, <2>6 DEF Settled
  <2>. QED  BY <2>7, NetFromIs DEF f
<1>. QED  BY <1>1, BalanceInvariant, PTL

\* The stack never holds more than the variables of the open blocks and the
\* temporaries of the expressions being compiled, blocks closed or not.
THEOREM NothingLeftBehind == ScopesSpec /\ []ArraysCounted => []NoValueLeftBehind
<1>1. Balance => NoValueLeftBehind
  BY NetFromIs DEF Balance, NoValueLeftBehind, Total
<1>. QED  BY <1>1, BalanceInvariant, PTL

\* It holds exactly those, as long as no block with a variable has been closed:
\* the Pops at the end of a later one may take too many.
THEOREM StackIsBalanced == ScopesSpec /\ []ArraysCounted => [](NoneClosed => StackBalanced)
<1>1. Balance => (NoneClosed => StackBalanced)
  BY NetFromIs DEF Balance, StackBalanced, Total
<1>. QED  BY <1>1, BalanceInvariant, PTL

\* And as long as that holds, a variable that is found is where the VM will look
\* for it, and the one that the name means.
THEOREM LocalsAreInPlace == ScopesSpec /\ []ArraysCounted => [](NoneClosed => LocalsInPlace)
<1>1. TypeOK /\ EnvMatches /\ Balance /\ SlotNumbering => (NoneClosed => LocalsInPlace)
  <2>. SUFFICES ASSUME TypeOK, EnvMatches, Balance, SlotNumbering, NoneClosed, LooksUp,
                       NEW name, Candidates(name) # {}
                PROVE  /\ Visible(name) # {}
                       /\ FoundVariable(name).index = Innermost(name).cell
    BY DEF LocalsInPlace
  <2>1. /\ Len(env) \in Nat /\ DOMAIN env = 1..Len(env) /\ DOMAIN variables = 1..Len(env)
        /\ scopeDepth \in Int /\ \A i \in 1..Len(env) : env[i].depth \in Int
    BY EnvFacts DEF NoneClosed
  <2>2. \A i \in 1..Len(env) : /\ env[i].cell = i - 1 /\ variables[i].name = env[i].name
                               /\ variables[i].depth = env[i].depth
    <3>1. CellsInPlace
      BY DEF Balance, NoneClosed, LooksUp
    <3>2. \A i \in 1..Len(env) : env[i].cell = i - 1 /\ Entry(i) = i
      BY <2>1, <3>1 DEF CellsInPlace, Entry
    <3>. QED  BY <2>1, <3>2 DEF EnvMatches, EntriesMatch
  <2>. DEFINE C == Candidates(name)
              V == Visible(name)
  <2>3. C \subseteq V /\ C # {} /\ V \subseteq 1..Len(env)
    BY <2>1, <2>2 DEF Candidates, InScope, Visible
  <2>4. PICK v \in V : \A j \in V : j <= v
    <3>. HIDE DEF C, V
    <3>. QED  BY <2>1, <2>3, LastIndex
  <2>5. v \in C
    <3>1. PICK c \in C : TRUE
      BY <2>3
    <3>2. c \in 1..Len(env) /\ v \in 1..Len(env) /\ c <= v /\ env[v].name = name
      BY <2>1, <2>3, <2>4 DEF Visible
    <3>3. env[c].depth = scopeDepth
      BY <2>2, <3>2 DEF Candidates, InScope
    <3>4. \A j \in v..Len(env) : env[j].depth >= scopeDepth
      <4>1. SUFFICES ASSUME NEW j \in v..Len(env)  PROVE env[j].depth >= scopeDepth
        OBVIOUS
      <4>2. j \in 1..Len(env) /\ (c = j \/ c < j)
        BY <2>1, <3>2
      <4>3. env[c].depth <= env[j].depth
        BY <2>1, <3>2, <4>2 DEF EnvMatches, EnvOrdered
      <4>. QED  BY <2>1, <3>2, <3>3, <4>2, <4>3
    <3>5. env[v].depth = scopeDepth
      <4>1. env[v].depth <= scopeDepth
        BY <2>1, <3>2 DEF EnvMatches, EnvOpen
      <4>2. env[v].depth >= scopeDepth
        BY <2>1, <3>2, <3>4
      <4>. QED  BY <2>1, <3>2, <4>1, <4>2
    <3>6. \A j \in v..Len(env) : j \in 1..Len(env)
      BY <2>1, <3>2
    <3>7. Searched(v)
      <4>1. Len(variables) = Len(env)
        BY DEF NoneClosed
      <4>. QED  BY <2>2, <3>4, <3>6, <4>1 DEF Searched
    <3>. QED  BY <2>1, <2>2, <3>2, <3>5, <3>7 DEF Candidates, InScope
  <2>6. FoundVariable(name) = variables[v] /\ Innermost(name) = env[v]
    <3>1. \A x \in V : (\A j \in V : j <= x) => x = v
      BY <2>1, <2>3, <2>4
    <3>2. \A x \in C : (\A j \in C : j <= x) => x = v
      BY <2>1, <2>3, <2>4, <2>5
    <3>3. (CHOOSE x \in V : \A j \in V : j <= x) = v
      <4>. HIDE DEF V
      <4>. QED  BY <2>4, <3>1
    <3>4. (CHOOSE x \in C : \A j \in C : j <= x) = v
      <4>1. \A j \in C : j <= v
        BY <2>3, <2>4
      <4>. HIDE DEF C, V
      <4>. QED  BY <2>5, <3>2, <4>1
    <3>. QED  BY <3>3, <3>4 DEF FoundVariable, Innermost
  <2>7. variables[v].index = v - 1 /\ env[v].cell = v - 1
    BY <2>1, <2>2, <2>3, <2>4 DEF SlotNumbering
  <2>. QED  BY <2>3, <2>6, <2>7
<1>. QED  BY <1>1, BalanceInvariant, PTL

=============================================================================
