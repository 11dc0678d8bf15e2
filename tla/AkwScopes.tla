----------------------------- MODULE AkwScopes -----------------------------
(***************************************************************************)
(* What the code emitted so far does to the VM stack, next to what the     *)
(* compiler believes about it.                                             *)
(*                                                                         *)
(* The compiler never computes a stack height: it gives the n-th variable  *)
(* slot n and trusts that the value of its initialiser is in that cell     *)
(* when the VM gets there.  `env` records what is true: the variables of   *)
(* the blocks that are open, as the language defines them                  *)
(* (docs/README.md, "Scope"), each with the cell its value was really put  *)
(* in.  It observes the compiler and never constrains it.                  *)
(***************************************************************************)
EXTENDS AkwCompiler

VARIABLE env

scopeVars == <<vars, env>>

Declared == variables' # variables
Closed == scopeDepth' < scopeDepth

\* Where the value on top of the stack is.
TopCell == Height(code) - 1

\* How many variables of env belong to blocks around the current one.
Outer == CHOOSE n \in 0..Len(env) : \A i \in DOMAIN env : i <= n <=> env[i].depth < scopeDepth

ObserveScopes ==
  env' = IF Declared
         THEN LET var == variables'[Len(variables')]
              IN Append(env, [name |-> var.name, depth |-> var.depth,
                              index |-> var.index, cell |-> TopCell])
         ELSE IF Closed THEN SubSeq(env, 1, Outer) ELSE env

ScopesInit == CompilerInit /\ env = <<>>
ScopesNext == CompilerNext /\ ObserveScopes
ScopesSpec == ScopesInit /\ [][ScopesNext]_scopeVars /\ WF_scopeVars(ScopesNext)

-----------------------------------------------------------------------------
\* What is still to be compiled, by its effect on the stack.

Value1 == {"expr", "add", "mul", "unary", "prim", "int", "number", "whole",
           "string", "array", "ref", "refTo", "variable"}

Store1 == {"define", "defineInout", "assign"}

\* The temporaries an element of todo will have left on the stack, less those
\* it will have used up or turned into variables.
Net(item) ==
  CASE item.fn \in Value1 -> 1
    [] item.fn \in Store1 -> -1
    [] item.fn \in {"emit", "operator"} -> Effect(item.n, 0)
    [] item.fn \in {"arrayLoop", "arrayEnd"} -> 1 - item.n
    [] OTHER -> 0

\* The temporaries it finds there, and takes.
Needs(item) ==
  CASE item.fn \in Store1 -> 1
    [] item.fn \in {"emit", "operator"} -> Pops(item.n, 0)
    [] item.fn \in {"arrayLoop", "arrayEnd"} -> item.n
    [] item.fn \in {"addLoop", "mulLoop", "range", "indexLoop"} -> 1
    [] OTHER -> 0

\* NetFrom[k]: the sum of Net over the k-th and all later elements of todo.
NetFrom ==
  LET from[k \in 1..Len(todo) + 1] ==
        IF k > Len(todo) THEN 0 ELSE Net(todo[k]) + from[k + 1]
  IN from

Compiling == rc = "Ok" /\ ~CheckOnly

\* The variables a name may mean by the language, innermost last.
Visible(name) == {i \in DOMAIN env : env[i].name = name}
Innermost(name) == env[CHOOSE i \in Visible(name) : \A j \in Visible(name) : j <= i]

\* The compiler is about to look a name up.
LooksUp == Compiling /\ todo # <<>> /\ Head(todo).fn \in {"assign", "refTo", "variable"}

-----------------------------------------------------------------------------
\* Safety.

\* The law of the whole code generator: at every moment of the compilation the
\* stack the code so far leaves holds the variables of the open blocks and the
\* temporaries the pending calls still have to use up, and nothing else.
StackBalanced ==
  Compiling => Height(code) + NetFrom[1] = Len(env)

\* Half of it, which closed blocks leave true: no value is ever left behind.
NoValueLeftBehind ==
  Compiling => Height(code) + NetFrom[1] <= Len(env)

\* Every pending instruction finds the operands it pops, above the variables:
\* an operator never eats a variable.
OperandsReady ==
  Compiling => \A k \in DOMAIN todo : Needs(todo[k]) <= -NetFrom[k]

\* A variable the lookup returns is where the VM will look for it: the slot is
\* the cell of the variable the name means.
LocalsInPlace ==
  LooksUp => LET name == Head(todo).name
             IN Candidates(name) # {} => /\ Visible(name) # {}
                                         /\ FoundVariable(name).index = Innermost(name).cell

\* A name declared in the block being compiled means that declaration, whatever
\* blocks have been opened and closed around it (find_variable).
OwnBlockFirst ==
  LooksUp => LET name == Head(todo).name
                 own == {i \in Visible(name) : env[i].depth = scopeDepth}
             IN \A i \in own : /\ Candidates(name) # {}
                               /\ FoundVariable(name).index = env[i].index

\* docs/README.md, "Scope": a variable of an enclosing block is visible, one of
\* a closed block is not.
LookupFollowsScopes ==
  LooksUp => LET name == Head(todo).name
             IN (Candidates(name) # {}) = (Visible(name) # {})

\* Two variables of one open block have different names (define_variable).
NoDuplicates ==
  \A i, j \in DOMAIN env :
    env[i].name = env[j].name /\ env[i].depth = env[j].depth => i = j

-----------------------------------------------------------------------------
\* The code that has been emitted.

\* Whatever has been emitted, a reader that starts at the first byte stops
\* between instructions, and each operand is the index of a constant or of a
\* variable that exists (the emit_opcode/emit_byte pairs stay together).
CodeDecodes ==
  rc = "Ok" =>
    LET starts == InstructionStarts(code)
    IN /\ Len(code) + 1 \in starts
       /\ \A i \in starts \ {Len(code) + 1} :
            /\ code[i] \in Opcodes
            /\ code[i] = Op.Const => code[i + 1] < Len(consts)
            /\ code[i] \in LocalOps => code[i + 1] < Len(variables)

\* The last instruction emitted, by its position.
LastInstruction ==
  CHOOSE i \in InstructionStarts(code) : i <= Len(code) /\ i + Width(code[i]) = Len(code) + 1

\* A chunk that was compiled without error ends in the Nil, Return pair that
\* keeps the VM from running off its end (compile_chunk).
CompleteChunk ==
  Compiling /\ todo = <<>> =>
    /\ {Len(code) - 1, Len(code)} \subseteq InstructionStarts(code)
    /\ SubSeq(code, Len(code) - 1, Len(code)) = <<Op.Nil, Op.Return>>

\* The n-th Const instruction loads the n-th constant (compile_int, _number,
\* _string; docs/vm.md, "Const": push a constant value), as long as a byte can
\* count them.  Nothing refuses the 257th constant: its instruction loads the
\* first one, and so on around.
ConstantsInOrder ==
  rc = "Ok" =>
    LET loads == {i \in InstructionStarts(code) : i < Len(code) /\ code[i] = Op.Const}
    IN \A i \in loads : code[i + 1] = Byte(Cardinality({j \in loads : j < i}))

\* The value on top of the stack is a reference: to a variable, or the one that
\* an inout variable holds.
LeavesReference ==
  \/ code[LastInstruction] = Op.LocalRef
  \/ /\ code[LastInstruction] = Op.GetLocal
     /\ variables[code[LastInstruction + 1] + 1].isRef

\* It is that of an integer literal, small or large.
LeavesInteger ==
  \/ code[LastInstruction] = Op.Int
  \/ code[LastInstruction] = Op.Const /\ IsInt(consts[Len(consts)])

\* "cannot pass a value to the inout variable" (compile_inout_stmt): a program
\* that is accepted initialises an inout variable with a reference.
InoutTakesReference ==
  [][At("defineInout") /\ rc' = "Ok" => LeavesReference]_scopeVars

\* The part of it that the code keeps: the only values that get through are
\* integer literals, and no operator, element, array or variable read does.
InoutRejectsComputed ==
  [][At("defineInout") /\ rc' = "Ok" => LeavesReference \/ LeavesInteger]_scopeVars

=============================================================================
