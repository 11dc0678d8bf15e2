------------------------------ MODULE AkwChunk ------------------------------
(***************************************************************************)
(* The chunk: the bytecode and the constants the compiler leaves for the   *)
(* VM (include/akwan/chunk.h, src/chunk.c), and the heap both allocate in. *)
(* `code` is a sequence of bytes: an opcode is its number in the AkwOpcode *)
(* enum, and an operand is the byte that follows it.                       *)
(***************************************************************************)
EXTENDS AkwValue

VARIABLES
  code,    \* chunk.code: the bytes emitted so far
  consts,  \* chunk.consts: the constants
  heap     \* every object allocated so far, by compiler or VM

chunkVars == <<code, consts, heap>>

Op ==
  [Nil |-> 0, False |-> 1, True |-> 2, Int |-> 3, Const |-> 4, Range |-> 5,
   Array |-> 6, LocalRef |-> 7, Pop |-> 8, GetLocal |-> 9, SetLocal |-> 10,
   GetLocalByRef |-> 11, SetLocalByRef |-> 12, GetElement |-> 13, Add |-> 14,
   Sub |-> 15, Mul |-> 16, Div |-> 17, Mod |-> 18, Neg |-> 19, Return |-> 20]

Opcodes == 0..20

ArithmeticOps == {Op.Add, Op.Sub, Op.Mul, Op.Div, Op.Mod}

LocalOps ==
  {Op.LocalRef, Op.GetLocal, Op.SetLocal, Op.GetLocalByRef, Op.SetLocalByRef}

\* The opcodes followed by one operand byte, as akw_dump_chunk steps over them.
OperandOps == LocalOps \union {Op.Int, Op.Const, Op.Array}

Width(op) == IF op \in OperandOps THEN 2 ELSE 1

\* How many values an instruction takes off the VM stack, and how many it
\* puts there.
Pops(op, operand) ==
  CASE op \in ArithmeticOps \union {Op.Range, Op.GetElement} -> 2
    [] op \in {Op.Pop, Op.SetLocal, Op.SetLocalByRef, Op.Neg, Op.Return} -> 1
    [] op = Op.Array -> operand
    [] OTHER -> 0

Pushes(op) ==
  IF op \in {Op.Pop, Op.SetLocal, Op.SetLocalByRef, Op.Return} THEN 0 ELSE 1

Effect(op, operand) == Pushes(op) - Pops(op, operand)

OperandAt(bytes, i) ==
  IF bytes[i] \in OperandOps /\ i < Len(bytes) THEN bytes[i + 1] ELSE 0

\* The positions a reader of `bytes` stops at when it starts at the first byte
\* and steps over whole instructions, as akw_dump_chunk and the VM do; a chunk
\* that decodes ends exactly at Len(bytes) + 1.
InstructionStarts(bytes) ==
  LET after(T, i) == {k \in {i} : k = 1 \/ \E j \in T : j <= Len(bytes) /\ k = j + Width(bytes[j])}
      upTo[i \in 0..Len(bytes) + 2] ==
        IF i = 0 THEN {} ELSE LET T == upTo[i - 1] IN T \union after(T, i)
  IN upTo[Len(bytes) + 2]

\* The height of the VM stack once `bytes` has run, from an empty stack.
Height(bytes) ==
  LET from[i \in 1..Len(bytes) + 2] ==
        IF i > Len(bytes) THEN 0
        ELSE Effect(bytes[i], OperandAt(bytes, i)) + from[i + Width(bytes[i])]
  IN from[1]

\* akw_chunk_deinit releases the constants that are objects, in order.
ConstantObjects == ObjectsOf(consts)

=============================================================================
