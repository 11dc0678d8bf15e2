------------------------------- MODULE AkwVM -------------------------------
(***************************************************************************)
(* The stack machine (src/vm.c, include/akwan/stack.h): one action per     *)
(* instruction handler, and one for the release of a heap object.          *)
(*                                                                         *)
(* The stack is the block of cells akw_stack_init allocates: popping moves *)
(* `top` down and leaves the cell's contents, and nothing but the handlers *)
(* stands between an index and the memory around the block.  Where the C   *)
(* code has no defined result (an index outside the block, a freed object, *)
(* a cell that was never written, something that is not a Ref used as one) *)
(* the machine may crash.                                                  *)
(*                                                                         *)
(* akw_value_release frees recursively.  The recursion is `releasing`: the *)
(* objects still to be released, the next one first.  The next instruction *)
(* starts when it is empty.                                                *)
(***************************************************************************)
EXTENDS AkwChunk

CONSTANTS
  StackSize,   \* the size akw_vm_init is given (AKW_VM_DEFAULT_STACK_SIZE)
  SampleInts   \* the integers an operation on a fraction may come to

ASSUME VMAssumption == StackSize \in Nat \ {0} /\ SampleInts \subseteq Int

VARIABLES
  ip,        \* position in code of the next instruction
  slots,     \* the cells, 0 to StackSize - 1
  top,       \* index of the top of the stack, -1 when it is empty
  vrc,       \* vm->rc
  status,    \* how akw_vm_run stands
  releasing  \* objects whose release is under way

vmVars == <<ip, slots, top, vrc, status, releasing>>

Cells == 0..StackSize - 1

VMTypeOK ==
  /\ ip \in Nat \ {0}
  /\ slots \in [Cells -> Values]
  /\ top \in -1..StackSize - 1
  /\ vrc \in {"Ok", "Type", "Range"}
  /\ status \in {"idle", "running", "returned", "failed", "crashed"}
  /\ releasing \in Seq(Values)

VMInit ==
  /\ ip = 1
  /\ slots = [c \in Cells |-> JunkValue]
  /\ top = -1
  /\ vrc = "Ok"
  /\ status = "idle"
  /\ releasing = <<>>

-----------------------------------------------------------------------------
\* What an instruction reads and writes.

Opcode == code[ip]
Operand == OperandAt(code, ip)

ByRefOps == {Op.GetLocalByRef, Op.SetLocalByRef}

\* The value in a cell; a cell that was never written may read as nil.
Load(c) == IF slots[c] = JunkValue THEN NilValue ELSE slots[c]

\* The cells a handler takes its operands from; do_return takes none.
StackOperands ==
  IF Opcode = Op.Return THEN {} ELSE top + 1 - Pops(Opcode, Operand)..top
LocalOperands == IF Opcode \in LocalOps \ {Op.LocalRef} THEN {Operand} ELSE {}

Reads ==
  LET direct == StackOperands \union LocalOperands
  IN IF Opcode \in ByRefOps /\ Operand \in Cells /\ slots[Operand].type = "Ref"
     THEN direct \union {slots[Operand].n} ELSE direct

\* The cell a handler writes without a check that it exists: do_array of no
\* elements writes above the top.
Unchecked == IF Opcode = Op.Array /\ Operand = 0 THEN {top + 1} ELSE {}

Freed(v) == IsObject(v) /\ ~heap[v.n].live

\* No outcome of the handler is defined ...
Undefined ==
  \/ ~(Reads \union Unchecked \subseteq Cells)
  \/ Opcode \in ByRefOps /\ Operand \in Cells /\ slots[Operand].type # "Ref"
  \/ Opcode = Op.Const /\ Operand >= Len(consts)
  \/ \E c \in Reads \intersect Cells : Freed(slots[c])

\* ... or it depends on what happens to be in a cell never written.
Uninitialised == \E c \in Reads \intersect Cells : slots[c] = JunkValue

Ready == status = "running" /\ releasing = <<>>

Executes(op) == Ready /\ Opcode = op /\ ~Undefined

Crash ==
  /\ Ready
  /\ Undefined \/ Uninitialised
  /\ status' = "crashed"
  /\ UNCHANGED <<chunkVars, ip, slots, top, vrc, releasing>>

\* Faulty variant: the operand is not skipped.
DispatchOperand == ip' = ip + 1 /\ UNCHANGED <<code, consts, vrc, status>>

Dispatch == ip' = ip + Width(Opcode) /\ UNCHANGED <<code, consts, vrc, status>>

VMError(error) ==
  /\ vrc' = error
  /\ status' = "failed"
  /\ UNCHANGED <<chunkVars, ip, slots, top, releasing>>

\* Faulty variant: the stack counts as full one cell too late.
PushTooFar(v) ==
  IF top = StackSize
  THEN VMError("Range")
  ELSE /\ top' = top + 1
       /\ slots' = [slots EXCEPT ![top + 1] = v]
       /\ heap' = Retain(heap, v)
       /\ Dispatch
       /\ UNCHANGED releasing

\* push, and the retain that follows it when it succeeds.
Push(v) ==
  IF top = StackSize - 1
  THEN VMError("Range")
  ELSE /\ top' = top + 1
       /\ slots' = [slots EXCEPT ![top + 1] = v]
       /\ heap' = Retain(heap, v)
       /\ Dispatch
       /\ UNCHANGED releasing

\* akw_value_release starts with v itself.
Release(v) == releasing' = IF IsObject(v) THEN <<v>> ELSE <<>>

-----------------------------------------------------------------------------
\* The handlers.

DoNil == Executes(Op.Nil) /\ Push(NilValue)
DoFalse == Executes(Op.False) /\ Push(BoolValue(FALSE))
DoTrue == Executes(Op.True) /\ Push(BoolValue(TRUE))
DoInt == Executes(Op.Int) /\ Push(IntValue(Operand))
DoConst == Executes(Op.Const) /\ Push(consts[Operand + 1])
DoLocalRef == Executes(Op.LocalRef) /\ Push(RefValue(Operand))
\* Faulty variant: the copy on the stack is not retained.
DoGetLocalUnretained ==
  /\ Executes(Op.GetLocal)
  /\ top < StackSize - 1
  /\ top' = top + 1
  /\ slots' = [slots EXCEPT ![top + 1] = Load(Operand)]
  /\ Dispatch
  /\ UNCHANGED <<heap, releasing>>

DoGetLocal == Executes(Op.GetLocal) /\ Push(Load(Operand))
DoGetLocalByRef == Executes(Op.GetLocalByRef) /\ Push(Load(slots[Operand].n))

\* Faulty variant: one value too many is popped.
PutObjectBelow(c, type, obj) ==
  /\ slots' = [slots EXCEPT ![c] = ObjectValue(type, NewId(heap))]
  /\ heap' = Append(heap, [obj EXCEPT !.refCount = 1])
  /\ top' = c - 1

\* A new object, retained, in cell c, which becomes the top.
PutObject(c, type, obj) ==
  /\ slots' = [slots EXCEPT ![c] = ObjectValue(type, NewId(heap))]
  /\ heap' = Append(heap, [obj EXCEPT !.refCount = 1])
  /\ top' = c

DoRange ==
  /\ Executes(Op.Range)
  /\ IF IsInt(Load(top - 1)) /\ IsInt(Load(top))
     THEN /\ PutObject(top - 1, "Range", RangeObject(slots[top - 1].n, slots[top].n))
          /\ Dispatch
          /\ UNCHANGED releasing
     ELSE VMError("Type")

\* The elements move from the stack into the array: no count changes.
DoArray ==
  LET first == top + 1 - Operand
  IN /\ Executes(Op.Array)
     /\ PutObject(first, "Array", ArrayObject([i \in 1..Operand |-> Load(first + i - 1)]))
     /\ Dispatch
     /\ UNCHANGED releasing

\* Faulty variant: the value is popped but not released.
DoPopUnreleased ==
  /\ Executes(Op.Pop)
  /\ top' = top - 1
  /\ Dispatch
  /\ UNCHANGED <<slots, heap, releasing>>

DoPop ==
  /\ Executes(Op.Pop)
  /\ top' = top - 1
  /\ Release(slots[top])
  /\ Dispatch
  /\ UNCHANGED <<slots, heap>>

\* The value on top goes into cell c and the value it held is released.  The
\* handler retains the value although it also takes it off the stack.
StoreTop(c) ==
  /\ heap' = Retain(heap, slots[top])
  /\ Release(slots[c])
  /\ slots' = [slots EXCEPT ![c] = Load(top)]
  /\ top' = top - 1
  /\ Dispatch

DoSetLocal == Executes(Op.SetLocal) /\ StoreTop(Operand)
\* Faulty variant: the variable that holds the reference is overwritten.
DoSetLocalByRefDirectly == Executes(Op.SetLocalByRef) /\ StoreTop(Operand)

DoSetLocalByRef == Executes(Op.SetLocalByRef) /\ StoreTop(slots[Operand].n)

\* range_get_element and array_get_element.
Element(obj, type, i) ==
  IF type = "Range" THEN IntValue(obj.start + i) ELSE obj.elems[i + 1]

ElementCount(obj, type) ==
  IF type = "Range" THEN RangeCount(obj) ELSE Len(obj.elems)

DoGetElement ==
  LET container == Load(top - 1)
      index == Load(top)
      obj == heap[container.n]
      elem == Element(obj, container.type, index.n)
  IN /\ Executes(Op.GetElement)
     /\ \/ /\ container.type \notin {"Range", "Array"} \/ ~IsInt(index)
           /\ VMError("Type")
        \/ /\ container.type \in {"Range", "Array"} /\ IsInt(index)
           /\ index.n \notin 0..ElementCount(obj, container.type) - 1
           /\ VMError("Range")
        \/ /\ container.type \in {"Range", "Array"} /\ IsInt(index)
           /\ index.n \in 0..ElementCount(obj, container.type) - 1
           /\ slots' = [slots EXCEPT ![top - 1] = elem]
           /\ heap' = Retain(heap, elem)
           /\ Release(container)
           /\ top' = top - 1
           /\ Dispatch

\* fmod truncates towards zero, \div and % of TLA+ towards minus infinity.
Abs(n) == IF n < 0 THEN -n ELSE n
Remainder(a, b) == IF a < 0 THEN -(Abs(a) % Abs(b)) ELSE a % Abs(b)

\* The numbers `a op b` may come to: exact on integers, which stay far below
\* 2^53 here; a division by zero gives an infinity or a NaN, of which C leaves
\* undefined whether akw_is_int takes it for an integer.  Here it is none.
Results(op, a, b) ==
  IF ~(IsInt(a) /\ IsInt(b))
  THEN {FractionValue} \union {IntValue(i) : i \in SampleInts}
  ELSE CASE op = Op.Add -> {IntValue(a.n + b.n)}
         [] op = Op.Sub -> {IntValue(a.n - b.n)}
         [] op = Op.Mul -> {IntValue(a.n * b.n)}
         [] op = Op.Div /\ b.n # 0 /\ Remainder(a.n, b.n) = 0 ->
              {IntValue(IF (a.n < 0) = (b.n < 0) THEN Abs(a.n) \div Abs(b.n)
                                                 ELSE -(Abs(a.n) \div Abs(b.n)))}
         [] op = Op.Mod /\ b.n # 0 -> {IntValue(Remainder(a.n, b.n))}
         [] OTHER -> {FractionValue}

\* do_add, do_sub, do_mul, do_div and do_mod.
DoArithmetic(op) ==
  /\ Executes(op)
  /\ IF IsNumber(Load(top - 1)) /\ IsNumber(Load(top))
     THEN \E result \in Results(op, slots[top - 1], slots[top]) :
            /\ slots' = [slots EXCEPT ![top - 1] = result]
            /\ top' = top - 1
            /\ Dispatch
            /\ UNCHANGED <<heap, releasing>>
     ELSE VMError("Type")

DoNeg ==
  /\ Executes(Op.Neg)
  /\ IF IsNumber(Load(top))
     THEN /\ slots' = [slots EXCEPT ![top].n = -@]
          /\ Dispatch
          /\ UNCHANGED <<top, heap, releasing>>
     ELSE VMError("Type")

DoReturn ==
  /\ Executes(Op.Return)
  /\ status' = "returned"
  /\ UNCHANGED <<chunkVars, ip, slots, top, vrc, releasing>>

\* One object is released: its count drops, and an array that reaches zero
\* passes the release on to its elements before it is freed.
ReleaseObject ==
  LET v == Head(releasing)
  IN /\ status # "crashed"
     /\ releasing # <<>>
     /\ IF Freed(v)
        THEN status' = "crashed" /\ UNCHANGED <<heap, releasing>>
        ELSE /\ heap' = Dropped(heap, v)
             /\ releasing' = Cascade(heap, v) \o Tail(releasing)
             /\ UNCHANGED status
     /\ UNCHANGED <<code, consts, ip, slots, top, vrc>>

Handler ==
  \/ DoNil \/ DoFalse \/ DoTrue \/ DoInt \/ DoConst \/ DoRange \/ DoArray \/ DoLocalRef
  \/ DoPop \/ DoGetLocal \/ DoSetLocal \/ DoGetLocalByRef \/ DoSetLocalByRef
  \/ DoGetElement \/ DoNeg \/ DoReturn
  \/ \E op \in ArithmeticOps : DoArithmetic(op)

VMNext == Handler \/ ReleaseObject \/ Crash

=============================================================================
