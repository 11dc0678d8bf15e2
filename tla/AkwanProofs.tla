----------------------------- MODULE AkwanProofs -----------------------------
(***************************************************************************)
(* What holds of the whole program for every source text, every limit and  *)
(* every size of the stack: that its state keeps its types, that the VM    *)
(* reads nothing but whole instructions of the chunk, that the result main *)
(* reports is the one the compiler and the VM have come to, and that the   *)
(* counts of references agree with what holds them: nothing that is held   *)
(* is freed, and only an assignment leaks.  Of programs without closed     *)
(* blocks, that the machine's stack is what the compiler has counted on,   *)
(* that references stay valid and that nothing crashes.                    *)
(***************************************************************************)
EXTENDS Akwan, AkwScopesProofs

\* The values whose address, if they have one, is that of an object.
KnownIn(h) == {v \in Values : IsObject(v) => v.n \in DOMAIN h}
ObjectsIn(h) == {v \in KnownIn(h) : IsObject(v)}

\* A heap whose arrays hold nothing but what is in it.
Sound(h) ==
  /\ h \in Seq(Objects)
  /\ \A id \in DOMAIN h : h[id].elems \in Seq(KnownIn(h))

\* Every address that is anywhere is that of an object.
Addressed ==
  /\ Sound(heap)
  /\ slots \in [Cells -> KnownIn(heap)]
  /\ consts \in Seq(KnownIn(heap))
  /\ releasing \in Seq(ObjectsIn(heap))

-----------------------------------------------------------------------------
\* The heap.

LEMMA KnownGrows ==
  ASSUME NEW h, NEW g, DOMAIN h \subseteq DOMAIN g
  PROVE  KnownIn(h) \subseteq KnownIn(g) /\ ObjectsIn(h) \subseteq ObjectsIn(g)
BY DEF KnownIn, ObjectsIn

LEMMA SoundObjects ==
  ASSUME NEW h, Sound(h)
  PROVE  /\ DOMAIN h = 1..Len(h) /\ Len(h) \in Nat
         /\ \A id \in DOMAIN h : h[id] \in Objects /\ h[id].elems \in Seq(KnownIn(h))
<1>1. DOMAIN h = 1..Len(h) /\ Len(h) \in Nat
  BY LenProperties DEF Sound
<1>. QED  BY <1>1, ElementOfSeq DEF Sound

\* A heap with another object in the place of one with the same elements.
LEMMA ReplacedSound ==
  ASSUME NEW h, Sound(h), NEW id \in DOMAIN h, NEW obj \in Objects, obj.elems = h[id].elems
  PROVE  Sound([h EXCEPT ![id] = obj]) /\ DOMAIN [h EXCEPT ![id] = obj] = DOMAIN h
<1>. DEFINE g == [h EXCEPT ![id] = obj]
<1>1. h \in Seq(Objects) /\ id \in 1..Len(h) /\ DOMAIN h = 1..Len(h)
  BY SoundObjects DEF Sound
<1>2. g \in Seq(Objects) /\ Len(g) = Len(h) /\ \A i \in 1..Len(h) : g[i] = IF i = id THEN obj ELSE h[i]
  BY <1>1, ExceptSeq
<1>3. DOMAIN g = DOMAIN h
  OBVIOUS
<1>. HIDE DEF g
<1>4. KnownIn(g) = KnownIn(h)
  BY <1>3 DEF KnownIn
<1>5. ASSUME NEW i \in DOMAIN g  PROVE g[i].elems \in Seq(KnownIn(g))
  <2>1. g[i].elems = h[i].elems
    BY <1>1, <1>2, <1>3
  <2>. QED  BY <1>3, <1>4, <2>1 DEF Sound
<1>6. Sound(g)
  BY <1>2, <1>5 DEF Sound
<1>. QED  BY <1>3, <1>6 DEF g

LEMMA RetainSound ==
  ASSUME NEW h, Sound(h), NEW v \in KnownIn(h)
  PROVE  Sound(Retain(h, v)) /\ DOMAIN Retain(h, v) = DOMAIN h
<1>1. CASE ~IsObject(v)
  BY <1>1 DEF Retain
<1>2. CASE IsObject(v)
  <2>. DEFINE obj == [h[v.n] EXCEPT !.refCount = @ + 1]
  <2>1. v.n \in DOMAIN h
    BY <1>2 DEF KnownIn
  <2>2. h[v.n] \in Objects
    BY <2>1, SoundObjects
  <2>3. obj \in Objects /\ obj.elems = h[v.n].elems
    BY <2>2 DEF Objects
  <2>4. Retain(h, v) = [h EXCEPT ![v.n] = obj]
    BY <1>2, <2>1 DEF Retain
  <2>. HIDE DEF obj
  <2>5. Sound([h EXCEPT ![v.n] = obj]) /\ DOMAIN [h EXCEPT ![v.n] = obj] = DOMAIN h
    BY <2>1, <2>3, ReplacedSound
  <2>. QED  BY <2>4, <2>5
<1>. QED  BY <1>1, <1>2

LEMMA DroppedSound ==
  ASSUME NEW h, Sound(h), NEW v \in ObjectsIn(h)
  PROVE  Sound(Dropped(h, v)) /\ DOMAIN Dropped(h, v) = DOMAIN h
<1>. DEFINE refs == h[v.n].refCount - 1
            obj == [h[v.n] EXCEPT !.refCount = refs, !.live = (refs # 0)]
<1>1. v.n \in DOMAIN h
  BY DEF ObjectsIn, KnownIn
<1>2. h[v.n] \in Objects
  BY <1>1, SoundObjects
<1>3. obj \in Objects /\ obj.elems = h[v.n].elems
  <2>1. refs \in Int /\ (refs # 0) \in BOOLEAN
    BY <1>2 DEF Objects
  <2>. HIDE DEF refs
  <2>. QED  BY <1>2, <2>1 DEF Objects
<1>4. Dropped(h, v) = [h EXCEPT ![v.n] = obj]
  BY <1>1 DEF Dropped, Sound
<1>. HIDE DEF obj, refs
<1>5. Sound([h EXCEPT ![v.n] = obj]) /\ DOMAIN [h EXCEPT ![v.n] = obj] = DOMAIN h
  BY <1>1, <1>3, ReplacedSound
<1>. QED  BY <1>4, <1>5

LEMMA AppendSound ==
  ASSUME NEW h, Sound(h), NEW obj \in Objects, obj.elems \in Seq(KnownIn(h))
  PROVE  /\ Sound(Append(h, obj)) /\ DOMAIN Append(h, obj) = DOMAIN h \union {NewId(h)}
         /\ \A type \in ObjectTypes : ObjectValue(type, NewId(h)) \in KnownIn(Append(h, obj))
<1>. DEFINE g == Append(h, obj)
<1>1. h \in Seq(Objects) /\ DOMAIN h = 1..Len(h) /\ Len(h) \in Nat
  BY SoundObjects DEF Sound
<1>2. /\ g \in Seq(Objects) /\ Len(g) = Len(h) + 1
      /\ \A i \in 1..Len(h) : g[i] = h[i]
      /\ g[Len(h) + 1] = obj
  BY <1>1, AppendProperties
<1>. HIDE DEF g
<1>3. DOMAIN g = DOMAIN h \union {NewId(h)} /\ NewId(h) = Len(h) + 1
  <2>1. DOMAIN g = 1..Len(h) + 1
    BY <1>2, LenProperties
  <2>. QED  BY <1>1, <2>1 DEF NewId
<1>4. KnownIn(h) \subseteq KnownIn(g)
  BY <1>3, KnownGrows
<1>5. ASSUME NEW i \in DOMAIN g  PROVE g[i].elems \in Seq(KnownIn(g))
  <2>1. g[i].elems \in Seq(KnownIn(h))
    BY <1>1, <1>2, <1>3, SoundObjects
  <2>. QED  BY <1>4, <2>1, SeqMonotonic
<1>6. Sound(g)
  BY <1>2, <1>5 DEF Sound
<1>7. ASSUME NEW type \in ObjectTypes  PROVE ObjectValue(type, NewId(h)) \in KnownIn(g)
  BY <1>1, <1>3 DEF ObjectValue, KnownIn, Values, ValueTypes
<1>. QED  BY <1>3, <1>6, <1>7 DEF g

\* The objects of a sequence are among its values, each as often as there.
LEMMA ObjectsOfKnown ==
  ASSUME NEW h, NEW s \in Seq(KnownIn(h))
  PROVE  /\ ObjectsOf(s) \in Seq(ObjectsIn(h))
         /\ AlikeIn(ObjectsOf(s), s, ObjectsIn(h))
<1>. DEFINE S == KnownIn(h)
            M == ObjectsIn(h)
            F(f) == [i \in 0..Len(s) |->
                       IF i = 0 THEN <<>>
                       ELSE IF IsObject(s[i]) THEN Append(f[i - 1], s[i]) ELSE f[i - 1]]
            f == CHOOSE g : g = F(g)
<1>1. \A i \in 0..Len(s) : i # 0 => (IsObject(s[i]) <=> s[i] \in M)
  BY ElementOfSeq, LenProperties DEF ObjectsIn
<1>2. ASSUME NEW g  PROVE g = F(g) <=> Filters(g, s, M)
  <2>. DEFINE G == [i \in 0..Len(s) |->
                      IF i = 0 THEN <<>>
                      ELSE IF s[i] \in M THEN Append(g[i - 1], s[i]) ELSE g[i - 1]]
  <2>. HIDE DEF M
  <2>1. F(g) = G
    BY <1>1
  <2>. QED  BY <2>1 DEF Filters
<1>3. \E g : g = F(g)
  <2>1. s \in Seq(S)
    OBVIOUS
  <2>2. \E g : Filters(g, s, M)
    <3>. HIDE DEF M, S
    <3>. QED  BY <2>1, FilterExists
  <2>. HIDE DEF F, M
  <2>. QED  BY <1>2, <2>2
<1>4. f = F(f)
  <2>. HIDE DEF F
  <2>. QED  BY <1>3
<1>5. Filters(f, s, M)
  <2>. HIDE DEF f, F, M
  <2>. QED  BY <1>2, <1>4
<1>6. ObjectsOf(s) = f[Len(s)]
  BY DEF ObjectsOf
<1>7. /\ f[Len(s)] \in Seq(S \intersect M)
      /\ AlikeIn(f[Len(s)], s, M)
  <2>1. s \in Seq(S)
    OBVIOUS
  <2>. HIDE DEF f, F, M, S
  <2>. QED  BY <1>5, <2>1, FilterOccurrences
<1>8. S \intersect M = M
  BY DEF ObjectsIn
<1>. HIDE DEF f, F
<1>. QED  BY <1>6, <1>7, <1>8

-----------------------------------------------------------------------------
\* What an instruction may touch.

LEMMA StackFacts ==
  ASSUME VMTypeOK
  PROVE  /\ StackSize \in Nat \ {0} /\ top \in Int /\ -1 <= top /\ top < StackSize
         /\ ip \in Nat \ {0}
         /\ \A c : c \in Cells <=> c \in Int /\ 0 <= c /\ c < StackSize
BY VMAssumption DEF VMTypeOK, Cells

\* An operand is a byte.
LEMMA OperandType == ASSUME VMTypeOK, ChunkTypeOK  PROVE Operand \in Nat
<1>1. code \in Seq(Opcodes \union 0..UINT8_MAX) /\ ip \in Nat \ {0}
  BY DEF VMTypeOK, ChunkTypeOK
<1>2. Len(code) \in Nat
  BY <1>1, LenProperties
<1>3. CASE code[ip] \in OperandOps /\ ip < Len(code)
  <2>1. ip + 1 \in 1..Len(code)
    BY <1>1, <1>2, <1>3
  <2>2. code[ip + 1] \in Opcodes \union 0..UINT8_MAX
    BY <1>1, <2>1, ElementOfSeq
  <2>3. code[ip + 1] \in Nat
    BY <2>2, BoundsAssumption DEF Opcodes
  <2>. QED  BY <1>3, <2>3 DEF Operand, OperandAt
<1>4. CASE ~(code[ip] \in OperandOps /\ ip < Len(code))
  BY <1>4 DEF Operand, OperandAt
<1>. QED  BY <1>3, <1>4

LEMMA ExecutesFacts ==
  ASSUME NEW op, Executes(op)
  PROVE  /\ Opcode = op /\ releasing = <<>> /\ status = "running"
         /\ Reads \subseteq Cells /\ Unchecked \subseteq Cells
         /\ StackOperands \subseteq Cells /\ LocalOperands \subseteq Cells
         /\ op = Op.Const => ~(Operand >= Len(consts))
<1>1. Opcode = op /\ Ready /\ ~Undefined
  BY DEF Executes
<1>2. Reads \subseteq Cells /\ Unchecked \subseteq Cells /\ (op = Op.Const => ~(Operand >= Len(consts)))
  BY <1>1 DEF Undefined
<1>3. StackOperands \subseteq Reads /\ LocalOperands \subseteq Reads
  BY DEF Reads
<1>. QED  BY <1>1, <1>2, <1>3 DEF Ready

LEMMA PopsValues ==
  ASSUME NEW n
  PROVE  /\ \A op \in ArithmeticOps \union {Op.Range, Op.GetElement} : Pops(op, n) = 2
         /\ \A op \in {Op.Pop, Op.SetLocal, Op.SetLocalByRef, Op.Neg} : Pops(op, n) = 1
         /\ Pops(Op.Array, n) = n
<1>1. ASSUME NEW op \in ArithmeticOps \union {Op.Range, Op.GetElement}  PROVE Pops(op, n) = 2
  <2>1. op \notin {Op.Pop, Op.SetLocal, Op.SetLocalByRef, Op.Neg, Op.Return} /\ op # Op.Array
    BY DEF ArithmeticOps, Op
  <2>. QED  BY <2>1 DEF Pops
<1>2. ASSUME NEW op \in {Op.Pop, Op.SetLocal, Op.SetLocalByRef, Op.Neg}  PROVE Pops(op, n) = 1
  <2>1. op \notin ArithmeticOps \union {Op.Range, Op.GetElement} /\ op # Op.Array
    BY DEF ArithmeticOps, Op
  <2>. QED  BY <2>1 DEF Pops
<1>3. Pops(Op.Array, n) = n
  <2>1. /\ Op.Array \notin {Op.Pop, Op.SetLocal, Op.SetLocalByRef, Op.Neg, Op.Return}
        /\ Op.Array \notin ArithmeticOps \union {Op.Range, Op.GetElement}
    BY DEF ArithmeticOps, Op
  <2>. QED  BY <2>1 DEF Pops
<1>. QED  BY <1>1, <1>2, <1>3

LEMMA BinaryCells ==
  ASSUME VMTypeOK, NEW op \in ArithmeticOps \union {Op.Range, Op.GetElement}, Executes(op)
  PROVE  top - 1 \in Cells /\ top \in Cells
<1>1. Pops(op, Operand) = 2
  BY PopsValues
<1>2. op # Op.Return
  BY DEF ArithmeticOps, Op
<1>3. StackOperands = top + 1 - 2..top /\ StackOperands \subseteq Cells
  BY <1>1, <1>2, ExecutesFacts DEF StackOperands
<1>. QED  BY <1>3, StackFacts

LEMMA UnaryCell ==
  ASSUME VMTypeOK, NEW op \in {Op.Pop, Op.SetLocal, Op.SetLocalByRef, Op.Neg}, Executes(op)
  PROVE  top \in Cells
<1>1. op # Op.Return
  BY DEF Op
<1>2. Pops(op, Operand) = 1
  BY PopsValues
<1>3. StackOperands = top + 1 - 1..top /\ StackOperands \subseteq Cells
  BY <1>1, <1>2, ExecutesFacts DEF StackOperands
<1>. QED  BY <1>3, StackFacts

LEMMA LocalCell ==
  ASSUME NEW op \in LocalOps \ {Op.LocalRef}, Executes(op)
  PROVE  Operand \in Cells
BY ExecutesFacts DEF LocalOperands

LEMMA ByRefCell ==
  ASSUME NEW op \in ByRefOps, Executes(op)
  PROVE  slots[Operand].n \in Cells
<1>1. op \in LocalOps \ {Op.LocalRef}
  BY DEF ByRefOps, LocalOps, Op
<1>2. Operand \in Cells /\ Opcode = op /\ Reads \subseteq Cells
  BY <1>1, LocalCell, ExecutesFacts
<1>3. slots[Operand].type = "Ref"
  BY <1>2 DEF Executes, Undefined
<1>. QED  BY <1>2, <1>3 DEF Reads

LEMMA ArrayCells ==
  ASSUME VMTypeOK, ChunkTypeOK, Executes(Op.Array)
  PROVE  /\ top + 1 - Operand \in Cells
         /\ \A i \in 1..Operand : (top + 1 - Operand) + i - 1 \in Cells
<1>1. Op.Array # Op.Return
  BY DEF Op
<1>2. Pops(Op.Array, Operand) = Operand
  BY PopsValues
<1>3. StackOperands = top + 1 - Operand..top /\ StackOperands \subseteq Cells
  BY <1>1, <1>2, ExecutesFacts DEF StackOperands
<1>4. Operand \in Nat
  BY OperandType
<1>5. CASE Operand = 0
  <2>1. Unchecked = {top + 1} /\ Unchecked \subseteq Cells
    BY <1>5, ExecutesFacts DEF Unchecked
  <2>. QED  BY <1>5, <2>1, StackFacts
<1>6. CASE Operand # 0
  <2>1. top + 1 - Operand \in top + 1 - Operand..top
    BY <1>4, <1>6, StackFacts
  <2>2. \A i \in 1..Operand : (top + 1 - Operand) + i - 1 \in top + 1 - Operand..top
    BY <1>4, StackFacts
  <2>. QED  BY <1>3, <2>1, <2>2
<1>. QED  BY <1>5, <1>6

\* A value on the stack is known.
LEMMA LoadKnown ==
  ASSUME Addressed, NEW c \in Cells
  PROVE  slots[c] \in KnownIn(heap) /\ Load(c) \in KnownIn(heap) /\ Load(c) \in Values
<1>1. slots[c] \in KnownIn(heap)
  BY DEF Addressed
<1>2. NilValue \in KnownIn(heap)
  BY DEF NilValue, KnownIn, Values, ValueTypes, IsObject, ObjectTypes
<1>. QED  BY <1>1, <1>2 DEF Load, KnownIn

-----------------------------------------------------------------------------
\* A step of the machine keeps its types and its addresses.

Machine == VMTypeOK /\ ChunkTypeOK /\ Addressed
MachineKept == Machine' /\ UNCHANGED <<code, consts>>

LEMMA KnownValues == ASSUME NEW h  PROVE KnownIn(h) \subseteq Values /\ ObjectsIn(h) \subseteq Values
BY DEF KnownIn, ObjectsIn

\* What a value needs to be known: no address, or that of an object.
LEMMA PlainKnown ==
  ASSUME NEW h
  PROVE  /\ NilValue \in KnownIn(h) /\ FractionValue \in KnownIn(h)
         /\ \A b \in BOOLEAN : BoolValue(b) \in KnownIn(h)
         /\ \A i \in Int : IntValue(i) \in KnownIn(h) /\ RefValue(i) \in KnownIn(h)
BY DEF NilValue, FractionValue, BoolValue, IntValue, RefValue, KnownIn, Values, ValueTypes, IsObject,
       ObjectTypes, NumberTypes

\* The machine is what it was but for the heap, the stack and the releases.
LEMMA MachineWith ==
  ASSUME Machine, NEW h, Sound(h), DOMAIN heap \subseteq DOMAIN h, heap' = h,
         slots' \in [Cells -> KnownIn(h)], releasing' \in Seq(ObjectsIn(h)),
         top' \in -1..StackSize - 1, ip' \in Nat \ {0}, vrc' \in {"Ok", "Type", "Range"},
         status' \in {"idle", "running", "returned", "failed", "crashed"}, UNCHANGED <<code, consts>>
  PROVE  MachineKept
<1>1. consts' \in Seq(KnownIn(h))
  <2>1. KnownIn(heap) \subseteq KnownIn(h)
    BY KnownGrows
  <2>. QED  BY <2>1, SeqMonotonic DEF Machine, Addressed
<1>2. Addressed'
  BY <1>1 DEF Addressed
<1>3. VMTypeOK'
  <2>1. slots' \in [Cells -> Values]
    BY KnownValues
  <2>2. releasing' \in Seq(Values)
    BY KnownValues, SeqMonotonic
  <2>. QED  BY <2>1, <2>2 DEF VMTypeOK
<1>4. ChunkTypeOK'
  BY DEF Machine, ChunkTypeOK, Sound
<1>. QED  BY <1>2, <1>3, <1>4 DEF Machine, MachineKept

\* One cell is written and the next instruction is dispatched.
LEMMA WriteKeeps ==
  ASSUME Machine, NEW h, Sound(h), DOMAIN heap \subseteq DOMAIN h, heap' = h,
         NEW c \in Cells, NEW v \in KnownIn(h), slots' = [slots EXCEPT ![c] = v],
         releasing' \in Seq(ObjectsIn(h)),
         top' \in -1..StackSize - 1, Dispatch
  PROVE  MachineKept
<1>1. slots' \in [Cells -> KnownIn(h)]
  <2>1. slots \in [Cells -> KnownIn(h)]
    BY KnownGrows DEF Machine, Addressed
  <2>. QED  BY <2>1
<1>2. ip' \in Nat \ {0}
  BY DEF Machine, VMTypeOK, Dispatch, Width
<1>3. /\ vrc' \in {"Ok", "Type", "Range"} /\ UNCHANGED <<code, consts>>
      /\ status' \in {"idle", "running", "returned", "failed", "crashed"}
  BY DEF Machine, VMTypeOK, Dispatch
<1>. QED  BY <1>1, <1>2, <1>3, MachineWith

LEMMA ErrorKeeps ==
  ASSUME Machine, NEW error \in {"Type", "Range"}, VMError(error)
  PROVE  MachineKept
<1>1. UNCHANGED <<code, consts, heap, ip, slots, top, releasing>> /\ status' = "failed" /\ vrc' = error
  BY DEF VMError, chunkVars
<1>. QED  BY <1>1 DEF Machine, MachineKept, VMTypeOK, ChunkTypeOK, Addressed

LEMMA PushKeeps ==
  ASSUME Machine, Ready, NEW v \in KnownIn(heap), Push(v)
  PROVE  MachineKept
<1>1. CASE top = StackSize - 1
  BY <1>1, ErrorKeeps DEF Push
<1>2. CASE top # StackSize - 1
  <2>. DEFINE h == Retain(heap, v)
  <2>1. Sound(h) /\ DOMAIN h = DOMAIN heap
    BY RetainSound DEF Machine, Addressed
  <2>2. top + 1 \in Cells /\ top + 1 \in -1..StackSize - 1
    BY <1>2, StackFacts DEF Machine
  <2>3. /\ heap' = h /\ slots' = [slots EXCEPT ![top + 1] = v] /\ top' = top + 1 /\ Dispatch
        /\ releasing = <<>> /\ releasing' = <<>>
    BY <1>2 DEF Push, Ready
  <2>. HIDE DEF h
  <2>4. v \in KnownIn(h) /\ releasing' \in Seq(ObjectsIn(h))
    BY <2>1, <2>3, KnownGrows
  <2>. QED  BY <2>1, <2>2, <2>3, <2>4, WriteKeeps
<1>. QED  BY <1>1, <1>2

\* What the release of a value starts with.
LEMMA ReleaseType ==
  ASSUME NEW h, NEW v \in KnownIn(h), Release(v)
  PROVE  releasing' \in Seq(ObjectsIn(h))
<1>. DEFINE M == ObjectsIn(h)
<1>1. IsObject(v) => v \in M
  BY DEF ObjectsIn
<1>. HIDE DEF M
<1>2. releasing' \in Seq(M)
  BY <1>1 DEF Release
<1>. QED  BY <1>2 DEF M

\* A new object in a cell.
LEMMA PutObjectKeeps ==
  ASSUME Machine, Ready, NEW c \in Cells, NEW type \in ObjectTypes,
         NEW obj \in Objects, obj.elems \in Seq(KnownIn(heap)),
         PutObject(c, type, obj), Dispatch, UNCHANGED releasing
  PROVE  MachineKept
<1>. DEFINE new == [obj EXCEPT !.refCount = 1]
            h == Append(heap, new)
            v == ObjectValue(type, NewId(heap))
<1>1. new \in Objects /\ new.elems = obj.elems
  BY DEF Objects
<1>2. /\ heap' = h /\ slots' = [slots EXCEPT ![c] = v] /\ top' = c
      /\ releasing = <<>> /\ releasing' = <<>>
  BY DEF PutObject, Ready
<1>3. Sound(h) /\ DOMAIN heap \subseteq DOMAIN h /\ v \in KnownIn(h)
  <2>. HIDE DEF new
  <2>1. new.elems \in Seq(KnownIn(heap)) /\ Sound(heap)
    BY <1>1 DEF Machine, Addressed
  <2>. QED  BY <1>1, <2>1, AppendSound
<1>4. top' \in -1..StackSize - 1 /\ releasing' \in Seq(ObjectsIn(h))
  BY <1>2, StackFacts DEF Machine
<1>. HIDE DEF h, v
<1>. QED  BY <1>2, <1>3, <1>4, WriteKeeps

-----------------------------------------------------------------------------
\* The handlers.

LEMMA PushersKeep ==
  ASSUME Machine,
         DoNil \/ DoFalse \/ DoTrue \/ DoInt \/ DoConst \/ DoLocalRef \/ DoGetLocal \/ DoGetLocalByRef
  PROVE  MachineKept
<1>1. Addressed /\ Operand \in Int
  BY OperandType DEF Machine
<1>2. ASSUME NEW op, Executes(op)  PROVE Ready
  BY <1>2 DEF Executes
<1>3. CASE DoNil \/ DoFalse \/ DoTrue
  BY <1>2, <1>3, PlainKnown, PushKeeps DEF DoNil, DoFalse, DoTrue
<1>4. CASE DoInt \/ DoLocalRef
  BY <1>1, <1>2, <1>4, PlainKnown, PushKeeps DEF DoInt, DoLocalRef
<1>5. CASE DoConst
  <2>1. consts \in Seq(KnownIn(heap)) /\ Operand \in Nat /\ ~(Operand >= Len(consts))
    BY <1>5, OperandType, ExecutesFacts DEF DoConst, Machine, Addressed
  <2>2. Operand + 1 \in 1..Len(consts)
    BY <2>1, LenProperties
  <2>3. consts[Operand + 1] \in KnownIn(heap)
    BY <2>1, <2>2, ElementOfSeq
  <2>. QED  BY <1>2, <1>5, <2>3, PushKeeps DEF DoConst
<1>6. CASE DoGetLocal
  <2>1. Operand \in Cells
    BY <1>6, LocalCell DEF DoGetLocal, LocalOps, Op
  <2>2. Load(Operand) \in KnownIn(heap)
    BY <1>1, <2>1, LoadKnown
  <2>. QED  BY <1>2, <1>6, <2>2, PushKeeps DEF DoGetLocal
<1>7. CASE DoGetLocalByRef
  <2>1. slots[Operand].n \in Cells
    BY <1>7, ByRefCell DEF DoGetLocalByRef, ByRefOps
  <2>2. Load(slots[Operand].n) \in KnownIn(heap)
    BY <1>1, <2>1, LoadKnown
  <2>. QED  BY <1>2, <1>7, <2>2, PushKeeps DEF DoGetLocalByRef
<1>. QED  BY <1>3, <1>4, <1>5, <1>6, <1>7

\* A new object holds no elements, or those it is made of.
LEMMA NewObjects ==
  /\ StringObject \in Objects /\ StringObject.elems = <<>>
  /\ \A start, end \in Int : RangeObject(start, end) \in Objects /\ RangeObject(start, end).elems = <<>>
  /\ \A elems \in Seq(Values) : ArrayObject(elems) \in Objects /\ ArrayObject(elems).elems = elems
<1>1. StringObject \in Objects /\ StringObject.elems = <<>>
  <2>. DEFINE none == <<>>
  <2>1. none \in Seq(Values)
    OBVIOUS
  <2>. HIDE DEF none
  <2>2. [live |-> TRUE, refCount |-> 0, start |-> 0, end |-> 0, elems |-> none] \in Objects
    BY <2>1 DEF Objects
  <2>. QED  BY <2>2 DEF none, StringObject
<1>. HIDE DEF StringObject
<1>2. ASSUME NEW start \in Int, NEW end \in Int
      PROVE  RangeObject(start, end) \in Objects /\ RangeObject(start, end).elems = <<>>
  BY <1>1 DEF RangeObject, Objects
<1>3. ASSUME NEW elems \in Seq(Values)
      PROVE  ArrayObject(elems) \in Objects /\ ArrayObject(elems).elems = elems
  BY <1>1 DEF ArrayObject, Objects
<1>. QED  BY <1>1, <1>2, <1>3

LEMMA RangeKeeps ==
  ASSUME Machine, DoRange
  PROVE  MachineKept
<1>1. Executes(Op.Range) /\ Ready
  BY DEF DoRange, Executes
<1>2. CASE ~(IsInt(Load(top - 1)) /\ IsInt(Load(top)))
  BY <1>2, ErrorKeeps DEF DoRange
<1>3. CASE IsInt(Load(top - 1)) /\ IsInt(Load(top))
  <2>. DEFINE obj == RangeObject(slots[top - 1].n, slots[top].n)
  <2>1. top - 1 \in Cells /\ top \in Cells
    BY <1>1, BinaryCells DEF Machine
  <2>2. slots[top - 1] \in Values /\ slots[top] \in Values
    BY <2>1, LoadKnown, KnownValues DEF Machine
  <2>3. slots[top - 1].n \in Int /\ slots[top].n \in Int
    BY <2>2 DEF Values
  <2>4. obj \in Objects /\ obj.elems = <<>>
    BY <2>3, NewObjects
  <2>5. PutObject(top - 1, "Range", obj) /\ Dispatch /\ UNCHANGED releasing
    BY <1>3 DEF DoRange
  <2>. HIDE DEF obj
  <2>6. obj.elems \in Seq(KnownIn(heap)) /\ "Range" \in ObjectTypes
    BY <2>4 DEF ObjectTypes
  <2>. QED  BY <1>1, <2>1, <2>4, <2>5, <2>6, PutObjectKeeps
<1>. QED  BY <1>2, <1>3

LEMMA ArrayKeeps ==
  ASSUME Machine, DoArray
  PROVE  MachineKept
<1>. DEFINE first == top + 1 - Operand
            elems == [i \in 1..Operand |-> Load(first + i - 1)]
            obj == ArrayObject(elems)
<1>1. /\ Executes(Op.Array) /\ Ready /\ PutObject(first, "Array", obj)
      /\ Dispatch /\ UNCHANGED releasing
  BY DEF DoArray, Executes
<1>2. first \in Cells /\ \A i \in 1..Operand : first + i - 1 \in Cells
  BY <1>1, ArrayCells DEF Machine
<1>3. Operand \in Nat /\ Addressed
  BY OperandType DEF Machine
<1>4. elems \in Seq(KnownIn(heap))
  <2>. DEFINE M == KnownIn(heap)
  <2>1. \A i \in 1..Operand : Load(first + i - 1) \in M
    BY <1>2, <1>3, LoadKnown
  <2>. HIDE DEF M, first
  <2>2. elems \in Seq(M)
    BY <1>3, <2>1
  <2>. QED  BY <2>2 DEF M
<1>5. elems \in Seq(Values)
  <2>. HIDE DEF elems
  <2>. QED  BY <1>4, KnownValues, SeqMonotonic
<1>. HIDE DEF elems, first
<1>6. obj \in Objects /\ obj.elems = elems
  BY <1>5, NewObjects
<1>7. obj.elems \in Seq(KnownIn(heap)) /\ "Array" \in ObjectTypes
  BY <1>4, <1>6 DEF ObjectTypes
<1>. HIDE DEF obj
<1>. QED  BY <1>1, <1>2, <1>6, <1>7, PutObjectKeeps

LEMMA PopKeeps ==
  ASSUME Machine, DoPop
  PROVE  MachineKept
<1>1. top \in Cells
  BY UnaryCell DEF DoPop, Machine
<1>2. slots[top] \in KnownIn(heap) /\ slots \in [Cells -> KnownIn(heap)] /\ Sound(heap)
  BY <1>1, LoadKnown DEF Machine, Addressed
<1>3. releasing' \in Seq(ObjectsIn(heap)) /\ UNCHANGED <<slots, heap>>
  BY <1>2, ReleaseType DEF DoPop
<1>4. /\ top' \in -1..StackSize - 1 /\ ip' \in Nat \ {0}
      /\ vrc' \in {"Ok", "Type", "Range"} /\ UNCHANGED <<code, consts>>
      /\ status' \in {"idle", "running", "returned", "failed", "crashed"}
  <2>1. top' = top - 1
    BY DEF DoPop
  <2>. QED  BY <1>1, <2>1, StackFacts DEF DoPop, Dispatch, Width, Machine, VMTypeOK, Cells
<1>. QED  BY <1>2, <1>3, <1>4, MachineWith

LEMMA StoreKeeps ==
  ASSUME Machine, top \in Cells, NEW c \in Cells, StoreTop(c)
  PROVE  MachineKept
<1>. DEFINE h == Retain(heap, slots[top])
<1>1. /\ slots[top] \in KnownIn(heap) /\ slots[c] \in KnownIn(heap) /\ Load(top) \in KnownIn(heap)
      /\ Sound(heap)
  BY LoadKnown DEF Machine, Addressed
<1>2. Sound(h) /\ DOMAIN h = DOMAIN heap
  BY <1>1, RetainSound
<1>3. heap' = h /\ slots' = [slots EXCEPT ![c] = Load(top)] /\ Dispatch /\ Release(slots[c])
  BY DEF StoreTop
<1>. HIDE DEF h
<1>4. Load(top) \in KnownIn(h) /\ slots[c] \in KnownIn(h)
  BY <1>1, <1>2, KnownGrows
<1>5. releasing' \in Seq(ObjectsIn(h))
  BY <1>3, <1>4, ReleaseType
<1>6. top' \in -1..StackSize - 1
  BY StackFacts DEF StoreTop, Machine
<1>. QED  BY <1>2, <1>3, <1>4, <1>5, <1>6, WriteKeeps

LEMMA StoresKeep ==
  ASSUME Machine, DoSetLocal \/ DoSetLocalByRef
  PROVE  MachineKept
<1>1. CASE DoSetLocal
  <2>1. top \in Cells /\ Operand \in Cells
    BY <1>1, UnaryCell, LocalCell DEF DoSetLocal, Machine, LocalOps, Op
  <2>. QED  BY <1>1, <2>1, StoreKeeps DEF DoSetLocal
<1>2. CASE DoSetLocalByRef
  <2>1. top \in Cells /\ slots[Operand].n \in Cells
    BY <1>2, UnaryCell, ByRefCell DEF DoSetLocalByRef, Machine, ByRefOps
  <2>. QED  BY <1>2, <2>1, StoreKeeps DEF DoSetLocalByRef
<1>. QED  BY <1>1, <1>2

LEMMA GetElementKeeps ==
  ASSUME Machine, DoGetElement
  PROVE  MachineKept
<1>. DEFINE container == Load(top - 1)
            index == Load(top)
            obj == heap[container.n]
            elem == Element(obj, container.type, index.n)
            h == Retain(heap, elem)
<1>1. Executes(Op.GetElement)
  BY DEF DoGetElement
<1>2. top - 1 \in Cells /\ top \in Cells
  BY <1>1, BinaryCells DEF Machine
<1>3. container \in KnownIn(heap) /\ index \in Values /\ Sound(heap)
  BY <1>2, LoadKnown DEF Machine, Addressed
<1>4. CASE VMError("Type") \/ VMError("Range")
  BY <1>4, ErrorKeeps
<1>5. CASE /\ container.type \in {"Range", "Array"} /\ IsInt(index)
           /\ index.n \in 0..ElementCount(obj, container.type) - 1
           /\ slots' = [slots EXCEPT ![top - 1] = elem]
           /\ heap' = h
           /\ Release(container)
           /\ top' = top - 1
           /\ Dispatch
  <2>1. container.n \in DOMAIN heap /\ index.n \in Int
    BY <1>3, <1>5 DEF KnownIn, IsObject, ObjectTypes, Values
  <2>2. obj \in Objects /\ obj.elems \in Seq(KnownIn(heap))
    BY <1>3, <2>1, SoundObjects
  <2>. HIDE DEF container, index, obj, h
  <2>3. elem \in KnownIn(heap)
    <3>1. CASE container.type = "Range"
      <4>1. obj.start + index.n \in Int
        BY <2>1, <2>2 DEF Objects
      <4>. QED  BY <3>1, <4>1, PlainKnown DEF Element
    <3>2. CASE container.type = "Array"
      <4>1. index.n + 1 \in 1..Len(obj.elems)
        BY <1>5, <2>1, <2>2, <3>2, LenProperties DEF ElementCount
      <4>2. elem = obj.elems[index.n + 1]
        BY <3>2 DEF Element
      <4>. QED  BY <2>2, <4>1, <4>2, ElementOfSeq
    <3>. QED  BY <1>5, <3>1, <3>2
  <2>. HIDE DEF elem
  <2>4. Sound(h) /\ DOMAIN h = DOMAIN heap
    BY <1>3, <2>3, RetainSound DEF h
  <2>5. elem \in KnownIn(h) /\ container \in KnownIn(h)
    BY <1>3, <2>3, <2>4, KnownGrows
  <2>6. releasing' \in Seq(ObjectsIn(h))
    BY <1>5, <2>5, ReleaseType
  <2>7. top' \in -1..StackSize - 1
    BY <1>2, <1>5, StackFacts DEF Machine
  <2>. QED  BY <1>2, <1>5, <2>4, <2>5, <2>6, <2>7, WriteKeeps
<1>. QED  BY <1>4, <1>5 DEF DoGetElement

\* An operation on numbers gives a number.
LEMMA ResultsAre ==
  ASSUME NEW a \in Values, NEW b \in Values, NEW op, NEW v \in Results(op, a, b)
  PROVE  v = FractionValue \/ \E i \in Int : v = IntValue(i)
<1>1. a.n \in Int /\ b.n \in Int
  BY DEF Values
<1>2. ASSUME NEW i \in Int  PROVE Abs(i) \in Nat /\ (i # 0 => Abs(i) # 0)
  BY DEF Abs
<1>3. b.n # 0 => Remainder(a.n, b.n) \in Int
  <2>1. ASSUME b.n # 0  PROVE a.n % Abs(b.n) \in Int /\ Abs(a.n) % Abs(b.n) \in Int
    BY <1>1, <1>2, <2>1
  <2>. QED  BY <2>1 DEF Remainder
<1>4. b.n # 0 => Abs(a.n) \div Abs(b.n) \in Int
  BY <1>1, <1>2
<1>5. /\ a.n + b.n \in Int /\ a.n - b.n \in Int /\ a.n * b.n \in Int
  BY <1>1
<1>6. SampleInts \subseteq Int
  BY VMAssumption
<1>. HIDE DEF FractionValue, IntValue
<1>7. CASE ~(IsInt(a) /\ IsInt(b))
  BY <1>6, <1>7 DEF Results
<1>8. CASE IsInt(a) /\ IsInt(b)
  BY <1>3, <1>4, <1>5, <1>8 DEF Results
<1>. QED  BY <1>7, <1>8

LEMMA ResultsKnown ==
  ASSUME NEW a \in Values, NEW b \in Values, NEW op, NEW h
  PROVE  Results(op, a, b) \subseteq KnownIn(h)
BY ResultsAre, PlainKnown

LEMMA ArithmeticKeeps ==
  ASSUME Machine, NEW op \in ArithmeticOps, DoArithmetic(op)
  PROVE  MachineKept
<1>1. Executes(op) /\ Ready
  BY DEF DoArithmetic, Executes
<1>2. top - 1 \in Cells /\ top \in Cells
  BY <1>1, BinaryCells DEF Machine
<1>3. CASE ~(IsNumber(Load(top - 1)) /\ IsNumber(Load(top)))
  BY <1>3, ErrorKeeps DEF DoArithmetic
<1>4. CASE IsNumber(Load(top - 1)) /\ IsNumber(Load(top))
  <2>1. PICK result \in Results(op, slots[top - 1], slots[top]) :
          /\ slots' = [slots EXCEPT ![top - 1] = result]
          /\ top' = top - 1
          /\ Dispatch
          /\ UNCHANGED <<heap, releasing>>
    BY <1>4 DEF DoArithmetic
  <2>2. slots[top - 1] \in Values /\ slots[top] \in Values
    BY <1>2, LoadKnown, KnownValues DEF Machine
  <2>3. result \in KnownIn(heap)
    BY <2>2, ResultsKnown
  <2>4. Sound(heap) /\ releasing' \in Seq(ObjectsIn(heap)) /\ top' \in -1..StackSize - 1
    BY <1>2, <2>1, StackFacts DEF Machine, Addressed
  <2>. QED  BY <1>2, <2>1, <2>3, <2>4, WriteKeeps
<1>. QED  BY <1>3, <1>4

LEMMA NegKeeps ==
  ASSUME Machine, DoNeg
  PROVE  MachineKept
<1>1. top \in Cells
  BY UnaryCell DEF DoNeg, Machine
<1>2. CASE ~IsNumber(Load(top))
  BY <1>2, ErrorKeeps DEF DoNeg
<1>3. CASE IsNumber(Load(top))
  <2>. DEFINE v == [slots[top] EXCEPT !.n = -@]
  <2>1. slots[top] \in Values /\ slots \in [Cells -> KnownIn(heap)]
    BY <1>1, LoadKnown, KnownValues DEF Machine, Addressed
  <2>2. slots[top].type \in NumberTypes
    BY <1>3 DEF Load, NilValue, IsNumber, NumberTypes
  <2>3. v \in Values /\ v.type = slots[top].type
    BY <2>1 DEF Values
  <2>4. slots' = [slots EXCEPT ![top] = v] /\ Dispatch /\ UNCHANGED <<top, heap, releasing>>
    BY <1>1, <1>3, <2>1 DEF DoNeg
  <2>. HIDE DEF v
  <2>5. v \in KnownIn(heap)
    BY <2>2, <2>3 DEF KnownIn, IsObject, NumberTypes, ObjectTypes
  <2>6. Sound(heap) /\ releasing' \in Seq(ObjectsIn(heap)) /\ top' \in -1..StackSize - 1
    BY <2>4 DEF Machine, Addressed, VMTypeOK
  <2>. QED  BY <1>1, <2>4, <2>5, <2>6, WriteKeeps
<1>. QED  BY <1>2, <1>3

\* One release: the objects an array lets go are in the heap.
LEMMA ReleaseKeeps ==
  ASSUME Machine, ReleaseObject
  PROVE  MachineKept
<1>. DEFINE v == Head(releasing)
            h == Dropped(heap, v)
            more == Cascade(heap, v)
            rest == Tail(releasing)
<1>1. releasing # <<>> /\ releasing \in Seq(ObjectsIn(heap)) /\ Sound(heap)
  BY DEF ReleaseObject, Machine, Addressed
<1>2. v \in ObjectsIn(heap) /\ rest \in Seq(ObjectsIn(heap))
  BY <1>1, HeadTailProperties
<1>3. CASE Freed(v)
  BY <1>3 DEF ReleaseObject, Machine, MachineKept, VMTypeOK, ChunkTypeOK, Addressed
<1>4. CASE ~Freed(v)
  <2>1. heap' = h /\ releasing' = more \o rest /\ UNCHANGED <<status, code, consts, ip, slots, top, vrc>>
    BY <1>4 DEF ReleaseObject
  <2>2. Sound(h) /\ DOMAIN h = DOMAIN heap
    <3>. HIDE DEF v
    <3>. QED  BY <1>1, <1>2, DroppedSound
  <2>3. more \in Seq(ObjectsIn(heap))
    <3>. HIDE DEF v
    <3>1. v.n \in DOMAIN heap
      BY <1>2 DEF ObjectsIn, KnownIn
    <3>2. heap[v.n].elems \in Seq(KnownIn(heap))
      BY <1>1, <3>1, SoundObjects
    <3>3. ObjectsOf(heap[v.n].elems) \in Seq(ObjectsIn(heap))
      BY <3>2, ObjectsOfKnown
    <3>. QED  BY <3>3 DEF Cascade
  <2>. HIDE DEF v, h, more, rest
  <2>4. KnownIn(heap) \subseteq KnownIn(h) /\ ObjectsIn(heap) \subseteq ObjectsIn(h)
    BY <2>2, KnownGrows
  <2>5. releasing' \in Seq(ObjectsIn(h))
    <3>1. more \o rest \in Seq(ObjectsIn(heap))
      BY <1>2, <2>3, ConcatProperties
    <3>. QED  BY <2>1, <2>4, <3>1, SeqMonotonic
  <2>6. slots' \in [Cells -> KnownIn(h)]
    BY <2>1, <2>4 DEF Machine, Addressed
  <2>7. /\ top' \in -1..StackSize - 1 /\ ip' \in Nat \ {0} /\ vrc' \in {"Ok", "Type", "Range"}
        /\ status' \in {"idle", "running", "returned", "failed", "crashed"}
    BY <2>1 DEF Machine, VMTypeOK
  <2>. QED  BY <2>1, <2>2, <2>5, <2>6, <2>7, MachineWith
<1>. QED  BY <1>3, <1>4

LEMMA VMKeeps ==
  ASSUME Machine, VMNext
  PROVE  MachineKept
<1>1. CASE DoReturn \/ Crash
  BY <1>1 DEF DoReturn, Crash, chunkVars, Machine, MachineKept, VMTypeOK, ChunkTypeOK, Addressed
<1>2. CASE Handler /\ ~DoReturn
  BY <1>2, PushersKeep, RangeKeeps, ArrayKeeps, PopKeeps, StoresKeep, GetElementKeeps, ArithmeticKeeps,
     NegKeeps DEF Handler
<1>. QED  BY <1>1, <1>2, ReleaseKeeps DEF VMNext

-----------------------------------------------------------------------------
\* The compiler's side of the chunk.

\* What the compiler allocates, and what it keeps of it.
LEMMA ConstantsChange ==
  ASSUME TypeOK, CompilerNext
  PROVE  \/ UNCHANGED <<consts, heap>>
         \/ \E i \in Int : EmitConstant(IntValue(i), heap)
         \/ EmitConstant(FractionValue, heap)
         \/ EmitConstant(ObjectValue("String", NewId(heap)), Append(heap, StringObject))
<1>. USE DEF Then, SkipThen, Parses, Fail, EmitThen, chunkVars
<1>1. ASSUME NEW name, NEW byRef, NEW direct, NEW items, UseVariable(name, byRef, direct, items)
      PROVE  UNCHANGED <<consts, heap>>
  BY <1>1 DEF UseVariable
<1>2. CASE Statement
  <2>1. CASE BeginCompile \/ CompileChunk \/ CompileStmt \/ ConsumeToken \/ EmitOpcode
    BY <2>1 DEF BeginCompile, CompileChunk, CompileStmt, ConsumeToken, EmitOpcode
  <2>2. CASE CompileLetStmt \/ LetValue \/ CompileInoutStmt \/ CompileReturnStmt
    BY <2>2 DEF CompileLetStmt, LetValue, CompileInoutStmt, CompileReturnStmt
  <2>3. CASE PushScope \/ CompileBlockStmt \/ PopScope \/ Define \/ DefineInout
    BY <2>3 DEF PushScope, CompileBlockStmt, PopScope, Define, DefineInout
  <2>4. CASE AssignVariable
    BY <1>1, <2>4 DEF AssignVariable
  <2>. QED  BY <1>2, <2>1, <2>2, <2>3, <2>4 DEF Statement
<1>3. CASE Expression /\ ~(CompileInt \/ CompileNumber \/ CompileString)
  <2>1. CASE CompileExpr \/ RangeOperator \/ CompileAddExpr \/ AddLoop \/ CompileMulExpr \/ MulLoop
    BY <2>1 DEF CompileExpr, RangeOperator, CompileAddExpr, AddLoop, CompileMulExpr, MulLoop, OperatorLoop
  <2>2. CASE EmitOperator \/ CompileUnaryExpr \/ CompilePrimExpr
    BY <2>2 DEF EmitOperator, CompileUnaryExpr, CompilePrimExpr
  <2>3. CASE CompileArray \/ ArrayLoop \/ ArrayEnd \/ CompileRef \/ IndexLoop
    BY <2>3 DEF CompileArray, ArrayLoop, ArrayEnd, CompileRef, IndexLoop
  <2>4. CASE RefTo \/ CompileVariable
    BY <1>1, <2>4 DEF RefTo, CompileVariable
  <2>. QED  BY <1>3, <2>1, <2>2, <2>3, <2>4 DEF Expression
<1>4. ASSUME NEW fn \in {"int", "whole", "number"}, At(fn)  PROVE Head(todo).n \in Int
  <2>1. Head(todo) \in Calls
    BY <1>4, TodoType
  <2>2. Head(todo).n \in Nat
    BY <2>1, CallFields
  <2>. QED  BY <2>2
<1>5. CASE CompileInt
  <2>1. Head(todo).n \in Int
    BY <1>4, <1>5 DEF CompileInt
  <2>. QED  BY <1>5, <2>1 DEF CompileInt
<1>6. CASE CompileNumber
  <2>1. Head(todo).n \in Int
    BY <1>4, <1>6 DEF CompileNumber
  <2>2. CASE CheckOnly
    BY <1>6, <2>2 DEF CompileNumber
  <2>3. CASE ~CheckOnly
    <3>1. EmitConstant(NumberValue, heap)
      BY <1>6, <2>3 DEF CompileNumber
    <3>2. NumberValue = FractionValue \/ NumberValue = IntValue(Head(todo).n)
      BY DEF NumberValue
    <3>. QED  BY <2>1, <3>1, <3>2
  <2>. QED  BY <2>2, <2>3
<1>7. CASE CompileString
  BY <1>7 DEF CompileString
<1>. QED  BY <1>2, <1>3, <1>5, <1>6, <1>7 DEF CompilerNext

LEMMA ConstantAddressed ==
  ASSUME Addressed, UNCHANGED vmVars, NEW h, Sound(h), DOMAIN heap \subseteq DOMAIN h,
         NEW v \in KnownIn(h), EmitConstant(v, h)
  PROVE  Addressed'
<1>. DEFINE g == heap'
<1>1. Sound(g) /\ DOMAIN g = DOMAIN h
  BY RetainSound DEF EmitConstant
<1>2. KnownIn(heap) \subseteq KnownIn(g) /\ ObjectsIn(heap) \subseteq ObjectsIn(g) /\ v \in KnownIn(g)
  <2>. HIDE DEF g
  <2>. QED  BY <1>1, KnownGrows
<1>3. consts \in Seq(KnownIn(g)) /\ releasing \in Seq(ObjectsIn(g)) /\ slots \in [Cells -> KnownIn(g)]
  <2>. HIDE DEF g
  <2>. QED  BY <1>2, SeqMonotonic DEF Addressed
<1>4. consts' \in Seq(KnownIn(g))
  <2>1. consts' = consts \/ consts' = Append(consts, v)
    BY DEF EmitConstant
  <2>. HIDE DEF g
  <2>2. Append(consts, v) \in Seq(KnownIn(g))
    BY <1>2, <1>3, AppendProperties
  <2>. QED  BY <1>3, <2>1, <2>2
<1>. QED  BY <1>1, <1>3, <1>4 DEF Addressed, vmVars

LEMMA CompilerAddressed ==
  ASSUME TypeOK, Addressed, CompilerNext, UNCHANGED vmVars
  PROVE  Addressed'
<1>1. Sound(heap)
  BY DEF Addressed
<1>2. CASE UNCHANGED <<consts, heap>>
  BY <1>2 DEF Addressed, vmVars
<1>3. CASE \E i \in Int : EmitConstant(IntValue(i), heap)
  BY <1>1, <1>3, PlainKnown, ConstantAddressed
<1>4. CASE EmitConstant(FractionValue, heap)
  BY <1>1, <1>4, PlainKnown, ConstantAddressed
<1>5. CASE EmitConstant(ObjectValue("String", NewId(heap)), Append(heap, StringObject))
  <2>. DEFINE h == Append(heap, StringObject)
              v == ObjectValue("String", NewId(heap))
  <2>1. StringObject \in Objects /\ StringObject.elems \in Seq(KnownIn(heap)) /\ "String" \in ObjectTypes
    BY NewObjects DEF ObjectTypes
  <2>2. Sound(h) /\ DOMAIN heap \subseteq DOMAIN h /\ v \in KnownIn(h)
    <3>. HIDE DEF StringObject
    <3>. QED  BY <1>1, <2>1, AppendSound
  <2>3. EmitConstant(v, h)
    BY <1>5
  <2>. HIDE DEF h, v
  <2>. QED  BY <2>2, <2>3, ConstantAddressed
<1>. QED  BY <1>2, <1>3, <1>4, <1>5, ConstantsChange

-----------------------------------------------------------------------------
\* main.

ProgramInv == ProgramTypeOK /\ Addressed

LEMMA CompilerKept ==
  ASSUME TypeOK, ChunkTypeOK', UNCHANGED compilerVars
  PROVE  TypeOK'
BY DEF TypeOK, LexerTypeOK, ScopeTypeOK, Starting, compilerVars

\* The clean-up releases what is on top of the stack, or the constants.
LEMMA ReleasedKnown ==
  ASSUME Machine
  PROVE  /\ ConstantObjects \in Seq(ObjectsIn(heap))
         /\ top >= 0 => (IF IsObject(slots[top]) THEN <<slots[top]>> ELSE <<>>) \in Seq(ObjectsIn(heap))
<1>1. ConstantObjects \in Seq(ObjectsIn(heap))
  BY ObjectsOfKnown DEF ConstantObjects, Machine, Addressed
<1>2. ASSUME top >= 0
      PROVE  (IF IsObject(slots[top]) THEN <<slots[top]>> ELSE <<>>) \in Seq(ObjectsIn(heap))
  <2>. DEFINE M == ObjectsIn(heap)
              v == slots[top]
  <2>1. v \in KnownIn(heap)
    BY <1>2, StackFacts, LoadKnown DEF Machine
  <2>2. IsObject(v) => v \in M
    BY <2>1 DEF ObjectsIn
  <2>. HIDE DEF M, v
  <2>3. (IF IsObject(v) THEN <<v>> ELSE <<>>) \in Seq(M)
    BY <2>2
  <2>. QED  BY <2>3 DEF M, v
<1>. QED  BY <1>1, <1>2

LEMMA CleanUpKeeps ==
  ASSUME ProgramInv, PrintResult \/ ReportError \/ DeinitVM \/ Unwind
  PROVE  ProgramInv'
<1>1. Machine /\ TypeOK /\ phase \in Phases /\ top - 1 \in Int
  BY DEF ProgramInv, ProgramTypeOK, Machine, TypeOK, VMTypeOK
<1>2. /\ UNCHANGED <<code, heap, compilerVars, ip, slots, vrc>>
      /\ consts' \in {consts, <<>>}
      /\ phase' \in Phases
      /\ status' \in {status, "crashed"}
  BY <1>1 DEF PrintResult, ReportError, DeinitCompiler, DeinitVM, Unwind, vars, chunkVars, vmVars, Phases
<1>3. top' \in -1..StackSize - 1
  <2>1. top' = top \/ (top >= 0 /\ top' = top - 1)
    BY DEF PrintResult, ReportError, DeinitVM, Unwind, vmVars
  <2>. QED  BY <1>1, <2>1, StackFacts DEF Machine
<1>4. releasing' \in Seq(ObjectsIn(heap))
  <2>. DEFINE last == IF IsObject(slots[top]) THEN <<slots[top]>> ELSE <<>>
  <2>1. \/ releasing' = releasing
        \/ releasing' = ConstantObjects
        \/ top >= 0 /\ releasing' = last
        \/ top >= 0 /\ releasing' = last \o ConstantObjects
    BY DEF PrintResult, ReportError, DeinitVM, Unwind, vmVars
  <2>2. releasing \in Seq(ObjectsIn(heap))
    BY <1>1 DEF Machine, Addressed
  <2>3. ConstantObjects \in Seq(ObjectsIn(heap)) /\ (top >= 0 => last \in Seq(ObjectsIn(heap)))
    BY <1>1, ReleasedKnown
  <2>. HIDE DEF last
  <2>. QED  BY <2>1, <2>2, <2>3, ConcatProperties
<1>5. consts' \in Seq(KnownIn(heap)) /\ consts' \in Seq(Values) /\ Len(consts') <= MaxCapacity
  <2>1. CASE consts' = consts
    BY <1>1, <2>1 DEF Machine, Addressed, ChunkTypeOK
  <2>2. CASE consts' = <<>>
    BY <2>2, BoundsAssumption
  <2>. QED  BY <1>2, <2>1, <2>2
<1>6. Addressed'
  BY <1>1, <1>2, <1>4, <1>5 DEF Machine, Addressed
<1>7. VMTypeOK'
  <2>1. releasing' \in Seq(Values)
    BY <1>4, KnownValues, SeqMonotonic
  <2>. QED  BY <1>1, <1>2, <1>3, <2>1 DEF Machine, VMTypeOK
<1>8. TypeOK'
  <2>1. ChunkTypeOK'
    BY <1>1, <1>2, <1>5 DEF Machine, ChunkTypeOK
  <2>. QED  BY <1>1, <1>2, <2>1, CompilerKept
<1>. QED  BY <1>2, <1>6, <1>7, <1>8 DEF ProgramInv, ProgramTypeOK

LEMMA ProgramKeeps ==
  ASSUME ProgramInv, [ProgramNext]_programVars
  PROVE  ProgramInv'
<1>1. TypeOK /\ VMTypeOK /\ phase \in Phases /\ Addressed /\ Machine
  BY DEF ProgramInv, ProgramTypeOK, Machine, TypeOK
<1>2. ASSUME UNCHANGED <<vars, phase>>  PROVE TypeOK' /\ phase' \in Phases
  BY <1>1, <1>2 DEF vars, chunkVars, compilerVars, TypeOK, ChunkTypeOK, LexerTypeOK, ScopeTypeOK, Starting
<1>3. CASE UNCHANGED programVars
  <2>1. TypeOK' /\ phase' \in Phases
    BY <1>2, <1>3 DEF programVars
  <2>2. VMTypeOK' /\ Addressed'
    BY <1>1, <1>3 DEF programVars, vars, chunkVars, vmVars, VMTypeOK, Addressed
  <2>. QED  BY <2>1, <2>2 DEF ProgramInv, ProgramTypeOK
<1>4. CASE Compile
  <2>1. CompilerNext /\ UNCHANGED vmVars /\ phase' = phase
    BY <1>4 DEF Compile
  <2>2. TypeOK'
    BY <1>1, <2>1, TypeStep
  <2>3. VMTypeOK'
    BY <1>1, <2>1 DEF VMTypeOK, vmVars
  <2>4. Addressed'
    BY <1>1, <2>1, CompilerAddressed
  <2>. QED  BY <1>1, <2>1, <2>2, <2>3, <2>4 DEF ProgramInv, ProgramTypeOK
<1>5. CASE StartVM
  <2>1. UNCHANGED <<vars, ip, slots, top, vrc, releasing>> /\ status' = "running" /\ phase' = "run"
    BY <1>5 DEF StartVM
  <2>2. TypeOK' /\ phase' \in Phases
    BY <1>1, <2>1 DEF vars, chunkVars, compilerVars, TypeOK, ChunkTypeOK, LexerTypeOK, ScopeTypeOK, Starting, Phases
  <2>3. VMTypeOK' /\ Addressed'
    BY <1>1, <2>1 DEF vars, chunkVars, VMTypeOK, Addressed
  <2>. QED  BY <2>2, <2>3 DEF ProgramInv, ProgramTypeOK
<1>6. CASE Run \/ ReleaseInDeinit
  <2>1. VMNext /\ UNCHANGED <<compilerVars, phase>>
    BY <1>6 DEF Run, ReleaseInDeinit, VMNext
  <2>2. Machine'
    BY <1>1, <2>1, VMKeeps DEF MachineKept
  <2>3. TypeOK'
    BY <1>1, <2>1, <2>2, CompilerKept DEF Machine
  <2>. QED  BY <1>1, <2>1, <2>2, <2>3 DEF Machine, ProgramInv, ProgramTypeOK
<1>. QED  BY <1>3, <1>4, <1>5, <1>6, CleanUpKeeps DEF ProgramNext

LEMMA ProgramInitial ==
  ASSUME ProgramInit
  PROVE  ProgramInv
<1>1. TypeOK /\ heap = <<>> /\ consts = <<>>
  BY TypeInitial DEF ProgramInit, CompilerInit
<1>2. VMInit /\ phase \in Phases
  BY DEF ProgramInit, Phases
<1>3. JunkValue \in KnownIn(heap)
  BY DEF JunkValue, KnownIn, Values, ValueTypes, IsObject, ObjectTypes
<1>4. slots \in [Cells -> KnownIn(heap)]
  <2>. HIDE DEF JunkValue
  <2>. QED  BY <1>2, <1>3 DEF VMInit
<1>5. slots \in [Cells -> Values]
  BY <1>4, KnownValues
<1>6. VMTypeOK
  BY <1>2, <1>5, VMAssumption DEF VMInit, VMTypeOK
<1>7. Sound(heap)
  BY <1>1 DEF Sound
<1>8. Addressed
  BY <1>1, <1>2, <1>4, <1>7 DEF VMInit, Addressed
<1>. QED  BY <1>1, <1>2, <1>6, <1>8 DEF ProgramInv, ProgramTypeOK

LEMMA ProgramInvariant == ProgramSpec => []ProgramInv
BY ProgramInitial, ProgramKeeps, PTL DEF ProgramSpec

\* Whatever the source text, every part of the program keeps its type: the VM's
\* stack pointer stays within its stack, the code and the constants within their
\* limits.  It needs what Addressed says of every value anywhere, and Undefined's
\* account of what a handler may touch.
THEOREM ProgramTypesKept == ProgramSpec => []ProgramTypeOK
<1>1. ProgramInv => ProgramTypeOK
  BY DEF ProgramInv
<1>. QED  BY <1>1, ProgramInvariant, PTL

-----------------------------------------------------------------------------
\* What main reports.

\* Until the VM is started its stack is empty, and it is started only when the
\* compiler has accepted the text.
Reporting ==
  /\ phase = "compile" => top = -1
  /\ phase = "run" => rc = "Ok"
  /\ phase = "deinitCompiler" /\ rc # "Ok" => top = -1
  /\ ExitReports

LEMMA ReportingStep ==
  ASSUME ProgramInv, Reporting, [ProgramNext]_programVars
  PROVE  Reporting'
<1>1. top \in -1..StackSize - 1
  BY DEF ProgramInv, ProgramTypeOK, VMTypeOK
<1>2. CASE UNCHANGED programVars
  BY <1>2 DEF Reporting, ExitReports, programVars, vars, compilerVars, vmVars
<1>3. CASE Compile \/ StartVM
  BY <1>3 DEF Reporting, ExitReports, Compile, StartVM, vars, compilerVars, vmVars
<1>4. CASE Run
  BY <1>4 DEF Reporting, ExitReports, Run, compilerVars
<1>5. CASE ReleaseInDeinit
  BY <1>5 DEF Reporting, ExitReports, ReleaseInDeinit, ReleaseObject, compilerVars
<1>6. CASE PrintResult \/ ReportError
  BY <1>6 DEF Reporting, ExitReports, PrintResult, ReportError, DeinitCompiler, vars, compilerVars
<1>7. CASE DeinitVM
  BY <1>7 DEF Reporting, ExitReports, DeinitVM, vars, compilerVars, vmVars
<1>8. CASE Unwind
  <2>1. top >= 0 \/ top = -1
    BY <1>1, VMAssumption
  <2>. QED  BY <1>8, <2>1 DEF Reporting, ExitReports, Unwind, Failed, vars, compilerVars
<1>. QED  BY <1>2, <1>3, <1>4, <1>5, <1>6, <1>7, <1>8 DEF ProgramNext

LEMMA ReportingInvariant == ProgramSpec => []Reporting
<1>1. ProgramInit => Reporting
  BY DEF ProgramInit, VMInit, Reporting, ExitReports
<1>. QED  BY <1>1, ProgramInvariant, ReportingStep, PTL DEF ProgramSpec

\* Whatever the source text, main exits with success exactly when neither the
\* compiler nor the VM has reported an error, and with an empty stack.
THEOREM ResultIsReported == ProgramSpec => []ExitReports
<1>1. Reporting => ExitReports
  BY DEF Reporting
<1>. QED  BY <1>1, ReportingInvariant, PTL

-----------------------------------------------------------------------------
\* What the VM fetches.

\* The chunk that the VM runs: whole instructions, the last two Nil and Return.
ChunkReady ==
  /\ CodeOK(code, Len(consts), Len(variables))
  /\ {Len(code) - 1, Len(code)} \subseteq InstructionStarts(code)
  /\ code[Len(code) - 1] = Op.Nil /\ code[Len(code)] = Op.Return

\* While the compiler writes the chunk it is whole and will be complete; the VM
\* reads one that is both.
Fetching ==
  /\ phase = "compile" =>
       SlotNumbering /\ CodeWhole /\ ChunkIsLast /\ CompleteChunk /\ ip = 1
  /\ phase = "run" => ChunkReady
  /\ FetchesInstructions

\* At the start of an instruction there is all of it.
LEMMA InstructionWhole ==
  ASSUME NEW c, NEW nc, NEW nv, CodeOK(c, nc, nv), NEW i \in InstructionStarts(c), i <= Len(c)
  PROVE  c[i] \in Opcodes /\ (c[i] = Op.Const => OperandAt(c, i) < nc)
<1>1. c \in Seq(Bytes) /\ WellFormed(c, nc, nv) /\ Len(c) \in Nat
  BY LenProperties DEF CodeOK
<1>2. i \in 1..Len(c) /\ i + Width(c[i]) <= Len(c) + 1
  BY <1>1, InstructionFits
<1>3. c[i] \in Opcodes /\ (c[i] = Op.Const => c[i + 1] < nc)
  BY <1>1 DEF WellFormed
<1>4. ASSUME c[i] = Op.Const  PROVE OperandAt(c, i) = c[i + 1]
  <2>1. c[i] \in OperandOps /\ Width(c[i]) = 2
    BY <1>4 DEF OperandOps, Width
  <2>2. i < Len(c)
    BY <1>1, <1>2, <2>1
  <2>. QED  BY <2>1, <2>2 DEF OperandAt
<1>. QED  BY <1>3, <1>4

\* Where the chunk that the compiler has finished starts.
LEMMA ChunkStarts ==
  ASSUME TypeOK, Fetching, StartVM
  PROVE  ChunkReady /\ ip \in InstructionStarts(code) /\ ip <= Len(code)
<1>1. /\ CodeWhole /\ CompleteChunk /\ ip = 1 /\ rc = "Ok" /\ todo = <<>>
  BY DEF Fetching, StartVM
<1>2. CodeOK(code, Len(consts), Len(variables))
  BY <1>1 DEF CodeWhole
<1>3. code \in Seq(Bytes) /\ Len(code) \in Nat /\ StopsAt(InstructionStarts(code), code)
  BY <1>2, LenProperties, StartsEquation DEF CodeOK
<1>. DEFINE n == Len(code)
            part == SubSeq(code, n - 1, n)
<1>4. {n - 1, n} \subseteq InstructionStarts(code) /\ part = <<Op.Nil, Op.Return>>
  BY <1>1, ProgramAssumption DEF CompleteChunk, Compiling
<1>5. n - 1 \in 1..n /\ 1 \in InstructionStarts(code)
  BY <1>3, <1>4 DEF StopsAt
<1>6. part[1] = code[n - 1] /\ part[2] = code[n]
  <2>. HIDE DEF n
  <2>1. n \in Int /\ n - 1 \in Int /\ n - 1 <= n /\ n - (n - 1) + 1 = 2
        /\ (n - 1) + 1 - 1 = n - 1 /\ (n - 1) + 2 - 1 = n
    BY <1>3, <1>5 DEF n
  <2>2. \A i \in n - 1..n : code[i] \in Bytes
    BY <1>3, <1>5, ElementOfSeq DEF n
  <2>3. \A i \in 1..n - (n - 1) + 1 : part[i] = code[(n - 1) + i - 1]
    BY <2>1, <2>2, SubSeqProperties
  <2>. HIDE DEF part
  <2>4. 1 \in 1..2 /\ 2 \in 1..2
    OBVIOUS
  <2>. QED  BY <2>1, <2>3, <2>4
<1>. HIDE DEF part
<1>7. code[n - 1] = Op.Nil /\ code[n] = Op.Return
  BY <1>4, <1>6
<1>. QED  BY <1>1, <1>2, <1>3, <1>4, <1>5, <1>7 DEF ChunkReady

\* Behind any instruction but the last there is another.
LEMMA NextInstruction ==
  ASSUME ChunkReady, ip \in InstructionStarts(code), ip <= Len(code), Opcode # Op.Return
  PROVE  ip + Width(Opcode) \in InstructionStarts(code) /\ ip + Width(Opcode) <= Len(code)
<1>. DEFINE n == Len(code)
            next == ip + Width(code[ip])
<1>1. code \in Seq(Bytes) /\ WellFormed(code, Len(consts), Len(variables)) /\ n \in Nat
  BY LenProperties DEF ChunkReady, CodeOK
<1>2. ip \in 1..n /\ next <= n + 1 /\ Width(code[ip]) \in {1, 2}
  BY <1>1, InstructionFits, WidthType
<1>3. next \in InstructionStarts(code)
  <2>1. StopsAt(InstructionStarts(code), code) /\ next \in 1..n + 2
    BY <1>1, <1>2, StartsEquation
  <2>. QED  BY <2>1 DEF StopsAt
<1>4. next # n + 1
  <2>1. SUFFICES ASSUME next = n + 1  PROVE FALSE
    OBVIOUS
  <2>2. ip = n \/ (ip = n - 1 /\ Width(code[ip]) = 2)
    BY <1>1, <1>2, <2>1
  <2>3. Width(Op.Nil) = 1
    BY DEF Width, OperandOps, LocalOps, Op
  <2>. QED  BY <2>2, <2>3 DEF ChunkReady, Opcode
<1>. QED  BY <1>1, <1>2, <1>3, <1>4 DEF Opcode

\* Every handler that goes on dispatches the next instruction.
LEMMA Dispatches ==
  ASSUME VMNext, status' = "running"
  PROVE  status = "running" /\ (ip' = ip \/ (ip' = ip + Width(Opcode) /\ Opcode # Op.Return))
<1>1. ASSUME NEW error, VMError(error)  PROVE FALSE
  BY <1>1 DEF VMError
<1>2. ASSUME NEW v, Push(v)  PROVE Dispatch
  BY <1>1, <1>2 DEF Push
<1>3. ASSUME NEW op \in Opcodes \ {Op.Return}, Executes(op), Dispatch
      PROVE  status = "running" /\ ip' = ip + Width(Opcode) /\ Opcode # Op.Return
  BY <1>3 DEF Executes, Ready, Dispatch
<1>4. \A name \in DOMAIN Op : name # "Return" => Op[name] \in Opcodes \ {Op.Return}
  BY DEF Op, Opcodes
<1>5. CASE DoNil \/ DoFalse \/ DoTrue \/ DoInt \/ DoConst \/ DoLocalRef \/ DoGetLocal \/ DoGetLocalByRef
  <2>1. {Op.Nil, Op.False, Op.True, Op.Int, Op.Const, Op.LocalRef, Op.GetLocal, Op.GetLocalByRef}
          \subseteq Opcodes \ {Op.Return}
    BY DEF Op, Opcodes
  <2>. QED  BY <1>2, <1>3, <1>5, <2>1
            DEF DoNil, DoFalse, DoTrue, DoInt, DoConst, DoLocalRef, DoGetLocal, DoGetLocalByRef
<1>6. CASE DoRange \/ DoArray \/ DoPop \/ DoSetLocal \/ DoSetLocalByRef \/ DoGetElement \/ DoNeg
  <2>1. {Op.Range, Op.Array, Op.Pop, Op.SetLocal, Op.SetLocalByRef, Op.GetElement, Op.Neg}
          \subseteq Opcodes \ {Op.Return}
    BY DEF Op, Opcodes
  <2>. QED  BY <1>1, <1>3, <1>6, <2>1
            DEF DoRange, DoArray, DoPop, DoSetLocal, DoSetLocalByRef, DoGetElement, DoNeg, StoreTop
<1>7. CASE \E op \in ArithmeticOps : DoArithmetic(op)
  <2>1. ArithmeticOps \subseteq Opcodes \ {Op.Return}
    BY DEF ArithmeticOps, Op, Opcodes
  <2>. QED  BY <1>1, <1>3, <1>7, <2>1 DEF DoArithmetic
<1>8. CASE DoReturn \/ Crash
  BY <1>8 DEF DoReturn, Crash
<1>9. CASE ReleaseObject
  BY <1>9 DEF ReleaseObject
<1>. QED  BY <1>5, <1>6, <1>7, <1>8, <1>9 DEF VMNext, Handler

LEMMA FetchingStep ==
  ASSUME ProgramInv, ProgramInv', Fetching, [ProgramNext]_programVars
  PROVE  Fetching'
<1>1. TypeOK /\ TypeOK' /\ Machine
  BY DEF ProgramInv, ProgramTypeOK, Machine, TypeOK
<1>2. CASE UNCHANGED programVars
  BY <1>2 DEF programVars, vars, chunkVars, compilerVars, vmVars, Fetching, ChunkReady, FetchesInstructions,
     SlotNumbering, CodeWhole, ChunkIsLast, CompleteChunk, Compiling, Opcode, Operand
<1>3. CASE Compile
  <2>1. CompilerNext /\ UNCHANGED vmVars /\ phase = "compile" /\ phase' = "compile"
    BY <1>3 DEF Compile
  <2>2. SlotNumbering /\ CodeWhole /\ ChunkIsLast /\ CompleteChunk /\ ip = 1
    BY <2>1 DEF Fetching
  <2>3. (SlotNumbering /\ CodeWhole /\ ChunkIsLast /\ CompleteChunk)'
    BY <1>1, <2>1, <2>2, SlotStep, CodeStep, ChunkStaysLast, ChunkCompletes
  <2>. QED  BY <2>1, <2>2, <2>3 DEF Fetching, FetchesInstructions, vmVars
<1>4. CASE StartVM
  <2>1. ChunkReady /\ ip \in InstructionStarts(code) /\ ip <= Len(code)
    BY <1>1, <1>4, ChunkStarts
  <2>2. Opcode \in Opcodes /\ (Opcode = Op.Const => Operand < Len(consts))
    BY <2>1, InstructionWhole DEF ChunkReady, Opcode, Operand
  <2>. QED  BY <1>4, <2>1, <2>2 DEF StartVM, vars, chunkVars, compilerVars, Fetching, ChunkReady,
            FetchesInstructions, Opcode, Operand
<1>5. CASE Run
  <2>1. /\ VMNext /\ UNCHANGED <<compilerVars, code, consts>>
        /\ phase = "run" /\ phase' = "run"
    BY <1>1, <1>5, VMKeeps DEF Run, MachineKept
  <2>2. ChunkReady /\ ChunkReady'
    BY <2>1 DEF Fetching, ChunkReady, compilerVars
  <2>3. ASSUME status' = "running"
        PROVE  ip' \in InstructionStarts(code) /\ ip' <= Len(code)
    <3>1. status = "running" /\ (ip' = ip \/ (ip' = ip + Width(Opcode) /\ Opcode # Op.Return))
      BY <2>1, <2>3, Dispatches
    <3>2. ip \in InstructionStarts(code) /\ ip <= Len(code)
      BY <2>1, <3>1 DEF Fetching, FetchesInstructions
    <3>. QED  BY <2>2, <3>1, <3>2, NextInstruction
  <2>4. FetchesInstructions'
    <3>1. CodeOK(code', Len(consts'), Len(variables'))
      BY <2>2 DEF ChunkReady
    <3>2. ASSUME ip' \in InstructionStarts(code'), ip' <= Len(code')
          PROVE  code'[ip'] \in Opcodes /\ (code'[ip'] = Op.Const => OperandAt(code', ip') < Len(consts'))
      BY <3>1, <3>2, InstructionWhole
    <3>. QED  BY <2>1, <2>3, <3>2 DEF FetchesInstructions, Opcode, Operand
  <2>. QED  BY <2>1, <2>2, <2>4 DEF Fetching
<1>6. CASE PrintResult \/ ReportError
  BY <1>6 DEF PrintResult, ReportError, DeinitCompiler, vars, chunkVars, compilerVars, Fetching, ChunkReady,
     FetchesInstructions
<1>7. CASE DeinitVM \/ Unwind \/ ReleaseInDeinit
  BY <1>7 DEF DeinitVM, Unwind, ReleaseInDeinit, Fetching, FetchesInstructions
<1>. QED  BY <1>2, <1>3, <1>4, <1>5, <1>6, <1>7 DEF ProgramNext

LEMMA FetchingInvariant == ProgramSpec => []Fetching
<1>1. ProgramInit => Fetching
  <2>1. SUFFICES ASSUME ProgramInit  PROVE Fetching
    OBVIOUS
  <2>2. CompilerInit /\ ip = 1 /\ phase = "compile"
    BY <2>1 DEF ProgramInit, VMInit
  <2>. QED  BY <2>2, CodeInitial, ChunkInitial DEF Fetching, FetchesInstructions
<1>. QED  BY <1>1, ProgramInvariant, FetchingStep, PTL DEF ProgramSpec

\* Whatever the source text, the VM stops at whole instructions of the chunk only,
\* finds a handler for each and a constant for each Const: what the compiler
\* promises of the chunk is what the VM, which checks none of it, needs.
THEOREM FetchIsSafe == ProgramSpec => []FetchesInstructions
<1>1. Fetching => FetchesInstructions
  BY DEF Fetching
<1>. QED  BY <1>1, FetchingInvariant, PTL

-----------------------------------------------------------------------------
\* Who holds an object.

\* The values that are references to object id, and whether v is one.
Refs(id) == {v \in Values : IsObject(v) /\ v.n = id}
Is(v, id) == IF v \in Refs(id) THEN 1 ELSE 0

\* The stack as a sequence, from the bottom up, and the live arrays as a table.
StackOf(s, t) == [i \in 1..t + 1 |-> s[i - 1]]
LiveRows(h) == [o \in {o \in DOMAIN h : h[o].live} |-> h[o].elems]

\* How often the cells up to t, or the live arrays, hold object id.
OnStack(s, t, id) == Occurrences(StackOf(s, t), Refs(id))
InArrays(h, id) == Cardinality(Entries(LiveRows(h), Refs(id)))

\* What holds an object without being one.
Roots(s, t, c, r, id) == OnStack(s, t, id) + Occurrences(c, Refs(id)) + Occurrences(r, Refs(id))

\* Surplus of a state given by its parts: as Akwan defines it, and as a sum.
SurplusIn(h, s, t, c, r, id) ==
  LET live == {o \in DOMAIN h : h[o].live}
      counts(seq) == Cardinality({i \in DOMAIN seq : IsObject(seq[i]) /\ seq[i].n = id})
      onStack == Cardinality({k \in 0..t : IsObject(s[k]) /\ s[k].n = id})
      inArrays == Cardinality({p \in live \X (1..StackSize) :
                     /\ p[2] \in DOMAIN h[p[1]].elems
                     /\ IsObject(h[p[1]].elems[p[2]])
                     /\ h[p[1]].elems[p[2]].n = id})
      holders == onStack + inArrays + counts(c) + counts(r)
  IN IF h[id].live THEN h[id].refCount - holders ELSE -holders

Excess(h, s, t, c, r, id) ==
  (IF h[id].live THEN h[id].refCount ELSE 0) - (Roots(s, t, c, r, id) + InArrays(h, id))

\* No array has more elements than the stack has cells, as they come from there.
Short(h) == \A id \in DOMAIN h : Len(h[id].elems) <= StackSize

\* The parts of a state that the ledger is about.
Parts(h, s, t, c, r) ==
  /\ Sound(h) /\ Short(h)
  /\ s \in [Cells -> KnownIn(h)] /\ t \in -1..StackSize - 1
  /\ c \in Seq(KnownIn(h)) /\ r \in Seq(KnownIn(h))

LEMMA RefsValue == ASSUME NEW v \in Values, NEW id  PROVE v \in Refs(id) <=> IsObject(v) /\ v.n = id
BY DEF Refs

LEMMA CountIsOccurrences ==
  ASSUME NEW S, S \subseteq Values, NEW s \in Seq(S), NEW id
  PROVE  /\ Cardinality({i \in DOMAIN s : IsObject(s[i]) /\ s[i].n = id}) = Occurrences(s, Refs(id))
         /\ Occurrences(s, Refs(id)) \in Nat
<1>1. \A i \in DOMAIN s : s[i] \in Values
  BY ElementOfSeq, LenProperties
<1>2. {i \in DOMAIN s : IsObject(s[i]) /\ s[i].n = id} = {i \in DOMAIN s : s[i] \in Refs(id)}
  BY <1>1, RefsValue
<1>. QED  BY <1>2, OccurrencesType DEF Occurrences

LEMMA StackOfType ==
  ASSUME NEW S, NEW s \in [Cells -> S], NEW t \in -1..StackSize - 1
  PROVE  /\ StackOf(s, t) \in Seq(S) /\ Len(StackOf(s, t)) = t + 1
         /\ DOMAIN StackOf(s, t) = 1..t + 1
         /\ \A i \in 1..t + 1 : StackOf(s, t)[i] = s[i - 1] /\ i - 1 \in Cells
<1>1. StackSize \in Nat /\ t + 1 \in Nat /\ t + 1 <= StackSize
  BY VMAssumption
<1>2. \A i \in 1..t + 1 : i - 1 \in Cells
  BY <1>1 DEF Cells
<1>3. \A i \in 1..t + 1 : s[i - 1] \in S
  BY <1>2
<1>. QED  BY <1>1, <1>2, <1>3 DEF StackOf

\* The cells that hold an object are counted as the elements of the stack.
LEMMA CellsOnStack ==
  ASSUME NEW s \in [Cells -> Values], NEW t \in -1..StackSize - 1, NEW id
  PROVE  /\ Cardinality({k \in 0..t : IsObject(s[k]) /\ s[k].n = id}) = OnStack(s, t, id)
         /\ OnStack(s, t, id) \in Nat
<1>. DEFINE T == {k \in 0..t : IsObject(s[k]) /\ s[k].n = id}
            q == StackOf(s, t)
            M == {i \in DOMAIN q : q[i] \in Refs(id)}
<1>1. StackSize \in Nat /\ t \in Int /\ t < StackSize
  BY VMAssumption
<1>2. /\ q \in Seq(Values) /\ DOMAIN q = 1..t + 1
      /\ \A i \in 1..t + 1 : q[i] = s[i - 1] /\ i - 1 \in Cells
  BY StackOfType
<1>3. T \subseteq Int /\ IsFiniteSet(T)
  <2>1. IsFiniteSet(0..t)
    BY <1>1, FS_Interval
  <2>2. T \in SUBSET (0..t)
    OBVIOUS
  <2>3. 0..t \subseteq Int
    BY <1>1
  <2>. DEFINE U == 0..t
  <2>. HIDE DEF T, U
  <2>. QED  BY <2>1, <2>2, <2>3, FS_Subset DEF U
<1>4. Shifted(T, 1) = M
  <2>1. ASSUME NEW i  PROVE i \in Shifted(T, 1) <=> i \in M
    <3>1. i \in Shifted(T, 1) <=> \E k \in T : i = k + 1
      BY DEF Shifted
    <3>2. i \in M <=> i \in 1..t + 1 /\ IsObject(s[i - 1]) /\ s[i - 1].n = id
      <4>1. i \in 1..t + 1 => s[i - 1] \in Values
        BY <1>2
      <4>. HIDE DEF q
      <4>. QED  BY <1>2, <4>1, RefsValue
    <3>3. ASSUME NEW k \in T, i = k + 1  PROVE i \in M
      <4>1. i \in 1..t + 1 /\ i - 1 = k
        BY <1>1, <3>3
      <4>. QED  BY <3>2, <3>3, <4>1
    <3>4. ASSUME i \in M  PROVE \E k \in T : i = k + 1
      <4>1. i - 1 \in 0..t /\ i = (i - 1) + 1
        BY <1>1, <3>2, <3>4
      <4>. QED  BY <3>2, <3>4, <4>1
    <3>. QED  BY <3>1, <3>3, <3>4
  <2>. QED  BY <2>1
<1>. HIDE DEF T, q
<1>5. Cardinality(Shifted(T, 1)) = Cardinality(T)
  <2>. HIDE DEF M
  <2>1. 1 \in Int
    OBVIOUS
  <2>. QED  BY <1>3, <2>1, ShiftedSize
<1>6. Cardinality(M) = OnStack(s, t, id) /\ OnStack(s, t, id) \in Nat
  BY <1>2, OccurrencesType DEF OnStack, Occurrences, q
<1>. QED  BY <1>4, <1>5, <1>6 DEF T

LEMMA RowsFit ==
  ASSUME NEW h, Sound(h), Short(h)
  PROVE  /\ Len(h) \in Nat /\ StackSize \in Nat
         /\ Fitting(LiveRows(h), Values, Len(h), StackSize)
         /\ DOMAIN LiveRows(h) = {o \in DOMAIN h : h[o].live}
         /\ \A o \in DOMAIN LiveRows(h) : LiveRows(h)[o] = h[o].elems
<1>. DEFINE rows == LiveRows(h)
<1>1. DOMAIN rows = {o \in DOMAIN h : h[o].live} /\ \A o \in DOMAIN rows : rows[o] = h[o].elems
  BY DEF LiveRows
<1>2. DOMAIN h = 1..Len(h) /\ Len(h) \in Nat /\ StackSize \in Nat
  BY SoundObjects, VMAssumption
<1>3. \A o \in DOMAIN h : h[o].elems \in Seq(Values) /\ Len(h[o].elems) <= StackSize
  BY SoundObjects DEF Objects, Short
<1>. HIDE DEF rows
<1>4. Fitting(rows, Values, Len(h), StackSize)
  BY <1>1, <1>2, <1>3 DEF Fitting
<1>. QED  BY <1>1, <1>2, <1>4 DEF rows

\* The array elements that are object id are counted as the entries of the table.
LEMMA ElementsInArrays ==
  ASSUME NEW h, Sound(h), Short(h), NEW id
  PROVE  /\ {p \in {o \in DOMAIN h : h[o].live} \X (1..StackSize) :
               /\ p[2] \in DOMAIN h[p[1]].elems
               /\ IsObject(h[p[1]].elems[p[2]])
               /\ h[p[1]].elems[p[2]].n = id} = Entries(LiveRows(h), Refs(id))
         /\ InArrays(h, id) \in Nat
<1>. DEFINE rows == LiveRows(h)
            live == {o \in DOMAIN h : h[o].live}
            B == 1..StackSize
            P == {p \in live \X B :
               /\ p[2] \in DOMAIN h[p[1]].elems
               /\ IsObject(h[p[1]].elems[p[2]])
               /\ h[p[1]].elems[p[2]].n = id}
<1>1. /\ Len(h) \in Nat /\ StackSize \in Nat /\ Fitting(rows, Values, Len(h), StackSize)
      /\ DOMAIN rows = live /\ \A o \in live : rows[o] = h[o].elems
  BY RowsFit
<1>. HIDE DEF rows, live
<1>2. ASSUME NEW o \in live
      PROVE  /\ DOMAIN h[o].elems \subseteq B
             /\ \A i \in DOMAIN h[o].elems : h[o].elems[i] \in Values
  <2>1. h[o].elems \in Seq(Values) /\ Len(h[o].elems) <= StackSize
    BY <1>1 DEF Fitting
  <2>. QED  BY <1>1, <2>1, ElementOfSeq, LenProperties
<1>. HIDE DEF B
<1>3. ASSUME NEW o \in live
      PROVE  \A i : i \in Matches(rows[o], Refs(id)) <=>
               i \in DOMAIN h[o].elems /\ IsObject(h[o].elems[i]) /\ h[o].elems[i].n = id
  BY <1>1, <1>2, RefsValue DEF Matches
<1>4. \A p : p \in P <=> \E o \in live : \E i \in Matches(rows[o], Refs(id)) : p = <<o, i>>
  <2>1. ASSUME NEW p \in P  PROVE \E o \in live : \E i \in Matches(rows[o], Refs(id)) : p = <<o, i>>
    <3>1. p[1] \in live /\ p = <<p[1], p[2]>> /\ p[2] \in Matches(rows[p[1]], Refs(id))
      BY <1>3
    <3>. QED  BY <3>1
  <2>2. ASSUME NEW o \in live, NEW i \in Matches(rows[o], Refs(id))  PROVE <<o, i>> \in P
    <3>1. i \in DOMAIN h[o].elems /\ IsObject(h[o].elems[i]) /\ h[o].elems[i].n = id
      BY <1>3
    <3>. QED  BY <1>2, <3>1
  <2>. HIDE DEF P
  <2>. QED  BY <2>1, <2>2
<1>. HIDE DEF P
<1>5. P = Entries(rows, Refs(id))
  <2>1. \A p : p \in P <=> p \in Entries(rows, Refs(id))
    BY <1>1, <1>4, EntriesAre
  <2>. QED  BY <2>1
<1>6. Cardinality(Entries(rows, Refs(id))) \in Nat
  BY <1>1, EntriesFinite, FS_CardinalityType
<1>. QED  BY <1>5, <1>6 DEF P, rows, live, B, InArrays

LEMMA PartsTypes ==
  ASSUME NEW h, NEW s, NEW t, NEW c, NEW r, Parts(h, s, t, c, r)
  PROVE  /\ s \in [Cells -> Values] /\ c \in Seq(Values) /\ r \in Seq(Values)
         /\ t \in -1..StackSize - 1 /\ Sound(h) /\ Short(h)
         /\ \A id \in DOMAIN h : h[id].refCount \in Int
         /\ \A id : /\ OnStack(s, t, id) \in Nat /\ InArrays(h, id) \in Nat
                    /\ Occurrences(c, Refs(id)) \in Nat /\ Occurrences(r, Refs(id)) \in Nat
                    /\ Roots(s, t, c, r, id) \in Nat
<1>1. KnownIn(h) \subseteq Values
  BY KnownValues
<1>2. s \in [Cells -> Values] /\ t \in -1..StackSize - 1 /\ Sound(h) /\ Short(h)
  BY <1>1 DEF Parts
<1>3. c \in Seq(Values) /\ r \in Seq(Values)
  BY <1>1, SeqMonotonic DEF Parts
<1>4. \A id \in DOMAIN h : h[id].refCount \in Int
  BY <1>2, SoundObjects DEF Objects
<1>5. ASSUME NEW id
      PROVE  /\ OnStack(s, t, id) \in Nat /\ InArrays(h, id) \in Nat
             /\ Occurrences(c, Refs(id)) \in Nat /\ Occurrences(r, Refs(id)) \in Nat
  BY <1>2, <1>3, CellsOnStack, ElementsInArrays, OccurrencesType
<1>. QED  BY <1>2, <1>3, <1>4, <1>5 DEF Roots

\* The surplus of an object is its count less the sum.
LEMMA SurplusIsExcess ==
  ASSUME NEW h, NEW s, NEW t, NEW c, NEW r, Parts(h, s, t, c, r), NEW id \in DOMAIN h
  PROVE  /\ SurplusIn(h, s, t, c, r, id) = Excess(h, s, t, c, r, id)
         /\ Excess(h, s, t, c, r, id) \in Int
<1>1. /\ s \in [Cells -> Values] /\ t \in -1..StackSize - 1 /\ c \in Seq(Values) /\ r \in Seq(Values)
      /\ Sound(h) /\ Short(h) /\ h[id].refCount \in Int
      /\ Roots(s, t, c, r, id) \in Nat /\ InArrays(h, id) \in Nat
  BY PartsTypes
<1>. DEFINE counts(q) == Cardinality({i \in DOMAIN q : IsObject(q[i]) /\ q[i].n = id})
            onStack == Cardinality({k \in 0..t : IsObject(s[k]) /\ s[k].n = id})
            inArrays == Cardinality({p \in {o \in DOMAIN h : h[o].live} \X (1..StackSize) :
                     /\ p[2] \in DOMAIN h[p[1]].elems
                     /\ IsObject(h[p[1]].elems[p[2]])
                     /\ h[p[1]].elems[p[2]].n = id})
<1>2. onStack = OnStack(s, t, id)
  BY <1>1, CellsOnStack
<1>3. inArrays = InArrays(h, id)
  BY <1>1, ElementsInArrays DEF InArrays
<1>4. counts(c) = Occurrences(c, Refs(id)) /\ counts(r) = Occurrences(r, Refs(id))
  BY <1>1, CountIsOccurrences
<1>5. /\ OnStack(s, t, id) \in Nat /\ Occurrences(c, Refs(id)) \in Nat /\ Occurrences(r, Refs(id)) \in Nat
  BY PartsTypes
<1>6. SurplusIn(h, s, t, c, r, id) =
        LET holders == onStack + inArrays + counts(c) + counts(r)
        IN IF h[id].live THEN h[id].refCount - holders ELSE -holders
  BY DEF SurplusIn
<1>. HIDE DEF onStack, inArrays, counts
<1>. DEFINE a == OnStack(s, t, id)
            b == Occurrences(c, Refs(id))
            d == Occurrences(r, Refs(id))
            e == InArrays(h, id)
            n == h[id].refCount
<1>7. a \in Int /\ b \in Int /\ d \in Int /\ e \in Int /\ n \in Int
  BY <1>1, <1>5
<1>8. Excess(h, s, t, c, r, id) = (IF h[id].live THEN n ELSE 0) - (((a + b) + d) + e)
  BY DEF Excess, Roots
<1>9. SurplusIn(h, s, t, c, r, id)
        = IF h[id].live THEN n - (((a + e) + b) + d) ELSE -(((a + e) + b) + d)
  BY <1>2, <1>3, <1>4, <1>6
<1>. HIDE DEF a, b, d, e, n
<1>. QED  BY <1>7, <1>8, <1>9

LEMMA SurplusIs ==
  \A id : /\ Surplus(id) = SurplusIn(heap, slots, top, consts, releasing, id)
          /\ Surplus(id)' = SurplusIn(heap', slots', top', consts', releasing', id)
BY DEF Surplus, SurplusIn, Holders, Count, LiveIds

-----------------------------------------------------------------------------
\* What a step may do to the heap, and what becomes of the surplus.

\* The elements of an array are older than the array.
Older(h) ==
  \A id \in DOMAIN h : \A i \in DOMAIN h[id].elems :
    IsObject(h[id].elems[i]) => h[id].elems[i].n < id

\* What is allocated and not freed is counted.
Positive(h) == \A id \in DOMAIN h : h[id].live => h[id].refCount >= 1

Orderly(h) == Short(h) /\ Older(h) /\ Positive(h)

LEMMA IsType ==
  \A v, id : Is(v, id) \in {0, 1}
BY DEF Is

LEMMA IsValue ==
  ASSUME NEW v \in Values, NEW id
  PROVE  Is(v, id) = (IF IsObject(v) /\ v.n = id THEN 1 ELSE 0)
BY RefsValue DEF Is

\* A heap with the same arrays.
LEMMA SameRows ==
  ASSUME NEW h, NEW g, DOMAIN g = DOMAIN h,
         \A id \in DOMAIN h : g[id].live = h[id].live /\ g[id].elems = h[id].elems
  PROVE  /\ LiveRows(g) = LiveRows(h)
         /\ Short(h) => Short(g)
         /\ Older(h) => Older(g)
<1>1. LiveRows(g) = LiveRows(h)
  BY DEF LiveRows
<1>2. (Short(h) => Short(g)) /\ (Older(h) => Older(g))
  BY DEF Short, Older
<1>. QED  BY <1>1, <1>2

LEMMA RetainCounts ==
  ASSUME NEW h, Sound(h), NEW v \in KnownIn(h), NEW g, g = Retain(h, v)
  PROVE  /\ DOMAIN g = DOMAIN h
         /\ \A id \in DOMAIN h :
              /\ g[id].live = h[id].live /\ g[id].elems = h[id].elems
              /\ g[id].refCount = h[id].refCount + Is(v, id)
<1>0. v \in Values /\ \A id \in DOMAIN h : h[id] \in Objects /\ h[id].refCount \in Int
  BY KnownValues, SoundObjects DEF Objects
<1>1. CASE ~IsObject(v)
  <2>1. g = h /\ \A id : Is(v, id) = 0
    BY <1>0, <1>1, IsValue DEF Retain
  <2>. QED  BY <1>0, <2>1
<1>2. CASE IsObject(v)
  <2>1. g = [h EXCEPT ![v.n].refCount = @ + 1] /\ v.n \in DOMAIN h
    BY <1>2 DEF Retain, KnownIn
  <2>2. ASSUME NEW id \in DOMAIN h
        PROVE  /\ g[id].live = h[id].live /\ g[id].elems = h[id].elems
               /\ g[id].refCount = h[id].refCount + Is(v, id)
    <3>1. CASE id = v.n
      <4>1. g[id] = [h[id] EXCEPT !.refCount = @ + 1] /\ h[id] \in Objects
        BY <1>0, <2>1, <3>1
      <4>2. Is(v, id) = 1
        BY <1>0, <1>2, <3>1, IsValue
      <4>. QED  BY <4>1, <4>2 DEF Objects
    <3>2. CASE id # v.n
      <4>1. g[id] = h[id] /\ Is(v, id) = 0
        BY <1>0, <2>1, <3>2, IsValue
      <4>. QED  BY <1>0, <4>1
    <3>. QED  BY <3>1, <3>2
  <2>3. DOMAIN g = DOMAIN h
    BY <2>1
  <2>. QED  BY <2>2, <2>3
<1>. QED  BY <1>1, <1>2

\* A value is retained, and there is one more holder or there is none.
LEMMA RetainExcess ==
  ASSUME NEW h, NEW s, NEW t, NEW c, NEW r, Parts(h, s, t, c, r), Orderly(h),
         NEW v \in KnownIn(h), IsObject(v) => h[v.n].live, NEW g, g = Retain(h, v),
         NEW z, NEW u, NEW d, NEW q, NEW kept \in BOOLEAN,
         \A id \in DOMAIN h :
           Roots(z, u, d, q, id) = Roots(s, t, c, r, id) + (IF kept THEN Is(v, id) ELSE 0)
  PROVE  /\ Orderly(g)
         /\ \A id \in DOMAIN h :
              Excess(g, z, u, d, q, id)
                = Excess(h, s, t, c, r, id) + (IF kept THEN 0 ELSE Is(v, id))
<1>1. /\ DOMAIN g = DOMAIN h
      /\ \A id \in DOMAIN h :
           /\ g[id].live = h[id].live /\ g[id].elems = h[id].elems
           /\ g[id].refCount = h[id].refCount + Is(v, id)
  BY RetainCounts DEF Parts
<1>2. LiveRows(g) = LiveRows(h) /\ Short(g) /\ Older(g)
  BY <1>1, SameRows DEF Orderly
<1>3. \A id \in DOMAIN h : h[id].refCount \in Int /\ Is(v, id) \in {0, 1}
  BY PartsTypes, IsType
<1>4. Positive(g)
  BY <1>1, <1>3 DEF Orderly, Positive
<1>5. ASSUME NEW id \in DOMAIN h
      PROVE  Excess(g, z, u, d, q, id)
               = Excess(h, s, t, c, r, id) + (IF kept THEN 0 ELSE Is(v, id))
  <2>1. InArrays(g, id) = InArrays(h, id)
    BY <1>2 DEF InArrays
  <2>2. Roots(s, t, c, r, id) \in Nat /\ InArrays(h, id) \in Nat
    BY PartsTypes
  <2>3. ~h[id].live => Is(v, id) = 0
    BY KnownValues, IsValue
  <2>. QED  BY <1>1, <1>3, <2>1, <2>2, <2>3 DEF Excess
<1>. QED  BY <1>2, <1>4, <1>5 DEF Orderly

LEMMA UnknownOccurs ==
  ASSUME NEW h, NEW s \in Seq(KnownIn(h)), NEW id, id \notin DOMAIN h
  PROVE  Occurrences(s, Refs(id)) = 0
<1>1. \A i \in DOMAIN s : s[i] \in KnownIn(h)
  BY ElementOfSeq, LenProperties
<1>2. \A i \in DOMAIN s : s[i] \notin Refs(id)
  BY <1>1 DEF Refs, KnownIn
<1>. QED  BY <1>2, OccurrencesNone

\* Nothing holds what has not been allocated.
LEMMA NobodyHoldsNew ==
  ASSUME NEW h, NEW s, NEW t, NEW c, NEW r, Parts(h, s, t, c, r), NEW id, id \notin DOMAIN h
  PROVE  Roots(s, t, c, r, id) = 0 /\ InArrays(h, id) = 0
<1>1. StackOf(s, t) \in Seq(KnownIn(h))
  BY StackOfType DEF Parts
<1>2. Roots(s, t, c, r, id) = 0
  BY <1>1, UnknownOccurs DEF Parts, Roots, OnStack
<1>3. InArrays(h, id) = 0
  <2>. DEFINE rows == LiveRows(h)
              M == Refs(id)
  <2>1. Sound(h) /\ Short(h)
    BY DEF Parts
  <2>2. ASSUME NEW o \in DOMAIN rows, NEW j \in DOMAIN rows[o]  PROVE rows[o][j] \notin M
    <3>1. rows[o] = h[o].elems /\ o \in DOMAIN h
      BY <2>1, RowsFit
    <3>2. rows[o] \in Seq(KnownIn(h))
      BY <2>1, <3>1, SoundObjects
    <3>3. rows[o][j] \in KnownIn(h)
      BY <3>2, ElementOfSeq, LenProperties
    <3>. QED  BY <3>3 DEF Refs, KnownIn
  <2>. HIDE DEF rows, M
  <2>3. Cardinality(Entries(rows, M)) = 0
    BY <2>2, EntriesNone
  <2>. QED  BY <2>3 DEF InArrays, rows, M
<1>. QED  BY <1>2, <1>3

\* What row o of the table has of object id.
Own(h, o, id) == IF o \in DOMAIN h /\ h[o].live THEN Occurrences(h[o].elems, Refs(id)) ELSE 0

\* Two heaps with the same arrays, but for o.
AgreeBut(h, g, o) ==
  /\ DOMAIN h \ {o} = DOMAIN g \ {o}
  /\ \A p \in DOMAIN h \ {o} : h[p].live = g[p].live /\ h[p].elems = g[p].elems

LEMMA ArraysChange ==
  ASSUME NEW h, Sound(h), Short(h), NEW g, Sound(g), Short(g),
         NEW o, AgreeBut(h, g, o), NEW id
  PROVE  /\ InArrays(h, id) \in Nat /\ InArrays(g, id) \in Nat
         /\ Own(h, o, id) \in Nat /\ Own(g, o, id) \in Nat
         /\ InArrays(g, id) + Own(h, o, id) = InArrays(h, id) + Own(g, o, id)
<1>. DEFINE rows == LiveRows(h)
            others == LiveRows(g)
            m == Len(h)
            k == Len(g)
<1>1. SameBut(rows, others, o)
  BY DEF LiveRows, AgreeBut, SameBut
<1>2. /\ m \in Nat /\ k \in Nat /\ StackSize \in Nat
      /\ Fitting(rows, Values, m, StackSize) /\ Fitting(others, Values, k, StackSize)
  BY RowsFit
<1>3. Own(h, o, id) = InRow(rows, o, Refs(id)) /\ Own(g, o, id) = InRow(others, o, Refs(id))
  BY DEF Own, InRow, LiveRows
<1>. HIDE DEF rows, others, m, k
<1>4. \A M :
        /\ Cardinality(Entries(rows, M)) \in Nat /\ Cardinality(Entries(others, M)) \in Nat
        /\ InRow(rows, o, M) \in Nat /\ InRow(others, o, M) \in Nat
        /\ Cardinality(Entries(others, M)) + InRow(rows, o, M)
             = Cardinality(Entries(rows, M)) + InRow(others, o, M)
  BY <1>1, <1>2, EntriesChange
<1>. QED  BY <1>3, <1>4 DEF InArrays, rows, others

\* A new object gets a holder and takes over what it is made of.
HandsOver(h, s, t, c, r, obj, z, u, d, q) ==
  \A id : /\ Roots(z, u, d, q, id) \in Nat
          /\ Roots(z, u, d, q, id) + Occurrences(obj.elems, Refs(id))
               = Roots(s, t, c, r, id) + (IF id = NewId(h) THEN 1 ELSE 0)

\* An object is allocated, counted once, that holds what is in the heap.
Allocates(h, g, obj) ==
  /\ g = Append(h, obj)
  /\ obj \in Objects /\ obj.live /\ obj.refCount = 1
  /\ obj.elems \in Seq(KnownIn(h)) /\ Len(obj.elems) <= StackSize

LEMMA AppendExcess ==
  ASSUME NEW h, NEW s, NEW t, NEW c, NEW r, Parts(h, s, t, c, r), Orderly(h),
         NEW g, NEW obj, Allocates(h, g, obj), NEW z, NEW u, NEW d, NEW q,
         HandsOver(h, s, t, c, r, obj, z, u, d, q)
  PROVE  /\ Orderly(g)
         /\ \A id \in DOMAIN h : Excess(g, z, u, d, q, id) = Excess(h, s, t, c, r, id)
         /\ Excess(g, z, u, d, q, NewId(h)) = 0
<1>. DEFINE new == NewId(h)
<1>0. /\ g = Append(h, obj) /\ obj \in Objects /\ obj.live /\ obj.refCount = 1
      /\ obj.elems \in Seq(KnownIn(h)) /\ Len(obj.elems) <= StackSize
  BY DEF Allocates
<1>1. Sound(h) /\ Short(h) /\ h \in Seq(Objects) /\ DOMAIN h = 1..Len(h) /\ Len(h) \in Nat
  BY SoundObjects DEF Parts, Sound
<1>2. /\ Len(g) = Len(h) + 1 /\ new = Len(h) + 1 /\ DOMAIN g = 1..Len(h) + 1
      /\ \A id \in 1..Len(h) : g[id] = h[id]
      /\ g[new] = obj
  BY <1>0, <1>1, AppendProperties, LenProperties DEF NewId
<1>3. /\ new \notin DOMAIN h /\ DOMAIN g = DOMAIN h \union {new} /\ new \in Nat
      /\ \A id \in DOMAIN h : g[id] = h[id] /\ id < new
  BY <1>1, <1>2
<1>4. Sound(g)
  BY <1>0, <1>1, AppendSound
<1>. HIDE DEF new
<1>5. Short(g) /\ Positive(g)
  BY <1>0, <1>2, <1>3 DEF Orderly, Short, Positive
<1>6. Older(g)
  <2>1. ASSUME NEW id \in DOMAIN g, NEW i \in DOMAIN g[id].elems, IsObject(g[id].elems[i])
        PROVE  g[id].elems[i].n < id
    <3>1. CASE id \in DOMAIN h
      BY <1>3, <2>1, <3>1 DEF Orderly, Older
    <3>2. CASE id = new
      <4>1. obj.elems[i] \in KnownIn(h)
        BY <1>0, <1>2, <2>1, <3>2, ElementOfSeq, LenProperties
      <4>2. obj.elems[i].n \in DOMAIN h
        BY <1>2, <2>1, <3>2, <4>1 DEF KnownIn
      <4>. QED  BY <1>2, <1>3, <3>2, <4>2
    <3>. QED  BY <1>3, <3>1, <3>2
  <2>. QED  BY <2>1 DEF Older
<1>7. ASSUME NEW id
      PROVE  /\ InArrays(h, id) \in Nat /\ InArrays(g, id) \in Nat
             /\ Own(h, new, id) \in Nat /\ Own(g, new, id) \in Nat
             /\ InArrays(g, id) + Own(h, new, id) = InArrays(h, id) + Own(g, new, id)
  <2>1. AgreeBut(h, g, new)
    BY <1>3 DEF AgreeBut
  <2>. QED  BY <1>1, <1>4, <1>5, <2>1, ArraysChange
<1>8. ASSUME NEW id
      PROVE  Own(h, new, id) = 0 /\ Own(g, new, id) = Occurrences(obj.elems, Refs(id))
  BY <1>0, <1>2, <1>3 DEF Own
<1>9. ASSUME NEW id
       PROVE  /\ InArrays(g, id) = InArrays(h, id) + Occurrences(obj.elems, Refs(id))
              /\ InArrays(h, id) \in Nat /\ Occurrences(obj.elems, Refs(id)) \in Nat
  BY <1>7, <1>8
<1>10. ASSUME NEW id \in DOMAIN h
       PROVE  Excess(g, z, u, d, q, id) = Excess(h, s, t, c, r, id)
  <2>1. id \in DOMAIN g /\ id # new /\ g[id] = h[id]
    BY <1>3
  <2>2. Roots(z, u, d, q, id) + Occurrences(obj.elems, Refs(id)) = Roots(s, t, c, r, id)
    BY <2>1, PartsTypes DEF new, HandsOver
  <2>3. Roots(s, t, c, r, id) \in Nat /\ h[id].refCount \in Int
    BY PartsTypes
  <2>4. Roots(z, u, d, q, id) \in Nat
    BY DEF HandsOver
  <2>. QED  BY <1>9, <2>1, <2>2, <2>3, <2>4 DEF Excess
<1>11. Excess(g, z, u, d, q, new) = 0
  <2>1. Roots(s, t, c, r, new) = 0 /\ InArrays(h, new) = 0
    BY <1>3, NobodyHoldsNew
  <2>2. Occurrences(obj.elems, Refs(new)) = 0
    BY <1>0, <1>3, UnknownOccurs
  <2>3. Roots(z, u, d, q, new) + Occurrences(obj.elems, Refs(new)) = Roots(s, t, c, r, new) + 1
    BY DEF new, HandsOver
  <2>4. Roots(z, u, d, q, new) \in Nat
    BY DEF HandsOver
  <2>5. Roots(z, u, d, q, new) = 1 /\ InArrays(g, new) = 0
    BY <1>9, <2>1, <2>2, <2>3, <2>4
  <2>. QED  BY <1>0, <1>2, <2>5 DEF Excess
<1>. QED  BY <1>5, <1>6, <1>10, <1>11 DEF Orderly, new

-----------------------------------------------------------------------------
\* An object is released.

LEMMA OccursIs ==
  \A v, id : (IF v \in Refs(id) THEN 1 ELSE 0) = Is(v, id)
BY DEF Is

LEMMA DroppedCounts ==
  ASSUME NEW h, Sound(h), NEW v \in ObjectsIn(h), NEW g, g = Dropped(h, v)
  PROVE  /\ Sound(g) /\ DOMAIN g = DOMAIN h /\ v.n \in DOMAIN h
         /\ AgreeBut(h, g, v.n)
         /\ \A id \in DOMAIN h : g[id].elems = h[id].elems
         /\ \A id \in DOMAIN h \ {v.n} : g[id] = h[id]
         /\ g[v.n].refCount = h[v.n].refCount - 1
         /\ g[v.n].live <=> h[v.n].refCount # 1
<1>. DEFINE o == v.n
            refs == h[o].refCount - 1
            obj == [h[o] EXCEPT !.refCount = refs, !.live = (refs # 0)]
<1>1. o \in DOMAIN h
  BY DEF ObjectsIn, KnownIn
<1>2. h[o] \in Objects
  BY <1>1, SoundObjects
<1>3. h[o].refCount \in Int
  BY <1>2 DEF Objects
<1>4. /\ obj.elems = h[o].elems /\ obj.refCount = h[o].refCount - 1
      /\ obj.live <=> h[o].refCount # 1
  <2>1. (refs # 0) <=> (h[o].refCount # 1)
    BY <1>3
  <2>. HIDE DEF refs
  <2>2. obj.elems = h[o].elems /\ obj.refCount = refs /\ obj.live = (refs # 0)
    BY <1>2 DEF Objects
  <2>. QED  BY <2>1, <2>2 DEF refs
<1>5. g = [h EXCEPT ![o] = obj]
  BY <1>1 DEF Dropped, Sound
<1>6. Sound(g) /\ DOMAIN g = DOMAIN h
  BY DroppedSound
<1>. HIDE DEF obj, refs
<1>7. g[o] = obj /\ \A id \in DOMAIN h \ {o} : g[id] = h[id]
  BY <1>1, <1>5
<1>8. AgreeBut(h, g, o)
  BY <1>6, <1>7 DEF AgreeBut
<1>. QED  BY <1>1, <1>4, <1>6, <1>7, <1>8

\* What an array that is freed lets go is as much as it held.
LEMMA CascadeOccurs ==
  ASSUME NEW h, Sound(h), NEW v \in ObjectsIn(h), NEW id \in DOMAIN h
  PROVE  /\ Cascade(h, v) \in Seq(ObjectsIn(h))
         /\ Occurrences(Cascade(h, v), Refs(id))
              = IF h[v.n].refCount = 1 THEN Occurrences(h[v.n].elems, Refs(id)) ELSE 0
<1>. DEFINE s == h[v.n].elems
<1>1. v.n \in DOMAIN h
  BY DEF ObjectsIn, KnownIn
<1>2. s \in Seq(KnownIn(h))
  BY <1>1, SoundObjects
<1>. HIDE DEF s
<1>3. ObjectsOf(s) \in Seq(ObjectsIn(h)) /\ AlikeIn(ObjectsOf(s), s, ObjectsIn(h))
  BY <1>2, ObjectsOfKnown
<1>4. Refs(id) \subseteq ObjectsIn(h)
  BY DEF Refs, ObjectsIn, KnownIn
<1>5. Occurrences(ObjectsOf(s), Refs(id)) = Occurrences(s, Refs(id))
  BY <1>3, <1>4 DEF AlikeIn
<1>6. Cascade(h, v) = IF h[v.n].refCount = 1 THEN ObjectsOf(s) ELSE <<>>
  BY DEF Cascade, s
<1>7. Occurrences(<<>>, Refs(id)) = 0
  <2>. DEFINE none == <<>>
  <2>1. \A k \in DOMAIN none : none[k] \notin Refs(id)
    OBVIOUS
  <2>. HIDE DEF none
  <2>2. Occurrences(none, Refs(id)) = 0
    BY <2>1, OccurrencesNone
  <2>. QED  BY <2>2 DEF none
<1>. QED  BY <1>3, <1>5, <1>6, <1>7 DEF s

\* The next object of those to be released goes, and the others with those that
\* it held take its place.
ReleasesNext(h, r, g, q) ==
  /\ r \in Seq(ObjectsIn(h)) /\ r # <<>> /\ h[Head(r).n].live
  /\ g = Dropped(h, Head(r))
  /\ q = Cascade(h, Head(r)) \o Tail(r)

LEMMA DropExcess ==
  ASSUME NEW h, NEW s, NEW t, NEW c, NEW r, Parts(h, s, t, c, r), Orderly(h),
         NEW g, NEW q, ReleasesNext(h, r, g, q)
  PROVE  /\ Orderly(g) /\ DOMAIN g = DOMAIN h
         /\ \A id \in DOMAIN h : Excess(g, s, t, c, q, id) = Excess(h, s, t, c, r, id)
<1>. DEFINE v == Head(r)
            o == v.n
            more == Cascade(h, v)
            rest == Tail(r)
<1>0. h[o].live /\ g = Dropped(h, v) /\ q = more \o rest
  BY DEF ReleasesNext
<1>1. v \in ObjectsIn(h) /\ rest \in Seq(ObjectsIn(h)) /\ Sound(h) /\ Short(h)
  BY HeadTailProperties DEF Parts, ReleasesNext
<1>. HIDE DEF v
<1>2. /\ Sound(g) /\ DOMAIN g = DOMAIN h /\ o \in DOMAIN h
      /\ AgreeBut(h, g, o)
      /\ \A id \in DOMAIN h : g[id].elems = h[id].elems
      /\ \A id \in DOMAIN h \ {o} : g[id] = h[id]
      /\ g[o].refCount = h[o].refCount - 1
      /\ g[o].live <=> h[o].refCount # 1
  BY <1>0, <1>1, DroppedCounts
<1>3. \A id \in DOMAIN h : h[id].refCount \in Int
  BY PartsTypes
<1>4. Short(g) /\ Older(g)
  BY <1>2 DEF Orderly, Short, Older
<1>5. Positive(g)
  <2>1. h[o].refCount >= 1
    BY <1>0, <1>2 DEF Orderly, Positive
  <2>2. g[o].live => g[o].refCount >= 1
    BY <1>2, <1>3, <2>1
  <2>3. \A id \in DOMAIN h \ {o} : g[id].live => g[id].refCount >= 1
    BY <1>2 DEF Orderly, Positive
  <2>. QED  BY <1>2, <2>2, <2>3 DEF Positive
<1>6. ASSUME NEW id \in DOMAIN h
      PROVE  Excess(g, s, t, c, q, id) = Excess(h, s, t, c, r, id)
  <2>1. /\ InArrays(h, id) \in Nat /\ InArrays(g, id) \in Nat
        /\ Own(h, o, id) \in Nat /\ Own(g, o, id) \in Nat
        /\ InArrays(g, id) + Own(h, o, id) = InArrays(h, id) + Own(g, o, id)
    BY <1>1, <1>2, <1>4, ArraysChange
  <2>2. /\ more \in Seq(ObjectsIn(h))
        /\ Occurrences(more, Refs(id))
             = IF h[o].refCount = 1 THEN Occurrences(h[o].elems, Refs(id)) ELSE 0
    BY <1>1, CascadeOccurs
  <2>3. /\ Own(h, o, id) = Occurrences(h[o].elems, Refs(id))
        /\ Own(g, o, id) = IF h[o].refCount = 1 THEN 0 ELSE Occurrences(h[o].elems, Refs(id))
    BY <1>0, <1>2 DEF Own
  <2>. HIDE DEF more, rest, o
  <2>4. Occurrences(q, Refs(id)) = Occurrences(more, Refs(id)) + Occurrences(rest, Refs(id))
    <3>1. q = more \o rest
      BY <1>0 DEF more, rest
    <3>2. Occurrences(more \o rest, Refs(id)) = Occurrences(more, Refs(id)) + Occurrences(rest, Refs(id))
      BY <1>1, <2>2, OccurrencesConcat
    <3>. QED  BY <3>1, <3>2
  <2>5. Occurrences(r, Refs(id)) = Is(v, id) + Occurrences(rest, Refs(id))
    <3>1. Occurrences(r, Refs(id))
            = (IF Head(r) \in Refs(id) THEN 1 ELSE 0) + Occurrences(rest, Refs(id))
      BY OccurrencesHeadTail DEF rest, ReleasesNext
    <3>. QED  BY <3>1, OccursIs DEF v
  <2>6. Is(v, id) = (IF id = o THEN 1 ELSE 0)
    <3>1. v \in Values /\ IsObject(v)
      BY <1>1, KnownValues DEF ObjectsIn
    <3>. QED  BY <3>1, IsValue DEF o
  <2>. DEFINE inMore == Occurrences(more, Refs(id))
              inRest == Occurrences(rest, Refs(id))
              inQ == Occurrences(q, Refs(id))
              inR == Occurrences(r, Refs(id))
              others == OnStack(s, t, id) + Occurrences(c, Refs(id))
              arrays == InArrays(h, id)
              arraysNext == InArrays(g, id)
              one == Is(v, id)
              count == IF h[id].live THEN h[id].refCount ELSE 0
              countNext == IF g[id].live THEN g[id].refCount ELSE 0
  <2>7. /\ others \in Nat /\ inRest \in Nat /\ inMore \in Nat /\ one \in Int
        /\ arrays \in Nat /\ arraysNext \in Nat
    <3>1. OnStack(s, t, id) \in Nat /\ Occurrences(c, Refs(id)) \in Nat
      BY PartsTypes
    <3>2. Occurrences(rest, Refs(id)) \in Nat /\ Occurrences(more, Refs(id)) \in Nat
      BY <1>1, <2>2, OccurrencesType
    <3>. QED  BY <2>1, <2>6, <3>1, <3>2
  <2>8. inQ = inMore + inRest /\ inR = one + inRest
    BY <2>4, <2>5
  <2>9. arraysNext + inMore = arrays
    BY <2>1, <2>2, <2>3
  <2>10. countNext = count - one /\ count \in Int
    BY <1>0, <1>2, <1>3, <2>6 DEF o
  <2>11. /\ Excess(g, s, t, c, q, id) = countNext - (others + inQ + arraysNext)
         /\ Excess(h, s, t, c, r, id) = count - (others + inR + arrays)
    BY DEF Excess, Roots
  <2>. HIDE DEF inMore, inRest, inQ, inR, others, arrays, arraysNext, one, count, countNext
  <2>. QED  BY <2>7, <2>8, <2>9, <2>10, <2>11
<1>. QED  BY <1>2, <1>4, <1>5, <1>6 DEF Orderly

-----------------------------------------------------------------------------
\* What the stack holds.

\* Stacks that differ in cell c only.
SameCellsBut(s, z, c) == \A k \in Cells \ {c} : z[k] = s[k]

LEMMA CellsBelow ==
  ASSUME NEW s \in [Cells -> Values], NEW t, NEW n, t \in -1..StackSize - 1, t + 1 = n
  PROVE  /\ StackOf(s, t) \in Seq(Values) /\ Len(StackOf(s, t)) = n
         /\ \A i \in 1..n : StackOf(s, t)[i] = s[i - 1] /\ i - 1 \in Cells
BY StackOfType

\* The cells up to c hold what those below c hold, and the value in c.
LEMMA CellOnTop ==
  ASSUME NEW s \in [Cells -> Values], NEW c \in Cells, NEW z \in [Cells -> Values],
         SameCellsBut(s, z, c), NEW id
  PROVE  /\ OnStack(z, c, id) = OnStack(s, c - 1, id) + Is(z[c], id)
         /\ OnStack(s, c - 1, id) \in Nat
<1>. DEFINE below == StackOf(s, c - 1)
            upTo == StackOf(z, c)
            one == <<z[c]>>
<1>1. c \in Int /\ 0 <= c /\ c < StackSize /\ StackSize \in Nat
  BY VMAssumption DEF Cells
<1>2. c - 1 \in -1..StackSize - 1 /\ c \in -1..StackSize - 1 /\ (c - 1) + 1 = c
  BY <1>1
<1>3. /\ below \in Seq(Values) /\ Len(below) = c
      /\ \A i \in 1..c : below[i] = s[i - 1] /\ i - 1 \in Cells
  BY <1>2, CellsBelow
<1>4. /\ upTo \in Seq(Values) /\ Len(upTo) = c + 1
      /\ \A i \in 1..c + 1 : upTo[i] = z[i - 1] /\ i - 1 \in Cells
  BY <1>2, CellsBelow
<1>5. one \in Seq(Values) /\ Len(one) = 1 /\ one[1] = z[c] /\ z[c] \in Values
  OBVIOUS
<1>6. \A i \in 1..c : below[i] = z[i - 1]
  BY <1>1, <1>3 DEF SameCellsBut
<1>. HIDE DEF below, upTo, one
<1>7. upTo = Append(below, z[c])
  <2>. DEFINE a == Append(below, z[c])
  <2>1. /\ a \in Seq(Values) /\ Len(a) = c + 1 /\ a[c + 1] = z[c]
        /\ \A i \in 1..c : a[i] = below[i]
    BY <1>3, <1>5, AppendProperties
  <2>. HIDE DEF a
  <2>2. \A i \in 1..c + 1 : upTo[i] = a[i]
    <3>1. ASSUME NEW i \in 1..c + 1  PROVE upTo[i] = a[i]
      <4>1. upTo[i] = z[i - 1]
        BY <1>4
      <4>2. CASE i = c + 1
        <5>1. i - 1 = c
          BY <1>1, <4>2
        <5>. QED  BY <2>1, <4>1, <4>2, <5>1
      <4>3. CASE i \in 1..c
        BY <1>6, <2>1, <4>1, <4>3
      <4>. QED  BY <1>1, <4>2, <4>3
    <3>. QED  BY <3>1
  <2>3. upTo = a
    BY <1>1, <1>4, <2>1, <2>2, SeqEqual
  <2>. QED  BY <2>3 DEF a
<1>8. Occurrences(upTo, Refs(id)) = Occurrences(below, Refs(id)) + (IF z[c] \in Refs(id) THEN 1 ELSE 0)
  BY <1>3, <1>5, <1>7, OccurrencesAppend
<1>9. Occurrences(below, Refs(id)) \in Nat
  BY <1>3, OccurrencesType
<1>. QED  BY <1>8, <1>9, OccursIs DEF OnStack, upTo, below

\* The value in the top cell is held.
LEMMA TopOnStack ==
  ASSUME NEW s \in [Cells -> Values], NEW c \in Cells, NEW id
  PROVE  OnStack(s, c, id) = OnStack(s, c - 1, id) + Is(s[c], id) /\ OnStack(s, c - 1, id) \in Nat
<1>1. SameCellsBut(s, s, c)
  BY DEF SameCellsBut
<1>. QED  BY <1>1, CellOnTop

\* A cell in use gets another value.
LEMMA CellReplaced ==
  ASSUME NEW s \in [Cells -> Values], NEW t \in -1..StackSize - 1,
         NEW c \in Cells, c <= t, NEW z \in [Cells -> Values], SameCellsBut(s, z, c), NEW id
  PROVE  OnStack(z, t, id) = OnStack(s, t, id) - Is(s[c], id) + Is(z[c], id)
<1>. DEFINE old == StackOf(s, t)
            new == StackOf(z, t)
            i == c + 1
            v == z[c]
<1>1. c \in Int /\ 0 <= c /\ t \in Int /\ StackSize \in Nat
  BY VMAssumption DEF Cells
<1>2. v \in Values /\ z[c] = v /\ \A k \in Cells \ {c} : z[k] = s[k]
  BY DEF SameCellsBut
<1>3. /\ old \in Seq(Values) /\ Len(old) = t + 1 /\ DOMAIN old = 1..t + 1
      /\ \A k \in 1..t + 1 : old[k] = s[k - 1] /\ k - 1 \in Cells
  BY StackOfType
<1>4. /\ new \in Seq(Values) /\ Len(new) = t + 1 /\ DOMAIN new = 1..t + 1
      /\ \A k \in 1..t + 1 : new[k] = z[k - 1]
  BY StackOfType
<1>5. i \in 1..t + 1 /\ i - 1 = c /\ old[i] = s[c] /\ i \in DOMAIN old
  <2>1. i \in 1..t + 1 /\ i - 1 = c
    BY <1>1
  <2>. HIDE DEF i, old
  <2>. QED  BY <1>3, <2>1
<1>. DEFINE u == [old EXCEPT ![i] = v]
<1>6. u \in Seq(Values) /\ Len(u) = t + 1 /\ \A k \in 1..t + 1 : u[k] = IF k = i THEN v ELSE old[k]
  <2>. HIDE DEF i, old, v
  <2>. QED  BY <1>2, <1>3, <1>5, ExceptSeq
<1>. HIDE DEF i, old, new, u, v
<1>7. \A k \in 1..t + 1 : new[k] = u[k]
  <2>1. ASSUME NEW k \in 1..t + 1  PROVE new[k] = u[k]
    <3>1. k = i <=> k - 1 = c
      BY <1>1, <1>5
    <3>. QED  BY <1>2, <1>3, <1>4, <1>6, <3>1
  <2>. QED  BY <2>1
<1>8. new = u
  BY <1>1, <1>4, <1>6, <1>7, SeqEqual
<1>9. Occurrences(u, Refs(id))
        = Occurrences(old, Refs(id)) - (IF old[i] \in Refs(id) THEN 1 ELSE 0)
            + (IF v \in Refs(id) THEN 1 ELSE 0)
  <2>1. old \in Seq(Values) /\ i \in DOMAIN old /\ v \in Values
    BY <1>2, <1>3, <1>5
  <2>2. Occurrences([old EXCEPT ![i] = v], Refs(id))
          = Occurrences(old, Refs(id)) - (IF old[i] \in Refs(id) THEN 1 ELSE 0)
              + (IF v \in Refs(id) THEN 1 ELSE 0)
    BY <2>1, OccurrencesReplaced
  <2>. QED  BY <2>2 DEF u
<1>. QED  BY <1>5, <1>8, <1>9, OccursIs DEF OnStack, old, new, v

\* The cells from the first to the top, as a sequence.
CellsFrom(s, first, n) == [i \in 1..n |-> s[first + i - 1]]

LEMMA StackAbove ==
  ASSUME NEW s \in [Cells -> Values], NEW t \in -1..StackSize - 1,
         NEW first \in Cells, NEW n \in Nat, first + n = t + 1, NEW id
  PROVE  /\ CellsFrom(s, first, n) \in Seq(Values)
         /\ OnStack(s, t, id)
              = OnStack(s, first - 1, id) + Occurrences(CellsFrom(s, first, n), Refs(id))
<1>. DEFINE below == StackOf(s, first - 1)
            above == CellsFrom(s, first, n)
            all == StackOf(s, t)
            both == below \o above
<1>1. first \in Int /\ 0 <= first /\ first < StackSize /\ t \in Int /\ StackSize \in Nat
  BY VMAssumption DEF Cells
<1>2. first - 1 \in -1..StackSize - 1 /\ (first - 1) + 1 = first
  BY <1>1
<1>3. /\ below \in Seq(Values) /\ Len(below) = first
      /\ \A i \in 1..first : below[i] = s[i - 1]
  BY <1>1, <1>2, CellsBelow
<1>4. /\ all \in Seq(Values) /\ Len(all) = t + 1
      /\ \A i \in 1..t + 1 : all[i] = s[i - 1] /\ i - 1 \in Cells
  BY StackOfType
<1>5. ASSUME NEW i \in 1..n  PROVE first + i \in 1..t + 1 /\ (first + i) - 1 = first + i - 1
  BY <1>1
<1>6. above \in Seq(Values) /\ Len(above) = n /\ \A i \in 1..n : above[i] = s[first + i - 1]
  <2>1. \A i \in 1..n : s[first + i - 1] \in Values
    <3>1. ASSUME NEW i \in 1..n  PROVE s[first + i - 1] \in Values
      <4>1. first + i - 1 \in Cells
        BY <1>4, <1>5
      <4>. QED  BY <4>1
    <3>. QED  BY <3>1
  <2>. QED  BY <2>1 DEF CellsFrom
<1>. HIDE DEF below, above, all
<1>7. both \in Seq(Values) /\ Len(both) = first + n
  BY <1>3, <1>6, ConcatProperties
<1>8. ASSUME NEW i \in 1..t + 1  PROVE all[i] = both[i]
  <2>1. all[i] = s[i - 1]
    BY <1>4
  <2>2. CASE i <= first
    <3>1. both[i] = below[i] /\ i \in 1..first
      BY <1>1, <1>3, <1>6, <2>2, ConcatProperties
    <3>. QED  BY <1>3, <2>1, <3>1
  <2>3. CASE ~(i <= first)
    <3>1. both[i] = above[i - first] /\ i - first \in 1..n /\ first + (i - first) - 1 = i - 1
      <4>1. /\ i - first \in 1..n /\ first + (i - first) - 1 = i - 1
            /\ i \in 1..first + n
        BY <1>1, <2>3
      <4>2. \A k \in 1..Len(below) + Len(above) :
              both[k] = IF k <= Len(below) THEN below[k] ELSE above[k - Len(below)]
        BY <1>3, <1>6, ConcatProperties
      <4>. QED  BY <1>3, <1>6, <2>3, <4>1, <4>2
    <3>2. above[i - first] = s[first + (i - first) - 1]
      BY <1>6, <3>1
    <3>. QED  BY <2>1, <3>1, <3>2
  <2>. QED  BY <2>2, <2>3
<1>9. all = both
  <2>. HIDE DEF both
  <2>1. \A i \in 1..t + 1 : all[i] = both[i]
    BY <1>8
  <2>2. t + 1 \in Nat
    BY <1>1
  <2>. QED  BY <1>4, <1>7, <2>1, <2>2, SeqEqual
<1>10. Occurrences(both, Refs(id)) = Occurrences(below, Refs(id)) + Occurrences(above, Refs(id))
  BY <1>3, <1>6, OccurrencesConcat
<1>. HIDE DEF both
<1>. QED  BY <1>6, <1>9, <1>10 DEF OnStack, all, below, above

-----------------------------------------------------------------------------
\* The ledger of a state, and what a step may do to it.

Now(id) == Excess(heap, slots, top, consts, releasing, id)
RootsNow(id) == Roots(slots, top, consts, releasing, id)

\* No object has fewer references than holders.
Balanced == \A id \in DOMAIN heap : Now(id) >= 0

Booked == Machine /\ Orderly(heap) /\ Balanced

\* The same of the next state.
After(id) == Excess(heap', slots', top', consts', releasing', id)
RootsAfter(id) == Roots(slots', top', consts', releasing', id)

\* Every object has as many references too many as before, but for the one of
\* the value `lost` that the step leaves behind; a new object has none.
Balances(lost) ==
  /\ Orderly(heap')
  /\ \A id \in DOMAIN heap : After(id) = Now(id) + Is(lost, id)
  /\ \A id \in DOMAIN heap' \ DOMAIN heap : After(id) = 0

LEMMA PlainIsNothing ==
  ASSUME NEW v \in Values, ~IsObject(v), NEW id
  PROVE  Is(v, id) = 0
BY IsValue

LEMMA NilIsNothing == \A id : Is(NilValue, id) = 0
BY PlainIsNothing DEF NilValue, Values, ValueTypes, IsObject, ObjectTypes

LEMMA NothingOccurs == \A id : Occurrences(<<>>, Refs(id)) = 0
<1>. DEFINE none == <<>>
<1>1. \A id : \A k \in DOMAIN none : none[k] \notin Refs(id)
  OBVIOUS
<1>. HIDE DEF none
<1>2. \A id : Occurrences(none, Refs(id)) = 0
  BY <1>1, OccurrencesNone
<1>. QED  BY <1>2 DEF none

\* A value that is to be released occurs among the releases, if it is an object.
LEMMA ReleasedOccurs ==
  ASSUME NEW v \in Values, NEW id
  PROVE  Occurrences(IF IsObject(v) THEN <<v>> ELSE <<>>, Refs(id)) = Is(v, id)
<1>1. CASE IsObject(v)
  <2>1. Occurrences(<<v>>, Refs(id)) = IF v \in Refs(id) THEN 1 ELSE 0
    BY OccurrencesSingle
  <2>. QED  BY <1>1, <2>1, OccursIs
<1>2. CASE ~IsObject(v)
  BY <1>2, PlainIsNothing, NothingOccurs
<1>. QED  BY <1>1, <1>2

LEMMA PartsNow ==
  ASSUME Booked
  PROVE  /\ Parts(heap, slots, top, consts, releasing)
         /\ \A id \in DOMAIN heap : RootsNow(id) \in Nat /\ InArrays(heap, id) \in Nat
                                     /\ heap[id].refCount \in Int /\ Now(id) \in Int
<1>1. releasing \in Seq(KnownIn(heap))
  <2>1. ObjectsIn(heap) \subseteq KnownIn(heap)
    BY DEF ObjectsIn
  <2>. QED  BY <2>1, SeqMonotonic DEF Booked, Machine, Addressed
<1>2. Parts(heap, slots, top, consts, releasing)
  BY <1>1 DEF Booked, Machine, Addressed, VMTypeOK, Orderly, Parts
<1>3. \A id \in DOMAIN heap : RootsNow(id) \in Nat /\ InArrays(heap, id) \in Nat /\ heap[id].refCount \in Int
  BY <1>2, PartsTypes DEF RootsNow
<1>4. \A id \in DOMAIN heap : Now(id) \in Int
  BY <1>2, SurplusIsExcess DEF Now
<1>. QED  BY <1>2, <1>3, <1>4

LEMMA RootsTypes ==
  ASSUME NEW s \in [Cells -> Values], NEW t \in -1..StackSize - 1,
         NEW c \in Seq(Values), NEW r \in Seq(Values), NEW id
  PROVE  /\ OnStack(s, t, id) \in Nat /\ Occurrences(c, Refs(id)) \in Nat
         /\ Occurrences(r, Refs(id)) \in Nat /\ Roots(s, t, c, r, id) \in Nat
<1>1. OnStack(s, t, id) \in Nat
  BY CellsOnStack
<1>2. Occurrences(c, Refs(id)) \in Nat /\ Occurrences(r, Refs(id)) \in Nat
  BY OccurrencesType
<1>. QED  BY <1>1, <1>2 DEF Roots

\* What is held is live.
LEMMA HeldIsLive ==
  ASSUME Booked, NEW id \in DOMAIN heap, RootsNow(id) + InArrays(heap, id) >= 1
  PROVE  heap[id].live
<1>1. RootsNow(id) \in Nat /\ InArrays(heap, id) \in Nat /\ Now(id) >= 0
  BY PartsNow DEF Booked, Balanced
<1>. DEFINE n == RootsNow(id) + InArrays(heap, id)
            count == IF heap[id].live THEN heap[id].refCount ELSE 0
<1>2. Now(id) = count - n
  BY DEF Now, Excess, RootsNow
<1>3. n \in Int /\ n >= 1
  BY <1>1
<1>. HIDE DEF n
<1>4. ~heap[id].live => count = 0
  OBVIOUS
<1>. HIDE DEF count
<1>. QED  BY <1>1, <1>2, <1>3, <1>4

\* Nothing is counted, and nothing is held more or less often than before.
LEMMA MoveBalances ==
  ASSUME Booked, heap' = heap, \A id \in DOMAIN heap : RootsAfter(id) = RootsNow(id)
  PROVE  Balances(NilValue)
<1>1. \A id \in DOMAIN heap : After(id) = Now(id) /\ Now(id) \in Int
  BY PartsNow DEF After, Now, Excess, RootsAfter, RootsNow
<1>2. \A id \in DOMAIN heap : After(id) = Now(id) + Is(NilValue, id)
  BY <1>1, NilIsNothing
<1>3. Orderly(heap')
  BY DEF Booked
<1>. QED  BY <1>2, <1>3 DEF Balances

LEMMA NothingMoves ==
  ASSUME Booked, UNCHANGED <<heap, slots, top, consts, releasing>>
  PROVE  Balances(NilValue)
BY MoveBalances DEF RootsAfter, RootsNow

\* A live value is retained, for a holder that it gets or for none.
LEMMA RetainBalances ==
  ASSUME Booked, NEW v \in KnownIn(heap), IsObject(v) => heap[v.n].live, heap' = Retain(heap, v),
         NEW kept \in BOOLEAN,
         \A id \in DOMAIN heap : RootsAfter(id) = RootsNow(id) + (IF kept THEN Is(v, id) ELSE 0)
  PROVE  Balances(IF kept THEN NilValue ELSE v)
<1>1. Parts(heap, slots, top, consts, releasing) /\ Orderly(heap) /\ Sound(heap)
  BY PartsNow DEF Booked, Parts
<1>2. \A id \in DOMAIN heap :
        Roots(slots', top', consts', releasing', id)
          = Roots(slots, top, consts, releasing, id) + (IF kept THEN Is(v, id) ELSE 0)
  BY DEF RootsAfter, RootsNow
<1>3. /\ Orderly(heap')
      /\ \A id \in DOMAIN heap :
           Excess(heap', slots', top', consts', releasing', id)
             = Excess(heap, slots, top, consts, releasing, id) + (IF kept THEN 0 ELSE Is(v, id))
  BY <1>1, <1>2, RetainExcess
<1>4. DOMAIN heap' = DOMAIN heap
  BY <1>1, RetainSound
<1>5. \A id : Is(IF kept THEN NilValue ELSE v, id) = (IF kept THEN 0 ELSE Is(v, id))
  BY NilIsNothing
<1>. QED  BY <1>3, <1>4, <1>5 DEF Balances, After, Now

\* An object is allocated with one reference, and what it holds is handed over.
LEMMA NewBalances ==
  ASSUME Booked, NEW obj, Allocates(heap, heap', obj),
         \A id : /\ RootsAfter(id) \in Nat
                 /\ RootsAfter(id) + Occurrences(obj.elems, Refs(id))
                      = RootsNow(id) + (IF id = NewId(heap) THEN 1 ELSE 0)
  PROVE  Balances(NilValue)
<1>1. Parts(heap, slots, top, consts, releasing) /\ Orderly(heap) /\ Sound(heap)
  BY PartsNow DEF Booked, Parts
<1>2. HandsOver(heap, slots, top, consts, releasing, obj, slots', top', consts', releasing')
  BY DEF RootsAfter, RootsNow, HandsOver
<1>3. /\ Orderly(heap')
      /\ \A id \in DOMAIN heap :
           Excess(heap', slots', top', consts', releasing', id)
             = Excess(heap, slots, top, consts, releasing, id)
      /\ Excess(heap', slots', top', consts', releasing', NewId(heap)) = 0
  BY <1>1, <1>2, AppendExcess
<1>4. DOMAIN heap' = DOMAIN heap \union {NewId(heap)}
  BY <1>1, AppendSound DEF Allocates
<1>5. \A id \in DOMAIN heap : Now(id) \in Int /\ Is(NilValue, id) = 0
  BY PartsNow, NilIsNothing
<1>. QED  BY <1>3, <1>4, <1>5 DEF Balances, After, Now

-----------------------------------------------------------------------------
\* The handlers.

LEMMA MachineTypes ==
  ASSUME Machine
  PROVE  /\ slots \in [Cells -> Values] /\ top \in -1..StackSize - 1
         /\ consts \in Seq(Values) /\ releasing \in Seq(Values)
BY DEF Machine, VMTypeOK, ChunkTypeOK

LEMMA AfterTypes ==
  ASSUME Machine'
  PROVE  \A id : RootsAfter(id) \in Nat
<1>1. /\ slots' \in [Cells -> Values] /\ top' \in -1..StackSize - 1
      /\ consts' \in Seq(Values) /\ releasing' \in Seq(Values)
  BY DEF Machine, VMTypeOK, ChunkTypeOK
<1>. QED  BY <1>1, RootsTypes DEF RootsAfter

\* Cell c of s is written.
Written(s, c, v) == [s EXCEPT ![c] = v]

\* A cell becomes the top, with a value.
LEMMA WriteTop ==
  ASSUME NEW s \in [Cells -> Values], NEW c \in Cells, NEW v \in Values,
         NEW z, z = Written(s, c, v), NEW id
  PROVE  /\ OnStack(z, c, id) = OnStack(s, c - 1, id) + Is(v, id)
         /\ OnStack(s, c - 1, id) \in Nat
<1>1. z \in [Cells -> Values] /\ z[c] = v /\ SameCellsBut(s, z, c)
  BY DEF SameCellsBut, Written
<1>2. OnStack(z, c, id) = OnStack(s, c - 1, id) + Is(z[c], id) /\ OnStack(s, c - 1, id) \in Nat
  BY <1>1, CellOnTop
<1>. QED  BY <1>1, <1>2

\* What a handler reads has not been freed.
LEMMA ReadIsLive ==
  ASSUME NEW op, Executes(op), NEW c \in Reads
  PROVE  /\ IsObject(slots[c]) => heap[slots[c].n].live
         /\ IsObject(Load(c)) => heap[Load(c).n].live
<1>1. c \in Cells /\ ~Undefined
  BY ExecutesFacts DEF Executes
<1>2. ~Freed(slots[c])
  BY <1>1 DEF Undefined
<1>3. ~IsObject(NilValue)
  BY DEF NilValue, IsObject, ObjectTypes
<1>. QED  BY <1>2, <1>3 DEF Freed, Load

\* The cell a reference points to is read.
LEMMA ByRefReads ==
  ASSUME NEW op \in ByRefOps, Executes(op)
  PROVE  slots[Operand].n \in Reads
<1>1. op \in LocalOps \ {Op.LocalRef}
  BY DEF ByRefOps, LocalOps, Op
<1>2. Operand \in Cells /\ Opcode = op
  BY <1>1, LocalCell, ExecutesFacts
<1>3. slots[Operand].type = "Ref"
  BY <1>2 DEF Executes, Undefined
<1>. QED  BY <1>2, <1>3 DEF Reads

\* A cell that was never written holds no object, like the nil it may read as.
LEMMA LoadIs ==
  ASSUME NEW c
  PROVE  \A id : Is(Load(c), id) = Is(slots[c], id)
<1>1. JunkValue \in Values /\ ~IsObject(JunkValue)
  BY DEF JunkValue, Values, ValueTypes, IsObject, ObjectTypes
<1>2. \A id : Is(JunkValue, id) = 0
  <2>. HIDE DEF JunkValue
  <2>. QED  BY <1>1, PlainIsNothing
<1>. QED  BY <1>2, NilIsNothing DEF Load

LEMMA ErrorBalances ==
  ASSUME Booked, NEW error, VMError(error)
  PROVE  Balances(NilValue)
BY NothingMoves DEF VMError, chunkVars

\* A live value gets a cell and a reference.
LEMMA PushBalances ==
  ASSUME Booked, Ready, NEW v \in KnownIn(heap), IsObject(v) => heap[v.n].live, Push(v)
  PROVE  Balances(NilValue)
<1>1. CASE top = StackSize - 1
  BY <1>1, ErrorBalances DEF Push
<1>2. CASE top # StackSize - 1
  <2>. DEFINE c == top + 1
  <2>1. /\ top' = c /\ slots' = Written(slots, c, v) /\ heap' = Retain(heap, v)
        /\ consts' = consts /\ releasing' = releasing
    BY <1>2 DEF Push, Dispatch, Written
  <2>2. c \in Cells /\ c - 1 = top
    BY <1>2, StackFacts DEF Booked, Machine
  <2>3. slots \in [Cells -> Values] /\ v \in Values
    BY MachineTypes, KnownValues DEF Booked
  <2>. HIDE DEF c
  <2>4. ASSUME NEW id \in DOMAIN heap  PROVE RootsAfter(id) = RootsNow(id) + Is(v, id)
    <3>1. OnStack(slots', top', id) = OnStack(slots, top, id) + Is(v, id)
      BY <2>1, <2>2, <2>3, WriteTop
    <3>2. /\ OnStack(slots, top, id) \in Nat /\ Occurrences(consts, Refs(id)) \in Nat
          /\ Occurrences(releasing, Refs(id)) \in Nat
      BY MachineTypes, RootsTypes DEF Booked
    <3>3. Is(v, id) \in Int
      BY IsType
    <3>4. /\ RootsAfter(id) = OnStack(slots', top', id) + Occurrences(consts, Refs(id))
                                + Occurrences(releasing, Refs(id))
          /\ RootsNow(id) = OnStack(slots, top, id) + Occurrences(consts, Refs(id))
                              + Occurrences(releasing, Refs(id))
      BY <2>1 DEF RootsAfter, RootsNow, Roots
    <3>. QED  BY <3>1, <3>2, <3>3, <3>4
  <2>5. Balances(IF TRUE THEN NilValue ELSE v)
    BY <2>1, <2>4, RetainBalances
  <2>. QED  BY <2>5
<1>. QED  BY <1>1, <1>2

\* What occurs in a sequence is counted.
LEMMA OccursSome ==
  ASSUME NEW S, NEW s \in Seq(S), NEW i \in DOMAIN s, NEW M, s[i] \in M
  PROVE  Occurrences(s, M) \in Nat /\ Occurrences(s, M) >= 1
<1>. DEFINE T == {k \in DOMAIN s : s[k] \in M}
<1>1. IsFiniteSet(T) /\ Cardinality(T) \in Nat /\ i \in T
  BY IndicesFinite
<1>2. Cardinality(T) # 0
  <2>. HIDE DEF T
  <2>. QED  BY <1>1, FS_EmptySet
<1>3. Occurrences(s, M) = Cardinality(T)
  BY DEF Occurrences
<1>. HIDE DEF T
<1>. QED  BY <1>1, <1>2, <1>3

LEMMA ConstantIsLive ==
  ASSUME Booked, NEW i \in DOMAIN consts, IsObject(consts[i])
  PROVE  heap[consts[i].n].live
<1>. DEFINE id == consts[i].n
<1>1. consts \in Seq(Values) /\ consts[i] \in KnownIn(heap)
  BY ElementOfSeq, LenProperties, MachineTypes DEF Booked, Machine, Addressed
<1>2. id \in DOMAIN heap /\ consts[i] \in Refs(id)
  BY <1>1 DEF KnownIn, Refs
<1>. HIDE DEF id
<1>3. Occurrences(consts, Refs(id)) \in Nat /\ Occurrences(consts, Refs(id)) >= 1
  BY <1>1, <1>2, OccursSome
<1>4. /\ OnStack(slots, top, id) \in Nat /\ Occurrences(releasing, Refs(id)) \in Nat
  BY MachineTypes, RootsTypes DEF Booked
<1>5. InArrays(heap, id) \in Nat
  BY <1>2, PartsNow
<1>6. RootsNow(id) = OnStack(slots, top, id) + Occurrences(consts, Refs(id))
                       + Occurrences(releasing, Refs(id))
  BY DEF RootsNow, Roots
<1>7. RootsNow(id) + InArrays(heap, id) >= 1
  BY <1>3, <1>4, <1>5, <1>6
<1>8. heap[id].live
  BY <1>2, <1>7, HeldIsLive
<1>. QED  BY <1>8 DEF id

LEMMA PushersBalance ==
  ASSUME Booked,
         DoNil \/ DoFalse \/ DoTrue \/ DoInt \/ DoConst \/ DoLocalRef \/ DoGetLocal \/ DoGetLocalByRef
  PROVE  Balances(NilValue)
<1>1. Machine /\ Addressed /\ Operand \in Nat /\ Operand \in Int
  BY OperandType DEF Booked, Machine
<1>2. ASSUME NEW op, Executes(op)  PROVE Ready
  BY <1>2 DEF Executes
<1>3. ASSUME NEW v, v \in {NilValue, BoolValue(FALSE), BoolValue(TRUE), IntValue(Operand), RefValue(Operand)}
      PROVE  v \in KnownIn(heap) /\ ~IsObject(v)
  <2>1. v \in KnownIn(heap)
    BY <1>1, <1>3, PlainKnown
  <2>2. ~IsObject(v)
    BY <1>3 DEF NilValue, BoolValue, IntValue, RefValue, IsObject, ObjectTypes
  <2>. QED  BY <2>1, <2>2
<1>4. CASE DoNil \/ DoFalse \/ DoTrue \/ DoInt \/ DoLocalRef
  <2>1. PICK v \in {NilValue, BoolValue(FALSE), BoolValue(TRUE), IntValue(Operand), RefValue(Operand)} :
          Ready /\ Push(v)
    BY <1>2, <1>4 DEF DoNil, DoFalse, DoTrue, DoInt, DoLocalRef
  <2>2. v \in KnownIn(heap) /\ ~IsObject(v)
    BY <1>3
  <2>. QED  BY <2>1, <2>2, PushBalances
<1>5. CASE DoConst
  <2>1. consts \in Seq(KnownIn(heap)) /\ ~(Operand >= Len(consts))
    BY <1>1, <1>5, ExecutesFacts DEF DoConst, Addressed
  <2>2. Operand + 1 \in 1..Len(consts) /\ DOMAIN consts = 1..Len(consts)
    BY <1>1, <2>1, LenProperties
  <2>3. consts[Operand + 1] \in KnownIn(heap)
    BY <2>1, <2>2, ElementOfSeq
  <2>4. IsObject(consts[Operand + 1]) => heap[consts[Operand + 1].n].live
    BY <2>2, ConstantIsLive
  <2>. QED  BY <1>2, <1>5, <2>3, <2>4, PushBalances DEF DoConst
<1>6. CASE DoGetLocal
  <2>1. Executes(Op.GetLocal) /\ Operand \in Cells /\ Operand \in LocalOperands
    BY <1>6, LocalCell DEF DoGetLocal, LocalOperands, Executes, LocalOps, Op
  <2>2. Operand \in Reads
    BY <2>1 DEF Reads
  <2>3. Load(Operand) \in KnownIn(heap)
    BY <1>1, <2>1, LoadKnown
  <2>4. IsObject(Load(Operand)) => heap[Load(Operand).n].live
    BY <2>1, <2>2, ReadIsLive
  <2>. QED  BY <1>2, <1>6, <2>1, <2>3, <2>4, PushBalances DEF DoGetLocal
<1>7. CASE DoGetLocalByRef
  <2>. DEFINE c == slots[Operand].n
  <2>1. Executes(Op.GetLocalByRef) /\ c \in Cells
    BY <1>7, ByRefCell DEF DoGetLocalByRef, ByRefOps
  <2>2. c \in Reads
    BY <2>1, ByRefReads DEF ByRefOps
  <2>3. Load(c) \in KnownIn(heap)
    BY <1>1, <2>1, LoadKnown
  <2>4. IsObject(Load(c)) => heap[Load(c).n].live
    BY <2>1, <2>2, ReadIsLive
  <2>. QED  BY <1>2, <1>7, <2>1, <2>3, <2>4, PushBalances DEF DoGetLocalByRef
<1>. QED  BY <1>4, <1>5, <1>6, <1>7

\* A new object becomes the top, in the place of the values it is made of.
LEMMA MakeBalances ==
  ASSUME Booked, Machine', NEW c \in Cells, NEW type \in ObjectTypes, NEW obj \in Objects,
         obj.live, obj.elems \in Seq(KnownIn(heap)), Len(obj.elems) <= StackSize,
         PutObject(c, type, obj), UNCHANGED <<consts, releasing>>,
         \A id : OnStack(slots, top, id) = OnStack(slots, c - 1, id) + Occurrences(obj.elems, Refs(id))
  PROVE  Balances(NilValue)
<1>. DEFINE new == [obj EXCEPT !.refCount = 1]
            v == ObjectValue(type, NewId(heap))
<1>1. /\ slots' = Written(slots, c, v) /\ heap' = Append(heap, new) /\ top' = c
      /\ consts' = consts /\ releasing' = releasing
  BY DEF PutObject, Written
<1>2. new \in Objects /\ new.live /\ new.refCount = 1 /\ new.elems = obj.elems
  BY DEF Objects
<1>3. v \in Values /\ \A id : Is(v, id) = IF id = NewId(heap) THEN 1 ELSE 0
  <2>1. NewId(heap) \in Int
    BY SoundObjects DEF NewId, Booked, Machine, Addressed
  <2>2. v \in Values /\ IsObject(v) /\ v.n = NewId(heap)
    BY <2>1 DEF ObjectValue, Values, ValueTypes, IsObject
  <2>. HIDE DEF v
  <2>. QED  BY <2>2, IsValue
<1>. HIDE DEF new, v
<1>4. Allocates(heap, heap', new)
  BY <1>1, <1>2 DEF Allocates
<1>5. slots \in [Cells -> Values]
  BY MachineTypes DEF Booked
<1>6. ASSUME NEW id
      PROVE  /\ RootsAfter(id) \in Nat
             /\ RootsAfter(id) + Occurrences(new.elems, Refs(id))
                  = RootsNow(id) + (IF id = NewId(heap) THEN 1 ELSE 0)
  <2>. DEFINE one == Is(v, id)
              below == OnStack(slots, c - 1, id)
              all == OnStack(slots, top, id)
              made == OnStack(slots', top', id)
              elems == Occurrences(new.elems, Refs(id))
              inConsts == Occurrences(consts, Refs(id))
              toRelease == Occurrences(releasing, Refs(id))
  <2>1. made = below + one /\ below \in Nat
    BY <1>1, <1>3, <1>5, WriteTop
  <2>2. all = below + elems
    BY <1>2
  <2>3. elems \in Nat
    <3>1. new.elems \in Seq(Values)
      BY <1>2 DEF Objects
    <3>. QED  BY <3>1, OccurrencesType
  <2>4. all \in Nat /\ inConsts \in Nat /\ toRelease \in Nat
    BY MachineTypes, RootsTypes DEF Booked
  <2>5. one \in Int /\ one = IF id = NewId(heap) THEN 1 ELSE 0
    BY <1>3
  <2>6. RootsAfter(id) = made + inConsts + toRelease /\ RootsNow(id) = all + inConsts + toRelease
    BY <1>1 DEF RootsAfter, RootsNow, Roots
  <2>7. RootsAfter(id) \in Nat
    BY AfterTypes
  <2>. HIDE DEF one, below, all, made, elems, inConsts, toRelease
  <2>8. RootsAfter(id) + elems = RootsNow(id) + one
    BY <2>1, <2>2, <2>3, <2>4, <2>5, <2>6
  <2>. QED  BY <2>5, <2>7, <2>8 DEF elems
<1>. QED  BY <1>4, <1>6, NewBalances

\* A number is not an object, also if it is a nil read from an unwritten cell.
LEMMA NumberIsNothing ==
  ASSUME Machine, NEW c \in Cells, IsNumber(Load(c)) \/ IsInt(Load(c))
  PROVE  \A id : Is(slots[c], id) = 0
<1>1. slots[c] \in Values
  BY MachineTypes
<1>2. ~IsObject(slots[c])
  BY DEF Load, NilValue, IsNumber, IsInt, IsObject, NumberTypes, ObjectTypes
<1>. QED  BY <1>1, <1>2, PlainIsNothing

\* The stack down to the two values on top.
LEMMA TwoOnTop ==
  ASSUME Machine, top - 1 \in Cells, top \in Cells, NEW id
  PROVE  /\ OnStack(slots, top, id)
              = OnStack(slots, top - 2, id) + Is(slots[top - 1], id) + Is(slots[top], id)
         /\ OnStack(slots, top - 2, id) \in Nat
         /\ Is(slots[top - 1], id) \in Int /\ Is(slots[top], id) \in Int
<1>1. slots \in [Cells -> Values] /\ top \in Int
  BY MachineTypes, StackFacts DEF Machine
<1>2. OnStack(slots, top, id) = OnStack(slots, top - 1, id) + Is(slots[top], id)
  BY <1>1, TopOnStack
<1>. DEFINE c == top - 1
<1>3. OnStack(slots, c, id) = OnStack(slots, c - 1, id) + Is(slots[c], id)
      /\ OnStack(slots, c - 1, id) \in Nat
  <2>. HIDE DEF c
  <2>1. c \in Cells
    BY DEF c
  <2>. QED  BY <1>1, <2>1, TopOnStack
<1>4. c - 1 = top - 2
  BY <1>1
<1>5. Is(slots[top - 1], id) \in Int /\ Is(slots[top], id) \in Int
  BY IsType
<1>. QED  BY <1>2, <1>3, <1>4, <1>5

LEMMA RangeBalances ==
  ASSUME Booked, Machine', DoRange
  PROVE  Balances(NilValue)
<1>1. Executes(Op.Range) /\ Machine
  BY DEF DoRange, Booked
<1>2. CASE ~(IsInt(Load(top - 1)) /\ IsInt(Load(top)))
  BY <1>2, ErrorBalances DEF DoRange
<1>3. CASE IsInt(Load(top - 1)) /\ IsInt(Load(top))
  <2>. DEFINE obj == RangeObject(slots[top - 1].n, slots[top].n)
              c == top - 1
  <2>1. top - 1 \in Cells /\ top \in Cells
    BY <1>1, BinaryCells DEF Machine
  <2>2. slots[top - 1].n \in Int /\ slots[top].n \in Int
    BY <1>1, <2>1, MachineTypes DEF Values
  <2>3. obj \in Objects /\ obj.elems = <<>> /\ obj.live
    <3>1. obj \in Objects /\ obj.elems = <<>>
      BY <2>2, NewObjects
    <3>2. obj.live
      BY DEF RangeObject, StringObject
    <3>. QED  BY <3>1, <3>2
  <2>4. PutObject(c, "Range", obj) /\ UNCHANGED <<consts, releasing>>
    BY <1>3 DEF DoRange, Dispatch
  <2>5. ASSUME NEW id
        PROVE  OnStack(slots, top, id) = OnStack(slots, c - 1, id) + Occurrences(<<>>, Refs(id))
    <3>1. Is(slots[top - 1], id) = 0 /\ Is(slots[top], id) = 0
      BY <1>1, <1>3, <2>1, NumberIsNothing
    <3>2. c - 1 = top - 2
      BY <1>1, StackFacts DEF Machine
    <3>3. OnStack(slots, top, id) = OnStack(slots, top - 2, id) /\ OnStack(slots, top - 2, id) \in Nat
      BY <1>1, <2>1, <3>1, TwoOnTop
    <3>. QED  BY <3>2, <3>3, NothingOccurs
  <2>. HIDE DEF obj, c
  <2>6. c \in Cells /\ "Range" \in ObjectTypes
    BY <2>1 DEF c, ObjectTypes
  <2>7. obj.elems \in Seq(KnownIn(heap)) /\ Len(obj.elems) <= StackSize
    BY <2>3, VMAssumption
  <2>8. \A id : OnStack(slots, top, id) = OnStack(slots, c - 1, id) + Occurrences(obj.elems, Refs(id))
    BY <2>3, <2>5
  <2>. QED  BY <2>3, <2>4, <2>6, <2>7, <2>8, MakeBalances
<1>. QED  BY <1>2, <1>3

LEMMA ArrayBalances ==
  ASSUME Booked, Machine', DoArray
  PROVE  Balances(NilValue)
<1>. DEFINE first == top + 1 - Operand
            elems == [i \in 1..Operand |-> Load(first + i - 1)]
            obj == ArrayObject(elems)
            cells == CellsFrom(slots, first, Operand)
<1>1. Executes(Op.Array) /\ PutObject(first, "Array", obj) /\ UNCHANGED <<consts, releasing>> /\ Machine
  BY DEF DoArray, Dispatch, Booked
<1>2. first \in Cells /\ \A i \in 1..Operand : first + i - 1 \in Cells
  BY <1>1, ArrayCells DEF Machine
<1>3. Operand \in Nat /\ Addressed /\ top \in Int /\ StackSize \in Nat /\ top < StackSize
  BY <1>1, OperandType, StackFacts DEF Machine
<1>4. elems \in Seq(KnownIn(heap)) /\ Len(elems) = Operand
  <2>. DEFINE M == KnownIn(heap)
  <2>1. \A i \in 1..Operand : Load(first + i - 1) \in M
    BY <1>2, <1>3, LoadKnown
  <2>. HIDE DEF M, first
  <2>2. elems \in Seq(M) /\ Len(elems) = Operand
    BY <1>3, <2>1
  <2>. QED  BY <2>2 DEF M
<1>5. first + Operand = top + 1 /\ Operand <= StackSize
  BY <1>2, <1>3 DEF Cells
<1>6. ASSUME NEW id
      PROVE  OnStack(slots, top, id) = OnStack(slots, first - 1, id) + Occurrences(elems, Refs(id))
  <2>1. OnStack(slots, top, id) = OnStack(slots, first - 1, id) + Occurrences(cells, Refs(id))
    <3>1. slots \in [Cells -> Values] /\ top \in -1..StackSize - 1
      BY <1>1, MachineTypes
    <3>. HIDE DEF first
    <3>. QED  BY <1>2, <1>3, <1>5, <3>1, StackAbove
  <2>2. DOMAIN cells = 1..Operand /\ DOMAIN elems = 1..Operand
    BY DEF CellsFrom
  <2>3. ASSUME NEW i \in 1..Operand  PROVE cells[i] \in Refs(id) <=> elems[i] \in Refs(id)
    <3>1. cells[i] = slots[first + i - 1] /\ elems[i] = Load(first + i - 1)
      BY DEF CellsFrom
    <3>2. Is(cells[i], id) = Is(elems[i], id)
      BY <3>1, LoadIs
    <3>. QED  BY <3>2 DEF Is
  <2>. HIDE DEF cells, elems
  <2>4. {i \in DOMAIN cells : cells[i] \in Refs(id)} = {i \in DOMAIN elems : elems[i] \in Refs(id)}
    BY <2>2, <2>3
  <2>. QED  BY <2>1, <2>4 DEF Occurrences
<1>. HIDE DEF elems, first, cells
<1>7. obj \in Objects /\ obj.elems = elems /\ obj.live
  <2>1. elems \in Seq(Values)
    BY <1>4, KnownValues, SeqMonotonic
  <2>2. obj \in Objects /\ obj.elems = elems
    BY <2>1, NewObjects
  <2>3. obj.live
    BY DEF ArrayObject, StringObject
  <2>. QED  BY <2>2, <2>3
<1>. HIDE DEF obj
<1>8. "Array" \in ObjectTypes /\ Len(obj.elems) <= StackSize /\ obj.elems \in Seq(KnownIn(heap))
  BY <1>4, <1>5, <1>7 DEF ObjectTypes
<1>9. \A id : OnStack(slots, top, id) = OnStack(slots, first - 1, id) + Occurrences(obj.elems, Refs(id))
  BY <1>6, <1>7
<1>. QED  BY <1>1, <1>2, <1>7, <1>8, <1>9, MakeBalances

\* What is to be released after Release(v), as far as it matters.
LEMMA ReleaseOccurs ==
  ASSUME NEW v \in Values, Release(v)
  PROVE  \A id : Occurrences(releasing', Refs(id)) = Is(v, id)
BY ReleasedOccurs DEF Release

\* What the roots hold while an instruction is executed, and after it.
LEMMA RootsReady ==
  ASSUME Machine, Ready
  PROVE  \A id : /\ RootsNow(id) = OnStack(slots, top, id) + Occurrences(consts, Refs(id))
                 /\ OnStack(slots, top, id) \in Nat /\ Occurrences(consts, Refs(id)) \in Nat
<1>1. releasing = <<>>
  BY DEF Ready
<1>2. ASSUME NEW id
      PROVE  /\ RootsNow(id) = OnStack(slots, top, id) + Occurrences(consts, Refs(id))
             /\ OnStack(slots, top, id) \in Nat /\ Occurrences(consts, Refs(id)) \in Nat
  <2>1. Occurrences(releasing, Refs(id)) = 0
    BY <1>1, NothingOccurs
  <2>2. OnStack(slots, top, id) \in Nat /\ Occurrences(consts, Refs(id)) \in Nat
    BY MachineTypes, RootsTypes
  <2>3. RootsNow(id) = OnStack(slots, top, id) + Occurrences(consts, Refs(id)) + Occurrences(releasing, Refs(id))
    BY DEF RootsNow, Roots
  <2>. QED  BY <2>1, <2>2, <2>3
<1>. QED  BY <1>2

LEMMA RootsThen ==
  ASSUME NEW v \in Values, Release(v), consts' = consts
  PROVE  \A id : RootsAfter(id) = OnStack(slots', top', id) + Occurrences(consts, Refs(id)) + Is(v, id)
BY ReleaseOccurs DEF RootsAfter, Roots

LEMMA PopBalances ==
  ASSUME Booked, DoPop
  PROVE  Balances(NilValue)
<1>1. Executes(Op.Pop) /\ Machine /\ Ready
  BY DEF DoPop, Booked, Executes
<1>2. top \in Cells /\ slots \in [Cells -> Values]
  BY <1>1, UnaryCell, MachineTypes DEF Machine
<1>3. slots[top] \in Values
  BY <1>2
<1>4. slots' = slots /\ heap' = heap /\ top' = top - 1 /\ consts' = consts /\ Release(slots[top])
  BY DEF DoPop, Dispatch
<1>5. ASSUME NEW id  PROVE RootsAfter(id) = RootsNow(id)
  <2>1. OnStack(slots, top, id) = OnStack(slots, top - 1, id) + Is(slots[top], id)
        /\ OnStack(slots, top - 1, id) \in Nat
    BY <1>2, TopOnStack
  <2>2. RootsNow(id) = OnStack(slots, top, id) + Occurrences(consts, Refs(id))
        /\ Occurrences(consts, Refs(id)) \in Nat
    BY <1>1, RootsReady
  <2>3. RootsAfter(id) = OnStack(slots', top', id) + Occurrences(consts, Refs(id)) + Is(slots[top], id)
    BY <1>3, <1>4, RootsThen
  <2>4. Is(slots[top], id) \in Int
    BY IsType
  <2>. QED  BY <1>4, <2>1, <2>2, <2>3, <2>4
<1>. QED  BY <1>4, <1>5, MoveBalances

\* Numbers come and go: neither they nor what they replace are objects.
LEMMA ArithmeticBalances ==
  ASSUME Booked, NEW op \in ArithmeticOps, DoArithmetic(op)
  PROVE  Balances(NilValue)
<1>1. Executes(op) /\ Machine /\ Ready
  BY DEF DoArithmetic, Booked, Executes
<1>2. CASE ~(IsNumber(Load(top - 1)) /\ IsNumber(Load(top)))
  BY <1>2, ErrorBalances DEF DoArithmetic
<1>3. CASE IsNumber(Load(top - 1)) /\ IsNumber(Load(top))
  <2>. DEFINE c == top - 1
  <2>1. PICK result \in Results(op, slots[top - 1], slots[top]) :
          /\ slots' = Written(slots, c, result) /\ top' = c
          /\ Dispatch /\ UNCHANGED <<heap, releasing>>
    BY <1>3 DEF DoArithmetic, Written
  <2>2. top - 1 \in Cells /\ top \in Cells /\ slots \in [Cells -> Values]
    BY <1>1, BinaryCells, MachineTypes DEF Machine
  <2>3. result \in Values /\ ~IsObject(result)
    <3>1. slots[top - 1] \in Values /\ slots[top] \in Values
      BY <2>2
    <3>2. result \in KnownIn(<<>>)
      BY <3>1, ResultsKnown
    <3>. QED  BY <3>2 DEF KnownIn
  <2>4. c - 1 = top - 2 /\ consts' = consts /\ releasing' = <<>>
    BY <1>1, <2>1, StackFacts DEF Machine, Ready, Dispatch
  <2>5. ASSUME NEW id  PROVE RootsAfter(id) = RootsNow(id)
    <3>1. Is(slots[top - 1], id) = 0 /\ Is(slots[top], id) = 0
      BY <1>1, <1>3, <2>2, NumberIsNothing
    <3>2. OnStack(slots, top, id) = OnStack(slots, top - 2, id) /\ OnStack(slots, top - 2, id) \in Nat
      BY <1>1, <2>2, <3>1, TwoOnTop
    <3>3. c \in Cells
      BY <2>2
    <3>4. Is(result, id) = 0
      BY <2>3, PlainIsNothing
    <3>. HIDE DEF c
    <3>5. OnStack(slots', top', id) = OnStack(slots, c - 1, id) + Is(result, id)
      BY <2>1, <2>2, <2>3, <3>3, WriteTop
    <3>6. Occurrences(releasing', Refs(id)) = Occurrences(releasing, Refs(id))
      BY <2>1
    <3>. QED  BY <2>4, <3>2, <3>4, <3>5, <3>6 DEF RootsAfter, RootsNow, Roots
  <2>6. heap' = heap
    BY <2>1
  <2>. QED  BY <2>5, <2>6, MoveBalances
<1>. QED  BY <1>2, <1>3

LEMMA NegBalances ==
  ASSUME Booked, Machine', DoNeg
  PROVE  Balances(NilValue)
<1>1. Executes(Op.Neg) /\ Machine /\ Ready
  BY DEF DoNeg, Booked, Executes
<1>2. CASE ~IsNumber(Load(top))
  BY <1>2, ErrorBalances DEF DoNeg
<1>3. CASE IsNumber(Load(top))
  <2>. DEFINE v == [slots[top] EXCEPT !.n = -@]
  <2>1. slots' = Written(slots, top, v) /\ UNCHANGED <<top, heap, releasing, consts>>
    BY <1>3 DEF DoNeg, Dispatch, Written
  <2>2. top \in Cells /\ slots \in [Cells -> Values]
    BY <1>1, UnaryCell, MachineTypes DEF Machine
  <2>3. slots[top] \in Values /\ slots' \in [Cells -> Values] /\ slots'[top] = v
    BY <2>1, <2>2 DEF Machine, VMTypeOK, Written
  <2>4. v.type = slots[top].type /\ v \in Values
    BY <2>2, <2>3 DEF Values
  <2>5. ~IsObject(slots[top])
    BY <1>3 DEF Load, NilValue, IsNumber, IsObject, NumberTypes, ObjectTypes
  <2>6. ~IsObject(v)
    BY <2>4, <2>5 DEF IsObject
  <2>. HIDE DEF v
  <2>7. ASSUME NEW id  PROVE RootsAfter(id) = RootsNow(id)
    <3>1. Is(slots[top], id) = 0 /\ Is(v, id) = 0
      BY <2>3, <2>4, <2>5, <2>6, PlainIsNothing
    <3>2. OnStack(slots', top, id) = OnStack(slots, top - 1, id) + Is(v, id)
          /\ OnStack(slots, top - 1, id) \in Nat
      BY <2>1, <2>2, <2>4, WriteTop
    <3>3. OnStack(slots, top, id) = OnStack(slots, top - 1, id) + Is(slots[top], id)
      BY <2>2, TopOnStack
    <3>4. OnStack(slots', top, id) = OnStack(slots, top, id)
      BY <3>1, <3>2, <3>3
    <3>. QED  BY <2>1, <3>4 DEF RootsAfter, RootsNow, Roots
  <2>8. heap' = heap
    BY <2>1
  <2>. QED  BY <2>7, <2>8, MoveBalances
<1>. QED  BY <1>2, <1>3

\* What a live array holds is live.
LEMMA ElementIsLive ==
  ASSUME Booked, NEW o \in DOMAIN heap, heap[o].live, NEW i \in DOMAIN heap[o].elems,
         IsObject(heap[o].elems[i])
  PROVE  heap[heap[o].elems[i].n].live
<1>. DEFINE id == heap[o].elems[i].n
            rows == LiveRows(heap)
<1>1. Sound(heap) /\ Short(heap)
  BY PartsNow DEF Parts
<1>2. /\ Len(heap) \in Nat /\ StackSize \in Nat
      /\ Fitting(rows, Values, Len(heap), StackSize)
      /\ o \in DOMAIN rows /\ rows[o] = heap[o].elems
  BY <1>1, RowsFit
<1>3. heap[o].elems \in Seq(KnownIn(heap)) /\ heap[o].elems[i] \in KnownIn(heap)
  BY <1>1, SoundObjects, ElementOfSeq, LenProperties
<1>4. id \in DOMAIN heap /\ heap[o].elems[i] \in Refs(id)
  BY <1>3 DEF KnownIn, Refs
<1>. HIDE DEF id, rows
<1>5. Occurrences(heap[o].elems, Refs(id)) \in Nat /\ Occurrences(heap[o].elems, Refs(id)) >= 1
  BY <1>3, <1>4, OccursSome
<1>6. InRow(rows, o, Refs(id)) = Occurrences(heap[o].elems, Refs(id))
  BY <1>2 DEF InRow
<1>7. /\ Cardinality(NotInRow(rows, o, Refs(id))) \in Nat
      /\ Cardinality(Entries(rows, Refs(id)))
           = Cardinality(NotInRow(rows, o, Refs(id))) + InRow(rows, o, Refs(id))
  BY <1>2, EntriesSplit
<1>8. InArrays(heap, id) = Cardinality(Entries(rows, Refs(id)))
  BY DEF InArrays, rows
<1>9. RootsNow(id) \in Nat
  BY <1>4, PartsNow
<1>10. RootsNow(id) + InArrays(heap, id) >= 1
  BY <1>5, <1>6, <1>7, <1>8, <1>9
<1>11. heap[id].live
  BY <1>4, <1>10, HeldIsLive
<1>. QED  BY <1>11 DEF id

\* The cells the binary and the unary instructions take their operands from.
LEMMA OperandsRead ==
  ASSUME Machine, NEW op, Executes(op)
  PROVE  /\ op = Op.GetElement => top - 1 \in Reads
         /\ op \in Stores => top \in Reads
<1>1. Opcode = op /\ top \in Int
  BY ExecutesFacts, StackFacts DEF Machine
<1>2. CASE op = Op.GetElement
  <2>1. Pops(op, Operand) = 2 /\ op # Op.Return /\ op \notin Stores
    BY <1>2, PopsValues DEF Stores, Op
  <2>2. StackOperands = top + 1 - 2..top
    BY <1>1, <2>1 DEF StackOperands
  <2>3. top - 1 \in StackOperands
    BY <1>1, <2>2
  <2>. QED  BY <2>1, <2>3 DEF Reads
<1>3. CASE op \in Stores
  <2>1. Pops(op, Operand) = 1 /\ op # Op.Return /\ op # Op.GetElement
    BY <1>3, PopsValues DEF Stores, Op
  <2>2. StackOperands = top + 1 - 1..top
    BY <1>1, <2>1 DEF StackOperands
  <2>3. top \in StackOperands
    BY <1>1, <2>2
  <2>. QED  BY <2>1, <2>3 DEF Reads
<1>. QED  BY <1>2, <1>3

LEMMA GetElementBalances ==
  ASSUME Booked, DoGetElement
  PROVE  Balances(NilValue)
<1>. DEFINE container == Load(top - 1)
            index == Load(top)
            obj == heap[container.n]
            elem == Element(obj, container.type, index.n)
            c == top - 1
<1>1. Executes(Op.GetElement) /\ Machine /\ Ready /\ Addressed
  BY DEF DoGetElement, Booked, Machine, Executes
<1>2. top - 1 \in Cells /\ top \in Cells /\ slots \in [Cells -> Values]
  BY <1>1, BinaryCells, MachineTypes DEF Machine
<1>3. container \in KnownIn(heap) /\ container \in Values /\ index \in Values /\ Sound(heap)
  BY <1>1, <1>2, LoadKnown DEF Addressed
<1>4. CASE VMError("Type") \/ VMError("Range")
  BY <1>4, ErrorBalances
<1>5. CASE /\ container.type \in {"Range", "Array"} /\ IsInt(index)
           /\ index.n \in 0..ElementCount(obj, container.type) - 1
           /\ slots' = [slots EXCEPT ![top - 1] = elem]
           /\ heap' = Retain(heap, elem)
           /\ Release(container)
           /\ top' = top - 1
           /\ Dispatch
  <2>1. container.n \in DOMAIN heap /\ index.n \in Int /\ IsObject(container)
    BY <1>3, <1>5 DEF KnownIn, IsObject, ObjectTypes, Values
  <2>2. obj \in Objects /\ obj.elems \in Seq(KnownIn(heap))
    BY <1>3, <2>1, SoundObjects
  <2>3. heap[container.n].live
    <3>1. c \in Reads
      BY <1>1, OperandsRead
    <3>2. IsObject(Load(c)) => heap[Load(c).n].live
      BY <1>1, <3>1, ReadIsLive
    <3>. QED  BY <2>1, <3>2
  <2>4. slots' = Written(slots, c, elem) /\ top' = c /\ c - 1 = top - 2 /\ consts' = consts
    BY <1>1, <1>5, StackFacts DEF Machine, Written, Dispatch
  <2>5. ASSUME NEW id  PROVE Is(slots[top], id) = 0 /\ Is(slots[top - 1], id) = Is(container, id)
    <3>1. Is(slots[top], id) = 0
      BY <1>1, <1>2, <1>5, NumberIsNothing
    <3>2. Is(Load(top - 1), id) = Is(slots[top - 1], id)
      BY LoadIs
    <3>. QED  BY <3>1, <3>2
  <2>. HIDE DEF container, index
  <2>6. elem \in KnownIn(heap) /\ (IsObject(elem) => heap[elem.n].live)
    <3>1. CASE container.type = "Range"
      <4>1. obj.start + index.n \in Int
        BY <2>1, <2>2 DEF Objects
      <4>2. elem = IntValue(obj.start + index.n)
        BY <3>1 DEF Element
      <4>3. ~IsObject(elem)
        BY <4>2 DEF IntValue, IsObject, ObjectTypes
      <4>. HIDE DEF obj
      <4>. QED  BY <4>1, <4>2, <4>3, PlainKnown
    <3>2. CASE container.type = "Array"
      <4>1. index.n + 1 \in 1..Len(obj.elems) /\ DOMAIN obj.elems = 1..Len(obj.elems)
        BY <1>5, <2>1, <2>2, <3>2, LenProperties DEF ElementCount
      <4>2. elem = obj.elems[index.n + 1]
        BY <3>2 DEF Element
      <4>3. elem \in KnownIn(heap)
        BY <2>2, <4>1, <4>2, ElementOfSeq
      <4>. DEFINE i == index.n + 1
      <4>. HIDE DEF elem
      <4>4. i \in DOMAIN heap[container.n].elems /\ elem = heap[container.n].elems[i]
        BY <4>1, <4>2
      <4>. HIDE DEF i
      <4>5. IsObject(heap[container.n].elems[i]) => heap[heap[container.n].elems[i].n].live
        BY <2>1, <2>3, <4>4, ElementIsLive
      <4>. QED  BY <4>3, <4>4, <4>5
    <3>. QED  BY <1>5, <3>1, <3>2
  <2>. HIDE DEF elem, obj
  <2>7. ASSUME NEW id \in DOMAIN heap  PROVE RootsAfter(id) = RootsNow(id) + Is(elem, id)
    <3>1. elem \in Values
      BY <2>6, KnownValues
    <3>2. RootsAfter(id) = OnStack(slots', top', id) + Occurrences(consts, Refs(id)) + Is(container, id)
      BY <1>3, <1>5, <2>4, RootsThen
    <3>3. RootsNow(id) = OnStack(slots, top, id) + Occurrences(consts, Refs(id))
          /\ Occurrences(consts, Refs(id)) \in Nat
      BY <1>1, RootsReady
    <3>4. /\ OnStack(slots, top, id)
              = OnStack(slots, top - 2, id) + Is(slots[top - 1], id) + Is(slots[top], id)
          /\ OnStack(slots, top - 2, id) \in Nat
      BY <1>1, <1>2, TwoOnTop
    <3>5. c \in Cells
      BY <1>2
    <3>. HIDE DEF c
    <3>6. OnStack(slots', c, id) = OnStack(slots, c - 1, id) + Is(elem, id)
      BY <1>2, <2>4, <3>1, <3>5, WriteTop
    <3>7. Is(elem, id) \in Int /\ Is(container, id) \in Int
      BY IsType
    <3>. QED  BY <2>4, <2>5, <3>2, <3>3, <3>4, <3>6, <3>7
  <2>8. heap' = Retain(heap, elem)
    BY <1>5
  <2>9. Balances(IF TRUE THEN NilValue ELSE elem)
    BY <2>6, <2>7, <2>8, RetainBalances
  <2>. QED  BY <2>9
<1>. QED  BY <1>4, <1>5 DEF DoGetElement

\* The value stored has one more reference than holders.
LEMMA StoreBalances ==
  ASSUME Booked, NEW op \in Stores, Executes(op), NEW c \in Cells, c <= top, StoreTop(c)
  PROVE  Balances(slots[top])
<1>. DEFINE v == slots[top]
            w == Load(top)
<1>1. Machine /\ Ready /\ Addressed
  BY DEF Booked, Machine, Executes
<1>2. top \in Cells /\ slots \in [Cells -> Values] /\ top \in Int /\ top - 1 \in -1..StackSize - 1
  <2>1. top \in Cells
    BY <1>1, UnaryCell DEF Machine, Stores
  <2>. QED  BY <1>1, <2>1, MachineTypes, StackFacts DEF Machine
<1>3. v \in KnownIn(heap) /\ v \in Values /\ w \in Values /\ slots[c] \in Values
  BY <1>1, <1>2, LoadKnown
<1>4. IsObject(v) => heap[v.n].live
  <2>1. top \in Reads
    BY <1>1, OperandsRead
  <2>. QED  BY <2>1, ReadIsLive
<1>5. slots' = Written(slots, c, w) /\ top' = top - 1 /\ consts' = consts /\ Release(slots[c])
      /\ heap' = Retain(heap, v)
  BY DEF StoreTop, Dispatch, Written
<1>6. slots' \in [Cells -> Values] /\ slots'[c] = w /\ SameCellsBut(slots, slots', c)
  BY <1>2, <1>3, <1>5 DEF SameCellsBut, Written
<1>7. \A id : Is(w, id) = Is(v, id)
  BY LoadIs
<1>. HIDE DEF v, w
<1>8. ASSUME NEW id  PROVE RootsAfter(id) = RootsNow(id)
  <2>. DEFINE t == top - 1
  <2>1. OnStack(slots, top, id) = OnStack(slots, t, id) + Is(v, id) /\ OnStack(slots, t, id) \in Nat
    BY <1>2, TopOnStack DEF v
  <2>2. RootsNow(id) = OnStack(slots, top, id) + Occurrences(consts, Refs(id))
        /\ Occurrences(consts, Refs(id)) \in Nat
    BY <1>1, RootsReady
  <2>3. RootsAfter(id) = OnStack(slots', t, id) + Occurrences(consts, Refs(id)) + Is(slots[c], id)
    BY <1>3, <1>5, RootsThen
  <2>4. Is(slots[c], id) \in Int /\ Is(v, id) \in Int
    BY IsType
  <2>5. CASE c <= t
    <3>1. t \in -1..StackSize - 1
      BY <1>2
    <3>. HIDE DEF t
    <3>2. OnStack(slots', t, id) = OnStack(slots, t, id) - Is(slots[c], id) + Is(slots'[c], id)
      BY <1>2, <1>6, <2>5, <3>1, CellReplaced
    <3>. QED  BY <1>6, <1>7, <2>1, <2>2, <2>3, <2>4, <3>2
  <2>6. CASE ~(c <= t)
    <3>1. c = top
      BY <1>2, <2>6, StackFacts DEF Booked, Machine
    <3>2. OnStack(slots', c, id) = OnStack(slots, c - 1, id) + Is(slots'[c], id)
      BY <1>2, <1>6, CellOnTop
    <3>3. OnStack(slots', c, id) = OnStack(slots', c - 1, id) + Is(slots'[c], id)
          /\ OnStack(slots', c - 1, id) \in Nat
      BY <1>6, TopOnStack
    <3>4. OnStack(slots, c - 1, id) \in Nat
      BY <1>2, TopOnStack
    <3>5. Is(slots'[c], id) \in Int
      BY IsType
    <3>6. OnStack(slots', c - 1, id) = OnStack(slots, c - 1, id)
      BY <3>2, <3>3, <3>4, <3>5
    <3>7. OnStack(slots', t, id) = OnStack(slots, t, id) /\ Is(slots[c], id) = Is(v, id)
      BY <3>1, <3>6 DEF v
    <3>. QED  BY <2>1, <2>2, <2>3, <2>4, <3>7
  <2>. QED  BY <2>5, <2>6
<1>9. \A id \in DOMAIN heap : RootsAfter(id) = RootsNow(id) + (IF FALSE THEN Is(v, id) ELSE 0)
  <2>1. ASSUME NEW id \in DOMAIN heap  PROVE RootsAfter(id) = RootsNow(id) + 0
    <3>1. RootsNow(id) \in Nat
      BY PartsNow
    <3>. QED  BY <1>8, <3>1
  <2>. QED  BY <2>1
<1>10. Balances(IF FALSE THEN NilValue ELSE v)
  BY <1>3, <1>4, <1>5, <1>9, RetainBalances
<1>. QED  BY <1>10 DEF v

LEMMA ReleaseBalances ==
  ASSUME Booked, ReleaseObject
  PROVE  Balances(NilValue)
<1>1. CASE Freed(Head(releasing))
  BY <1>1, NothingMoves DEF ReleaseObject
<1>2. CASE ~Freed(Head(releasing))
  <2>1. Parts(heap, slots, top, consts, releasing) /\ Orderly(heap) /\ releasing \in Seq(ObjectsIn(heap))
    BY PartsNow DEF Booked, Machine, Addressed
  <2>2. releasing # <<>>
    BY DEF ReleaseObject
  <2>3. Head(releasing) \in ObjectsIn(heap)
    BY <2>1, <2>2, HeadTailProperties
  <2>4. ReleasesNext(heap, releasing, heap', releasing')
    BY <1>2, <2>1, <2>2, <2>3 DEF ReleasesNext, ReleaseObject, Freed, ObjectsIn
  <2>5. /\ Orderly(heap') /\ DOMAIN heap' = DOMAIN heap
        /\ \A id \in DOMAIN heap :
             Excess(heap', slots, top, consts, releasing', id)
               = Excess(heap, slots, top, consts, releasing, id)
    BY <2>1, <2>4, DropExcess
  <2>6. ASSUME NEW id \in DOMAIN heap  PROVE After(id) = Now(id) + Is(NilValue, id)
    <3>1. Now(id) \in Int /\ Is(NilValue, id) = 0
      BY PartsNow, NilIsNothing
    <3>2. After(id) = Now(id)
      BY <2>5 DEF After, Now, ReleaseObject
    <3>. QED  BY <3>1, <3>2
  <2>. QED  BY <2>5, <2>6 DEF Balances
<1>. QED  BY <1>1, <1>2

\* What a step leaves behind: the value that is assigned.
Lost == IF Assigns /\ ~Crashed' THEN slots[top] ELSE NilValue

LEMMA AssignmentBalances ==
  ASSUME Booked, phase = "run", StoresInUse, DoSetLocal \/ DoSetLocalByRef
  PROVE  Balances(Lost)
<1>1. PICK op \in Stores : /\ Executes(op)
                           /\ op = Op.SetLocal => StoreTop(Operand)
                           /\ op = Op.SetLocalByRef => StoreTop(slots[Operand].n)
  BY DEF DoSetLocal, DoSetLocalByRef, Stores, Op
<1>2. /\ Opcode = op /\ Ready /\ ~Undefined /\ op \in LocalOps \ {Op.LocalRef}
      /\ op # Op.SetLocal => op \in ByRefOps
  BY <1>1 DEF Executes, Stores, LocalOps, ByRefOps, Op
<1>3. StoreTop(StoreCell) /\ StoreCell \in Cells
  BY <1>1, <1>2, LocalCell, ByRefCell DEF StoreCell, Stores
<1>4. Assigns /\ ~Crashed'
  BY <1>2, <1>3 DEF Assigns, Crashed, StoreTop, Dispatch, Ready
<1>5. StoreCell <= top
  BY <1>2, <1>4 DEF StoresInUse
<1>6. Balances(slots[top])
  BY <1>1, <1>3, <1>5, StoreBalances
<1>. QED  BY <1>4, <1>6 DEF Lost

LEMMA VMBalances ==
  ASSUME Booked, Machine', phase = "run", StoresInUse, VMNext
  PROVE  Balances(Lost)
<1>1. CASE ReleaseObject
  <2>1. ~Assigns
    BY <1>1 DEF ReleaseObject, Assigns, Ready
  <2>. QED  BY <1>1, <2>1, ReleaseBalances DEF Lost
<1>2. CASE Crash
  <2>1. Crashed'
    BY <1>2 DEF Crash, Crashed
  <2>. QED  BY <1>2, <2>1, NothingMoves DEF Crash, chunkVars, Lost
<1>3. ASSUME NEW op, Executes(op), op \notin Stores, Balances(NilValue)  PROVE Balances(Lost)
  <2>1. ~Assigns
    BY <1>3, ExecutesFacts DEF Assigns
  <2>. QED  BY <1>3, <2>1 DEF Lost
<1>4. CASE DoNil \/ DoFalse \/ DoTrue \/ DoInt \/ DoConst \/ DoLocalRef \/ DoGetLocal \/ DoGetLocalByRef
  <2>1. PICK op \in {Op.Nil, Op.False, Op.True, Op.Int, Op.Const, Op.LocalRef, Op.GetLocal,
                     Op.GetLocalByRef} : Executes(op)
    BY <1>4 DEF DoNil, DoFalse, DoTrue, DoInt, DoConst, DoLocalRef, DoGetLocal, DoGetLocalByRef
  <2>2. op \notin Stores
    BY DEF Stores, Op
  <2>. QED  BY <1>3, <1>4, <2>1, <2>2, PushersBalance
<1>5. CASE DoRange
  BY <1>3, <1>5, RangeBalances DEF DoRange, Stores, Op
<1>6. CASE DoArray
  BY <1>3, <1>6, ArrayBalances DEF DoArray, Stores, Op
<1>7. CASE DoPop
  BY <1>3, <1>7, PopBalances DEF DoPop, Stores, Op
<1>8. CASE DoSetLocal \/ DoSetLocalByRef
  BY <1>8, AssignmentBalances
<1>9. CASE DoGetElement
  BY <1>3, <1>9, GetElementBalances DEF DoGetElement, Stores, Op
<1>10. CASE DoNeg
  BY <1>3, <1>10, NegBalances DEF DoNeg, Stores, Op
<1>11. CASE DoReturn
  <2>1. Balances(NilValue)
    BY <1>11, NothingMoves DEF DoReturn, chunkVars
  <2>. QED  BY <1>3, <1>11, <2>1 DEF DoReturn, Stores, Op
<1>12. ASSUME NEW op \in ArithmeticOps, DoArithmetic(op)  PROVE Balances(Lost)
  <2>1. Balances(NilValue)
    BY <1>12, ArithmeticBalances
  <2>2. Executes(op) /\ op \notin Stores
    BY <1>12 DEF DoArithmetic, Stores, ArithmeticOps, Op
  <2>. QED  BY <1>3, <2>1, <2>2
<1>. QED
  BY <1>1, <1>2, <1>4, <1>5, <1>6, <1>7, <1>8, <1>9, <1>10, <1>11, <1>12 DEF VMNext, Handler

-----------------------------------------------------------------------------
\* The compiler: what it allocates, it keeps as a constant.

\* There is room for another constant: the instruction that loads a constant
\* takes two bytes of the code, which has no more room than the constants.
Spacious == phase = "compile" /\ rc = "Ok" => 2 * Len(consts) <= Len(code)

LEMMA SpaciousStep ==
  ASSUME TypeOK, SlotNumbering, CompilerNext, rc' = "Ok", 2 * Len(consts) <= Len(code)
  PROVE  2 * Len(consts') <= Len(code')
<1>1. Emission
  BY EmissionStep
<1>2. /\ code \in Seq(Bytes) /\ consts \in Seq(Values) /\ Len(code) \in Nat /\ Len(consts) \in Nat
  BY LenProperties DEF TypeOK, ChunkTypeOK, Bytes
<1>3. ASSUME NEW bytes \in Seq(Int), code' = code \o bytes
      PROVE  Len(code') = Len(code) + Len(bytes) /\ Len(bytes) \in Nat
  <2>1. code \in Seq(Int)
    <3>1. Bytes \subseteq Int
      BY BoundsAssumption DEF Bytes, Opcodes
    <3>. QED  BY <1>2, <3>1, SeqMonotonic
  <2>. QED  BY <1>3, <2>1, ConcatProperties, LenProperties
<1>4. ASSUME NEW bytes \in Seq(Int), code' = code \o bytes, consts' = consts
      PROVE  2 * Len(consts') <= Len(code')
  BY <1>2, <1>3, <1>4
<1>5. ASSUME NEW op \in Int, NEW operand \in Int
      PROVE  <<op>> \in Seq(Int) /\ <<op, operand>> \in Seq(Int) /\ Len(<<op, operand>>) = 2
  OBVIOUS
<1>6. CASE UNCHANGED <<code, consts>>
  BY <1>6
<1>7. CASE consts' = consts /\ \E op \in Opcodes : code' = code \o <<op>>
  <2>1. PICK op \in Opcodes : code' = code \o <<op>>
    BY <1>7
  <2>2. op \in Int
    BY DEF Opcodes
  <2>. QED  BY <1>4, <1>5, <1>7, <2>1, <2>2
<1>8. CASE consts' = consts /\ \E op \in Opcodes, operand \in Int : code' = code \o <<op, operand>>
  <2>1. PICK op \in Opcodes, operand \in Int : code' = code \o <<op, operand>>
    BY <1>8
  <2>2. op \in Int
    BY DEF Opcodes
  <2>. QED  BY <1>4, <1>5, <1>8, <2>1, <2>2
<1>9. CASE consts' = consts /\ \E k \in Nat : code' = code \o [i \in 1..k |-> Op.Pop]
  <2>1. PICK k \in Nat : code' = code \o [i \in 1..k |-> Op.Pop]
    BY <1>9
  <2>2. Op.Pop \in Int
    BY DEF Op
  <2>. DEFINE bytes == [i \in 1..k |-> Op.Pop]
  <2>3. bytes \in Seq(Int)
    BY <2>2
  <2>4. code' = code \o bytes
    BY <2>1
  <2>. HIDE DEF bytes
  <2>. QED  BY <1>4, <1>9, <2>3, <2>4
<1>10. CASE \E v \in Values : consts' = Append(consts, v) /\ code' = code \o <<Op.Const, Byte(Len(consts))>>
  <2>1. PICK v \in Values : consts' = Append(consts, v) /\ code' = code \o <<Op.Const, Byte(Len(consts))>>
    BY <1>10
  <2>2. Len(consts') = Len(consts) + 1
    BY <1>2, <2>1, AppendProperties
  <2>3. Op.Const \in Int /\ Byte(Len(consts)) \in Int
    BY <1>2, ByteType DEF Op
  <2>. DEFINE bytes == <<Op.Const, Byte(Len(consts))>>
  <2>4. bytes \in Seq(Int) /\ Len(bytes) = 2 /\ code' = code \o bytes
    BY <1>5, <2>1, <2>3
  <2>. HIDE DEF bytes
  <2>5. Len(code') = Len(code) + 2
    BY <1>3, <2>4
  <2>. QED  BY <1>2, <2>2, <2>5
<1>11. Op.Nil \in Opcodes /\ Op.Return \in Int /\ OperandOps \subseteq Opcodes /\ 0..UINT8_MAX \subseteq Int
  BY BoundsAssumption DEF Op, Opcodes, OperandOps, LocalOps
<1>. QED  BY <1>1, <1>6, <1>7, <1>8, <1>9, <1>10, <1>11 DEF Emission

\* A constant is one more that holds the value.
LEMMA ConstantRoots ==
  ASSUME Machine, NEW v \in Values, consts' = Append(consts, v), UNCHANGED <<slots, top, releasing>>
  PROVE  \A id : RootsAfter(id) = RootsNow(id) + Is(v, id) /\ RootsNow(id) \in Nat
<1>1. ASSUME NEW id  PROVE RootsAfter(id) = RootsNow(id) + Is(v, id) /\ RootsNow(id) \in Nat
  <2>1. Occurrences(consts', Refs(id)) = Occurrences(consts, Refs(id)) + Is(v, id)
    <3>1. consts \in Seq(Values)
      BY MachineTypes
    <3>2. Occurrences(Append(consts, v), Refs(id))
            = Occurrences(consts, Refs(id)) + (IF v \in Refs(id) THEN 1 ELSE 0)
      BY <3>1, OccurrencesAppend
    <3>. QED  BY <3>2, OccursIs
  <2>2. /\ OnStack(slots, top, id) \in Nat /\ Occurrences(consts, Refs(id)) \in Nat
        /\ Occurrences(releasing, Refs(id)) \in Nat /\ RootsNow(id) \in Nat
    BY MachineTypes, RootsTypes DEF RootsNow
  <2>3. Is(v, id) \in Int
    BY IsType
  <2>. QED  BY <2>1, <2>2, <2>3 DEF RootsAfter, RootsNow, Roots
<1>. QED  BY <1>1

LEMMA PlainConstantBalances ==
  ASSUME Booked, NEW v \in Values, ~IsObject(v), EmitConstant(v, heap), Len(consts) < MaxCapacity,
         UNCHANGED vmVars
  PROVE  Balances(NilValue)
<1>1. consts' = Append(consts, v) /\ heap' = heap /\ UNCHANGED <<slots, top, releasing>>
  BY DEF EmitConstant, Retain, vmVars
<1>2. ASSUME NEW id  PROVE RootsAfter(id) = RootsNow(id)
  <2>1. RootsAfter(id) = RootsNow(id) + Is(v, id) /\ RootsNow(id) \in Nat
    BY <1>1, ConstantRoots DEF Booked
  <2>2. Is(v, id) = 0
    BY PlainIsNothing
  <2>. QED  BY <2>1, <2>2
<1>. QED  BY <1>1, <1>2, MoveBalances

LEMMA StringConstantBalances ==
  ASSUME Booked, EmitConstant(ObjectValue("String", NewId(heap)), Append(heap, StringObject)),
         Len(consts) < MaxCapacity, UNCHANGED vmVars
  PROVE  Balances(NilValue)
<1>. DEFINE new == [StringObject EXCEPT !.refCount = 1]
            v == ObjectValue("String", NewId(heap))
            h == Append(heap, StringObject)
<1>1. consts' = Append(consts, v) /\ heap' = Retain(h, v) /\ UNCHANGED <<slots, top, releasing>>
  BY DEF EmitConstant, vmVars
<1>2. /\ new \in Objects /\ new.live /\ new.refCount = 1 /\ new.elems = <<>>
      /\ StringObject \in Objects /\ StringObject.refCount = 0
  <2>1. StringObject \in Objects /\ StringObject.elems = <<>>
    BY NewObjects
  <2>2. StringObject.live /\ StringObject.refCount = 0
    BY DEF StringObject
  <2>. HIDE DEF StringObject
  <2>3. new \in Objects /\ new.live /\ new.refCount = 1 /\ new.elems = <<>>
    BY <2>1, <2>2 DEF Objects
  <2>. QED  BY <2>1, <2>2, <2>3
<1>3. v \in Values /\ IsObject(v) /\ v.n = NewId(heap)
  <2>1. NewId(heap) \in Int
    BY SoundObjects DEF NewId, Booked, Machine, Addressed
  <2>. QED  BY <2>1 DEF ObjectValue, Values, ValueTypes, IsObject, ObjectTypes
<1>4. heap' = Append(heap, new)
  <2>1. heap \in Seq(Objects) /\ Len(heap) \in Nat /\ NewId(heap) = Len(heap) + 1
    BY LenProperties DEF Booked, Machine, ChunkTypeOK, NewId
  <2>2. /\ h \in Seq(Objects) /\ Len(h) = Len(heap) + 1 /\ DOMAIN h = 1..Len(heap) + 1
        /\ h[Len(heap) + 1] = StringObject /\ \A i \in 1..Len(heap) : h[i] = heap[i]
    <3>. HIDE DEF StringObject
    <3>. QED  BY <1>2, <2>1, AppendProperties, LenProperties
  <2>. DEFINE a == Append(heap, new)
  <2>3. /\ a \in Seq(Objects) /\ Len(a) = Len(heap) + 1 /\ DOMAIN a = 1..Len(heap) + 1
        /\ a[Len(heap) + 1] = new /\ \A i \in 1..Len(heap) : a[i] = heap[i]
    <3>. HIDE DEF new
    <3>. QED  BY <1>2, <2>1, AppendProperties, LenProperties
  <2>. DEFINE k == Len(heap) + 1
  <2>4. Retain(h, v) = [h EXCEPT ![k].refCount = @ + 1]
    BY <1>3, <2>1 DEF Retain
  <2>5. new = [h[k] EXCEPT !.refCount = @ + 1]
    BY <2>2 DEF StringObject
  <2>6. [h EXCEPT ![k].refCount = @ + 1] = [h EXCEPT ![k] = new]
    BY <2>5
  <2>. HIDE DEF new, a, k, h
  <2>7. [h EXCEPT ![k] = new] = a
    <3>. DEFINE b == [h EXCEPT ![k] = new]
    <3>1. k \in DOMAIN h /\ k = Len(heap) + 1
      BY <2>1, <2>2 DEF k
    <3>2. b \in Seq(Objects) /\ Len(b) = Len(heap) + 1
          /\ \A i \in 1..Len(heap) + 1 : b[i] = IF i = k THEN new ELSE h[i]
      BY <1>2, <2>2, <3>1, ExceptSeq
    <3>. HIDE DEF b
    <3>3. \A i \in 1..Len(heap) + 1 : b[i] = a[i]
      <4>1. ASSUME NEW i \in 1..Len(heap) + 1  PROVE b[i] = a[i]
        <5>1. i = k \/ i \in 1..Len(heap)
          BY <2>1, <3>1
        <5>2. k \notin 1..Len(heap)
          BY <2>1, <3>1
        <5>. QED  BY <2>2, <2>3, <3>1, <3>2, <5>1, <5>2
      <4>. QED  BY <4>1
    <3>4. b = a
      BY <2>3, <3>2, <3>3, SeqEqual
    <3>. QED  BY <3>4 DEF b
  <2>. QED  BY <1>1, <2>4, <2>6, <2>7 DEF a
<1>. HIDE DEF new, v, h
<1>5. Allocates(heap, heap', new)
  BY <1>2, <1>4, VMAssumption DEF Allocates
<1>6. ASSUME NEW id
      PROVE  /\ RootsAfter(id) \in Nat
             /\ RootsAfter(id) + Occurrences(new.elems, Refs(id))
                  = RootsNow(id) + (IF id = NewId(heap) THEN 1 ELSE 0)
  <2>1. RootsAfter(id) = RootsNow(id) + Is(v, id) /\ RootsNow(id) \in Nat
    BY <1>1, <1>3, ConstantRoots DEF Booked
  <2>2. Is(v, id) = (IF id = NewId(heap) THEN 1 ELSE 0)
    BY <1>3, IsValue
  <2>3. Occurrences(new.elems, Refs(id)) = 0
    BY <1>2, NothingOccurs
  <2>. QED  BY <2>1, <2>2, <2>3
<1>. QED  BY <1>5, <1>6, NewBalances

LEMMA CompilerBalances ==
  ASSUME Booked, TypeOK, 2 * Len(consts) <= Len(code), CompilerNext, UNCHANGED vmVars
  PROVE  Balances(NilValue)
<1>1. Len(consts) < MaxCapacity
  <2>1. Len(consts) \in Nat /\ Len(code) \in Nat /\ Len(code) <= MaxCapacity /\ MaxCapacity \in Nat \ {0}
    BY LenProperties, BoundsAssumption DEF TypeOK, ChunkTypeOK
  <2>. QED  BY <2>1
<1>2. CASE UNCHANGED <<consts, heap>>
  BY <1>2, NothingMoves DEF vmVars
<1>3. CASE \E i \in Int : EmitConstant(IntValue(i), heap)
  <2>1. PICK i \in Int : EmitConstant(IntValue(i), heap)
    BY <1>3
  <2>2. IntValue(i) \in Values /\ ~IsObject(IntValue(i))
    BY DEF IntValue, Values, ValueTypes, NumberTypes, IsObject, ObjectTypes
  <2>. QED  BY <1>1, <2>1, <2>2, PlainConstantBalances
<1>4. CASE EmitConstant(FractionValue, heap)
  <2>1. FractionValue \in Values /\ ~IsObject(FractionValue)
    BY DEF FractionValue, Values, ValueTypes, NumberTypes, IsObject, ObjectTypes
  <2>. QED  BY <1>1, <1>4, <2>1, PlainConstantBalances
<1>5. CASE EmitConstant(ObjectValue("String", NewId(heap)), Append(heap, StringObject))
  BY <1>1, <1>5, StringConstantBalances
<1>. QED  BY <1>2, <1>3, <1>4, <1>5, ConstantsChange

-----------------------------------------------------------------------------
\* main.

\* Nothing is being released where main or an instruction starts something else,
\* and the constants go with the chunk.
Calm ==
  /\ \/ phase \in {"compile", "success", "failure"}
     \/ phase = "run" /\ status \in {"returned", "failed"}
     => releasing = <<>>
  /\ phase \notin {"compile", "run"} => consts = <<>>

\* What is to be released after akw_chunk_deinit is what the constants held.
LEMMA ConstantsReleased ==
  ASSUME Booked, NEW id \in DOMAIN heap
  PROVE  Occurrences(ConstantObjects, Refs(id)) = Occurrences(consts, Refs(id))
<1>1. consts \in Seq(KnownIn(heap))
  BY DEF Booked, Machine, Addressed
<1>2. AlikeIn(ObjectsOf(consts), consts, ObjectsIn(heap))
  BY <1>1, ObjectsOfKnown
<1>3. Refs(id) \subseteq ObjectsIn(heap)
  BY DEF Refs, ObjectsIn, KnownIn
<1>. QED  BY <1>2, <1>3 DEF AlikeIn, ConstantObjects

LEMMA CleanUpBalances ==
  ASSUME Booked, Calm, PrintResult \/ ReportError \/ DeinitVM \/ Unwind
  PROVE  Balances(NilValue)
<1>. DEFINE last == IF IsObject(slots[top]) THEN <<slots[top]>> ELSE <<>>
<1>1. Machine /\ ConstantObjects \in Seq(ObjectsIn(heap)) /\ ObjectsIn(heap) \subseteq Values
  BY ReleasedKnown, KnownValues DEF Booked
<1>2. ConstantObjects \in Seq(Values)
  BY <1>1, SeqMonotonic
<1>3. ASSUME NEW id
      PROVE  /\ OnStack(slots, top, id) \in Nat /\ Occurrences(consts, Refs(id)) \in Nat
             /\ Occurrences(releasing, Refs(id)) \in Nat
             /\ Occurrences(ConstantObjects, Refs(id)) \in Nat
             /\ Occurrences(<<>>, Refs(id)) = 0
  BY <1>1, <1>2, MachineTypes, RootsTypes, OccurrencesType, NothingOccurs
<1>4. ASSUME top >= 0, NEW id
      PROVE  /\ OnStack(slots, top, id) = OnStack(slots, top - 1, id) + Occurrences(last, Refs(id))
             /\ OnStack(slots, top - 1, id) \in Nat /\ Occurrences(last, Refs(id)) \in Nat
  <2>1. top \in Cells /\ slots \in [Cells -> Values]
    BY <1>1, <1>4, MachineTypes, StackFacts DEF Machine
  <2>2. slots[top] \in Values
    BY <2>1
  <2>3. /\ OnStack(slots, top, id) = OnStack(slots, top - 1, id) + Is(slots[top], id)
        /\ OnStack(slots, top - 1, id) \in Nat
    BY <2>1, TopOnStack
  <2>4. Occurrences(last, Refs(id)) = Is(slots[top], id) /\ Is(slots[top], id) \in Nat
    BY <2>2, ReleasedOccurs, IsType
  <2>. QED  BY <2>3, <2>4
<1>5. CASE PrintResult /\ top >= 0 /\ ~Freed(slots[top])
  <2>1. /\ heap' = heap /\ slots' = slots /\ top' = top - 1 /\ consts' = <<>>
        /\ releasing' = last \o ConstantObjects /\ releasing = <<>>
    BY <1>5 DEF PrintResult, DeinitCompiler, Calm
  <2>2. last \in Seq(Values)
    <3>1. last \in Seq(ObjectsIn(heap))
      BY <1>1, <1>5, ReleasedKnown
    <3>. HIDE DEF last
    <3>. QED  BY <1>1, <3>1, SeqMonotonic
  <2>3. ASSUME NEW id \in DOMAIN heap  PROVE RootsAfter(id) = RootsNow(id)
    <3>. HIDE DEF last
    <3>1. Occurrences(last \o ConstantObjects, Refs(id))
            = Occurrences(last, Refs(id)) + Occurrences(ConstantObjects, Refs(id))
      BY <1>2, <2>2, OccurrencesConcat
    <3>2. Occurrences(ConstantObjects, Refs(id)) = Occurrences(consts, Refs(id))
      BY ConstantsReleased
    <3>3. RootsNow(id) = OnStack(slots, top, id) + Occurrences(consts, Refs(id)) + Occurrences(<<>>, Refs(id))
      BY <2>1 DEF RootsNow, Roots
    <3>4. RootsAfter(id) = OnStack(slots, top - 1, id) + Occurrences(<<>>, Refs(id))
                             + Occurrences(last \o ConstantObjects, Refs(id))
      BY <2>1 DEF RootsAfter, Roots
    <3>5. /\ OnStack(slots, top, id) = OnStack(slots, top - 1, id) + Occurrences(last, Refs(id))
          /\ OnStack(slots, top - 1, id) \in Nat /\ Occurrences(last, Refs(id)) \in Nat
      BY <1>4, <1>5 DEF last
    <3>. QED  BY <1>3, <3>1, <3>2, <3>3, <3>4, <3>5
  <2>. QED  BY <2>1, <2>3, MoveBalances
<1>6. CASE PrintResult /\ ~(top >= 0 /\ ~Freed(slots[top]))
  BY <1>6, NothingMoves DEF PrintResult, vars, chunkVars
<1>7. CASE ReportError
  <2>1. /\ heap' = heap /\ slots' = slots /\ top' = top /\ consts' = <<>>
        /\ releasing' = ConstantObjects /\ releasing = <<>>
    BY <1>7 DEF ReportError, DeinitCompiler, Calm
  <2>2. ASSUME NEW id \in DOMAIN heap  PROVE RootsAfter(id) = RootsNow(id)
    <3>1. Occurrences(ConstantObjects, Refs(id)) = Occurrences(consts, Refs(id))
      BY ConstantsReleased
    <3>2. RootsNow(id) = OnStack(slots, top, id) + Occurrences(consts, Refs(id)) + Occurrences(<<>>, Refs(id))
      BY <2>1 DEF RootsNow, Roots
    <3>3. RootsAfter(id) = OnStack(slots, top, id) + Occurrences(<<>>, Refs(id))
                             + Occurrences(ConstantObjects, Refs(id))
      BY <2>1 DEF RootsAfter, Roots
    <3>. QED  BY <1>3, <3>1, <3>2, <3>3
  <2>. QED  BY <2>1, <2>2, MoveBalances
<1>8. CASE DeinitVM \/ (Unwind /\ ~(top >= 0))
  BY <1>8, NothingMoves DEF DeinitVM, Unwind, vars, chunkVars, vmVars
<1>9. CASE Unwind /\ top >= 0
  <2>1. /\ heap' = heap /\ slots' = slots /\ top' = top - 1 /\ consts' = consts
        /\ releasing' = last /\ releasing = <<>>
    BY <1>9 DEF Unwind, vars, chunkVars
  <2>2. ASSUME NEW id  PROVE RootsAfter(id) = RootsNow(id)
    <3>1. RootsNow(id) = OnStack(slots, top, id) + Occurrences(consts, Refs(id)) + Occurrences(<<>>, Refs(id))
      BY <2>1 DEF RootsNow, Roots
    <3>2. RootsAfter(id) = OnStack(slots, top - 1, id) + Occurrences(consts, Refs(id)) + Occurrences(last, Refs(id))
      BY <2>1 DEF RootsAfter, Roots
    <3>3. /\ OnStack(slots, top, id) = OnStack(slots, top - 1, id) + Occurrences(last, Refs(id))
          /\ OnStack(slots, top - 1, id) \in Nat /\ Occurrences(last, Refs(id)) \in Nat
      BY <1>4, <1>9
    <3>. HIDE DEF last
    <3>. QED  BY <1>3, <3>1, <3>2, <3>3
  <2>. QED  BY <2>1, <2>2, MoveBalances
<1>. QED  BY <1>5, <1>6, <1>7, <1>8, <1>9

LEMMA CalmStep ==
  ASSUME Calm, ProgramNext
  PROVE  Calm'
<1>1. CASE Compile \/ StartVM
  BY <1>1 DEF Calm, Compile, StartVM, vmVars, vars
<1>2. CASE Run
  <2>1. phase = "run" /\ phase' = "run"
    BY <1>2 DEF Run
  <2>2. CASE ReleaseObject
    BY <2>1, <2>2 DEF Calm, ReleaseObject
  <2>3. CASE Crash
    BY <2>1, <2>3 DEF Calm, Crash
  <2>4. ASSUME Ready, UNCHANGED status \/ UNCHANGED releasing  PROVE Calm'
    BY <2>1, <2>4 DEF Calm, Ready
  <2>5. ASSUME NEW op, Executes(op)  PROVE Ready
    BY <2>5 DEF Executes
  <2>6. CASE Handler
    BY <2>4, <2>5, <2>6 DEF Handler, DoNil, DoFalse, DoTrue, DoInt, DoConst, DoRange, DoArray, DoLocalRef,
       DoPop, DoGetLocal, DoSetLocal, DoGetLocalByRef, DoSetLocalByRef, DoGetElement, DoNeg, DoReturn,
       DoArithmetic, Push, VMError, Dispatch, StoreTop
  <2>. QED  BY <1>2, <2>2, <2>3, <2>6 DEF Run, VMNext
<1>3. CASE PrintResult \/ ReportError \/ DeinitVM \/ Unwind
  BY <1>3 DEF Calm, PrintResult, ReportError, DeinitVM, Unwind, DeinitCompiler, vars, chunkVars, vmVars
<1>4. CASE ReleaseInDeinit
  BY <1>4 DEF Calm, ReleaseInDeinit, ReleaseObject
<1>. QED  BY <1>1, <1>2, <1>3, <1>4 DEF ProgramNext

\* Whatever is allocated is counted and held, and what is being released is on
\* its way only while main waits for it.
Ledger == Orderly(heap) /\ Balanced /\ Calm /\ Spacious

\* A step of the program keeps the ledger, but for the value that an assignment
\* to a variable in use stores.
LEMMA StepBalances ==
  ASSUME ProgramInv, ProgramInv', Fetching, Ledger, StoresInUse, ProgramNext
  PROVE  Balances(Lost)
<1>1. Booked /\ Machine' /\ TypeOK
  BY DEF ProgramInv, ProgramTypeOK, Machine, Booked, Ledger, TypeOK
<1>2. ASSUME ~Assigns, Balances(NilValue)  PROVE Balances(Lost)
  BY <1>2 DEF Lost
<1>3. CASE Compile
  <2>1. phase = "compile" /\ CompilerNext /\ UNCHANGED vmVars
    BY <1>3 DEF Compile
  <2>2. 2 * Len(consts) <= Len(code)
    BY <2>1, RunsOnlyOk DEF Ledger, Spacious
  <2>3. Balances(NilValue)
    BY <1>1, <2>1, <2>2, CompilerBalances
  <2>. QED  BY <1>2, <2>1, <2>3 DEF Assigns
<1>4. CASE StartVM
  BY <1>1, <1>2, <1>4, NothingMoves DEF StartVM, vars, chunkVars, Assigns
<1>5. CASE Run
  BY <1>1, <1>5, VMBalances DEF Run
<1>6. CASE PrintResult \/ ReportError \/ DeinitVM \/ Unwind
  <2>1. ~Assigns
    BY <1>6 DEF PrintResult, ReportError, DeinitVM, Unwind, Assigns, Ready
  <2>. QED  BY <1>1, <1>2, <1>6, <2>1, CleanUpBalances DEF Ledger
<1>7. CASE ReleaseInDeinit
  BY <1>1, <1>2, <1>7, ReleaseBalances DEF ReleaseInDeinit, Assigns
<1>. QED  BY <1>3, <1>4, <1>5, <1>6, <1>7 DEF ProgramNext

LEMMA LedgerStep ==
  ASSUME ProgramInv, ProgramInv', Fetching, Ledger, StoresInUse, [ProgramNext]_programVars
  PROVE  Ledger'
<1>1. CASE UNCHANGED programVars
  BY <1>1 DEF Ledger, Balanced, Now, Calm, Spacious, programVars, vars, vmVars, chunkVars, compilerVars
<1>2. CASE ProgramNext
  <2>1. Balances(Lost)
    BY <1>2, StepBalances
  <2>2. Booked
    BY DEF ProgramInv, ProgramTypeOK, Machine, Booked, Ledger, TypeOK
  <2>3. ASSUME NEW id \in DOMAIN heap'  PROVE After(id) >= 0
    <3>1. CASE id \in DOMAIN heap
      <4>1. Now(id) \in Int /\ Now(id) >= 0 /\ Is(Lost, id) \in {0, 1}
        BY <2>2, <3>1, PartsNow, IsType DEF Booked, Balanced
      <4>2. After(id) = Now(id) + Is(Lost, id)
        BY <2>1, <3>1 DEF Balances
      <4>. QED  BY <4>1, <4>2
    <3>2. CASE id \notin DOMAIN heap
      BY <2>1, <2>3, <3>2 DEF Balances
    <3>. QED  BY <3>1, <3>2
  <2>4. Orderly(heap)' /\ Balanced'
    BY <2>1, <2>3 DEF Balances, Balanced, Now, After
  <2>5. Calm'
    BY <1>2, CalmStep DEF Ledger
  <2>6. Spacious'
    <3>1. CASE Compile
      <4>1. TypeOK /\ CompilerNext /\ phase = "compile" /\ SlotNumbering
        BY <3>1 DEF Compile, ProgramInv, ProgramTypeOK, Fetching
      <4>2. 2 * Len(consts) <= Len(code)
        BY <4>1, RunsOnlyOk DEF Ledger, Spacious
      <4>. QED  BY <4>1, <4>2, SpaciousStep DEF Spacious
    <3>2. CASE ~Compile
      BY <1>2, <3>2 DEF ProgramNext, Spacious, StartVM, Run, PrintResult, ReportError, DeinitVM, Unwind,
         ReleaseInDeinit, DeinitCompiler
    <3>. QED  BY <3>1, <3>2
  <2>. QED  BY <2>4, <2>5, <2>6 DEF Ledger
<1>. QED  BY <1>1, <1>2

LEMMA LedgerInitial ==
  ASSUME ProgramInit
  PROVE  Ledger /\ heap = <<>>
<1>1. heap = <<>> /\ consts = <<>> /\ code = <<>> /\ releasing = <<>>
  BY DEF ProgramInit, CompilerInit, VMInit
<1>2. Orderly(heap)
  BY <1>1 DEF Orderly, Short, Older, Positive
<1>3. Balanced
  BY <1>1 DEF Balanced
<1>. QED  BY <1>1, <1>2, <1>3 DEF Ledger, Calm, Spacious

LEMMA LedgerInvariant == ProgramSpec /\ []StoresInUse => []Ledger
<1>1. ProgramInit => Ledger
  BY LedgerInitial
<1>. QED  BY <1>1, ProgramInvariant, FetchingInvariant, LedgerStep, PTL DEF ProgramSpec

LEMMA SurplusNow ==
  ASSUME Booked, NEW id \in DOMAIN heap
  PROVE  Surplus(id) = Now(id)
<1>1. Parts(heap, slots, top, consts, releasing)
  BY PartsNow
<1>. QED  BY <1>1, SurplusIs, SurplusIsExcess DEF Now

\* As long as every assignment is to a cell in use, no object is freed while a
\* cell, a constant, an array or a pending release still holds it, whatever the
\* program does with strings, ranges and arrays.
THEOREM NothingDangles == ProgramSpec /\ []StoresInUse => []NoDangling
<1>1. ProgramInv /\ Ledger => NoDangling
  <2>1. SUFFICES ASSUME ProgramInv, Ledger, NEW id \in DOMAIN heap  PROVE Surplus(id) >= 0
    BY DEF NoDangling
  <2>2. Booked
    BY <2>1 DEF ProgramInv, ProgramTypeOK, Machine, Booked, Ledger, TypeOK
  <2>. QED  BY <2>1, <2>2, SurplusNow DEF Booked, Balanced
<1>. QED  BY <1>1, ProgramInvariant, LedgerInvariant, PTL

\* What is stored is a value of the stack.
LEMMA StoredIsKnown ==
  ASSUME ProgramInv, ProgramNext, Assigns, ~Crashed'
  PROVE  slots[top] \in KnownIn(heap)
<1>1. Machine /\ phase = "run" /\ Ready /\ Opcode \in Stores
  BY DEF ProgramInv, ProgramTypeOK, Machine, TypeOK, Assigns
<1>2. Run
  BY <1>1 DEF ProgramNext, Compile, StartVM, PrintResult, ReportError, DeinitVM, Unwind, ReleaseInDeinit, Ready
<1>3. \E op : Executes(op)
  BY <1>1, <1>2 DEF Run, VMNext, Crash, Crashed, ReleaseObject, Ready, Handler, DoNil, DoFalse, DoTrue, DoInt,
     DoConst, DoRange, DoArray, DoLocalRef, DoPop, DoGetLocal, DoSetLocal, DoGetLocalByRef, DoSetLocalByRef,
     DoGetElement, DoNeg, DoReturn, DoArithmetic
<1>4. Executes(Opcode)
  BY <1>3 DEF Executes
<1>5. top \in Cells
  BY <1>1, <1>4, UnaryCell DEF Stores, Machine
<1>. QED  BY <1>1, <1>5, LoadKnown DEF Machine

\* As long as every assignment is to a cell in use, each step keeps every count
\* exact, but for the value that an assignment stores: its count is one too high.
THEOREM OnlyAssignmentsLeak == ProgramSpec /\ []StoresInUse => LeaksOnlyByAssignment
<1>. DEFINE Accounted ==
       \A id \in DOMAIN heap' :
         LET before == IF id \in DOMAIN heap THEN Surplus(id) ELSE 0
             stored == IsObject(slots[top]) /\ slots[top].n = id
         IN Surplus(id)' = before + (IF Assigns /\ ~Crashed' /\ stored THEN 1 ELSE 0)
<1>1. ASSUME ProgramInv, ProgramInv', Fetching, Ledger, Ledger', StoresInUse, [ProgramNext]_programVars
      PROVE  [Accounted]_programVars
  <2>1. SUFFICES ASSUME ProgramNext  PROVE Accounted
    BY <1>1
  <2>2. Balances(Lost) /\ Booked
    BY <1>1, <2>1, StepBalances DEF ProgramInv, ProgramTypeOK, Machine, Booked, Ledger, TypeOK
  <2>3. Parts(heap', slots', top', consts', releasing')
    <3>1. Machine' /\ Orderly(heap')
      BY <1>1 DEF ProgramInv, ProgramTypeOK, Machine, Ledger, TypeOK
    <3>2. ObjectsIn(heap') \subseteq KnownIn(heap')
      BY DEF ObjectsIn
    <3>3. releasing' \in Seq(ObjectsIn(heap'))
      BY <3>1 DEF Machine, Addressed
    <3>4. releasing' \in Seq(KnownIn(heap'))
      BY <3>2, <3>3, SeqMonotonic
    <3>. QED  BY <3>1, <3>4 DEF Machine, Addressed, VMTypeOK, Orderly, Parts
  <2>4. ASSUME NEW id \in DOMAIN heap'
        PROVE  Surplus(id)' = (IF id \in DOMAIN heap THEN Surplus(id) ELSE 0)
                 + (IF Assigns /\ ~Crashed' /\ IsObject(slots[top]) /\ slots[top].n = id THEN 1 ELSE 0)
    <3>1. Surplus(id)' = After(id)
      BY <2>3, SurplusIs, SurplusIsExcess DEF After
    <3>2. Is(Lost, id) = (IF Assigns /\ ~Crashed' /\ IsObject(slots[top]) /\ slots[top].n = id THEN 1 ELSE 0)
      <4>1. CASE Assigns /\ ~Crashed'
        <5>1. slots[top] \in Values
          BY <1>1, <2>1, <4>1, StoredIsKnown, KnownValues
        <5>. QED  BY <4>1, <5>1, IsValue DEF Lost
      <4>2. CASE ~(Assigns /\ ~Crashed')
        BY <4>2, NilIsNothing DEF Lost
      <4>. QED  BY <4>1, <4>2
    <3>3. CASE id \in DOMAIN heap
      BY <2>2, <3>1, <3>2, <3>3, SurplusNow DEF Balances
    <3>4. CASE id \notin DOMAIN heap
      <4>1. After(id) = 0
        BY <2>2, <2>4, <3>4 DEF Balances
      <4>2. ~(IsObject(slots[top]) /\ slots[top].n = id) \/ ~(Assigns /\ ~Crashed')
        <5>1. SUFFICES ASSUME Assigns, ~Crashed'
                       PROVE  ~(IsObject(slots[top]) /\ slots[top].n = id)
          OBVIOUS
        <5>2. slots[top] \in KnownIn(heap)
          BY <1>1, <2>1, <2>2, <5>1, StoredIsKnown
        <5>. QED  BY <3>4, <5>2 DEF KnownIn
      <4>. QED  BY <3>1, <3>4, <4>1, <4>2
    <3>. QED  BY <3>3, <3>4
  <2>. QED  BY <2>4
<1>2. ProgramSpec /\ []StoresInUse => [][Accounted]_programVars
  <2>. HIDE DEF Accounted
  <2>. QED  BY <1>1, ProgramInvariant, FetchingInvariant, LedgerInvariant, PTL DEF ProgramSpec
<1>. QED  BY <1>2 DEF LeaksOnlyByAssignment

-----------------------------------------------------------------------------
\* Programs without an assignment.

NoStores == ~\E i \in InstructionStarts(code) : i <= Len(code) /\ code[i] \in Stores

\* Every reference that is counted is held.
Exact == \A id \in DOMAIN heap : Now(id) = 0

\* The compiler loses nothing, and neither does the VM if it meets no assignment.
Kept == phase = "compile" \/ NoStores => Ledger /\ Exact

LEMMA KeptStep ==
  ASSUME ProgramInv, ProgramInv', Fetching, Kept, [ProgramNext]_programVars
  PROVE  Kept'
<1>1. CASE UNCHANGED programVars
  BY <1>1 DEF Kept, Exact, NoStores, Ledger, Balanced, Now, Calm, Spacious, programVars, vars, vmVars,
     chunkVars, compilerVars
<1>2. ASSUME ProgramNext, phase' = "compile" \/ NoStores'  PROVE (Ledger /\ Exact)'
  <2>1. phase = "compile" \/ NoStores
    <3>1. CASE Compile
      BY <3>1 DEF Compile
    <3>2. CASE StartVM
      BY <3>2 DEF StartVM
    <3>3. CASE Run
      <4>1. code' = code /\ phase' = "run"
        BY <1>2, <3>3, VMKeeps DEF Run, MachineKept, ProgramInv, ProgramTypeOK, Machine, TypeOK
      <4>. QED  BY <1>2, <4>1 DEF NoStores
    <3>4. CASE PrintResult \/ ReportError \/ DeinitVM \/ Unwind
      <4>1. code' = code /\ (phase' # "compile" \/ phase = "compile")
        BY <3>4 DEF PrintResult, ReportError, DeinitVM, Unwind, DeinitCompiler, vars, chunkVars
      <4>. QED  BY <1>2, <4>1 DEF NoStores
    <3>5. CASE ReleaseInDeinit
      <4>1. code' = code /\ phase' # "compile"
        BY <3>5 DEF ReleaseInDeinit, ReleaseObject
      <4>. QED  BY <1>2, <4>1 DEF NoStores
    <3>. QED  BY <1>2, <3>1, <3>2, <3>3, <3>4, <3>5 DEF ProgramNext
  <2>2. Ledger /\ Exact
    BY <2>1 DEF Kept
  <2>3. ~Assigns
    BY <2>1 DEF Assigns, NoStores, Fetching, FetchesInstructions, Ready, Opcode
  <2>4. StoresInUse
    BY <2>3 DEF StoresInUse
  <2>5. Ledger'
    BY <1>2, <2>2, <2>4, LedgerStep
  <2>6. Balances(NilValue)
    BY <1>2, <2>2, <2>3, <2>4, StepBalances DEF Lost
  <2>7. \A id \in DOMAIN heap' : After(id) = 0
    BY <2>2, <2>6, NilIsNothing DEF Balances, Exact
  <2>. QED  BY <2>5, <2>7 DEF Exact, Now, After
<1>. QED  BY <1>1, <1>2 DEF Kept

\* When everything has been unwound, only arrays are left to hold an object.
LEMMA NothingIsLeft ==
  ASSUME Booked, Exact, top = -1, consts = <<>>, releasing = <<>>
  PROVE  LiveIds = {}
<1>1. SUFFICES ASSUME LiveIds # {}  PROVE FALSE
  OBVIOUS
<1>2. /\ Sound(heap) /\ Short(heap) /\ Orderly(heap) /\ Len(heap) \in Nat
      /\ LiveIds \subseteq 1..Len(heap) /\ LiveIds \subseteq DOMAIN heap
  BY PartsNow, SoundObjects DEF Parts, Booked, LiveIds
<1>. DEFINE m == CHOOSE i \in LiveIds : \A j \in LiveIds : j <= i
<1>3. m \in LiveIds /\ \A j \in LiveIds : j <= m
  BY <1>1, <1>2, LastIndex
<1>. HIDE DEF m
<1>4. m \in DOMAIN heap /\ heap[m].live /\ heap[m].refCount >= 1
  BY <1>2, <1>3 DEF LiveIds, Orderly, Positive
<1>5. RootsNow(m) = 0
  <2>1. OnStack(slots, top, m) = 0
    <3>. DEFINE q == StackOf(slots, top)
    <3>1. \A k \in DOMAIN q : q[k] \notin Refs(m)
      BY DEF StackOf
    <3>. HIDE DEF q
    <3>. QED  BY <3>1, OccurrencesNone DEF OnStack, q
  <2>2. Occurrences(consts, Refs(m)) = 0 /\ Occurrences(releasing, Refs(m)) = 0
    BY NothingOccurs
  <2>. QED  BY <2>1, <2>2 DEF RootsNow, Roots
<1>6. InArrays(heap, m) >= 1
  <2>1. Now(m) = 0 /\ InArrays(heap, m) \in Nat /\ heap[m].refCount \in Int
    BY <1>4, PartsNow DEF Exact
  <2>2. Now(m) = heap[m].refCount - (RootsNow(m) + InArrays(heap, m))
    BY <1>4 DEF Now, Excess, RootsNow
  <2>. QED  BY <1>4, <1>5, <2>1, <2>2
<1>7. PICK o \in DOMAIN LiveRows(heap) : \E i \in DOMAIN LiveRows(heap)[o] : LiveRows(heap)[o][i] \in Refs(m)
  <2>1. ASSUME \A o \in DOMAIN LiveRows(heap) : \A i \in DOMAIN LiveRows(heap)[o] :
                 LiveRows(heap)[o][i] \notin Refs(m)
        PROVE  FALSE
    BY <1>6, <2>1, EntriesNone DEF InArrays
  <2>. QED  BY <2>1
<1>8. /\ o \in DOMAIN heap /\ heap[o].live
      /\ \E i \in DOMAIN heap[o].elems : IsObject(heap[o].elems[i]) /\ heap[o].elems[i].n = m
  BY <1>2, <1>7, RowsFit DEF Refs
<1>9. m < o
  BY <1>2, <1>8 DEF Orderly, Older
<1>10. o \in LiveIds /\ o \in Int /\ m \in Int
  BY <1>2, <1>3, <1>8 DEF LiveIds
<1>. QED  BY <1>3, <1>9, <1>10

\* A program without an assignment gives back everything it allocates before main
\* returns, however it ends: at its end or with an error of the compiler or the VM.
THEOREM LeakFree == ProgramSpec => []LeakFreeWithoutAssignment
<1>1. ProgramInit => Kept
  <2>1. ASSUME ProgramInit  PROVE Exact
    BY <2>1, LedgerInitial DEF Exact
  <2>. QED  BY <2>1, LedgerInitial DEF Kept
<1>2. ProgramSpec => []Kept
  BY <1>1, ProgramInvariant, FetchingInvariant, KeptStep, PTL DEF ProgramSpec
<1>3. ProgramInv /\ ExitReports /\ Kept => LeakFreeWithoutAssignment
  <2>1. SUFFICES ASSUME ProgramInv, ExitReports, Kept, phase \in {"success", "failure"}, NoStores
                 PROVE  LiveIds = {}
    BY DEF LeakFreeWithoutAssignment, NoStores
  <2>2. Ledger /\ Exact
    BY <2>1 DEF Kept
  <2>3. Booked
    BY <2>1, <2>2 DEF ProgramInv, ProgramTypeOK, Machine, Booked, Ledger, TypeOK
  <2>4. top = -1 /\ consts = <<>> /\ releasing = <<>>
    BY <2>1, <2>2 DEF ExitReports, Ledger, Calm
  <2>. QED  BY <2>2, <2>3, <2>4, NothingIsLeft
<1>. QED  BY <1>2, <1>3, ProgramInvariant, ResultIsReported, PTL


-----------------------------------------------------------------------------
\* The cells that the code leaves alone.

\* How high the stack is in front of the instruction at i, and how much of it
\* the instruction does not take.
HeightBefore(c, i) == Height(c) - HeightFrom(c)[i]
Floor(c, i) == HeightBefore(c, i) - Pops(c[i], OperandAt(c, i))

\* No instruction takes more than there is.  A cell that an instruction has named
\* is a variable's from then on: neither it nor a later instruction takes the
\* cell off the stack.
LeavesCells(c) ==
  \A j \in InstructionStarts(c) : j <= Len(c) =>
    /\ 0 <= Floor(c, j)
    /\ \A i \in InstructionStarts(c) : i <= j /\ c[i] \in LocalOps => c[i + 1] < Floor(c, j)

\* The facts of one more instruction.
Lengthened(c, instr, operand) ==
  /\ InstructionStarts(c \o instr) = InstructionStarts(c) \union {Len(c) + Len(instr) + 1}
  /\ InstructionStarts(c) \subseteq 1..Len(c) + 1 /\ Len(c) + 1 \in InstructionStarts(c)
  /\ Len(c) \in Nat /\ Len(c \o instr) = Len(c) + Len(instr) /\ Len(instr) \in {1, 2}
  /\ \A i \in InstructionStarts(c) : i <= Len(c) =>
       /\ (c \o instr)[i] = c[i] /\ Floor(c \o instr, i) = Floor(c, i)
       /\ HeightBefore(c \o instr, i) = HeightBefore(c, i)
       /\ c[i] \in OperandOps => (c \o instr)[i + 1] = c[i + 1] /\ c[i + 1] \in Nat
  /\ (c \o instr)[Len(c) + 1] = instr[1]
  /\ Len(instr) = 2 => (c \o instr)[Len(c) + 2] = instr[2]
  /\ HeightBefore(c \o instr, Len(c) + 1) = Height(c)
  /\ Floor(c \o instr, Len(c) + 1) = Height(c) - Pops(instr[1], operand)

LEMMA FloorAppend ==
  ASSUME NEW c, NEW nc, NEW nv \in Nat, CodeOK(c, nc, nv), NEW instr \in Seq(Bytes),
         instr # <<>>, Len(instr) = Width(instr[1]),
         NEW operand \in Int, operand = (IF Len(instr) = 2 THEN instr[2] ELSE 0)
  PROVE  Lengthened(c, instr, operand)
<1>. DEFINE n == Len(c)
            w == Len(instr)
            d == c \o instr
            A == InstructionStarts(c)
            e == Effect(instr[1], operand)
            f == HeightFrom(c)
            g == HeightFrom(d)
<1>1. c \in Seq(Bytes) /\ WellFormed(c, nc, nv) /\ n \in Nat /\ w \in {1, 2}
  BY LenProperties, WidthType DEF CodeOK
<1>2. /\ d \in Seq(Bytes) /\ Len(d) = n + w
      /\ \A i \in 1..n : d[i] = c[i]
      /\ d[n + 1] = instr[1] /\ (w = 2 => d[n + 2] = instr[2])
  BY <1>1, ConcatProperties
<1>3. A \subseteq 1..n + 1 /\ n + 1 \in A
  BY <1>1 DEF WellFormed
<1>4. InstructionStarts(d) = A \union {n + w + 1}
  BY <1>1, <1>3, StartsAppend
<1>5. e \in Int /\ Pops(instr[1], operand) \in Int
  BY EffectType
<1>6. \A i \in A : g[i] = f[i] + e
  <2>1. e = Effect(instr[1], IF Len(instr) = 2 THEN instr[2] ELSE 0)
    OBVIOUS
  <2>. HIDE DEF e
  <2>. QED  BY <1>5, <2>1, InstructionEffect
<1>7. Height(c) = f[1] /\ Height(d) = g[1] /\ 1 \in A /\ Height(c) \in Int
  BY HeightIs, HeightType
<1>8. \A i \in A : f[i] \in Int
  <2>1. f \in [1..n + 2 -> Int]
    BY <1>1, HeightFalls
  <2>2. \A i \in A : i \in 1..n + 2
    BY <1>1, <1>3
  <2>. HIDE DEF f
  <2>. QED  BY <2>1, <2>2
<1>9. f[n + 1] = 0
  BY <1>1, HeightFalls DEF Falls
<1>10. \A i \in A : Height(d) - g[i] = Height(c) - f[i]
  <2>. HIDE DEF A, f, g, d, e
  <2>1. Height(d) = Height(c) + e
    BY <1>6, <1>7
  <2>. QED  BY <1>5, <1>6, <1>7, <1>8, <2>1
<1>11. ASSUME NEW i \in A, i <= n
       PROVE  /\ d[i] = c[i] /\ OperandAt(d, i) = OperandAt(c, i)
              /\ c[i] \in OperandOps => d[i + 1] = c[i + 1] /\ c[i + 1] \in Nat
  <2>1. i \in 1..n /\ i + Width(c[i]) <= n + 1 /\ d[i] = c[i]
    BY <1>1, <1>2, <1>11, InstructionFits
  <2>2. CASE c[i] \in OperandOps
    <3>1. i + 1 \in 1..n /\ i < n /\ i < n + w
      BY <1>1, <2>1, <2>2, WidthType
    <3>2. c[i + 1] \in Nat
      <4>1. Bytes \subseteq Nat
        BY OpcodesAreBytes, BoundsAssumption DEF Bytes
      <4>. QED  BY <1>1, <3>1, <4>1, ElementOfSeq
    <3>. HIDE DEF d
    <3>. QED  BY <1>2, <2>1, <2>2, <3>1, <3>2 DEF OperandAt
  <2>3. CASE c[i] \notin OperandOps
    <3>. HIDE DEF d
    <3>. QED  BY <1>2, <2>1, <2>3 DEF OperandAt
  <2>. QED  BY <2>2, <2>3
<1>12. OperandAt(d, n + 1) = operand
  <2>1. w = 2 <=> instr[1] \in OperandOps
    BY WidthType
  <2>2. n + 1 < n + w <=> w = 2
    BY <1>1
  <2>3. n + 1 + 1 = n + 2
    BY <1>1
  <2>. HIDE DEF d, w, n
  <2>. QED  BY <1>1, <1>2, <2>1, <2>2, <2>3 DEF OperandAt, w
<1>13. HeightBefore(d, n + 1) = Height(c)
  BY <1>3, <1>7, <1>9, <1>10 DEF HeightBefore
<1>14. \A i \in A : HeightBefore(d, i) = HeightBefore(c, i)
  BY <1>10 DEF HeightBefore
<1>15. \A i \in A : i <= n => Floor(d, i) = Floor(c, i)
  BY <1>11, <1>14 DEF Floor
<1>16. Floor(d, n + 1) = Height(c) - Pops(instr[1], operand)
  BY <1>2, <1>12, <1>13 DEF Floor
<1>. HIDE DEF A, f, g, d, e
<1>17. \A i \in A : i <= n =>
         /\ d[i] = c[i] /\ Floor(d, i) = Floor(c, i) /\ HeightBefore(d, i) = HeightBefore(c, i)
         /\ c[i] \in OperandOps => d[i + 1] = c[i + 1] /\ c[i + 1] \in Nat
  BY <1>11, <1>14, <1>15
<1>. QED  BY <1>1, <1>2, <1>3, <1>4, <1>13, <1>16, <1>17 DEF A, d, Lengthened

\* One more instruction that leaves the variables where they are.
LEMMA LeavesAppend ==
  ASSUME NEW c, NEW nc, NEW nv \in Nat, CodeOK(c, nc, nv), NEW instr \in Seq(Bytes),
         instr # <<>>, Len(instr) = Width(instr[1]),
         NEW operand \in Int, operand = (IF Len(instr) = 2 THEN instr[2] ELSE 0),
         instr[1] \in LocalOps => operand < nv,
         nv <= Height(c) - Pops(instr[1], operand), LeavesCells(c)
  PROVE  LeavesCells(c \o instr)
<1>. DEFINE n == Len(c)
            w == Len(instr)
            d == c \o instr
            A == InstructionStarts(c)
            low == Floor(d, n + 1)
<1>1. /\ InstructionStarts(d) = A \union {n + w + 1}
      /\ A \subseteq 1..n + 1 /\ n + 1 \in A
      /\ n \in Nat /\ Len(d) = n + w /\ w \in {1, 2}
      /\ \A i \in A : i <= n =>
           /\ d[i] = c[i] /\ Floor(d, i) = Floor(c, i)
           /\ c[i] \in OperandOps => d[i + 1] = c[i + 1] /\ c[i + 1] \in Nat
      /\ d[n + 1] = instr[1] /\ (w = 2 => d[n + 2] = instr[2])
      /\ low = Height(c) - Pops(instr[1], operand)
  <2>1. Lengthened(c, instr, operand)
    BY FloorAppend
  <2>. QED  BY <2>1 DEF Lengthened
<1>2. nv <= low /\ low \in Int
  <2>1. Height(c) \in Int /\ Pops(instr[1], operand) \in Int
    BY HeightType, EffectType
  <2>2. low = Height(c) - Pops(instr[1], operand)
    BY <1>1
  <2>. HIDE DEF low
  <2>. QED  BY <2>1, <2>2
<1>3. WellFormed(c, nc, nv) /\ LocalOps \subseteq OperandOps
  BY DEF CodeOK, OperandOps
<1>4. instr[1] \in LocalOps => w = 2 /\ operand = instr[2]
  BY <1>3, WidthType
<1>. HIDE DEF n, w, d, A, low
<1>. DEFINE B == A \union {n + w + 1}
<1>10. ASSUME NEW j \in B, j <= n + w  PROVE 0 <= Floor(d, j)
  <2>1. CASE j \in A /\ j <= n
    BY <1>1, <2>1 DEF LeavesCells, A, n
  <2>2. CASE j = n + 1
    BY <1>2, <2>2 DEF low
  <2>. QED  BY <1>1, <1>10, <2>1, <2>2
<1>5. SUFFICES ASSUME NEW i \in B, NEW j \in B, i <= j, j <= n + w, d[i] \in LocalOps
               PROVE  d[i + 1] < Floor(d, j)
  BY <1>1, <1>10 DEF LeavesCells, d
<1>6. (i \in A /\ i <= n) \/ i = n + 1
  BY <1>1, <1>5
<1>7. (j \in A /\ j <= n) \/ j = n + 1
  BY <1>1, <1>5
<1>8. CASE i \in A /\ i <= n
  <2>1. d[i] = c[i] /\ d[i + 1] = c[i + 1] /\ c[i + 1] \in Nat /\ c[i] \in LocalOps
    BY <1>1, <1>3, <1>5, <1>8
  <2>2. CASE j \in A /\ j <= n
    BY <1>1, <1>5, <1>8, <2>1, <2>2 DEF LeavesCells, A, n
  <2>3. CASE j = n + 1
    <3>1. c[i + 1] < nv
      BY <1>3, <1>8, <2>1 DEF WellFormed, A, n
    <3>. QED  BY <1>2, <2>1, <2>3, <3>1 DEF low
  <2>. QED  BY <1>7, <2>2, <2>3
<1>9. CASE i = n + 1
  <2>1. j = n + 1
    BY <1>1, <1>5, <1>7, <1>9
  <2>2. i + 1 = n + 2 /\ d[i + 1] = operand /\ operand < nv
    BY <1>1, <1>4, <1>5, <1>9
  <2>. QED  BY <1>2, <2>1, <2>2 DEF low
<1>. QED  BY <1>6, <1>8, <1>9

-----------------------------------------------------------------------------
\* What a step of the compiler appends, and what that takes off the stack.

\* Which instruction is for which kind of variable.
FitsVariable(op, operand) ==
  /\ operand < Len(variables)
  /\ op \in {Op.LocalRef, Op.SetLocal} => ~variables[operand + 1].isRef
  /\ op \in ByRefOps => variables[operand + 1].isRef

\* An instruction takes no more than the pending call asks for.
Appends ==
  \/ code' = code
  \/ \E op \in Opcodes \ OperandOps :
       code' = code \o <<op>> /\ Pops(op, 0) <= Needs(Head(todo))
  \/ \E op \in OperandOps, operand \in 0..UINT8_MAX :
       /\ code' = code \o <<op, operand>> /\ Pops(op, operand) <= Needs(Head(todo))
       /\ op \in LocalOps => FitsVariable(op, operand)
  \/ Needs(Head(todo)) = 0 /\ code' = code \o <<Op.Nil, Op.Return>>

LEMMA PopsNothing ==
  \A n : \A op \in {Op.Nil, Op.False, Op.True, Op.Int, Op.Const, Op.LocalRef, Op.GetLocal, Op.GetLocalByRef} :
    Pops(op, n) = 0
BY DEF Pops, Op, ArithmeticOps

LEMMA AppendsOpcode ==
  ASSUME Moving, NEW op \in Opcodes \ OperandOps, Emit(<<op>>), Pops(op, 0) <= Needs(Head(todo))
  PROVE  Appends
<1>. DEFINE bytes == <<op>>
<1>1. bytes \in Seq(Bytes) /\ Emit(bytes)
  BY OpcodesAreBytes
<1>2. code' = code \o bytes
  <2>. HIDE DEF bytes
  <2>. QED  BY <1>1, EmitWhole DEF TypeOK, Moving
<1>. QED  BY <1>2 DEF Appends

LEMMA AppendsOperand ==
  ASSUME Moving, NEW op \in OperandOps, NEW operand \in 0..UINT8_MAX, Emit(<<op, operand>>),
         Pops(op, operand) <= Needs(Head(todo)), op \in LocalOps => FitsVariable(op, operand)
  PROVE  Appends
<1>. DEFINE bytes == <<op, operand>>
<1>1. bytes \in Seq(Bytes) /\ Emit(bytes)
  <2>1. op \in Bytes
    BY OpValues, OpcodesAreBytes DEF OperandOps, LocalOps
  <2>. QED  BY <2>1 DEF Bytes
<1>2. code' = code \o bytes
  <2>. HIDE DEF bytes
  <2>. QED  BY <1>1, EmitWhole DEF TypeOK, Moving
<1>. QED  BY <1>2 DEF Appends

LEMMA AppendsConstant ==
  ASSUME Moving, NEW v, NEW h, EmitConstant(v, h), Needs(Head(todo)) = 0
  PROVE  Appends
<1>1. Emit(<<Op.Const, Byte(Len(consts))>>)
  BY DEF EmitConstant, Moving
<1>2. Byte(Len(consts)) \in 0..UINT8_MAX /\ Op.Const \in OperandOps /\ Op.Const \notin LocalOps
  BY ByteType, MovingFacts DEF OperandOps, LocalOps, Op
<1>3. Pops(Op.Const, Byte(Len(consts))) = 0
  BY PopsNothing
<1>. QED  BY <1>1, <1>2, <1>3, AppendsOperand

\* The variable that a name means has the slot of its position.
LEMMA AppendsVariable ==
  ASSUME Moving, NEW name, NEW items, NEW byRef, NEW direct, UseVariable(name, byRef, direct, items),
         NEW k, Needs(Head(todo)) = k,
         \/ byRef = Op.SetLocalByRef /\ direct = Op.SetLocal /\ k = 1
         \/ byRef = Op.GetLocal /\ direct = Op.LocalRef /\ k = 0
         \/ byRef = Op.GetLocalByRef /\ direct = Op.GetLocal /\ k = 0
  PROVE  Appends
<1>. DEFINE var == FoundVariable(name)
            op == IF var.isRef THEN byRef ELSE direct
<1>1. Candidates(name) # {} /\ EmitThen(<<op, var.index>>, items)
  BY DEF UseVariable, Moving
<1>2. Candidates(name) \subseteq 1..Len(variables) /\ Len(variables) \in Nat /\ DOMAIN variables = 1..Len(variables)
  BY LenProperties DEF Moving, TypeOK, ScopeTypeOK, Candidates, InScope
<1>3. (CHOOSE i \in Candidates(name) : \A j \in Candidates(name) : j <= i) \in 1..Len(variables)
  BY <1>1, <1>2, LastIndex
<1>4. PICK i \in 1..Len(variables) : var = variables[i]
  BY <1>3 DEF FoundVariable
<1>5. var.index = i - 1 /\ var.index + 1 = i
  BY <1>2, <1>4 DEF SlotNumbering, Moving
<1>6. var.index \in 0..UINT8_MAX
  BY <1>1, FoundVariableType DEF Variables, Moving, TypeOK
<1>7. op \in OperandOps /\ byRef \in LocalOps /\ direct \in LocalOps
  BY DEF OperandOps, LocalOps
<1>8. FitsVariable(op, var.index)
  <2>1. var.isRef => op \notin {Op.LocalRef, Op.SetLocal}
    BY DEF Op
  <2>2. ~var.isRef => op \notin ByRefOps
    BY DEF Op, ByRefOps
  <2>3. var.index < Len(variables) /\ variables[var.index + 1] = var
    BY <1>2, <1>4, <1>5
  <2>. HIDE DEF op, var
  <2>. QED  BY <2>1, <2>2, <2>3 DEF FitsVariable
<1>9. Pops(op, var.index) <= Needs(Head(todo))
  <2>1. \/ op \in {Op.SetLocalByRef, Op.SetLocal} /\ k = 1
        \/ op \in {Op.GetLocal, Op.LocalRef, Op.GetLocalByRef} /\ k = 0
    <3>1. op = byRef \/ op = direct
      OBVIOUS
    <3>. HIDE DEF op
    <3>. QED  BY <3>1
  <2>2. Pops(op, var.index) = k
    <3>. HIDE DEF op, var
    <3>. QED  BY <2>1, PopsNothing, PopsValues
  <2>3. k \in Int
    BY <2>1
  <2>. QED  BY <2>2, <2>3
<1>10. Emit(<<op, var.index>>)
  BY <1>1 DEF EmitThen
<1>. HIDE DEF op, var
<1>. QED  BY <1>6, <1>7, <1>8, <1>9, <1>10, AppendsOperand

\* Every step but the end of a block appends in this way.
LEMMA AppendStep ==
  ASSUME Moving, CompilerNext, ~PopScope
  PROVE  Appends
<1>. USE DEF At
<1>0. rc' = "Ok" /\ ~CheckOnly
  BY DEF Moving
<1>1. ASSUME UNCHANGED chunkVars \/ UNCHANGED code  PROVE Appends
  BY <1>1 DEF chunkVars, Appends
<1>2. ASSUME NEW op \in Opcodes \ OperandOps, NEW items, EmitThen(<<op>>, items), Pops(op, 0) <= Needs(Head(todo))
      PROVE  Appends
  BY <1>2, AppendsOpcode DEF EmitThen
<1>3. /\ \A call : call.fn \in {"letValue", "int", "number", "whole", "string", "refTo", "variable"} => Needs(call) = 0
      /\ \A call : call.fn = "assign" => Needs(call) = 1
      /\ \A call : call.fn \in {"emit", "operator"} => Needs(call) = Pops(call.n, 0)
      /\ \A call : call.fn = "arrayEnd" => Needs(call) = call.n
  BY DEF Needs, Store1
<1>4. CASE CompileChunk
  <2>1. CASE EmitThen(<<Op.Nil, Op.Return>>, <<>>)
    <3>. DEFINE bytes == <<Op.Nil, Op.Return>>
    <3>1. bytes \in Seq(Bytes)
      <4>1. Op.Nil \in Bytes /\ Op.Return \in Bytes
        BY OpValues, OpcodesAreBytes
      <4>. QED  BY <4>1
    <3>2. Emit(bytes)
      BY <2>1 DEF EmitThen
    <3>. HIDE DEF bytes
    <3>3. code' = code \o bytes
      BY <1>0, <3>1, <3>2, EmitWhole DEF TypeOK, Moving
    <3>4. Needs(Head(todo)) = 0
      BY <1>4 DEF CompileChunk, Needs, Store1
    <3>. QED  BY <3>3, <3>4 DEF Appends, bytes
  <2>. QED  BY <1>1, <1>4, <2>1 DEF CompileChunk, Then, Parses
<1>5. CASE EmitOpcode \/ EmitOperator
  <2>1. Head(todo) \in Calls /\ Head(todo).fn \in {"emit", "operator"}
    BY <1>5, TodoType DEF EmitOpcode, EmitOperator, Moving
  <2>2. Head(todo).n \in Opcodes \ OperandOps
    BY <2>1, CallFields
  <2>3. Pops(Head(todo).n, 0) <= Needs(Head(todo))
    BY <1>3, <2>1, EffectType
  <2>. QED  BY <1>2, <1>5, <2>2, <2>3 DEF EmitOpcode, EmitOperator
<1>6. CASE LetValue
  <2>1. Op.Nil \in Opcodes \ OperandOps /\ Pops(Op.Nil, 0) = 0 /\ Needs(Head(todo)) = 0
    BY <1>3, <1>6, OpValues, PlainOps, PopsNothing DEF LetValue
  <2>2. CASE \E items : SkipThen(items)
    BY <1>1, <2>2 DEF SkipThen, Parses
  <2>3. CASE \E items : EmitThen(<<Op.Nil>>, items)
    BY <1>2, <2>1, <2>3
  <2>. QED  BY <1>6, <2>2, <2>3 DEF LetValue
<1>7. CASE AssignVariable
  BY <1>3, <1>7, AppendsVariable DEF AssignVariable
<1>8. CASE RefTo \/ CompileVariable
  BY <1>3, <1>8, AppendsVariable DEF RefTo, CompileVariable
<1>9. CASE ArrayEnd
  <2>1. Head(todo) \in Calls /\ Head(todo).fn = "arrayEnd"
    BY <1>9, TodoType DEF ArrayEnd, Moving
  <2>2. Head(todo).n \in 0..UINT8_MAX
    BY <2>1, CallFields
  <2>3. Op.Array \in OperandOps /\ Op.Array \notin LocalOps
    BY DEF OperandOps, LocalOps, Op
  <2>4. Pops(Op.Array, Head(todo).n) <= Needs(Head(todo))
    BY <1>3, <2>1, <2>2, PopsValues
  <2>. QED  BY <1>9, <2>2, <2>3, <2>4, AppendsOperand DEF ArrayEnd, EmitThen
<1>10. CASE CompileInt
  <2>1. Head(todo) \in Calls /\ Head(todo).fn = "int"
    BY <1>10, TodoType DEF CompileInt, Moving
  <2>2. Head(todo).n \in Nat /\ Needs(Head(todo)) = 0
    <3>1. Head(todo).n \in Nat
      BY <2>1, CallFields
    <3>. QED  BY <1>3, <2>1, <3>1
  <2>3. CASE EmitConstant(IntValue(Head(todo).n), heap)
    BY <2>2, <2>3, AppendsConstant
  <2>4. CASE Head(todo).n <= UINT8_MAX /\ Emit(<<Op.Int, Head(todo).n>>)
    <3>1. Op.Int \in OperandOps /\ Op.Int \notin LocalOps /\ Pops(Op.Int, Head(todo).n) = 0
      BY PopsNothing DEF OperandOps, LocalOps, Op
    <3>2. Head(todo).n \in 0..UINT8_MAX
      BY <2>2, <2>4, BoundsAssumption
    <3>. QED  BY <2>2, <2>4, <3>1, <3>2, AppendsOperand
  <2>. QED  BY <1>0, <1>10, <2>3, <2>4 DEF CompileInt
<1>11. CASE CompileNumber \/ CompileString
  <2>1. Needs(Head(todo)) = 0
    BY <1>3, <1>11 DEF CompileNumber, CompileString
  <2>. QED  BY <1>0, <1>11, <2>1, AppendsConstant DEF CompileNumber, CompileString
<1>. USE DEF Then, SkipThen, Parses, Fail
<1>12. CASE BeginCompile \/ CompileStmt \/ ConsumeToken \/ CompileLetStmt \/ CompileInoutStmt
  BY <1>1, <1>12 DEF BeginCompile, CompileStmt, ConsumeToken, CompileLetStmt, CompileInoutStmt
<1>13. CASE Define \/ DefineInout \/ CompileReturnStmt \/ PushScope \/ CompileBlockStmt
  BY <1>1, <1>13 DEF Define, DefineInout, CompileReturnStmt, PushScope, CompileBlockStmt
<1>14. CASE CompileExpr \/ RangeOperator \/ CompileAddExpr \/ AddLoop \/ CompileMulExpr \/ MulLoop
  BY <1>1, <1>14 DEF CompileExpr, RangeOperator, CompileAddExpr, AddLoop, CompileMulExpr, MulLoop, OperatorLoop
<1>15. CASE CompileUnaryExpr \/ CompilePrimExpr \/ CompileArray \/ ArrayLoop \/ CompileRef \/ IndexLoop
  BY <1>1, <1>15 DEF CompileUnaryExpr, CompilePrimExpr, CompileArray, ArrayLoop, CompileRef, IndexLoop
<1>. QED  BY <1>4, <1>5, <1>6, <1>7, <1>8, <1>9, <1>10, <1>11, <1>12, <1>13, <1>14, <1>15
          DEF CompilerNext, Statement, Expression


\* As long as the stack holds nothing but the variables and the temporaries of
\* the pending calls, what is appended leaves the variables.
LEMMA AppendLeaves ==
  ASSUME Moving, Height(code) + Total(todo) = Len(variables), LeavesCells(code), Appends
  PROVE  LeavesCells(code')
<1>. DEFINE nv == Len(variables)
            need == Needs(Head(todo))
<1>1. /\ CodeOK(code, Len(consts), nv) /\ Len(consts) \in Nat /\ nv \in Nat
      /\ Height(code) \in Int /\ need \in Int
  BY MovingFacts, NetType
<1>2. nv <= Height(code) - need
  <2>1. Total(todo) = Net(Head(todo)) + Behind /\ Behind \in Int /\ Net(Head(todo)) \in Int
    BY AtHead DEF Moving
  <2>2. need + Net(Head(todo)) + Behind <= 0
    BY MovingFacts DEF Settled
  <2>. QED  BY <1>1, <2>1, <2>2
<1>3. ASSUME NEW op \in Opcodes \ OperandOps, Pops(op, 0) <= need  PROVE LeavesCells(code \o <<op>>)
  <2>. DEFINE instr == <<op>>
  <2>1. /\ instr \in Seq(Bytes) /\ instr # <<>> /\ Len(instr) = 1 /\ instr[1] = op
        /\ Width(op) = 1 /\ op \notin LocalOps
    BY OpcodesAreBytes, WidthType DEF OperandOps
  <2>2. nv <= Height(code) - Pops(op, 0)
    BY <1>1, <1>2, <1>3, EffectType
  <2>. HIDE DEF instr, nv, need
  <2>3. 0 \in Int /\ 0 = (IF Len(instr) = 2 THEN instr[2] ELSE 0) /\ Len(instr) = Width(instr[1])
    BY <2>1
  <2>4. instr[1] \in LocalOps => 0 < nv
    BY <2>1
  <2>5. LeavesCells(code \o instr)
    BY <1>1, <2>1, <2>2, <2>3, <2>4, LeavesAppend
  <2>. QED  BY <2>5 DEF instr
<1>4. ASSUME NEW op \in OperandOps, NEW operand \in 0..UINT8_MAX, Pops(op, operand) <= need,
             op \in LocalOps => operand < nv
      PROVE  LeavesCells(code \o <<op, operand>>)
  <2>. DEFINE instr == <<op, operand>>
  <2>1. op \in Bytes /\ operand \in Bytes /\ operand \in Int
    BY OpValues, OpcodesAreBytes, BoundsAssumption DEF OperandOps, LocalOps, Bytes
  <2>2. instr \in Seq(Bytes) /\ instr # <<>> /\ Len(instr) = 2 /\ instr[1] = op /\ instr[2] = operand
    BY <2>1
  <2>3. Width(op) = 2
    BY WidthType
  <2>4. nv <= Height(code) - Pops(op, operand)
    BY <1>1, <1>2, <1>4, <2>1, EffectType
  <2>. HIDE DEF instr
  <2>. QED  BY <1>1, <1>4, <2>1, <2>2, <2>3, <2>4, LeavesAppend DEF instr
<1>5. CASE need = 0 /\ code' = code \o <<Op.Nil, Op.Return>>
  <2>1. /\ Op.Nil \in Opcodes \ OperandOps /\ Op.Return \in Opcodes \ OperandOps
        /\ Op.Nil \in Bytes /\ Op.Return \in Bytes
    BY OpValues, PlainOps, OpcodesAreBytes
  <2>. DEFINE d == code \o <<Op.Nil>>
              instr == <<Op.Return>>
  <2>2. code' = d \o instr
    BY <1>1, <1>5, <2>1, PairAppended DEF CodeOK
  <2>3. LeavesCells(d) /\ CodeOK(d, Len(consts), nv)
    BY <1>1, <1>3, <1>5, <2>1, PopsNothing, AppendPlain
  <2>4. Height(d) = Height(code) + 1
    BY <1>1, <2>1, HeightPlain, EffectValues
  <2>5. Pops(Op.Return, 0) = 1
    BY DEF Pops, Op, ArithmeticOps
  <2>6. nv <= Height(d) - Pops(Op.Return, 0)
    <3>. HIDE DEF d
    <3>. QED  BY <1>1, <1>2, <1>5, <2>4, <2>5
  <2>7. /\ instr \in Seq(Bytes) /\ instr # <<>> /\ Len(instr) = 1 /\ instr[1] = Op.Return
        /\ Width(Op.Return) = 1 /\ Op.Return \notin LocalOps
    BY <2>1, WidthType DEF OperandOps
  <2>. HIDE DEF d, instr, nv, need
  <2>8. 0 \in Int /\ 0 = (IF Len(instr) = 2 THEN instr[2] ELSE 0) /\ Len(instr) = Width(instr[1])
    BY <2>7
  <2>9. (instr[1] \in LocalOps => 0 < nv) /\ nv <= Height(d) - Pops(instr[1], 0)
    BY <2>6, <2>7
  <2>. QED  BY <1>1, <2>2, <2>3, <2>7, <2>8, <2>9, LeavesAppend
<1>6. CASE \E op \in Opcodes \ OperandOps : code' = code \o <<op>> /\ Pops(op, 0) <= need
  BY <1>3, <1>6
<1>7. CASE \E op \in OperandOps, operand \in 0..UINT8_MAX :
             /\ code' = code \o <<op, operand>> /\ Pops(op, operand) <= need
             /\ op \in LocalOps => operand < nv
  BY <1>4, <1>7
<1>. QED  BY <1>5, <1>6, <1>7 DEF Appends, FitsVariable

\* The block being closed has declared no variable, and none of those before it:
\* there is nothing to pop.
BlocksDeclareNothing == At("popScope") => InScope = {}

\* What the compiler believes about the stack is true, and all of its code so
\* far agrees: the n-th variable is in the n-th cell.
Leveled ==
  rc = "Ok" => /\ AllSettled(todo)
               /\ Height(code) + Total(todo) = Len(variables)
               /\ LeavesCells(code)

LEMMA LeveledStep ==
  ASSUME ~CheckOnly, TypeOK, TypeOK', SlotNumbering, CodeWhole, ArraysCounted', BlocksDeclareNothing,
         Leveled, [CompilerNext]_vars
  PROVE  Leveled'
<1>1. CASE UNCHANGED vars
  BY <1>1 DEF vars, chunkVars, compilerVars, Leveled
<1>2. CASE CompilerNext /\ rc' = "Ok"
  <2>1. rc = "Ok" /\ todo # <<>>
    BY <1>2, RunsOnlyOk
  <2>2. Moving /\ Height(code) + Total(todo) = Len(variables) /\ LeavesCells(code)
    BY <1>2, <2>1 DEF Moving, Leveled
  <2>3. Height(code) \in Int /\ Total(todo) \in Int /\ Len(variables) \in Nat
    BY <2>2, MovingFacts, AtHead DEF Moving
  <2>4. CASE ~PopScope /\ ~Define /\ ~DefineInout
    <3>1. UNCHANGED variables
      BY <1>2, <2>4, OrdinarySteps
    <3>2. KeepsBalance
      BY <1>2, <2>2, <2>4, <3>1, ExpressionKeeps, StatementKeeps DEF CompilerNext
    <3>3. LeavesCells(code')
      BY <1>2, <2>2, <2>4, AppendStep, AppendLeaves
    <3>. QED  BY <2>2, <3>1, <3>2, <3>3 DEF KeepsBalance, Leveled
  <2>5. CASE Define \/ DefineInout
    <3>1. /\ AllSettled(todo') /\ Total(todo) = -1 /\ Total(todo') = 0 /\ code' = code
          /\ \E name, ref, outcome : DefineVariable(name, ref, outcome) /\ ~CannotDefine(name)
      BY <2>2, <2>5, DefineMoves
    <3>2. Len(variables') = Len(variables) + 1
      BY <3>1, LenProperties DEF DefineVariable
    <3>. QED  BY <2>2, <2>3, <3>1, <3>2 DEF Leveled
  <2>6. CASE PopScope
    <3>1. /\ AllSettled(todo') /\ Total(todo) = 0 /\ Total(todo') = 0 /\ UNCHANGED variables
          /\ Height(code') = Height(code) - Cardinality(InScope)
      BY <2>2, <2>6, PopMoves
    <3>2. Cardinality(InScope) = 0
      BY <2>6, FS_EmptySet DEF BlocksDeclareNothing, PopScope
    <3>3. code' = code
      <4>1. /\ Emit([i \in 1..0 |-> Op.Pop])
            /\ [i \in 1..0 |-> Op.Pop] = <<>>
        BY <2>6, <3>2 DEF PopScope
      <4>2. Emit(<<>>) /\ <<>> \in Seq(Bytes)
        BY <4>1
      <4>3. code' = code \o <<>>
        BY <1>2, <2>2, <4>2, EmitWhole DEF TypeOK
      <4>. QED  BY <4>3 DEF TypeOK, ChunkTypeOK
    <3>. QED  BY <2>2, <2>3, <3>1, <3>2, <3>3 DEF Leveled
  <2>. QED  BY <2>4, <2>5, <2>6
<1>3. CASE rc' # "Ok"
  BY <1>3 DEF Leveled
<1>. QED  BY <1>1, <1>2, <1>3


-----------------------------------------------------------------------------
\* What an instruction does to the stack.

\* T has every value but, perhaps, some references.
AnyButRefs(T) == T \subseteq Values /\ {v \in Values : v.type \notin {"Ref", "Junk"}} \subseteq T

\* All the VM can get at is in T.
Holds(T, s, k, h) ==
  /\ s \in [Cells -> T \union {JunkValue}]
  /\ k \in Seq(T)
  /\ \A id \in DOMAIN h : h[id].elems \in Seq(T)

\* The cell the next instruction writes: the new top, which is above all it
\* leaves, or the one that is assigned to.
Target(c) ==
  \/ c = top' /\ c > top - Pops(Opcode, Operand)
  \/ Opcode \in Stores /\ c = StoreCell

\* The next instruction has been executed, and nothing came in but from T.
Executed(T) ==
  /\ Executes(Opcode) /\ Opcode # Op.Return
  /\ ip' = ip + Width(Opcode) /\ top' = top + Effect(Opcode, Operand)
  /\ Holds(T, slots', consts', heap')
  /\ Pushes(Opcode) = 1 => slots'[top'] \in T
  /\ \A c \in Cells : slots'[c] = slots[c] \/ (slots'[c] \in T /\ Target(c))
  /\ Opcode = Op.LocalRef => slots'[top'] = RefValue(Operand)
  /\ Opcode = Op.GetLocal => slots'[top'] = Load(Operand)

\* Nothing has moved.
Stays ==
  /\ UNCHANGED <<ip, slots, top, consts>>
  /\ DOMAIN heap' = DOMAIN heap /\ \A id \in DOMAIN heap : heap'[id].elems = heap[id].elems

\* What the lemmas about the handlers assume.
Tame(T) == Machine /\ AnyButRefs(T) /\ Holds(T, slots, consts, heap)

LEMMA PlainTame ==
  ASSUME NEW T, AnyButRefs(T)
  PROVE  /\ NilValue \in T /\ FractionValue \in T
         /\ \A b \in BOOLEAN : BoolValue(b) \in T
         /\ \A i \in Int : IntValue(i) \in T
         /\ \A type \in ObjectTypes, id \in Int : ObjectValue(type, id) \in T
BY DEF AnyButRefs, NilValue, FractionValue, BoolValue, IntValue, ObjectValue, Values, ValueTypes,
       ObjectTypes, NumberTypes

LEMMA LoadTame ==
  ASSUME NEW T, Tame(T), NEW c \in Cells
  PROVE  Load(c) \in T /\ slots[c] \in T \union {JunkValue}
BY PlainTame DEF Tame, Holds, Load

LEMMA ErrorStays ==
  ASSUME NEW error, VMError(error)
  PROVE  Stays
BY DEF VMError, Stays, chunkVars

\* A value is written to one cell.
LEMMA WriteTame ==
  ASSUME NEW T, Tame(T), NEW c \in Cells, NEW v \in T, slots' = [slots EXCEPT ![c] = v], Dispatch,
         \A id \in DOMAIN heap' : heap'[id].elems \in Seq(T)
  PROVE  /\ Holds(T, slots', consts', heap')
         /\ slots'[c] = v
         /\ \A k \in Cells \ {c} : slots'[k] = slots[k]
BY DEF Tame, Holds, Dispatch

LEMMA RetainTame ==
  ASSUME NEW T, Tame(T), NEW v \in KnownIn(heap), heap' = Retain(heap, v)
  PROVE  \A id \in DOMAIN heap' : heap'[id].elems \in Seq(T)
<1>1. Sound(heap)
  BY DEF Tame, Machine, Addressed
<1>. QED  BY <1>1, RetainCounts DEF Tame, Holds

LEMMA PushExecuted ==
  ASSUME NEW T, Tame(T), NEW op, Executes(op), op # Op.Return,
         Effect(op, Operand) = 1, Pops(op, Operand) = 0,
         NEW v \in T, v \in KnownIn(heap), Push(v),
         op = Op.LocalRef => v = RefValue(Operand), op = Op.GetLocal => v = Load(Operand)
  PROVE  Stays \/ Executed(T)
<1>1. CASE top = StackSize - 1
  BY <1>1, ErrorStays DEF Push
<1>2. CASE top # StackSize - 1
  <2>1. /\ top' = top + 1 /\ slots' = [slots EXCEPT ![top + 1] = v]
        /\ heap' = Retain(heap, v) /\ Dispatch
    BY <1>2 DEF Push
  <2>2. top + 1 \in Cells /\ top \in Int
    BY <1>2, StackFacts DEF Tame, Machine
  <2>3. /\ Holds(T, slots', consts', heap') /\ slots'[top + 1] = v
        /\ \A k \in Cells \ {top + 1} : slots'[k] = slots[k]
    <3>1. \A id \in DOMAIN heap' : heap'[id].elems \in Seq(T)
      BY <2>1, RetainTame
    <3>. DEFINE c == top + 1
    <3>2. c \in Cells /\ slots' = [slots EXCEPT ![c] = v] /\ Dispatch
      BY <2>1, <2>2
    <3>. HIDE DEF c
    <3>3. /\ Holds(T, slots', consts', heap') /\ slots'[c] = v
          /\ \A k \in Cells \ {c} : slots'[k] = slots[k]
      BY <3>1, <3>2, WriteTame
    <3>. QED  BY <3>3 DEF c
  <2>4. Opcode = op /\ top' = top + Effect(Opcode, Operand)
    BY <2>1 DEF Executes
  <2>5. Target(top + 1)
    BY <2>1, <2>2, <2>4 DEF Target
  <2>. QED  BY <2>1, <2>3, <2>4, <2>5 DEF Executed, Dispatch
<1>. QED  BY <1>1, <1>2

LEMMA PushersExecuted ==
  ASSUME NEW T, Tame(T), Opcode = Op.LocalRef => RefValue(Operand) \in T,
         DoNil \/ DoFalse \/ DoTrue \/ DoInt \/ DoConst \/ DoLocalRef \/ DoGetLocal \/ DoGetLocalByRef
  PROVE  Stays \/ Executed(T)
<1>1. Machine /\ Addressed /\ Operand \in Nat /\ Operand \in Int /\ AnyButRefs(T)
  BY OperandType DEF Tame, Machine
<1>2. \A op \in {Op.Nil, Op.False, Op.True, Op.Int, Op.Const, Op.LocalRef, Op.GetLocal, Op.GetLocalByRef} :
        Pops(op, Operand) = 0 /\ Pushes(op) = 1 /\ Effect(op, Operand) = 1 /\ op # Op.Return
  <2>1. \A op \in {Op.Nil, Op.False, Op.True, Op.Int, Op.Const, Op.LocalRef, Op.GetLocal, Op.GetLocalByRef} :
          Pushes(op) = 1 /\ op # Op.Return
    BY DEF Pushes, Op
  <2>. QED  BY <2>1, PopsNothing DEF Effect
<1>3. \A v \in {NilValue, BoolValue(FALSE), BoolValue(TRUE), IntValue(Operand)} : v \in T /\ v \in KnownIn(heap)
  BY <1>1, PlainTame, PlainKnown
<1>4. CASE DoNil \/ DoFalse \/ DoTrue \/ DoInt
  <2>1. PICK op \in {Op.Nil, Op.False, Op.True, Op.Int},
             v \in {NilValue, BoolValue(FALSE), BoolValue(TRUE), IntValue(Operand)} :
          Executes(op) /\ Push(v)
    BY <1>4 DEF DoNil, DoFalse, DoTrue, DoInt
  <2>2. op # Op.LocalRef /\ op # Op.GetLocal
    BY DEF Op
  <2>. QED  BY <1>2, <1>3, <2>1, <2>2, PushExecuted
<1>5. CASE DoLocalRef
  <2>1. Executes(Op.LocalRef) /\ Push(RefValue(Operand)) /\ Opcode = Op.LocalRef /\ Op.LocalRef # Op.GetLocal
    BY <1>5 DEF DoLocalRef, Executes, Op
  <2>2. RefValue(Operand) \in T /\ RefValue(Operand) \in KnownIn(heap)
    BY <1>1, <2>1, PlainKnown
  <2>. QED  BY <1>2, <2>1, <2>2, PushExecuted
<1>6. CASE DoConst
  <2>1. Executes(Op.Const) /\ Push(consts[Operand + 1]) /\ Op.Const # Op.LocalRef /\ Op.Const # Op.GetLocal
    BY <1>6 DEF DoConst, Op
  <2>2. consts \in Seq(KnownIn(heap)) /\ consts \in Seq(T) /\ ~(Operand >= Len(consts))
    BY <1>1, <2>1, ExecutesFacts DEF Addressed, Tame, Holds
  <2>3. Operand + 1 \in 1..Len(consts)
    BY <1>1, <2>2, LenProperties
  <2>4. consts[Operand + 1] \in KnownIn(heap) /\ consts[Operand + 1] \in T
    BY <2>2, <2>3, ElementOfSeq
  <2>. QED  BY <1>2, <2>1, <2>4, PushExecuted
<1>7. CASE DoGetLocal
  <2>1. Executes(Op.GetLocal) /\ Push(Load(Operand)) /\ Operand \in Cells /\ Op.GetLocal # Op.LocalRef
    BY <1>7, LocalCell DEF DoGetLocal, LocalOps, Op
  <2>2. Load(Operand) \in KnownIn(heap) /\ Load(Operand) \in T
    BY <1>1, <2>1, LoadKnown, LoadTame
  <2>. QED  BY <1>2, <2>1, <2>2, PushExecuted
<1>8. CASE DoGetLocalByRef
  <2>. DEFINE c == slots[Operand].n
  <2>1. Executes(Op.GetLocalByRef) /\ Push(Load(c)) /\ c \in Cells
    BY <1>8, ByRefCell DEF DoGetLocalByRef, ByRefOps
  <2>2. Load(c) \in KnownIn(heap) /\ Load(c) \in T
    BY <1>1, <2>1, LoadKnown, LoadTame
  <2>3. Op.GetLocalByRef # Op.LocalRef /\ Op.GetLocalByRef # Op.GetLocal
    BY DEF Op
  <2>. QED  BY <1>2, <2>1, <2>2, <2>3, PushExecuted
<1>. QED  BY <1>4, <1>5, <1>6, <1>7, <1>8


\* An object takes the place of its operands.
LEMMA ObjectExecuted ==
  ASSUME NEW T, Tame(T), NEW op \in {Op.Range, Op.Array}, Executes(op), NEW c \in Cells,
         c = top + Effect(op, Operand), NEW type \in ObjectTypes, NEW obj \in Objects,
         obj.elems \in Seq(T), PutObject(c, type, obj), Dispatch
  PROVE  Executed(T)
<1>. DEFINE v == ObjectValue(type, NewId(heap))
            made == [obj EXCEPT !.refCount = 1]
<1>1. heap \in Seq(Objects) /\ Len(heap) \in Nat /\ NewId(heap) = Len(heap) + 1
  BY LenProperties DEF Tame, Machine, Addressed, Sound, NewId
<1>2. v \in T
  BY <1>1, PlainTame DEF Tame
<1>3. heap' = Append(heap, made) /\ made.elems = obj.elems /\ made \in Objects
  BY DEF PutObject, Objects
<1>. HIDE DEF v, made
<1>4. \A id \in DOMAIN heap' : heap'[id].elems \in Seq(T)
  <2>1. Len(heap') = Len(heap) + 1 /\ DOMAIN heap' = 1..Len(heap) + 1 /\ DOMAIN heap = 1..Len(heap)
    BY <1>1, <1>3, AppendProperties, LenProperties
  <2>2. \A id \in 1..Len(heap) : heap'[id] = heap[id]
    BY <1>1, <1>3, AppendProperties
  <2>3. heap'[Len(heap) + 1] = made
    BY <1>1, <1>3, AppendProperties
  <2>. QED  BY <1>1, <1>3, <2>1, <2>2, <2>3 DEF Tame, Holds
<1>5. slots' = [slots EXCEPT ![c] = v] /\ top' = c
  BY DEF PutObject, v
<1>6. /\ Holds(T, slots', consts', heap') /\ slots'[c] = v
      /\ \A k \in Cells \ {c} : slots'[k] = slots[k]
  BY <1>2, <1>4, <1>5, WriteTame
<1>7. Opcode = op /\ op # Op.Return /\ op # Op.LocalRef /\ op # Op.GetLocal /\ Pushes(op) = 1
  BY DEF Executes, Op, Pushes
<1>8. Target(c)
  <2>1. Operand \in Int /\ top \in Int /\ c \in Int
    BY OperandType, StackFacts DEF Tame, Machine
  <2>2. Pops(op, Operand) \in Int /\ Effect(op, Operand) = 1 - Pops(op, Operand)
    BY <1>7, <2>1, EffectType DEF Effect
  <2>. QED  BY <1>5, <1>7, <2>1, <2>2 DEF Target
<1>. QED  BY <1>2, <1>5, <1>6, <1>7, <1>8 DEF Executed, Dispatch

LEMMA RangeExecuted ==
  ASSUME NEW T, Tame(T), DoRange
  PROVE  Stays \/ Executed(T)
<1>1. CASE VMError("Type")
  BY <1>1, ErrorStays
<1>2. CASE ~VMError("Type")
  <2>. DEFINE obj == RangeObject(slots[top - 1].n, slots[top].n)
  <2>1. Executes(Op.Range) /\ PutObject(top - 1, "Range", obj) /\ Dispatch
    BY <1>2 DEF DoRange
  <2>2. top - 1 \in Cells /\ top \in Cells /\ top \in Int
    BY <2>1, BinaryCells, StackFacts DEF Tame, Machine
  <2>3. slots[top - 1].n \in Int /\ slots[top].n \in Int
    BY <2>2 DEF Tame, Machine, VMTypeOK, Values
  <2>4. obj \in Objects /\ obj.elems = <<>> /\ <<>> \in Seq(T) /\ "Range" \in ObjectTypes
    BY <2>3, NewObjects DEF ObjectTypes
  <2>5. top - 1 = top + Effect(Op.Range, Operand)
    <3>1. Effect(Op.Range, Operand) = -1
      BY PopsValues DEF Effect, Pushes, Op
    <3>. QED  BY <2>2, <3>1
  <2>. HIDE DEF obj
  <2>. QED  BY <2>1, <2>2, <2>4, <2>5, ObjectExecuted
<1>. QED  BY <1>1, <1>2

LEMMA ArrayExecuted ==
  ASSUME NEW T, Tame(T), DoArray
  PROVE  Executed(T)
<1>. DEFINE first == top + 1 - Operand
            elems == [i \in 1..Operand |-> Load(first + i - 1)]
            obj == ArrayObject(elems)
<1>1. Executes(Op.Array) /\ PutObject(first, "Array", obj) /\ Dispatch
  BY DEF DoArray
<1>2. first \in Cells /\ \A i \in 1..Operand : first + i - 1 \in Cells
  BY <1>1, ArrayCells DEF Tame, Machine
<1>3. Operand \in Nat /\ Operand \in Int /\ top \in Int
  BY OperandType, StackFacts DEF Tame, Machine
<1>4. elems \in Seq(T)
  <2>1. \A i \in 1..Operand : Load(first + i - 1) \in T
    BY <1>2, LoadTame
  <2>. HIDE DEF first
  <2>. QED  BY <1>3, <2>1
<1>5. elems \in Seq(Values)
  <2>. HIDE DEF elems
  <2>. QED  BY <1>4, SeqMonotonic DEF Tame, AnyButRefs
<1>6. first = top + Effect(Op.Array, Operand)
  <2>1. Effect(Op.Array, Operand) = 1 - Operand
    BY <1>3, EffectValues
  <2>. QED  BY <1>3, <2>1
<1>. HIDE DEF elems, first
<1>7. obj \in Objects /\ obj.elems = elems /\ "Array" \in ObjectTypes
  BY <1>5, NewObjects DEF ObjectTypes
<1>. HIDE DEF obj
<1>. QED  BY <1>1, <1>2, <1>4, <1>6, <1>7, ObjectExecuted

LEMMA PopExecuted ==
  ASSUME NEW T, Tame(T), DoPop
  PROVE  Executed(T)
<1>1. Executes(Op.Pop) /\ top' = top - 1 /\ Dispatch /\ UNCHANGED <<slots, heap>> /\ Opcode = Op.Pop
  BY DEF DoPop, Executes
<1>2. Effect(Op.Pop, Operand) = -1 /\ Pushes(Op.Pop) = 0 /\ top \in Int
  BY PopsValues, StackFacts DEF Effect, Pushes, Op, Tame, Machine
<1>3. Op.Pop # Op.Return /\ Op.Pop # Op.LocalRef /\ Op.Pop # Op.GetLocal
  BY DEF Op
<1>4. top' = top + Effect(Op.Pop, Operand)
  BY <1>1, <1>2
<1>5. Holds(T, slots', consts', heap')
  BY <1>1 DEF Tame, Dispatch
<1>. QED  BY <1>1, <1>2, <1>3, <1>4, <1>5 DEF Executed, Dispatch

LEMMA StoreExecuted ==
  ASSUME NEW T, Tame(T), NEW op \in Stores, Executes(op), NEW c \in Cells, c = StoreCell, StoreTop(c)
  PROVE  Executed(T)
<1>1. /\ heap' = Retain(heap, slots[top]) /\ slots' = [slots EXCEPT ![c] = Load(top)]
      /\ top' = top - 1 /\ Dispatch /\ Opcode = op
  BY DEF StoreTop, Executes
<1>2. top \in Cells /\ top \in Int
  BY UnaryCell, StackFacts DEF Stores, Tame, Machine
<1>3. slots[top] \in KnownIn(heap) /\ Load(top) \in T
  BY <1>2, LoadKnown, LoadTame DEF Tame, Machine
<1>4. /\ Holds(T, slots', consts', heap') /\ slots'[c] = Load(top)
      /\ \A k \in Cells \ {c} : slots'[k] = slots[k]
  <2>1. \A id \in DOMAIN heap' : heap'[id].elems \in Seq(T)
    BY <1>1, <1>3, RetainTame
  <2>. QED  BY <1>1, <1>3, <2>1, WriteTame
<1>5. Effect(op, Operand) = -1 /\ Pushes(op) = 0
  BY PopsValues DEF Effect, Pushes, Op, Stores
<1>6. op # Op.Return /\ op # Op.LocalRef /\ op # Op.GetLocal
  BY DEF Op, Stores
<1>7. top' = top + Effect(op, Operand)
  BY <1>1, <1>2, <1>5
<1>8. Target(c)
  BY <1>1 DEF Target
<1>. QED  BY <1>1, <1>3, <1>4, <1>5, <1>6, <1>7, <1>8 DEF Executed, Dispatch

LEMMA StoresExecuted ==
  ASSUME NEW T, Tame(T), DoSetLocal \/ DoSetLocalByRef
  PROVE  Executed(T)
<1>1. CASE DoSetLocal
  <2>1. Executes(Op.SetLocal) /\ StoreTop(Operand) /\ Operand \in Cells /\ Opcode = Op.SetLocal
    BY <1>1, LocalCell DEF DoSetLocal, LocalOps, Op, Executes
  <2>. QED  BY <2>1, StoreExecuted DEF StoreCell, Stores
<1>2. CASE DoSetLocalByRef
  <2>1. /\ Executes(Op.SetLocalByRef) /\ StoreTop(slots[Operand].n) /\ slots[Operand].n \in Cells
        /\ Opcode = Op.SetLocalByRef /\ Op.SetLocalByRef # Op.SetLocal
    BY <1>2, ByRefCell DEF DoSetLocalByRef, ByRefOps, Op, Executes
  <2>. QED  BY <2>1, StoreExecuted DEF StoreCell, Stores
<1>. QED  BY <1>1, <1>2

\* The result of an operator goes below its right operand.
LEMMA BinaryExecuted ==
  ASSUME NEW T, Tame(T), NEW op \in ArithmeticOps \union {Op.GetElement}, Executes(op),
         NEW v \in T, slots' = [slots EXCEPT ![top - 1] = v], top' = top - 1, Dispatch,
         \A id \in DOMAIN heap' : heap'[id].elems \in Seq(T)
  PROVE  Executed(T)
<1>1. top - 1 \in Cells /\ top \in Int /\ Opcode = op
  BY BinaryCells, StackFacts DEF Tame, Machine, Executes
<1>2. /\ Holds(T, slots', consts', heap') /\ slots'[top - 1] = v
      /\ \A k \in Cells \ {top - 1} : slots'[k] = slots[k]
  BY <1>1, WriteTame
<1>3. Pops(op, Operand) = 2 /\ Pushes(op) = 1 /\ Effect(op, Operand) = -1
  BY PopsValues DEF Effect, Pushes, Op, ArithmeticOps
<1>4. op # Op.Return /\ op # Op.LocalRef /\ op # Op.GetLocal
  BY DEF Op, ArithmeticOps
<1>5. top' = top + Effect(op, Operand)
  BY <1>1, <1>3
<1>6. Target(top - 1)
  BY <1>1, <1>3 DEF Target
<1>. QED  BY <1>1, <1>2, <1>3, <1>4, <1>5, <1>6 DEF Executed, Dispatch

LEMMA ArithmeticExecuted ==
  ASSUME NEW T, Tame(T), NEW op \in ArithmeticOps, DoArithmetic(op)
  PROVE  Stays \/ Executed(T)
<1>1. Executes(op)
  BY DEF DoArithmetic
<1>2. top - 1 \in Cells /\ top \in Cells
  BY <1>1, BinaryCells DEF Tame, Machine
<1>3. CASE VMError("Type")
  BY <1>3, ErrorStays
<1>4. CASE ~VMError("Type")
  <2>1. PICK result \in Results(op, slots[top - 1], slots[top]) :
          /\ slots' = [slots EXCEPT ![top - 1] = result]
          /\ top' = top - 1
          /\ Dispatch
          /\ UNCHANGED <<heap, releasing>>
    BY <1>4 DEF DoArithmetic
  <2>2. slots[top - 1] \in Values /\ slots[top] \in Values
    BY <1>2 DEF Tame, Machine, VMTypeOK
  <2>3. result \in T
    <3>1. result = FractionValue \/ \E i \in Int : result = IntValue(i)
      BY <2>2, ResultsAre
    <3>. QED  BY <3>1, PlainTame DEF Tame
  <2>4. \A id \in DOMAIN heap' : heap'[id].elems \in Seq(T)
    BY <2>1 DEF Tame, Holds
  <2>. QED  BY <1>1, <2>1, <2>3, <2>4, BinaryExecuted
<1>. QED  BY <1>3, <1>4

LEMMA GetElementExecuted ==
  ASSUME NEW T, Tame(T), DoGetElement
  PROVE  Stays \/ Executed(T)
<1>. DEFINE container == Load(top - 1)
            index == Load(top)
            obj == heap[container.n]
            elem == Element(obj, container.type, index.n)
<1>1. Executes(Op.GetElement) /\ Machine
  BY DEF DoGetElement, Tame
<1>2. top - 1 \in Cells /\ top \in Cells
  BY <1>1, BinaryCells DEF Machine
<1>3. container \in KnownIn(heap) /\ index \in Values /\ Sound(heap)
  BY <1>1, <1>2, LoadKnown DEF Machine, Addressed
<1>4. CASE VMError("Type") \/ VMError("Range")
  BY <1>4, ErrorStays
<1>5. CASE /\ container.type \in {"Range", "Array"} /\ IsInt(index)
           /\ index.n \in 0..ElementCount(obj, container.type) - 1
           /\ slots' = [slots EXCEPT ![top - 1] = elem]
           /\ heap' = Retain(heap, elem)
           /\ Release(container)
           /\ top' = top - 1
           /\ Dispatch
  <2>1. container.n \in DOMAIN heap /\ index.n \in Int
    BY <1>3, <1>5 DEF KnownIn, IsObject, ObjectTypes, Values
  <2>2. obj \in Objects /\ obj.elems \in Seq(KnownIn(heap)) /\ obj.elems \in Seq(T)
    BY <1>3, <2>1, SoundObjects DEF Tame, Holds
  <2>. HIDE DEF container, index, obj
  <2>3. elem \in KnownIn(heap) /\ elem \in T
    <3>1. CASE container.type = "Range"
      <4>1. obj.start + index.n \in Int
        BY <2>1, <2>2 DEF Objects
      <4>. QED  BY <3>1, <4>1, PlainKnown, PlainTame DEF Element, Tame
    <3>2. CASE container.type = "Array"
      <4>1. index.n + 1 \in 1..Len(obj.elems)
        BY <1>5, <2>1, <2>2, <3>2, LenProperties DEF ElementCount
      <4>2. elem = obj.elems[index.n + 1]
        BY <3>2 DEF Element
      <4>. QED  BY <2>2, <4>1, <4>2, ElementOfSeq
    <3>. QED  BY <1>5, <3>1, <3>2
  <2>. HIDE DEF elem
  <2>4. \A id \in DOMAIN heap' : heap'[id].elems \in Seq(T)
    BY <1>5, <2>3, RetainTame
  <2>. QED  BY <1>1, <1>5, <2>3, <2>4, BinaryExecuted
<1>. QED  BY <1>4, <1>5 DEF DoGetElement

LEMMA NegExecuted ==
  ASSUME NEW T, Tame(T), DoNeg
  PROVE  Stays \/ Executed(T)
<1>1. Executes(Op.Neg) /\ top \in Cells /\ top \in Int /\ Opcode = Op.Neg
  BY UnaryCell, StackFacts DEF DoNeg, Tame, Machine, Executes
<1>2. CASE ~IsNumber(Load(top))
  BY <1>2, ErrorStays DEF DoNeg
<1>3. CASE IsNumber(Load(top))
  <2>. DEFINE v == [slots[top] EXCEPT !.n = -@]
  <2>1. slots[top] \in Values /\ slots \in [Cells -> Values]
    BY <1>1 DEF Tame, Machine, VMTypeOK
  <2>2. slots[top].type \in NumberTypes
    BY <1>3 DEF Load, NilValue, IsNumber, NumberTypes
  <2>3. v \in Values /\ v.type = slots[top].type
    BY <2>1 DEF Values
  <2>4. slots' = [slots EXCEPT ![top] = v] /\ Dispatch /\ UNCHANGED <<top, heap, releasing>>
    BY <1>1, <1>3, <2>1 DEF DoNeg
  <2>. HIDE DEF v
  <2>5. v \in T
    BY <2>2, <2>3 DEF Tame, AnyButRefs, NumberTypes
  <2>6. /\ Holds(T, slots', consts', heap') /\ slots'[top] = v
        /\ \A k \in Cells \ {top} : slots'[k] = slots[k]
    BY <1>1, <2>4, <2>5, WriteTame DEF Tame, Holds
  <2>7. Pops(Op.Neg, Operand) = 1 /\ Pushes(Op.Neg) = 1 /\ Effect(Op.Neg, Operand) = 0
    BY PopsValues DEF Effect, Pushes, Op
  <2>8. Op.Neg # Op.Return /\ Op.Neg # Op.LocalRef /\ Op.Neg # Op.GetLocal
    BY DEF Op
  <2>9. Target(top) /\ top' = top + Effect(Op.Neg, Operand)
    BY <1>1, <2>4, <2>7 DEF Target
  <2>. QED  BY <1>1, <2>4, <2>5, <2>6, <2>8, <2>9 DEF Executed, Dispatch
<1>. QED  BY <1>2, <1>3

LEMMA ReleaseStays ==
  ASSUME Machine, ReleaseObject
  PROVE  Stays
<1>1. releasing # <<>> /\ releasing \in Seq(ObjectsIn(heap)) /\ Sound(heap)
  BY DEF ReleaseObject, Machine, Addressed
<1>2. CASE heap' = heap
  BY <1>2 DEF ReleaseObject, Stays
<1>3. CASE heap' = Dropped(heap, Head(releasing))
  <2>1. Head(releasing) \in ObjectsIn(heap)
    BY <1>1, HeadTailProperties
  <2>2. DOMAIN heap' = DOMAIN heap /\ \A id \in DOMAIN heap : heap'[id].elems = heap[id].elems
    BY <1>1, <1>3, <2>1, DroppedCounts
  <2>. QED  BY <2>2 DEF ReleaseObject, Stays
<1>. QED  BY <1>2, <1>3 DEF ReleaseObject

\* Whatever the VM does, it stays where it is or executes the whole instruction.
LEMMA VMMoves ==
  ASSUME NEW T, Tame(T), Opcode = Op.LocalRef => RefValue(Operand) \in T, VMNext
  PROVE  Stays \/ Executed(T)
<1>1. CASE DoReturn \/ Crash
  BY <1>1 DEF DoReturn, Crash, Stays, chunkVars
<1>. QED  BY <1>1, PushersExecuted, RangeExecuted, ArrayExecuted, PopExecuted, StoresExecuted,
             GetElementExecuted, NegExecuted, ArithmeticExecuted, ReleaseStays DEF VMNext, Handler, Tame


\* The compiler makes no reference.
LEMMA ConstantTame ==
  ASSUME NEW T, NEW h, Sound(h), \A id \in DOMAIN h : h[id].elems \in Seq(T), consts \in Seq(T),
         NEW v \in KnownIn(h), v \in T, EmitConstant(v, h)
  PROVE  /\ consts' \in Seq(T)
         /\ \A id \in DOMAIN heap' : heap'[id].elems \in Seq(T)
<1>1. consts' = consts \/ consts' = Append(consts, v)
  BY DEF EmitConstant
<1>2. Append(consts, v) \in Seq(T)
  BY AppendProperties
<1>3. heap' = h \/ heap' = Retain(h, v)
  BY DEF EmitConstant
<1>. QED  BY <1>1, <1>2, <1>3, RetainCounts

LEMMA CompilerTame ==
  ASSUME TypeOK, Addressed, NEW T, AnyButRefs(T), Holds(T, slots, consts, heap),
         CompilerNext, UNCHANGED slots
  PROVE  Holds(T, slots', consts', heap')
<1>1. Sound(heap) /\ consts \in Seq(T) /\ \A id \in DOMAIN heap : heap[id].elems \in Seq(T)
  BY DEF Addressed, Holds
<1>2. CASE UNCHANGED <<consts, heap>>
  BY <1>2
<1>3. CASE \E i \in Int : EmitConstant(IntValue(i), heap)
  BY <1>1, <1>3, PlainKnown, PlainTame, ConstantTame DEF Holds
<1>4. CASE EmitConstant(FractionValue, heap)
  BY <1>1, <1>4, PlainKnown, PlainTame, ConstantTame DEF Holds
<1>5. CASE EmitConstant(ObjectValue("String", NewId(heap)), Append(heap, StringObject))
  <2>. DEFINE h == Append(heap, StringObject)
              v == ObjectValue("String", NewId(heap))
  <2>1. StringObject \in Objects /\ StringObject.elems = <<>> /\ "String" \in ObjectTypes
    BY NewObjects DEF ObjectTypes
  <2>. HIDE DEF StringObject
  <2>2. Sound(h) /\ v \in KnownIn(h)
    <3>1. StringObject.elems \in Seq(KnownIn(heap))
      BY <2>1
    <3>. QED  BY <1>1, <2>1, <3>1, AppendSound
  <2>3. heap \in Seq(Objects) /\ Len(heap) \in Nat /\ NewId(heap) \in Int
    BY <1>1, LenProperties DEF Sound, NewId
  <2>4. v \in T
    BY <2>1, <2>3, PlainTame
  <2>5. \A id \in DOMAIN h : h[id].elems \in Seq(T)
    <3>1. Len(h) = Len(heap) + 1 /\ DOMAIN h = 1..Len(heap) + 1 /\ DOMAIN heap = 1..Len(heap)
      BY <2>1, <2>3, AppendProperties, LenProperties
    <3>2. \A id \in 1..Len(heap) : h[id] = heap[id]
      BY <2>1, <2>3, AppendProperties
    <3>3. h[Len(heap) + 1] = StringObject
      BY <2>1, <2>3, AppendProperties
    <3>4. StringObject.elems \in Seq(T)
      BY <2>1
    <3>. HIDE DEF h
    <3>5. ASSUME NEW id \in DOMAIN h  PROVE h[id].elems \in Seq(T)
      <4>1. CASE id \in 1..Len(heap)
        BY <1>1, <3>1, <3>2, <4>1
      <4>2. CASE id = Len(heap) + 1
        BY <3>3, <3>4, <4>2
      <4>. QED  BY <2>3, <3>1, <3>5, <4>1, <4>2
    <3>. QED  BY <3>5
  <2>6. EmitConstant(v, h)
    BY <1>5
  <2>. HIDE DEF h, v
  <2>. QED  BY <1>1, <2>2, <2>4, <2>5, <2>6, ConstantTame DEF Holds
<1>. QED  BY <1>2, <1>3, <1>4, <1>5, ConstantsChange

-----------------------------------------------------------------------------
\* Compiler and machine agree about the stack.

\* The cells that the instructions in front of i make references to, and the
\* values that have no others.
Named(c, i) == {c[k + 1] : k \in {k \in InstructionStarts(c) : k < i /\ c[k] = Op.LocalRef}}
RefsTo(N) == {v \in Values : v.type # "Junk" /\ (v.type = "Ref" => v.n \in N)}

LEMMA RefsToGrow ==
  ASSUME NEW N, NEW M, N \subseteq M
  PROVE  /\ AnyButRefs(RefsTo(N))
         /\ \A s, k, h : Holds(RefsTo(N), s, k, h) => Holds(RefsTo(M), s, k, h)
<1>1. RefsTo(N) \subseteq RefsTo(M)
  BY DEF RefsTo
<1>2. \A q \in Seq(RefsTo(N)) : q \in Seq(RefsTo(M))
  <2>. HIDE DEF RefsTo
  <2>. QED  BY <1>1, SeqMonotonic
<1>3. \A s : s \in [Cells -> RefsTo(N) \union {JunkValue}] => s \in [Cells -> RefsTo(M) \union {JunkValue}]
  <2>. HIDE DEF RefsTo
  <2>. QED  BY <1>1
<1>4. AnyButRefs(RefsTo(N))
  BY DEF AnyButRefs, RefsTo
<1>. HIDE DEF RefsTo
<1>. QED  BY <1>2, <1>3, <1>4 DEF Holds

\* The stack is as high as the compiler thinks when it writes the instruction.
LEMMA HeightMoves ==
  ASSUME NEW c, NEW nc, NEW nv, CodeOK(c, nc, nv)
  PROVE  /\ HeightBefore(c, 1) = 0
         /\ \A i \in InstructionStarts(c) : i <= Len(c) =>
              /\ HeightBefore(c, i) \in Int
              /\ HeightBefore(c, i + Width(c[i])) = HeightBefore(c, i) + Effect(c[i], OperandAt(c, i))
<1>. DEFINE f == HeightFrom(c)
            n == Len(c)
<1>1. /\ c \in Seq(Bytes) /\ WellFormed(c, nc, nv) /\ n \in Nat
      /\ Height(c) \in Int /\ Height(c) = f[1]
  BY LenProperties, HeightType DEF CodeOK
<1>2. /\ f \in [1..n + 2 -> Int]
      /\ \A i \in 1..n : f[i] = Effect(c[i], OperandAt(c, i)) + f[i + Width(c[i])]
  BY <1>1, HeightFalls DEF Falls
<1>3. ASSUME NEW i \in InstructionStarts(c), i <= n
      PROVE  /\ HeightBefore(c, i) \in Int
             /\ HeightBefore(c, i + Width(c[i])) = HeightBefore(c, i) + Effect(c[i], OperandAt(c, i))
  <2>. DEFINE e == Effect(c[i], OperandAt(c, i))
              j == i + Width(c[i])
  <2>1. i \in 1..n /\ Width(c[i]) \in {1, 2} /\ j <= n + 1
    BY <1>1, <1>3, InstructionFits, WidthType
  <2>2. f[i] = e + f[j]
    BY <1>2, <2>1
  <2>3. OperandAt(c, i) \in Int
    <3>1. Bytes \subseteq Int
      BY OpcodesAreBytes, BoundsAssumption DEF Bytes
    <3>2. ASSUME i < n  PROVE c[i + 1] \in Bytes
      <4>1. i + 1 \in 1..Len(c)
        BY <1>1, <2>1, <3>2
      <4>. QED  BY <1>1, <4>1, ElementOfSeq
    <3>3. CASE i < n
      <4>1. c[i + 1] \in Int
        BY <3>1, <3>2, <3>3
      <4>. HIDE DEF n
      <4>. QED  BY <4>1 DEF OperandAt
    <3>4. CASE ~(i < n)
      BY <3>4 DEF OperandAt
    <3>. QED  BY <3>3, <3>4
  <2>4. e \in Int
    BY <2>3, EffectType
  <2>5. i \in 1..n + 2 /\ j \in 1..n + 2
    BY <1>1, <2>1
  <2>6. f[i] \in Int /\ f[j] \in Int
    <3>. HIDE DEF f, j, e
    <3>. QED  BY <1>2, <2>5
  <2>. HIDE DEF f, j, e
  <2>. QED  BY <1>1, <2>2, <2>4, <2>6 DEF HeightBefore, j, e, f
<1>4. HeightBefore(c, 1) = 0
  BY <1>1 DEF HeightBefore
<1>. QED  BY <1>3, <1>4

\* From the first token to the last instruction: the VM finds the stack that the
\* compiler has counted on, and every reference is to a variable that is there.
Grounded ==
  /\ phase = "compile" =>
       /\ Leveled /\ ip = 1 /\ top = -1
       /\ Holds(RefsTo({}), slots, consts, heap)
  /\ phase = "run" =>
       /\ LeavesCells(code)
       /\ ip \in InstructionStarts(code) /\ ip <= Len(code)
       /\ top + 1 = HeightBefore(code, ip)
       /\ Holds(RefsTo(Named(code, ip)), slots, consts, heap)

\* One instruction further: another reference perhaps, to the cell it names.
LEMMA RunMoves ==
  ASSUME Machine, ChunkReady, Grounded, phase = "run", VMNext
  PROVE  Stays \/ Executed(RefsTo(Named(code, ip + Width(Opcode))))
<1>. DEFINE next == ip + Width(Opcode)
            T == RefsTo(Named(code, next))
<1>1. /\ LeavesCells(code) /\ ip \in InstructionStarts(code) /\ ip <= Len(code)
      /\ top + 1 = HeightBefore(code, ip) /\ Holds(RefsTo(Named(code, ip)), slots, consts, heap)
  BY DEF Grounded
<1>2. /\ code \in Seq(Bytes) /\ WellFormed(code, Len(consts), Len(variables)) /\ Len(code) \in Nat
      /\ ip \in 1..Len(code) /\ next <= Len(code) + 1 /\ Width(Opcode) \in {1, 2}
  BY <1>1, InstructionFits, WidthType, LenProperties DEF ChunkReady, CodeOK, Opcode
<1>3. Named(code, ip) \subseteq Named(code, next)
  <2>1. \A k \in InstructionStarts(code) : k < ip => k < next
    BY <1>2 DEF WellFormed
  <2>. HIDE DEF next
  <2>. QED  BY <2>1 DEF Named
<1>4. Opcode = Op.LocalRef => RefValue(Operand) \in T
  <2>1. SUFFICES ASSUME Opcode = Op.LocalRef  PROVE RefValue(Operand) \in T
    OBVIOUS
  <2>2. Width(Opcode) = 2 /\ Opcode \in OperandOps
    BY <2>1 DEF Width, OperandOps, LocalOps
  <2>3. ip < Len(code) /\ ip < next /\ Operand = code[ip + 1]
    BY <1>2, <2>2 DEF Operand, OperandAt, Opcode
  <2>4. Operand \in Named(code, next)
    <3>. HIDE DEF next
    <3>. QED  BY <1>1, <2>1, <2>3 DEF Named, Opcode
  <2>5. Operand \in Int
    BY OperandType DEF Machine
  <2>. HIDE DEF next
  <2>. QED  BY <2>4, <2>5 DEF RefsTo, RefValue, Values, ValueTypes
<1>5. Tame(T)
  <2>. HIDE DEF next
  <2>. QED  BY <1>1, <1>3, RefsToGrow DEF Tame
<1>. HIDE DEF T
<1>6. Stays \/ Executed(T)
  BY <1>4, <1>5, VMMoves
<1>. QED  BY <1>6 DEF T

LEMMA RunGrounded ==
  ASSUME Machine, ChunkReady, Grounded, phase = "run", VMNext, code' = code, phase' = "run"
  PROVE  Grounded'
<1>. DEFINE next == ip + Width(Opcode)
            T == RefsTo(Named(code, next))
<1>1. /\ LeavesCells(code) /\ ip \in InstructionStarts(code) /\ ip <= Len(code)
      /\ top + 1 = HeightBefore(code, ip) /\ Holds(RefsTo(Named(code, ip)), slots, consts, heap)
  BY DEF Grounded
<1>6. CASE Stays
  <2>1. \A id \in DOMAIN heap' : heap'[id].elems = heap[id].elems /\ id \in DOMAIN heap
    BY <1>6 DEF Stays
  <2>2. Holds(RefsTo(Named(code, ip)), slots', consts', heap')
    BY <1>1, <1>6, <2>1 DEF Stays, Holds
  <2>. QED  BY <1>1, <1>6, <2>2 DEF Stays, Grounded
<1>7. CASE Executed(T)
  <2>1. /\ Opcode # Op.Return /\ ip' = next /\ top' = top + Effect(Opcode, Operand)
        /\ Holds(T, slots', consts', heap')
    BY <1>7 DEF Executed
  <2>2. next \in InstructionStarts(code) /\ next <= Len(code)
    BY <1>1, <2>1, NextInstruction
  <2>3. top' + 1 = HeightBefore(code, next)
    <3>1. /\ HeightBefore(code, ip) \in Int
          /\ HeightBefore(code, next) = HeightBefore(code, ip) + Effect(Opcode, Operand)
      BY <1>1, HeightMoves DEF ChunkReady, Opcode, Operand
    <3>2. top \in Int /\ Effect(Opcode, Operand) \in Int
      <4>1. Operand \in Int
        BY OperandType DEF Machine
      <4>. QED  BY <4>1, EffectType, StackFacts DEF Machine
    <3>. HIDE DEF next
    <3>. QED  BY <1>1, <2>1, <3>1, <3>2
  <2>. HIDE DEF next
  <2>. QED  BY <1>1, <2>1, <2>2, <2>3 DEF Grounded
<1>8. Stays \/ Executed(T)
  BY RunMoves
<1>. QED  BY <1>6, <1>7, <1>8


LEMMA GroundedStep ==
  ASSUME ProgramInv, ProgramInv', Reporting, Fetching, ArraysCounted', BlocksDeclareNothing, Grounded,
         [ProgramNext]_programVars
  PROVE  Grounded'
<1>1. TypeOK /\ TypeOK' /\ Addressed /\ Machine
  BY DEF ProgramInv, ProgramTypeOK, Machine, TypeOK
<1>2. CASE UNCHANGED programVars
  BY <1>2 DEF programVars, vars, chunkVars, compilerVars, vmVars, Grounded, Leveled
<1>3. CASE Compile
  <2>1. CompilerNext /\ UNCHANGED <<ip, slots, top>> /\ phase = "compile" /\ phase' = "compile"
    BY <1>3 DEF Compile, vmVars
  <2>2. Leveled'
    BY <1>1, <2>1, ProgramAssumption, LeveledStep DEF Fetching, Grounded
  <2>3. Holds(RefsTo({}), slots', consts', heap')
    BY <1>1, <2>1, RefsToGrow, CompilerTame DEF Grounded
  <2>. QED  BY <2>1, <2>2, <2>3 DEF Grounded
<1>4. CASE StartVM
  <2>1. /\ UNCHANGED <<code, consts, heap, ip, slots, top>> /\ phase = "compile" /\ phase' = "run"
        /\ rc = "Ok" /\ ip = 1 /\ top = -1
    BY <1>4 DEF StartVM, vars, chunkVars, Grounded
  <2>2. ChunkReady /\ ip \in InstructionStarts(code) /\ ip <= Len(code)
    BY <1>1, <1>4, ChunkStarts
  <2>3. HeightBefore(code, ip) = 0
    BY <2>1, <2>2, HeightMoves DEF ChunkReady
  <2>4. Holds(RefsTo(Named(code, ip)), slots, consts, heap)
    BY <2>1, RefsToGrow DEF Grounded
  <2>5. LeavesCells(code)
    BY <2>1 DEF Grounded, Leveled
  <2>6. top + 1 = HeightBefore(code, ip)
    BY <2>1, <2>3
  <2>. QED  BY <2>1, <2>2, <2>4, <2>5, <2>6 DEF Grounded
<1>5. CASE Run
  <2>1. VMNext /\ code' = code /\ phase = "run" /\ phase' = "run"
    BY <1>1, <1>5, VMKeeps DEF Run, MachineKept
  <2>. QED  BY <1>1, <2>1, RunGrounded DEF Fetching
<1>6. CASE PrintResult
  BY <1>6 DEF PrintResult, DeinitCompiler, vars, chunkVars, compilerVars, Grounded
<1>7. CASE ReportError \/ DeinitVM \/ Unwind \/ ReleaseInDeinit
  BY <1>7 DEF ReportError, DeinitVM, Unwind, ReleaseInDeinit, DeinitCompiler, Grounded
<1>. QED  BY <1>2, <1>3, <1>4, <1>5, <1>6, <1>7 DEF ProgramNext

LEMMA GroundedInitial ==
  ASSUME ProgramInit
  PROVE  Grounded
<1>1. /\ code = <<>> /\ consts = <<>> /\ heap = <<>> /\ variables = <<>> /\ todo = <<Do("init")>>
      /\ slots = [c \in Cells |-> JunkValue] /\ ip = 1 /\ top = -1 /\ phase = "compile"
  BY DEF ProgramInit, CompilerInit, VMInit
<1>2. Holds(RefsTo({}), slots, consts, heap)
  <2>1. consts \in Seq(RefsTo({}))
    BY <1>1
  <2>. HIDE DEF RefsTo
  <2>. QED  BY <1>1, <2>1 DEF Holds
<1>3. AllSettled(todo) /\ Total(todo) = 0
  <2>. DEFINE s == <<>>
  <2>1. Do("init") \in AllCalls /\ Net(Do("init")) = 0 /\ (Settled(Do("init"), 0) <=> TRUE)
    <3>1. Do("init") \in AllCalls /\ Do("init").fn = "init"
      BY DEF AllCalls, Do
    <3>. QED  BY <3>1, PlainKinds
  <2>2. s \in Seq(AllCalls) /\ Total(s) = 0 /\ AllSettled(s)
    BY NothingPending
  <2>3. todo = <<Do("init")>> \o s
    BY <1>1
  <2>. HIDE DEF s
  <2>4. Total(todo) = Net(Do("init")) + Total(s) /\ AllSettled(todo)
    BY <2>1, <2>2, <2>3, FrontCall
  <2>. QED  BY <2>1, <2>2, <2>4
<1>4. Height(code) = 0 /\ Len(variables) = 0
  BY <1>1, HeightEmpty
<1>5. LeavesCells(code)
  <2>. DEFINE c == <<>>
  <2>1. c \in Seq(Bytes) /\ Len(c) = 0 /\ code = c
    BY <1>1
  <2>. HIDE DEF c
  <2>2. InstructionStarts(c) \subseteq 1..2
    <3>1. InstructionStarts(c) \subseteq 1..Len(c) + 2
      BY <2>1, StartsEquation DEF StopsAt
    <3>. QED  BY <2>1, <3>1
  <2>3. \A j \in InstructionStarts(c) : ~(j <= Len(c))
    BY <2>1, <2>2
  <2>. QED  BY <2>1, <2>3 DEF LeavesCells
<1>. QED  BY <1>1, <1>2, <1>3, <1>4, <1>5 DEF Grounded, Leveled

LEMMA GroundedInvariant ==
  ProgramSpec /\ []ArraysCounted /\ []BlocksDeclareNothing => []Grounded
<1>1. ProgramInit => Grounded
  BY GroundedInitial
<1>. QED  BY <1>1, ProgramInvariant, ReportingInvariant, FetchingInvariant, GroundedStep, PTL DEF ProgramSpec

\* A reference to a variable is one to a cell in use.
LEMMA NamedInUse ==
  ASSUME Machine, ChunkReady, Grounded, phase = "run", NEW n \in Named(code, ip)
  PROVE  n < Floor(code, ip) /\ Floor(code, ip) <= top + 1
<1>1. /\ LeavesCells(code) /\ ip \in InstructionStarts(code) /\ ip <= Len(code)
      /\ top + 1 = HeightBefore(code, ip)
  BY DEF Grounded
<1>2. PICK k \in InstructionStarts(code) : k < ip /\ code[k] = Op.LocalRef /\ n = code[k + 1]
  BY DEF Named
<1>3. k <= ip /\ code[k] \in LocalOps
  <2>1. k \in Int /\ ip \in Int
    BY <1>1, LenProperties DEF ChunkReady, CodeOK, WellFormed
  <2>. QED  BY <1>2, <2>1 DEF LocalOps
<1>4. n < Floor(code, ip)
  BY <1>1, <1>2, <1>3 DEF LeavesCells
<1>5. Floor(code, ip) <= top + 1
  <2>1. Operand \in Nat /\ Opcode \in Opcodes
    <3>1. Opcode \in Opcodes
      BY <1>1 DEF ChunkReady, CodeOK, WellFormed, Opcode
    <3>. QED  BY <3>1, OperandType DEF Machine
  <2>2. Pops(Opcode, Operand) \in Nat
    BY <2>1 DEF Pops
  <2>3. top \in Int
    BY StackFacts DEF Machine
  <2>. QED  BY <1>1, <2>2, <2>3 DEF Floor, Opcode, Operand
<1>. QED  BY <1>4, <1>5

\* An assignment writes a cell in use, the variable's own or one that a reference
\* names: provided that no array literal has more than UINT8_MAX elements and that
\* blocks declare no variables.  (Behind a block that has declared one the
\* compiler's slots are wrong, and so is the cell.)
THEOREM AssignmentsHitVariables ==
  ProgramSpec /\ []ArraysCounted /\ []BlocksDeclareNothing => []StoresInUse
<1>1. ASSUME ProgramInv, Fetching, Grounded  PROVE StoresInUse
  <2>1. SUFFICES ASSUME Assigns, ~Undefined  PROVE StoreCell <= top
    BY DEF StoresInUse
  <2>2. Machine /\ ChunkReady /\ phase = "run" /\ Opcode \in Stores /\ Executes(Opcode)
    BY <1>1, <2>1 DEF ProgramInv, ProgramTypeOK, TypeOK, Machine, Fetching, Assigns, Executes
  <2>3. /\ LeavesCells(code) /\ ip \in InstructionStarts(code) /\ ip <= Len(code)
        /\ top + 1 = HeightBefore(code, ip) /\ Holds(RefsTo(Named(code, ip)), slots, consts, heap)
    BY <1>1, <2>2 DEF Grounded
  <2>4. top \in Int /\ Operand \in Int /\ Operand \in Cells
    <3>1. Opcode \in LocalOps \ {Op.LocalRef}
      BY <2>2 DEF Stores, LocalOps, Op
    <3>. QED  BY <2>2, <3>1, StackFacts, OperandType, LocalCell DEF Machine
  <2>5. Floor(code, ip) = top
    <3>1. Pops(Opcode, Operand) = 1
      BY <2>2, PopsValues DEF Stores
    <3>. QED  BY <2>3, <2>4, <3>1 DEF Floor, Opcode, Operand
  <2>6. CASE Opcode = Op.SetLocal
    <3>1. code[ip + 1] = Operand /\ code[ip] \in LocalOps /\ ip <= ip
      <4>1. code \in Seq(Bytes) /\ WellFormed(code, Len(consts), Len(variables)) /\ Len(code) \in Nat
        BY <2>2, LenProperties DEF ChunkReady, CodeOK
      <4>2. ip \in 1..Len(code) /\ ip + 2 <= Len(code) + 1
        BY <2>3, <2>6, <4>1, InstructionFits DEF Opcode, Width, OperandOps, LocalOps
      <4>. QED  BY <2>6, <4>1, <4>2 DEF Operand, OperandAt, Opcode, OperandOps, LocalOps
    <3>2. Operand < top
      BY <2>3, <2>5, <3>1 DEF LeavesCells
    <3>. QED  BY <2>4, <2>6, <3>2 DEF StoreCell
  <2>7. CASE Opcode # Op.SetLocal
    <3>1. Opcode \in ByRefOps
      BY <2>2, <2>7 DEF Stores, ByRefOps
    <3>2. slots[Operand].type = "Ref"
      BY <2>1, <2>4, <3>1 DEF Undefined
    <3>3. slots[Operand] \in RefsTo(Named(code, ip))
      <4>1. slots[Operand] # JunkValue
        BY <3>2 DEF JunkValue
      <4>. HIDE DEF RefsTo
      <4>. QED  BY <2>3, <2>4, <4>1 DEF Holds
    <3>4. slots[Operand].n \in Named(code, ip) /\ slots[Operand].n \in Int
      BY <3>2, <3>3 DEF RefsTo, Values
    <3>5. slots[Operand].n < top
      BY <1>1, <2>2, <2>5, <3>4, NamedInUse
    <3>. QED  BY <2>4, <2>7, <3>4, <3>5 DEF StoreCell
  <2>. QED  BY <2>6, <2>7
<1>. QED  BY <1>1, ProgramInvariant, FetchingInvariant, GroundedInvariant, PTL

\* As long as the program runs, every reference it can get at is to a cell in
\* use, under the same conditions.
THEOREM ReferencesStayValid ==
  ProgramSpec /\ []ArraysCounted /\ []BlocksDeclareNothing => []RefsPointToStack
<1>1. ASSUME ProgramInv, Fetching, Grounded  PROVE RefsPointToStack
  <2>1. SUFFICES ASSUME phase = "run"
                 PROVE  /\ \A c \in 0..top : slots[c].type = "Ref" => slots[c].n <= top
                        /\ \A id \in LiveIds : \A i \in DOMAIN heap[id].elems :
                             heap[id].elems[i].type = "Ref" => heap[id].elems[i].n <= top
    BY DEF RefsPointToStack
  <2>2. Machine /\ ChunkReady /\ top \in Int
    BY <1>1, <2>1, StackFacts DEF ProgramInv, ProgramTypeOK, TypeOK, Machine, Fetching
  <2>3. Holds(RefsTo(Named(code, ip)), slots, consts, heap)
    BY <1>1, <2>1 DEF Grounded
  <2>4. ASSUME NEW v \in RefsTo(Named(code, ip)), v.type = "Ref"  PROVE v.n <= top
    <3>1. v.n \in Named(code, ip) /\ v.n \in Int
      BY <2>4 DEF RefsTo, Values
    <3>2. v.n < Floor(code, ip) /\ Floor(code, ip) <= top + 1
      BY <1>1, <2>1, <2>2, <3>1, NamedInUse
    <3>3. Floor(code, ip) \in Int
      <4>1. HeightBefore(code, ip) \in Int /\ Pops(Opcode, Operand) \in Int
        <5>1. Operand \in Int
          BY <2>2, OperandType DEF Machine
        <5>. QED  BY <1>1, <2>1, <2>2, <5>1, HeightMoves, EffectType DEF Grounded, ChunkReady
      <4>. QED  BY <4>1 DEF Floor, Opcode, Operand
    <3>. QED  BY <2>2, <3>1, <3>2, <3>3
  <2>5. ASSUME NEW c \in 0..top, slots[c].type = "Ref"  PROVE slots[c].n <= top
    <3>1. c \in Cells /\ slots[c] # JunkValue
      BY <2>2, <2>5, StackFacts DEF Machine, JunkValue
    <3>2. slots[c] \in RefsTo(Named(code, ip))
      <4>. HIDE DEF RefsTo
      <4>. QED  BY <2>3, <3>1 DEF Holds
    <3>. QED  BY <2>4, <2>5, <3>2
  <2>6. ASSUME NEW id \in LiveIds, NEW i \in DOMAIN heap[id].elems, heap[id].elems[i].type = "Ref"
        PROVE  heap[id].elems[i].n <= top
    <3>1. heap[id].elems \in Seq(RefsTo(Named(code, ip)))
      <4>. HIDE DEF RefsTo
      <4>. QED  BY <2>3 DEF Holds, LiveIds
    <3>2. heap[id].elems[i] \in RefsTo(Named(code, ip))
      <4>. HIDE DEF RefsTo
      <4>. QED  BY <3>1, ElementOfSeq, LenProperties
    <3>. QED  BY <2>4, <2>6, <3>2
  <2>. QED  BY <2>5, <2>6
<1>. QED  BY <1>1, ProgramInvariant, FetchingInvariant, GroundedInvariant, PTL


-----------------------------------------------------------------------------
\* Variables are used for what they are.

\* Instructions do not overlap, and each is for a variable of its kind.
Apart(c) == \A i, j \in InstructionStarts(c) : i < j => i + Width(c[i]) <= j
Suits(c, vs) ==
  \A i \in InstructionStarts(c) : i <= Len(c) =>
    /\ c[i] \in {Op.LocalRef, Op.SetLocal} => ~vs[c[i + 1] + 1].isRef
    /\ c[i] \in ByRefOps => vs[c[i + 1] + 1].isRef

\* The instruction at p puts the reference into cell k that the inout variable
\* there holds: before any other that names the cell, and to stay.
Initialises(c, vs, p, k) ==
  /\ p \in InstructionStarts(c) /\ p <= Len(c) /\ HeightBefore(c, p) = k
  /\ c[p] = Op.LocalRef \/ (c[p] = Op.GetLocal /\ vs[c[p + 1] + 1].isRef)
  /\ \A j \in InstructionStarts(c) : p < j /\ j <= Len(c) => k < Floor(c, j)
  /\ \A i \in InstructionStarts(c) : i <= Len(c) /\ c[i] \in LocalOps /\ c[i + 1] = k => p < i

Suited(c, vs) ==
  /\ Apart(c) /\ Suits(c, vs)
  /\ \A k \in 0..Len(vs) - 1 : vs[k + 1].isRef => \E p : Initialises(c, vs, p, k)

LEMMA ApartAppend ==
  ASSUME NEW c, NEW nc, NEW nv \in Nat, CodeOK(c, nc, nv), NEW instr \in Seq(Bytes),
         instr # <<>>, Len(instr) = Width(instr[1]), Apart(c)
  PROVE  Apart(c \o instr)
<1>. DEFINE n == Len(c)
            w == Len(instr)
            d == c \o instr
            A == InstructionStarts(c)
            B == A \union {n + w + 1}
            operand == IF Len(instr) = 2 THEN instr[2] ELSE 0
<1>1. operand \in Int
  <2>1. Bytes \subseteq Int /\ Len(instr) \in Nat
    BY OpcodesAreBytes, BoundsAssumption, LenProperties DEF Bytes
  <2>2. CASE Len(instr) = 2
    <3>1. instr[2] \in Bytes
      BY <2>2, ElementOfSeq
    <3>2. instr[2] \in Int
      BY <2>1, <3>1
    <3>. QED  BY <2>2, <3>2
  <2>3. CASE Len(instr) # 2
    BY <2>3
  <2>. QED  BY <2>2, <2>3
<1>2. /\ InstructionStarts(d) = B
      /\ A \subseteq 1..n + 1 /\ n \in Nat /\ w \in {1, 2}
      /\ \A i \in A : i <= n => d[i] = c[i]
      /\ d[n + 1] = instr[1]
  <2>. HIDE DEF operand
  <2>1. operand = (IF Len(instr) = 2 THEN instr[2] ELSE 0)
    BY DEF operand
  <2>2. Lengthened(c, instr, operand)
    BY <1>1, <2>1, FloorAppend
  <2>. QED  BY <2>2 DEF Lengthened
<1>3. \A i \in A : i <= n => i + Width(c[i]) <= n + 1
  BY InstructionFits DEF CodeOK
<1>4. Width(d[n + 1]) = w
  BY <1>2
<1>. HIDE DEF n, w, d, A
<1>5. ASSUME NEW i \in B, NEW j \in B, i < j  PROVE i + Width(d[i]) <= j
  <2>1. CASE i \in A /\ i <= n
    <3>1. d[i] = c[i] /\ Width(c[i]) \in {1, 2} /\ i \in Int
      BY <1>2, <2>1, WidthType
    <3>2. CASE j \in A
      BY <1>5, <2>1, <3>1, <3>2 DEF Apart, A
    <3>3. CASE j = n + w + 1
      <4>1. i + Width(c[i]) <= n + 1
        BY <1>3, <2>1
      <4>. QED  BY <1>2, <3>1, <3>3, <4>1
    <3>. QED  BY <3>2, <3>3
  <2>2. CASE i = n + 1
    <3>1. j = n + w + 1
      <4>1. j \in A => j \in 1..n + 1
        BY <1>2
      <4>2. j \notin A
        BY <1>2, <1>5, <2>2, <4>1
      <4>. QED  BY <1>5, <4>2
    <3>2. Width(d[i]) = w
      BY <1>4, <2>2
    <3>. QED  BY <1>2, <2>2, <3>1, <3>2
  <2>. QED  BY <1>2, <1>5, <2>1, <2>2
<1>. QED  BY <1>2, <1>5 DEF Apart, d

LEMMA SuitsAppend ==
  ASSUME NEW c, NEW nc, NEW nv \in Nat, CodeOK(c, nc, nv), NEW instr \in Seq(Bytes),
         instr # <<>>, Len(instr) = Width(instr[1]),
         NEW operand \in Int, operand = (IF Len(instr) = 2 THEN instr[2] ELSE 0),
         NEW vs, Suits(c, vs),
         instr[1] \in {Op.LocalRef, Op.SetLocal} => ~vs[operand + 1].isRef,
         instr[1] \in ByRefOps => vs[operand + 1].isRef
  PROVE  Suits(c \o instr, vs)
<1>. DEFINE n == Len(c)
            w == Len(instr)
            d == c \o instr
            A == InstructionStarts(c)
            Fits(op, k) == /\ op \in {Op.LocalRef, Op.SetLocal} => ~vs[k + 1].isRef
                           /\ op \in ByRefOps => vs[k + 1].isRef
<1>1. /\ InstructionStarts(d) = A \union {n + w + 1}
      /\ A \subseteq 1..n + 1 /\ n \in Nat /\ Len(d) = n + w /\ w \in {1, 2}
      /\ \A i \in A : i <= n =>
           d[i] = c[i] /\ (c[i] \in OperandOps => d[i + 1] = c[i + 1] /\ c[i + 1] \in Nat)
      /\ d[n + 1] = instr[1] /\ (w = 2 => d[n + 2] = instr[2])
  <2>1. Lengthened(c, instr, operand)
    BY FloorAppend
  <2>. QED  BY <2>1 DEF Lengthened
<1>2. {Op.LocalRef, Op.SetLocal} \union ByRefOps \subseteq OperandOps
  BY DEF ByRefOps, OperandOps, LocalOps
<1>3. instr[1] \in OperandOps => w = 2 /\ operand = instr[2]
  BY WidthType
<1>4. \A i \in A : i <= n => Fits(c[i], c[i + 1])
  BY DEF Suits
<1>5. Fits(instr[1], operand)
  OBVIOUS
<1>. HIDE DEF n, w, d, A
<1>6. ASSUME NEW i \in A \union {n + w + 1}, i <= n + w  PROVE Fits(d[i], d[i + 1])
  <2>1. CASE i \in A /\ i <= n
    <3>1. CASE c[i] \in OperandOps
      <4>1. d[i] = c[i] /\ d[i + 1] = c[i + 1]
        BY <1>1, <2>1, <3>1
      <4>. HIDE DEF Fits
      <4>. QED  BY <1>4, <2>1, <4>1
    <3>2. CASE c[i] \notin OperandOps
      BY <1>1, <1>2, <2>1, <3>2
    <3>. QED  BY <3>1, <3>2
  <2>2. CASE i = n + 1
    <3>1. d[i] = instr[1] /\ i + 1 = n + 2
      BY <1>1, <2>2
    <3>2. CASE instr[1] \in OperandOps
      <4>1. d[i + 1] = operand
        BY <1>1, <1>3, <3>1, <3>2
      <4>. HIDE DEF Fits
      <4>. QED  BY <1>5, <3>1, <4>1
    <3>3. CASE instr[1] \notin OperandOps
      BY <1>2, <3>1, <3>3
    <3>. QED  BY <3>2, <3>3
  <2>. QED  BY <1>1, <1>6, <2>1, <2>2
<1>. QED  BY <1>1, <1>6 DEF Suits, d

\* Neither does an instruction that leaves the variables alone disturb them.
LEMMA InitialisesAppend ==
  ASSUME NEW c, NEW nc, NEW nv \in Nat, CodeOK(c, nc, nv), NEW instr \in Seq(Bytes),
         instr # <<>>, Len(instr) = Width(instr[1]),
         NEW operand \in Int, operand = (IF Len(instr) = 2 THEN instr[2] ELSE 0),
         nv <= Height(c) - Pops(instr[1], operand),
         NEW vs, NEW p, NEW k \in 0..nv - 1, Initialises(c, vs, p, k)
  PROVE  Initialises(c \o instr, vs, p, k)
<1>. DEFINE n == Len(c)
            w == Len(instr)
            d == c \o instr
            A == InstructionStarts(c)
            low == Floor(d, n + 1)
<1>1. /\ InstructionStarts(d) = A \union {n + w + 1}
      /\ A \subseteq 1..n + 1 /\ n + 1 \in A
      /\ n \in Nat /\ Len(d) = n + w /\ w \in {1, 2}
      /\ \A i \in A : i <= n =>
           /\ d[i] = c[i] /\ Floor(d, i) = Floor(c, i) /\ HeightBefore(d, i) = HeightBefore(c, i)
           /\ c[i] \in OperandOps => d[i + 1] = c[i + 1] /\ c[i + 1] \in Nat
      /\ low = Height(c) - Pops(instr[1], operand)
  <2>1. Lengthened(c, instr, operand)
    BY FloorAppend
  <2>. QED  BY <2>1 DEF Lengthened
<1>2. k < low
  <2>1. low \in Int
    <3>1. Height(c) \in Int /\ Pops(instr[1], operand) \in Int
      BY HeightType, EffectType
    <3>2. low = Height(c) - Pops(instr[1], operand)
      BY <1>1
    <3>. HIDE DEF low
    <3>. QED  BY <3>1, <3>2
  <2>. HIDE DEF low
  <2>. QED  BY <1>1, <2>1
<1>3. LocalOps \subseteq OperandOps /\ Op.LocalRef \in LocalOps /\ Op.GetLocal \in LocalOps
  BY DEF OperandOps, LocalOps
<1>4. /\ p \in A /\ p <= n /\ HeightBefore(c, p) = k
      /\ c[p] = Op.LocalRef \/ (c[p] = Op.GetLocal /\ vs[c[p + 1] + 1].isRef)
      /\ \A j \in A : p < j /\ j <= n => k < Floor(c, j)
      /\ \A i \in A : i <= n /\ c[i] \in LocalOps /\ c[i + 1] = k => p < i
  BY DEF Initialises
<1>. HIDE DEF n, w, d, A, low
<1>. DEFINE B == A \union {n + w + 1}
<1>5. p \in B /\ p <= n + w /\ HeightBefore(d, p) = k
  BY <1>1, <1>4
<1>6. d[p] = Op.LocalRef \/ (d[p] = Op.GetLocal /\ vs[d[p + 1] + 1].isRef)
  BY <1>1, <1>3, <1>4
<1>7. ASSUME NEW j \in B, p < j, j <= n + w  PROVE k < Floor(d, j)
  <2>1. CASE j \in A /\ j <= n
    BY <1>1, <1>4, <1>7, <2>1
  <2>2. CASE j = n + 1
    BY <1>2, <2>2 DEF low
  <2>. QED  BY <1>1, <1>7, <2>1, <2>2
<1>8. ASSUME NEW i \in B, i <= n + w, d[i] \in LocalOps, d[i + 1] = k  PROVE p < i
  <2>1. CASE i \in A /\ i <= n
    BY <1>1, <1>3, <1>4, <1>8, <2>1
  <2>2. CASE i = n + 1
    BY <1>1, <1>4, <2>2
  <2>. QED  BY <1>1, <1>8, <2>1, <2>2
<1>. QED  BY <1>1, <1>5, <1>6, <1>7, <1>8 DEF Initialises, d

LEMMA SuitedAppend ==
  ASSUME NEW c, NEW nc, NEW vs, Len(vs) \in Nat, CodeOK(c, nc, Len(vs)), NEW instr \in Seq(Bytes),
         instr # <<>>, Len(instr) = Width(instr[1]),
         NEW operand \in Int, operand = (IF Len(instr) = 2 THEN instr[2] ELSE 0),
         instr[1] \in {Op.LocalRef, Op.SetLocal} => ~vs[operand + 1].isRef,
         instr[1] \in ByRefOps => vs[operand + 1].isRef,
         Len(vs) <= Height(c) - Pops(instr[1], operand), Suited(c, vs)
  PROVE  Suited(c \o instr, vs)
<1>1. Apart(c \o instr)
  BY ApartAppend DEF Suited
<1>2. Suits(c \o instr, vs)
  BY SuitsAppend DEF Suited
<1>3. ASSUME NEW k \in 0..Len(vs) - 1, vs[k + 1].isRef  PROVE \E p : Initialises(c \o instr, vs, p, k)
  <2>1. PICK p : Initialises(c, vs, p, k)
    BY <1>3 DEF Suited
  <2>. QED  BY <2>1, InitialisesAppend
<1>. QED  BY <1>1, <1>2, <1>3 DEF Suited

\* One more variable.
LEMMA SuitedVariable ==
  ASSUME NEW c, NEW nc, NEW S, NEW vs \in Seq(S), NEW v \in S, CodeOK(c, nc, Len(vs)), Suited(c, vs),
         v.isRef => \E p : Initialises(c, Append(vs, v), p, Len(vs))
  PROVE  Suited(c, Append(vs, v))
<1>. DEFINE n == Len(vs)
            ws == Append(vs, v)
<1>1. n \in Nat /\ Len(ws) = n + 1 /\ ws[n + 1] = v /\ \A i \in 1..n : ws[i] = vs[i]
  BY LenProperties, AppendProperties
<1>2. ASSUME NEW i \in InstructionStarts(c), i <= Len(c), c[i] \in LocalOps
      PROVE  ws[c[i + 1] + 1] = vs[c[i + 1] + 1]
  <2>1. c[i + 1] < n
    BY <1>2 DEF CodeOK, WellFormed
  <2>2. c[i + 1] \in Nat
    <3>1. i \in 1..Len(c) /\ i + 2 <= Len(c) + 1 /\ c \in Seq(Bytes) /\ Len(c) \in Nat
      <4>1. Width(c[i]) = 2
        BY <1>2 DEF Width, OperandOps
      <4>. QED  BY <1>2, <4>1, InstructionFits, LenProperties DEF CodeOK
    <3>2. Bytes \subseteq Nat /\ i + 1 \in 1..Len(c)
      BY <3>1, OpcodesAreBytes, BoundsAssumption DEF Bytes
    <3>. QED  BY <3>1, <3>2, ElementOfSeq
  <2>3. c[i + 1] + 1 \in 1..n
    BY <1>1, <2>1, <2>2
  <2>. HIDE DEF ws, n
  <2>. QED  BY <1>1, <2>3
<1>3. {Op.LocalRef, Op.SetLocal, Op.GetLocal} \union ByRefOps \subseteq LocalOps
  BY DEF LocalOps, ByRefOps
<1>. HIDE DEF ws
<1>4. Suits(c, ws)
  BY <1>2, <1>3 DEF Suits, Suited
<1>5. ASSUME NEW p, NEW k, Initialises(c, vs, p, k)  PROVE Initialises(c, ws, p, k)
  <2>1. c[p] = Op.GetLocal => ws[c[p + 1] + 1] = vs[c[p + 1] + 1]
    BY <1>2, <1>3, <1>5 DEF Initialises
  <2>. QED  BY <1>5, <2>1 DEF Initialises
<1>6. ASSUME NEW k \in 0..n, ws[k + 1].isRef  PROVE \E p : Initialises(c, ws, p, k)
  <2>1. CASE k = n
    BY <1>1, <1>6, <2>1 DEF ws
  <2>2. CASE k # n
    <3>1. k \in 0..n - 1 /\ k + 1 \in 1..n
      BY <1>1, <2>2
    <3>2. vs[k + 1].isRef
      BY <1>1, <1>6, <3>1
    <3>. QED  BY <1>5, <3>1, <3>2 DEF Suited
  <2>. QED  BY <2>1, <2>2
<1>7. 0..Len(ws) - 1 = 0..n
  BY <1>1
<1>8. Apart(c)
  BY DEF Suited
<1>. HIDE DEF n
<1>9. Suited(c, ws)
  BY <1>4, <1>6, <1>7, <1>8 DEF Suited
<1>. QED  BY <1>9 DEF ws

\* A value passed to an inout variable is a reference, as the compiler takes it
\* for one: not the integer that it confuses with the expression before.
InoutsRefer == At("defineInout") /\ isRef => LeavesReference

\* The reference on top of the stack is the new variable's.
LEMMA InoutInitialised ==
  ASSUME NEW nc, CodeOK(code, nc, Len(variables)), variables \in Seq(Variables),
         Height(code) = Len(variables) + 1, Apart(code), LeavesReference, NEW v
  PROVE  Initialises(code, Append(variables, v), LastInstruction, Len(variables))
<1>. DEFINE n == Len(code)
            nv == Len(variables)
            A == InstructionStarts(code)
            p == LastInstruction
            ws == Append(variables, v)
<1>1. code \in Seq(Bytes) /\ WellFormed(code, nc, nv) /\ n \in Nat /\ nv \in Nat
  BY LenProperties DEF CodeOK
<1>2. A \subseteq 1..n + 1 /\ n + 1 \in A /\ StopsAt(A, code)
  BY <1>1, StartsEquation DEF WellFormed
<1>3. n >= 1
  <2>1. SUFFICES ASSUME n = 0  PROVE FALSE
    BY <1>1
  <2>2. code = <<>>
    BY <1>1, <2>1, EmptySeq
  <2>. QED  BY <1>1, <2>2, HeightEmpty
<1>4. \E i \in A : i <= n /\ i + Width(code[i]) = n + 1
  BY <1>1, <1>2, <1>3 DEF StopsAt
<1>5. p \in A /\ p <= n /\ p + Width(code[p]) = n + 1
  BY <1>4 DEF LastInstruction
<1>6. code[p] \in {Op.LocalRef, Op.GetLocal}
  BY DEF LeavesReference
<1>7. Width(code[p]) = 2 /\ code[p] \in LocalOps /\ p \in 1..n /\ p + 2 = n + 1
  BY <1>2, <1>5, <1>6 DEF Width, OperandOps, LocalOps
<1>8. HeightBefore(code, p) = nv
  <2>1. HeightBefore(code, p) \in Int
        /\ HeightBefore(code, p + Width(code[p])) = HeightBefore(code, p) + Effect(code[p], OperandAt(code, p))
    BY <1>5, HeightMoves
  <2>2. Effect(code[p], OperandAt(code, p)) = 1
    BY <1>6, EffectValues
  <2>3. HeightBefore(code, n + 1) = Height(code)
    <3>1. HeightFrom(code)[n + 1] = 0
      BY <1>1, HeightFalls DEF Falls
    <3>. QED  BY <1>1, <3>1 DEF HeightBefore
  <2>. HIDE DEF p
  <2>. QED  BY <1>1, <1>5, <2>1, <2>2, <2>3
<1>9. ASSUME code[p] = Op.GetLocal  PROVE ws[code[p + 1] + 1].isRef
  <2>1. variables[code[p + 1] + 1].isRef
    BY <1>9 DEF LeavesReference, Op
  <2>2. code[p + 1] < nv
    BY <1>1, <1>5, <1>7 DEF WellFormed
  <2>3. code[p + 1] \in Nat
    <3>1. Bytes \subseteq Nat /\ p + 1 \in 1..n
      BY <1>1, <1>7, OpcodesAreBytes, BoundsAssumption DEF Bytes
    <3>. HIDE DEF p
    <3>. QED  BY <1>1, <3>1, ElementOfSeq
  <2>4. code[p + 1] + 1 \in 1..nv
    BY <1>1, <2>2, <2>3
  <2>5. ws[code[p + 1] + 1] = variables[code[p + 1] + 1]
    <3>. DEFINE i == code[p + 1] + 1
    <3>1. \A j \in 1..nv : ws[j] = variables[j]
      BY <1>1
    <3>2. i \in 1..nv
      BY <2>4
    <3>. HIDE DEF i, ws
    <3>3. ws[i] = variables[i]
      BY <3>1, <3>2
    <3>. QED  BY <3>3 DEF i
  <2>. QED  BY <2>1, <2>5
<1>10. ASSUME NEW j \in A, p < j, j <= n  PROVE FALSE
  <2>1. p + Width(code[p]) <= j
    BY <1>5, <1>10 DEF Apart
  <2>. QED  BY <1>1, <1>2, <1>5, <1>10, <2>1
<1>11. ASSUME NEW i \in A, i <= n, code[i] \in LocalOps, code[i + 1] = nv  PROVE FALSE
  <2>1. code[i + 1] < nv
    BY <1>1, <1>11 DEF WellFormed
  <2>. QED  BY <1>1, <1>11, <2>1
<1>. HIDE DEF p, ws
<1>12. Initialises(code, ws, p, nv)
  BY <1>5, <1>6, <1>8, <1>9, <1>10, <1>11 DEF Initialises
<1>. QED  BY <1>12 DEF p, ws

\* What is appended is for variables of the right kinds.
LEMMA AppendSuits ==
  ASSUME Moving, Height(code) + Total(todo) = Len(variables), Suited(code, variables), Appends
  PROVE  Suited(code', variables)
<1>. DEFINE nv == Len(variables)
            need == Needs(Head(todo))
<1>1. /\ CodeOK(code, Len(consts), nv) /\ Len(consts) \in Nat /\ nv \in Nat
      /\ Height(code) \in Int /\ need \in Int
  BY MovingFacts, NetType
<1>2. nv <= Height(code) - need
  <2>1. Total(todo) = Net(Head(todo)) + Behind /\ Behind \in Int /\ Net(Head(todo)) \in Int
    BY AtHead DEF Moving
  <2>2. need + Net(Head(todo)) + Behind <= 0
    BY MovingFacts DEF Settled
  <2>. QED  BY <1>1, <2>1, <2>2
<1>3. ASSUME NEW c, CodeOK(c, Len(consts), nv), Suited(c, variables), NEW op \in Opcodes \ OperandOps,
             nv <= Height(c) - Pops(op, 0)
      PROVE  Suited(c \o <<op>>, variables)
  <2>. DEFINE instr == <<op>>
  <2>1. /\ instr \in Seq(Bytes) /\ instr # <<>> /\ Len(instr) = 1 /\ instr[1] = op
        /\ Width(op) = 1 /\ op \notin {Op.LocalRef, Op.SetLocal} \union ByRefOps
    BY OpcodesAreBytes, WidthType DEF OperandOps, LocalOps, ByRefOps
  <2>. HIDE DEF instr, nv, need
  <2>2. 0 \in Int /\ 0 = (IF Len(instr) = 2 THEN instr[2] ELSE 0) /\ Len(instr) = Width(instr[1])
    BY <2>1
  <2>3. Suited(c \o instr, variables)
    BY <1>1, <1>3, <2>1, <2>2, SuitedAppend DEF nv
  <2>. QED  BY <2>3 DEF instr
<1>4. ASSUME NEW op \in Opcodes \ OperandOps, Pops(op, 0) <= need  PROVE Suited(code \o <<op>>, variables)
  <2>1. nv <= Height(code) - Pops(op, 0)
    BY <1>1, <1>2, <1>4, EffectType
  <2>. QED  BY <1>1, <1>3, <1>4, <2>1
<1>5. ASSUME NEW op \in OperandOps, NEW operand \in 0..UINT8_MAX, Pops(op, operand) <= need,
             op \in LocalOps => FitsVariable(op, operand)
      PROVE  Suited(code \o <<op, operand>>, variables)
  <2>. DEFINE instr == <<op, operand>>
  <2>1. op \in Bytes /\ operand \in Bytes /\ operand \in Int
    BY OpValues, OpcodesAreBytes, BoundsAssumption DEF OperandOps, LocalOps, Bytes
  <2>2. instr \in Seq(Bytes) /\ instr # <<>> /\ Len(instr) = 2 /\ instr[1] = op /\ instr[2] = operand
    BY <2>1
  <2>3. Width(op) = 2
    BY WidthType
  <2>4. nv <= Height(code) - Pops(op, operand)
    BY <1>1, <1>2, <1>5, <2>1, EffectType
  <2>5. /\ op \in {Op.LocalRef, Op.SetLocal} => ~variables[operand + 1].isRef
        /\ op \in ByRefOps => variables[operand + 1].isRef
    BY <1>5 DEF FitsVariable, LocalOps, ByRefOps
  <2>. HIDE DEF instr, need
  <2>6. Suited(code \o instr, variables)
    BY <1>1, <2>1, <2>2, <2>3, <2>4, <2>5, SuitedAppend
  <2>. QED  BY <2>6 DEF instr
<1>6. CASE need = 0 /\ code' = code \o <<Op.Nil, Op.Return>>
  <2>1. /\ Op.Nil \in Opcodes \ OperandOps /\ Op.Return \in Opcodes \ OperandOps
        /\ Op.Nil \in Bytes /\ Op.Return \in Bytes
    BY OpValues, PlainOps, OpcodesAreBytes
  <2>. DEFINE d == code \o <<Op.Nil>>
  <2>2. code' = d \o <<Op.Return>>
    BY <1>1, <1>6, <2>1, PairAppended DEF CodeOK
  <2>3. Suited(d, variables) /\ CodeOK(d, Len(consts), nv)
    BY <1>1, <1>4, <1>6, <2>1, PopsNothing, AppendPlain
  <2>4. Height(d) = Height(code) + 1
    BY <1>1, <2>1, HeightPlain, EffectValues
  <2>5. Pops(Op.Return, 0) = 1
    BY DEF Pops, Op, ArithmeticOps
  <2>6. nv <= Height(d) - Pops(Op.Return, 0)
    <3>. HIDE DEF d
    <3>. QED  BY <1>1, <1>2, <1>6, <2>4, <2>5
  <2>. HIDE DEF d, nv, need
  <2>. QED  BY <1>3, <2>1, <2>2, <2>3, <2>6
<1>. QED  BY <1>4, <1>5, <1>6 DEF Appends

LEMMA SuitedStep ==
  ASSUME ~CheckOnly, TypeOK, TypeOK', SlotNumbering, CodeWhole, BlocksDeclareNothing, InoutsRefer,
         Leveled, rc = "Ok" => Suited(code, variables), [CompilerNext]_vars, rc' = "Ok"
  PROVE  Suited(code', variables')
<1>1. CASE UNCHANGED vars
  BY <1>1 DEF vars, chunkVars, compilerVars
<1>2. CASE CompilerNext
  <2>1. rc = "Ok" /\ todo # <<>>
    BY <1>2, RunsOnlyOk
  <2>2. Moving /\ Height(code) + Total(todo) = Len(variables) /\ Suited(code, variables)
    BY <1>2, <2>1 DEF Moving, Leveled
  <2>3. /\ Height(code) \in Int /\ Total(todo) \in Int /\ Len(variables) \in Nat
        /\ CodeOK(code, Len(consts), Len(variables)) /\ variables \in Seq(Variables)
    BY <2>2, MovingFacts, AtHead DEF Moving, TypeOK, ScopeTypeOK
  <2>4. CASE ~PopScope /\ ~Define /\ ~DefineInout
    <3>1. UNCHANGED variables
      BY <1>2, <2>4, OrdinarySteps
    <3>2. Suited(code', variables)
      BY <1>2, <2>2, <2>4, AppendStep, AppendSuits
    <3>. QED  BY <3>1, <3>2
  <2>5. CASE Define \/ DefineInout
    <3>1. code' = code /\ Total(todo) = -1
      BY <2>2, <2>5, DefineMoves
    <3>2. PICK name, ref, outcome :
            /\ DefineVariable(name, ref, outcome)
            /\ \/ Define /\ ref = FALSE
               \/ DefineInout /\ ref = TRUE /\ outcome = (IF isRef THEN "Ok" ELSE "Type")
      BY <2>5 DEF Define, DefineInout
    <3>. DEFINE v == [name |-> name, depth |-> scopeDepth, isRef |-> ref, index |-> Byte(Len(variables))]
    <3>3. rc' = outcome /\ variables' = Append(variables, v)
      BY <2>2, <3>2 DEF DefineVariable, Moving
    <3>4. v.isRef = ref
      OBVIOUS
    <3>. HIDE DEF v
    <3>5. ASSUME v.isRef  PROVE Initialises(code, Append(variables, v), LastInstruction, Len(variables))
      <4>1. DefineInout /\ isRef
        BY <2>2, <3>2, <3>3, <3>4, <3>5 DEF Moving
      <4>2. LeavesReference
        BY <4>1 DEF InoutsRefer, DefineInout
      <4>3. Height(code) = Len(variables) + 1
        BY <2>2, <2>3, <3>1
      <4>4. Apart(code)
        BY <2>2 DEF Suited
      <4>. QED  BY <2>3, <4>2, <4>3, <4>4, InoutInitialised
    <3>6. Suited(code, Append(variables, v))
      <4>. DEFINE S == Variables \union {v}
      <4>1. variables \in Seq(S) /\ v \in S
        BY <2>3, SeqMonotonic
      <4>. HIDE DEF S
      <4>. QED  BY <2>2, <2>3, <3>5, <4>1, SuitedVariable
    <3>. QED  BY <3>1, <3>3, <3>6
  <2>6. CASE PopScope
    <3>1. UNCHANGED variables
      BY <2>2, <2>6, PopMoves
    <3>2. Cardinality(InScope) = 0
      BY <2>6, FS_EmptySet DEF BlocksDeclareNothing, PopScope
    <3>3. code' = code
      <4>1. /\ Emit([i \in 1..0 |-> Op.Pop])
            /\ [i \in 1..0 |-> Op.Pop] = <<>>
        BY <2>6, <3>2 DEF PopScope
      <4>2. Emit(<<>>) /\ <<>> \in Seq(Bytes)
        BY <4>1
      <4>3. code' = code \o <<>>
        BY <2>2, <4>2, EmitWhole DEF TypeOK, Moving
      <4>. QED  BY <4>3 DEF TypeOK, ChunkTypeOK
    <3>. QED  BY <2>2, <3>1, <3>3
  <2>. QED  BY <2>4, <2>5, <2>6
<1>. QED  BY <1>1, <1>2

-----------------------------------------------------------------------------
\* What the next instruction reads.

\* An empty array is never made on a full stack.
RoomForEmptyArrays == phase = "run" /\ Ready => Unchecked \subseteq Cells

\* Nothing has gone wrong, and nothing is about to: every inout variable whose
\* instruction has been executed holds a reference.
Sane ==
  /\ ~Crashed
  /\ phase = "compile" /\ rc = "Ok" => Suited(code, variables)
  /\ phase = "run" =>
       /\ Suited(code, variables)
       /\ \A k \in 0..Len(variables) - 1, p \in InstructionStarts(code) :
            variables[k + 1].isRef /\ Initialises(code, variables, p, k) /\ p < ip => slots[k].type = "Ref"
       /\ \A c \in 0..top : slots[c] # JunkValue
       /\ status = "returned" => Opcode = Op.Return

\* The operand of a local instruction is a variable's cell.
LEMMA VariableAt ==
  ASSUME CodeOK(code, Len(consts), Len(variables)), Len(variables) \in Nat,
         NEW i \in InstructionStarts(code), i <= Len(code), code[i] \in LocalOps
  PROVE  /\ OperandAt(code, i) = code[i + 1] /\ code[i + 1] \in 0..Len(variables) - 1
         /\ Suits(code, variables) =>
              /\ code[i] \in {Op.LocalRef, Op.SetLocal} => ~variables[code[i + 1] + 1].isRef
              /\ code[i] \in ByRefOps => variables[code[i + 1] + 1].isRef
<1>1. code \in Seq(Bytes) /\ WellFormed(code, Len(consts), Len(variables)) /\ Len(code) \in Nat
  BY LenProperties DEF CodeOK
<1>2. code[i] \in OperandOps /\ Width(code[i]) = 2
  BY DEF OperandOps, Width
<1>3. i \in 1..Len(code) /\ i + 2 <= Len(code) + 1
  BY <1>1, <1>2, InstructionFits
<1>4. i < Len(code) /\ i + 1 \in 1..Len(code)
  BY <1>1, <1>3
<1>5. code[i + 1] \in Nat
  <2>1. Bytes \subseteq Nat
    BY OpcodesAreBytes, BoundsAssumption DEF Bytes
  <2>. QED  BY <1>1, <1>4, <2>1, ElementOfSeq
<1>6. code[i + 1] < Len(variables)
  BY <1>1 DEF WellFormed
<1>. QED  BY <1>2, <1>4, <1>5, <1>6 DEF OperandAt, Suits

\* Between instructions there is all that the next one takes.
LEMMA FloorNow ==
  ASSUME Machine, ChunkReady, Grounded, phase = "run"
  PROVE  /\ Floor(code, ip) = top + 1 - Pops(Opcode, Operand) /\ 0 <= Floor(code, ip)
         /\ Floor(code, ip) \in Int /\ Pops(Opcode, Operand) \in Nat
         /\ ip \in InstructionStarts(code) /\ ip <= Len(code) /\ top \in Int
         /\ Opcode \in LocalOps => Operand = code[ip + 1] /\ Operand < Floor(code, ip)
<1>1. /\ LeavesCells(code) /\ ip \in InstructionStarts(code) /\ ip <= Len(code)
      /\ top + 1 = HeightBefore(code, ip)
  BY DEF Grounded
<1>3. Operand \in Nat /\ top \in Int
  BY StackFacts, OperandType DEF Machine
<1>4. Pops(Opcode, Operand) \in Nat
  BY <1>3 DEF Pops
<1>2. Floor(code, ip) = top + 1 - Pops(Opcode, Operand)
  <2>1. Floor(code, ip) = HeightBefore(code, ip) - Pops(Opcode, Operand)
    BY DEF Floor, Opcode, Operand
  <2>. QED  BY <1>1, <1>3, <1>4, <2>1
<1>5. 0 <= Floor(code, ip)
  BY <1>1 DEF LeavesCells
<1>6. ASSUME Opcode \in LocalOps  PROVE Operand = code[ip + 1] /\ Operand < Floor(code, ip)
  <2>1. Operand = code[ip + 1]
    <3>2. Opcode \in OperandOps /\ Width(Opcode) = 2
      BY <1>6 DEF OperandOps, Width
    <3>3. code \in Seq(Bytes) /\ WellFormed(code, Len(consts), Len(variables)) /\ Len(code) \in Nat
      BY LenProperties DEF ChunkReady, CodeOK
    <3>4. ip \in 1..Len(code) /\ ip + 2 <= Len(code) + 1
      BY <1>1, <3>2, <3>3, InstructionFits DEF Opcode
    <3>5. ip < Len(code)
      BY <3>3, <3>4
    <3>. QED  BY <3>2, <3>5 DEF Operand, OperandAt, Opcode
  <2>2. ip <= ip
    BY StackFacts DEF Machine
  <2>3. code[ip + 1] < Floor(code, ip)
    BY <1>1, <1>6, <2>2 DEF LeavesCells, Opcode
  <2>. QED  BY <2>1, <2>3
<1>. QED  BY <1>1, <1>2, <1>3, <1>4, <1>5, <1>6

\* Only variables that are no references have references to them.
LEMMA NamedAre ==
  ASSUME ChunkReady, Suited(code, variables), Len(variables) \in Nat, Grounded, phase = "run",
         NEW n \in Named(code, ip)
  PROVE  n \in 0..Len(variables) - 1 /\ ~variables[n + 1].isRef
<1>1. PICK k \in InstructionStarts(code) : k < ip /\ code[k] = Op.LocalRef /\ n = code[k + 1]
  BY DEF Named
<1>2. k <= Len(code) /\ code[k] \in LocalOps
  <2>1. code \in Seq(Bytes) /\ WellFormed(code, Len(consts), Len(variables)) /\ Len(code) \in Nat
    BY LenProperties DEF ChunkReady, CodeOK
  <2>2. k \in Int /\ ip \in Int /\ ip <= Len(code)
    BY <2>1 DEF WellFormed, Grounded
  <2>. QED  BY <1>1, <2>1, <2>2 DEF LocalOps
<1>. QED  BY <1>1, <1>2, VariableAt DEF ChunkReady, Suited

\* An inout variable that is used holds a reference.
LEMMA InoutHolds ==
  ASSUME Machine, ChunkReady, Grounded, Sane, phase = "run", Len(variables) \in Nat,
         Opcode \in LocalOps, variables[Operand + 1].isRef
  PROVE  slots[Operand].type = "Ref"
<1>1. ip \in InstructionStarts(code) /\ ip <= Len(code) /\ Operand = code[ip + 1]
  BY FloorNow
<1>2. Operand \in 0..Len(variables) - 1 /\ Suited(code, variables)
  BY <1>1, VariableAt DEF ChunkReady, Opcode, Sane
<1>3. PICK p : Initialises(code, variables, p, Operand)
  BY <1>2 DEF Suited
<1>4. p \in InstructionStarts(code) /\ p < ip
  BY <1>1, <1>3 DEF Initialises, Opcode
<1>. QED  BY <1>2, <1>3, <1>4 DEF Sane

\* A reference in a cell is to a cell in use.
LEMMA RefInUse ==
  ASSUME Machine, ChunkReady, Grounded, Suited(code, variables), phase = "run", Len(variables) \in Nat,
         NEW c \in Cells, slots[c].type = "Ref"
  PROVE  slots[c].n \in Named(code, ip) /\ slots[c].n \in 0..top
<1>1. Holds(RefsTo(Named(code, ip)), slots, consts, heap)
  BY DEF Grounded
<1>2. slots[c] \in RefsTo(Named(code, ip))
  <2>1. slots[c] # JunkValue
    BY DEF JunkValue
  <2>. HIDE DEF RefsTo
  <2>. QED  BY <1>1, <2>1 DEF Holds
<1>3. slots[c].n \in Named(code, ip)
  BY <1>2 DEF RefsTo
<1>4. slots[c].n \in 0..Len(variables) - 1
  BY <1>3, NamedAre
<1>5. slots[c].n < Floor(code, ip) /\ Floor(code, ip) <= top + 1 /\ Floor(code, ip) \in Int /\ top \in Int
  BY <1>3, NamedInUse, FloorNow
<1>. QED  BY <1>3, <1>4, <1>5

\* A handler reads cells in use only, and takes only references for references.
LEMMA ReadsInUse ==
  ASSUME Machine, ChunkReady, Grounded, Sane, phase = "run", Len(variables) \in Nat
  PROVE  /\ Reads \subseteq 0..top /\ 0..top \subseteq Cells
         /\ Opcode \in ByRefOps => slots[Operand].type = "Ref"
<1>1. /\ Floor(code, ip) = top + 1 - Pops(Opcode, Operand) /\ 0 <= Floor(code, ip)
      /\ Floor(code, ip) \in Int /\ Pops(Opcode, Operand) \in Nat /\ top \in Int
      /\ ip \in InstructionStarts(code) /\ ip <= Len(code)
      /\ Opcode \in LocalOps => Operand = code[ip + 1] /\ Operand < Floor(code, ip)
  BY FloorNow
<1>2. 0..top \subseteq Cells
  BY StackFacts DEF Machine
<1>3. StackOperands \subseteq 0..top
  BY <1>1 DEF StackOperands
<1>4. Suited(code, variables) /\ Suits(code, variables)
  BY DEF Sane, Suited
<1>5. ASSUME Opcode \in LocalOps
      PROVE  /\ Operand \in 0..Len(variables) - 1 /\ Operand \in 0..top
             /\ Opcode \in ByRefOps => variables[Operand + 1].isRef
  <2>1. /\ code[ip + 1] \in 0..Len(variables) - 1
        /\ code[ip] \in ByRefOps => variables[code[ip + 1] + 1].isRef
    BY <1>1, <1>4, <1>5, VariableAt DEF ChunkReady, Opcode
  <2>2. Operand = code[ip + 1] /\ Operand < Floor(code, ip) /\ Floor(code, ip) <= top + 1
    BY <1>1, <1>5
  <2>3. Operand \in Int /\ Operand >= 0
    BY <2>1, <2>2
  <2>. QED  BY <1>1, <2>1, <2>2, <2>3 DEF Opcode
<1>6. LocalOperands \subseteq 0..top
  BY <1>5 DEF LocalOperands
<1>7. ASSUME Opcode \in ByRefOps  PROVE slots[Operand].type = "Ref" /\ slots[Operand].n \in 0..top
  <2>1. Opcode \in LocalOps
    BY <1>7 DEF ByRefOps, LocalOps
  <2>2. slots[Operand].type = "Ref" /\ Operand \in Cells
    BY <1>2, <1>5, <1>7, <2>1, InoutHolds
  <2>. QED  BY <1>4, <2>2, RefInUse
<1>. QED  BY <1>2, <1>3, <1>6, <1>7 DEF Reads

\* What is held in a cell in use is live.
LEMMA CellIsLive ==
  ASSUME Booked, NEW c \in 0..top
  PROVE  ~Freed(slots[c])
<1>1. SUFFICES ASSUME IsObject(slots[c])  PROVE heap[slots[c].n].live
  BY DEF Freed
<1>. DEFINE id == slots[c].n
<1>2. /\ slots \in [Cells -> Values] /\ top \in -1..StackSize - 1 /\ c \in Cells
      /\ slots[c] \in KnownIn(heap)
  BY StackFacts DEF Booked, Machine, Addressed, VMTypeOK
<1>3. id \in DOMAIN heap
  BY <1>1, <1>2 DEF KnownIn
<1>4. OnStack(slots, top, id) \in Nat /\ OnStack(slots, top, id) >= 1
  <2>. DEFINE S == {k \in 0..top : IsObject(slots[k]) /\ slots[k].n = id}
  <2>1. Cardinality(S) = OnStack(slots, top, id) /\ OnStack(slots, top, id) \in Nat
    BY <1>2, CellsOnStack
  <2>2. IsFiniteSet(S)
    <3>1. IsFiniteSet(0..top)
      BY <1>2, VMAssumption, FS_Interval
    <3>. QED  BY <3>1, FS_Subset
  <2>3. c \in S
    BY <1>1
  <2>. HIDE DEF S
  <2>4. Cardinality(S) # 0
    BY <2>2, <2>3, FS_EmptySet
  <2>. QED  BY <2>1, <2>4
<1>. HIDE DEF id
<1>5. /\ Occurrences(consts, Refs(id)) \in Nat /\ Occurrences(releasing, Refs(id)) \in Nat
  BY MachineTypes, RootsTypes DEF Booked
<1>6. InArrays(heap, id) \in Nat
  BY <1>3, PartsNow
<1>7. RootsNow(id) = OnStack(slots, top, id) + Occurrences(consts, Refs(id))
                       + Occurrences(releasing, Refs(id))
  BY DEF RootsNow, Roots
<1>8. RootsNow(id) + InArrays(heap, id) >= 1
  BY <1>4, <1>5, <1>6, <1>7
<1>9. heap[id].live
  BY <1>3, <1>8, HeldIsLive
<1>. QED  BY <1>9 DEF id

\* Neither is what is to be released freed before.
LEMMA NextIsLive ==
  ASSUME Booked, releasing # <<>>
  PROVE  ~Freed(Head(releasing))
<1>. DEFINE id == Head(releasing).n
<1>1. /\ releasing \in Seq(ObjectsIn(heap)) /\ releasing \in Seq(Values) /\ 1 \in DOMAIN releasing
      /\ Head(releasing) = releasing[1] /\ Head(releasing) \in ObjectsIn(heap)
  BY MachineTypes, HeadTailProperties, LenProperties, EmptySeq DEF Booked, Machine, Addressed
<1>2. id \in DOMAIN heap /\ releasing[1] \in Refs(id)
  BY <1>1 DEF ObjectsIn, KnownIn, Refs
<1>. HIDE DEF id
<1>3. Occurrences(releasing, Refs(id)) \in Nat /\ Occurrences(releasing, Refs(id)) >= 1
  BY <1>1, <1>2, OccursSome
<1>4. /\ OnStack(slots, top, id) \in Nat /\ Occurrences(consts, Refs(id)) \in Nat
  BY MachineTypes, RootsTypes DEF Booked
<1>5. InArrays(heap, id) \in Nat
  BY <1>2, PartsNow
<1>6. RootsNow(id) = OnStack(slots, top, id) + Occurrences(consts, Refs(id))
                       + Occurrences(releasing, Refs(id))
  BY DEF RootsNow, Roots
<1>7. RootsNow(id) + InArrays(heap, id) >= 1
  BY <1>3, <1>4, <1>5, <1>6
<1>8. heap[id].live
  BY <1>2, <1>7, HeldIsLive
<1>. QED  BY <1>8 DEF id, Freed

\* No handler can go wrong.
LEMMA NothingUndefined ==
  ASSUME Booked, ChunkReady, FetchesInstructions, Grounded, Sane, phase = "run", Len(variables) \in Nat,
         RoomForEmptyArrays, Ready
  PROVE  ~Undefined /\ ~Uninitialised
<1>1. /\ Reads \subseteq 0..top /\ 0..top \subseteq Cells
      /\ Opcode \in ByRefOps => slots[Operand].type = "Ref"
  BY ReadsInUse DEF Booked
<1>2. Unchecked \subseteq Cells
  BY DEF RoomForEmptyArrays
<1>3. Opcode = Op.Const => Operand \in Nat /\ Len(consts) \in Nat /\ Operand < Len(consts)
  BY OperandType, LenProperties DEF FetchesInstructions, Ready, Booked, Machine, ChunkTypeOK
<1>4. \A c \in Reads : ~Freed(slots[c]) /\ slots[c] # JunkValue
  BY <1>1, CellIsLive DEF Sane
<1>5. Reads \union Unchecked \subseteq Cells /\ Reads \intersect Cells = Reads
  BY <1>1, <1>2
<1>6. ~(Opcode = Op.Const /\ Operand >= Len(consts))
  BY <1>3
<1>7. ~(Opcode \in ByRefOps /\ Operand \in Cells /\ slots[Operand].type # "Ref")
  BY <1>1
<1>8. ~\E c \in Reads \intersect Cells : Freed(slots[c])
  BY <1>4, <1>5
<1>9. ~\E c \in Reads \intersect Cells : slots[c] = JunkValue
  BY <1>4, <1>5
<1>. QED  BY <1>5, <1>6, <1>7, <1>8, <1>9 DEF Undefined, Uninitialised


\* A handler goes on, reports an error or returns.
LEMMA HandlerStatus ==
  ASSUME Handler
  PROVE  status' \in {"running", "failed"} \/ DoReturn
<1>1. ASSUME NEW error, VMError(error)  PROVE status' = "failed"
  BY <1>1 DEF VMError
<1>2. ASSUME NEW op, Executes(op), Dispatch  PROVE status' = "running"
  BY <1>2 DEF Executes, Ready, Dispatch
<1>3. ASSUME NEW op, Executes(op), NEW v, Push(v)  PROVE status' \in {"running", "failed"}
  BY <1>1, <1>2, <1>3 DEF Push
<1>4. CASE DoNil \/ DoFalse \/ DoTrue \/ DoInt \/ DoConst \/ DoLocalRef \/ DoGetLocal \/ DoGetLocalByRef
  BY <1>3, <1>4 DEF DoNil, DoFalse, DoTrue, DoInt, DoConst, DoLocalRef, DoGetLocal, DoGetLocalByRef
<1>5. CASE DoRange \/ DoArray \/ DoPop \/ DoSetLocal \/ DoSetLocalByRef \/ DoGetElement \/ DoNeg
  BY <1>1, <1>2, <1>5 DEF DoRange, DoArray, DoPop, DoSetLocal, DoSetLocalByRef, DoGetElement, DoNeg, StoreTop
<1>6. CASE \E op \in ArithmeticOps : DoArithmetic(op)
  BY <1>1, <1>2, <1>6 DEF DoArithmetic
<1>. QED  BY <1>4, <1>5, <1>6 DEF Handler

\* Where the VM stands after a step.
LEMMA RunStatus ==
  ASSUME Booked, ChunkReady, FetchesInstructions, Grounded, Sane, phase = "run", Len(variables) \in Nat,
         RoomForEmptyArrays, VMNext, code' = code
  PROVE  /\ ~Crashed'
         /\ status' = "returned" => Opcode' = Op.Return
<1>1. status # "crashed" /\ (status = "returned" => Opcode = Op.Return)
  BY DEF Sane, Crashed
<1>2. CASE Handler
  <2>1. DoReturn => status' = "returned" /\ Opcode = Op.Return /\ UNCHANGED ip
    BY DEF DoReturn, Executes
  <2>. QED  BY <1>2, <2>1, HandlerStatus DEF Crashed, Opcode
<1>3. CASE ReleaseObject
  <2>1. ~Freed(Head(releasing))
    BY <1>3, NextIsLive DEF ReleaseObject
  <2>. QED  BY <1>1, <1>3, <2>1 DEF ReleaseObject, Crashed, Opcode
<1>4. CASE Crash
  BY <1>4, NothingUndefined DEF Crash
<1>. QED  BY <1>2, <1>3, <1>4 DEF VMNext

\* After an instruction every cell up to the top has been written.
LEMMA CellsWritten ==
  ASSUME Machine, NEW T, T \subseteq Values \ {JunkValue}, Executed(T),
         \A c \in 0..top : slots[c] # JunkValue, top' \in -1..StackSize - 1,
         NEW c \in 0..top'
  PROVE  slots'[c] # JunkValue
<1>1. /\ top' = top + Effect(Opcode, Operand) /\ (Pushes(Opcode) = 1 => slots'[top'] \in T)
      /\ \A k \in Cells : slots'[k] = slots[k] \/ slots'[k] \in T
  BY DEF Executed
<1>2. top \in Int /\ c \in Cells
  BY StackFacts DEF Machine
<1>3. Pushes(Opcode) \in {0, 1} /\ Pops(Opcode, Operand) \in Nat
      /\ Effect(Opcode, Operand) = Pushes(Opcode) - Pops(Opcode, Operand)
  <2>1. Operand \in Nat
    BY OperandType DEF Machine
  <2>. QED  BY <2>1 DEF Pushes, Pops, Effect
<1>4. CASE c <= top
  BY <1>1, <1>2, <1>4
<1>5. CASE c > top
  <2>1. c = top' /\ Pushes(Opcode) = 1
    BY <1>1, <1>2, <1>3, <1>5
  <2>. QED  BY <1>1, <2>1
<1>. QED  BY <1>2, <1>4, <1>5

\* The cell of an inout variable holds a reference as soon as the instruction
\* that puts it there is done, and keeps it.
LEMMA InoutsKept ==
  ASSUME Machine, ChunkReady, Grounded, Sane, phase = "run", Len(variables) \in Nat,
         NEW T, Executed(T), NEW k \in 0..Len(variables) - 1, NEW p, variables[k + 1].isRef,
         Initialises(code, variables, p, k), p < ip + Width(Opcode)
  PROVE  slots'[k].type = "Ref"
<1>1. /\ p \in InstructionStarts(code) /\ p <= Len(code) /\ HeightBefore(code, p) = k
      /\ code[p] = Op.LocalRef \/ (code[p] = Op.GetLocal /\ variables[code[p + 1] + 1].isRef)
      /\ \A j \in InstructionStarts(code) : p < j /\ j <= Len(code) => k < Floor(code, j)
  BY DEF Initialises
<1>2. /\ Floor(code, ip) = top + 1 - Pops(Opcode, Operand) /\ Floor(code, ip) \in Int
      /\ Pops(Opcode, Operand) \in Nat /\ ip \in InstructionStarts(code) /\ ip <= Len(code) /\ top \in Int
      /\ Opcode \in LocalOps => Operand = code[ip + 1]
  BY FloorNow
<1>3. Apart(code) /\ Suits(code, variables) /\ Suited(code, variables)
  BY DEF Sane, Suited
<1>4. /\ \A c \in Cells : slots'[c] = slots[c] \/ Target(c)
      /\ top' = top + Effect(Opcode, Operand)
      /\ Opcode = Op.LocalRef => slots'[top'] = RefValue(Operand)
      /\ Opcode = Op.GetLocal => slots'[top'] = Load(Operand)
  BY DEF Executed
<1>5. p \in Int /\ ip \in Int /\ p <= ip
  <2>1. p \in Int /\ ip \in Int /\ Width(Opcode) \in {1, 2}
    BY <1>1, <1>2, WidthType, LenProperties DEF ChunkReady, CodeOK, WellFormed
  <2>2. ASSUME ip < p  PROVE ip + Width(Opcode) <= p
    BY <1>1, <1>2, <1>3, <2>2 DEF Apart, Opcode
  <2>. QED  BY <2>1, <2>2
<1>6. CASE p = ip
  <2>1. /\ Opcode = Op.LocalRef \/ (Opcode = Op.GetLocal /\ variables[code[ip + 1] + 1].isRef)
        /\ Opcode \in LocalOps
    BY <1>1, <1>6 DEF Opcode, LocalOps
  <2>2. top' = k
    <3>1. top + 1 = k
      BY <1>1, <1>6 DEF Grounded
    <3>2. Effect(Opcode, Operand) = 1
      BY <2>1, EffectValues
    <3>. QED  BY <1>2, <1>4, <3>1, <3>2
  <2>3. CASE Opcode = Op.LocalRef
    BY <1>4, <2>2, <2>3 DEF RefValue
  <2>4. CASE Opcode = Op.GetLocal /\ variables[code[ip + 1] + 1].isRef
    <3>1. slots[Operand].type = "Ref"
      BY <1>2, <2>1, <2>4, InoutHolds
    <3>. QED  BY <1>4, <2>2, <2>4, <3>1 DEF Load, JunkValue
  <2>. QED  BY <2>1, <2>3, <2>4
<1>7. CASE p # ip
  <2>1. p < ip /\ k < Floor(code, ip) /\ k \in Int
    BY <1>1, <1>2, <1>5, <1>7
  <2>2. slots[k].type = "Ref" /\ k \in Cells
    <3>1. slots[k].type = "Ref"
      BY <1>1, <2>1 DEF Sane
    <3>2. k \in Int /\ 0 <= k /\ k <= top
      BY <1>2, <2>1
    <3>3. k \in Cells
      BY <1>2, <3>2, StackFacts DEF Machine
    <3>. QED  BY <3>1, <3>3
  <2>3. ~(k = top' /\ k > top - Pops(Opcode, Operand))
    BY <1>2, <2>1
  <2>4. ASSUME Opcode = Op.SetLocal  PROVE k # StoreCell
    <3>1. Opcode \in LocalOps /\ StoreCell = Operand
      BY <2>4 DEF LocalOps, StoreCell
    <3>2. ~variables[code[ip + 1] + 1].isRef
      BY <1>2, <1>3, <2>4 DEF Suits, Opcode
    <3>. QED  BY <1>2, <3>1, <3>2
  <2>5. ASSUME Opcode = Op.SetLocalByRef  PROVE k # StoreCell
    <3>1. Opcode \in ByRefOps /\ Opcode \in LocalOps \ {Op.LocalRef} /\ StoreCell = slots[Operand].n
      BY <2>5 DEF ByRefOps, LocalOps, StoreCell, Op
    <3>2. slots[Operand].type = "Ref" /\ Operand \in Cells
      <4>1. Operand \in LocalOperands /\ LocalOperands \subseteq Reads
        BY <3>1 DEF LocalOperands, Reads
      <4>. QED  BY <3>1, <4>1, ReadsInUse
    <3>3. slots[Operand].n \in Named(code, ip)
      BY <1>3, <3>2, RefInUse
    <3>4. ~variables[slots[Operand].n + 1].isRef
      BY <1>3, <3>3, NamedAre
    <3>. QED  BY <3>1, <3>4
  <2>. QED  BY <1>4, <2>2, <2>3, <2>4, <2>5 DEF Target, Stores
<1>. QED  BY <1>6, <1>7

LEMMA RunSane ==
  ASSUME Booked, Machine', ChunkReady, FetchesInstructions, Grounded, Sane, phase = "run",
         Len(variables) \in Nat, RoomForEmptyArrays, VMNext, UNCHANGED <<code, variables, phase>>
  PROVE  Sane'
<1>. DEFINE T == RefsTo(Named(code, ip + Width(Opcode)))
<1>1. ~Crashed' /\ (status' = "returned" => Opcode' = Op.Return)
  BY RunStatus
<1>2. Suited(code', variables') /\ phase' = "run"
  BY DEF Sane
<1>3. Machine
  BY DEF Booked
<1>4. CASE Stays
  BY <1>1, <1>2, <1>4 DEF Sane, Stays
<1>5. CASE Executed(T)
  <2>1. \A c \in 0..top' : slots'[c] # JunkValue
    <3>1. T \subseteq Values \ {JunkValue}
      BY DEF RefsTo, JunkValue
    <3>2. top' \in -1..StackSize - 1 /\ \A c \in 0..top : slots[c] # JunkValue
      BY DEF Machine, VMTypeOK, Sane
    <3>. HIDE DEF T
    <3>. QED  BY <1>3, <1>5, <3>1, <3>2, CellsWritten
  <2>2. ip' = ip + Width(Opcode)
    BY <1>5 DEF Executed
  <2>. HIDE DEF T
  <2>3. \A k \in 0..Len(variables') - 1, p \in InstructionStarts(code') :
          variables'[k + 1].isRef /\ Initialises(code', variables', p, k) /\ p < ip' => slots'[k].type = "Ref"
    BY <1>3, <1>5, <2>2, InoutsKept
  <2>. QED  BY <1>1, <1>2, <2>1, <2>3 DEF Sane
<1>6. Stays \/ Executed(T)
  BY <1>3, RunMoves
<1>. QED  BY <1>4, <1>5, <1>6


\* main clears up after a run that has left its result.
LEMMA ResultIsThere ==
  ASSUME Booked, ChunkReady, Grounded, phase = "run", Opcode = Op.Return
  PROVE  top >= 0 /\ ~Freed(slots[top])
<1>1. /\ Floor(code, ip) = top + 1 - Pops(Opcode, Operand) /\ 0 <= Floor(code, ip) /\ top \in Int
  BY FloorNow DEF Booked
<1>2. Pops(Opcode, Operand) = 1
  BY DEF Pops, Op, ArithmeticOps
<1>3. top >= 0 /\ top \in 0..top
  BY <1>1, <1>2
<1>. QED  BY <1>3, CellIsLive

LEMMA SaneStep ==
  ASSUME ProgramInv, ProgramInv', Reporting, Fetching, Ledger, Grounded, BlocksDeclareNothing,
         InoutsRefer, RoomForEmptyArrays, Sane, [ProgramNext]_programVars
  PROVE  Sane'
<1>1. TypeOK /\ TypeOK' /\ Machine /\ Machine' /\ Booked
  BY DEF ProgramInv, ProgramTypeOK, Machine, Booked, Ledger, TypeOK
<1>2. CASE UNCHANGED programVars
  BY <1>2 DEF programVars, vars, chunkVars, compilerVars, vmVars, Sane, Crashed, Opcode
<1>3. CASE Compile
  <2>1. /\ CompilerNext /\ UNCHANGED vmVars /\ phase = "compile" /\ phase' = "compile"
        /\ SlotNumbering /\ CodeWhole /\ Leveled /\ (rc = "Ok" => Suited(code, variables))
    BY <1>3 DEF Compile, Fetching, Grounded, Sane
  <2>2. rc' = "Ok" => Suited(code', variables')
    BY <1>1, <2>1, ProgramAssumption, SuitedStep
  <2>. QED  BY <2>1, <2>2 DEF Sane, Crashed, vmVars
<1>4. CASE StartVM
  <2>1. /\ UNCHANGED <<code, variables, slots, ip, top>> /\ phase = "compile" /\ phase' = "run"
        /\ rc = "Ok" /\ ip = 1 /\ top = -1 /\ status' = "running"
    BY <1>4 DEF StartVM, vars, chunkVars, compilerVars, Grounded
  <2>2. ChunkReady
    BY <1>1, <1>4, ChunkStarts
  <2>3. \A p \in InstructionStarts(code) : ~(p < 1)
    BY <2>2, LenProperties DEF ChunkReady, CodeOK, WellFormed
  <2>. QED  BY <2>1, <2>3 DEF Sane, Crashed
<1>5. CASE Run
  <2>1. VMNext /\ UNCHANGED <<code, variables, phase>> /\ phase = "run"
    BY <1>1, <1>5, VMKeeps DEF Run, MachineKept, compilerVars
  <2>2. ChunkReady /\ FetchesInstructions /\ Len(variables) \in Nat
    BY <1>1, <2>1, LenProperties DEF Fetching, TypeOK, ScopeTypeOK
  <2>. QED  BY <1>1, <2>1, <2>2, RunSane
<1>6. CASE PrintResult
  <2>1. phase = "run" /\ status = "returned"
    BY <1>6 DEF PrintResult
  <2>2. top >= 0 /\ ~Freed(slots[top])
    BY <1>1, <2>1, ResultIsThere DEF Fetching, Sane
  <2>. QED  BY <1>6, <2>1, <2>2 DEF PrintResult, DeinitCompiler, Sane, Crashed
<1>7. CASE ReportError \/ DeinitVM \/ Unwind
  BY <1>7 DEF ReportError, DeinitVM, Unwind, DeinitCompiler, vmVars, Sane, Crashed
<1>8. CASE ReleaseInDeinit
  <2>1. releasing # <<>> /\ ~Freed(Head(releasing))
    BY <1>1, <1>8, NextIsLive DEF ReleaseInDeinit, ReleaseObject
  <2>. QED  BY <1>8, <2>1 DEF ReleaseInDeinit, ReleaseObject, Sane, Crashed
<1>. QED  BY <1>2, <1>3, <1>4, <1>5, <1>6, <1>7, <1>8 DEF ProgramNext

LEMMA SaneInitial ==
  ASSUME ProgramInit
  PROVE  Sane
<1>1. code = <<>> /\ variables = <<>> /\ phase = "compile" /\ status = "idle"
  BY DEF ProgramInit, CompilerInit, VMInit
<1>. DEFINE c == <<>>
<1>2. c \in Seq(Bytes) /\ Len(c) = 0 /\ code = c /\ variables = c
  BY <1>1
<1>. HIDE DEF c
<1>3. InstructionStarts(c) = {1}
  <2>1. StopsAt(InstructionStarts(c), c)
    BY <1>2, StartsEquation
  <2>. QED  BY <1>2, <2>1 DEF StopsAt
<1>4. Suited(code, variables)
  BY <1>2, <1>3 DEF Suited, Apart, Suits
<1>. QED  BY <1>1, <1>4 DEF Sane, Crashed

\* A program never crashes: the VM stays on its stack, reads what it has written
\* and nothing that is freed, and takes nothing but a reference for one.  This is
\* so as long as no array literal has more than UINT8_MAX elements, blocks declare
\* no variables, only references are passed to inout variables, and no empty array
\* is made on a full stack: of the first three the compiler keeps no account, and
\* the machine does not check the last.
THEOREM NothingCrashes ==
  ProgramSpec /\ []ArraysCounted /\ []BlocksDeclareNothing /\ []InoutsRefer /\ []RoomForEmptyArrays
    => []NeverCrashes
<1>1. ProgramInit => Sane
  BY SaneInitial
<1>2. Sane => NeverCrashes
  BY DEF Sane, NeverCrashes
<1>. QED  BY <1>1, <1>2, ProgramInvariant, ReportingInvariant, FetchingInvariant, GroundedInvariant,
             AssignmentsHitVariables, LedgerInvariant, SaneStep, PTL DEF ProgramSpec

\* Under the first two of these conditions alone the counts of references agree
\* with what holds them: nothing that is held is freed, and a count is too high
\* only by the assignments.
THEOREM CountsAreRight ==
  ProgramSpec /\ []ArraysCounted /\ []BlocksDeclareNothing => []NoDangling /\ LeaksOnlyByAssignment
BY AssignmentsHitVariables, NothingDangles, OnlyAssignmentsLeak, PTL

=============================================================================
