------------------------------- MODULE Akwan -------------------------------
(***************************************************************************)
(* The program (src/main.c): compile the source text, run the chunk, print *)
(* the result, and give back what the compiler and the VM hold.  Both      *)
(* share the chunk and the heap: the compiler's strings become the VM's    *)
(* values, and they live until both have released them.                    *)
(***************************************************************************)
EXTENDS AkwCompiler, AkwVM

\* main compiles with no flags set.
ASSUME ProgramAssumption == ~CheckOnly

VARIABLE phase  \* how far main has come

programVars == <<vars, vmVars, phase>>

Phases == {"compile", "run", "deinitCompiler", "deinitVM", "success", "failure"}

ProgramTypeOK == TypeOK /\ VMTypeOK /\ phase \in Phases

-----------------------------------------------------------------------------

ProgramInit == CompilerInit /\ VMInit /\ phase = "compile"

Compile ==
  /\ phase = "compile"
  /\ CompilerNext
  /\ UNCHANGED <<vmVars, phase>>

\* Faulty variant: errors of the VM go unnoticed.
FailedToCompile == rc # "Ok"

Failed == rc # "Ok" \/ vrc # "Ok"

\* akw_vm_init and akw_vm_run, once the compiler has accepted the text.
StartVM ==
  /\ phase = "compile"
  /\ rc = "Ok" /\ todo = <<>>
  /\ phase' = "run"
  /\ status' = "running"
  /\ UNCHANGED <<vars, ip, slots, top, vrc, releasing>>

Run ==
  /\ phase = "run"
  /\ VMNext
  /\ UNCHANGED <<compilerVars, phase>>

\* akw_chunk_deinit gives every constant back, in order.
DeinitCompiler ==
  /\ phase' = "deinitCompiler"
  /\ consts' = <<>>

\* akw_vm_peek, akw_value_print and akw_vm_pop: the result is what the program
\* has left on top of the stack.
PrintResult ==
  /\ phase = "run"
  /\ status = "returned"
  /\ IF top >= 0 /\ ~Freed(slots[top])
     THEN /\ top' = top - 1
          /\ releasing' = (IF IsObject(slots[top]) THEN <<slots[top]>> ELSE <<>>) \o ConstantObjects
          /\ DeinitCompiler
          /\ UNCHANGED <<code, heap, compilerVars, ip, slots, vrc, status>>
     ELSE /\ status' = "crashed"
          /\ UNCHANGED <<vars, ip, slots, top, vrc, releasing, phase>>

\* After print_error: main goes on with the same clean-up.
ReportError ==
  /\ \/ phase = "compile" /\ rc # "Ok"
     \/ phase = "run" /\ status = "failed"
  /\ releasing' = ConstantObjects
  /\ DeinitCompiler
  /\ UNCHANGED <<code, heap, compilerVars, ip, slots, top, vrc, status>>

\* Faulty variant: the VM is not cleaned up after an error.
DeinitVMUnlessFailed ==
  /\ phase = "deinitCompiler" /\ status # "crashed"
  /\ releasing = <<>>
  /\ phase' = IF Failed THEN "failure" ELSE "deinitVM"
  /\ top' = IF Failed THEN -1 ELSE top
  /\ UNCHANGED <<vars, ip, slots, vrc, status, releasing>>

\* The VM has been initialised only if the text was accepted.
DeinitVM ==
  /\ phase = "deinitCompiler" /\ status # "crashed"
  /\ releasing = <<>>
  /\ phase' = IF rc = "Ok" THEN "deinitVM" ELSE "failure"
  /\ UNCHANGED <<vars, vmVars>>

\* Faulty variant: the top of the stack is released but never popped.
UnwindInPlace ==
  /\ phase = "deinitVM" /\ status # "crashed"
  /\ releasing = <<>>
  /\ IF top >= 0
     THEN /\ releasing' = IF IsObject(slots[top]) THEN <<slots[top]>> ELSE <<>>
          /\ phase' = phase
     ELSE /\ phase' = IF Failed THEN "failure" ELSE "success"
          /\ UNCHANGED releasing
  /\ UNCHANGED <<vars, ip, slots, top, vrc, status>>

\* akw_vm_deinit releases the values on the stack from the top down.
Unwind ==
  /\ phase = "deinitVM" /\ status # "crashed"
  /\ releasing = <<>>
  /\ IF top >= 0
     THEN /\ top' = top - 1
          /\ releasing' = IF IsObject(slots[top]) THEN <<slots[top]>> ELSE <<>>
          /\ phase' = phase
     ELSE /\ phase' = IF Failed THEN "failure" ELSE "success"
          /\ UNCHANGED <<top, releasing>>
  /\ UNCHANGED <<vars, ip, slots, vrc, status>>

ReleaseInDeinit ==
  /\ phase \in {"deinitCompiler", "deinitVM"}
  /\ ReleaseObject
  /\ UNCHANGED <<compilerVars, phase>>

ProgramNext ==
  \/ Compile \/ StartVM \/ Run \/ PrintResult \/ ReportError
  \/ DeinitVM \/ Unwind \/ ReleaseInDeinit

\* One thread, which never waits: every step that can be taken is.
ProgramSpec == ProgramInit /\ [][ProgramNext]_programVars /\ WF_programVars(ProgramNext)

-----------------------------------------------------------------------------
\* The reference ledger.

Count(seq, id) == Cardinality({i \in DOMAIN seq : IsObject(seq[i]) /\ seq[i].n = id})

Stores == {Op.SetLocal, Op.SetLocalByRef}

LiveIds == {id \in DOMAIN heap : heap[id].live}

\* Everything that holds object id: a stack cell, a constant, a pending
\* release, or an element of a live array.
Holders(id) ==
  LET onStack == Cardinality({c \in 0..top : IsObject(slots[c]) /\ slots[c].n = id})
      inArrays == Cardinality({p \in LiveIds \X (1..StackSize) :
                     /\ p[2] \in DOMAIN heap[p[1]].elems
                     /\ IsObject(heap[p[1]].elems[p[2]])
                     /\ heap[p[1]].elems[p[2]].n = id})
  IN onStack + inArrays + Count(consts, id) + Count(releasing, id)

Surplus(id) == IF heap[id].live THEN heap[id].refCount - Holders(id) ELSE -Holders(id)

Crashed == status = "crashed"

\* No object is freed while anything still holds it, and none is held more
\* often than it is counted: what the program can reach is never freed memory.
NoDangling == ~Crashed => \A id \in DOMAIN heap : Surplus(id) >= 0

\* The next instruction is an assignment.
Assigns == phase = "run" /\ Ready /\ Opcode \in Stores

\* The cell an assignment writes: the one of its slot, or the one referred to.
StoreCell == IF Opcode = Op.SetLocal THEN Operand ELSE slots[Operand].n

\* An assignment writes a cell that is in use: compiler and machine agree where
\* the variable is, and a reference names the cell of one.
StoresInUse == Assigns /\ ~Undefined => StoreCell <= top

\* A handler that moves, copies or drops a value keeps its count exact.  Only an
\* assignment may leave one reference too many, of the value it stores.
LeaksOnlyByAssignment ==
  [][\A id \in DOMAIN heap' :
       LET before == IF id \in DOMAIN heap THEN Surplus(id) ELSE 0
           stored == IsObject(slots[top]) /\ slots[top].n = id
       IN Surplus(id)' = before + (IF Assigns /\ ~Crashed' /\ stored THEN 1 ELSE 0)]_programVars

\* A Ref on the stack or in a live array points to a cell in use.  This is so
\* where no variable ends before the program does (ReferencesStayValid); of
\* variables that end, see NoRefOutlivesVariable.
RefsPointToStack ==
  LET inUse(v) == v.type = "Ref" => v.n <= top
  IN phase = "run" /\ ~Crashed =>
       /\ \A c \in 0..top : inUse(slots[c])
       /\ \A id \in LiveIds : \A i \in DOMAIN heap[id].elems : inUse(heap[id].elems[i])

\* The VM never leaves its stack, never reads a cell it has not written, never
\* uses freed memory and never takes anything but a Ref for a Ref.
NeverCrashes == ~Crashed

\* Nothing checks ip, the opcode or the index of a constant (the macro dispatch,
\* do_const).  The VM still fetches whole instructions of the chunk only: never
\* a byte behind its end or an operand for an opcode, and it loads no constant
\* that is not there.
FetchesInstructions ==
  phase = "run" /\ status = "running" =>
    /\ ip \in InstructionStarts(code) /\ ip <= Len(code)
    /\ Opcode \in Opcodes
    /\ Opcode = Op.Const => Operand < Len(consts)

\* main exits with success exactly when neither side has reported an error, and
\* by then the stack is empty.
ExitReports ==
  phase \in {"success", "failure"} =>
    top = -1 /\ (phase = "success") = (rc = "Ok" /\ vrc = "Ok")

\* Every allocation is given back before main returns, as the AddressSanitizer
\* build (CMakeLists.txt) demands of every run.
NothingLeaked == phase \in {"success", "failure"} => LiveIds = {}

\* Without an assignment in the program it is, also when the compiler gives up
\* half-way through the text or the VM in the middle of an expression.
LeakFreeWithoutAssignment ==
  LET assigns == \E i \in InstructionStarts(code) : i <= Len(code) /\ code[i] \in Stores
  IN phase \in {"success", "failure"} /\ ~assigns => LiveIds = {}

\* Every program comes to its end: no loop of the compiler, the VM or the
\* clean-up runs forever.
Terminates == <>(Crashed \/ phase \in {"success", "failure"})

=============================================================================
