----------------------------- MODULE AkwArrays -----------------------------
(***************************************************************************)
(* The array library (src/array.c) and the storage of strings              *)
(* (src/string.c), in the hands of a caller that keeps the rules: it       *)
(* retains what it is given, passes only what it holds and valid indices,  *)
(* and never puts an array into itself.  The VM is such a caller of the    *)
(* first few of these operations; the others wait for theirs.              *)
(*                                                                         *)
(* A call is one step.  The release of objects is the recursion of         *)
(* akw_value_release, one object at a time, before the next call.          *)
(***************************************************************************)
EXTENDS AkwValue, AkwBuffer, FiniteSets, SequencesExt

CONSTANTS
  MaxObjects,  \* bound: how many objects are ever allocated
  Plain        \* the values that are no objects

ASSUME ArraysAssumption ==
  /\ MaxObjects \in Nat
  /\ Plain \subseteq Values /\ \A v \in Plain : ~IsObject(v)

VARIABLES
  heap,       \* every object allocated so far
  buffers,    \* buffers[id]: capacity and count of the object's storage
  held,       \* the objects the caller holds, each with one reference
  rc,         \* how the last call ended
  releasing,  \* objects whose release is under way
  status,     \* "ok", or what the library has done to memory
  lost        \* history: lost[id], how often akw_array_remove_at has released id

arrayVars == <<heap, buffers, held, rc, releasing, status, lost>>

Ids == 1..MaxObjects
Arrays == {v \in held : v.type = "Array"}
Elements == held \union Plain
Elems(v) == heap[v.n].elems
Indices(v) == DOMAIN Elems(v)
Freed(v) == IsObject(v) /\ ~heap[v.n].live

\* Everything that can be reached from the values in `from`, inclusive.
Reachable(from) ==
  LET reach[k \in 0..Len(heap)] ==
        IF k = 0 THEN {v \in from : IsObject(v)}
        ELSE LET nearer == reach[k - 1]
             IN nearer \union {w \in UNION {Range(Elems(v)) : v \in nearer} : IsObject(w)}
  IN reach[Len(heap)]

\* The library is idle, and what the call reads has not been freed.
Idle == status = "ok" /\ releasing = <<>>
Calls(vs) == Idle /\ \A v \in vs : ~Freed(v)
Reads(v) == {v} \union Range(Elems(v))

\* A call that reads what has been freed has no defined outcome.
UseFreed ==
  /\ Idle
  /\ \E v \in Arrays : \E w \in Reads(v) : Freed(w)
  /\ status' = "usedFreed"
  /\ UNCHANGED <<heap, buffers, held, rc, releasing, lost>>

Refuse ==
  /\ rc' = "Range"
  /\ UNCHANGED <<heap, buffers, held, releasing, status, lost>>

\* How often object id is an element of s.
Occurs(s, id) == Cardinality({i \in DOMAIN s : IsObject(s[i]) /\ s[i].n = id})

\* akw_value_retain of each element of s.
RetainAll(h, s) == [id \in DOMAIN h |-> [h[id] EXCEPT !.refCount = @ + Occurs(s, id)]]

-----------------------------------------------------------------------------
\* Making an object, which the caller retains.

MayAllocate == Len(heap) < MaxObjects

Give(type, obj, buf) ==
  /\ heap' = Append(RetainAll(heap, obj.elems), [obj EXCEPT !.refCount = 1])
  /\ buffers' = Append(buffers, buf)
  /\ held' = held \union {ObjectValue(type, NewId(heap))}
  /\ rc' = "Ok"
  /\ UNCHANGED <<status, lost>>

\* A new array for `need` elements, filled with elems, which may be more.
GiveArray(elems, need) ==
  LET buf == [WithCapacity(need) EXCEPT !.count = Len(elems)]
  IN \/ Refused(need) /\ Refuse
     \/ /\ ~Refused(need) /\ buf.count <= buf.capacity
        /\ Give("Array", ArrayObject(elems), buf)
        /\ UNCHANGED releasing
     \/ /\ ~Refused(need) /\ buf.count > buf.capacity
        /\ status' = "overran"
        /\ UNCHANGED <<heap, buffers, held, rc, releasing, lost>>

\* akw_array_new; akw_array_new_with_capacity.
New(capacity) ==
  /\ Calls({}) /\ MayAllocate
  /\ GiveArray(<<>>, capacity)

\* akw_string_new_from, of a text of this length, which the lexer keeps below
\* the limit.
NewString(length) ==
  /\ Calls({}) /\ MayAllocate
  /\ Give("String", StringObject, [WithCapacity(length) EXCEPT !.count = length])
  /\ UNCHANGED releasing

-----------------------------------------------------------------------------
\* The operations that make a new array of an old one.

Copy(v) ==
  /\ Calls(Reads(v)) /\ MayAllocate
  /\ GiveArray(Elems(v), Len(Elems(v)))

\* Faulty variant: room for the old elements only.
AppendedTight(v, e) ==
  /\ Calls(Reads(v) \union {e}) /\ MayAllocate
  /\ GiveArray(Append(Elems(v), e), Len(Elems(v)))

Appended(v, e) ==
  /\ Calls(Reads(v) \union {e}) /\ MayAllocate
  /\ GiveArray(Append(Elems(v), e), IntSum(Len(Elems(v)), 1))

With(v, i, e) ==
  /\ Calls(Reads(v) \union {e}) /\ MayAllocate
  /\ GiveArray(ReplaceAt(Elems(v), i, e), Len(Elems(v)))

\* akw_array_remove_at also releases the element it leaves out, although the
\* old array still holds it.
Without(v, i) ==
  LET e == Elems(v)[i]
  IN /\ Calls(Reads(v)) /\ MayAllocate
     /\ heap' = Append(RetainAll(heap, RemoveAt(Elems(v), i)),
                       [ArrayObject(RemoveAt(Elems(v), i)) EXCEPT !.refCount = 1])
     /\ buffers' = Append(buffers, [WithCapacity(Len(Elems(v)) - 1) EXCEPT !.count = Len(Elems(v)) - 1])
     /\ held' = held \union {ObjectValue("Array", NewId(heap))}
     /\ releasing' = IF IsObject(e) THEN <<e>> ELSE <<>>
     /\ lost' = IF IsObject(e) THEN [lost EXCEPT ![e.n] = @ + 1] ELSE lost
     /\ rc' = "Ok"
     /\ UNCHANGED status

Concat(v, w) ==
  /\ Calls(Reads(v) \union Reads(w)) /\ MayAllocate
  /\ GiveArray(Elems(v) \o Elems(w), IntSum(Len(Elems(v)), Len(Elems(w))))

-----------------------------------------------------------------------------
\* The operations that change an array in place.

\* v now has these elements; h is the heap with their counts.
Change(v, elems, h, buf, freed) ==
  /\ heap' = [h EXCEPT ![v.n].elems = elems]
  /\ buffers' = [buffers EXCEPT ![v.n] = buf]
  /\ releasing' = ObjectsOf(freed)
  /\ rc' = "Ok"
  /\ UNCHANGED <<held, status, lost>>

Buffer(v) == buffers[v.n]

Reserve(v, capacity) ==
  /\ Calls({v})
  /\ IF CannotHold(Buffer(v), capacity)
     THEN Refuse
     ELSE Change(v, Elems(v), heap, EnsureCapacity(Buffer(v), capacity), <<>>)

\* The caller's part: no array comes to contain itself.
Acyclic(v, e) == v \notin Reachable({e})

InplaceAppend(v, e) ==
  /\ Calls({v, e}) /\ Acyclic(v, e)
  /\ IF CannotHold(Buffer(v), Buffer(v).count + 1)
     THEN Refuse
     ELSE Change(v, Append(Elems(v), e), Retain(heap, e), Extended(Buffer(v), 1), <<>>)

\* Faulty variant: the new element is not retained.
InplaceSetUnretained(v, i, e) ==
  /\ Calls({v, e, Elems(v)[i]}) /\ Acyclic(v, e)
  /\ Change(v, ReplaceAt(Elems(v), i, e), heap, Buffer(v), <<Elems(v)[i]>>)

InplaceSet(v, i, e) ==
  /\ Calls({v, e, Elems(v)[i]}) /\ Acyclic(v, e)
  /\ Change(v, ReplaceAt(Elems(v), i, e), Retain(heap, e), Buffer(v), <<Elems(v)[i]>>)

InplaceRemoveAt(v, i) ==
  /\ Calls({v, Elems(v)[i]})
  /\ Change(v, RemoveAt(Elems(v), i), heap, [Buffer(v) EXCEPT !.count = @ - 1], <<Elems(v)[i]>>)

\* Faulty variant: room is made for one element at a time, and what fits stays.
InplaceConcatPiecewise(v, w) ==
  LET n == Len(Elems(v))
      m == Len(Elems(w))
      fit == IF n + m <= MaxCapacity THEN m ELSE MaxCapacity - n
      more == SubSeq(Elems(w), 1, fit)
  IN /\ Calls({v} \union Reads(w)) /\ \A e \in Range(Elems(w)) : Acyclic(v, e)
     /\ heap' = [RetainAll(heap, more) EXCEPT ![v.n].elems = @ \o more]
     /\ buffers' = [buffers EXCEPT ![v.n] = Extended(@, fit)]
     /\ rc' = IF fit = m THEN "Ok" ELSE "Range"
     /\ UNCHANGED <<held, releasing, status, lost>>

\* Room is made for all elements first; where the sum of the counts wraps
\* around, the first append finds the array full and refuses.
NoRoomFor(v, w) ==
  \/ CannotHold(Buffer(v), IntSum(Len(Elems(v)), Len(Elems(w))))
  \/ CannotHold(Buffer(v), Len(Elems(v)) + 1)

InplaceConcat(v, w) ==
  /\ Calls({v} \union Reads(w)) /\ \A e \in Range(Elems(w)) : Acyclic(v, e)
  /\ IF Elems(w) # <<>> /\ NoRoomFor(v, w)
     THEN Refuse
     ELSE Change(v, Elems(v) \o Elems(w), RetainAll(heap, Elems(w)),
                 Extended(Buffer(v), Len(Elems(w))), <<>>)

Clear(v) ==
  /\ Calls(Reads(v))
  /\ Change(v, <<>>, heap, [Buffer(v) EXCEPT !.count = 0], Elems(v))

-----------------------------------------------------------------------------
\* The caller, and the release it sets off.

\* The caller gives up its reference to what it holds.
Drop(v) ==
  /\ Calls({v})
  /\ held' = held \ {v}
  /\ releasing' = <<v>>
  /\ rc' = "Ok"
  /\ UNCHANGED <<heap, buffers, status, lost>>

\* Faulty variant: an array is freed without a look at its elements.
ReleaseShallow ==
  /\ status = "ok" /\ releasing # <<>>
  /\ IF Freed(Head(releasing))
     THEN status' = "usedFreed" /\ UNCHANGED <<heap, releasing>>
     ELSE /\ heap' = Dropped(heap, Head(releasing))
          /\ releasing' = Tail(releasing)
          /\ UNCHANGED status
  /\ UNCHANGED <<buffers, held, rc, lost>>

\* akw_value_release of one object.
ReleaseObject ==
  LET v == Head(releasing)
  IN /\ status = "ok" /\ releasing # <<>>
     /\ \/ Freed(v) /\ status' = "usedFreed" /\ UNCHANGED <<heap, releasing>>
        \/ /\ ~Freed(v)
           /\ heap' = Dropped(heap, v)
           /\ releasing' = Cascade(heap, v) \o Tail(releasing)
           /\ UNCHANGED status
     /\ UNCHANGED <<buffers, held, rc, lost>>

ArraysInit ==
  /\ heap = <<>> /\ buffers = <<>>
  /\ held = {}
  /\ rc = "Ok"
  /\ releasing = <<>>
  /\ status = "ok"
  /\ lost = [id \in Ids |-> 0]

\* New and Reserve are asked for capacities that can be had; what is refused is an
\* array that gets too long.
Making ==
  \/ NewString(MaxCapacity)
  \/ \E capacity \in Capacities : New(capacity)
  \/ \E v \in Arrays :
       \/ Copy(v)
       \/ \E e \in Elements : Appended(v, e) \/ \E i \in Indices(v) : With(v, i, e)
       \/ \E i \in Indices(v) : Without(v, i)
       \/ \E w \in Arrays : Concat(v, w)

Changing ==
  \E v \in Arrays :
    \/ \E capacity \in Capacities : Reserve(v, capacity)
    \/ \E e \in Elements : InplaceAppend(v, e) \/ \E i \in Indices(v) : InplaceSet(v, i, e)
    \/ \E i \in Indices(v) : InplaceRemoveAt(v, i)
    \/ \E w \in Arrays : InplaceConcat(v, w)
    \/ Clear(v)

ArraysNext ==
  \/ Making \/ Changing \/ ReleaseObject \/ UseFreed
  \/ \E v \in held : Drop(v)

ArraysSpec == ArraysInit /\ [][ArraysNext]_arrayVars

-----------------------------------------------------------------------------
\* Invariants.

\* Every object's storage has a capacity the code can reach by doubling, and
\* holds what is counted: no count passes its capacity.
StorageOK ==
  /\ Len(buffers) = Len(heap)
  /\ \A id \in DOMAIN heap :
       /\ heap[id] \in Objects
       /\ buffers[id] \in Buffers
       /\ buffers[id].count <= buffers[id].capacity
       /\ heap[id].elems # <<>> => buffers[id].count = Len(heap[id].elems)

\* Where object id is an element of a live array.
Places(h, id) ==
  UNION {{<<o, i>> : i \in {j \in DOMAIN h[o].elems : IsObject(h[o].elems[j]) /\ h[o].elems[j].n = id}} :
           o \in {p \in DOMAIN h : h[p].live}}

\* What holds object id: the caller, elements of live arrays, pending releases.
Holders(id) ==
  Cardinality({v \in held : v.n = id}) + Cardinality(Places(heap, id)) + Occurs(releasing, id)

\* Every operation, whether it shares, copies, replaces or fails, counts each
\* object once per holder, but for the references that akw_array_remove_at gives
\* back without having held them (array.c:212).
CountsExact ==
  status = "ok" =>
    \A id \in DOMAIN heap :
      heap[id].refCount = (IF heap[id].live THEN Holders(id) - lost[id] ELSE 0)

\* Nothing that has been freed is used again as long as akw_array_remove_at has
\* not been called on an element that is an object.
FreedOnlyByRemoveAt == status = "usedFreed" => \E id \in Ids : lost[id] > 0

\* No operation writes behind the end of an array: the only one that can is
\* akw_array_concat, when the sum of the counts is more than an int holds.
OverrunsOnlyByOverflow ==
  [][status' = "overran" =>
       \E v, w \in Arrays : Len(Elems(v)) + Len(Elems(w)) > IntMax]_arrayVars

\* What the caller can reach and has not been freed.
Contents == [v \in {w \in Reachable(held) : ~Freed(w)} |-> Elems(v)]

Promise == INSTANCE AkwSequences WITH
  Handles <- {ObjectValue(type, id) : type \in {"Array", "String"}, id \in Ids},
  MaxLength <- MaxCapacity, contents <- Contents, owned <- held, outcome <- rc

\* The counted arrays behave as garbage-collected sequences: what the caller can
\* reach is there and what it cannot is not seen, copies are independent, shared
\* arrays change for everybody, and a call that is refused changes nothing; up
\* to the first call of akw_array_remove_at that gives back a reference.
ImplementsSequences ==
  Promise!Init /\ [][(\E id \in Ids : lost'[id] > 0) \/ Promise!Next]_<<Contents, held, rc>>

=============================================================================
