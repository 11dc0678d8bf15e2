------------------------------ MODULE AkwValue ------------------------------
(***************************************************************************)
(* Dynamically typed values and the reference-counted heap they live in    *)
(* (include/akwan/value.h, src/value.c, src/string.c, src/range.c and the  *)
(* object part of src/array.c).                                            *)
(*                                                                         *)
(* An AkwValue is a type tag with one payload: the number, the boolean,    *)
(* the address of a heap object (its index in the heap) or, for a Ref, the *)
(* index of the VM stack cell it points to.  Numbers are kept only as far  *)
(* as the VM tells them apart: an integral double is "Int" with its value, *)
(* every other double (a fraction, an infinity, a NaN) is "Number".        *)
(*                                                                         *)
(* The heap is the sequence of all objects ever allocated.  free() clears  *)
(* `live` and leaves the object in place, so that a later use of a stale   *)
(* address can be seen.                                                    *)
(***************************************************************************)
EXTENDS Integers, Sequences

ObjectTypes == {"String", "Range", "Array"}
NumberTypes == {"Int", "Number"}

\* "Junk" is what an uninitialised stack cell holds: not a type of value.h.
ValueTypes == {"Nil", "Bool", "Ref", "Junk"} \union ObjectTypes \union NumberTypes

Values == [type : ValueTypes, n : Int]

NilValue == [type |-> "Nil", n |-> 0]
BoolValue(b) == [type |-> "Bool", n |-> IF b THEN 1 ELSE 0]
IntValue(i) == [type |-> "Int", n |-> i]
FractionValue == [type |-> "Number", n |-> 0]
RefValue(cell) == [type |-> "Ref", n |-> cell]
ObjectValue(type, id) == [type |-> type, n |-> id]
JunkValue == [type |-> "Junk", n |-> 0]

IsObject(v) == v.type \in ObjectTypes
IsNumber(v) == v.type \in NumberTypes
IsInt(v) == v.type = "Int"

-----------------------------------------------------------------------------
\* Objects: a string keeps nothing the VM reads, a range its bounds, an array
\* its elements.  A fresh object has refCount 0 (akw_object_init).

StringObject == [live |-> TRUE, refCount |-> 0, start |-> 0, end |-> 0, elems |-> <<>>]
RangeObject(start, end) == [StringObject EXCEPT !.start = start, !.end = end]
ArrayObject(elems) == [StringObject EXCEPT !.elems = elems]

Objects == [live : BOOLEAN, refCount : Int, start : Int, end : Int, elems : Seq(Values)]

\* The objects among the elements of s, in their order.
ObjectsOf(s) ==
  LET upTo[i \in 0..Len(s)] ==
        IF i = 0 THEN <<>>
        ELSE LET before == upTo[i - 1]
             IN IF IsObject(s[i]) THEN Append(before, s[i]) ELSE before
  IN upTo[Len(s)]

\* akw_value_retain: only an object has a count.
Retain(h, v) ==
  IF IsObject(v) THEN [h EXCEPT ![v.n].refCount = @ + 1] ELSE h

\* The address the next allocation gets.
NewId(h) == Len(h) + 1

RangeCount(obj) == IF obj.start < obj.end THEN obj.end - obj.start ELSE 0

\* akw_value_release of an object: one reference less; at zero the object is
\* freed, and an array first releases its elements, which the caller does.
Dropped(h, v) ==
  LET refs == h[v.n].refCount - 1
  IN [h EXCEPT ![v.n].refCount = refs, ![v.n].live = (refs # 0)]

\* The values whose release follows from releasing v.
Cascade(h, v) ==
  IF h[v.n].refCount = 1 THEN ObjectsOf(h[v.n].elems) ELSE <<>>

=============================================================================
