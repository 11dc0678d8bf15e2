---------------------------- MODULE AkwSequences ----------------------------
(***************************************************************************)
(* What the array library (src/array.c) promises its caller: arrays are    *)
(* bounded sequences of values.  There are no reference counts and no      *)
(* capacities here: an array exists as long as the caller can get to it    *)
(* from what it owns, and no longer.  A copying operation makes a new      *)
(* array and touches no other; an in-place one is seen by everybody who    *)
(* shares the array.  What is too long is refused and nothing happens.     *)
(***************************************************************************)
EXTENDS Integers, Sequences, SequencesExt

CONSTANTS
  Handles,   \* what arrays and strings are known by
  Plain,     \* the values that are neither
  MaxLength  \* the length of the longest array

VARIABLES
  contents,  \* contents[h]: the elements of h; a string has none
  owned,     \* the handles the caller holds
  outcome    \* how the last call ended

vars == <<contents, owned, outcome>>

Arrays == {h \in owned : h.type = "Array"}
Elements == owned \union Plain

\* The handles that can be reached in c from those in `from`, inclusive.
Reachable(c, from) ==
  LET reach[n \in 0..Cardinality(DOMAIN c)] ==
        IF n = 0 THEN from
        ELSE LET nearer == reach[n - 1]
             IN nearer \union (DOMAIN c \intersect UNION {Range(c[h]) : h \in nearer})
  IN reach[Cardinality(DOMAIN c)]

\* Only what the owner can reach exists.
Keep(c, own) == contents' = Restrict(c, Reachable(c, own))

Init == contents = <<>> /\ owned = {} /\ outcome = "Ok"

-----------------------------------------------------------------------------

Refuse == outcome' = "Range" /\ UNCHANGED <<contents, owned>>

\* The caller gets a new object.
Produce(type, s) ==
  IF Len(s) > MaxLength
  THEN Refuse
  ELSE /\ outcome' = "Ok"
       /\ \E h \in Handles :
            /\ h.type = type
            /\ owned' = owned \union {h}
            /\ h \notin DOMAIN contents
            /\ contents' = [k \in DOMAIN contents \union {h} |-> IF k = h THEN s ELSE contents[k]]

\* The elements of h become s.
Become(h, s) ==
  IF Len(s) > MaxLength
  THEN Refuse
  ELSE /\ outcome' = "Ok"
       /\ UNCHANGED owned
       /\ Keep([contents EXCEPT ![h] = s], owned)

Create == \E type \in {"Array", "String"} : Produce(type, <<>>)

\* The caller gives h up.
Drop(h) ==
  /\ owned' = owned \ {h}
  /\ Keep(contents, owned')
  /\ outcome' = "Ok"

\* What an operation on h may make of its elements.
Changed(h) ==
  LET s == contents[h]
  IN {s, <<>>}
     \union {Append(s, e) : e \in Elements}
     \union {RemoveAt(s, i) : i \in DOMAIN s}
     \union {ReplaceAt(s, i, e) : i \in DOMAIN s, e \in Elements}
     \union {s \o contents[other] : other \in Arrays}

\* Every operation comes in two forms: one makes a new array, one changes h.
Next ==
  \/ Create
  \/ \E h \in owned : Drop(h)
  \/ \E h \in Arrays : \E s \in Changed(h) : Produce("Array", s) \/ Become(h, s)

Spec == Init /\ [][Next]_vars

=============================================================================
