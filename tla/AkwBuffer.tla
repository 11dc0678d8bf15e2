----------------------------- MODULE AkwBuffer -----------------------------
(***************************************************************************)
(* Growing storage: the arithmetic that AkwBuffer (src/buffer.c),          *)
(* AkwVector (include/akwan/vector.h) and AkwString (src/string.c) share.  *)
(*                                                                         *)
(* A buffer is its capacity and its count.  Capacities start at            *)
(* AKW_MIN_CAPACITY and double until what is asked for fits; what is asked *)
(* for is an int, so that the sum of two counts may wrap around.           *)
(***************************************************************************)
EXTENDS Integers

CONSTANTS
  MinCapacity,  \* AKW_MIN_CAPACITY, 8 in the code
  Doublings     \* how often it doubles up to AKW_MAX_CAPACITY, 27 in the code

ASSUME CapacityAssumption == MinCapacity \in Nat \ {0} /\ Doublings \in Nat

\* The smallest capacity, shifted left k times.
Doubled[k \in 0..Doublings] == IF k = 0 THEN MinCapacity ELSE 2 * Doubled[k - 1]
Capacities == {Doubled[k] : k \in 0..Doublings}

\* AKW_MAX_CAPACITY, and INT_MAX: the code's 2^30 and 2^31 - 1.
MaxCapacity == Doubled[Doublings]
IntMax == 2 * MaxCapacity - 1

Buffers == [capacity : Capacities, count : 0..MaxCapacity]

\* The sum of two ints, as the machine adds them.
IntSum(a, b) == IF a + b > IntMax THEN a + b - 2 * (IntMax + 1) ELSE a + b

\* while (capacity < need) capacity <<= 1; only for a need that is not refused.
Grown(capacity, need) ==
  CHOOSE c \in Capacities :
    /\ c >= capacity /\ c >= need
    /\ \A d \in Capacities : d >= capacity /\ d >= need => c <= d

Refused(need) == need > MaxCapacity

EmptyBuffer == [capacity |-> MinCapacity, count |-> 0]
WithCapacity(need) == [capacity |-> Grown(MinCapacity, need), count |-> 0]

\* A need that the buffer already meets is never refused.
CannotHold(buf, need) == need > buf.capacity /\ Refused(need)

\* Faulty variant: it grows one element too late.
EnsureCapacityLate(buf, need) ==
  IF need <= buf.capacity + 1 THEN buf ELSE [buf EXCEPT !.capacity = Grown(@, need)]

EnsureCapacity(buf, need) ==
  IF need <= buf.capacity THEN buf ELSE [buf EXCEPT !.capacity = Grown(@, need)]

\* akw_buffer_write, akw_vector_append: n more elements, if they can be held.
Extended(buf, n) ==
  [EnsureCapacity(buf, IntSum(buf.count, n)) EXCEPT !.count = @ + n]

=============================================================================
