-------------------------- MODULE AkwBufferProofs --------------------------
(***************************************************************************)
(* The arithmetic of growing storage, for every smallest capacity and      *)
(* every number of doublings: that the loop ends in a capacity which is    *)
(* large enough, and what that leaves of a sum that may wrap around.       *)
(***************************************************************************)
EXTENDS AkwBuffer, AkwLemmas

\* The capacities: the smallest, and each twice the one before it.
LEMMA DoubledByOne ==
  /\ Doubled \in [0..Doublings -> Nat]
  /\ Doubled[0] = MinCapacity
  /\ \A k \in 1..Doublings : Doubled[k] = 2 * Doubled[k - 1]
<1>. DEFINE step == [n \in Nat |-> [x \in Nat |-> 2 * x]]
<1>1. Doublings \in Nat /\ MinCapacity \in Nat
  BY CapacityAssumption
<1>2. step \in Steps(Nat)
  BY DEF Steps
<1>3. \E f : Unrolled(f, Nat, MinCapacity, step, Doublings)
  <2>. HIDE DEF step
  <2>. QED  BY <1>1, <1>2, RecursionExists
<1>4. PICK f : Unrolled(f, Nat, MinCapacity, step, Doublings)
  BY <1>3
<1>5. /\ f \in [0..Doublings -> Nat] /\ f[0] = MinCapacity
      /\ \A k \in 1..Doublings : f[k] = 2 * f[k - 1]
  <2>1. \A k \in 1..Doublings : f[k - 1] \in Nat /\ k \in Nat
    BY <1>1, <1>4 DEF Unrolled
  <2>. QED  BY <1>4, <2>1 DEF Unrolled
<1>6. f = [k \in 0..Doublings |-> IF k = 0 THEN MinCapacity ELSE 2 * f[k - 1]]
  BY <1>1, <1>5
<1>7. Doubled = [k \in 0..Doublings |-> IF k = 0 THEN MinCapacity ELSE 2 * Doubled[k - 1]]
  BY <1>6 DEF Doubled
<1>8. ASSUME NEW k \in 0..Doublings  PROVE Doubled[k] = f[k]
  <2>. DEFINE Same == {n \in Nat : n <= Doublings => Doubled[n] = f[n]}
  <2>1. 0 \in Same
    BY <1>1, <1>5, <1>7
  <2>2. ASSUME NEW n \in Nat, n \in Same  PROVE n + 1 \in Same
    <3>. SUFFICES ASSUME n + 1 <= Doublings  PROVE Doubled[n + 1] = f[n + 1]
      OBVIOUS
    <3>1. n + 1 \in 1..Doublings /\ n + 1 \in 0..Doublings /\ n + 1 # 0 /\ (n + 1) - 1 = n
      BY <1>1
    <3>2. Doubled[n + 1] = 2 * Doubled[n]
      BY <1>7, <3>1
    <3>3. f[n + 1] = 2 * f[n]
      BY <1>5, <3>1
    <3>4. n <= Doublings /\ Doubled[n] = f[n]
      BY <1>1, <2>2
    <3>. QED  BY <3>2, <3>3, <3>4
  <2>3. k \in Nat /\ k <= Doublings
    BY <1>1
  <2>4. \A n \in Nat : n \in Same
    <3>. HIDE DEF Same
    <3>. QED  BY <2>1, <2>2, NatSetInduction
  <2>. QED  BY <2>3, <2>4
<1>9. Doubled = f
  BY <1>5, <1>7, <1>8
<1>. QED  BY <1>5, <1>9

\* A later doubling is larger: at least twice as large.
LEMMA DoubledGrows ==
  ASSUME NEW j \in 0..Doublings, NEW k \in 0..Doublings, j < k
  PROVE  2 * Doubled[j] <= Doubled[k]
<1>. DEFINE Good == {n \in Nat : j + 1 + n <= Doublings => 2 * Doubled[j] <= Doubled[j + 1 + n]}
<1>1. Doublings \in Nat
  BY CapacityAssumption
<1>2. 0 \in Good
  <2>. SUFFICES ASSUME j + 1 <= Doublings  PROVE 2 * Doubled[j] <= Doubled[j + 1]
    BY <1>1
  <2>1. j + 1 \in 1..Doublings /\ (j + 1) - 1 = j
    BY <1>1
  <2>2. Doubled[j + 1] = 2 * Doubled[(j + 1) - 1] /\ Doubled[j + 1] \in Nat
    BY <2>1, DoubledByOne
  <2>. QED  BY <2>1, <2>2
<1>3. ASSUME NEW n \in Nat, n \in Good  PROVE n + 1 \in Good
  <2>. SUFFICES ASSUME j + 1 + (n + 1) <= Doublings
                PROVE  2 * Doubled[j] <= Doubled[j + 1 + (n + 1)]
    OBVIOUS
  <2>1. /\ j + 1 + (n + 1) \in 1..Doublings /\ (j + 1 + (n + 1)) - 1 = j + 1 + n
        /\ j + 1 + n \in 0..Doublings /\ j \in 0..Doublings
    BY <1>1
  <2>2. Doubled[j + 1 + (n + 1)] = 2 * Doubled[j + 1 + n]
    BY <2>1, DoubledByOne
  <2>3. Doubled[j + 1 + n] \in Nat /\ Doubled[j] \in Nat
    BY <2>1, DoubledByOne
  <2>. QED  BY <1>1, <1>3, <2>1, <2>2, <2>3
<1>4. k - j - 1 \in Good
  <2>1. k - j - 1 \in Nat
    BY <1>1
  <2>. HIDE DEF Good
  <2>. QED  BY <2>1, <1>2, <1>3, NatSetInduction
<1>. QED  BY <1>1, <1>4

\* The smallest capacity is one, the largest is one, and the others are between.
LEMMA CapacityBounds ==
  /\ MinCapacity \in Capacities /\ MaxCapacity \in Capacities
  /\ \A c \in Capacities : c \in Nat \ {0} /\ MinCapacity <= c /\ c <= MaxCapacity
<1>1. Doublings \in Nat /\ MinCapacity \in Nat \ {0}
  BY CapacityAssumption
<1>2. Doubled[0] = MinCapacity /\ 0 \in 0..Doublings /\ Doublings \in 0..Doublings
  BY <1>1, DoubledByOne
<1>3. MinCapacity \in Capacities /\ MaxCapacity \in Capacities
  BY <1>2 DEF Capacities, MaxCapacity
<1>4. ASSUME NEW k \in 0..Doublings
      PROVE  Doubled[k] \in Nat /\ MinCapacity <= Doubled[k] /\ Doubled[k] <= MaxCapacity
  <2>1. Doubled[k] \in Nat /\ MaxCapacity \in Nat
    BY <1>2, DoubledByOne DEF MaxCapacity
  <2>2. k = 0 \/ 2 * Doubled[0] <= Doubled[k]
    BY <1>1, DoubledGrows
  <2>3. k = Doublings \/ 2 * Doubled[k] <= MaxCapacity
    BY <1>1, DoubledGrows DEF MaxCapacity
  <2>. QED  BY <1>1, <1>2, <2>1, <2>2, <2>3 DEF MaxCapacity
<1>5. ASSUME NEW c \in Capacities
      PROVE  c \in Nat \ {0} /\ MinCapacity <= c /\ c <= MaxCapacity
  <2>1. PICK k \in 0..Doublings : c = Doubled[k]
    BY DEF Capacities
  <2>2. c \in Nat /\ MinCapacity <= c /\ c <= MaxCapacity
    BY <1>4, <2>1
  <2>. QED  BY <1>1, <2>2
<1>. QED  BY <1>3, <1>5

\* Growing finds a capacity: the least that is neither below the old one nor
\* below what is asked for.
LEMMA GrownIsLeast ==
  ASSUME NEW capacity \in Capacities, NEW need \in Int, need <= MaxCapacity
  PROVE  /\ Grown(capacity, need) \in Capacities
         /\ capacity <= Grown(capacity, need) /\ need <= Grown(capacity, need)
         /\ \A d \in Capacities : d >= capacity /\ d >= need => Grown(capacity, need) <= d
<1>. DEFINE Enough == {c \in Capacities : c >= capacity /\ c >= need}
<1>1. Enough \subseteq Nat /\ MaxCapacity \in Enough
  BY CapacityBounds
<1>2. PICK c \in Enough : \A d \in Enough : c <= d
  <2>. HIDE DEF Enough
  <2>. QED  BY <1>1, LeastMember
<1>. QED  BY <1>2 DEF Grown

-----------------------------------------------------------------------------

\* The closed form of the growth is the code's loop: a capacity that is enough is
\* left alone, and one that is not is shifted left and looked at again; there is
\* a next one, for what passes AKW_MAX_CAPACITY has been refused before.
THEOREM GrownIsTheLoop ==
  \A capacity \in Capacities, need \in Int :
    ~Refused(need) =>
      IF need <= capacity
      THEN Grown(capacity, need) = capacity
      ELSE 2 * capacity \in Capacities /\ Grown(capacity, need) = Grown(2 * capacity, need)
<1>. SUFFICES ASSUME NEW capacity \in Capacities, NEW need \in Int, need <= MaxCapacity
     PROVE  IF need <= capacity
            THEN Grown(capacity, need) = capacity
            ELSE 2 * capacity \in Capacities /\ Grown(capacity, need) = Grown(2 * capacity, need)
  BY CapacityBounds DEF Refused
<1>. DEFINE c == Grown(capacity, need)
<1>1. /\ c \in Capacities /\ capacity <= c /\ need <= c
      /\ \A d \in Capacities : d >= capacity /\ d >= need => c <= d
  BY GrownIsLeast
<1>2. \A d \in Capacities : d \in Nat \ {0}
  BY CapacityBounds
<1>3. CASE need <= capacity
  BY <1>1, <1>2, <1>3
<1>4. CASE ~(need <= capacity)
  <2>1. PICK k \in 0..Doublings : capacity = Doubled[k]
    BY DEF Capacities
  <2>2. k # Doublings
    BY <1>2, <1>4, <2>1, CapacityBounds DEF MaxCapacity
  <2>3. k + 1 \in 1..Doublings /\ k + 1 \in 0..Doublings /\ (k + 1) - 1 = k
    BY <2>2, CapacityAssumption
  <2>4. Doubled[k + 1] = 2 * capacity
    BY <2>1, <2>3, DoubledByOne
  <2>5. 2 * capacity \in Capacities
    BY <2>3, <2>4 DEF Capacities
  <2>6. ASSUME NEW d \in Capacities, d > capacity  PROVE d >= 2 * capacity
    <3>1. PICK m \in 0..Doublings : d = Doubled[m]
      BY DEF Capacities
    <3>2. m # k /\ ~(m < k)
      <4>1. m < k => 2 * d <= capacity
        BY <2>1, <3>1, DoubledGrows
      <4>. QED  BY <1>2, <2>1, <2>6, <3>1, <4>1
    <3>3. k < m
      BY <3>2, CapacityAssumption
    <3>. QED  BY <2>1, <3>1, <3>3, DoubledGrows
  <2>. DEFINE c2 == Grown(2 * capacity, need)
  <2>7. /\ c2 \in Capacities /\ 2 * capacity <= c2 /\ need <= c2
        /\ \A d \in Capacities : d >= 2 * capacity /\ d >= need => c2 <= d
    BY <2>5, GrownIsLeast
  <2>8. c > capacity
    BY <1>1, <1>2, <1>4
  <2>9. c >= 2 * capacity
    BY <1>1, <2>6, <2>8
  <2>10. c2 <= c
    BY <1>1, <2>7, <2>9
  <2>11. c <= c2
    BY <1>1, <1>2, <2>7
  <2>12. c = c2
    <3>1. c \in Nat /\ c2 \in Nat
      BY <1>1, <1>2, <2>7
    <3>. HIDE DEF c, c2
    <3>. QED  BY <3>1, <2>10, <2>11
  <2>. QED  BY <1>4, <2>5, <2>12
<1>. QED  BY <1>3, <1>4

-----------------------------------------------------------------------------
\* What the users of a buffer rely on.

\* A buffer whose count its capacity holds.
Holding == {buf \in Buffers : buf.count <= buf.capacity}

\* A new buffer of the smallest capacity.
LEMMA EmptyHolds == EmptyBuffer \in Holding
  BY CapacityBounds DEF EmptyBuffer, Holding, Buffers

\* A new buffer of the capacity that was asked for, with a count that fits.
LEMMA NewBufferHolds ==
  ASSUME NEW need \in Int, ~Refused(need), NEW n \in Nat,
         n <= [WithCapacity(need) EXCEPT !.count = n].capacity
  PROVE  [WithCapacity(need) EXCEPT !.count = n] \in Holding
<1>1. MinCapacity \in Capacities /\ MinCapacity \in Nat /\ MaxCapacity \in Nat
  BY CapacityBounds
<1>. DEFINE c == Grown(MinCapacity, need)
<1>2. c \in Capacities /\ need <= c /\ need <= MaxCapacity
  BY <1>1, GrownIsLeast DEF Refused
<1>3. c \in Nat /\ c <= MaxCapacity
  BY <1>2, CapacityBounds
<1>5. [WithCapacity(need) EXCEPT !.count = n] = [capacity |-> c, count |-> n]
  BY DEF WithCapacity
<1>6. n \in 0..MaxCapacity /\ n <= c
  BY <1>1, <1>3, <1>5
<1>7. [capacity |-> c, count |-> n] \in Holding
  <2>. HIDE DEF c
  <2>. QED  BY <1>2, <1>6 DEF Holding, Buffers
<1>. QED  BY <1>5, <1>7

\* The room is there, the count is unchanged, and the capacity does not shrink.
LEMMA EnsureHolds ==
  ASSUME NEW buf \in Holding, NEW need \in Int, ~CannotHold(buf, need)
  PROVE  /\ EnsureCapacity(buf, need) \in Holding
         /\ EnsureCapacity(buf, need).count = buf.count
         /\ need <= EnsureCapacity(buf, need).capacity
         /\ buf.capacity <= EnsureCapacity(buf, need).capacity
<1>1. /\ buf.capacity \in Capacities /\ buf.count \in 0..MaxCapacity
      /\ buf.count <= buf.capacity /\ buf.capacity \in Nat
      /\ buf = [capacity |-> buf.capacity, count |-> buf.count]
  BY CapacityBounds DEF Holding, Buffers
<1>2. CASE need <= buf.capacity
  BY <1>1, <1>2 DEF EnsureCapacity
<1>3. CASE ~(need <= buf.capacity)
  <2>. DEFINE c == Grown(buf.capacity, need)
  <2>1. need <= MaxCapacity
    BY <1>1, <1>3, CapacityBounds DEF CannotHold, Refused
  <2>2. c \in Capacities /\ buf.capacity <= c /\ need <= c
    BY <1>1, <2>1, GrownIsLeast
  <2>3. EnsureCapacity(buf, need) = [capacity |-> c, count |-> buf.count]
    BY <1>1, <1>3 DEF EnsureCapacity
  <2>4. c \in Nat /\ buf.count \in Nat /\ buf.count <= c
    <3>1. c \in Nat
      BY <2>2, CapacityBounds
    <3>. HIDE DEF c
    <3>. QED  BY <1>1, <2>2, <3>1
  <2>. HIDE DEF c
  <2>. QED  BY <1>1, <2>2, <2>3, <2>4 DEF Holding, Buffers
<1>. QED  BY <1>2, <1>3

\* The sum of two counts that fit wraps around only if both are AKW_MAX_CAPACITY.
LEMMA SumOfCounts ==
  ASSUME NEW a \in 0..MaxCapacity, NEW b \in 0..MaxCapacity
  PROVE  /\ IntSum(a, b) \in Int
         /\ a + b <= IntMax => IntSum(a, b) = a + b
         /\ a + b > IntMax => a = MaxCapacity /\ b = MaxCapacity /\ IntSum(a, b) < 0
<1>1. MaxCapacity \in Nat \ {0}
  BY CapacityBounds
<1>. QED  BY <1>1 DEF IntSum, IntMax

\* n more elements: what is not refused has not wrapped around.
LEMMA ExtendedHolds ==
  ASSUME NEW buf \in Holding, NEW n \in 0..MaxCapacity, ~CannotHold(buf, buf.count + n)
  PROVE  Extended(buf, n) \in Holding /\ Extended(buf, n).count = buf.count + n
<1>. DEFINE grown == EnsureCapacity(buf, buf.count + n)
<1>1. buf.count \in 0..MaxCapacity
  BY DEF Holding, Buffers
<1>2. IntSum(buf.count, n) = buf.count + n /\ buf.count + n \in Int
  <2>1. buf.capacity \in Nat /\ buf.capacity <= MaxCapacity /\ MaxCapacity \in Nat \ {0}
    BY CapacityBounds DEF Holding, Buffers
  <2>2. buf.count + n <= MaxCapacity
    BY <1>1, <2>1 DEF CannotHold, Refused
  <2>3. buf.count + n <= IntMax
    BY <1>1, <2>1, <2>2 DEF IntMax
  <2>. QED  BY <1>1, <2>3, SumOfCounts
<1>3. /\ grown \in Holding /\ grown.count = buf.count
      /\ buf.count + n <= grown.capacity
  BY <1>2, EnsureHolds
<1>4. /\ grown = [capacity |-> grown.capacity, count |-> buf.count]
      /\ grown.capacity \in Capacities /\ grown.capacity \in Nat
      /\ grown.capacity <= MaxCapacity
  <2>. HIDE DEF grown
  <2>. QED  BY <1>3, CapacityBounds DEF Holding, Buffers
<1>5. Extended(buf, n) = [grown EXCEPT !.count = @ + n]
  BY <1>2 DEF Extended
<1>6. Extended(buf, n) = [capacity |-> grown.capacity, count |-> buf.count + n]
  <2>. HIDE DEF grown
  <2>. QED  BY <1>3, <1>4, <1>5
<1>7. buf.count + n \in 0..MaxCapacity
  <2>1. MaxCapacity \in Nat
    BY CapacityBounds
  <2>. HIDE DEF grown
  <2>. QED  BY <1>1, <1>3, <1>4, <2>1
<1>. HIDE DEF grown
<1>. QED  BY <1>3, <1>4, <1>6, <1>7 DEF Holding, Buffers

=============================================================================
