------------------------------ MODULE AkwLemmas ------------------------------
(***************************************************************************)
(* Facts about numbers, sets and sequences that the proofs about the       *)
(* compiler, the VM and the library share.  Induction is over sets of      *)
(* numbers, as a set can be named in a leaf where a predicate cannot.      *)
(***************************************************************************)
EXTENDS Integers, Sequences, FiniteSets, TLAPS, FiniteSetTheorems, SequenceTheorems,
        WellFoundedInduction

\* How many elements of s are in M.
Occurrences(s, M) == Cardinality({k \in DOMAIN s : s[k] \in M})

\* The numbers of T, each moved by d.
Shifted(T, d) == {k + d : k \in T}

-----------------------------------------------------------------------------
\* Numbers.

\* A set of numbers that is not empty has a least element.
LEMMA LeastMember ==
  ASSUME NEW U, U \subseteq Nat, U # {}
  PROVE  \E u \in U : \A v \in U : u <= v
<1>1. PICK u \in U : \A v \in U : ~(<<v, u>> \in OpToRel(<, Nat))
  BY NatLessThanWellFounded, WFMin
<1>2. \A v \in U : ~(v < u)
  BY <1>1 DEF OpToRel
<1>. QED  BY <1>2

\* A set that holds 0, and the successor of every number it holds, holds them all.
LEMMA NatSetInduction ==
  ASSUME NEW U, 0 \in U, \A n \in Nat : n \in U => n + 1 \in U
  PROVE  \A n \in Nat : n \in U
<1>. DEFINE Missing == Nat \ U
<1>. SUFFICES ASSUME Missing # {}  PROVE FALSE
  OBVIOUS
<1>1. Missing \subseteq Nat
  OBVIOUS
<1>2. PICK m \in Missing : \A v \in Missing : m <= v
  <2>. HIDE DEF Missing
  <2>. QED  BY <1>1, LeastMember
<1>3. m \in Nat /\ m # 0 /\ m \notin U
  OBVIOUS
<1>4. m - 1 \in Nat /\ m - 1 \in U
  BY <1>2, <1>3
<1>. QED  BY <1>3, <1>4

\* A set of indices up to a bound that is not empty has a last element.
LEMMA LastIndex ==
  ASSUME NEW n \in Nat, NEW T, T \subseteq 1..n, T # {}
  PROVE  \E i \in T : \A j \in T : j <= i
<1>. DEFINE U == {n - i : i \in T}
<1>1. U \subseteq Nat /\ U # {}
  <2>1. PICK i \in T : TRUE
    OBVIOUS
  <2>2. n - i \in U
    BY <2>1
  <2>3. \A k \in T : n - k \in Nat
    OBVIOUS
  <2>. QED  BY <2>2, <2>3
<1>2. PICK u \in U : \A v \in U : u <= v
  <2>. HIDE DEF U
  <2>. QED  BY <1>1, LeastMember
<1>3. PICK i \in T : u = n - i
  OBVIOUS
<1>4. ASSUME NEW j \in T  PROVE j <= i
  <2>1. n - j \in U
    OBVIOUS
  <2>. QED  BY <2>1, <1>2, <1>3
<1>. QED  BY <1>4

\* What takes the value before the n-th to the n-th.
Steps(S) == [Nat -> [S -> S]]

\* The values from the 0-th to the m-th.
Unrolled(f, S, zero, step, m) ==
  f \in [0..m -> S] /\ f[0] = zero /\ \A i \in 1..m : f[i] = step[i][f[i - 1]]

\* A function on 0..m that is defined by its first value, and each of the others
\* by the one before it, exists: the existence that the recursive functions of
\* the model need.
LEMMA RecursionExists ==
  ASSUME NEW S, NEW zero \in S, NEW step \in Steps(S), NEW m \in Nat
  PROVE  \E f : Unrolled(f, S, zero, step, m)
<1>. USE DEF Steps
<1>. DEFINE Solves(f, n) == f[0] = zero /\ \A i \in 1..n : f[i] = step[i][f[i - 1]]
            U == {n \in Nat : \E f \in [0..n -> S] : Solves(f, n)}
<1>1. 0 \in U
  <2>1. Solves([i \in 0..0 |-> zero], 0) /\ [i \in 0..0 |-> zero] \in [0..0 -> S]
    OBVIOUS
  <2>. QED  BY <2>1
<1>2. ASSUME NEW n \in Nat, n \in U  PROVE n + 1 \in U
  <2>1. PICK f \in [0..n -> S] : Solves(f, n)
    BY <1>2
  <2>. DEFINE next == step[n + 1][f[n]]
              g == [i \in 0..n + 1 |-> IF i = n + 1 THEN next ELSE f[i]]
  <2>2. next \in S
    OBVIOUS
  <2>3. g \in [0..n + 1 -> S]
    <3>1. ASSUME NEW i \in 0..n + 1, i # n + 1  PROVE f[i] \in S
      BY <3>1
    <3>. HIDE DEF next
    <3>. QED  BY <2>2, <3>1
  <2>4. g[n + 1] = next /\ \A i \in 0..n : g[i] = f[i]
    OBVIOUS
  <2>5. Solves(g, n + 1)
    <3>1. g[0] = zero
      BY <2>1, <2>4
    <3>2. ASSUME NEW i \in 1..n + 1  PROVE g[i] = step[i][g[i - 1]]
      <4>1. CASE i = n + 1
        BY <2>4, <4>1
      <4>2. CASE i \in 1..n
        BY <2>1, <2>4, <4>2
      <4>. QED  BY <4>1, <4>2
    <3>. QED  BY <3>1, <3>2
  <2>6. \E h \in [0..n + 1 -> S] : Solves(h, n + 1)
    <3>. HIDE DEF g, Solves
    <3>. QED  BY <2>3, <2>5
  <2>. QED  BY <2>6
<1>3. m \in U
  <2>. HIDE DEF U
  <2>. QED  BY <1>1, <1>2, NatSetInduction
<1>. QED  BY <1>3 DEF Unrolled

-----------------------------------------------------------------------------
\* Counting in sequences.

\* A set of indices of a sequence is finite.
LEMMA IndicesFinite ==
  ASSUME NEW S, NEW s \in Seq(S), NEW T, T \subseteq DOMAIN s
  PROVE  IsFiniteSet(T) /\ Cardinality(T) \in Nat
<1>1. DOMAIN s = 1..Len(s) /\ Len(s) \in Nat
  BY LenProperties
<1>2. IsFiniteSet(1..Len(s))
  BY <1>1, FS_Interval
<1>. QED  BY <1>1, <1>2, FS_Subset, FS_CardinalityType

LEMMA OccurrencesType ==
  ASSUME NEW S, NEW s \in Seq(S), NEW M
  PROVE  Occurrences(s, M) \in Nat
BY IndicesFinite DEF Occurrences

\* Nothing occurs in a sequence without elements of M.
LEMMA OccurrencesNone ==
  ASSUME NEW s, NEW M, \A k \in DOMAIN s : s[k] \notin M
  PROVE  Occurrences(s, M) = 0
<1>1. {k \in DOMAIN s : s[k] \in M} = {}
  OBVIOUS
<1>. QED  BY <1>1, FS_EmptySet DEF Occurrences

LEMMA OccurrencesOne ==
  ASSUME NEW s, NEW M, NEW i \in DOMAIN s, \A k \in DOMAIN s : s[k] \in M <=> k = i
  PROVE  Occurrences(s, M) = 1
<1>1. {k \in DOMAIN s : s[k] \in M} = {i}
  OBVIOUS
<1>. QED  BY <1>1, FS_Singleton DEF Occurrences

LEMMA OccurrencesSingle ==
  ASSUME NEW e, NEW M
  PROVE  Occurrences(<<e>>, M) = IF e \in M THEN 1 ELSE 0
<1>. DEFINE s == <<e>>
<1>1. DOMAIN s = {1} /\ s[1] = e
  OBVIOUS
<1>. HIDE DEF s
<1>2. CASE e \in M
  <2>1. Occurrences(s, M) = 1
    BY <1>1, <1>2, OccurrencesOne
  <2>. QED  BY <1>2, <2>1 DEF s
<1>3. CASE e \notin M
  <2>1. Occurrences(s, M) = 0
    BY <1>1, <1>3, OccurrencesNone
  <2>. QED  BY <1>3, <2>1 DEF s
<1>. QED  BY <1>2, <1>3

\* A set of numbers that is moved by d keeps its size.
LEMMA ShiftedSize ==
  ASSUME NEW T, T \subseteq Int, IsFiniteSet(T), NEW d \in Int
  PROVE  /\ IsFiniteSet(Shifted(T, d))
         /\ Cardinality(Shifted(T, d)) = Cardinality(T)
<1>. DEFINE f == [k \in T |-> k + d]
<1>1. f \in [T -> Shifted(T, d)]
  BY DEF Shifted
<1>2. \A a, b \in T : f[a] = f[b] => a = b
  OBVIOUS
<1>3. \A u \in Shifted(T, d) : \E k \in T : f[k] = u
  BY DEF Shifted
<1>4. ExistsBijection(T, Shifted(T, d))
  <2>. HIDE DEF f
  <2>1. f \in Injection(T, Shifted(T, d))
    BY <1>1, <1>2 DEF Injection, IsInjective
  <2>2. f \in Surjection(T, Shifted(T, d))
    BY <1>1, <1>3 DEF Surjection
  <2>. QED  BY <2>1, <2>2 DEF ExistsBijection, Bijection
<1>. QED  BY <1>4, FS_Bijection

\* What occurs in two sequences, one after the other.
LEMMA OccurrencesConcat ==
  ASSUME NEW S, NEW s \in Seq(S), NEW t \in Seq(S), NEW M
  PROVE  Occurrences(s \o t, M) = Occurrences(s, M) + Occurrences(t, M)
<1>. DEFINE A == {k \in DOMAIN s : s[k] \in M}
            B == {k \in DOMAIN t : t[k] \in M}
            C == Shifted(B, Len(s))
            D == {k \in DOMAIN (s \o t) : (s \o t)[k] \in M}
<1>1. /\ Len(s) \in Nat /\ DOMAIN s = 1..Len(s)
      /\ Len(t) \in Nat /\ DOMAIN t = 1..Len(t)
  BY LenProperties
<1>2. /\ s \o t \in Seq(S) /\ Len(s \o t) = Len(s) + Len(t)
      /\ \A i \in 1..Len(s) + Len(t) :
           (s \o t)[i] = IF i <= Len(s) THEN s[i] ELSE t[i - Len(s)]
  BY ConcatProperties
<1>3. DOMAIN (s \o t) = 1..Len(s) + Len(t)
  BY <1>2, LenProperties
<1>4. D = A \union C
  <2>1. ASSUME NEW k \in D  PROVE k \in A \union C
    <3>1. CASE k <= Len(s)
      BY <1>1, <1>2, <1>3, <3>1
    <3>2. CASE k > Len(s)
      <4>1. k - Len(s) \in B
        BY <1>1, <1>2, <1>3, <3>2
      <4>2. k = (k - Len(s)) + Len(s)
        BY <1>1, <1>3
      <4>. QED  BY <4>1, <4>2 DEF Shifted
    <3>. QED  BY <1>1, <1>3, <3>1, <3>2
  <2>2. ASSUME NEW k \in A  PROVE k \in D
    BY <1>1, <1>2, <1>3
  <2>3. ASSUME NEW k \in B  PROVE k + Len(s) \in D
    <3>1. k + Len(s) \in 1..Len(s) + Len(t) /\ ~(k + Len(s) <= Len(s))
      BY <1>1
    <3>2. (k + Len(s)) - Len(s) = k
      BY <1>1
    <3>. QED  BY <1>2, <1>3, <3>1, <3>2
  <2>. QED  BY <2>1, <2>2, <2>3 DEF Shifted
<1>5. A \intersect C = {}
  BY <1>1 DEF Shifted
<1>6. IsFiniteSet(A) /\ IsFiniteSet(B) /\ Cardinality(A) \in Nat /\ Cardinality(B) \in Nat
  BY IndicesFinite
<1>7. IsFiniteSet(C) /\ Cardinality(C) = Cardinality(B)
  <2>1. B \subseteq Int /\ IsFiniteSet(B) /\ Len(s) \in Int
    BY <1>1, <1>6
  <2>. HIDE DEF A, B, D
  <2>. QED  BY <2>1, ShiftedSize
<1>8. Cardinality(D) = Cardinality(A) + Cardinality(B)
  <2>. HIDE DEF A, B, C, D
  <2>1. Cardinality(A \union C) = Cardinality(A) + Cardinality(C) - Cardinality(A \intersect C)
    BY <1>6, <1>7, FS_Union
  <2>2. Cardinality(A \intersect C) = 0
    BY <1>5, FS_EmptySet
  <2>. QED  BY <1>4, <1>6, <1>7, <2>1, <2>2
<1>. QED  BY <1>8 DEF Occurrences

\* Of a sequence with a first element, that one and the others.
LEMMA OccurrencesHeadTail ==
  ASSUME NEW S, NEW s \in Seq(S), s # <<>>, NEW M
  PROVE  Occurrences(s, M) = (IF Head(s) \in M THEN 1 ELSE 0) + Occurrences(Tail(s), M)
<1>1. Head(s) \in S /\ Tail(s) \in Seq(S) /\ <<Head(s)>> \in Seq(S)
  BY HeadTailProperties
<1>2. s = <<Head(s)>> \o Tail(s)
  BY <1>1
<1>3. Occurrences(<<Head(s)>>, M) = IF Head(s) \in M THEN 1 ELSE 0
  BY OccurrencesSingle
<1>4. Occurrences(<<Head(s)>> \o Tail(s), M) = Occurrences(<<Head(s)>>, M) + Occurrences(Tail(s), M)
  BY <1>1, OccurrencesConcat
<1>. QED  BY <1>2, <1>3, <1>4

\* Of a sequence with one element more.
LEMMA OccurrencesAppend ==
  ASSUME NEW S, NEW s \in Seq(S), NEW e \in S, NEW M
  PROVE  Occurrences(Append(s, e), M) = Occurrences(s, M) + (IF e \in M THEN 1 ELSE 0)
<1>1. Append(s, e) = s \o <<e>> /\ <<e>> \in Seq(S)
  BY AppendIsConcat
<1>2. Occurrences(s \o <<e>>, M) = Occurrences(s, M) + Occurrences(<<e>>, M)
  BY <1>1, OccurrencesConcat
<1>. QED  BY <1>1, <1>2, OccurrencesSingle

\* Of a sequence with another i-th element.
LEMMA OccurrencesReplaced ==
  ASSUME NEW S, NEW s \in Seq(S), NEW i \in DOMAIN s, NEW e \in S, NEW M
  PROVE  Occurrences([s EXCEPT ![i] = e], M)
           = Occurrences(s, M) - (IF s[i] \in M THEN 1 ELSE 0) + (IF e \in M THEN 1 ELSE 0)
<1>. DEFINE before == SubSeq(s, 1, i - 1)
            after == SubSeq(s, i + 1, Len(s))
            t == [s EXCEPT ![i] = e]
            With(x) == (before \o <<x>>) \o after
<1>1. Len(s) \in Nat /\ DOMAIN s = 1..Len(s) /\ i \in 1..Len(s) /\ s[i] \in S
  BY LenProperties, ElementOfSeq
<1>2. /\ before \in Seq(S) /\ Len(before) = i - 1
      /\ \A k \in 1..i - 1 : before[k] = s[k]
  <2>1. \A k \in 1..i - 1 : s[k] \in S /\ 1 + k - 1 = k
    BY <1>1, ElementOfSeq
  <2>2. (i - 1) - 1 + 1 = i - 1
    BY <1>1
  <2>. QED  BY <1>1, <2>1, <2>2, SubSeqProperties
<1>3. /\ after \in Seq(S) /\ Len(after) = Len(s) - i
      /\ \A k \in 1..Len(s) - i : after[k] = s[i + k]
  <2>1. \A k \in i + 1..Len(s) : s[k] \in S
    BY <1>1, ElementOfSeq
  <2>2. /\ after \in Seq(S)
        /\ Len(after) = IF i + 1 <= Len(s) THEN Len(s) - (i + 1) + 1 ELSE 0
        /\ \A k \in 1..Len(s) - (i + 1) + 1 : after[k] = s[(i + 1) + k - 1]
    BY <1>1, <2>1, SubSeqProperties
  <2>3. Len(after) = Len(s) - i /\ Len(s) - (i + 1) + 1 = Len(s) - i
    <3>. HIDE DEF after
    <3>. QED  BY <1>1, <2>2
  <2>4. ASSUME NEW k \in 1..Len(s) - i  PROVE after[k] = s[i + k]
    <3>1. (i + 1) + k - 1 = i + k
      BY <1>1
    <3>. HIDE DEF after
    <3>. QED  BY <2>2, <2>3, <3>1
  <2>. QED  BY <2>2, <2>3, <2>4
<1>4. ASSUME NEW x \in S  
      PROVE  /\ With(x) \in Seq(S) /\ Len(With(x)) = Len(s)
             /\ \A k \in 1..Len(s) : With(x)[k] = IF k = i THEN x ELSE s[k]
             /\ Occurrences(With(x), M)
                  = Occurrences(before, M) + (IF x \in M THEN 1 ELSE 0) + Occurrences(after, M)
  <2>. DEFINE one == <<x>>
              front == before \o one
              all == front \o after
  <2>1. one \in Seq(S) /\ Len(one) = 1 /\ one[1] = x
    OBVIOUS
  <2>2. Occurrences(one, M) = IF x \in M THEN 1 ELSE 0
    BY OccurrencesSingle
  <2>. HIDE DEF before, after, one
  <2>3. /\ front \in Seq(S) /\ Len(front) = i
        /\ \A k \in 1..i : front[k] = IF k <= i - 1 THEN before[k] ELSE one[k - (i - 1)]
        /\ Occurrences(front, M) = Occurrences(before, M) + Occurrences(one, M)
    <3>1. Len(before) + Len(one) = i
      BY <1>1, <1>2, <2>1
    <3>2. /\ front \in Seq(S) /\ Len(front) = Len(before) + Len(one)
          /\ \A k \in 1..Len(before) + Len(one) :
               front[k] = IF k <= Len(before) THEN before[k] ELSE one[k - Len(before)]
      BY <1>2, <2>1, ConcatProperties
    <3>3. Occurrences(front, M) = Occurrences(before, M) + Occurrences(one, M)
      BY <1>2, <2>1, OccurrencesConcat
    <3>. HIDE DEF front
    <3>. QED  BY <1>2, <3>1, <3>2, <3>3
  <2>. HIDE DEF front
  <2>4. /\ all \in Seq(S) /\ Len(all) = Len(s)
        /\ \A k \in 1..Len(s) : all[k] = IF k <= i THEN front[k] ELSE after[k - i]
        /\ Occurrences(all, M) = Occurrences(front, M) + Occurrences(after, M)
    <3>1. i + (Len(s) - i) = Len(s)
      BY <1>1
    <3>2. /\ all \in Seq(S) /\ Len(all) = Len(front) + Len(after)
          /\ \A k \in 1..Len(front) + Len(after) :
               all[k] = IF k <= Len(front) THEN front[k] ELSE after[k - Len(front)]
      <4>1. front \in Seq(S) /\ after \in Seq(S)
        BY <1>3, <2>3
      <4>. QED  BY <4>1, ConcatProperties
    <3>3. Occurrences(all, M) = Occurrences(front, M) + Occurrences(after, M)
      BY <1>3, <2>3, OccurrencesConcat
    <3>. HIDE DEF all
    <3>. QED  BY <1>3, <2>3, <3>1, <3>2, <3>3
  <2>6. all = With(x)
    BY DEF front, one
  <2>. HIDE DEF all, With
  <2>5. ASSUME NEW k \in 1..Len(s)  PROVE all[k] = IF k = i THEN x ELSE s[k]
    <3>1. CASE k < i
      <4>1. k \in 1..i /\ k <= i - 1 /\ k \in 1..i - 1 /\ k <= i /\ k # i
        BY <1>1, <3>1
      <4>. QED  BY <4>1, <2>4, <2>3, <1>2
    <3>2. CASE k = i
      <4>1. k \in 1..i /\ ~(k <= i - 1) /\ k - (i - 1) = 1 /\ k <= i
        BY <1>1, <3>2
      <4>. QED  BY <4>1, <3>2, <2>4, <2>3, <2>1
    <3>3. CASE k > i
      <4>1. ~(k <= i) /\ k - i \in 1..Len(s) - i /\ i + (k - i) = k /\ k # i
        BY <1>1, <3>3
      <4>. QED  BY <4>1, <2>4, <1>3
    <3>. QED  BY <1>1, <3>1, <3>2, <3>3
  <2>. QED  BY <2>2, <2>3, <2>4, <2>5, <2>6
<1>5. t \in Seq(S) /\ Len(t) = Len(s) /\ \A k \in 1..Len(s) : t[k] = IF k = i THEN e ELSE s[k]
  BY <1>1, ExceptSeq
<1>. HIDE DEF With, t
<1>6. t = With(e) /\ s = With(s[i])
  <2>1. t = With(e)
    <3>1. With(e) \in Seq(S) /\ Len(t) = Len(With(e)) /\ \A k \in 1..Len(t) : t[k] = With(e)[k]
      BY <1>4, <1>5
    <3>. QED  BY <1>5, <3>1, SeqEqual
  <2>2. s = With(s[i])
    <3>. DEFINE u == With(s[i])
    <3>1. u \in Seq(S) /\ Len(s) = Len(u) /\ \A k \in 1..Len(s) : s[k] = u[k]
      BY <1>1, <1>4
    <3>. HIDE DEF u
    <3>2. s = u
      BY <3>1, SeqEqual
    <3>. QED  BY <3>2 DEF u
  <2>. QED  BY <2>1, <2>2
<1>7. Occurrences(before, M) \in Nat /\ Occurrences(after, M) \in Nat
  <2>. HIDE DEF before, after
  <2>. QED  BY <1>2, <1>3, OccurrencesType
<1>8. /\ Occurrences(t, M)
           = Occurrences(before, M) + (IF e \in M THEN 1 ELSE 0) + Occurrences(after, M)
      /\ Occurrences(s, M)
           = Occurrences(before, M) + (IF s[i] \in M THEN 1 ELSE 0) + Occurrences(after, M)
  BY <1>1, <1>4, <1>6
<1>. HIDE DEF before, after
<1>. QED  BY <1>7, <1>8 DEF t

\* Of a sequence without its i-th element.
LEMMA OccurrencesRemoved ==
  ASSUME NEW S, NEW s \in Seq(S), NEW i \in DOMAIN s, NEW M
  PROVE  LET t == SubSeq(s, 1, i - 1) \o SubSeq(s, i + 1, Len(s))
         IN /\ t \in Seq(S) /\ Len(t) = Len(s) - 1
            /\ Occurrences(t, M) = Occurrences(s, M) - (IF s[i] \in M THEN 1 ELSE 0)
<1>. DEFINE before == SubSeq(s, 1, i - 1)
            upTo == SubSeq(s, 1, i)
            after == SubSeq(s, i + 1, Len(s))
            one == <<s[i]>>
            t == before \o after
<1>1. Len(s) \in Nat /\ DOMAIN s = 1..Len(s) /\ i \in 1..Len(s) /\ s[i] \in S
  BY LenProperties, ElementOfSeq
<1>2. before \in Seq(S) /\ Len(before) = i - 1
  <2>1. \A k \in 1..i - 1 : s[k] \in S
    BY <1>1, ElementOfSeq
  <2>2. (i - 1) - 1 + 1 = i - 1
    BY <1>1
  <2>. QED  BY <1>1, <2>1, <2>2, SubSeqProperties
<1>3. after \in Seq(S) /\ Len(after) = Len(s) - i
  <2>1. \A k \in i + 1..Len(s) : s[k] \in S
    BY <1>1, ElementOfSeq
  <2>2. Len(s) - (i + 1) + 1 = Len(s) - i
    BY <1>1
  <2>. QED  BY <1>1, <2>1, <2>2, SubSeqProperties
<1>4. one \in Seq(S) /\ Occurrences(one, M) = IF s[i] \in M THEN 1 ELSE 0
  BY <1>1, OccurrencesSingle
<1>5. upTo = before \o one
  BY <1>1, SubSeqRecursiveSecond
<1>6. upTo \o after = s
  <2>1. 1 \in 1..Len(s) + 1 /\ i \in 1 - 1..Len(s) /\ Len(s) \in i..Len(s)
    BY <1>1
  <2>2. SubSeq(s, 1, i) \o SubSeq(s, i + 1, Len(s)) = SubSeq(s, 1, Len(s))
    BY <2>1, ConcatAdjacentSubSeq
  <2>. QED  BY <2>2, SubSeqFull
<1>. HIDE DEF before, upTo, after, one
<1>7. upTo \in Seq(S) /\ Occurrences(upTo, M) = Occurrences(before, M) + Occurrences(one, M)
  BY <1>2, <1>4, <1>5, ConcatProperties, OccurrencesConcat
<1>8. Occurrences(s, M) = Occurrences(upTo, M) + Occurrences(after, M)
  <2>1. Occurrences(upTo \o after, M) = Occurrences(upTo, M) + Occurrences(after, M)
    BY <1>3, <1>7, OccurrencesConcat
  <2>. QED  BY <1>6, <2>1
<1>9. /\ t \in Seq(S) /\ Len(t) = Len(before) + Len(after)
      /\ Occurrences(t, M) = Occurrences(before, M) + Occurrences(after, M)
  BY <1>2, <1>3, ConcatProperties, OccurrencesConcat
<1>10. Occurrences(before, M) \in Nat /\ Occurrences(after, M) \in Nat
  BY <1>2, <1>3, OccurrencesType
<1>11. t = SubSeq(s, 1, i - 1) \o SubSeq(s, i + 1, Len(s))
  BY DEF before, after
<1>. HIDE DEF t
<1>12. /\ Len(t) = Len(s) - 1
       /\ Occurrences(t, M) = Occurrences(s, M) - (IF s[i] \in M THEN 1 ELSE 0)
  <2>1. Len(t) = Len(s) - 1
    BY <1>1, <1>2, <1>3, <1>9
  <2>2. Occurrences(one, M) \in Nat
    BY <1>4
  <2>3. Occurrences(t, M) = Occurrences(s, M) - Occurrences(one, M)
    BY <1>7, <1>8, <1>9, <1>10, <2>2
  <2>. QED  BY <1>4, <2>1, <2>3
<1>. QED  BY <1>9, <1>11, <1>12

-----------------------------------------------------------------------------
\* Filtering a sequence.

\* f[n] has those of the first n elements of s that are in M.
Filters(f, s, M) ==
  f = [i \in 0..Len(s) |->
         IF i = 0 THEN <<>> ELSE IF s[i] \in M THEN Append(f[i - 1], s[i]) ELSE f[i - 1]]

LEMMA FilterExists ==
  ASSUME NEW S, NEW s \in Seq(S), NEW M
  PROVE  \E f : Filters(f, s, M)
<1>. DEFINE Kept(n, t) == IF n \in DOMAIN s /\ s[n] \in M THEN Append(t, s[n]) ELSE t
            step == [n \in Nat |-> [t \in Seq(S) |-> Kept(n, t)]]
            zero == <<>>
            T == Seq(S)
            m == Len(s)
<1>1. m \in Nat /\ DOMAIN s = 1..m /\ zero \in T
  BY LenProperties
<1>2. step \in Steps(T)
  <2>1. ASSUME NEW n \in Nat, NEW t \in Seq(S)  PROVE Kept(n, t) \in Seq(S)
    <3>1. CASE n \in DOMAIN s /\ s[n] \in M
      BY <1>1, <3>1, ElementOfSeq, AppendProperties
    <3>2. CASE ~(n \in DOMAIN s /\ s[n] \in M)
      BY <3>2
    <3>. QED  BY <3>1, <3>2
  <2>. HIDE DEF Kept
  <2>. QED  BY <2>1 DEF Steps
<1>3. PICK f : Unrolled(f, T, zero, step, m)
  <2>. HIDE DEF T, zero, step, m
  <2>. QED  BY <1>1, <1>2, RecursionExists
<1>4. f \in [0..m -> T] /\ f[0] = zero /\ \A i \in 1..m : f[i] = Kept(i, f[i - 1])
  <2>1. ASSUME NEW i \in 1..m  PROVE f[i - 1] \in T /\ i \in Nat
    <3>1. i - 1 \in 0..m
      BY <1>1
    <3>. HIDE DEF T, m
    <3>. QED  BY <1>1, <1>3, <3>1 DEF Unrolled
  <2>. HIDE DEF Kept
  <2>. QED  BY <1>3, <2>1 DEF Unrolled
<1>5. Filters(f, s, M)
  <2>1. \A i \in 0..m : i # 0 => i \in 1..m
    BY <1>1
  <2>. QED  BY <1>1, <1>4, <2>1 DEF Filters
<1>. QED  BY <1>5

\* Members of M occur in t as often as in s.
AlikeIn(t, s, M) == \A N : N \subseteq M => Occurrences(t, N) = Occurrences(s, N)

\* What is filtered out is in M, and occurs as often as before.
LEMMA FilterOccurrences ==
  ASSUME NEW S, NEW s \in Seq(S), NEW M, NEW f, Filters(f, s, M)
  PROVE  f[Len(s)] \in Seq(S \intersect M) /\ AlikeIn(f[Len(s)], s, M)
<1>. SUFFICES ASSUME NEW N, N \subseteq M
              PROVE  /\ f[Len(s)] \in Seq(S \intersect M)
                     /\ Occurrences(f[Len(s)], N) = Occurrences(s, N)
  <2>1. {} \subseteq M
    OBVIOUS
  <2>. QED  BY <2>1 DEF AlikeIn
<1>. DEFINE first(n) == SubSeq(s, 1, n)
            Same(n) == /\ f[n] \in Seq(S \intersect M)
                       /\ Occurrences(f[n], N) = Occurrences(first(n), N)
            U == {n \in Nat : n <= Len(s) => Same(n)}
<1>1. Len(s) \in Nat /\ DOMAIN s = 1..Len(s)
  BY LenProperties
<1>2. 0 \in U
  <2>1. f[0] = <<>> /\ 0 <= Len(s)
    BY <1>1 DEF Filters
  <2>2. first(0) = <<>>
    BY SubSeqEmpty
  <2>. HIDE DEF first
  <2>3. Same(0)
    BY <2>1, <2>2
  <2>. QED  BY <2>3
<1>3. ASSUME NEW n \in Nat, n \in U  PROVE n + 1 \in U
  <2>. SUFFICES ASSUME n + 1 <= Len(s)  PROVE Same(n + 1)
    OBVIOUS
  <2>1. /\ n + 1 \in 1..Len(s) /\ n + 1 \in 0..Len(s) /\ n + 1 # 0
        /\ (n + 1) - 1 = n /\ n <= Len(s) /\ s[n + 1] \in S
    BY <1>1, ElementOfSeq
  <2>2. Same(n)
    BY <1>3, <2>1
  <2>. DEFINE x == s[n + 1]
  <2>3. f[n + 1] = IF x \in M THEN Append(f[n], x) ELSE f[n]
    BY <2>1 DEF Filters
  <2>4. first(n + 1) = first(n) \o <<x>>
    <3>1. 1 \in 1..Len(s) /\ n + 1 \in 1..Len(s)
      BY <1>1, <2>1
    <3>2. SubSeq(s, 1, n + 1) = SubSeq(s, 1, (n + 1) - 1) \o <<s[n + 1]>>
      BY <3>1, SubSeqRecursiveSecond
    <3>. QED  BY <2>1, <3>2
  <2>. DEFINE one == <<x>>
  <2>5. first(n) \in Seq(S) /\ one \in Seq(S) /\ x \in S
    <3>1. \A k \in 1..n : s[k] \in S
      BY <1>1, <2>1, ElementOfSeq
    <3>. QED  BY <2>1, <3>1, SubSeqProperties
  <2>. HIDE DEF first, x
  <2>6. Occurrences(first(n + 1), N) = Occurrences(first(n), N) + (IF x \in N THEN 1 ELSE 0)
    <3>1. Occurrences(one, N) = IF x \in N THEN 1 ELSE 0
      BY OccurrencesSingle
    <3>2. first(n + 1) = first(n) \o one
      BY <2>4
    <3>. DEFINE a == first(n)
    <3>3. a \in Seq(S) /\ one \in Seq(S) /\ first(n + 1) = a \o one
      BY <2>5, <3>2
    <3>. HIDE DEF one, a
    <3>4. Occurrences(a \o one, N) = Occurrences(a, N) + Occurrences(one, N)
      BY <3>3, OccurrencesConcat
    <3>. QED  BY <3>1, <3>3, <3>4 DEF a
  <2>7. CASE x \in M
    <3>1. f[n] \in Seq(S \intersect M) /\ x \in S \intersect M
      BY <2>2, <2>5, <2>7
    <3>2. /\ Append(f[n], x) \in Seq(S \intersect M)
          /\ Occurrences(Append(f[n], x), N) = Occurrences(f[n], N) + (IF x \in N THEN 1 ELSE 0)
      BY <3>1, AppendProperties, OccurrencesAppend
    <3>. QED  BY <2>2, <2>3, <2>6, <2>7, <3>2
  <2>8. CASE x \notin M
    <3>1. Occurrences(first(n), N) \in Nat /\ x \notin N
      BY <2>5, <2>8, OccurrencesType
    <3>. QED  BY <2>2, <2>3, <2>6, <2>8, <3>1
  <2>. QED  BY <2>7, <2>8
<1>4. Len(s) \in U
  <2>. HIDE DEF U
  <2>. QED  BY <1>1, <1>2, <1>3, NatSetInduction
<1>5. first(Len(s)) = s
  BY SubSeqFull
<1>. HIDE DEF first
<1>. QED  BY <1>1, <1>4, <1>5

-----------------------------------------------------------------------------
\* Counting in tables.

\* The entries of the table `rows` that are in M, by row and column.
Row(o, J) == {<<o, i>> : i \in J}
Matches(s, M) == {j \in DOMAIN s : s[j] \in M}
Entries(rows, M) == UNION {Row(o, Matches(rows[o], M)) : o \in DOMAIN rows}

\* How many of them are in row o, and those in other rows.
InRow(rows, o, M) == IF o \in DOMAIN rows THEN Occurrences(rows[o], M) ELSE 0
NotInRow(rows, o, M) == {p \in Entries(rows, M) : p[1] # o}

\* A table of at most m rows of at most n entries from S.
Fitting(rows, S, m, n) ==
  /\ DOMAIN rows \subseteq 1..m
  /\ \A o \in DOMAIN rows : rows[o] \in Seq(S) /\ Len(rows[o]) <= n

LEMMA RowSize ==
  ASSUME NEW o, NEW J, IsFiniteSet(J)
  PROVE  IsFiniteSet(Row(o, J)) /\ Cardinality(Row(o, J)) = Cardinality(J)
<1>. DEFINE f == [i \in J |-> <<o, i>>]
<1>1. f \in [J -> Row(o, J)] /\ \A p \in Row(o, J) : \E i \in J : f[i] = p
  BY DEF Row
<1>2. \A a, b \in J : f[a] = f[b] => a = b
  OBVIOUS
<1>. HIDE DEF f
<1>3. f \in Injection(J, Row(o, J)) /\ f \in Surjection(J, Row(o, J))
  BY <1>1, <1>2 DEF Injection, IsInjective, Surjection
<1>4. ExistsBijection(J, Row(o, J))
  BY <1>3 DEF ExistsBijection, Bijection
<1>. QED  BY <1>4, FS_Bijection

LEMMA EntriesAre ==
  ASSUME NEW rows, NEW M
  PROVE  \A p : p \in Entries(rows, M) <=>
           \E o \in DOMAIN rows : \E i \in Matches(rows[o], M) : p = <<o, i>>
BY DEF Entries, Row

\* A table without members of M.
LEMMA EntriesNone ==
  ASSUME NEW rows, NEW M, \A o \in DOMAIN rows : \A j \in DOMAIN rows[o] : rows[o][j] \notin M
  PROVE  Cardinality(Entries(rows, M)) = 0
<1>1. Entries(rows, M) = {}
  BY EntriesAre DEF Matches
<1>. QED  BY <1>1, FS_EmptySet

LEMMA EntriesFinite ==
  ASSUME NEW rows, NEW S, NEW m \in Nat, NEW n \in Nat, Fitting(rows, S, m, n), NEW M
  PROVE  IsFiniteSet(Entries(rows, M))
<1>. DEFINE A == 1..m
            B == 1..n
<1>1. ASSUME NEW o \in DOMAIN rows  PROVE o \in A /\ Matches(rows[o], M) \subseteq B
  <2>1. o \in A /\ rows[o] \in Seq(S) /\ Len(rows[o]) <= n
    BY DEF Fitting
  <2>2. DOMAIN rows[o] \subseteq B
    BY <2>1, LenProperties
  <2>. QED  BY <2>1, <2>2 DEF Matches
<1>2. IsFiniteSet(A \X B)
  <2>1. IsFiniteSet(A) /\ IsFiniteSet(B)
    BY FS_Interval
  <2>. HIDE DEF A, B
  <2>. QED  BY <2>1, FS_Product
<1>. HIDE DEF A, B
<1>3. Entries(rows, M) \in SUBSET (A \X B)
  BY <1>1, EntriesAre
<1>. QED  BY <1>2, <1>3, FS_Subset

LEMMA EntriesSplit ==
  ASSUME NEW rows, NEW S, NEW m \in Nat, NEW n \in Nat, Fitting(rows, S, m, n), NEW M, NEW o
  PROVE  /\ Cardinality(NotInRow(rows, o, M)) \in Nat /\ InRow(rows, o, M) \in Nat
         /\ Cardinality(Entries(rows, M))
              = Cardinality(NotInRow(rows, o, M)) + InRow(rows, o, M)
<1>. DEFINE all == Entries(rows, M)
            rest == NotInRow(rows, o, M)
<1>1. IsFiniteSet(all) /\ rest \in SUBSET all
  BY EntriesFinite DEF NotInRow
<1>2. IsFiniteSet(rest) /\ Cardinality(rest) \in Nat
  BY <1>1, FS_Subset, FS_CardinalityType
<1>3. CASE o \in DOMAIN rows
  <2>. DEFINE J == Matches(rows[o], M)
              row == Row(o, J)
  <2>1. rows[o] \in Seq(S) /\ J \subseteq DOMAIN rows[o]
    BY <1>3 DEF Fitting, Matches
  <2>2. IsFiniteSet(J) /\ Cardinality(J) \in Nat
    BY <2>1, IndicesFinite
  <2>3. Cardinality(J) = InRow(rows, o, M)
    BY <1>3 DEF InRow, Occurrences, Matches
  <2>4. IsFiniteSet(row) /\ Cardinality(row) = Cardinality(J)
    BY <2>2, RowSize
  <2>5. \A p : p \in row <=> p \in all /\ p[1] = o
    <3>1. \A p : p \in row <=> \E i \in J : p = <<o, i>>
      BY DEF Row
    <3>2. ASSUME NEW p, p \in row  PROVE p \in all /\ p[1] = o
      BY <1>3, <3>1, <3>2, EntriesAre
    <3>3. ASSUME NEW p, p \in all, p[1] = o  PROVE p \in row
      <4>1. PICK q \in DOMAIN rows : \E i \in Matches(rows[q], M) : p = <<q, i>>
        BY <3>3, EntriesAre
      <4>2. q = o
        BY <3>3, <4>1
      <4>. QED  BY <3>1, <4>1, <4>2
    <3>. QED  BY <3>2, <3>3
  <2>. HIDE DEF J, row, all
  <2>6. all = rest \union row /\ rest \intersect row = {}
    BY <2>5 DEF NotInRow, all
  <2>. HIDE DEF rest
  <2>7. Cardinality(all) = Cardinality(rest) + Cardinality(row) - Cardinality({})
    BY <1>2, <2>4, <2>6, FS_Union
  <2>8. Cardinality(all) = Cardinality(rest) + Cardinality(J)
    BY <1>2, <2>2, <2>4, <2>7, FS_EmptySet
  <2>. QED  BY <1>2, <2>2, <2>3, <2>8 DEF all, rest
<1>4. CASE o \notin DOMAIN rows
  <2>1. all = rest
    BY <1>4, EntriesAre DEF NotInRow
  <2>. QED  BY <1>2, <1>4, <2>1 DEF InRow
<1>. QED  BY <1>3, <1>4

\* A table in which only row o differs.
SameBut(rows, others, o) ==
  /\ DOMAIN rows \ {o} = DOMAIN others \ {o}
  /\ \A p \in DOMAIN rows \ {o} : rows[p] = others[p]

LEMMA EntriesChange ==
  ASSUME NEW rows, NEW S, NEW m \in Nat, NEW n \in Nat, Fitting(rows, S, m, n),
         NEW others, NEW T, NEW k \in Nat, NEW l \in Nat, Fitting(others, T, k, l),
         NEW o, SameBut(rows, others, o), NEW M
  PROVE  /\ Cardinality(Entries(rows, M)) \in Nat /\ Cardinality(Entries(others, M)) \in Nat
         /\ InRow(rows, o, M) \in Nat /\ InRow(others, o, M) \in Nat
         /\ Cardinality(Entries(others, M)) + InRow(rows, o, M)
              = Cardinality(Entries(rows, M)) + InRow(others, o, M)
<1>1. ASSUME NEW p  PROVE p \in NotInRow(rows, o, M) <=> p \in NotInRow(others, o, M)
  <2>1. p \in NotInRow(rows, o, M) <=>
          \E q \in DOMAIN rows \ {o} : \E i \in Matches(rows[q], M) : p = <<q, i>>
    BY EntriesAre DEF NotInRow
  <2>2. p \in NotInRow(others, o, M) <=>
          \E q \in DOMAIN others \ {o} : \E i \in Matches(others[q], M) : p = <<q, i>>
    BY EntriesAre DEF NotInRow
  <2>. QED  BY <2>1, <2>2 DEF SameBut
<1>2. NotInRow(rows, o, M) = NotInRow(others, o, M)
  BY <1>1
<1>3. /\ Cardinality(NotInRow(rows, o, M)) \in Nat /\ InRow(rows, o, M) \in Nat
      /\ Cardinality(Entries(rows, M)) = Cardinality(NotInRow(rows, o, M)) + InRow(rows, o, M)
  BY EntriesSplit
<1>4. /\ InRow(others, o, M) \in Nat
      /\ Cardinality(Entries(others, M))
           = Cardinality(NotInRow(others, o, M)) + InRow(others, o, M)
  BY EntriesSplit
<1>. QED  BY <1>2, <1>3, <1>4

-----------------------------------------------------------------------------
\* What can be reached.

\* R is the least set that has `from` in it and what follows next on it.
LeastIn(next, from, R) ==
  /\ from \subseteq R /\ R \subseteq DOMAIN next
  /\ \A u \in R : next[u] \subseteq R
  /\ \A C \in SUBSET R : from \subseteq C /\ (\A u \in C : next[u] \subseteq C) => C = R

LEMMA LeastIsUnique ==
  ASSUME NEW from, NEW next, NEW R, LeastIn(next, from, R),
         NEW other, NEW Q, LeastIn(other, from, Q),
         \A u \in R \intersect Q : next[u] = other[u]
  PROVE  R = Q
<1>. DEFINE C == R \intersect Q
<1>1. from \subseteq C /\ C \in SUBSET R /\ C \in SUBSET Q
  BY DEF LeastIn
<1>2. ASSUME NEW u \in C  PROVE next[u] \subseteq C /\ other[u] \subseteq C
  BY DEF LeastIn
<1>. HIDE DEF C
<1>3. C = R
  BY <1>1, <1>2 DEF LeastIn
<1>4. C = Q
  BY <1>1, <1>2 DEF LeastIn
<1>. QED  BY <1>3, <1>4

\* Each round adds what follows next on the one before.
Wider(next, S) == S \union UNION {next[u] : u \in S}
Rounds(r, next, from, n) ==
  /\ r[0] = from
  /\ \A k \in 1..n : r[k - 1] \subseteq DOMAIN next => r[k] = Wider(next, r[k - 1])

LEMMA RoundsExist ==
  ASSUME NEW D, NEW from \in SUBSET D, NEW next \in [D -> SUBSET D], NEW n \in Nat
  PROVE  \E r \in [0..n -> SUBSET D] : Rounds(r, next, from, n)
<1>. DEFINE S == SUBSET D
            step == [k \in Nat |-> [A \in S |-> Wider(next, A)]]
<1>1. step \in Steps(S)
  <2>1. ASSUME NEW A \in S  PROVE Wider(next, A) \in S
    BY DEF Wider
  <2>. HIDE DEF S
  <2>. QED  BY <2>1 DEF Steps
<1>2. PICK r : Unrolled(r, S, from, step, n)
  <2>. HIDE DEF step
  <2>. QED  BY <1>1, RecursionExists
<1>3. ASSUME NEW k \in 1..n  PROVE r[k] = Wider(next, r[k - 1])
  <2>1. k - 1 \in 0..n /\ k \in Nat
    OBVIOUS
  <2>2. r[k - 1] \in S /\ r[k] = step[k][r[k - 1]]
    <3>. HIDE DEF S, step
    <3>. QED  BY <1>2, <2>1 DEF Unrolled
  <2>. HIDE DEF S
  <2>. QED  BY <2>1, <2>2
<1>. QED  BY <1>2, <1>3 DEF Unrolled, Rounds

\* There is nothing left to add after as many rounds as there are places.
LEMMA RoundsReach ==
  ASSUME NEW D, IsFiniteSet(D), NEW from \in SUBSET D, NEW next \in [D -> SUBSET D],
         NEW n \in Nat, Cardinality(D) <= n, NEW r, Rounds(r, next, from, n)
  PROVE  LeastIn(next, from, r[n])
<1>. DEFINE Closed(C) == \A u \in C : next[u] \subseteq C
            Good(k) == k \in 0..n =>
                         /\ r[k] \subseteq D /\ from \subseteq r[k]
                         /\ Closed(r[k]) \/ Cardinality(r[k]) >= k
                         /\ \A C \in SUBSET D : from \subseteq C /\ Closed(C) => r[k] \subseteq C
            U == {k \in Nat : Good(k)}
<1>0. DOMAIN next = D /\ from \subseteq D /\ \A u \in D : next[u] \subseteq D
  OBVIOUS
<1>1. \A A \in SUBSET D : IsFiniteSet(A) /\ Cardinality(A) \in Nat
  BY FS_Subset, FS_CardinalityType
<1>2. 0 \in U
  <2>1. r[0] = from
    BY DEF Rounds
  <2>. QED  BY <1>1, <2>1
<1>3. ASSUME NEW k \in Nat, k \in U  PROVE k + 1 \in U
  <2>. SUFFICES ASSUME k + 1 \in 0..n  PROVE Good(k + 1)
    OBVIOUS
  <2>. DEFINE A == r[k]
              B == r[k + 1]
  <2>1. /\ A \subseteq D /\ from \subseteq A
        /\ Closed(A) \/ Cardinality(A) >= k
        /\ \A C \in SUBSET D : from \subseteq C /\ Closed(C) => A \subseteq C
    <3>1. k \in 0..n
      OBVIOUS
    <3>. QED  BY <1>3, <3>1
  <2>2. B = Wider(next, A)
    <3>1. k + 1 \in 1..n /\ (k + 1) - 1 = k
      OBVIOUS
    <3>. HIDE DEF Closed, Good, U
    <3>2. A \subseteq DOMAIN next
      BY <1>0, <2>1
    <3>3. r[(k + 1) - 1] \subseteq DOMAIN next => r[k + 1] = Wider(next, r[(k + 1) - 1])
      BY <3>1 DEF Rounds
    <3>. QED  BY <3>1, <3>2, <3>3
  <2>. HIDE DEF A, B, Good, U
  <2>3. B \subseteq D /\ from \subseteq B /\ A \subseteq B
    <3>1. \A x \in B : x \in A \/ \E u \in A : x \in next[u]
      BY <2>2 DEF Wider
    <3>2. A \subseteq B
      BY <2>2 DEF Wider
    <3>. HIDE DEF Closed
    <3>. QED  BY <1>0, <2>1, <3>1, <3>2
  <2>4. ASSUME NEW C \in SUBSET D, from \subseteq C, Closed(C)  PROVE B \subseteq C
    <3>1. A \subseteq C
      BY <2>1, <2>4
    <3>. QED  BY <2>2, <2>4, <3>1 DEF Wider
  <2>5. Closed(B) \/ Cardinality(B) >= k + 1
    <3>1. CASE Closed(A)
      <4>1. B = A
        BY <2>2, <3>1 DEF Wider
      <4>. QED  BY <3>1, <4>1
    <3>2. CASE ~Closed(A)
      <4>1. A # B
        BY <2>2, <3>2 DEF Wider
      <4>2. Cardinality(A) >= k /\ Cardinality(A) \in Nat /\ Cardinality(B) \in Nat
        BY <1>1, <2>1, <2>3, <3>2
      <4>3. Cardinality(A) <= Cardinality(B) /\ Cardinality(A) # Cardinality(B)
        BY <1>1, <2>3, <4>1, FS_Subset
      <4>. QED  BY <4>2, <4>3
    <3>. QED  BY <3>1, <3>2
  <2>. HIDE DEF Closed
  <2>. QED  BY <2>3, <2>4, <2>5 DEF Good, B
<1>4. n \in U
  <2>. HIDE DEF U
  <2>. QED  BY <1>2, <1>3, NatSetInduction
<1>. DEFINE R == r[n]
<1>5. /\ R \subseteq D /\ from \subseteq R
      /\ Closed(R) \/ Cardinality(R) >= n
      /\ \A C \in SUBSET D : from \subseteq C /\ Closed(C) => R \subseteq C
  <2>1. n \in 0..n
    OBVIOUS
  <2>. QED  BY <1>4, <2>1
<1>. HIDE DEF R, Good, U
<1>6. Closed(R)
  <2>1. CASE Cardinality(R) >= n
    <3>1. Cardinality(R) <= Cardinality(D) /\ Cardinality(R) \in Nat /\ Cardinality(D) \in Nat
      BY <1>1, <1>5, FS_Subset
    <3>2. Cardinality(D) = Cardinality(R)
      BY <2>1, <3>1
    <3>3. D = R
      BY <1>5, <3>2, FS_Subset
    <3>. QED  BY <3>3
  <2>. QED  BY <1>5, <2>1
<1>7. ASSUME NEW C \in SUBSET R, from \subseteq C, Closed(C)  PROVE C = R
  BY <1>5, <1>7
<1>8. LeastIn(next, from, R)
  BY <1>0, <1>5, <1>6, <1>7 DEF LeastIn
<1>. QED  BY <1>8 DEF R

=============================================================================
