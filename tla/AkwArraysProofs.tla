-------------------------- MODULE AkwArraysProofs --------------------------
(***************************************************************************)
(* What holds of the array library for every capacity, every number of     *)
(* objects and every sequence of calls of a caller that keeps the rules:   *)
(* that storage holds what is counted, that reference counts are exact,    *)
(* that the counted arrays implement the sequences of AkwSequences, and    *)
(* what can go wrong otherwise, and when.                                  *)
(***************************************************************************)
EXTENDS AkwArrays, AkwBufferProofs

\* The values whose address, if they have one, is that of an object.
KnownIn(h) == {v \in Values : IsObject(v) => v.n \in DOMAIN h}
Known == KnownIn(heap)

HandlesIn(h) == {ObjectValue(type, id) : type \in {"Array", "String"}, id \in DOMAIN h}

\* Every address that is anywhere is that of an object.
Stored ==
  /\ heap \in Seq(Objects) /\ Len(heap) <= MaxObjects
  /\ \A id \in DOMAIN heap : heap[id].elems \in Seq(Known)
  /\ held \subseteq HandlesIn(heap)
  /\ releasing \in Seq({v \in Known : IsObject(v)})
  /\ lost \in [Ids -> Nat]

\* The storage of every object holds what is counted, and an array that the
\* caller holds counts its elements also if it has none.
Sized ==
  /\ buffers \in Seq(Holding) /\ Len(buffers) = Len(heap)
  /\ \A id \in DOMAIN heap :
       heap[id].elems # <<>> => buffers[id].count = Len(heap[id].elems)
  /\ \A v \in Arrays : buffers[v.n].count = Len(Elems(v))

-----------------------------------------------------------------------------
\* What the library may do to its objects.  Every operation is one of five.

Nothing == UNCHANGED <<heap, buffers, held, releasing, lost>>

\* No element of s has been freed.
Unfreed(s) == \A k \in DOMAIN s : ~Freed(s[k])

\* A new object, which shares these elements.
Made(type, elems, buf) ==
  /\ Len(heap) < MaxObjects
  /\ type \in {"Array", "String"} /\ (type = "String" => elems = <<>>)
  /\ elems \in Seq(Known) /\ Unfreed(elems)
  /\ buf \in Holding /\ (type = "Array" => buf.count = Len(elems))
  /\ heap' = Append(RetainAll(heap, elems), [ArrayObject(elems) EXCEPT !.refCount = 1])
  /\ buffers' = Append(buffers, buf)
  /\ held' = held \union {ObjectValue(type, NewId(heap))}
  /\ releasing = <<>>

\* Nothing is given back, or what akw_array_remove_at leaves out.
NothingLost == UNCHANGED <<releasing, lost>>
OneLost ==
  \E e \in Known :
    /\ ~Freed(e)
    /\ releasing' = IF IsObject(e) THEN <<e>> ELSE <<>>
    /\ lost' = IF IsObject(e) THEN [lost EXCEPT ![e.n] = @ + 1] ELSE lost

\* v gets these elements: `new` are retained and `freed` released.
Altered(v, elems, new, freed, buf) ==
  /\ v \in Arrays /\ ~Freed(v)
  /\ elems \in Seq(Known) /\ new \in Seq(Known) /\ freed \in Seq(Known) /\ Unfreed(new)
  /\ \A id \in DOMAIN heap :
       Occurs(elems, id) + Occurs(freed, id) = Occurs(Elems(v), id) + Occurs(new, id)
  /\ buf \in Holding /\ buf.count = Len(elems)
  /\ heap' = [RetainAll(heap, new) EXCEPT ![v.n].elems = elems]
  /\ buffers' = [buffers EXCEPT ![v.n] = buf]
  /\ releasing = <<>> /\ releasing' = ObjectsOf(freed)
  /\ UNCHANGED <<held, lost>>

GivenUp(v) ==
  /\ v \in held
  /\ held' = held \ {v}
  /\ releasing = <<>> /\ releasing' = <<v>>
  /\ UNCHANGED <<heap, buffers, lost>>

Released(v) ==
  /\ releasing # <<>> /\ v = Head(releasing) /\ ~Freed(v)
  /\ heap' = Dropped(heap, v)
  /\ releasing' = Cascade(heap, v) \o Tail(releasing)
  /\ UNCHANGED <<buffers, held, lost>>

-----------------------------------------------------------------------------
\* Counting occurrences of an object.

Refs(id) == {v \in Values : IsObject(v) /\ v.n = id}

LEMMA OccursIsOccurrences ==
  ASSUME NEW S, S \subseteq Values, NEW s \in Seq(S), NEW id
  PROVE  Occurs(s, id) = Occurrences(s, Refs(id)) /\ Occurs(s, id) \in Nat
<1>1. \A i \in DOMAIN s : s[i] \in Values
  BY ElementOfSeq, LenProperties
<1>2. {i \in DOMAIN s : IsObject(s[i]) /\ s[i].n = id} = {i \in DOMAIN s : s[i] \in Refs(id)}
  BY <1>1 DEF Refs
<1>. QED  BY <1>2, OccurrencesType DEF Occurs, Occurrences

LEMMA OccursEmpty == ASSUME NEW id  PROVE Occurs(<<>>, id) = 0
<1>1. {i \in DOMAIN <<>> : IsObject(<<>>[i]) /\ <<>>[i].n = id} = {}
  OBVIOUS
<1>. QED  BY <1>1, FS_EmptySet DEF Occurs

LEMMA OccursSingle ==
  ASSUME NEW e \in Values, NEW id
  PROVE  Occurs(<<e>>, id) = IF IsObject(e) /\ e.n = id THEN 1 ELSE 0
<1>. DEFINE s == <<e>>
<1>1. s \in Seq(Values)
  OBVIOUS
<1>2. Occurrences(s, Refs(id)) = IF e \in Refs(id) THEN 1 ELSE 0
  BY OccurrencesSingle
<1>3. e \in Refs(id) <=> IsObject(e) /\ e.n = id
  BY DEF Refs
<1>. HIDE DEF s
<1>4. Occurs(s, id) = IF IsObject(e) /\ e.n = id THEN 1 ELSE 0
  BY <1>1, <1>2, <1>3, OccursIsOccurrences
<1>. QED  BY <1>4 DEF s

LEMMA OccursConcat ==
  ASSUME NEW S, S \subseteq Values, NEW s \in Seq(S), NEW t \in Seq(S), NEW id
  PROVE  Occurs(s \o t, id) = Occurs(s, id) + Occurs(t, id)
<1>. DEFINE u == s \o t
<1>1. u \in Seq(S)
  BY ConcatProperties
<1>2. Occurrences(u, Refs(id)) = Occurrences(s, Refs(id)) + Occurrences(t, Refs(id))
  BY OccurrencesConcat
<1>. HIDE DEF u
<1>3. /\ Occurs(u, id) = Occurrences(u, Refs(id))
      /\ Occurs(s, id) = Occurrences(s, Refs(id))
      /\ Occurs(t, id) = Occurrences(t, Refs(id))
  BY <1>1, OccursIsOccurrences
<1>. QED  BY <1>2, <1>3 DEF u

LEMMA OccursAppend ==
  ASSUME NEW S, S \subseteq Values, NEW s \in Seq(S), NEW e \in S, NEW id
  PROVE  Occurs(Append(s, e), id) = Occurs(s, id) + Occurs(<<e>>, id)
<1>. DEFINE one == <<e>>
<1>1. Append(s, e) = s \o one /\ one \in Seq(S)
  BY AppendIsConcat
<1>. HIDE DEF one
<1>2. Occurs(s \o one, id) = Occurs(s, id) + Occurs(one, id)
  BY <1>1, OccursConcat
<1>. QED  BY <1>1, <1>2 DEF one

LEMMA OccursHeadTail ==
  ASSUME NEW S, S \subseteq Values, NEW s \in Seq(S), s # <<>>, NEW id
  PROVE  Occurs(s, id) = Occurs(<<Head(s)>>, id) + Occurs(Tail(s), id)
<1>. DEFINE one == <<Head(s)>>
<1>1. Head(s) \in S /\ Tail(s) \in Seq(S) /\ one \in Seq(S)
  BY HeadTailProperties
<1>2. s = one \o Tail(s)
  BY <1>1
<1>. HIDE DEF one
<1>3. Occurs(one \o Tail(s), id) = Occurs(one, id) + Occurs(Tail(s), id)
  BY <1>1, OccursConcat
<1>. QED  BY <1>2, <1>3 DEF one

LEMMA ReplacedIs ==
  ASSUME NEW S, NEW s \in Seq(S), NEW i \in DOMAIN s, NEW e \in S
  PROVE  ReplaceAt(s, i, e) \in Seq(S) /\ Len(ReplaceAt(s, i, e)) = Len(s)
<1>1. i \in 1..Len(s)
  BY LenProperties
<1>. QED  BY <1>1, ExceptSeq DEF ReplaceAt

LEMMA OccursReplaced ==
  ASSUME NEW S, S \subseteq Values, NEW s \in Seq(S), NEW i \in DOMAIN s, NEW e \in S, NEW id
  PROVE  /\ ReplaceAt(s, i, e) \in Seq(S) /\ Len(ReplaceAt(s, i, e)) = Len(s)
         /\ Occurs(ReplaceAt(s, i, e), id) + Occurs(<<s[i]>>, id)
              = Occurs(s, id) + Occurs(<<e>>, id)
<1>. DEFINE t == [s EXCEPT ![i] = e]
<1>1. i \in 1..Len(s) /\ s[i] \in S
  BY LenProperties, ElementOfSeq
<1>2. t \in Seq(S) /\ Len(t) = Len(s)
  BY <1>1, ExceptSeq
<1>3. Occurrences(t, Refs(id))
        = Occurrences(s, Refs(id)) - (IF s[i] \in Refs(id) THEN 1 ELSE 0)
            + (IF e \in Refs(id) THEN 1 ELSE 0)
  BY OccurrencesReplaced
<1>4. /\ Occurs(<<s[i]>>, id) = IF s[i] \in Refs(id) THEN 1 ELSE 0
      /\ Occurs(<<e>>, id) = IF e \in Refs(id) THEN 1 ELSE 0
  <2>1. ASSUME NEW x \in Values  PROVE Occurs(<<x>>, id) = IF x \in Refs(id) THEN 1 ELSE 0
    BY OccursSingle DEF Refs
  <2>. QED  BY <1>1, <2>1
<1>. HIDE DEF t
<1>5. /\ Occurs(t, id) = Occurrences(t, Refs(id))
      /\ Occurs(s, id) = Occurrences(s, Refs(id)) /\ Occurs(s, id) \in Nat
  BY <1>2, OccursIsOccurrences
<1>6. ReplaceAt(s, i, e) = t
  BY DEF ReplaceAt, t
<1>. QED  BY <1>2, <1>3, <1>4, <1>5, <1>6

LEMMA OccursRemoved ==
  ASSUME NEW S, S \subseteq Values, NEW s \in Seq(S), NEW i \in DOMAIN s, NEW id
  PROVE  /\ RemoveAt(s, i) \in Seq(S) /\ Len(RemoveAt(s, i)) = Len(s) - 1
         /\ Occurs(RemoveAt(s, i), id) + Occurs(<<s[i]>>, id) = Occurs(s, id)
<1>. DEFINE t == SubSeq(s, 1, i - 1) \o SubSeq(s, i + 1, Len(s))
<1>1. s[i] \in S
  BY LenProperties, ElementOfSeq
<1>2. /\ t \in Seq(S) /\ Len(t) = Len(s) - 1
      /\ Occurrences(t, Refs(id))
           = Occurrences(s, Refs(id)) - (IF s[i] \in Refs(id) THEN 1 ELSE 0)
  BY OccurrencesRemoved
<1>3. Occurs(<<s[i]>>, id) = IF s[i] \in Refs(id) THEN 1 ELSE 0
  BY <1>1, OccursSingle DEF Refs
<1>. HIDE DEF t
<1>4. /\ Occurs(t, id) = Occurrences(t, Refs(id))
      /\ Occurs(s, id) = Occurrences(s, Refs(id)) /\ Occurs(s, id) \in Nat
  BY <1>2, OccursIsOccurrences
<1>5. RemoveAt(s, i) = t
  BY DEF RemoveAt, t
<1>. QED  BY <1>2, <1>3, <1>4, <1>5

\* The objects of a sequence are objects, and all that are there.
LEMMA ObjectsOfType ==
  ASSUME NEW S, S \subseteq Values, NEW s \in Seq(S), NEW id
  PROVE  /\ ObjectsOf(s) \in Seq({v \in S : IsObject(v)})
         /\ Occurs(ObjectsOf(s), id) = Occurs(s, id)
<1>. DEFINE M == {v \in S : IsObject(v)}
            F(f) == [i \in 0..Len(s) |->
                       IF i = 0 THEN <<>>
                       ELSE IF IsObject(s[i]) THEN Append(f[i - 1], s[i]) ELSE f[i - 1]]
            f == CHOOSE g : g = F(g)
<1>1. \A i \in 0..Len(s) : i # 0 => (IsObject(s[i]) <=> s[i] \in M)
  BY ElementOfSeq, LenProperties
<1>2. ASSUME NEW g  PROVE g = F(g) <=> Filters(g, s, M)
  <2>. DEFINE G == [i \in 0..Len(s) |->
                      IF i = 0 THEN <<>>
                      ELSE IF s[i] \in M THEN Append(g[i - 1], s[i]) ELSE g[i - 1]]
  <2>. HIDE DEF M
  <2>1. F(g) = G
    BY <1>1
  <2>. QED  BY <2>1 DEF Filters
<1>3. \E g : g = F(g)
  <2>1. \E g : Filters(g, s, M)
    <3>. HIDE DEF M
    <3>. QED  BY FilterExists
  <2>. HIDE DEF F, M
  <2>. QED  BY <1>2, <2>1
<1>4. f = F(f)
  <2>. HIDE DEF F
  <2>. QED  BY <1>3
<1>5. Filters(f, s, M)
  <2>. HIDE DEF f, F, M
  <2>. QED  BY <1>2, <1>4
<1>6. ObjectsOf(s) = f[Len(s)]
  BY DEF ObjectsOf
<1>. DEFINE t == f[Len(s)]
            N == Refs(id) \intersect M
<1>7. t \in Seq(S \intersect M) /\ Occurrences(t, N) = Occurrences(s, N)
  <2>. HIDE DEF f, F, M
  <2>1. f[Len(s)] \in Seq(S \intersect M) /\ AlikeIn(f[Len(s)], s, M)
    BY <1>5, FilterOccurrences
  <2>. QED  BY <2>1 DEF AlikeIn
<1>8. ASSUME NEW u \in Seq(S)  PROVE Occurrences(u, N) = Occurs(u, id)
  <2>1. \A k \in DOMAIN u : u[k] \in S
    BY ElementOfSeq, LenProperties
  <2>2. {k \in DOMAIN u : u[k] \in N} = {k \in DOMAIN u : IsObject(u[k]) /\ u[k].n = id}
    BY <2>1 DEF Refs
  <2>. HIDE DEF N
  <2>. QED  BY <2>2 DEF Occurs, Occurrences
<1>9. S \intersect M = M /\ M \subseteq S
  OBVIOUS
<1>10. t \in Seq(M) /\ t \in Seq(S)
  <2>. HIDE DEF t, M
  <2>. QED  BY <1>7, <1>9, SeqMonotonic
<1>. HIDE DEF t, N, f, F
<1>11. Occurs(t, id) = Occurs(s, id)
  BY <1>7, <1>8, <1>10
<1>. QED  BY <1>6, <1>10, <1>11 DEF t

-----------------------------------------------------------------------------
\* The heap and what is retained in it.

LEMMA SmallFacts ==
  /\ MaxObjects \in Nat /\ Plain \subseteq Values /\ \A v \in Plain : ~IsObject(v)
  /\ MaxCapacity \in Nat \ {0}
BY ArraysAssumption, CapacityBounds

LEMMA ObjectTypesAre ==
  /\ \A type \in {"Array", "String"} : type \in ObjectTypes /\ type \in ValueTypes
  /\ \A v : v.type = "Array" => IsObject(v)
BY DEF ObjectTypes, ValueTypes, IsObject

\* What the caller holds, and what it has otherwise, is known.
LEMMA ElementsKnown ==
  ASSUME Stored, NEW e \in Elements
  PROVE  e \in Known /\ (e \in held => IsObject(e) /\ e.n \in DOMAIN heap)
<1>1. CASE e \in held
  <2>1. PICK type \in {"Array", "String"}, id \in DOMAIN heap : e = ObjectValue(type, id)
    BY <1>1 DEF Stored, HandlesIn
  <2>2. id \in Int
    BY LenProperties DEF Stored
  <2>3. e \in Values /\ e.n = id /\ IsObject(e)
    BY <2>1, <2>2, ObjectTypesAre DEF ObjectValue, Values, IsObject
  <2>. QED  BY <2>3 DEF Known, KnownIn
<1>2. CASE e \in Plain /\ e \notin held
  BY <1>2, SmallFacts DEF Known, KnownIn
<1>. QED  BY <1>1, <1>2 DEF Elements

LEMMA ArrayFacts ==
  ASSUME Stored, Sized, NEW v \in Arrays
  PROVE  /\ v \in held /\ v \in Known /\ IsObject(v) /\ v.n \in DOMAIN heap
         /\ Elems(v) \in Seq(Known) /\ DOMAIN Elems(v) = 1..Len(Elems(v))
         /\ Buffer(v) \in Holding /\ Buffer(v).count = Len(Elems(v))
         /\ Len(Elems(v)) \in 0..MaxCapacity
<1>1. v \in held /\ v \in Elements
  BY DEF Arrays, Elements
<1>2. v \in Known /\ IsObject(v) /\ v.n \in DOMAIN heap
  BY <1>1, ElementsKnown
<1>3. Elems(v) \in Seq(Known)
  BY <1>2 DEF Stored, Elems
<1>4. v.n \in 1..Len(buffers)
  BY <1>2, LenProperties DEF Stored, Sized
<1>5. Buffer(v) \in Holding
  BY <1>4, ElementOfSeq DEF Sized, Buffer
<1>6. Buffer(v).count = Len(Elems(v))
  BY DEF Sized, Buffer
<1>7. Buffer(v).count \in 0..MaxCapacity
  BY <1>5 DEF Holding, Buffers
<1>. QED  BY <1>1, <1>2, <1>3, <1>5, <1>6, <1>7, LenProperties

LEMMA HeapFacts ==
  ASSUME Stored
  PROVE  /\ DOMAIN heap = 1..Len(heap) /\ Len(heap) \in Nat
         /\ \A id \in DOMAIN heap :
              /\ heap[id] \in Objects /\ heap[id].refCount \in Int /\ id \in Ids
              /\ \A k \in DOMAIN heap[id].elems : heap[id].elems[k] \in Known
<1>1. DOMAIN heap = 1..Len(heap) /\ Len(heap) \in Nat /\ Len(heap) <= MaxObjects
  BY LenProperties DEF Stored
<1>2. \A id \in DOMAIN heap : heap[id] \in Objects
  BY <1>1, ElementOfSeq DEF Stored
<1>3. \A id \in DOMAIN heap : id \in Ids
  BY <1>1, SmallFacts DEF Ids
<1>4. ASSUME NEW id \in DOMAIN heap, NEW k \in DOMAIN heap[id].elems
      PROVE  heap[id].elems[k] \in Known
  <2>1. heap[id].elems \in Seq(Known)
    BY DEF Stored
  <2>. QED  BY <2>1, ElementOfSeq, LenProperties
<1>. QED  BY <1>1, <1>2, <1>3, <1>4 DEF Objects

LEMMA KnownValues == Known \subseteq Values
  BY DEF Known, KnownIn

LEMMA RetainAllFacts ==
  ASSUME Stored, NEW s \in Seq(Known)
  PROVE  /\ RetainAll(heap, s) \in Seq(Objects) /\ Len(RetainAll(heap, s)) = Len(heap)
         /\ DOMAIN RetainAll(heap, s) = DOMAIN heap
         /\ \A id \in DOMAIN heap :
              /\ Occurs(s, id) \in Nat
              /\ RetainAll(heap, s)[id] \in Objects
              /\ RetainAll(heap, s)[id].refCount = heap[id].refCount + Occurs(s, id)
              /\ RetainAll(heap, s)[id].live = heap[id].live
              /\ RetainAll(heap, s)[id].elems = heap[id].elems
<1>. DEFINE g == RetainAll(heap, s)
<1>1. DOMAIN heap = 1..Len(heap) /\ Len(heap) \in Nat
  BY HeapFacts
<1>2. ASSUME NEW id \in DOMAIN heap
      PROVE  /\ Occurs(s, id) \in Nat /\ g[id] \in Objects
             /\ g[id].refCount = heap[id].refCount + Occurs(s, id)
             /\ g[id].live = heap[id].live /\ g[id].elems = heap[id].elems
  <2>1. Occurs(s, id) \in Nat
    BY KnownValues, OccursIsOccurrences
  <2>2. heap[id] \in Objects
    BY HeapFacts
  <2>3. g[id] = [heap[id] EXCEPT !.refCount = @ + Occurs(s, id)]
    BY DEF RetainAll
  <2>. HIDE DEF g
  <2>. DEFINE o == heap[id]
              n == Occurs(s, id)
  <2>4. o \in Objects /\ n \in Nat /\ g[id] = [o EXCEPT !.refCount = o.refCount + n]
    BY <2>1, <2>2, <2>3
  <2>. HIDE DEF o, n
  <2>5. g[id] \in Objects /\ g[id].refCount = o.refCount + n /\ g[id].live = o.live /\ g[id].elems = o.elems
    BY <2>4 DEF Objects
  <2>. QED  BY <2>4, <2>5 DEF o, n
<1>3. DOMAIN g = DOMAIN heap /\ g = [id \in 1..Len(heap) |-> g[id]]
  BY <1>1 DEF RetainAll
<1>. HIDE DEF g
<1>4. g \in Seq(Objects) /\ Len(g) = Len(heap)
  <2>1. \A id \in 1..Len(heap) : g[id] \in Objects
    BY <1>1, <1>2
  <2>. QED  BY <1>1, <1>3, <2>1, IsASeq
<1>. QED  BY <1>2, <1>3, <1>4 DEF g

\* Nothing more to retain, or one value.
LEMMA RetainNone ==
  ASSUME Stored
  PROVE  heap = RetainAll(heap, <<>>)
<1>1. <<>> \in Seq(Known)
  OBVIOUS
<1>2. ASSUME NEW id \in DOMAIN heap
      PROVE  heap[id] = [heap[id] EXCEPT !.refCount = @ + Occurs(<<>>, id)]
  <2>1. heap[id] \in Objects /\ heap[id].refCount \in Int
    BY HeapFacts
  <2>2. Occurs(<<>>, id) = 0
    BY OccursEmpty
  <2>. QED  BY <2>1, <2>2 DEF Objects
<1>3. heap = [id \in DOMAIN heap |-> heap[id]]
  BY DEF Stored
<1>. QED  BY <1>2, <1>3 DEF RetainAll

LEMMA RetainOne ==
  ASSUME Stored, NEW e \in Known
  PROVE  Retain(heap, e) = RetainAll(heap, <<e>>)
<1>1. e \in Values /\ (IsObject(e) => e.n \in DOMAIN heap)
  BY DEF Known, KnownIn
<1>2. ASSUME NEW id \in DOMAIN heap
      PROVE  [heap[id] EXCEPT !.refCount = @ + Occurs(<<e>>, id)]
               = IF IsObject(e) /\ e.n = id THEN [heap[id] EXCEPT !.refCount = @ + 1] ELSE heap[id]
  <2>1. heap[id] \in Objects /\ heap[id].refCount \in Int
    BY HeapFacts
  <2>2. Occurs(<<e>>, id) = IF IsObject(e) /\ e.n = id THEN 1 ELSE 0
    BY <1>1, OccursSingle
  <2>. QED  BY <2>1, <2>2 DEF Objects
<1>3. heap = [id \in DOMAIN heap |-> heap[id]]
  BY DEF Stored
<1>4. CASE ~IsObject(e)
  <2>1. Retain(heap, e) = heap
    BY <1>4 DEF Retain
  <2>2. RetainAll(heap, <<e>>) = [id \in DOMAIN heap |-> heap[id]]
    BY <1>2, <1>4 DEF RetainAll
  <2>. QED  BY <1>3, <2>1, <2>2
<1>5. CASE IsObject(e)
  <2>1. Retain(heap, e) = [heap EXCEPT ![e.n].refCount = @ + 1]
    BY <1>5 DEF Retain
  <2>2. Retain(heap, e)
          = [id \in DOMAIN heap |->
               IF e.n = id THEN [heap[id] EXCEPT !.refCount = @ + 1] ELSE heap[id]]
    BY <1>1, <1>3, <1>5, <2>1
  <2>3. RetainAll(heap, <<e>>)
          = [id \in DOMAIN heap |->
               IF e.n = id THEN [heap[id] EXCEPT !.refCount = @ + 1] ELSE heap[id]]
    BY <1>2, <1>5 DEF RetainAll
  <2>. QED  BY <2>2, <2>3
<1>. QED  BY <1>4, <1>5

-----------------------------------------------------------------------------
\* Making an object.

LEMMA GiveKind ==
  ASSUME Stored, Idle, MayAllocate, NEW type \in {"Array", "String"},
         NEW elems \in Seq(Known), type = "String" => elems = <<>>, Unfreed(elems),
         NEW buf \in Holding, type = "Array" => buf.count = Len(elems),
         Give(type, ArrayObject(elems), buf)
  PROVE  Made(type, elems, buf) /\ UNCHANGED lost
<1>1. ArrayObject(elems).elems = elems
  BY DEF ArrayObject, StringObject
<1>. QED  BY <1>1 DEF Give, Made, MayAllocate, Idle

LEMMA GiveArrayKind ==
  ASSUME Stored, Idle, MayAllocate, NEW elems \in Seq(Known), Unfreed(elems),
         NEW need \in Int, GiveArray(elems, need)
  PROVE  Nothing \/ \E buf : Made("Array", elems, buf) /\ NothingLost
<1>. DEFINE buf == [WithCapacity(need) EXCEPT !.count = Len(elems)]
<1>1. CASE Nothing
  BY <1>1
<1>2. CASE /\ ~Refused(need) /\ buf.count <= buf.capacity
           /\ Give("Array", ArrayObject(elems), buf) /\ UNCHANGED releasing
  <2>1. Len(elems) \in Nat /\ buf.count = Len(elems)
    BY LenProperties DEF WithCapacity
  <2>2. buf \in Holding
    BY <1>2, <2>1, NewBufferHolds
  <2>. HIDE DEF buf
  <2>3. Made("Array", elems, buf) /\ UNCHANGED lost
    BY <1>2, <2>1, <2>2, GiveKind
  <2>. QED  BY <1>2, <2>3 DEF NothingLost
<1>3. Nothing \/ (/\ ~Refused(need) /\ buf.count <= buf.capacity
                  /\ Give("Array", ArrayObject(elems), buf) /\ UNCHANGED releasing)
  BY DEF GiveArray, Refuse, Nothing
<1>. HIDE DEF buf
<1>. QED  BY <1>1, <1>2, <1>3

\* A call that reads v has no element of v that has been freed.
LEMMA ReadsUnfreed ==
  ASSUME Stored, Sized, NEW v \in Arrays, \A w \in Reads(v) : ~Freed(w)
  PROVE  Unfreed(Elems(v)) /\ ~Freed(v)
<1>1. \A k \in DOMAIN Elems(v) : Elems(v)[k] \in Range(Elems(v))
  BY DEF Range
<1>. QED  BY <1>1 DEF Unfreed, Reads

\* Nor has a sequence with such elements only.
LEMMA UnfreedParts ==
  ASSUME NEW S, NEW s \in Seq(S), Unfreed(s), NEW t \in Seq(S), Unfreed(t), NEW e \in S, ~Freed(e)
  PROVE  /\ Unfreed(s \o t) /\ Unfreed(Append(s, e))
         /\ \A i \in DOMAIN s : Unfreed(ReplaceAt(s, i, e)) /\ Unfreed(RemoveAt(s, i))
<1>1. DOMAIN s = 1..Len(s) /\ DOMAIN t = 1..Len(t) /\ Len(s) \in Nat /\ Len(t) \in Nat
  BY LenProperties
<1>2. Unfreed(s \o t)
  <2>1. DOMAIN (s \o t) = 1..Len(s) + Len(t)
    BY <1>1
  <2>2. ASSUME NEW k \in 1..Len(s) + Len(t)  PROVE ~Freed((s \o t)[k])
    <3>1. CASE k <= Len(s)
      <4>1. (s \o t)[k] = s[k] /\ k \in DOMAIN s
        BY <1>1, <3>1
      <4>. QED  BY <4>1 DEF Unfreed
    <3>2. CASE k > Len(s)
      <4>1. (s \o t)[k] = t[k - Len(s)] /\ k - Len(s) \in DOMAIN t
        BY <1>1, <3>2
      <4>. QED  BY <4>1 DEF Unfreed
    <3>. QED  BY <1>1, <3>1, <3>2
  <2>. QED  BY <2>1, <2>2 DEF Unfreed
<1>3. Unfreed(Append(s, e))
  <2>1. /\ DOMAIN Append(s, e) = 1..Len(s) + 1
        /\ \A k \in 1..Len(s) : Append(s, e)[k] = s[k]
        /\ Append(s, e)[Len(s) + 1] = e
    BY <1>1, AppendProperties, LenProperties
  <2>2. \A k \in 1..Len(s) + 1 : k \in 1..Len(s) \/ k = Len(s) + 1
    BY <1>1
  <2>. QED  BY <1>1, <2>1, <2>2 DEF Unfreed
<1>4. ASSUME NEW i \in DOMAIN s  PROVE Unfreed(ReplaceAt(s, i, e))
  <2>1. /\ DOMAIN ReplaceAt(s, i, e) = DOMAIN s
        /\ \A k \in DOMAIN s : ReplaceAt(s, i, e)[k] = IF k = i THEN e ELSE s[k]
    BY DEF ReplaceAt
  <2>. QED  BY <2>1 DEF Unfreed
<1>5. ASSUME NEW i \in DOMAIN s  PROVE Unfreed(RemoveAt(s, i))
  <2>. DEFINE before == SubSeq(s, 1, i - 1)
              after == SubSeq(s, i + 1, Len(s))
              u == before \o after
  <2>1. /\ before \in Seq(S) /\ Len(before) = i - 1
        /\ \A k \in 1..i - 1 : before[k] = s[k]
    <3>1. /\ before \in Seq(S) /\ Len(before) = IF 1 <= i - 1 THEN (i - 1) - 1 + 1 ELSE 0
          /\ \A k \in 1..(i - 1) - 1 + 1 : before[k] = s[1 + k - 1]
      <4>1. \A k \in 1..i - 1 : s[k] \in S
        BY <1>1, ElementOfSeq
      <4>. QED  BY <1>1, <4>1, SubSeqProperties
    <3>. HIDE DEF before
    <3>2. (i - 1) - 1 + 1 = i - 1 /\ Len(before) = i - 1
      BY <1>1, <3>1
    <3>3. \A k \in 1..i - 1 : 1 + k - 1 = k
      BY <1>1
    <3>. QED  BY <3>1, <3>2, <3>3
  <2>2. /\ after \in Seq(S) /\ Len(after) = Len(s) - i
        /\ \A k \in 1..Len(s) - i : after[k] = s[i + k]
    <3>1. /\ after \in Seq(S)
          /\ Len(after) = IF i + 1 <= Len(s) THEN Len(s) - (i + 1) + 1 ELSE 0
          /\ \A k \in 1..Len(s) - (i + 1) + 1 : after[k] = s[(i + 1) + k - 1]
      <4>1. \A k \in i + 1..Len(s) : s[k] \in S
        BY <1>1, ElementOfSeq
      <4>. QED  BY <1>1, <4>1, SubSeqProperties
    <3>. HIDE DEF after
    <3>2. Len(s) - (i + 1) + 1 = Len(s) - i /\ Len(after) = Len(s) - i
      BY <1>1, <3>1
    <3>3. \A k \in 1..Len(s) - i : (i + 1) + k - 1 = i + k
      BY <1>1
    <3>. QED  BY <3>1, <3>2, <3>3
  <2>. HIDE DEF before, after
  <2>3. /\ u \in Seq(S) /\ Len(u) = Len(before) + Len(after)
        /\ \A k \in 1..Len(before) + Len(after) :
             u[k] = IF k <= Len(before) THEN before[k] ELSE after[k - Len(before)]
    BY <2>1, <2>2, ConcatProperties
  <2>. HIDE DEF u
  <2>4. ASSUME NEW k \in DOMAIN u  PROVE ~Freed(u[k])
    <3>1. k \in 1..Len(before) + Len(after)
      BY <2>3, LenProperties
    <3>2. CASE k <= i - 1
      <4>1. u[k] = s[k] /\ k \in DOMAIN s
        <5>1. k \in 1..i - 1 /\ k \in DOMAIN s /\ k <= Len(before)
          BY <1>1, <2>1, <3>1, <3>2
        <5>. QED  BY <2>1, <2>3, <3>1, <5>1
      <4>. QED  BY <4>1 DEF Unfreed
    <3>3. CASE k > i - 1
      <4>. DEFINE d == k - (i - 1)
      <4>1. d \in 1..Len(s) - i /\ i + d \in DOMAIN s
        <5>1. k \in 1..(i - 1) + (Len(s) - i)
          BY <2>1, <2>2, <3>1
        <5>2. d \in 1..Len(s) - i
          BY <1>1, <3>3, <5>1
        <5>. HIDE DEF d
        <5>3. i + d \in 1..Len(s)
          BY <1>1, <5>2
        <5>. QED  BY <1>1, <5>2, <5>3
      <4>2. u[k] = after[d]
        <5>1. ~(k <= Len(before)) /\ k - Len(before) = d
          BY <1>1, <2>1, <3>1, <3>3
        <5>. QED  BY <2>3, <3>1, <5>1
      <4>. HIDE DEF d
      <4>3. u[k] = s[i + d]
        BY <2>2, <4>1, <4>2
      <4>. QED  BY <4>1, <4>3 DEF Unfreed
    <3>. QED  BY <1>1, <3>1, <3>2, <3>3
  <2>5. RemoveAt(s, i) = u
    BY DEF RemoveAt, u, before, after
  <2>. QED  BY <2>4, <2>5 DEF Unfreed
<1>. QED  BY <1>2, <1>3, <1>4, <1>5

\* What becomes of objects when one is made.
MadeOne == \E type, elems, buf : Made(type, elems, buf) /\ (NothingLost \/ OneLost)

LEMMA NewKind ==
  ASSUME Stored, NEW capacity \in Capacities, New(capacity)  PROVE Nothing \/ MadeOne
<1>1. <<>> \in Seq(Known) /\ Unfreed(<<>>) /\ capacity \in Int
  BY CapacityBounds DEF Unfreed
<1>. QED  BY <1>1, GiveArrayKind DEF New, Calls, MadeOne

LEMMA NewStringKind ==
  ASSUME Stored, NewString(MaxCapacity)  PROVE MadeOne
<1>. DEFINE n == MaxCapacity
            buf == [WithCapacity(n) EXCEPT !.count = n]
<1>1. <<>> \in Seq(Known) /\ Unfreed(<<>>) /\ n \in Nat /\ ~Refused(n)
  BY CapacityBounds DEF Unfreed, Refused
<1>2. buf \in Holding
  <2>1. MinCapacity \in Capacities /\ n <= Grown(MinCapacity, n)
    BY <1>1, CapacityBounds, GrownIsLeast
  <2>2. n <= buf.capacity
    BY <2>1 DEF WithCapacity
  <2>. HIDE DEF n
  <2>. QED  BY <1>1, <2>2, NewBufferHolds
<1>3. StringObject = ArrayObject(<<>>)
  BY DEF StringObject, ArrayObject
<1>4. Idle /\ MayAllocate /\ Give("String", ArrayObject(<<>>), buf) /\ UNCHANGED releasing
  BY <1>3 DEF NewString, Calls
<1>. HIDE DEF buf
<1>5. Made("String", <<>>, buf) /\ UNCHANGED lost
  BY <1>1, <1>2, <1>4, GiveKind
<1>. QED  BY <1>4, <1>5 DEF MadeOne, NothingLost

LEMMA CopyKind ==
  ASSUME Stored, Sized, NEW v \in Arrays, Copy(v)  PROVE Nothing \/ MadeOne
<1>1. Elems(v) \in Seq(Known) /\ Len(Elems(v)) \in Int
  BY ArrayFacts, LenProperties
<1>2. Unfreed(Elems(v)) /\ Idle /\ MayAllocate /\ GiveArray(Elems(v), Len(Elems(v)))
  BY ReadsUnfreed DEF Copy, Calls
<1>. QED  BY <1>1, <1>2, GiveArrayKind DEF MadeOne

LEMMA AppendedKind ==
  ASSUME Stored, Sized, NEW v \in Arrays, NEW e \in Elements, Appended(v, e)
  PROVE  Nothing \/ MadeOne
<1>. DEFINE s == Append(Elems(v), e)
            need == IntSum(Len(Elems(v)), 1)
<1>1. e \in Known /\ Elems(v) \in Seq(Known) /\ Len(Elems(v)) \in 0..MaxCapacity /\ 1 \in 0..MaxCapacity
  BY ArrayFacts, ElementsKnown, SmallFacts
<1>2. s \in Seq(Known) /\ need \in Int
  BY <1>1, AppendProperties, SumOfCounts
<1>3. Idle /\ MayAllocate /\ GiveArray(s, need) /\ ~Freed(e) /\ Unfreed(Elems(v))
  BY ReadsUnfreed DEF Appended, Calls
<1>4. Unfreed(s)
  BY <1>1, <1>3, UnfreedParts
<1>. HIDE DEF s, need
<1>. QED  BY <1>2, <1>3, <1>4, GiveArrayKind DEF MadeOne

LEMMA WithKind ==
  ASSUME Stored, Sized, NEW v \in Arrays, NEW e \in Elements, NEW i \in Indices(v), With(v, i, e)
  PROVE  Nothing \/ MadeOne
<1>. DEFINE s == ReplaceAt(Elems(v), i, e)
            need == Len(Elems(v))
<1>1. e \in Known /\ Elems(v) \in Seq(Known) /\ need \in Int /\ i \in DOMAIN Elems(v)
  BY ArrayFacts, ElementsKnown, LenProperties DEF Indices
<1>2. s \in Seq(Known)
  BY <1>1, KnownValues, OccursReplaced
<1>3. Idle /\ MayAllocate /\ GiveArray(s, need) /\ ~Freed(e) /\ Unfreed(Elems(v))
  BY ReadsUnfreed DEF With, Calls
<1>4. Unfreed(s)
  BY <1>1, <1>3, UnfreedParts
<1>. HIDE DEF s, need
<1>. QED  BY <1>1, <1>2, <1>3, <1>4, GiveArrayKind DEF MadeOne

LEMMA ConcatKind ==
  ASSUME Stored, Sized, NEW v \in Arrays, NEW w \in Arrays, Concat(v, w)
  PROVE  Nothing \/ MadeOne
<1>. DEFINE s == Elems(v) \o Elems(w)
            need == IntSum(Len(Elems(v)), Len(Elems(w)))
<1>1. /\ Elems(v) \in Seq(Known) /\ Len(Elems(v)) \in 0..MaxCapacity /\ v \in Known
      /\ Elems(w) \in Seq(Known) /\ Len(Elems(w)) \in 0..MaxCapacity
  BY ArrayFacts
<1>2. s \in Seq(Known) /\ need \in Int
  BY <1>1, ConcatProperties, SumOfCounts
<1>3. /\ Idle /\ MayAllocate /\ GiveArray(s, need)
      /\ \A x \in Reads(v) : ~Freed(x)
      /\ \A x \in Reads(w) : ~Freed(x)
  BY DEF Concat, Calls
<1>4. Unfreed(Elems(v)) /\ Unfreed(Elems(w)) /\ ~Freed(v)
  BY <1>3, ReadsUnfreed
<1>5. Unfreed(s)
  BY <1>1, <1>4, UnfreedParts
<1>. HIDE DEF s, need
<1>. QED  BY <1>2, <1>3, <1>5, GiveArrayKind DEF MadeOne

LEMMA WithoutKind ==
  ASSUME Stored, Sized, NEW v \in Arrays, NEW i \in Indices(v), Without(v, i)
  PROVE  MadeOne
<1>. DEFINE s == RemoveAt(Elems(v), i)
            need == Len(Elems(v)) - 1
            buf == [WithCapacity(need) EXCEPT !.count = need]
            e == Elems(v)[i]
<1>1. /\ v \in Known /\ Elems(v) \in Seq(Known) /\ i \in DOMAIN Elems(v)
      /\ i \in 1..Len(Elems(v)) /\ Len(Elems(v)) \in 0..MaxCapacity
  BY ArrayFacts DEF Indices
<1>2. e \in Known
  BY <1>1, ElementOfSeq
<1>3. s \in Seq(Known) /\ Len(s) = need /\ need \in Nat /\ ~Refused(need)
  <2>1. s \in Seq(Known) /\ Len(s) = Len(Elems(v)) - 1
    BY <1>1, KnownValues, OccursRemoved
  <2>. HIDE DEF s
  <2>. QED  BY <1>1, <2>1, SmallFacts DEF Refused
<1>4. Idle /\ MayAllocate /\ Unfreed(Elems(v)) /\ ~Freed(v) /\ \A x \in Reads(v) : ~Freed(x)
  BY ReadsUnfreed DEF Without, Calls
<1>5. ~Freed(e) /\ Unfreed(s)
  BY <1>1, <1>4, UnfreedParts DEF Unfreed
<1>6. buf \in Holding /\ buf.count = need
  <2>1. MinCapacity \in Capacities /\ need <= Grown(MinCapacity, need)
    BY <1>3, CapacityBounds, GrownIsLeast DEF Refused
  <2>2. need <= buf.capacity /\ buf.count = need
    BY <2>1 DEF WithCapacity
  <2>. HIDE DEF need
  <2>. QED  BY <1>3, <2>2, NewBufferHolds
<1>7. /\ heap' = Append(RetainAll(heap, s), [ArrayObject(s) EXCEPT !.refCount = 1])
      /\ buffers' = Append(buffers, buf)
      /\ held' = held \union {ObjectValue("Array", NewId(heap))}
      /\ releasing' = IF IsObject(e) THEN <<e>> ELSE <<>>
      /\ lost' = IF IsObject(e) THEN [lost EXCEPT ![e.n] = @ + 1] ELSE lost
  BY DEF Without
<1>. HIDE DEF s, need, buf, e
<1>8. OneLost
  BY <1>2, <1>5, <1>7 DEF OneLost
<1>9. Made("Array", s, buf)
  BY <1>3, <1>4, <1>5, <1>6, <1>7 DEF Made, MayAllocate, Idle
<1>. QED  BY <1>8, <1>9 DEF MadeOne

-----------------------------------------------------------------------------
\* Changing an array.

AlteredOne == \E v, elems, new, freed, buf : Altered(v, elems, new, freed, buf)

LEMMA ChangeKind ==
  ASSUME Stored, Idle, NEW v \in Arrays, ~Freed(v),
         NEW elems \in Seq(Known), NEW new \in Seq(Known), NEW freed \in Seq(Known),
         Unfreed(new),
         \A id \in DOMAIN heap :
           Occurs(elems, id) + Occurs(freed, id) = Occurs(Elems(v), id) + Occurs(new, id),
         NEW buf \in Holding, buf.count = Len(elems),
         Change(v, elems, RetainAll(heap, new), buf, freed)
  PROVE  AlteredOne
<1>1. Altered(v, elems, new, freed, buf)
  BY DEF Altered, Change, Idle
<1>. QED  BY <1>1 DEF AlteredOne

LEMMA ReserveKind ==
  ASSUME Stored, Sized, NEW v \in Arrays, NEW capacity \in Capacities, Reserve(v, capacity)
  PROVE  Nothing \/ AlteredOne
<1>. DEFINE buf == EnsureCapacity(Buffer(v), capacity)
            none == <<>>
<1>1. CASE CannotHold(Buffer(v), capacity)
  BY <1>1 DEF Reserve, Refuse, Nothing
<1>2. CASE ~CannotHold(Buffer(v), capacity)
  <2>1. Elems(v) \in Seq(Known) /\ Buffer(v) \in Holding /\ Buffer(v).count = Len(Elems(v))
    BY ArrayFacts
  <2>2. buf \in Holding /\ buf.count = Len(Elems(v))
    BY <1>2, <2>1, CapacityBounds, EnsureHolds
  <2>3. none \in Seq(Known) /\ Unfreed(none) /\ \A id : Occurs(none, id) = 0
    BY OccursEmpty DEF Unfreed
  <2>4. heap = RetainAll(heap, none)
    BY RetainNone
  <2>5. Idle /\ ~Freed(v) /\ Change(v, Elems(v), RetainAll(heap, none), buf, none)
    BY <1>2, <2>4 DEF Reserve, Calls
  <2>. HIDE DEF buf, none
  <2>. QED  BY <2>1, <2>2, <2>3, <2>5, ChangeKind
<1>. QED  BY <1>1, <1>2

LEMMA InplaceAppendKind ==
  ASSUME Stored, Sized, NEW v \in Arrays, NEW e \in Elements, InplaceAppend(v, e)
  PROVE  Nothing \/ AlteredOne
<1>. DEFINE buf == Extended(Buffer(v), 1)
            s == Append(Elems(v), e)
            none == <<>>
            one == <<e>>
<1>1. CASE CannotHold(Buffer(v), Buffer(v).count + 1)
  BY <1>1 DEF InplaceAppend, Refuse, Nothing
<1>2. CASE ~CannotHold(Buffer(v), Buffer(v).count + 1)
  <2>1. /\ Elems(v) \in Seq(Known) /\ Buffer(v) \in Holding /\ Buffer(v).count = Len(Elems(v))
        /\ e \in Known /\ 1 \in 0..MaxCapacity
    BY ArrayFacts, ElementsKnown, SmallFacts
  <2>2. s \in Seq(Known) /\ Len(s) = Len(Elems(v)) + 1
    BY <2>1, AppendProperties
  <2>3. buf \in Holding /\ buf.count = Len(s)
    BY <1>2, <2>1, <2>2, ExtendedHolds
  <2>4. none \in Seq(Known) /\ \A id : Occurs(none, id) = 0
    BY OccursEmpty
  <2>5. Idle /\ ~Freed(v) /\ ~Freed(e)
    BY <1>2 DEF InplaceAppend, Calls
  <2>6. one \in Seq(Known) /\ Unfreed(one)
    BY <2>1, <2>5 DEF Unfreed
  <2>7. Change(v, s, RetainAll(heap, one), buf, none)
    BY <1>2, <2>1, RetainOne DEF InplaceAppend
  <2>8. ASSUME NEW id \in DOMAIN heap
        PROVE  Occurs(s, id) + Occurs(none, id) = Occurs(Elems(v), id) + Occurs(one, id)
    <3>1. Occurs(s, id) = Occurs(Elems(v), id) + Occurs(one, id)
      BY <2>1, KnownValues, OccursAppend
    <3>2. Occurs(s, id) \in Nat
      <4>. HIDE DEF s
      <4>. QED  BY <2>2, KnownValues, OccursIsOccurrences
    <3>. HIDE DEF s, none, one
    <3>. QED  BY <2>4, <3>1, <3>2
  <2>. HIDE DEF s, none, one, buf
  <2>. QED  BY <2>2, <2>3, <2>4, <2>5, <2>6, <2>7, <2>8, ChangeKind
<1>. QED  BY <1>1, <1>2

LEMMA InplaceSetKind ==
  ASSUME Stored, Sized, NEW v \in Arrays, NEW e \in Elements, NEW i \in Indices(v),
         InplaceSet(v, i, e)
  PROVE  AlteredOne
<1>. DEFINE s == ReplaceAt(Elems(v), i, e)
            old == <<Elems(v)[i]>>
            one == <<e>>
<1>1. /\ Elems(v) \in Seq(Known) /\ Buffer(v) \in Holding /\ Buffer(v).count = Len(Elems(v))
      /\ e \in Known /\ i \in DOMAIN Elems(v) /\ i \in 1..Len(Elems(v))
  BY ArrayFacts, ElementsKnown DEF Indices
<1>2. old \in Seq(Known) /\ one \in Seq(Known)
  <2>1. Elems(v)[i] \in Known
    BY <1>1, ElementOfSeq
  <2>. QED  BY <1>1, <2>1
<1>3. /\ s \in Seq(Known) /\ Len(s) = Len(Elems(v))
      /\ \A id : Occurs(s, id) + Occurs(old, id) = Occurs(Elems(v), id) + Occurs(one, id)
  BY <1>1, KnownValues, OccursReplaced
<1>4. Idle /\ ~Freed(v) /\ ~Freed(e)
  BY DEF InplaceSet, Calls
<1>5. Unfreed(one)
  BY <1>4 DEF Unfreed
<1>6. Change(v, s, RetainAll(heap, one), Buffer(v), old)
  BY <1>1, RetainOne DEF InplaceSet
<1>. HIDE DEF s, old, one
<1>. QED  BY <1>1, <1>2, <1>3, <1>4, <1>5, <1>6, ChangeKind

LEMMA InplaceRemoveAtKind ==
  ASSUME Stored, Sized, NEW v \in Arrays, NEW i \in Indices(v), InplaceRemoveAt(v, i)
  PROVE  AlteredOne
<1>. DEFINE s == RemoveAt(Elems(v), i)
            old == <<Elems(v)[i]>>
            none == <<>>
            buf == [Buffer(v) EXCEPT !.count = @ - 1]
<1>1. /\ Elems(v) \in Seq(Known) /\ Buffer(v) \in Holding /\ Buffer(v).count = Len(Elems(v))
      /\ i \in DOMAIN Elems(v) /\ i \in 1..Len(Elems(v)) /\ Len(Elems(v)) \in 0..MaxCapacity
  BY ArrayFacts DEF Indices
<1>2. old \in Seq(Known)
  <2>1. Elems(v)[i] \in Known
    BY <1>1, ElementOfSeq
  <2>. QED  BY <2>1
<1>3. none \in Seq(Known) /\ Unfreed(none) /\ \A id : Occurs(none, id) = 0
  BY OccursEmpty DEF Unfreed
<1>4. /\ s \in Seq(Known) /\ Len(s) = Len(Elems(v)) - 1
      /\ \A id : Occurs(s, id) + Occurs(old, id) = Occurs(Elems(v), id)
  BY <1>1, KnownValues, OccursRemoved
<1>5. Idle /\ ~Freed(v)
  BY DEF InplaceRemoveAt, Calls
<1>6. Change(v, s, RetainAll(heap, none), buf, old)
  BY RetainNone DEF InplaceRemoveAt
<1>7. buf \in Holding /\ buf.count = Len(s)
  <2>1. /\ Buffer(v) = [capacity |-> Buffer(v).capacity, count |-> Buffer(v).count]
        /\ Buffer(v).count <= Buffer(v).capacity /\ Buffer(v).capacity \in Capacities
        /\ Buffer(v).capacity \in Nat /\ MaxCapacity \in Nat
    BY <1>1, CapacityBounds DEF Holding, Buffers
  <2>2. buf = [capacity |-> Buffer(v).capacity, count |-> Buffer(v).count - 1]
    BY <2>1
  <2>3. Buffer(v).count - 1 \in 0..MaxCapacity /\ Buffer(v).count - 1 <= Buffer(v).capacity
    BY <1>1, <2>1
  <2>. HIDE DEF buf
  <2>. QED  BY <1>1, <1>4, <2>1, <2>2, <2>3 DEF Holding, Buffers
<1>8. ASSUME NEW id \in DOMAIN heap
      PROVE  Occurs(s, id) + Occurs(old, id) = Occurs(Elems(v), id) + Occurs(none, id)
  <2>1. Occurs(Elems(v), id) \in Nat
    BY <1>1, KnownValues, OccursIsOccurrences
  <2>. HIDE DEF s, old, none
  <2>. QED  BY <1>3, <1>4, <2>1
<1>. HIDE DEF s, old, none, buf
<1>. QED  BY <1>2, <1>3, <1>4, <1>5, <1>6, <1>7, <1>8, ChangeKind

\* There is room for as many as the arrays have together, also where their sum
\* does not fit in an int.
LEMMA InplaceConcatKind ==
  ASSUME Stored, Sized, NEW v \in Arrays, NEW w \in Arrays, InplaceConcat(v, w)
  PROVE  Nothing \/ AlteredOne
<1>. DEFINE n == Len(Elems(v))
            m == Len(Elems(w))
            buf == Extended(Buffer(v), m)
            s == Elems(v) \o Elems(w)
            none == <<>>
<1>1. CASE Elems(w) # <<>> /\ NoRoomFor(v, w)
  BY <1>1 DEF InplaceConcat, Refuse, Nothing
<1>2. CASE ~(Elems(w) # <<>> /\ NoRoomFor(v, w))
  <2>1. /\ Elems(v) \in Seq(Known) /\ Buffer(v) \in Holding /\ Buffer(v).count = n
        /\ Elems(w) \in Seq(Known) /\ n \in 0..MaxCapacity /\ m \in 0..MaxCapacity
    BY ArrayFacts
  <2>2. s \in Seq(Known) /\ Len(s) = n + m
    BY <2>1, ConcatProperties
  <2>3. ~CannotHold(Buffer(v), Buffer(v).count + m)
    <3>1. /\ Buffer(v).capacity \in Nat /\ Buffer(v).capacity <= MaxCapacity
          /\ Buffer(v).count <= Buffer(v).capacity /\ MaxCapacity \in Nat \ {0}
      BY <2>1, CapacityBounds DEF Holding, Buffers
    <3>2. CASE Elems(w) = <<>>
      <4>1. m = 0
        BY <3>2
      <4>. HIDE DEF n, m
      <4>. QED  BY <2>1, <3>1, <4>1 DEF CannotHold
    <3>3. CASE ~NoRoomFor(v, w)
      <4>1. ~CannotHold(Buffer(v), IntSum(n, m)) /\ ~CannotHold(Buffer(v), n + 1)
        BY <3>3 DEF NoRoomFor
      <4>. HIDE DEF n, m
      <4>2. n # MaxCapacity
        BY <2>1, <3>1, <4>1 DEF CannotHold, Refused
      <4>3. IntSum(n, m) = n + m
        BY <2>1, <3>1, <4>2 DEF IntSum, IntMax
      <4>. QED  BY <2>1, <4>1, <4>3
    <3>. QED  BY <1>2, <3>2, <3>3
  <2>4. buf \in Holding /\ buf.count = Len(s)
    <3>. HIDE DEF n, m, s
    <3>. QED  BY <2>1, <2>2, <2>3, ExtendedHolds
  <2>5. none \in Seq(Known) /\ \A id : Occurs(none, id) = 0
    BY OccursEmpty
  <2>6. Idle /\ ~Freed(v) /\ \A x \in Reads(w) : ~Freed(x)
    BY DEF InplaceConcat, Calls
  <2>7. Unfreed(Elems(w))
    BY <2>6, ReadsUnfreed
  <2>8. Change(v, s, RetainAll(heap, Elems(w)), buf, none)
    BY <1>2 DEF InplaceConcat
  <2>9. ASSUME NEW id \in DOMAIN heap
        PROVE  Occurs(s, id) + Occurs(none, id) = Occurs(Elems(v), id) + Occurs(Elems(w), id)
    <3>1. Occurs(s, id) = Occurs(Elems(v), id) + Occurs(Elems(w), id)
      BY <2>1, KnownValues, OccursConcat
    <3>2. Occurs(s, id) \in Nat
      <4>. HIDE DEF s
      <4>. QED  BY <2>2, KnownValues, OccursIsOccurrences
    <3>. HIDE DEF s, none
    <3>. QED  BY <2>5, <3>1, <3>2
  <2>. HIDE DEF s, none, buf
  <2>. QED  BY <2>1, <2>2, <2>4, <2>5, <2>6, <2>7, <2>8, <2>9, ChangeKind
<1>. QED  BY <1>1, <1>2

LEMMA ClearKind ==
  ASSUME Stored, Sized, NEW v \in Arrays, Clear(v)
  PROVE  AlteredOne
<1>. DEFINE none == <<>>
            buf == [Buffer(v) EXCEPT !.count = 0]
<1>1. Elems(v) \in Seq(Known) /\ Buffer(v) \in Holding
  BY ArrayFacts
<1>2. none \in Seq(Known) /\ Unfreed(none) /\ Len(none) = 0 /\ \A id : Occurs(none, id) = 0
  BY OccursEmpty DEF Unfreed
<1>3. Idle /\ ~Freed(v)
  BY DEF Clear, Calls, Reads
<1>4. Change(v, none, RetainAll(heap, none), buf, Elems(v))
  BY RetainNone DEF Clear
<1>5. buf \in Holding /\ buf.count = Len(none)
  <2>1. /\ Buffer(v) = [capacity |-> Buffer(v).capacity, count |-> Buffer(v).count]
        /\ Buffer(v).capacity \in Capacities
        /\ Buffer(v).capacity \in Nat /\ MaxCapacity \in Nat
    BY <1>1, CapacityBounds DEF Holding, Buffers
  <2>2. buf = [capacity |-> Buffer(v).capacity, count |-> 0] /\ 0 \in 0..MaxCapacity
    BY <2>1
  <2>. HIDE DEF buf
  <2>. QED  BY <1>2, <2>1, <2>2 DEF Holding, Buffers
<1>6. ASSUME NEW id \in DOMAIN heap
      PROVE  Occurs(none, id) + Occurs(Elems(v), id) = Occurs(Elems(v), id) + Occurs(none, id)
  <2>1. Occurs(Elems(v), id) \in Nat
    BY <1>1, KnownValues, OccursIsOccurrences
  <2>. HIDE DEF none
  <2>. QED  BY <1>2, <2>1
<1>. HIDE DEF none, buf
<1>. QED  BY <1>1, <1>2, <1>3, <1>4, <1>5, <1>6, ChangeKind

-----------------------------------------------------------------------------
\* Every step.

Kinds ==
  \/ Nothing
  \/ MadeOne
  \/ AlteredOne
  \/ \E v : GivenUp(v)
  \/ \E v : Released(v)

LEMMA StepKinds ==
  ASSUME Stored, Sized, [ArraysNext]_arrayVars
  PROVE  Kinds
<1>1. CASE Making
  BY <1>1, NewKind, NewStringKind, CopyKind, AppendedKind, WithKind, WithoutKind, ConcatKind
     DEF Making, Kinds
<1>2. CASE Changing
  BY <1>2, ReserveKind, InplaceAppendKind, InplaceSetKind, InplaceRemoveAtKind,
     InplaceConcatKind, ClearKind DEF Changing, Kinds
<1>3. CASE ReleaseObject
  BY <1>3 DEF ReleaseObject, Released, Nothing, Kinds
<1>4. ASSUME NEW v \in held, Drop(v)  PROVE Kinds
  <2>1. GivenUp(v)
    BY <1>4 DEF Drop, Calls, Idle, GivenUp
  <2>. QED  BY <2>1 DEF Kinds
<1>5. CASE UseFreed \/ UNCHANGED arrayVars
  BY <1>5 DEF UseFreed, Nothing, Kinds, arrayVars
<1>. QED  BY <1>1, <1>2, <1>3, <1>4, <1>5 DEF ArraysNext

-----------------------------------------------------------------------------
\* What each kind of step does to the heap.

LEMMA MadeFacts ==
  ASSUME Stored, NEW type, NEW elems, NEW buf, Made(type, elems, buf)
  PROVE  /\ heap' \in Seq(Objects) /\ Len(heap') = Len(heap) + 1 /\ Len(heap') <= MaxObjects
         /\ DOMAIN heap' = DOMAIN heap \union {NewId(heap)} /\ NewId(heap) \notin DOMAIN heap
         /\ \A id \in DOMAIN heap :
              /\ Occurs(elems, id) \in Nat
              /\ heap'[id].refCount = heap[id].refCount + Occurs(elems, id)
              /\ heap'[id].live = heap[id].live
              /\ heap'[id].elems = heap[id].elems
         /\ heap'[NewId(heap)].refCount = 1 /\ heap'[NewId(heap)].live
         /\ heap'[NewId(heap)].elems = elems
         /\ Known \subseteq KnownIn(heap')
<1>. DEFINE g == RetainAll(heap, elems)
            obj == [ArrayObject(elems) EXCEPT !.refCount = 1]
<1>1. DOMAIN heap = 1..Len(heap) /\ Len(heap) \in Nat /\ Len(heap) < MaxObjects /\ MaxObjects \in Nat
  BY HeapFacts, SmallFacts DEF Made
<1>2. elems \in Seq(Known) /\ elems \in Seq(Values)
  BY KnownValues, SeqMonotonic DEF Made
<1>3. obj \in Objects /\ obj.refCount = 1 /\ obj.live /\ obj.elems = elems
  <2>1. StringObject \in Objects /\ StringObject.live
    BY DEF StringObject, Objects
  <2>. DEFINE arr == ArrayObject(elems)
  <2>2. arr \in Objects /\ arr.elems = elems /\ arr.live
    BY <1>2, <2>1 DEF ArrayObject, Objects
  <2>. QED  BY <2>2 DEF Objects
<1>4. g \in Seq(Objects) /\ Len(g) = Len(heap) /\ DOMAIN g = DOMAIN heap
  BY <1>2, RetainAllFacts
<1>. HIDE DEF g, obj
<1>5. heap' = Append(g, obj)
  BY DEF Made, g, obj
<1>6. /\ heap' \in Seq(Objects) /\ Len(heap') = Len(heap) + 1
      /\ \A id \in 1..Len(heap) : heap'[id] = g[id]
      /\ heap'[Len(heap) + 1] = obj
  BY <1>3, <1>4, <1>5, AppendProperties
<1>7. /\ DOMAIN heap' = DOMAIN heap \union {NewId(heap)} /\ NewId(heap) \notin DOMAIN heap
      /\ NewId(heap) = Len(heap) + 1
  <2>1. DOMAIN heap' = 1..Len(heap) + 1
    BY <1>6, LenProperties
  <2>. QED  BY <1>1, <2>1 DEF NewId
<1>8. ASSUME NEW id \in DOMAIN heap
      PROVE  /\ Occurs(elems, id) \in Nat
             /\ heap'[id].refCount = heap[id].refCount + Occurs(elems, id)
             /\ heap'[id].live = heap[id].live /\ heap'[id].elems = heap[id].elems
  <2>1. heap'[id] = g[id]
    BY <1>1, <1>6
  <2>. QED  BY <1>2, <2>1, RetainAllFacts DEF g
<1>9. Known \subseteq KnownIn(heap')
  BY <1>7 DEF Known, KnownIn
<1>10. Len(heap') <= MaxObjects
  BY <1>1, <1>6
<1>. QED  BY <1>3, <1>6, <1>7, <1>8, <1>9, <1>10

LEMMA AlteredFacts ==
  ASSUME Stored, Sized, NEW v, NEW elems, NEW new, NEW freed, NEW buf,
         Altered(v, elems, new, freed, buf)
  PROVE  /\ heap' \in Seq(Objects) /\ Len(heap') = Len(heap) /\ DOMAIN heap' = DOMAIN heap
         /\ v.n \in DOMAIN heap /\ heap[v.n].live
         /\ \A id \in DOMAIN heap :
              /\ Occurs(new, id) \in Nat
              /\ heap'[id].refCount = heap[id].refCount + Occurs(new, id)
              /\ heap'[id].live = heap[id].live
              /\ heap'[id].elems = IF id = v.n THEN elems ELSE heap[id].elems
         /\ Known = KnownIn(heap')
<1>. DEFINE g == RetainAll(heap, new)
            changed == [g[v.n] EXCEPT !.elems = elems]
<1>1. DOMAIN heap = 1..Len(heap) /\ Len(heap) \in Nat
  BY HeapFacts
<1>2. /\ v \in Arrays /\ ~Freed(v) /\ new \in Seq(Known)
      /\ elems \in Seq(Values) /\ heap' = [g EXCEPT ![v.n].elems = elems]
  BY KnownValues, SeqMonotonic DEF Altered
<1>3. v.n \in DOMAIN heap /\ heap[v.n].live
  BY <1>2, ArrayFacts DEF Freed
<1>4. /\ g \in Seq(Objects) /\ Len(g) = Len(heap) /\ DOMAIN g = DOMAIN heap
      /\ \A id \in DOMAIN heap :
           /\ Occurs(new, id) \in Nat /\ g[id] \in Objects
           /\ g[id].refCount = heap[id].refCount + Occurs(new, id)
           /\ g[id].live = heap[id].live /\ g[id].elems = heap[id].elems
  BY <1>2, RetainAllFacts
<1>. HIDE DEF g
<1>5. /\ changed \in Objects /\ changed.elems = elems
      /\ changed.live = g[v.n].live /\ changed.refCount = g[v.n].refCount
  BY <1>2, <1>3, <1>4 DEF Objects
<1>6. heap' = [g EXCEPT ![v.n] = changed]
  BY <1>2, <1>3, <1>4
<1>. HIDE DEF changed
<1>7. /\ heap' \in Seq(Objects) /\ Len(heap') = Len(g)
      /\ \A id \in 1..Len(g) : heap'[id] = IF id = v.n THEN changed ELSE g[id]
  BY <1>1, <1>3, <1>4, <1>5, <1>6, ExceptSeq
<1>8. DOMAIN heap' = DOMAIN heap
  BY <1>4, <1>6
<1>9. Known = KnownIn(heap')
  BY <1>8 DEF Known, KnownIn
<1>. QED  BY <1>1, <1>3, <1>4, <1>5, <1>7, <1>8, <1>9

LEMMA ReleasedFacts ==
  ASSUME Stored, NEW v, Released(v)
  PROVE  /\ heap' \in Seq(Objects) /\ Len(heap') = Len(heap) /\ DOMAIN heap' = DOMAIN heap
         /\ v \in Known /\ IsObject(v) /\ v.n \in DOMAIN heap /\ heap[v.n].live
         /\ Tail(releasing) \in Seq({w \in Known : IsObject(w)})
         /\ \A id \in DOMAIN heap :
              /\ heap'[id].refCount = IF id = v.n THEN heap[id].refCount - 1 ELSE heap[id].refCount
              /\ heap'[id].live = IF id = v.n THEN heap[id].refCount # 1 ELSE heap[id].live
              /\ heap'[id].elems = heap[id].elems
         /\ Known = KnownIn(heap')
<1>1. DOMAIN heap = 1..Len(heap) /\ Len(heap) \in Nat
  BY HeapFacts
<1>2. v \in {w \in Known : IsObject(w)} /\ Tail(releasing) \in Seq({w \in Known : IsObject(w)})
  BY HeadTailProperties DEF Stored, Released
<1>3. v.n \in DOMAIN heap /\ heap[v.n].live
  BY <1>2 DEF Known, KnownIn, Released, Freed
<1>. DEFINE refs == heap[v.n].refCount - 1
            changed == [heap[v.n] EXCEPT !.refCount = refs, !.live = (refs # 0)]
<1>4. heap[v.n] \in Objects /\ heap[v.n].refCount \in Int
  BY <1>3, HeapFacts
<1>5. /\ changed \in Objects /\ changed.elems = heap[v.n].elems
      /\ changed.live = (heap[v.n].refCount # 1) /\ changed.refCount = heap[v.n].refCount - 1
  <2>1. refs \in Int /\ (refs # 0) \in BOOLEAN /\ (refs # 0) = (heap[v.n].refCount # 1)
    BY <1>4
  <2>. HIDE DEF refs
  <2>2. changed \in Objects /\ changed.elems = heap[v.n].elems
        /\ changed.live = (refs # 0) /\ changed.refCount = refs
    BY <1>4, <2>1 DEF Objects
  <2>. HIDE DEF changed
  <2>. QED  BY <2>1, <2>2 DEF refs
<1>6. heap' = [heap EXCEPT ![v.n] = changed]
  <2>1. heap' = Dropped(heap, v)
    BY DEF Released
  <2>. QED  BY <1>3, <2>1 DEF Dropped, Stored
<1>. HIDE DEF changed, refs
<1>7. /\ heap' \in Seq(Objects) /\ Len(heap') = Len(heap)
      /\ \A id \in 1..Len(heap) : heap'[id] = IF id = v.n THEN changed ELSE heap[id]
  <2>1. heap \in Seq(Objects) /\ v.n \in 1..Len(heap)
    BY <1>1, <1>3 DEF Stored
  <2>. QED  BY <1>5, <1>6, <2>1, ExceptSeq
<1>8. DOMAIN heap' = DOMAIN heap
  BY <1>6
<1>9. Known = KnownIn(heap')
  BY <1>8 DEF Known, KnownIn
<1>. QED  BY <1>1, <1>2, <1>3, <1>5, <1>7, <1>8, <1>9

-----------------------------------------------------------------------------
\* The addresses.

LEMMA StoredInitial == ArraysInit => Stored
<1>. SUFFICES ASSUME ArraysInit  PROVE Stored
  OBVIOUS
<1>1. heap = <<>> /\ held = {} /\ releasing = <<>> /\ lost = [id \in Ids |-> 0]
  BY DEF ArraysInit
<1>2. Len(heap) = 0 /\ DOMAIN heap = {}
  BY <1>1
<1>. QED  BY <1>1, <1>2, SmallFacts DEF Stored

LEMMA StoredMade ==
  ASSUME Stored, NEW type, NEW elems, NEW buf, Made(type, elems, buf), NothingLost \/ OneLost
  PROVE  Stored'
<1>1. /\ heap' \in Seq(Objects) /\ Len(heap') <= MaxObjects
      /\ DOMAIN heap' = DOMAIN heap \union {NewId(heap)}
      /\ \A id \in DOMAIN heap : heap'[id].elems = heap[id].elems
      /\ heap'[NewId(heap)].elems = elems
      /\ Known \subseteq KnownIn(heap')
  BY MadeFacts
<1>2. ASSUME NEW id \in DOMAIN heap'  PROVE heap'[id].elems \in Seq(KnownIn(heap'))
  <2>1. elems \in Seq(Known) /\ \A i \in DOMAIN heap : heap[i].elems \in Seq(Known)
    BY DEF Stored, Made
  <2>2. heap'[id].elems \in Seq(Known)
    BY <1>1, <2>1
  <2>. QED  BY <1>1, <2>2, SeqMonotonic
<1>3. held' \subseteq HandlesIn(heap')
  <2>1. held \subseteq HandlesIn(heap) /\ held' = held \union {ObjectValue(type, NewId(heap))}
    BY DEF Stored, Made
  <2>2. HandlesIn(heap) \subseteq HandlesIn(heap')
    BY <1>1 DEF HandlesIn
  <2>3. type \in {"Array", "String"} /\ NewId(heap) \in DOMAIN heap'
    BY <1>1 DEF Made
  <2>4. ObjectValue(type, NewId(heap)) \in HandlesIn(heap')
    BY <2>3 DEF HandlesIn
  <2>. QED  BY <2>1, <2>2, <2>4
<1>4. /\ releasing' \in Seq({v \in KnownIn(heap') : IsObject(v)})
      /\ lost' \in [Ids -> Nat]
  <2>1. {v \in Known : IsObject(v)} \subseteq {v \in KnownIn(heap') : IsObject(v)}
    BY <1>1
  <2>2. releasing' \in Seq({v \in Known : IsObject(v)}) /\ lost' \in [Ids -> Nat]
    <3>1. CASE NothingLost
      BY <3>1 DEF NothingLost, Stored
    <3>2. CASE OneLost
      <4>1. PICK e \in Known : /\ releasing' = IF IsObject(e) THEN <<e>> ELSE <<>>
                               /\ lost' = IF IsObject(e) THEN [lost EXCEPT ![e.n] = @ + 1] ELSE lost
        BY <3>2 DEF OneLost
      <4>2. IsObject(e) => e.n \in Ids
        BY HeapFacts DEF Known, KnownIn
      <4>3. releasing' \in Seq({v \in Known : IsObject(v)})
        <5>1. CASE IsObject(e)
          <6>1. e \in {v \in Known : IsObject(v)} /\ releasing' = <<e>>
            BY <4>1, <5>1
          <6>. QED  BY <6>1
        <5>2. CASE ~IsObject(e)
          <6>1. releasing' = <<>>
            BY <4>1, <5>2
          <6>. QED  BY <6>1
        <5>. QED  BY <5>1, <5>2
      <4>4. lost' \in [Ids -> Nat]
        BY <4>1, <4>2 DEF Stored
      <4>. QED  BY <4>3, <4>4
    <3>. QED  BY <3>1, <3>2
  <2>. QED  BY <2>1, <2>2, SeqMonotonic
<1>. QED  BY <1>1, <1>2, <1>3, <1>4 DEF Stored, Known

LEMMA StoredAltered ==
  ASSUME Stored, Sized, NEW v, NEW elems, NEW new, NEW freed, NEW buf,
         Altered(v, elems, new, freed, buf)
  PROVE  Stored'
<1>1. heap' \in Seq(Objects) /\ Len(heap') <= MaxObjects /\ DOMAIN heap' = DOMAIN heap
  BY AlteredFacts DEF Stored
<1>2. Known' = Known
  BY AlteredFacts DEF Known
<1>3. ASSUME NEW id \in DOMAIN heap'  PROVE heap'[id].elems \in Seq(Known)
  <2>1. elems \in Seq(Known) /\ \A i \in DOMAIN heap : heap[i].elems \in Seq(Known)
    BY DEF Stored, Altered
  <2>2. heap'[id].elems = IF id = v.n THEN elems ELSE heap[id].elems
    BY <1>1, AlteredFacts
  <2>. QED  BY <1>1, <2>1, <2>2
<1>4. held' \subseteq HandlesIn(heap') /\ lost' \in [Ids -> Nat]
  <2>1. held' = held /\ lost' = lost
    BY DEF Altered
  <2>2. HandlesIn(heap') = HandlesIn(heap)
    BY <1>1 DEF HandlesIn
  <2>. QED  BY <2>1, <2>2 DEF Stored
<1>5. releasing' \in Seq({w \in Known : IsObject(w)})
  <2>1. freed \in Seq(Known) /\ releasing' = ObjectsOf(freed)
    BY DEF Altered
  <2>2. \A id : ObjectsOf(freed) \in Seq({w \in Known : IsObject(w)})
    BY <2>1, KnownValues, ObjectsOfType
  <2>. QED  BY <2>1, <2>2
<1>. QED  BY <1>1, <1>2, <1>3, <1>4, <1>5 DEF Stored

LEMMA CascadeKnown ==
  ASSUME Stored, NEW v, Released(v)
  PROVE  /\ Cascade(heap, v) \in Seq({w \in Known : IsObject(w)})
         /\ \A id : Occurs(Cascade(heap, v), id)
                      = IF heap[v.n].refCount = 1 THEN Occurs(heap[v.n].elems, id) ELSE 0
<1>1. heap[v.n].elems \in Seq(Known)
  BY ReleasedFacts DEF Stored
<1>2. /\ ObjectsOf(heap[v.n].elems) \in Seq({w \in Known : IsObject(w)})
      /\ \A id : Occurs(ObjectsOf(heap[v.n].elems), id) = Occurs(heap[v.n].elems, id)
  <2>. DEFINE s == heap[v.n].elems
  <2>1. s \in Seq(Known)
    BY <1>1
  <2>. HIDE DEF s
  <2>2. \A id : /\ ObjectsOf(s) \in Seq({w \in Known : IsObject(w)})
                /\ Occurs(ObjectsOf(s), id) = Occurs(s, id)
    BY <2>1, KnownValues, ObjectsOfType
  <2>. QED  BY <2>2 DEF s
<1>. QED  BY <1>2, OccursEmpty DEF Cascade

LEMMA StoredReleased ==
  ASSUME Stored, NEW v, Released(v)
  PROVE  Stored'
<1>1. heap' \in Seq(Objects) /\ Len(heap') <= MaxObjects /\ DOMAIN heap' = DOMAIN heap
  BY ReleasedFacts DEF Stored
<1>2. Known' = Known
  BY ReleasedFacts DEF Known
<1>3. ASSUME NEW id \in DOMAIN heap'  PROVE heap'[id].elems \in Seq(Known)
  <2>1. heap[id].elems \in Seq(Known)
    BY <1>1 DEF Stored
  <2>2. heap'[id].elems = heap[id].elems
    BY <1>1, ReleasedFacts
  <2>. QED  BY <2>1, <2>2
<1>4. held' \subseteq HandlesIn(heap') /\ lost' \in [Ids -> Nat]
  <2>1. HandlesIn(heap') = HandlesIn(heap)
    BY <1>1 DEF HandlesIn
  <2>. QED  BY <2>1 DEF Stored, Released
<1>5. releasing' \in Seq({w \in Known : IsObject(w)})
  BY CascadeKnown, ReleasedFacts, ConcatProperties DEF Released
<1>. QED  BY <1>1, <1>2, <1>3, <1>4, <1>5 DEF Stored

LEMMA StoredStep ==
  ASSUME Stored, Sized, [ArraysNext]_arrayVars
  PROVE  Stored'
<1>1. CASE Nothing
  BY <1>1 DEF Nothing, Stored, Known
<1>2. CASE MadeOne
  BY <1>2, StoredMade DEF MadeOne
<1>3. CASE AlteredOne
  BY <1>3, StoredAltered DEF AlteredOne
<1>4. ASSUME NEW v, GivenUp(v)  PROVE Stored'
  <2>1. v \in Known /\ IsObject(v)
    BY <1>4, ElementsKnown DEF GivenUp, Elements
  <2>2. releasing' \in Seq({w \in Known : IsObject(w)})
    BY <1>4, <2>1 DEF GivenUp
  <2>3. Known' = Known /\ UNCHANGED <<heap, lost>> /\ held' \subseteq held
    BY <1>4 DEF GivenUp, Known
  <2>. QED  BY <2>2, <2>3 DEF Stored
<1>5. ASSUME NEW v, Released(v)  PROVE Stored'
  BY <1>5, StoredReleased
<1>. QED  BY <1>1, <1>2, <1>3, <1>4, <1>5, StepKinds DEF Kinds

-----------------------------------------------------------------------------
\* The storage.

LEMMA SizedInitial == ArraysInit => Sized
BY DEF ArraysInit, Sized, Arrays

LEMMA SizedMade ==
  ASSUME Stored, Sized, NEW type, NEW elems, NEW buf, Made(type, elems, buf)
  PROVE  Sized'
<1>. DEFINE new == NewId(heap)
<1>1. /\ DOMAIN heap = 1..Len(heap) /\ Len(heap) \in Nat /\ Len(buffers) = Len(heap)
      /\ buffers \in Seq(Holding) /\ buf \in Holding /\ buffers' = Append(buffers, buf)
  BY HeapFacts DEF Sized, Made
<1>2. /\ buffers' \in Seq(Holding) /\ Len(buffers') = Len(heap) + 1
      /\ \A id \in 1..Len(heap) : buffers'[id] = buffers[id]
      /\ buffers'[new] = buf
  BY <1>1, AppendProperties DEF NewId
<1>3. /\ Len(heap') = Len(heap) + 1 /\ DOMAIN heap' = DOMAIN heap \union {new}
      /\ \A id \in DOMAIN heap : heap'[id].elems = heap[id].elems
      /\ heap'[new].elems = elems
  BY MadeFacts
<1>. HIDE DEF new
<1>4. ASSUME NEW id \in DOMAIN heap', heap'[id].elems # <<>>
      PROVE  buffers'[id].count = Len(heap'[id].elems)
  <2>1. CASE id \in DOMAIN heap
    BY <1>1, <1>2, <1>3, <1>4, <2>1 DEF Sized
  <2>2. CASE id = new
    BY <1>2, <1>3, <1>4, <2>2 DEF Made
  <2>. QED  BY <1>3, <2>1, <2>2
<1>5. ASSUME NEW v \in held', v.type = "Array"
      PROVE  buffers'[v.n].count = Len(heap'[v.n].elems)
  <2>1. CASE v \in held
    <3>1. v \in Arrays /\ v.n \in DOMAIN heap
      BY <1>5, <2>1, ArrayFacts DEF Arrays
    <3>. QED  BY <1>1, <1>2, <1>3, <3>1 DEF Sized, Elems
  <2>2. CASE v = ObjectValue(type, new)
    <3>1. v.n = new /\ type = "Array"
      BY <1>5, <2>2 DEF ObjectValue
    <3>. QED  BY <1>2, <1>3, <3>1 DEF Made
  <2>. QED  BY <1>5, <2>1, <2>2 DEF Made, new
<1>. QED  BY <1>2, <1>3, <1>4, <1>5 DEF Sized, Arrays, Elems

LEMMA SizedAltered ==
  ASSUME Stored, Sized, NEW v, NEW elems, NEW new, NEW freed, NEW buf,
         Altered(v, elems, new, freed, buf)
  PROVE  Sized'
<1>1. /\ DOMAIN heap = 1..Len(heap) /\ Len(buffers) = Len(heap) /\ buffers \in Seq(Holding)
      /\ buf \in Holding /\ buf.count = Len(elems) /\ buffers' = [buffers EXCEPT ![v.n] = buf]
      /\ v \in Arrays /\ held' = held
  BY HeapFacts DEF Sized, Altered
<1>2. /\ Len(heap') = Len(heap) /\ DOMAIN heap' = DOMAIN heap /\ v.n \in DOMAIN heap
      /\ \A id \in DOMAIN heap : heap'[id].elems = IF id = v.n THEN elems ELSE heap[id].elems
  BY AlteredFacts
<1>3. /\ buffers' \in Seq(Holding) /\ Len(buffers') = Len(heap)
      /\ \A id \in DOMAIN heap : buffers'[id] = IF id = v.n THEN buf ELSE buffers[id]
  BY <1>1, <1>2, ExceptSeq
<1>4. ASSUME NEW id \in DOMAIN heap', heap'[id].elems # <<>>
      PROVE  buffers'[id].count = Len(heap'[id].elems)
  BY <1>1, <1>2, <1>3, <1>4 DEF Sized
<1>5. ASSUME NEW w \in held', w.type = "Array"
      PROVE  buffers'[w.n].count = Len(heap'[w.n].elems)
  <2>1. w \in Arrays /\ w.n \in DOMAIN heap
    BY <1>1, <1>5, ArrayFacts DEF Arrays
  <2>. QED  BY <1>1, <1>2, <1>3, <2>1 DEF Sized, Elems
<1>. QED  BY <1>2, <1>3, <1>4, <1>5 DEF Sized, Arrays, Elems

LEMMA SizedStep ==
  ASSUME Stored, Sized, [ArraysNext]_arrayVars
  PROVE  Sized'
<1>1. CASE Nothing
  BY <1>1 DEF Nothing, Sized, Arrays, Elems
<1>2. CASE MadeOne
  BY <1>2, SizedMade DEF MadeOne
<1>3. CASE AlteredOne
  BY <1>3, SizedAltered DEF AlteredOne
<1>4. ASSUME NEW v, GivenUp(v)  PROVE Sized'
  BY <1>4 DEF GivenUp, Sized, Arrays, Elems
<1>5. ASSUME NEW v, Released(v)  PROVE Sized'
  <2>1. /\ Len(heap') = Len(heap) /\ DOMAIN heap' = DOMAIN heap
        /\ \A id \in DOMAIN heap : heap'[id].elems = heap[id].elems
    BY <1>5, ReleasedFacts
  <2>2. UNCHANGED <<buffers, held>>
    BY <1>5 DEF Released
  <2>3. Arrays' = Arrays /\ \A w \in Arrays : w.n \in DOMAIN heap
    BY <2>2, ArrayFacts DEF Arrays
  <2>. QED  BY <2>1, <2>2, <2>3 DEF Sized, Elems
<1>. QED  BY <1>1, <1>2, <1>3, <1>4, <1>5, StepKinds DEF Kinds

\* No count passes its capacity, and every capacity is one that the code reaches by
\* doubling, in every object and after every operation of the library
\* (akw_vector_ensure_capacity, akw_array_inplace_concat, akw_array_remove_at).
THEOREM StorageAlwaysOK == ArraysSpec => []StorageOK
<1>1. Stored /\ Sized => StorageOK
  <2>. SUFFICES ASSUME Stored, Sized  PROVE StorageOK
    OBVIOUS
  <2>1. DOMAIN heap = 1..Len(buffers) /\ \A id \in DOMAIN heap : heap[id] \in Objects
    BY HeapFacts DEF Sized
  <2>2. \A id \in DOMAIN heap : buffers[id] \in Holding
    BY <2>1, ElementOfSeq DEF Sized
  <2>. QED  BY <2>1, <2>2 DEF StorageOK, Sized, Holding
<1>. QED
  BY <1>1, StoredInitial, StoredStep, SizedInitial, SizedStep, PTL DEF ArraysSpec

-----------------------------------------------------------------------------
\* Writing behind the end.

\* Storage is too small only if it was asked to be smaller than the array.
LEMMA GiveArrayOverruns ==
  ASSUME status = "ok", NEW elems, NEW need \in Int, Len(elems) \in Nat,
         GiveArray(elems, need), status' = "overran"
  PROVE  need < Len(elems)
<1>. DEFINE buf == [WithCapacity(need) EXCEPT !.count = Len(elems)]
<1>1. ~Refused(need) /\ buf.count > buf.capacity
  BY DEF GiveArray, Refuse, Give
<1>2. buf.count = Len(elems) /\ buf.capacity = Grown(MinCapacity, need)
  BY DEF WithCapacity
<1>3. need <= Grown(MinCapacity, need) /\ Grown(MinCapacity, need) \in Nat
  <2>1. MinCapacity \in Capacities /\ need <= MaxCapacity
    BY <1>1, CapacityBounds DEF Refused
  <2>2. Grown(MinCapacity, need) \in Capacities /\ need <= Grown(MinCapacity, need)
    BY <2>1, GrownIsLeast
  <2>. QED  BY <2>2, CapacityBounds
<1>. HIDE DEF buf
<1>. QED  BY <1>1, <1>2, <1>3

LEMMA OverrunNeedsOverflow ==
  ASSUME Stored, Sized, ArraysNext, status' = "overran"
  PROVE  \E v, w \in Arrays : Len(Elems(v)) + Len(Elems(w)) > IntMax
<1>1. status = "ok"
  <2>1. CASE Making
    BY <2>1 DEF Making, NewString, New, Copy, Appended, With, Without, Concat, Calls, Idle
  <2>2. CASE Changing
    BY <2>2 DEF Changing, Reserve, InplaceAppend, InplaceSet, InplaceRemoveAt, InplaceConcat,
                Clear, Calls, Idle
  <2>3. CASE ReleaseObject \/ UseFreed \/ \E v \in held : Drop(v)
    BY <2>3 DEF ReleaseObject, UseFreed, Drop, Calls, Idle
  <2>. QED  BY <2>1, <2>2, <2>3 DEF ArraysNext
<1>2. \A v \in Arrays : Len(Elems(v)) \in 0..MaxCapacity /\ Elems(v) \in Seq(Known)
  BY ArrayFacts
<1>3. ASSUME NEW capacity \in Capacities, New(capacity)  PROVE FALSE
  <2>1. capacity \in Nat /\ GiveArray(<<>>, capacity) /\ Len(<<>>) = 0
    BY <1>3, CapacityBounds DEF New
  <2>2. capacity < Len(<<>>)
    BY <1>1, <2>1, GiveArrayOverruns
  <2>. QED  BY <2>1, <2>2
<1>4. ASSUME NEW v \in Arrays, Copy(v)  PROVE FALSE
  <2>. DEFINE n == Len(Elems(v))
  <2>1. n \in Nat /\ GiveArray(Elems(v), n)
    BY <1>2, <1>4, SmallFacts DEF Copy
  <2>2. n < n
    BY <1>1, <2>1, GiveArrayOverruns
  <2>. HIDE DEF n
  <2>. QED  BY <2>1, <2>2
<1>5. ASSUME NEW v \in Arrays, NEW e \in Elements, NEW i \in Indices(v), With(v, i, e)
      PROVE  FALSE
  <2>. DEFINE n == Len(Elems(v))
              s == ReplaceAt(Elems(v), i, e)
  <2>1. n \in Nat /\ GiveArray(s, n)
    BY <1>2, <1>5, SmallFacts DEF With
  <2>2. Len(s) = n
    <3>1. e \in Known /\ Elems(v) \in Seq(Known) /\ i \in DOMAIN Elems(v)
      BY <1>2, ElementsKnown DEF Indices
    <3>2. i \in 1..Len(Elems(v))
      BY <3>1, LenProperties
    <3>. QED  BY <3>1, <3>2, ExceptSeq DEF ReplaceAt
  <2>3. n < Len(s)
    <3>. HIDE DEF s
    <3>. QED  BY <1>1, <2>1, <2>2, GiveArrayOverruns
  <2>. HIDE DEF n, s
  <2>. QED  BY <2>1, <2>2, <2>3
<1>6. ASSUME NEW v \in Arrays, NEW e \in Elements, Appended(v, e)
      PROVE  Len(Elems(v)) + Len(Elems(v)) > IntMax
  <2>. DEFINE n == Len(Elems(v))
              s == Append(Elems(v), e)
              need == IntSum(n, 1)
  <2>1. n \in 0..MaxCapacity /\ 1 \in 0..MaxCapacity /\ MaxCapacity \in Nat
    BY <1>2, SmallFacts
  <2>2. GiveArray(s, need)
    BY <1>6 DEF Appended
  <2>3. Len(s) = n + 1
    BY <1>2, ElementsKnown, AppendProperties
  <2>4. /\ need \in Int
        /\ n + 1 <= IntMax => need = n + 1
        /\ n + 1 > IntMax => n = MaxCapacity /\ 1 = MaxCapacity
    <3>. HIDE DEF n
    <3>. QED  BY <2>1, SumOfCounts
  <2>5. need < Len(s)
    <3>. HIDE DEF n, s, need
    <3>1. Len(s) \in Nat
      BY <2>1, <2>3
    <3>. QED  BY <1>1, <2>2, <2>4, <3>1, GiveArrayOverruns
  <2>6. n + 1 > IntMax
    <3>1. IntMax \in Int
      BY <2>1 DEF IntMax
    <3>. HIDE DEF n, s, need
    <3>. QED  BY <2>1, <2>3, <2>4, <2>5, <3>1
  <2>7. n = 1
    BY <2>4, <2>6
  <2>. QED  BY <2>6, <2>7
<1>7. ASSUME NEW v \in Arrays, NEW w \in Arrays, Concat(v, w)
      PROVE  Len(Elems(v)) + Len(Elems(w)) > IntMax
  <2>. DEFINE n == Len(Elems(v))
              m == Len(Elems(w))
              s == Elems(v) \o Elems(w)
              need == IntSum(n, m)
  <2>1. n \in 0..MaxCapacity /\ m \in 0..MaxCapacity /\ MaxCapacity \in Nat
    BY <1>2, SmallFacts
  <2>2. GiveArray(s, need)
    BY <1>7 DEF Concat
  <2>3. Len(s) = n + m
    BY <1>2, ConcatProperties
  <2>4. need \in Int /\ (n + m <= IntMax => need = n + m)
    <3>. HIDE DEF n, m
    <3>. QED  BY <2>1, SumOfCounts
  <2>5. need < Len(s)
    <3>. HIDE DEF n, m, s, need
    <3>1. Len(s) \in Nat
      BY <2>1, <2>3
    <3>. QED  BY <1>1, <2>2, <2>4, <3>1, GiveArrayOverruns
  <2>6. IntMax \in Int
    BY <2>1 DEF IntMax
  <2>. HIDE DEF n, m, s, need
  <2>. QED  BY <2>1, <2>3, <2>4, <2>5, <2>6 DEF n, m
<1>8. CASE Making
  <2>1. \A v \in Arrays : \A i \in Indices(v) : ~Without(v, i)
    BY <1>1 DEF Without
  <2>2. ~NewString(MaxCapacity)
    BY <1>1 DEF NewString, Give
  <2>. QED  BY <1>3, <1>4, <1>5, <1>6, <1>7, <1>8, <2>1, <2>2 DEF Making
<1>9. CASE Changing
  BY <1>1, <1>9 DEF Changing, Reserve, InplaceAppend, InplaceSet, InplaceRemoveAt, InplaceConcat,
                    Clear, Change, Refuse
<1>10. CASE ReleaseObject \/ UseFreed \/ \E v \in held : Drop(v)
  BY <1>1, <1>10 DEF ReleaseObject, UseFreed, Drop
<1>. QED  BY <1>8, <1>9, <1>10 DEF ArraysNext

\* The only operation that writes behind the end of an array is akw_array_concat
\* (and akw_array_append where the largest array has one element), and it does so
\* only when the sum of the two counts is more than an int holds (array.c:220).
THEOREM OverrunsNeedOverflow == ArraysSpec => OverrunsOnlyByOverflow
<1>1. Stored /\ Sized /\ [ArraysNext]_arrayVars
        => [status' = "overran" =>
              \E v, w \in Arrays : Len(Elems(v)) + Len(Elems(w)) > IntMax]_arrayVars
  BY OverrunNeedsOverflow
<1>. QED
  BY <1>1, StoredInitial, StoredStep, SizedInitial, SizedStep, PTL
  DEF ArraysSpec, OverrunsOnlyByOverflow

-----------------------------------------------------------------------------
\* Counting who holds an object.

Marks(s, id) == {j \in DOMAIN s : IsObject(s[j]) /\ s[j].n = id}

\* The elements of the live arrays, a row for each of them.
LiveRows(h) == [o \in {q \in DOMAIN h : h[q].live} |-> h[o].elems]

\* How often id is an element of object o.
Own(h, o, id) == IF o \in DOMAIN h /\ h[o].live THEN Occurs(h[o].elems, id) ELSE 0

\* A heap whose arrays are as short as their storage makes them.
Fits(h) ==
  /\ h \in Seq(Objects) /\ Len(h) <= MaxObjects
  /\ \A id \in DOMAIN h : Len(h[id].elems) <= MaxCapacity

LEMMA HeapFits ==
  ASSUME NEW h \in Seq(Objects), Len(h) <= MaxObjects,
         NEW b \in Seq(Holding), Len(b) = Len(h),
         \A id \in DOMAIN h : h[id].elems # <<>> => b[id].count = Len(h[id].elems)
  PROVE  Fits(h)
<1>1. ASSUME NEW id \in DOMAIN h  PROVE Len(h[id].elems) <= MaxCapacity
  <2>1. id \in 1..Len(b)
    BY LenProperties
  <2>2. b[id].count <= MaxCapacity
    BY <2>1, ElementOfSeq DEF Holding, Buffers
  <2>3. CASE h[id].elems = <<>>
    BY <2>3, SmallFacts
  <2>4. CASE h[id].elems # <<>>
    BY <2>2, <2>4
  <2>. QED  BY <2>3, <2>4
<1>. QED  BY <1>1 DEF Fits

LEMMA PlacesAre ==
  ASSUME NEW h, NEW id
  PROVE  \A p : p \in Places(h, id) <=>
           \E o \in DOMAIN h : h[o].live /\ \E i \in Marks(h[o].elems, id) : p = <<o, i>>
BY DEF Places, Marks

\* The places of id are the entries that are id of a table.
LEMMA PlacesAreEntries ==
  ASSUME NEW h, Fits(h)
  PROVE  /\ MaxObjects \in Nat /\ MaxCapacity \in Nat
         /\ Fitting(LiveRows(h), Values, MaxObjects, MaxCapacity)
         /\ \A id : Places(h, id) = Entries(LiveRows(h), Refs(id))
         /\ \A o, id : Own(h, o, id) = InRow(LiveRows(h), o, Refs(id))
<1>. DEFINE rows == LiveRows(h)
<1>1. DOMAIN rows = {o \in DOMAIN h : h[o].live} /\ \A o \in DOMAIN rows : rows[o] = h[o].elems
  BY DEF LiveRows
<1>2. ASSUME NEW o \in DOMAIN h
      PROVE  o \in 1..MaxObjects /\ h[o].elems \in Seq(Values) /\ Len(h[o].elems) <= MaxCapacity
  <2>1. h[o] \in Objects /\ o \in 1..Len(h)
    BY ElementOfSeq, LenProperties DEF Fits
  <2>. QED  BY <2>1, SmallFacts DEF Fits, Objects
<1>. HIDE DEF rows
<1>3. Fitting(rows, Values, MaxObjects, MaxCapacity)
  BY <1>1, <1>2 DEF Fitting
<1>4. ASSUME NEW id, NEW o \in DOMAIN rows
      PROVE  /\ Marks(rows[o], id) = Matches(rows[o], Refs(id))
             /\ Occurs(rows[o], id) = Occurrences(rows[o], Refs(id))
  <2>1. rows[o] \in Seq(Values)
    BY <1>3 DEF Fitting
  <2>2. \A j \in DOMAIN rows[o] : rows[o][j] \in Values
    BY <2>1, ElementOfSeq, LenProperties
  <2>. QED  BY <2>1, <2>2, OccursIsOccurrences DEF Marks, Matches, Refs
<1>5. ASSUME NEW id  PROVE Places(h, id) = Entries(rows, Refs(id))
  <2>1. \A p : p \in Places(h, id) <=> \E o \in DOMAIN rows : \E i \in Marks(rows[o], id) : p = <<o, i>>
    BY <1>1, PlacesAre
  <2>2. \A p : p \in Places(h, id) <=> p \in Entries(rows, Refs(id))
    BY <1>4, <2>1, EntriesAre
  <2>. QED  BY <2>2
<1>6. ASSUME NEW o, NEW id  PROVE Own(h, o, id) = InRow(rows, o, Refs(id))
  BY <1>1, <1>4 DEF Own, InRow
<1>. QED  BY <1>3, <1>5, <1>6, SmallFacts DEF rows

LEMMA PlacesFinite ==
  ASSUME NEW h, Fits(h), NEW id
  PROVE  IsFiniteSet(Places(h, id))
BY PlacesAreEntries, EntriesFinite

\* A heap in which only object o differs.
LEMMA PlacesChange ==
  ASSUME NEW h, Fits(h), NEW g, Fits(g), NEW o, DOMAIN h \ {o} = DOMAIN g \ {o},
         \A p \in DOMAIN h \ {o} : h[p].live = g[p].live /\ h[p].elems = g[p].elems,
         NEW id
  PROVE  /\ Cardinality(Places(h, id)) \in Nat /\ Cardinality(Places(g, id)) \in Nat
         /\ Own(h, o, id) \in Nat /\ Own(g, o, id) \in Nat
         /\ Cardinality(Places(g, id)) + Own(h, o, id) = Cardinality(Places(h, id)) + Own(g, o, id)
<1>. DEFINE rows == LiveRows(h)
            others == LiveRows(g)
<1>1. SameBut(rows, others, o)
  BY DEF LiveRows, SameBut
<1>2. /\ MaxObjects \in Nat /\ MaxCapacity \in Nat
      /\ Fitting(rows, Values, MaxObjects, MaxCapacity)
      /\ Fitting(others, Values, MaxObjects, MaxCapacity)
      /\ Places(h, id) = Entries(rows, Refs(id)) /\ Places(g, id) = Entries(others, Refs(id))
      /\ Own(h, o, id) = InRow(rows, o, Refs(id)) /\ Own(g, o, id) = InRow(others, o, Refs(id))
  BY PlacesAreEntries
<1>. HIDE DEF rows, others
<1>3. \A M :
        /\ Cardinality(Entries(rows, M)) \in Nat /\ Cardinality(Entries(others, M)) \in Nat
        /\ InRow(rows, o, M) \in Nat /\ InRow(others, o, M) \in Nat
        /\ Cardinality(Entries(others, M)) + InRow(rows, o, M)
             = Cardinality(Entries(rows, M)) + InRow(others, o, M)
  BY <1>1, <1>2, EntriesChange
<1>. QED  BY <1>2, <1>3

-----------------------------------------------------------------------------
\* The reference counts.

\* Every reference counted is one of a holder, but for those given back in excess;
\* what has been freed has none, and nothing has been lost of what is not there yet.
Counted ==
  /\ \A id \in DOMAIN heap :
       /\ heap[id].live \/ lost[id] = 0 => heap[id].refCount = Holders(id) - lost[id]
       /\ ~heap[id].live => heap[id].refCount = 0
  /\ \A id \in Ids : lost[id] # 0 => id \in DOMAIN heap

HeldAs(id) == {v \in held : v.n = id}

LEMMA HeldFinite ==
  ASSUME Stored, NEW id
  PROVE  IsFiniteSet(HeldAs(id)) /\ Cardinality(HeldAs(id)) \in Nat
<1>. DEFINE a == ObjectValue("Array", id)
            s == ObjectValue("String", id)
<1>1. ASSUME NEW v \in HeldAs(id)  PROVE v = a \/ v = s
  <2>1. PICK type \in {"Array", "String"}, i \in DOMAIN heap : v = ObjectValue(type, i)
    BY DEF HeldAs, Stored, HandlesIn
  <2>2. v.n = i /\ v.n = id
    BY <2>1 DEF ObjectValue, HeldAs
  <2>. QED  BY <2>1, <2>2
<1>2. IsFiniteSet({a} \union {s})
  BY FS_Singleton, FS_Union
<1>3. HeldAs(id) \in SUBSET ({a} \union {s})
  <2>. HIDE DEF a, s
  <2>. QED  BY <1>1
<1>. QED  BY <1>2, <1>3, FS_Subset, FS_CardinalityType

LEMMA HoldersAre ==
  ASSUME Stored, Sized, NEW id
  PROVE  /\ Holders(id) = Cardinality(HeldAs(id)) + Cardinality(Places(heap, id))
                            + Occurs(releasing, id)
         /\ Cardinality(HeldAs(id)) \in Nat /\ Cardinality(Places(heap, id)) \in Nat
         /\ Occurs(releasing, id) \in Nat
<1>1. Cardinality(Places(heap, id)) \in Nat
  <2>1. Fits(heap)
    BY HeapFits DEF Stored, Sized
  <2>. QED  BY <2>1, PlacesFinite, FS_CardinalityType
<1>2. Occurs(releasing, id) \in Nat
  <2>1. {v \in Known : IsObject(v)} \subseteq Values
    BY KnownValues
  <2>. QED  BY <2>1, OccursIsOccurrences DEF Stored
<1>. QED  BY <1>1, <1>2, HeldFinite DEF Holders, HeldAs

LEMMA CountedInitial == ArraysInit => Counted
BY SmallFacts DEF ArraysInit, Counted

\* No element that has not been freed is an object that has been.
LEMMA UnfreedOccurs ==
  ASSUME Stored, NEW s \in Seq(Known), Unfreed(s), NEW id \in DOMAIN heap, ~heap[id].live
  PROVE  Occurs(s, id) = 0
<1>1. {i \in DOMAIN s : IsObject(s[i]) /\ s[i].n = id} = {}
  BY DEF Unfreed, Freed
<1>. QED  BY <1>1, FS_EmptySet DEF Occurs

\* Nor is what nobody knows among what is known.
LEMMA UnknownOccurs ==
  ASSUME NEW s \in Seq(Known), NEW id, id \notin DOMAIN heap
  PROVE  Occurs(s, id) = 0
<1>1. \A i \in DOMAIN s : s[i] \in Known
  BY ElementOfSeq, LenProperties
<1>2. {i \in DOMAIN s : IsObject(s[i]) /\ s[i].n = id} = {}
  BY <1>1 DEF Known, KnownIn
<1>. QED  BY <1>2, FS_EmptySet DEF Occurs

\* What is released now, and what is released in excess.
LEMMA LostFacts ==
  ASSUME Stored, releasing = <<>>, NothingLost \/ OneLost
  PROVE  /\ \A id \in Ids :
              /\ lost[id] \in Nat /\ lost'[id] \in Nat
              /\ Occurs(releasing', id) \in Nat /\ lost'[id] = lost[id] + Occurs(releasing', id)
         /\ releasing' \in Seq(Known)
<1>1. \A id : Occurs(<<>>, id) = 0
  BY OccursEmpty
<1>2. lost \in [Ids -> Nat]
  BY DEF Stored
<1>3. CASE NothingLost
  BY <1>1, <1>2, <1>3 DEF NothingLost
<1>4. CASE OneLost
  <2>1. PICK e \in Known : /\ releasing' = IF IsObject(e) THEN <<e>> ELSE <<>>
                           /\ lost' = IF IsObject(e) THEN [lost EXCEPT ![e.n] = @ + 1] ELSE lost
    BY <1>4 DEF OneLost
  <2>2. CASE ~IsObject(e)
    BY <1>1, <1>2, <2>1, <2>2
  <2>3. CASE IsObject(e)
    <3>1. releasing' = <<e>> /\ lost' = [lost EXCEPT ![e.n] = @ + 1] /\ e \in Values
      BY <2>1, <2>3, KnownValues
    <3>2. \A id : Occurs(<<e>>, id) = IF e.n = id THEN 1 ELSE 0
      BY <2>3, <3>1, OccursSingle
    <3>. QED  BY <1>2, <3>1, <3>2
  <2>. QED  BY <2>2, <2>3
<1>. QED  BY <1>3, <1>4

LEMMA CountedMade ==
  ASSUME Stored, Sized, Counted, Stored', Sized',
         NEW type, NEW elems, NEW buf, Made(type, elems, buf), NothingLost \/ OneLost
  PROVE  Counted'
<1>. DEFINE new == NewId(heap)
<1>1. /\ DOMAIN heap' = DOMAIN heap \union {new} /\ new \notin DOMAIN heap
      /\ \A id \in DOMAIN heap :
           /\ heap'[id].refCount = heap[id].refCount + Occurs(elems, id)
           /\ heap'[id].live = heap[id].live /\ heap'[id].elems = heap[id].elems
      /\ heap'[new].refCount = 1 /\ heap'[new].live /\ heap'[new].elems = elems
  <2>1. DOMAIN heap' = DOMAIN heap \union {new} /\ new \notin DOMAIN heap
    BY MadeFacts
  <2>2. \A id \in DOMAIN heap :
          /\ heap'[id].refCount = heap[id].refCount + Occurs(elems, id)
          /\ heap'[id].live = heap[id].live /\ heap'[id].elems = heap[id].elems
    BY MadeFacts
  <2>3. heap'[new].refCount = 1 /\ heap'[new].live /\ heap'[new].elems = elems
    BY MadeFacts
  <2>. QED  BY <2>1, <2>2, <2>3
<1>2. /\ elems \in Seq(Known) /\ Unfreed(elems) /\ releasing = <<>>
      /\ held' = held \union {ObjectValue(type, new)}
  BY DEF Made
<1>3. Fits(heap) /\ Fits(heap')
  BY HeapFits DEF Stored, Sized
<1>4. /\ \A id \in Ids :
           /\ lost[id] \in Nat /\ lost'[id] \in Nat
           /\ Occurs(releasing', id) \in Nat /\ lost'[id] = lost[id] + Occurs(releasing', id)
      /\ releasing' \in Seq(Known)
  BY <1>2, LostFacts
<1>5. \A id \in DOMAIN heap : id \in Ids /\ heap[id].refCount \in Int
  BY HeapFacts
<1>6. \A id \in DOMAIN heap' : id \in Ids
  BY <1>3, LenProperties, SmallFacts DEF Fits, Ids
<1>. HIDE DEF new
<1>7. ASSUME NEW id
      PROVE  /\ Cardinality(Places(heap', id)) = Cardinality(Places(heap, id)) + Occurs(elems, id)
             /\ Occurs(elems, id) \in Nat
  <2>1. DOMAIN heap \ {new} = DOMAIN heap' \ {new}
    BY <1>1
  <2>2. /\ Cardinality(Places(heap, id)) \in Nat /\ Cardinality(Places(heap', id)) \in Nat
        /\ Own(heap, new, id) \in Nat /\ Own(heap', new, id) \in Nat
        /\ Cardinality(Places(heap', id)) + Own(heap, new, id)
             = Cardinality(Places(heap, id)) + Own(heap', new, id)
    BY <1>1, <1>3, <2>1, PlacesChange
  <2>3. Own(heap, new, id) = 0 /\ Own(heap', new, id) = Occurs(elems, id)
    BY <1>1 DEF Own
  <2>. QED  BY <2>2, <2>3
<1>8. ASSUME NEW id
      PROVE  Holders(id)' = Cardinality(HeldAs(id)') + Cardinality(Places(heap', id))
                              + Occurs(releasing', id)
  BY DEF Holders, HeldAs, Places, Occurs
<1>9. ASSUME NEW id \in DOMAIN heap
      PROVE  /\ heap'[id].live \/ lost'[id] = 0 => heap'[id].refCount = Holders(id)' - lost'[id]
             /\ ~heap'[id].live => heap'[id].refCount = 0
  <2>1. HeldAs(id)' = HeldAs(id)
    BY <1>1, <1>2 DEF HeldAs, ObjectValue
  <2>2. /\ Holders(id) = Cardinality(HeldAs(id)) + Cardinality(Places(heap, id))
        /\ Cardinality(HeldAs(id)) \in Nat /\ Cardinality(Places(heap, id)) \in Nat
    BY <1>2, HoldersAre, OccursEmpty
  <2>3. Holders(id)' - lost'[id] = Holders(id) - lost[id] + Occurs(elems, id)
    BY <1>4, <1>5, <1>7, <1>8, <2>1, <2>2
  <2>4. /\ lost[id] \in Nat /\ lost'[id] \in Nat /\ Occurs(releasing', id) \in Nat
        /\ lost'[id] = lost[id] + Occurs(releasing', id)
    BY <1>4, <1>5
  <2>5. lost'[id] = 0 => lost[id] = 0
    BY <2>4
  <2>6. heap[id].live \/ lost[id] = 0 => heap[id].refCount = Holders(id) - lost[id]
    BY DEF Counted
  <2>7. heap'[id].live \/ lost'[id] = 0 => heap'[id].refCount = Holders(id)' - lost'[id]
    BY <1>1, <2>3, <2>5, <2>6
  <2>8. ~heap[id].live => heap[id].refCount = 0 /\ Occurs(elems, id) = 0
    BY <1>2, UnfreedOccurs DEF Counted
  <2>. QED  BY <1>1, <2>7, <2>8
<1>10. ASSUME NEW id, id = new  PROVE heap'[id].refCount = Holders(id)' - lost'[id]
  <2>1. HeldAs(id)' = {ObjectValue(type, id)}
    <3>1. \A v \in held : v.n # id
      BY <1>10, <1>1, ElementsKnown DEF Elements
    <3>. QED  BY <1>10, <1>2, <3>1 DEF HeldAs, ObjectValue
  <2>2. Cardinality(HeldAs(id)') = 1
    BY <2>1, FS_Singleton
  <2>3. Occurs(elems, id) = 0 /\ Occurs(releasing', id) = 0
    BY <1>10, <1>1, <1>2, <1>4, UnknownOccurs
  <2>4. Cardinality(Places(heap, id)) = 0
    <3>1. ASSUME NEW p \in Places(heap, id)  PROVE FALSE
      <4>1. PICK o \in DOMAIN heap : \E i \in Marks(heap[o].elems, id) : p = <<o, i>>
        BY PlacesAre
      <4>2. PICK i \in DOMAIN heap[o].elems : IsObject(heap[o].elems[i]) /\ heap[o].elems[i].n = id
        BY <4>1 DEF Marks
      <4>3. heap[o].elems[i] \in Known
        BY HeapFacts
      <4>. QED  BY <1>10, <1>1, <4>2, <4>3 DEF Known, KnownIn
    <3>2. Places(heap, id) = {}
      BY <3>1
    <3>. QED  BY <3>2, FS_EmptySet
  <2>5. lost[id] = 0 /\ lost'[id] = 0
    BY <1>10, <1>1, <1>4, <1>6, <2>3 DEF Counted
  <2>6. Holders(id)' = 1
    BY <1>10, <1>7, <1>8, <2>2, <2>3, <2>4
  <2>. QED  BY <1>10, <1>1, <2>5, <2>6
<1>11. ASSUME NEW id \in Ids, lost'[id] # 0  PROVE id \in DOMAIN heap'
  <2>1. CASE lost[id] # 0
    BY <1>1, <2>1 DEF Counted
  <2>2. CASE lost[id] = 0
    <3>1. Occurs(releasing', id) # 0
      BY <1>4, <1>11, <2>2
    <3>2. id \in DOMAIN heap
      BY <1>4, <3>1, UnknownOccurs
    <3>. QED  BY <1>1, <3>2
  <2>. QED  BY <2>1, <2>2
<1>. QED  BY <1>1, <1>9, <1>10, <1>11 DEF Counted, Ids

LEMMA CountedAltered ==
  ASSUME Stored, Sized, Counted, Stored', Sized',
         NEW v, NEW elems, NEW new, NEW freed, NEW buf, Altered(v, elems, new, freed, buf)
  PROVE  Counted'
<1>1. /\ DOMAIN heap' = DOMAIN heap /\ v.n \in DOMAIN heap /\ heap[v.n].live
      /\ \A id \in DOMAIN heap :
           /\ Occurs(new, id) \in Nat
           /\ heap'[id].refCount = heap[id].refCount + Occurs(new, id)
           /\ heap'[id].live = heap[id].live
           /\ heap'[id].elems = IF id = v.n THEN elems ELSE heap[id].elems
  BY AlteredFacts
<1>2. /\ new \in Seq(Known) /\ Unfreed(new) /\ freed \in Seq(Known)
      /\ releasing = <<>> /\ releasing' = ObjectsOf(freed)
      /\ held' = held /\ lost' = lost
      /\ \A id \in DOMAIN heap :
           Occurs(elems, id) + Occurs(freed, id) = Occurs(Elems(v), id) + Occurs(new, id)
  BY DEF Altered
<1>3. Fits(heap) /\ Fits(heap')
  BY HeapFits DEF Stored, Sized
<1>4. \A id \in DOMAIN heap : heap[id].refCount \in Int /\ lost[id] \in Nat
  BY HeapFacts DEF Stored
<1>5. ASSUME NEW id \in DOMAIN heap
      PROVE  /\ heap'[id].live \/ lost'[id] = 0 => heap'[id].refCount = Holders(id)' - lost'[id]
             /\ ~heap'[id].live => heap'[id].refCount = 0
  <2>1. /\ Cardinality(Places(heap, id)) \in Nat /\ Cardinality(Places(heap', id)) \in Nat
        /\ Own(heap, v.n, id) \in Nat /\ Own(heap', v.n, id) \in Nat
        /\ Cardinality(Places(heap', id)) + Own(heap, v.n, id)
             = Cardinality(Places(heap, id)) + Own(heap', v.n, id)
    BY <1>1, <1>3, PlacesChange
  <2>2. Own(heap, v.n, id) = Occurs(Elems(v), id) /\ Own(heap', v.n, id) = Occurs(elems, id)
    BY <1>1 DEF Own, Elems
  <2>3. Occurs(releasing', id) = Occurs(freed, id) /\ Occurs(freed, id) \in Nat
    BY <1>2, KnownValues, ObjectsOfType, OccursIsOccurrences
  <2>4. /\ Holders(id) = Cardinality(HeldAs(id)) + Cardinality(Places(heap, id))
        /\ Cardinality(HeldAs(id)) \in Nat
    BY <1>2, HoldersAre, OccursEmpty
  <2>5. Holders(id)' = Cardinality(HeldAs(id)) + Cardinality(Places(heap', id))
                         + Occurs(releasing', id)
    BY <1>2 DEF Holders, HeldAs, Places, Occurs
  <2>6. Occurs(elems, id) + Occurs(freed, id) = Occurs(Elems(v), id) + Occurs(new, id)
        /\ Occurs(new, id) \in Nat
    BY <1>1, <1>2
  <2>7. Holders(id)' = Holders(id) + Occurs(new, id)
    BY <2>1, <2>2, <2>3, <2>4, <2>5, <2>6
  <2>8. Holders(id) \in Nat
    BY <2>1, <2>4
  <2>9. heap[id].live \/ lost[id] = 0 => heap[id].refCount = Holders(id) - lost[id]
    BY DEF Counted
  <2>10. ~heap[id].live => heap[id].refCount = 0 /\ Occurs(new, id) = 0
    BY <1>2, UnfreedOccurs DEF Counted
  <2>. QED  BY <1>1, <1>2, <1>4, <2>6, <2>7, <2>8, <2>9, <2>10
<1>. QED  BY <1>1, <1>2, <1>5 DEF Counted, Ids

LEMMA CountedGivenUp ==
  ASSUME Stored, Sized, Counted, NEW v, GivenUp(v)
  PROVE  Counted'
<1>1. /\ v \in held /\ held' = held \ {v} /\ releasing = <<>> /\ releasing' = <<v>>
      /\ UNCHANGED <<heap, lost>>
  BY DEF GivenUp
<1>2. v \in Values /\ IsObject(v)
  BY <1>1, ElementsKnown, KnownValues DEF Elements
<1>3. ASSUME NEW id  PROVE Holders(id)' = Holders(id)
  <2>1. Occurs(releasing, id) = 0 /\ Occurs(releasing', id) = IF v.n = id THEN 1 ELSE 0
    BY <1>1, <1>2, OccursEmpty, OccursSingle
  <2>2. HeldAs(id)' = HeldAs(id) \ {v} /\ (v \in HeldAs(id) <=> v.n = id)
    BY <1>1 DEF HeldAs
  <2>3. IsFiniteSet(HeldAs(id)) /\ Cardinality(HeldAs(id)) \in Nat
    BY HeldFinite
  <2>4. Cardinality(HeldAs(id)') = Cardinality(HeldAs(id)) - (IF v.n = id THEN 1 ELSE 0)
    <3>1. Cardinality(HeldAs(id) \ {v})
            = IF v \in HeldAs(id) THEN Cardinality(HeldAs(id)) - 1 ELSE Cardinality(HeldAs(id))
      BY <2>3, FS_RemoveElement
    <3>. QED  BY <2>2, <2>3, <3>1
  <2>5. /\ Holders(id) = Cardinality(HeldAs(id)) + Cardinality(Places(heap, id))
                           + Occurs(releasing, id)
        /\ Cardinality(Places(heap, id)) \in Nat
    BY HoldersAre
  <2>6. Holders(id)' = Cardinality(HeldAs(id)') + Cardinality(Places(heap, id))
                         + Occurs(releasing', id)
    BY <1>1 DEF Holders, HeldAs, Occurs
  <2>. QED  BY <2>1, <2>3, <2>4, <2>5, <2>6
<1>. QED  BY <1>1, <1>3 DEF Counted, Ids

LEMMA CountedReleased ==
  ASSUME Stored, Sized, Counted, Stored', Sized', NEW v, Released(v)
  PROVE  Counted'
<1>. DEFINE last == heap[v.n].refCount = 1
<1>1. /\ DOMAIN heap' = DOMAIN heap
      /\ v \in Known /\ IsObject(v) /\ v.n \in DOMAIN heap /\ heap[v.n].live
      /\ Tail(releasing) \in Seq({w \in Known : IsObject(w)})
      /\ \A id \in DOMAIN heap :
           /\ heap'[id].refCount = IF id = v.n THEN heap[id].refCount - 1 ELSE heap[id].refCount
           /\ heap'[id].live = IF id = v.n THEN heap[id].refCount # 1 ELSE heap[id].live
           /\ heap'[id].elems = heap[id].elems
  BY ReleasedFacts
<1>2. /\ releasing # <<>> /\ v = Head(releasing)
      /\ releasing' = Cascade(heap, v) \o Tail(releasing)
      /\ UNCHANGED <<held, lost>>
  BY DEF Released
<1>3. Fits(heap) /\ Fits(heap')
  BY HeapFits DEF Stored, Sized
<1>4. \A id \in DOMAIN heap : heap[id].refCount \in Int /\ lost[id] \in Nat
  BY HeapFacts DEF Stored
<1>5. ASSUME NEW id \in DOMAIN heap
      PROVE  Holders(id)' = Holders(id) - (IF id = v.n THEN 1 ELSE 0) /\ Holders(id) \in Nat
  <2>. DEFINE own == Occurs(heap[v.n].elems, id)
  <2>1. /\ Cardinality(Places(heap, id)) \in Nat /\ Cardinality(Places(heap', id)) \in Nat
        /\ Own(heap, v.n, id) \in Nat /\ Own(heap', v.n, id) \in Nat
        /\ Cardinality(Places(heap', id)) + Own(heap, v.n, id)
             = Cardinality(Places(heap, id)) + Own(heap', v.n, id)
    BY <1>1, <1>3, PlacesChange
  <2>2. Own(heap, v.n, id) = own /\ Own(heap', v.n, id) = IF last THEN 0 ELSE own
    BY <1>1 DEF Own
  <2>3. {w \in Known : IsObject(w)} \subseteq Values
    BY KnownValues
  <2>4. /\ Occurs(releasing, id) = (IF id = v.n THEN 1 ELSE 0) + Occurs(Tail(releasing), id)
        /\ Occurs(Tail(releasing), id) \in Nat
    <3>1. Occurs(releasing, id) = Occurs(<<v>>, id) + Occurs(Tail(releasing), id)
      BY <1>2, <2>3, OccursHeadTail DEF Stored
    <3>2. Occurs(<<v>>, id) = IF id = v.n THEN 1 ELSE 0
      BY <1>1, KnownValues, OccursSingle
    <3>3. Occurs(Tail(releasing), id) \in Nat
      BY <1>1, <2>3, OccursIsOccurrences
    <3>. QED  BY <3>1, <3>2, <3>3
  <2>5. Occurs(releasing', id) = (IF last THEN own ELSE 0) + Occurs(Tail(releasing), id)
    <3>1. /\ Cascade(heap, v) \in Seq({w \in Known : IsObject(w)})
          /\ Occurs(Cascade(heap, v), id) = IF last THEN own ELSE 0
      BY CascadeKnown
    <3>2. Occurs(Cascade(heap, v) \o Tail(releasing), id)
            = Occurs(Cascade(heap, v), id) + Occurs(Tail(releasing), id)
      <4>. DEFINE S == {w \in Known : IsObject(w)}
                  s == Cascade(heap, v)
                  u == Tail(releasing)
      <4>1. S \subseteq Values /\ s \in Seq(S) /\ u \in Seq(S)
        BY <1>1, <2>3, <3>1
      <4>. HIDE DEF S, s, u
      <4>2. Occurs(s \o u, id) = Occurs(s, id) + Occurs(u, id)
        BY <4>1, OccursConcat
      <4>. QED  BY <4>2 DEF s, u
    <3>. QED  BY <1>2, <3>1, <3>2
  <2>6. /\ Holders(id) = Cardinality(HeldAs(id)) + Cardinality(Places(heap, id))
                           + Occurs(releasing, id)
        /\ Cardinality(HeldAs(id)) \in Nat
    BY HoldersAre
  <2>7. Holders(id)' = Cardinality(HeldAs(id)) + Cardinality(Places(heap', id))
                         + Occurs(releasing', id)
    BY <1>2 DEF Holders, HeldAs, Places, Occurs
  <2>. HIDE DEF own, last
  <2>. QED  BY <2>1, <2>2, <2>4, <2>5, <2>6, <2>7
<1>6. ASSUME NEW id \in DOMAIN heap
      PROVE  /\ heap'[id].live \/ lost'[id] = 0 => heap'[id].refCount = Holders(id)' - lost'[id]
             /\ ~heap'[id].live => heap'[id].refCount = 0
  <2>1. /\ heap[id].live \/ lost[id] = 0 => heap[id].refCount = Holders(id) - lost[id]
        /\ ~heap[id].live => heap[id].refCount = 0
    BY DEF Counted
  <2>2. Holders(id)' = Holders(id) - (IF id = v.n THEN 1 ELSE 0) /\ Holders(id) \in Nat
    BY <1>5
  <2>3. lost'[id] = lost[id] /\ lost[id] \in Nat /\ heap[id].refCount \in Int
    BY <1>2, <1>4
  <2>4. CASE id = v.n
    <3>1. heap'[id].refCount = heap[id].refCount - 1 /\ (heap'[id].live <=> heap[id].refCount # 1)
      BY <1>1, <2>4
    <3>2. heap[id].refCount = Holders(id) - lost[id] /\ Holders(id)' = Holders(id) - 1
      BY <1>1, <2>1, <2>2, <2>4
    <3>3. heap'[id].refCount = Holders(id)' - lost'[id]
      BY <2>2, <2>3, <3>1, <3>2
    <3>. QED  BY <2>3, <3>1, <3>3
  <2>5. CASE id # v.n
    BY <1>1, <2>1, <2>2, <2>3, <2>5
  <2>. QED  BY <2>4, <2>5
<1>. QED  BY <1>1, <1>2, <1>6 DEF Counted, Ids

LEMMA CountedStep ==
  ASSUME Stored, Sized, Counted, [ArraysNext]_arrayVars
  PROVE  Counted'
<1>1. Stored' /\ Sized'
  BY StoredStep, SizedStep
<1>2. CASE Nothing
  <2>1. UNCHANGED <<heap, held, releasing, lost>>
    BY <1>2 DEF Nothing
  <2>2. ASSUME NEW id  PROVE Holders(id)' = Holders(id)
    BY <2>1 DEF Holders, Places, Occurs
  <2>. QED  BY <2>1, <2>2 DEF Counted, Ids
<1>3. CASE MadeOne
  BY <1>1, <1>3, CountedMade DEF MadeOne
<1>4. CASE AlteredOne
  BY <1>1, <1>4, CountedAltered DEF AlteredOne
<1>5. ASSUME NEW v, GivenUp(v)  PROVE Counted'
  BY <1>5, CountedGivenUp
<1>6. ASSUME NEW v, Released(v)  PROVE Counted'
  BY <1>1, <1>6, CountedReleased
<1>. QED  BY <1>2, <1>3, <1>4, <1>5, <1>6, StepKinds DEF Kinds

\* Every operation, whether it shares, copies, replaces, refuses or frees, counts
\* each object once per holder, but for the references that akw_array_remove_at
\* (array.c:212) gives back without having held them.
THEOREM CountsAlwaysExact == ArraysSpec => []CountsExact
<1>1. Stored /\ Sized /\ Counted => CountsExact
  <2>. SUFFICES ASSUME Counted  PROVE CountsExact
    OBVIOUS
  <2>. QED  BY DEF Counted, CountsExact
<1>. QED
  BY <1>1, StoredInitial, StoredStep, SizedInitial, SizedStep, CountedInitial, CountedStep, PTL
  DEF ArraysSpec

-----------------------------------------------------------------------------
\* Use after free.

\* What is held, is in a live array or waits to be released has not been freed, as
\* long as no reference to it was given back in excess.
LEMMA HeldIsLive ==
  ASSUME Stored, Sized, Counted, NEW id \in DOMAIN heap, ~heap[id].live,
         \/ \E v \in held : v.n = id
         \/ \E o \in DOMAIN heap : heap[o].live /\ Marks(heap[o].elems, id) # {}
         \/ \E k \in DOMAIN releasing : IsObject(releasing[k]) /\ releasing[k].n = id
  PROVE  lost[id] > 0
<1>1. lost[id] \in Nat
  BY HeapFacts DEF Stored
<1>2. /\ Holders(id) = Cardinality(HeldAs(id)) + Cardinality(Places(heap, id))
                         + Occurs(releasing, id)
      /\ Cardinality(HeldAs(id)) \in Nat /\ Cardinality(Places(heap, id)) \in Nat
      /\ Occurs(releasing, id) \in Nat
  BY HoldersAre
<1>3. ASSUME lost[id] = 0
      PROVE  Cardinality(HeldAs(id)) = 0 /\ Cardinality(Places(heap, id)) = 0 /\ Occurs(releasing, id) = 0
  <2>1. heap[id].refCount = 0 /\ heap[id].refCount = Holders(id) - lost[id]
    BY <1>3 DEF Counted
  <2>2. Holders(id) \in Nat
    BY <1>2
  <2>3. Holders(id) = 0
    BY <1>3, <2>1, <2>2
  <2>. QED  BY <1>2, <2>3
<1>4. CASE \E v \in held : v.n = id
  <2>1. HeldAs(id) # {} /\ IsFiniteSet(HeldAs(id))
    BY <1>4, HeldFinite DEF HeldAs
  <2>2. Cardinality(HeldAs(id)) # 0
    BY <2>1, FS_EmptySet
  <2>. QED  BY <1>1, <1>3, <2>2
<1>5. CASE \E o \in DOMAIN heap : heap[o].live /\ Marks(heap[o].elems, id) # {}
  <2>1. Fits(heap)
    BY HeapFits DEF Stored, Sized
  <2>2. PICK o \in DOMAIN heap : heap[o].live /\ \E i : i \in Marks(heap[o].elems, id)
    BY <1>5
  <2>3. \E i : <<o, i>> \in Places(heap, id)
    BY <2>2, PlacesAre
  <2>4. Places(heap, id) # {} /\ IsFiniteSet(Places(heap, id))
    BY <2>1, <2>3, PlacesFinite
  <2>5. Cardinality(Places(heap, id)) # 0
    BY <2>4, FS_EmptySet
  <2>. QED  BY <1>1, <1>3, <2>5
<1>6. CASE \E k \in DOMAIN releasing : IsObject(releasing[k]) /\ releasing[k].n = id
  <2>. DEFINE J == Marks(releasing, id)
  <2>1. J # {} /\ IsFiniteSet(J)
    BY <1>6, IndicesFinite DEF Marks, Stored
  <2>2. Cardinality(J) # 0 /\ Occurs(releasing, id) = Cardinality(J)
    BY <2>1, FS_EmptySet DEF Marks, Occurs
  <2>. QED  BY <1>1, <1>3, <2>2
<1>. QED  BY <1>4, <1>5, <1>6

LEMMA UseNeedsLoss ==
  ASSUME Stored, Sized, Counted, FreedOnlyByRemoveAt, [ArraysNext]_arrayVars
  PROVE  FreedOnlyByRemoveAt'
<1>. SUFFICES ASSUME status' = "usedFreed"  PROVE \E id \in Ids : lost'[id] > 0
  BY DEF FreedOnlyByRemoveAt, Ids
<1>1. CASE UNCHANGED arrayVars
  BY <1>1 DEF arrayVars, FreedOnlyByRemoveAt
<1>2. CASE UseFreed
  <2>1. PICK v \in Arrays : \E w \in Reads(v) : Freed(w)
    BY <1>2 DEF UseFreed
  <2>2. v \in held /\ v.n \in DOMAIN heap /\ IsObject(v)
    BY ArrayFacts
  <2>3. CASE Freed(v)
    <3>1. lost[v.n] > 0 /\ v.n \in Ids
      BY <2>2, <2>3, HeldIsLive, HeapFacts DEF Freed
    <3>. QED  BY <1>2, <3>1 DEF UseFreed
  <2>4. CASE ~Freed(v)
    <3>. PICK w \in Reads(v) : Freed(w)
      BY <2>1
    <3>1. heap[v.n].live /\ w \in Range(Elems(v)) /\ Freed(w)
      BY <2>2, <2>4 DEF Freed, Reads
    <3>2. PICK i \in DOMAIN heap[v.n].elems : w = heap[v.n].elems[i]
      BY <3>1 DEF Range, Elems
    <3>3. w \in Known /\ IsObject(w) /\ ~heap[w.n].live
      BY <2>2, <3>1, <3>2, HeapFacts DEF Freed
    <3>4. w.n \in DOMAIN heap /\ i \in Marks(heap[v.n].elems, w.n)
      BY <3>2, <3>3 DEF Known, KnownIn, Marks
    <3>5. lost[w.n] > 0 /\ w.n \in Ids
      BY <2>2, <3>1, <3>3, <3>4, HeldIsLive, HeapFacts
    <3>. QED  BY <1>2, <3>5 DEF UseFreed
  <2>. QED  BY <2>3, <2>4
<1>3. CASE ReleaseObject
  <2>. DEFINE v == Head(releasing)
  <2>1. status = "ok" /\ releasing # <<>> /\ lost' = lost
    BY <1>3 DEF ReleaseObject
  <2>2. Freed(v)
    BY <1>3, <2>1 DEF ReleaseObject
  <2>3. v \in {w \in Known : IsObject(w)} /\ 1 \in DOMAIN releasing /\ v = releasing[1]
    <3>1. Len(releasing) \in Nat \ {0} /\ DOMAIN releasing = 1..Len(releasing)
      BY <2>1, LenProperties, EmptySeq DEF Stored
    <3>. QED  BY <2>1, <3>1, HeadTailProperties DEF Stored
  <2>. HIDE DEF v
  <2>4. v.n \in DOMAIN heap /\ IsObject(v) /\ ~heap[v.n].live
    BY <2>2, <2>3 DEF Known, KnownIn, Freed
  <2>5. lost[v.n] > 0 /\ v.n \in Ids
    BY <2>3, <2>4, HeldIsLive, HeapFacts
  <2>. QED  BY <2>1, <2>5
<1>4. CASE Making \/ Changing \/ \E v \in held : Drop(v)
  <2>1. status = "ok" /\ status' \in {"ok", "overran"}
    <3>1. CASE Making
      <4>1. \A elems, need : GiveArray(elems, need) => status' \in {status, "overran"}
        BY DEF GiveArray, Give, Refuse
      <4>2. \A type, obj, buf : Give(type, obj, buf) => status' = status
        BY DEF Give
      <4>. QED  BY <3>1, <4>1, <4>2 DEF Making, NewString, New, Copy, Appended, With, Without, Concat,
                                        Calls, Idle
    <3>2. CASE Changing
      <4>1. status' = status
        BY <3>2 DEF Changing, Reserve, InplaceAppend, InplaceSet, InplaceRemoveAt, InplaceConcat,
                    Clear, Change, Refuse
      <4>2. status = "ok"
        BY <3>2 DEF Changing, Reserve, InplaceAppend, InplaceSet, InplaceRemoveAt, InplaceConcat,
                    Clear, Calls, Idle
      <4>. QED  BY <4>1, <4>2
    <3>3. CASE \E v \in held : Drop(v)
      BY <3>3 DEF Drop, Calls, Idle
    <3>. QED  BY <1>4, <3>1, <3>2, <3>3
  <2>. QED  BY <2>1
<1>. QED  BY <1>1, <1>2, <1>3, <1>4 DEF ArraysNext

\* Memory that has been freed is used only after akw_array_remove_at was called on
\* an element that is an object: no other sequence of calls gets there.
THEOREM FreedOnlyAfterRemoveAt == ArraysSpec => []FreedOnlyByRemoveAt
<1>1. ArraysInit => FreedOnlyByRemoveAt
  BY DEF ArraysInit, FreedOnlyByRemoveAt
<1>. QED
  BY <1>1, StoredInitial, StoredStep, SizedInitial, SizedStep, CountedInitial, CountedStep,
     UseNeedsLoss, PTL
  DEF ArraysSpec

-----------------------------------------------------------------------------
\* What the caller can reach.

\* The objects in a sequence; everything that is held or in an array, and what is
\* in it.
ObjectsIn(s) == {w \in Range(s) : IsObject(w)}
Anywhere(h, own) == own \union UNION {ObjectsIn(h[id].elems) : id \in DOMAIN h}
Inside(h, own) == [v \in Anywhere(h, own) |-> ObjectsIn(h[v.n].elems)]

\* What is anywhere is the handle of an object, and an object has one handle.
OneEach(h, own) ==
  /\ Anywhere(h, own) \subseteq HandlesIn(h)
  /\ \A v, w \in Anywhere(h, own) : v.n = w.n => v = w

\* Reachable, of any heap.
ReachableIn(h, own) ==
  LET reach[k \in 0..Len(h)] ==
        IF k = 0 THEN {v \in own : IsObject(v)}
        ELSE LET nearer == reach[k - 1]
             IN nearer \union {w \in UNION {Range(h[v.n].elems) : v \in nearer} : IsObject(w)}
  IN reach[Len(h)]

LEMMA AnywhereFacts ==
  ASSUME NEW h \in Seq(Objects), NEW own, OneEach(h, own)
  PROVE  /\ IsFiniteSet(Anywhere(h, own)) /\ Cardinality(Anywhere(h, own)) <= Len(h)
         /\ own \in SUBSET Anywhere(h, own)
         /\ Inside(h, own) \in [Anywhere(h, own) -> SUBSET Anywhere(h, own)]
         /\ \A v \in Anywhere(h, own) :
              /\ IsObject(v) /\ v.n \in DOMAIN h
              /\ v.type \in {"Array", "String"} /\ v = ObjectValue(v.type, v.n)
              /\ Inside(h, own)[v] = ObjectsIn(h[v.n].elems)
<1>. DEFINE D == Anywhere(h, own)
            f == [v \in D |-> v.n]
<1>1. ASSUME NEW v \in D
      PROVE  /\ IsObject(v) /\ v.n \in DOMAIN h
             /\ v.type \in {"Array", "String"} /\ v = ObjectValue(v.type, v.n)
  <2>1. PICK type \in {"Array", "String"}, id \in DOMAIN h : v = ObjectValue(type, id)
    BY DEF OneEach, HandlesIn
  <2>. QED  BY <2>1, ObjectTypesAre DEF ObjectValue, IsObject
<1>2. Len(h) \in Nat /\ DOMAIN h = 1..Len(h)
  BY LenProperties
<1>3. f \in Injection(D, 1..Len(h))
  <2>1. \A v, w \in D : v.n = w.n => v = w
    BY DEF OneEach
  <2>. HIDE DEF D
  <2>2. f \in [D -> 1..Len(h)]
    BY <1>1, <1>2
  <2>3. \A v, w \in D : f[v] = f[w] => v = w
    BY <2>1
  <2>. HIDE DEF f
  <2>4. IsInjective(f)
    BY <2>2, <2>3 DEF IsInjective
  <2>. QED  BY <2>2, <2>4 DEF Injection
<1>4. IsFiniteSet(1..Len(h)) /\ Cardinality(1..Len(h)) = Len(h)
  <2>. DEFINE l == Len(h)
              one == 1
  <2>1. l \in Int /\ one \in Int /\ one = 1 /\ l >= 0
    BY <1>2
  <2>. HIDE DEF l, one
  <2>2. IsFiniteSet(one..l) /\ Cardinality(one..l) = IF one > l THEN 0 ELSE l - one + 1
    BY <2>1, FS_Interval
  <2>3. IsFiniteSet(1..l) /\ Cardinality(1..l) = l
    BY <2>1, <2>2
  <2>. QED  BY <2>3 DEF l
<1>5. IsFiniteSet(D) /\ Cardinality(D) <= Len(h)
  <2>. HIDE DEF D, f
  <2>. QED  BY <1>3, <1>4, FS_Injection
<1>6. own \in SUBSET D /\ \A id \in DOMAIN h : ObjectsIn(h[id].elems) \subseteq D
  BY DEF Anywhere
<1>. HIDE DEF D
<1>7. Inside(h, own) = [v \in D |-> ObjectsIn(h[v.n].elems)]
  BY DEF Inside, D
<1>8. Inside(h, own) \in [D -> SUBSET D] /\ \A v \in D : Inside(h, own)[v] = ObjectsIn(h[v.n].elems)
  BY <1>1, <1>6, <1>7
<1>. QED  BY <1>1, <1>5, <1>6, <1>8 DEF D

LEMMA ReachableIsLeast ==
  ASSUME NEW h \in Seq(Objects), NEW own, OneEach(h, own)
  PROVE  LeastIn(Inside(h, own), own, ReachableIn(h, own))
<1>. DEFINE D == Anywhere(h, own)
            next == Inside(h, own)
            n == Len(h)
            F(f) == [k \in 0..n |->
                       IF k = 0 THEN {v \in own : IsObject(v)}
                       ELSE f[k - 1] \union {w \in UNION {Range(h[v.n].elems) : v \in f[k - 1]} : IsObject(w)}]
            r == CHOOSE f : f = F(f)
<1>1. /\ IsFiniteSet(D) /\ Cardinality(D) <= n /\ own \in SUBSET D /\ next \in [D -> SUBSET D]
      /\ n \in Nat
      /\ \A v \in D : IsObject(v) /\ next[v] = ObjectsIn(h[v.n].elems)
  BY AnywhereFacts, LenProperties
<1>2. own = {v \in own : IsObject(v)}
  BY <1>1
<1>. HIDE DEF D, next
<1>3. ASSUME NEW S, S \subseteq D
      PROVE  Wider(next, S) = S \union {w \in UNION {Range(h[v.n].elems) : v \in S} : IsObject(w)}
  <2>1. \A x : x \in Wider(next, S) <=> x \in S \/ \E v \in S : x \in ObjectsIn(h[v.n].elems)
    BY <1>1, <1>3 DEF Wider
  <2>. QED  BY <2>1 DEF ObjectsIn
<1>4. \E f : f = F(f)
  <2>1. PICK f \in [0..n -> SUBSET D] : Rounds(f, next, own, n)
    <3>. HIDE DEF n, F
    <3>. QED  BY <1>1, RoundsExist
  <2>2. ASSUME NEW k \in 0..n
        PROVE  f[k] = IF k = 0 THEN {v \in own : IsObject(v)}
                      ELSE f[k - 1] \union {w \in UNION {Range(h[v.n].elems) : v \in f[k - 1]} : IsObject(w)}
    <3>1. CASE k = 0
      BY <1>2, <2>1, <3>1 DEF Rounds
    <3>2. CASE k # 0
      <4>1. k \in 1..n /\ k - 1 \in 0..n
        BY <1>1, <3>2
      <4>2. f[k - 1] \subseteq D /\ f[k - 1] \subseteq DOMAIN next
        BY <1>1, <2>1, <4>1
      <4>3. f[k] = Wider(next, f[k - 1])
        BY <2>1, <4>1, <4>2 DEF Rounds
      <4>. QED  BY <1>3, <3>2, <4>2, <4>3
    <3>. QED  BY <3>1, <3>2
  <2>3. f = [k \in 0..n |-> f[k]]
    BY <2>1
  <2>4. f = F(f)
    BY <2>2, <2>3
  <2>. HIDE DEF F
  <2>. QED  BY <2>4
<1>5. r = F(r)
  <2>. HIDE DEF F
  <2>. QED  BY <1>4
<1>6. ReachableIn(h, own) = r[n]
  BY DEF ReachableIn
<1>. HIDE DEF r
<1>7. Rounds(r, next, own, n)
  <2>1. 0 \in 0..n /\ r[0] = own
    BY <1>1, <1>2, <1>5
  <2>2. ASSUME NEW k \in 1..n, r[k - 1] \subseteq DOMAIN next
        PROVE  r[k] = Wider(next, r[k - 1])
    <3>1. k \in 0..n /\ k # 0
      BY <1>1
    <3>2. r[k] = r[k - 1] \union {w \in UNION {Range(h[v.n].elems) : v \in r[k - 1]} : IsObject(w)}
      BY <1>5, <3>1
    <3>3. r[k - 1] \subseteq D
      BY <1>1, <2>2
    <3>. HIDE DEF F
    <3>. QED  BY <1>3, <3>2, <3>3
  <2>. HIDE DEF F
  <2>. QED  BY <2>1, <2>2 DEF Rounds
<1>. HIDE DEF F, n
<1>8. LeastIn(next, own, r[n])
  BY <1>1, <1>7, RoundsReach
<1>. QED  BY <1>6, <1>8 DEF next

\* The same of what the abstract specification calls reachable.
Within(c) == [v \in DOMAIN c |-> DOMAIN c \intersect Range(c[v])]

LEMMA PromisedIsLeast ==
  ASSUME NEW c, IsFiniteSet(DOMAIN c), NEW own \in SUBSET DOMAIN c
  PROVE  LeastIn(Within(c), own, Promise!Reachable(c, own))
<1>. DEFINE D == DOMAIN c
            next == Within(c)
            n == Cardinality(D)
            F(f) == [k \in 0..n |->
                       IF k = 0 THEN own
                       ELSE f[k - 1] \union (D \intersect UNION {Promise!Range(c[h]) : h \in f[k - 1]})]
            r == CHOOSE f : f = F(f)
<1>1. n \in Nat /\ own \in SUBSET D /\ IsFiniteSet(D) /\ Cardinality(D) <= n
  BY FS_CardinalityType
<1>2. next \in [D -> SUBSET D] /\ \A v \in D : next[v] = D \intersect Promise!Range(c[v])
  BY DEF Within, Range, Promise!Range
<1>3. Promise!Reachable(c, own) = r[n]
  <2>1. Promise!Cardinality(DOMAIN c) = Cardinality(DOMAIN c)
    BY DEF Promise!Cardinality, Cardinality
  <2>. QED  BY <2>1 DEF Promise!Reachable
<1>. HIDE DEF next, n, D
<1>4. ASSUME NEW S, S \subseteq D
      PROVE  Wider(next, S) = S \union (D \intersect UNION {Promise!Range(c[h]) : h \in S})
  BY <1>2, <1>4 DEF Wider
<1>5. \E f : f = F(f)
  <2>1. PICK f \in [0..n -> SUBSET D] : Rounds(f, next, own, n)
    <3>. HIDE DEF F
    <3>. QED  BY <1>1, <1>2, RoundsExist
  <2>2. ASSUME NEW k \in 0..n
        PROVE  f[k] = IF k = 0 THEN own
                      ELSE f[k - 1] \union (D \intersect UNION {Promise!Range(c[h]) : h \in f[k - 1]})
    <3>1. CASE k = 0
      BY <2>1, <3>1 DEF Rounds
    <3>2. CASE k # 0
      <4>1. k \in 1..n /\ k - 1 \in 0..n
        BY <1>1, <3>2
      <4>2. f[k - 1] \subseteq D /\ f[k - 1] \subseteq DOMAIN next
        BY <1>2, <2>1, <4>1
      <4>3. f[k] = Wider(next, f[k - 1])
        BY <2>1, <4>1, <4>2 DEF Rounds
      <4>. QED  BY <1>4, <3>2, <4>2, <4>3
    <3>. QED  BY <3>1, <3>2
  <2>3. f = [k \in 0..n |-> f[k]]
    BY <2>1
  <2>4. f = F(f)
    BY <2>2, <2>3
  <2>. HIDE DEF F
  <2>. QED  BY <2>4
<1>6. r = F(r)
  <2>. HIDE DEF F
  <2>. QED  BY <1>5
<1>. HIDE DEF r
<1>7. Rounds(r, next, own, n)
  <2>1. 0 \in 0..n /\ r[0] = own
    BY <1>1, <1>6
  <2>2. ASSUME NEW k \in 1..n, r[k - 1] \subseteq DOMAIN next
        PROVE  r[k] = Wider(next, r[k - 1])
    <3>1. k \in 0..n /\ k # 0
      BY <1>1
    <3>2. r[k] = r[k - 1] \union (D \intersect UNION {Promise!Range(c[h]) : h \in r[k - 1]})
      BY <1>6, <3>1
    <3>3. r[k - 1] \subseteq D
      BY <1>2, <2>2
    <3>. HIDE DEF F
    <3>. QED  BY <1>4, <3>2, <3>3
  <2>. HIDE DEF F
  <2>. QED  BY <2>1, <2>2 DEF Rounds
<1>. HIDE DEF F
<1>8. LeastIn(next, own, r[n])
  BY <1>1, <1>2, <1>7, RoundsReach
<1>. QED  BY <1>3, <1>8 DEF next

-----------------------------------------------------------------------------
\* What a call does to the elements of arrays, to what is held, and to rc.

\* What may become of the elements of v.
Options(v) ==
  {Elems(v), <<>>}
    \union {Append(Elems(v), e) : e \in Elements}
    \union {RemoveAt(Elems(v), i) : i \in DOMAIN Elems(v)}
    \union {ReplaceAt(Elems(v), i, e) : i \in DOMAIN Elems(v), e \in Elements}
    \union {Elems(v) \o Elems(w) : w \in Arrays}

Creates(type, s) ==
  /\ type \in {"Array", "String"}
  /\ s = <<>> \/ (type = "Array" /\ \E v \in Arrays : s \in Options(v))
  /\ DOMAIN heap' = DOMAIN heap \union {NewId(heap)}
  /\ NewId(heap) \in Ids \ DOMAIN heap
  /\ \A id \in DOMAIN heap : heap'[id].elems = heap[id].elems
  /\ heap'[NewId(heap)].elems = s
  /\ held' = held \union {ObjectValue(type, NewId(heap))}
  /\ rc' = "Ok"

Becomes(v, s) ==
  /\ v \in Arrays /\ s \in Options(v)
  /\ DOMAIN heap' = DOMAIN heap
  /\ \A id \in DOMAIN heap : heap'[id].elems = IF id = v.n THEN s ELSE heap[id].elems
  /\ held' = held /\ rc' = "Ok"

Declines(v, s) ==
  /\ v \in Arrays /\ s \in Options(v) /\ Len(s) > MaxCapacity
  /\ UNCHANGED <<heap, held>> /\ rc' = "Range"

Drops(v) ==
  /\ v \in held /\ held' = held \ {v}
  /\ heap' = heap /\ rc' = "Ok"

Stays ==
  /\ DOMAIN heap' = DOMAIN heap
  /\ \A id \in DOMAIN heap : heap'[id].elems = heap[id].elems
  /\ held' = held /\ rc' = rc

Deeds ==
  \/ \E type, s : Creates(type, s)
  \/ \E v, s : Becomes(v, s) \/ Declines(v, s)
  \/ \E v : Drops(v)
  \/ Stays

LEMMA OptionsAre ==
  ASSUME NEW v \in Arrays
  PROVE  /\ Elems(v) \in Options(v) /\ <<>> \in Options(v)
         /\ \A e \in Elements : Append(Elems(v), e) \in Options(v)
         /\ \A i \in DOMAIN Elems(v) : RemoveAt(Elems(v), i) \in Options(v)
         /\ \A i \in DOMAIN Elems(v), e \in Elements : ReplaceAt(Elems(v), i, e) \in Options(v)
         /\ \A w \in Arrays : Elems(v) \o Elems(w) \in Options(v)
BY DEF Options

LEMMA GiveCreates ==
  ASSUME Stored, MayAllocate, NEW type \in {"Array", "String"}, NEW s \in Seq(Known),
         s = <<>> \/ (type = "Array" /\ \E v \in Arrays : s \in Options(v)),
         heap' = Append(RetainAll(heap, s), [ArrayObject(s) EXCEPT !.refCount = 1]),
         held' = held \union {ObjectValue(type, NewId(heap))}, rc' = "Ok"
  PROVE  Creates(type, s)
<1>. DEFINE g == RetainAll(heap, s)
            obj == [ArrayObject(s) EXCEPT !.refCount = 1]
<1>1. DOMAIN heap = 1..Len(heap) /\ Len(heap) \in Nat /\ Len(heap) < MaxObjects /\ MaxObjects \in Nat
  BY HeapFacts, SmallFacts DEF MayAllocate
<1>2. obj \in Objects /\ obj.elems = s
  <2>1. StringObject \in Objects
    BY DEF StringObject, Objects
  <2>. DEFINE arr == ArrayObject(s)
  <2>2. s \in Seq(Values)
    BY KnownValues, SeqMonotonic
  <2>3. arr \in Objects /\ arr.elems = s
    BY <2>1, <2>2 DEF ArrayObject, Objects
  <2>. QED  BY <2>3 DEF Objects
<1>3. /\ g \in Seq(Objects) /\ Len(g) = Len(heap)
      /\ \A id \in DOMAIN heap : g[id].elems = heap[id].elems
  BY RetainAllFacts
<1>. HIDE DEF g, obj
<1>4. heap' = Append(g, obj)
  BY DEF g, obj
<1>5. /\ heap' \in Seq(Objects) /\ Len(heap') = Len(heap) + 1
      /\ \A id \in 1..Len(heap) : heap'[id] = g[id]
      /\ heap'[Len(heap) + 1] = obj
  <2>. DEFINE t == Append(g, obj)
  <2>1. /\ t \in Seq(Objects) /\ Len(t) = Len(g) + 1
        /\ \A id \in 1..Len(g) : t[id] = g[id]
        /\ t[Len(g) + 1] = obj
    BY <1>2, <1>3, AppendProperties
  <2>. HIDE DEF t
  <2>. QED  BY <1>3, <1>4, <2>1 DEF t
<1>6. DOMAIN heap' = DOMAIN heap \union {NewId(heap)} /\ NewId(heap) \in Ids \ DOMAIN heap
  <2>1. DOMAIN heap' = 1..Len(heap) + 1
    BY <1>5, LenProperties
  <2>. QED  BY <1>1, <2>1 DEF NewId, Ids
<1>7. heap'[NewId(heap)].elems = s /\ \A id \in DOMAIN heap : heap'[id].elems = heap[id].elems
  BY <1>1, <1>2, <1>3, <1>5 DEF NewId
<1>. QED  BY <1>6, <1>7 DEF Creates

LEMMA GiveArrayDoes ==
  ASSUME Stored, MayAllocate, NEW s \in Seq(Known), NEW need,
         s = <<>> \/ \E v \in Arrays : s \in Options(v),
         GiveArray(s, need)
  PROVE  \/ Refused(need) /\ Refuse
         \/ Creates("Array", s)
         \/ Stays
<1>. DEFINE buf == [WithCapacity(need) EXCEPT !.count = Len(s)]
<1>1. CASE Give("Array", ArrayObject(s), buf)
  <2>1. ArrayObject(s).elems = s
    BY DEF ArrayObject, StringObject
  <2>2. /\ heap' = Append(RetainAll(heap, s), [ArrayObject(s) EXCEPT !.refCount = 1])
        /\ held' = held \union {ObjectValue("Array", NewId(heap))} /\ rc' = "Ok"
    BY <1>1, <2>1 DEF Give
  <2>. QED  BY <2>2, GiveCreates
<1>2. CASE UNCHANGED <<heap, held, rc>>
  BY <1>2 DEF Stays
<1>3. \/ Refused(need) /\ Refuse
      \/ Give("Array", ArrayObject(s), buf)
      \/ UNCHANGED <<heap, held, rc>>
  BY DEF GiveArray
<1>. HIDE DEF buf
<1>. QED  BY <1>1, <1>2, <1>3

LEMMA ChangeDoes ==
  ASSUME Stored, Sized, NEW v \in Arrays, NEW s \in Options(v), NEW new \in Seq(Known),
         NEW buf, NEW freed, Change(v, s, RetainAll(heap, new), buf, freed)
  PROVE  Becomes(v, s)
<1>. DEFINE g == RetainAll(heap, new)
<1>1. v.n \in DOMAIN heap
  BY ArrayFacts
<1>2. /\ DOMAIN g = DOMAIN heap
      /\ \A id \in DOMAIN heap : g[id] \in Objects /\ g[id].elems = heap[id].elems
  BY RetainAllFacts
<1>. HIDE DEF g
<1>3. heap' = [g EXCEPT ![v.n].elems = s] /\ rc' = "Ok" /\ held' = held
  BY DEF Change, g
<1>4. [g[v.n] EXCEPT !.elems = s].elems = s
  BY <1>1, <1>2 DEF Objects
<1>. QED  BY <1>1, <1>2, <1>3, <1>4 DEF Becomes

\* The calls, one by one.
LEMMA MakingDeeds ==
  ASSUME Stored, Sized, Making
  PROVE  Deeds
<1>1. /\ MaxCapacity \in Nat \ {0} /\ IntMax \in Int /\ IntMax >= MaxCapacity
      /\ \A c \in Capacities : c \in Nat /\ c <= MaxCapacity
      /\ <<>> \in Seq(Known)
  BY CapacityBounds DEF IntMax
<1>2. \A v \in Arrays :
        /\ Elems(v) \in Seq(Known) /\ DOMAIN Elems(v) = 1..Len(Elems(v))
        /\ Len(Elems(v)) \in 0..MaxCapacity
  BY ArrayFacts
<1>3. \A e \in Elements : e \in Known
  BY ElementsKnown
<1>4. ASSUME NewString(MaxCapacity)  PROVE Deeds
  <2>1. StringObject = ArrayObject(<<>>) /\ StringObject.elems = <<>> /\ MayAllocate
    BY <1>4 DEF StringObject, ArrayObject, NewString
  <2>2. /\ heap' = Append(RetainAll(heap, <<>>), [ArrayObject(<<>>) EXCEPT !.refCount = 1])
        /\ held' = held \union {ObjectValue("String", NewId(heap))} /\ rc' = "Ok"
    BY <1>4, <2>1 DEF NewString, Give
  <2>3. Creates("String", <<>>)
    BY <1>1, <2>1, <2>2, GiveCreates
  <2>. QED  BY <2>3 DEF Deeds
<1>5. ASSUME NEW capacity \in Capacities, New(capacity)  PROVE Deeds
  <2>1. ~Refused(capacity)
    BY <1>1 DEF Refused
  <2>2. GiveArray(<<>>, capacity) /\ MayAllocate
    BY <1>5 DEF New
  <2>. QED  BY <1>1, <2>1, <2>2, GiveArrayDoes DEF Deeds
<1>6. ASSUME NEW v \in Arrays, NEW s \in Options(v), s \in Seq(Known), NEW need \in Int,
             need <= Len(s), MayAllocate, GiveArray(s, need)
      PROVE  Deeds
  <2>1. CASE Refused(need) /\ Refuse
    <3>1. Len(s) > MaxCapacity
      <4>1. need > MaxCapacity /\ Len(s) \in Int
        BY <1>6, <2>1, LenProperties DEF Refused
      <4>. QED  BY <1>1, <1>6, <4>1
    <3>2. Declines(v, s)
      BY <2>1, <3>1 DEF Declines, Refuse
    <3>. QED  BY <3>2 DEF Deeds
  <2>. QED  BY <1>6, <2>1, GiveArrayDoes DEF Deeds
<1>7. ASSUME NEW v \in Arrays, Copy(v)  PROVE Deeds
  <2>1. Elems(v) \in Options(v) /\ Len(Elems(v)) \in Int
    BY <1>1, <1>2, OptionsAre
  <2>2. MayAllocate /\ GiveArray(Elems(v), Len(Elems(v)))
    BY <1>7 DEF Copy
  <2>. QED  BY <1>2, <1>6, <2>1, <2>2
<1>8. ASSUME NEW v \in Arrays, NEW e \in Elements, Appended(v, e)  PROVE Deeds
  <2>. DEFINE s == Append(Elems(v), e)
              n == Len(Elems(v))
              need == IntSum(n, 1)
  <2>1. s \in Options(v) /\ s \in Seq(Known) /\ Len(s) = n + 1 /\ n \in 0..MaxCapacity
    BY <1>2, <1>3, OptionsAre, AppendProperties
  <2>2. need \in Int /\ need <= n + 1
    <3>. HIDE DEF n
    <3>1. 1 \in 0..MaxCapacity
      BY <1>1
    <3>2. /\ need \in Int
          /\ n + 1 <= IntMax => need = n + 1
          /\ n + 1 > IntMax => need < 0
      BY <2>1, <3>1, SumOfCounts
    <3>. HIDE DEF need
    <3>. QED  BY <1>1, <2>1, <3>2
  <2>3. MayAllocate /\ GiveArray(s, need)
    BY <1>8 DEF Appended
  <2>. HIDE DEF s, n, need
  <2>4. s \in Options(v) /\ s \in Seq(Known) /\ need \in Int /\ need <= Len(s)
    BY <2>1, <2>2
  <2>. QED  BY <1>6, <2>3, <2>4
<1>9. ASSUME NEW v \in Arrays, NEW e \in Elements, NEW i \in Indices(v), With(v, i, e)  PROVE Deeds
  <2>. DEFINE s == ReplaceAt(Elems(v), i, e)
              n == Len(Elems(v))
  <2>1. i \in DOMAIN Elems(v) /\ e \in Known /\ Elems(v) \in Seq(Known)
    BY <1>2, <1>3 DEF Indices
  <2>2. s \in Seq(Known) /\ Len(s) = n
    <3>. DEFINE x == Elems(v)
    <3>1. x \in Seq(Known) /\ i \in DOMAIN x /\ e \in Known /\ Known \subseteq Values
      BY <2>1, KnownValues
    <3>. HIDE DEF x
    <3>2. ReplaceAt(x, i, e) \in Seq(Known) /\ Len(ReplaceAt(x, i, e)) = Len(x)
      BY <3>1, ReplacedIs
    <3>. QED  BY <3>2 DEF x
  <2>3. s \in Options(v) /\ n \in Int
    BY <1>1, <1>2, <2>1, OptionsAre
  <2>4. MayAllocate /\ GiveArray(s, n)
    BY <1>9 DEF With
  <2>. HIDE DEF s, n
  <2>. QED  BY <1>6, <2>2, <2>3, <2>4
<1>10. ASSUME NEW v \in Arrays, NEW i \in Indices(v), Without(v, i)  PROVE Deeds
  <2>. DEFINE s == RemoveAt(Elems(v), i)
  <2>1. i \in DOMAIN Elems(v)
    BY DEF Indices
  <2>2. s \in Seq(Known)
    BY <1>2, <2>1, KnownValues, OccursRemoved
  <2>3. s \in Options(v)
    BY <2>1, OptionsAre
  <2>4. /\ heap' = Append(RetainAll(heap, s), [ArrayObject(s) EXCEPT !.refCount = 1])
        /\ held' = held \union {ObjectValue("Array", NewId(heap))} /\ rc' = "Ok" /\ MayAllocate
    BY <1>10 DEF Without
  <2>. HIDE DEF s
  <2>5. Creates("Array", s)
    BY <2>2, <2>3, <2>4, GiveCreates
  <2>. QED  BY <2>5 DEF Deeds
<1>11. ASSUME NEW v \in Arrays, NEW w \in Arrays, Concat(v, w)  PROVE Deeds
  <2>. DEFINE s == Elems(v) \o Elems(w)
              n == Len(Elems(v))
              m == Len(Elems(w))
              need == IntSum(n, m)
  <2>1. s \in Options(v) /\ s \in Seq(Known) /\ Len(s) = n + m /\ n \in 0..MaxCapacity /\ m \in 0..MaxCapacity
    BY <1>2, OptionsAre, ConcatProperties
  <2>2. need \in Int /\ need <= n + m
    <3>. HIDE DEF n, m
    <3>1. /\ need \in Int
          /\ n + m <= IntMax => need = n + m
          /\ n + m > IntMax => need < 0
      BY <2>1, SumOfCounts
    <3>. HIDE DEF need
    <3>. QED  BY <1>1, <2>1, <3>1
  <2>3. MayAllocate /\ GiveArray(s, need)
    BY <1>11 DEF Concat
  <2>. HIDE DEF s, n, m, need
  <2>. QED  BY <1>6, <2>1, <2>2, <2>3
<1>. QED  BY <1>4, <1>5, <1>7, <1>8, <1>9, <1>10, <1>11 DEF Making

LEMMA ChangingDeeds ==
  ASSUME Stored, Sized, Changing
  PROVE  Deeds
<1>1. /\ MaxCapacity \in Nat \ {0} /\ IntMax \in Int /\ IntMax >= MaxCapacity
      /\ \A c \in Capacities : c \in Nat /\ c <= MaxCapacity
      /\ <<>> \in Seq(Known)
  BY CapacityBounds DEF IntMax
<1>2. \A v \in Arrays :
        /\ Elems(v) \in Seq(Known) /\ Len(Elems(v)) \in 0..MaxCapacity
        /\ Buffer(v).count = Len(Elems(v))
  BY ArrayFacts
<1>3. \A e \in Elements : e \in Known /\ Retain(heap, e) = RetainAll(heap, <<e>>)
  BY ElementsKnown, RetainOne
<1>4. heap = RetainAll(heap, <<>>)
  BY RetainNone
<1>5. ASSUME NEW v \in Arrays, NEW s \in Options(v), NEW new \in Seq(Known), NEW buf, NEW freed,
             Change(v, s, RetainAll(heap, new), buf, freed)
      PROVE  Deeds
  BY <1>5, ChangeDoes DEF Deeds
<1>6. ASSUME NEW v \in Arrays, NEW capacity \in Capacities, Reserve(v, capacity)  PROVE Deeds
  <2>1. ~CannotHold(Buffer(v), capacity)
    BY <1>1 DEF CannotHold, Refused
  <2>2. Change(v, Elems(v), RetainAll(heap, <<>>), EnsureCapacity(Buffer(v), capacity), <<>>)
    BY <1>4, <1>6, <2>1 DEF Reserve
  <2>. QED  BY <1>1, <1>5, <2>2, OptionsAre
<1>7. ASSUME NEW v \in Arrays, NEW e \in Elements, InplaceAppend(v, e)  PROVE Deeds
  <2>. DEFINE s == Append(Elems(v), e)
  <2>1. s \in Options(v) /\ Len(s) = Len(Elems(v)) + 1
    BY <1>2, <1>3, OptionsAre, AppendProperties
  <2>2. CASE CannotHold(Buffer(v), Buffer(v).count + 1)
    <3>1. Declines(v, s)
      BY <1>2, <1>7, <2>1, <2>2 DEF InplaceAppend, Refuse, Declines, CannotHold, Refused
    <3>. QED  BY <3>1 DEF Deeds
  <2>3. CASE ~CannotHold(Buffer(v), Buffer(v).count + 1)
    <3>1. Change(v, s, RetainAll(heap, <<e>>), Extended(Buffer(v), 1), <<>>)
      BY <1>3, <1>7, <2>3 DEF InplaceAppend
    <3>2. <<e>> \in Seq(Known)
      <4>1. e \in Known
        BY <1>3
      <4>. QED  BY <4>1
    <3>. HIDE DEF s
    <3>. QED  BY <1>5, <2>1, <3>1, <3>2
  <2>. QED  BY <2>2, <2>3
<1>8. ASSUME NEW v \in Arrays, NEW e \in Elements, NEW i \in Indices(v), InplaceSet(v, i, e)
      PROVE  Deeds
  <2>. DEFINE s == ReplaceAt(Elems(v), i, e)
  <2>1. s \in Options(v)
    BY OptionsAre DEF Indices
  <2>2. Change(v, s, RetainAll(heap, <<e>>), Buffer(v), <<Elems(v)[i]>>)
    BY <1>3, <1>8 DEF InplaceSet
  <2>3. <<e>> \in Seq(Known)
    <3>1. e \in Known
      BY <1>3
    <3>. QED  BY <3>1
  <2>. HIDE DEF s
  <2>. QED  BY <1>5, <2>1, <2>2, <2>3
<1>9. ASSUME NEW v \in Arrays, NEW i \in Indices(v), InplaceRemoveAt(v, i)  PROVE Deeds
  <2>. DEFINE s == RemoveAt(Elems(v), i)
  <2>1. s \in Options(v)
    BY OptionsAre DEF Indices
  <2>2. Change(v, s, RetainAll(heap, <<>>), [Buffer(v) EXCEPT !.count = @ - 1], <<Elems(v)[i]>>)
    BY <1>4, <1>9 DEF InplaceRemoveAt
  <2>. HIDE DEF s
  <2>. QED  BY <1>1, <1>5, <2>1, <2>2
<1>10. ASSUME NEW v \in Arrays, NEW w \in Arrays, InplaceConcat(v, w)  PROVE Deeds
  <2>. DEFINE s == Elems(v) \o Elems(w)
              n == Len(Elems(v))
              m == Len(Elems(w))
  <2>1. /\ s \in Options(v) /\ Len(s) = n + m /\ n \in 0..MaxCapacity /\ m \in 0..MaxCapacity
        /\ Elems(w) \in Seq(Known)
    BY <1>2, OptionsAre, ConcatProperties
  <2>2. CASE Elems(w) # <<>> /\ NoRoomFor(v, w)
    <3>1. m # 0
      BY <2>1, <2>2, EmptySeq
    <3>2. IntSum(n, m) > MaxCapacity \/ n + 1 > MaxCapacity
      BY <2>2 DEF NoRoomFor, CannotHold, Refused
    <3>3. Refuse
      BY <1>10, <2>2 DEF InplaceConcat
    <3>. HIDE DEF s, n, m
    <3>4. IntSum(n, m) \in Int /\ IntSum(n, m) <= n + m
      <4>1. /\ IntSum(n, m) \in Int
            /\ n + m <= IntMax => IntSum(n, m) = n + m
            /\ n + m > IntMax => IntSum(n, m) < 0
        BY <2>1, SumOfCounts
      <4>. QED  BY <1>1, <2>1, <4>1
    <3>5. n + m > MaxCapacity
      BY <1>1, <2>1, <3>1, <3>2, <3>4
    <3>6. Declines(v, s)
      BY <2>1, <3>3, <3>5 DEF Declines, Refuse
    <3>. QED  BY <3>6 DEF Deeds
  <2>3. CASE ~(Elems(w) # <<>> /\ NoRoomFor(v, w))
    <3>1. Change(v, s, RetainAll(heap, Elems(w)), Extended(Buffer(v), m), <<>>)
      BY <1>10, <2>3 DEF InplaceConcat
    <3>. HIDE DEF s, m
    <3>. QED  BY <1>5, <2>1, <3>1
  <2>. QED  BY <2>2, <2>3
<1>11. ASSUME NEW v \in Arrays, Clear(v)  PROVE Deeds
  <2>1. Change(v, <<>>, RetainAll(heap, <<>>), [Buffer(v) EXCEPT !.count = 0], Elems(v))
    BY <1>4, <1>11 DEF Clear
  <2>. QED  BY <1>1, <1>5, <2>1, OptionsAre
<1>. QED  BY <1>6, <1>7, <1>8, <1>9, <1>10, <1>11 DEF Changing

LEMMA StepDeeds ==
  ASSUME Stored, Sized, [ArraysNext]_arrayVars
  PROVE  Deeds
<1>1. CASE Making
  BY <1>1, MakingDeeds
<1>2. CASE Changing
  BY <1>2, ChangingDeeds
<1>3. ASSUME NEW v \in held, Drop(v)  PROVE Deeds
  BY <1>3 DEF Drop, Drops, Deeds
<1>4. CASE ReleaseObject
  <2>. DEFINE v == Head(releasing)
  <2>1. CASE Freed(v)
    BY <1>4, <2>1 DEF ReleaseObject, Stays, Deeds
  <2>2. CASE ~Freed(v)
    <3>1. Released(v) /\ UNCHANGED <<held, rc>>
      BY <1>4, <2>2 DEF ReleaseObject, Released
    <3>. HIDE DEF v
    <3>2. DOMAIN heap' = DOMAIN heap /\ \A id \in DOMAIN heap : heap'[id].elems = heap[id].elems
      BY <3>1, ReleasedFacts
    <3>. QED  BY <3>1, <3>2 DEF Stays, Deeds
  <2>. QED  BY <2>1, <2>2
<1>5. CASE UseFreed \/ UNCHANGED arrayVars
  BY <1>5 DEF UseFreed, arrayVars, Stays, Deeds
<1>. QED  BY <1>1, <1>2, <1>3, <1>4, <1>5 DEF ArraysNext

-----------------------------------------------------------------------------
\* Every object has one handle.

LEMMA ReachFacts ==
  ASSUME NEW h \in Seq(Objects), NEW own, OneEach(h, own)
  PROVE  /\ own \subseteq ReachableIn(h, own) /\ ReachableIn(h, own) \subseteq Anywhere(h, own)
         /\ IsFiniteSet(ReachableIn(h, own))
         /\ \A u \in ReachableIn(h, own) :
              /\ IsObject(u) /\ u.n \in DOMAIN h
              /\ ObjectsIn(h[u.n].elems) \subseteq ReachableIn(h, own)
         /\ \A C \in SUBSET ReachableIn(h, own) :
              own \subseteq C /\ (\A u \in C : ObjectsIn(h[u.n].elems) \subseteq C)
                => C = ReachableIn(h, own)
<1>. DEFINE K == ReachableIn(h, own)
            next == Inside(h, own)
            D == Anywhere(h, own)
<1>1. LeastIn(next, own, K)
  BY ReachableIsLeast
<1>2. /\ DOMAIN next = D /\ IsFiniteSet(D)
      /\ \A u \in D : IsObject(u) /\ u.n \in DOMAIN h /\ next[u] = ObjectsIn(h[u.n].elems)
  BY AnywhereFacts
<1>. HIDE DEF K, next, D
<1>3. own \subseteq K /\ K \subseteq D
  BY <1>1, <1>2 DEF LeastIn
<1>4. IsFiniteSet(K)
  BY <1>2, <1>3, FS_Subset
<1>5. ASSUME NEW u \in K
      PROVE  IsObject(u) /\ u.n \in DOMAIN h /\ ObjectsIn(h[u.n].elems) \subseteq K
  BY <1>1, <1>2, <1>3 DEF LeastIn
<1>6. ASSUME NEW C \in SUBSET K, own \subseteq C, \A u \in C : ObjectsIn(h[u.n].elems) \subseteq C
      PROVE  C = K
  <2>1. \A u \in C : next[u] \subseteq C
    BY <1>2, <1>3, <1>6
  <2>. QED  BY <1>1, <1>6, <2>1 DEF LeastIn
<1>. QED  BY <1>3, <1>4, <1>5, <1>6 DEF K, D

\* A call puts nothing into an array that the caller did not hold or have in one.
LEMMA OptionsStay ==
  ASSUME Stored, Sized, NEW v \in Arrays, NEW s \in Options(v), NEW K, held \subseteq K,
         \A w \in Arrays : ObjectsIn(Elems(w)) \subseteq K
  PROVE  ObjectsIn(s) \subseteq K
<1>. DEFINE S == {x \in Known : IsObject(x) => x \in K}
<1>1. S \subseteq Values
  BY KnownValues
<1>2. ASSUME NEW w \in Arrays  PROVE Elems(w) \in Seq(S)
  <2>1. Elems(w) \in Seq(Known)
    BY ArrayFacts
  <2>2. ASSUME NEW i \in 1..Len(Elems(w))  PROVE Elems(w)[i] \in S
    <3>1. Elems(w)[i] \in Known /\ i \in DOMAIN Elems(w)
      BY <2>1, ElementOfSeq, LenProperties
    <3>2. Elems(w)[i] \in Range(Elems(w))
      BY <3>1 DEF Range
    <3>. QED  BY <3>1, <3>2 DEF ObjectsIn
  <2>3. Len(Elems(w)) \in Nat /\ Elems(w) = [i \in 1..Len(Elems(w)) |-> Elems(w)[i]]
    BY <2>1, LenProperties
  <2>. HIDE DEF S
  <2>. QED  BY <2>2, <2>3, IsASeq
<1>3. ASSUME NEW e \in Elements  PROVE e \in S
  <2>1. e \in Known
    BY ElementsKnown
  <2>2. IsObject(e) => e \in K
    BY SmallFacts DEF Elements
  <2>. QED  BY <2>1, <2>2
<1>. HIDE DEF S
<1>4. s \in Seq(S)
  <2>. DEFINE a == Elems(v)
  <2>1. a \in Seq(S) /\ <<>> \in Seq(S)
    BY <1>2
  <2>. HIDE DEF a
  <2>2. ASSUME NEW e \in Elements  PROVE Append(a, e) \in Seq(S)
    BY <1>3, <2>1, AppendProperties
  <2>3. ASSUME NEW i \in DOMAIN a  PROVE RemoveAt(a, i) \in Seq(S)
    BY <1>1, <2>1, OccursRemoved
  <2>4. ASSUME NEW i \in DOMAIN a, NEW e \in Elements  PROVE ReplaceAt(a, i, e) \in Seq(S)
    <3>1. e \in S
      BY <1>3
    <3>. QED  BY <1>1, <2>1, <3>1, OccursReplaced
  <2>5. ASSUME NEW w \in Arrays  PROVE a \o Elems(w) \in Seq(S)
    BY <1>2, <2>1, ConcatProperties
  <2>6. \/ s = a \/ s = <<>>
        \/ \E e \in Elements : s = Append(a, e)
        \/ \E i \in DOMAIN a : s = RemoveAt(a, i)
        \/ \E i \in DOMAIN a, e \in Elements : s = ReplaceAt(a, i, e)
        \/ \E w \in Arrays : s = a \o Elems(w)
    <3>. DEFINE A == {a, <<>>}
                B == {Append(a, e) : e \in Elements}
                C == {RemoveAt(a, i) : i \in DOMAIN a}
                E == {ReplaceAt(a, i, e) : i \in DOMAIN a, e \in Elements}
                F == {a \o Elems(w) : w \in Arrays}
    <3>1. Options(v) = A \union B \union C \union E \union F
      BY DEF Options, a
    <3>2. s \in A => s = a \/ s = <<>>
      OBVIOUS
    <3>3. s \in B => \E e \in Elements : s = Append(a, e)
      OBVIOUS
    <3>4. s \in C => \E i \in DOMAIN a : s = RemoveAt(a, i)
      OBVIOUS
    <3>5. s \in E => \E i \in DOMAIN a, e \in Elements : s = ReplaceAt(a, i, e)
      OBVIOUS
    <3>6. s \in F => \E w \in Arrays : s = a \o Elems(w)
      OBVIOUS
    <3>. HIDE DEF A, B, C, E, F
    <3>7. s \in A \/ s \in B \/ s \in C \/ s \in E \/ s \in F
      BY <3>1
    <3>. QED  BY <3>2, <3>3, <3>4, <3>5, <3>6, <3>7
  <2>. QED  BY <2>1, <2>2, <2>3, <2>4, <2>5, <2>6
<1>5. ASSUME NEW i \in DOMAIN s  PROVE s[i] \in S
  BY <1>4, ElementOfSeq, LenProperties
<1>. QED  BY <1>5 DEF ObjectsIn, Range, S

LEMMA HandlesStep ==
  ASSUME Stored, Sized, OneEach(heap, held), [ArraysNext]_arrayVars
  PROVE  OneEach(heap', held')
<1>. DEFINE D == Anywhere(heap, held)
<1>1. /\ D \subseteq HandlesIn(heap)
      /\ \A v, w \in D : v.n = w.n => v = w
      /\ \A v \in D : v.n \in DOMAIN heap
  <2>1. heap \in Seq(Objects)
    BY DEF Stored
  <2>. QED  BY <2>1, AnywhereFacts DEF OneEach
<1>2. held \subseteq D /\ \A id \in DOMAIN heap : ObjectsIn(heap[id].elems) \subseteq D
  BY DEF Anywhere
<1>3. \A w \in Arrays : ObjectsIn(Elems(w)) \subseteq D
  BY <1>2, ArrayFacts DEF Elems
<1>. HIDE DEF D
<1>4. \A v \in Arrays : \A s \in Options(v) : ObjectsIn(s) \subseteq D
  BY <1>2, <1>3, OptionsStay
<1>5. ASSUME held' \subseteq D, DOMAIN heap' = DOMAIN heap,
             \A id \in DOMAIN heap : ObjectsIn(heap'[id].elems) \subseteq D
      PROVE  OneEach(heap', held')
  <2>1. Anywhere(heap', held') \subseteq D
    BY <1>5 DEF Anywhere
  <2>2. HandlesIn(heap') = HandlesIn(heap)
    BY <1>5 DEF HandlesIn
  <2>. QED  BY <1>1, <2>1, <2>2 DEF OneEach
<1>6. ASSUME NEW type, NEW s, Creates(type, s)  PROVE OneEach(heap', held')
  <2>. DEFINE new == NewId(heap)
              v == ObjectValue(type, new)
  <2>1. /\ type \in {"Array", "String"} /\ DOMAIN heap' = DOMAIN heap \union {new}
        /\ new \notin DOMAIN heap /\ held' = held \union {v}
        /\ \A id \in DOMAIN heap : heap'[id].elems = heap[id].elems
        /\ heap'[new].elems = s
    BY <1>6 DEF Creates
  <2>2. ObjectsIn(s) \subseteq D
    <3>1. ObjectsIn(<<>>) = {}
      BY DEF ObjectsIn, Range
    <3>. QED  BY <1>4, <1>6, <3>1 DEF Creates
  <2>3. v.n = new /\ v \in HandlesIn(heap')
    BY <2>1 DEF ObjectValue, HandlesIn
  <2>. HIDE DEF new, v
  <2>4. Anywhere(heap', held') \subseteq D \union {v}
    <3>1. \A id \in DOMAIN heap' : ObjectsIn(heap'[id].elems) \subseteq D
      BY <1>2, <2>1, <2>2
    <3>. QED  BY <1>2, <2>1, <3>1 DEF Anywhere
  <2>5. HandlesIn(heap) \subseteq HandlesIn(heap')
    BY <2>1 DEF HandlesIn
  <2>. QED  BY <1>1, <2>1, <2>3, <2>4, <2>5 DEF OneEach
<1>7. ASSUME NEW v, NEW s, Becomes(v, s)  PROVE OneEach(heap', held')
  <2>1. \A id \in DOMAIN heap : ObjectsIn(heap'[id].elems) \subseteq D
    BY <1>2, <1>4, <1>7 DEF Becomes
  <2>. QED  BY <1>2, <1>5, <1>7, <2>1 DEF Becomes
<1>8. ASSUME NEW v, NEW s, Declines(v, s)  PROVE OneEach(heap', held')
  BY <1>8 DEF Declines
<1>9. ASSUME NEW v, Drops(v)  PROVE OneEach(heap', held')
  BY <1>2, <1>5, <1>9 DEF Drops
<1>10. CASE Stays
  BY <1>2, <1>5, <1>10 DEF Stays
<1>. QED  BY <1>6, <1>7, <1>8, <1>9, <1>10, StepDeeds DEF Deeds

-----------------------------------------------------------------------------
\* The promise.

\* Contents, if nothing that the caller can reach has been freed.
ContentsIn(h, own) == [v \in ReachableIn(h, own) |-> h[v.n].elems]

\* What is left when the caller's objects or an array's elements are others.
LEMMA KeepsReachable ==
  ASSUME NEW h \in Seq(Objects), NEW before, OneEach(h, before),
         NEW g \in Seq(Objects), NEW own, OneEach(g, own),
         NEW c, c = [u \in ReachableIn(h, before) |-> g[u.n].elems],
         own \subseteq ReachableIn(h, before),
         \A u \in ReachableIn(h, before) : ObjectsIn(g[u.n].elems) \subseteq ReachableIn(h, before)
  PROVE  ContentsIn(g, own) = Promise!Restrict(c, Promise!Reachable(c, own))
<1>. DEFINE K == ReachableIn(h, before)
            R == Promise!Reachable(c, own)
            Q == ReachableIn(g, own)
<1>1. IsFiniteSet(K) /\ \A u \in K : IsObject(u)
  BY ReachFacts
<1>2. DOMAIN c = K /\ \A u \in K : c[u] = g[u.n].elems
  OBVIOUS
<1>. HIDE DEF K
<1>3. LeastIn(Within(c), own, R)
  BY <1>1, <1>2, PromisedIsLeast DEF K
<1>4. LeastIn(Inside(g, own), own, Q)
  BY ReachableIsLeast
<1>. HIDE DEF R, Q
<1>5. R \subseteq K
  BY <1>2, <1>3 DEF LeastIn, Within
<1>6. Q \subseteq Anywhere(g, own) /\ \A u \in Anywhere(g, own) : Inside(g, own)[u] = ObjectsIn(g[u.n].elems)
  BY <1>4, AnywhereFacts DEF LeastIn
<1>7. ASSUME NEW u \in R \intersect Q  PROVE Within(c)[u] = Inside(g, own)[u]
  <2>1. Within(c)[u] = K \intersect Range(g[u.n].elems)
    BY <1>2, <1>5 DEF Within
  <2>2. Inside(g, own)[u] = ObjectsIn(g[u.n].elems)
    BY <1>6
  <2>3. ObjectsIn(g[u.n].elems) \subseteq K
    BY <1>5 DEF K
  <2>. QED  BY <1>1, <2>1, <2>2, <2>3 DEF ObjectsIn
<1>8. R = Q
  BY <1>3, <1>4, <1>7, LeastIsUnique
<1>9. ContentsIn(g, own) = [u \in R |-> c[u]]
  BY <1>2, <1>5, <1>8 DEF ContentsIn, Q
<1>. QED  BY <1>9 DEF Promise!Restrict, R

\* No array is too long, and without a reference given back in excess nothing that
\* the caller can reach has been freed.
Kept ==
  /\ \A v \in Arrays : Len(heap[v.n].elems) <= MaxCapacity
  /\ (\A id \in Ids : lost[id] = 0) => \A v \in ReachableIn(heap, held) : heap[v.n].live

LEMMA KeptAlways ==
  ASSUME Stored, Sized, Counted, OneEach(heap, held)
  PROVE  Kept
<1>. DEFINE K == ReachableIn(heap, held)
            C == {v \in K : heap[v.n].live}
<1>1. \A v \in Arrays : Len(heap[v.n].elems) <= MaxCapacity
  <2>1. MaxCapacity \in Int
    BY SmallFacts
  <2>. QED  BY <2>1, ArrayFacts DEF Elems
<1>2. ASSUME \A id \in Ids : lost[id] = 0  PROVE C = K
  <2>1. /\ held \subseteq K
        /\ \A u \in K : IsObject(u) /\ u.n \in DOMAIN heap /\ ObjectsIn(heap[u.n].elems) \subseteq K
        /\ \A A \in SUBSET K :
             held \subseteq A /\ (\A u \in A : ObjectsIn(heap[u.n].elems) \subseteq A) => A = K
    <3>1. heap \in Seq(Objects)
      BY DEF Stored
    <3>. QED  BY <3>1, ReachFacts
  <2>. HIDE DEF K
  <2>2. \A id \in DOMAIN heap : id \in Ids /\ ~(lost[id] > 0)
    <3>1. \A id \in DOMAIN heap : id \in Ids
      BY HeapFacts
    <3>. QED  BY <1>2, <3>1
  <2>3. held \subseteq C
    <3>1. ASSUME NEW v \in held  PROVE heap[v.n].live
      <4>1. v.n \in DOMAIN heap
        BY <2>1
      <4>. QED  BY <2>2, <4>1, HeldIsLive
    <3>. QED  BY <2>1, <3>1
  <2>4. ASSUME NEW u \in C  PROVE ObjectsIn(heap[u.n].elems) \subseteq C
    <3>1. ASSUME NEW w \in ObjectsIn(heap[u.n].elems)  PROVE w \in C
      <4>1. u \in K /\ u.n \in DOMAIN heap /\ heap[u.n].live /\ w \in K /\ w.n \in DOMAIN heap
        BY <2>1
      <4>2. PICK i \in DOMAIN heap[u.n].elems : w = heap[u.n].elems[i] /\ IsObject(w)
        BY DEF ObjectsIn, Range
      <4>3. Marks(heap[u.n].elems, w.n) # {}
        BY <4>2 DEF Marks
      <4>4. heap[w.n].live
        BY <2>2, <4>1, <4>3, HeldIsLive
      <4>. QED  BY <4>1, <4>4
    <3>. QED  BY <3>1
  <2>5. C \in SUBSET K
    OBVIOUS
  <2>. HIDE DEF C
  <2>. QED  BY <2>1, <2>3, <2>4, <2>5
<1>3. (\A id \in Ids : lost[id] = 0) => \A v \in K : heap[v.n].live
  BY <1>2
<1>. QED  BY <1>1, <1>3 DEF Kept

\* A reference given back in excess stays so.
LEMMA LostStaysLost ==
  ASSUME Stored, Sized, [ArraysNext]_arrayVars, \A id \in Ids : lost'[id] = 0
  PROVE  \A id \in Ids : lost[id] = 0
<1>1. lost \in [Ids -> Nat]
  BY DEF Stored
<1>2. CASE lost' = lost
  BY <1>2
<1>3. CASE OneLost
  <2>1. PICK e \in Known : lost' = IF IsObject(e) THEN [lost EXCEPT ![e.n] = @ + 1] ELSE lost
    BY <1>3 DEF OneLost
  <2>2. ASSUME NEW id \in Ids  PROVE lost[id] = 0
    <3>1. lost'[id] = lost[id] \/ lost'[id] = lost[id] + 1
      BY <1>1, <2>1
    <3>2. lost[id] \in Nat /\ lost'[id] = 0
      BY <1>1
    <3>. QED  BY <3>1, <3>2
  <2>. QED  BY <2>2
<1>. QED
  BY <1>2, <1>3, StepKinds
  DEF Kinds, Nothing, MadeOne, NothingLost, AlteredOne, Altered, GivenUp, Released

LEMMA ContentsAre ==
  ASSUME Kept, \A id \in Ids : lost[id] = 0
  PROVE  Contents = ContentsIn(heap, held)
<1>1. Reachable(held) = ReachableIn(heap, held)
  BY DEF Reachable, ReachableIn, Elems
<1>2. {w \in Reachable(held) : ~Freed(w)} = ReachableIn(heap, held)
  BY <1>1 DEF Kept, Freed
<1>. QED  BY <1>2 DEF Contents, ContentsIn, Elems

LEMMA ContentsBecome ==
  ASSUME Kept', \A id \in Ids : lost'[id] = 0
  PROVE  Contents' = ContentsIn(heap', held')
<1>1. Reachable(held)' = ReachableIn(heap', held')
  BY DEF Reachable, ReachableIn, Elems
<1>2. {w \in Reachable(held) : ~Freed(w)}' = ReachableIn(heap', held')
  BY <1>1 DEF Kept, Freed, Ids
<1>. QED  BY <1>2 DEF Contents, ContentsIn, Elems

\* What the abstract specification lets a call make of an array's elements.
LEMMA OptionsPromised ==
  ASSUME NEW v \in Arrays, NEW s \in Options(v),
         \A w \in Arrays : Contents[w] = Elems(w)
  PROVE  v \in Promise!Arrays /\ s \in Promise!Changed(v)
<1>1. Promise!Arrays = Arrays /\ Promise!Elements = Elements
  BY DEF Promise!Arrays, Arrays, Promise!Elements, Elements
<1>2. Promise!Changed(v) = Options(v)
  <2>. DEFINE All(a, E, J) ==
                {a, <<>>}
                  \union {Append(a, e) : e \in E}
                  \union {SubSeq(a, 1, i - 1) \o SubSeq(a, i + 1, Len(a)) : i \in DOMAIN a}
                  \union {[a EXCEPT ![i] = e] : i \in DOMAIN a, e \in E}
                  \union J
              J == {Contents[v] \o Contents[w] : w \in Promise!Arrays}
              I == {Elems(v) \o Elems(w) : w \in Arrays}
  <2>1. Promise!Changed(v) = All(Contents[v], Promise!Elements, J)
    BY DEF Promise!Changed, Promise!RemoveAt, Promise!ReplaceAt
  <2>2. Options(v) = All(Elems(v), Elements, I)
    BY DEF Options, RemoveAt, ReplaceAt
  <2>3. Contents[v] = Elems(v) /\ J = I
    BY <1>1
  <2>. HIDE DEF All, I, J
  <2>. QED  BY <1>1, <2>1, <2>2, <2>3
<1>. QED  BY <1>1, <1>2

LEMMA CreatesPromised ==
  ASSUME Stored, Sized, OneEach(heap, held), Stored', OneEach(heap', held'), Kept',
         Contents = ContentsIn(heap, held), Contents' = ContentsIn(heap', held'),
         NEW kind, NEW s, Creates(kind, s)
  PROVE  Promise!Next
<1>. DEFINE K == ReachableIn(heap, held)
            new == NewId(heap)
            v == ObjectValue(kind, new)
            L == K \union {v}
<1>1. /\ kind \in {"Array", "String"} /\ DOMAIN heap' = DOMAIN heap \union {new}
      /\ new \in Ids /\ new \notin DOMAIN heap /\ held' = held \union {v}
      /\ \A id \in DOMAIN heap : heap'[id].elems = heap[id].elems
      /\ heap'[new].elems = s /\ rc' = "Ok"
      /\ s = <<>> \/ (kind = "Array" /\ \E w \in Arrays : s \in Options(w))
  BY DEF Creates
<1>2. /\ held \subseteq K /\ K \subseteq Anywhere(heap, held)
      /\ \A u \in K : u.n \in DOMAIN heap /\ ObjectsIn(heap[u.n].elems) \subseteq K
      /\ \A C \in SUBSET K :
           held \subseteq C /\ (\A u \in C : ObjectsIn(heap[u.n].elems) \subseteq C) => C = K
  <2>1. heap \in Seq(Objects)
    BY DEF Stored
  <2>. QED  BY <2>1, ReachFacts
<1>3. v.n = new /\ v.type = kind /\ IsObject(v)
  BY <1>1, ObjectTypesAre DEF ObjectValue, IsObject
<1>4. DOMAIN Contents = K /\ \A u \in K : Contents[u] = heap[u.n].elems
  BY DEF ContentsIn
<1>. HIDE DEF K, new, v
<1>5. v \notin K
  BY <1>1, <1>2, <1>3
<1>6. \A w \in Arrays : w \in K /\ Contents[w] = Elems(w)
  BY <1>2, <1>4 DEF Arrays, Elems
<1>7. ObjectsIn(s) \subseteq K
  <2>1. CASE s = <<>>
    BY <2>1 DEF ObjectsIn, Range
  <2>2. CASE \E w \in Arrays : s \in Options(w)
    <3>1. \A w \in Arrays : ObjectsIn(Elems(w)) \subseteq K
      BY <1>2, <1>6 DEF Elems
    <3>. QED  BY <1>2, <2>2, <3>1, OptionsStay
  <2>. QED  BY <1>1, <2>1, <2>2
<1>8. L = ReachableIn(heap', held')
  <2>. DEFINE M == ReachableIn(heap', held')
  <2>1. /\ held' \subseteq M
        /\ \A u \in M : ObjectsIn(heap'[u.n].elems) \subseteq M
        /\ \A C \in SUBSET M :
             held' \subseteq C /\ (\A u \in C : ObjectsIn(heap'[u.n].elems) \subseteq C) => C = M
    <3>1. heap' \in Seq(Objects)
      BY DEF Stored
    <3>. QED  BY <3>1, ReachFacts
  <2>. HIDE DEF M
  <2>2. held' \subseteq L /\ \A u \in L : ObjectsIn(heap'[u.n].elems) \subseteq L
    BY <1>1, <1>2, <1>3, <1>7
  <2>3. M \subseteq L
    <3>. DEFINE C == M \intersect L
    <3>1. C \in SUBSET M /\ held' \subseteq C /\ \A u \in C : ObjectsIn(heap'[u.n].elems) \subseteq C
      BY <2>1, <2>2
    <3>. HIDE DEF C
    <3>2. C = M
      BY <2>1, <3>1
    <3>. QED  BY <3>2 DEF C
  <2>4. K \subseteq M
    <3>. DEFINE C == K \intersect M
    <3>1. held \subseteq C /\ C \in SUBSET K
      BY <1>1, <1>2, <2>1
    <3>2. ASSUME NEW u \in C  PROVE ObjectsIn(heap[u.n].elems) \subseteq C
      <4>1. heap'[u.n].elems = heap[u.n].elems
        BY <1>1, <1>2
      <4>. QED  BY <1>2, <2>1, <4>1
    <3>. HIDE DEF C
    <3>3. C = K
      BY <1>2, <3>1, <3>2
    <3>. QED  BY <3>3 DEF C
  <2>. QED  BY <1>1, <2>1, <2>3, <2>4 DEF M
<1>9. Contents' = [k \in DOMAIN Contents \union {v} |-> IF k = v THEN s ELSE Contents[k]]
  <2>1. Contents' = [k \in L |-> heap'[k.n].elems]
    BY <1>8 DEF ContentsIn
  <2>2. \A k \in L : heap'[k.n].elems = IF k = v THEN s ELSE Contents[k]
    BY <1>1, <1>2, <1>3, <1>4, <1>5
  <2>. QED  BY <1>4, <2>1, <2>2
<1>10. ~(Len(s) > MaxCapacity)
  <2>1. CASE s = <<>>
    <3>1. Len(s) = 0 /\ MaxCapacity \in Nat
      BY <2>1, SmallFacts
    <3>. QED  BY <3>1
  <2>2. CASE kind = "Array"
    <3>1. v \in Arrays'
      BY <1>1, <1>3, <2>2 DEF Arrays
    <3>2. heap'[v.n].elems = s
      BY <1>1, <1>3
    <3>3. Len(s) <= MaxCapacity
      BY <3>1, <3>2 DEF Kept
    <3>4. s \in Seq(Known')
      BY <1>1 DEF Stored
    <3>5. Len(s) \in Nat /\ MaxCapacity \in Nat
      BY <3>4, LenProperties, SmallFacts
    <3>. QED  BY <3>3, <3>5
  <2>. QED  BY <1>1, <2>1, <2>2
<1>11. v \in {ObjectValue(type, id) : type \in {"Array", "String"}, id \in Ids}
  BY <1>1 DEF v
<1>12. Promise!Produce(kind, s)
  <2>. DEFINE H == {ObjectValue(type, id) : type \in {"Array", "String"}, id \in Ids}
              Got(h) == /\ h.type = kind
                        /\ held' = held \union {h}
                        /\ h \notin DOMAIN Contents
                        /\ Contents' = [k \in DOMAIN Contents \union {h} |-> IF k = h THEN s ELSE Contents[k]]
  <2>1. Promise!Produce(kind, s)
          <=> IF Len(s) > MaxCapacity THEN Promise!Refuse ELSE rc' = "Ok" /\ \E h \in H : Got(h)
    BY DEF Promise!Produce
  <2>2. Got(v)
    <3>1. v.type = kind /\ held' = held \union {v} /\ v \notin DOMAIN Contents
      BY <1>1, <1>3, <1>4, <1>5
    <3>. QED  BY <1>9, <3>1
  <2>3. v \in H /\ rc' = "Ok"
    BY <1>1, <1>11
  <2>. HIDE DEF H, Got
  <2>. QED  BY <1>10, <2>1, <2>2, <2>3
<1>13. CASE s = <<>>
  BY <1>1, <1>12, <1>13 DEF Promise!Next, Promise!Create
<1>14. ASSUME NEW w \in Arrays, s \in Options(w), kind = "Array"  PROVE Promise!Next
  <2>1. w \in Promise!Arrays /\ s \in Promise!Changed(w)
    BY <1>6, <1>14, OptionsPromised
  <2>. QED  BY <1>12, <1>14, <2>1 DEF Promise!Next
<1>. QED  BY <1>1, <1>13, <1>14

LEMMA BecomesPromised ==
  ASSUME Stored, Sized, OneEach(heap, held), Stored', OneEach(heap', held'), Kept',
         Contents = ContentsIn(heap, held), Contents' = ContentsIn(heap', held'),
         NEW v, NEW s, Becomes(v, s)
  PROVE  Promise!Next
<1>. DEFINE K == ReachableIn(heap, held)
            c == [Contents EXCEPT ![v] = s]
<1>1. /\ v \in Arrays /\ s \in Options(v) /\ v \in held /\ held' = held /\ rc' = "Ok"
      /\ DOMAIN heap' = DOMAIN heap
      /\ \A id \in DOMAIN heap : heap'[id].elems = IF id = v.n THEN s ELSE heap[id].elems
  BY DEF Becomes, Arrays
<1>2. heap \in Seq(Objects) /\ heap' \in Seq(Objects)
  BY DEF Stored
<1>3. /\ held \subseteq K /\ K \subseteq Anywhere(heap, held)
      /\ \A u \in K : u.n \in DOMAIN heap /\ ObjectsIn(heap[u.n].elems) \subseteq K
  BY <1>2, ReachFacts
<1>4. DOMAIN Contents = K /\ \A u \in K : Contents[u] = heap[u.n].elems
  BY DEF ContentsIn
<1>5. \A u \in K : u.n = v.n => u = v
  BY <1>1, <1>3 DEF OneEach
<1>6. \A w \in Arrays : w \in K /\ Contents[w] = Elems(w)
  <2>. HIDE DEF K
  <2>. QED  BY <1>3, <1>4 DEF Arrays, Elems
<1>7. ObjectsIn(s) \subseteq K
  <2>. HIDE DEF K
  <2>1. \A w \in Arrays : ObjectsIn(Elems(w)) \subseteq K
    BY <1>3, <1>6 DEF Elems
  <2>. QED  BY <1>1, <1>3, <2>1, OptionsStay
<1>8. \A u \in K : heap'[u.n].elems = IF u = v THEN s ELSE heap[u.n].elems
  <2>. HIDE DEF K
  <2>. QED  BY <1>1, <1>3, <1>5
<1>9. c = [u \in K |-> heap'[u.n].elems]
  <2>. HIDE DEF K
  <2>1. c = [u \in K |-> IF u = v THEN s ELSE Contents[u]]
    BY <1>4 DEF ContentsIn
  <2>. QED  BY <1>4, <1>8, <2>1
<1>10. \A u \in K : ObjectsIn(heap'[u.n].elems) \subseteq K
  <2>. HIDE DEF K
  <2>. QED  BY <1>3, <1>7, <1>8
<1>11. Contents' = Promise!Restrict(c, Promise!Reachable(c, held'))
  <2>. HIDE DEF c
  <2>1. held' \subseteq K
    BY <1>1, <1>3
  <2>. QED  BY <1>2, <1>9, <1>10, <2>1, KeepsReachable
<1>12. ~(Len(s) > MaxCapacity)
  <2>1. v \in Arrays' /\ v.n \in DOMAIN heap
    BY <1>1, ArrayFacts DEF Arrays
  <2>2. heap'[v.n].elems = s /\ s \in Seq(Known')
    BY <1>1, <2>1 DEF Stored
  <2>3. Len(s) <= MaxCapacity
    BY <2>1, <2>2 DEF Kept
  <2>4. Len(s) \in Nat /\ MaxCapacity \in Nat
    BY <2>2, LenProperties, SmallFacts
  <2>. QED  BY <2>3, <2>4
<1>13. Promise!Become(v, s)
  <2>1. Promise!Keep(c, held)
    BY <1>1, <1>11 DEF Promise!Keep
  <2>. QED  BY <1>1, <1>12, <2>1 DEF Promise!Become
<1>14. v \in Promise!Arrays /\ s \in Promise!Changed(v)
  BY <1>1, <1>6, OptionsPromised
<1>. QED  BY <1>13, <1>14 DEF Promise!Next

LEMMA DropsPromised ==
  ASSUME Stored, OneEach(heap, held), Stored', OneEach(heap', held'),
         Contents = ContentsIn(heap, held), Contents' = ContentsIn(heap', held'),
         NEW v, Drops(v)
  PROVE  Promise!Next
<1>. DEFINE K == ReachableIn(heap, held)
<1>1. v \in held /\ held' = held \ {v} /\ heap' = heap /\ rc' = "Ok"
  BY DEF Drops
<1>2. heap \in Seq(Objects)
  BY DEF Stored
<1>3. held \subseteq K /\ \A u \in K : ObjectsIn(heap[u.n].elems) \subseteq K
  BY <1>2, ReachFacts
<1>4. Contents = [u \in K |-> heap[u.n].elems]
  BY DEF ContentsIn
<1>5. Contents' = Promise!Restrict(Contents, Promise!Reachable(Contents, held'))
  <2>. DEFINE own == held'
  <2>1. own \subseteq K /\ OneEach(heap, own)
    BY <1>1, <1>3
  <2>2. Contents' = ContentsIn(heap, own)
    BY <1>1
  <2>. HIDE DEF own
  <2>. QED  BY <1>2, <1>3, <1>4, <2>1, <2>2, KeepsReachable DEF own
<1>6. Promise!Drop(v)
  BY <1>1, <1>5 DEF Promise!Drop, Promise!Keep
<1>. QED  BY <1>1, <1>6 DEF Promise!Next

LEMMA DeclinesPromised ==
  ASSUME Stored, OneEach(heap, held),
         Contents = ContentsIn(heap, held), Contents' = ContentsIn(heap', held'),
         NEW v, NEW s, Declines(v, s)
  PROVE  Promise!Next
<1>1. /\ v \in Arrays /\ s \in Options(v) /\ Len(s) > MaxCapacity
      /\ heap' = heap /\ held' = held /\ rc' = "Range"
  BY DEF Declines
<1>2. held \subseteq ReachableIn(heap, held)
  BY ReachFacts DEF Stored
<1>3. \A w \in Arrays : Contents[w] = Elems(w)
  BY <1>2 DEF Arrays, Elems, ContentsIn
<1>4. Promise!Produce("Array", s)
  BY <1>1 DEF Promise!Produce, Promise!Refuse
<1>5. v \in Promise!Arrays /\ s \in Promise!Changed(v)
  BY <1>1, <1>3, OptionsPromised
<1>. QED  BY <1>4, <1>5 DEF Promise!Next

LEMMA StaysPromised ==
  ASSUME Stored, OneEach(heap, held), Stored', OneEach(heap', held'),
         Contents = ContentsIn(heap, held), Contents' = ContentsIn(heap', held'), Stays
  PROVE  UNCHANGED <<Contents, held, rc>>
<1>. DEFINE K == ReachableIn(heap, held)
            L == ReachableIn(heap', held')
<1>1. /\ held' = held /\ rc' = rc
      /\ \A id \in DOMAIN heap : heap'[id].elems = heap[id].elems
  BY DEF Stays
<1>2. heap \in Seq(Objects) /\ heap' \in Seq(Objects)
  BY DEF Stored
<1>3. /\ LeastIn(Inside(heap, held), held, K) /\ LeastIn(Inside(heap', held'), held', L)
      /\ K \subseteq Anywhere(heap, held) /\ L \subseteq Anywhere(heap', held')
      /\ \A u \in K : u.n \in DOMAIN heap
  BY <1>2, ReachableIsLeast, ReachFacts
<1>4. /\ \A u \in Anywhere(heap, held) : Inside(heap, held)[u] = ObjectsIn(heap[u.n].elems)
      /\ \A u \in Anywhere(heap', held') : Inside(heap', held')[u] = ObjectsIn(heap'[u.n].elems)
  BY <1>2, AnywhereFacts
<1>. HIDE DEF K, L
<1>5. K = L
  <2>1. \A u \in K \intersect L : Inside(heap, held)[u] = Inside(heap', held')[u]
    BY <1>1, <1>3, <1>4
  <2>. QED  BY <1>1, <1>3, <2>1, LeastIsUnique
<1>6. Contents = [u \in K |-> heap[u.n].elems] /\ Contents' = [u \in L |-> heap'[u.n].elems]
  BY DEF ContentsIn, K, L
<1>7. Contents' = Contents
  BY <1>1, <1>3, <1>5, <1>6
<1>. QED  BY <1>1, <1>7

LEMMA StepPromised ==
  ASSUME Stored, Sized, OneEach(heap, held), Kept, Stored', OneEach(heap', held'), Kept',
         [ArraysNext]_arrayVars
  PROVE  [(\E id \in Ids : lost'[id] > 0) \/ Promise!Next]_<<Contents, held, rc>>
<1>. SUFFICES ASSUME ~\E id \in Ids : lost'[id] > 0
              PROVE  Promise!Next \/ UNCHANGED <<Contents, held, rc>>
  OBVIOUS
<1>1. \A id \in Ids : lost'[id] = 0
  <2>1. lost' \in [Ids -> Nat]
    BY DEF Stored, Ids
  <2>. QED  BY <2>1
<1>2. \A id \in Ids : lost[id] = 0
  BY <1>1, LostStaysLost
<1>3. Contents = ContentsIn(heap, held) /\ Contents' = ContentsIn(heap', held')
  BY <1>1, <1>2, ContentsAre, ContentsBecome
<1>. QED
  BY <1>3, StepDeeds, CreatesPromised, BecomesPromised, DeclinesPromised, DropsPromised, StaysPromised
  DEF Deeds

\* The counted arrays behave as garbage-collected sequences: what the caller can
\* reach is there and what it cannot is not seen, copies are independent, shared
\* arrays change for everybody and a refused call changes nothing (array.c), up to
\* the first call of akw_array_remove_at that gives back a reference.
THEOREM ArraysAreSequences == ArraysSpec => ImplementsSequences
<1>1. ArraysInit => Promise!Init
  <2>. SUFFICES ASSUME ArraysInit  PROVE Promise!Init
    OBVIOUS
  <2>1. heap = <<>> /\ held = {} /\ rc = "Ok"
    BY DEF ArraysInit
  <2>2. OneEach(heap, held)
    BY <2>1 DEF OneEach, Anywhere
  <2>3. ReachableIn(heap, held) \subseteq Anywhere(heap, held) /\ Anywhere(heap, held) = {}
    <3>1. heap \in Seq(Objects)
      BY <2>1
    <3>2. Anywhere(heap, held) = {}
      BY <2>1 DEF Anywhere
    <3>. QED  BY <2>2, <3>1, <3>2, ReachFacts
  <2>4. Reachable(held) = {}
    BY <2>3 DEF Reachable, ReachableIn, Elems
  <2>5. Contents = <<>>
    BY <2>4 DEF Contents
  <2>. QED  BY <2>1, <2>5 DEF Promise!Init
<1>2. ArraysInit => OneEach(heap, held)
  BY DEF ArraysInit, OneEach, Anywhere
<1>3. Stored /\ Sized /\ OneEach(heap, held) /\ [ArraysNext]_arrayVars => OneEach(heap, held)'
  BY HandlesStep
<1>4. Stored /\ Sized /\ Counted /\ OneEach(heap, held) => Kept
  BY KeptAlways
<1>5. /\ Stored /\ Sized /\ OneEach(heap, held) /\ Kept /\ Stored' /\ OneEach(heap, held)' /\ Kept'
      /\ [ArraysNext]_arrayVars
      => [(\E id \in Ids : lost'[id] > 0) \/ Promise!Next]_<<Contents, held, rc>>
  BY StepPromised
<1>. QED
  BY <1>1, <1>2, <1>3, <1>4, <1>5, StoredInitial, StoredStep, SizedInitial, SizedStep,
     CountedInitial, CountedStep, PTL DEF ArraysSpec, ImplementsSequences

=============================================================================
