------------------------- MODULE MemoryGraphProofs -------------------------
(***************************************************************************)
(* Proofs about MemoryGraph, for any number of servers, notes, neighbours  *)
(* and updates: the embeddings match the notes, the links are sound, and   *)
(* an answer has the notes it should have in the order it should have.     *)
(***************************************************************************)
EXTENDS MemoryGraph, TLAPS, SequenceTheorems, FiniteSetTheorems, WellFoundedInduction

-----------------------------------------------------------------------------
(* Numbers and sequences.                                                  *)

\* A set of natural numbers that is not empty has a least member.
LEMMA LeastMember ==
  ASSUME NEW T, T \subseteq Nat, T # {}
  PROVE  \E x \in T : \A y \in T : ~(y < x)
  <1> DEFINE R == {p \in Nat \X Nat : p[1] < p[2]}
  <1>1. IsWellFoundedOn(R, Nat)
    BY NatLessThanWellFounded DEF OpToRel
  <1>2. \E x \in T : \A y \in T : <<y, x>> \notin R
    <2> HIDE DEF R
    <2> QED
      BY <1>1, WFMin
  <1> QED
    BY <1>2

\* Induction, over the set of the numbers that have a property.
LEMMA NumberInduction ==
  ASSUME NEW T, 0 \in T, \A n \in Nat : n \in T => n + 1 \in T
  PROVE  Nat \subseteq T
  <1> DEFINE B == Nat \ T
  <1> SUFFICES ASSUME B # {} PROVE FALSE
    OBVIOUS
  <1>1. PICK x \in B : \A y \in B : ~(y < x)
    BY LeastMember
  <1>2. x # 0 /\ x - 1 \in Nat /\ x - 1 \in T
    BY <1>1
  <1> QED
    BY <1>1, <1>2

\* No member twice; smaller members first.
Injective(q) == \A j, k \in DOMAIN q : q[j] = q[k] => j = k
Increasing(q) == \A j, k \in DOMAIN q : j < k => q[j] < q[k]

\* A sequence without repetitions is as long as its set is large.
LEMMA InjectiveLength ==
  ASSUME NEW U, NEW q \in Seq(U), Injective(q)
  PROVE  IsFiniteSet(ToSet(q)) /\ Cardinality(ToSet(q)) = Len(q)
  <1>1. Len(q) \in Nat /\ DOMAIN q = 1..Len(q)
    BY LenProperties
  <1>2. q \in Bijection(1..Len(q), ToSet(q))
    <2>1. q \in [1..Len(q) -> ToSet(q)]
      BY <1>1 DEF ToSet
    <2>2. \A t \in ToSet(q) : \E i \in 1..Len(q) : q[i] = t
      BY <1>1 DEF ToSet
    <2> QED
      BY <1>1, <2>1, <2>2 DEF Bijection, Injection, Surjection, IsInjective, Injective
  <1>3. ExistsBijection(1..Len(q), ToSet(q))
    BY <1>2 DEF ExistsBijection
  <1> QED
    BY <1>1, <1>3, FS_NatBijection, FS_CountingElements

\* Every finite set of ids can be sorted.
LEMMA SortedExists ==
  ASSUME NEW n \in Nat, NEW S \in SUBSET (1..n)
  PROVE  \E q \in Seq(Nat) : ToSet(q) = S /\ Increasing(q)
  <1> DEFINE Sorts(q, X) == ToSet(q) = X /\ Increasing(q)
             T == {m \in Nat : \A X \in SUBSET (1..m) : \E q \in Seq(Nat) : Sorts(q, X)}
  <1>1. 0 \in T
    <2>1. Sorts(<<>>, {}) /\ <<>> \in Seq(Nat) /\ 1..0 = {}
      BY DEF ToSet, Increasing
    <2> HIDE DEF Sorts
    <2> QED
      BY <2>1
  <1>2. ASSUME NEW m \in Nat, m \in T PROVE m + 1 \in T
    <2> SUFFICES ASSUME NEW X \in SUBSET (1..(m + 1)) PROVE \E q \in Seq(Nat) : Sorts(q, X)
      <3> HIDE DEF Sorts
      <3> QED
        OBVIOUS
    <2>1. X \ {m + 1} \in SUBSET (1..m)
      OBVIOUS
    <2>2. PICK p \in Seq(Nat) : Sorts(p, X \ {m + 1})
      <3> HIDE DEF Sorts
      <3> QED
        BY <1>2, <2>1
    <2>3. CASE m + 1 \notin X
      <3>1. X \ {m + 1} = X
        BY <2>3
      <3> HIDE DEF Sorts
      <3> QED
        BY <2>2, <3>1
    <2>4. CASE m + 1 \in X
      <3> DEFINE q == Append(p, m + 1)
      <3>1. /\ q \in Seq(Nat) /\ Len(q) = Len(p) + 1
            /\ \A i \in 1..Len(p) : q[i] = p[i]
            /\ q[Len(p) + 1] = m + 1
            /\ Len(p) \in Nat /\ DOMAIN p = 1..Len(p) /\ DOMAIN q = 1..Len(q)
        BY AppendProperties, LenProperties
      <3> HIDE DEF q
      <3>2. \A i \in 1..Len(p) : p[i] \in 1..m
        BY <2>1, <2>2, <3>1 DEF ToSet
      <3>3. Increasing(q)
        <4> SUFFICES ASSUME NEW j \in 1..Len(q), NEW k \in 1..Len(q), j < k PROVE q[j] < q[k]
          BY <3>1 DEF Increasing
        <4>1. j \in 1..Len(p) /\ (k \in 1..Len(p) \/ k = Len(p) + 1)
          <5> HIDE DEF T
          <5>1. Len(q) = Len(p) + 1 /\ Len(p) \in Nat
            BY <3>1
          <5> QED
            BY <5>1
        <4>2. CASE k \in 1..Len(p)
          BY <2>2, <3>1, <4>1, <4>2 DEF Increasing
        <4>3. CASE k = Len(p) + 1
          BY <3>1, <3>2, <4>1, <4>3
        <4> QED
          BY <4>1, <4>2, <4>3
      <3>4. ToSet(q) = X
        <4>1. \A i \in DOMAIN q : q[i] \in X
          <5> TAKE i \in DOMAIN q
          <5>1. i \in 1..Len(p) \/ i = Len(p) + 1
            BY <3>1
          <5> QED
            BY <2>2, <2>4, <3>1, <5>1 DEF ToSet
        <4>2. \A x \in X : \E i \in DOMAIN q : q[i] = x
          <5> TAKE x \in X
          <5>1. CASE x = m + 1
            BY <3>1, <5>1
          <5>2. CASE x # m + 1
            <6>1. PICK i \in DOMAIN p : p[i] = x
              BY <2>2, <5>2 DEF ToSet
            <6> QED
              BY <3>1, <6>1
          <5> QED
            BY <5>1, <5>2
        <4> QED
          BY <4>1, <4>2 DEF ToSet
      <3> QED
        BY <3>1, <3>3, <3>4
    <2> QED
      BY <2>3, <2>4
  <1> HIDE DEF T
  <1>3. n \in T
    BY <1>1, <1>2, NumberInduction
  <1> QED
    BY <1>3 DEF T

\* What is increasing does not repeat.
LEMMA IncreasingInjective ==
  ASSUME NEW q \in Seq(Nat), Increasing(q)
  PROVE  Injective(q)
  BY DEF Increasing, Injective

\* Ascending does what its name says.
LEMMA AscendingSorts ==
  ASSUME NEW n \in Nat, NEW S \in SUBSET (1..n)
  PROVE  /\ Ascending(S) \in Seq(S)
         /\ ToSet(Ascending(S)) = S
         /\ Increasing(Ascending(S))
  <1> DEFINE c == Cardinality(S)
             f == Ascending(S)
  <1>1. PICK q \in Seq(Nat) : ToSet(q) = S /\ Increasing(q)
    BY SortedExists
  <1>2. Injective(q) /\ Len(q) = c /\ IsFiniteSet(S)
    BY <1>1, IncreasingInjective, InjectiveLength
  <1>3. DOMAIN q = 1..c /\ c \in Nat
    BY <1>2, LenProperties
  <1>4. q \in SetToSeqs(S)
    BY <1>1, <1>2, <1>3 DEF SetToSeqs, Injective, ToSet
  <1>5. f \in SetToSeqs(S) /\ Increasing(f)
    BY <1>1, <1>4 DEF Ascending, Increasing
  <1>6. f \in [1..c -> S] /\ Injective(f)
    BY <1>5 DEF SetToSeqs, Injective
  <1> HIDE DEF f, c
  <1>7. f \in Injection(1..c, S)
    BY <1>6 DEF Injection, IsInjective, Injective
  <1>8. IsFiniteSet(1..c) /\ Cardinality(1..c) = c
    BY <1>3, FS_Interval
  <1>9. f \in Surjection(1..c, S)
    BY <1>2, <1>7, <1>8, FS_Injection DEF c
  <1>10. \A x \in S : \E i \in 1..c : f[i] = x
    BY <1>9 DEF Surjection
  <1>11. ToSet(f) = S
    BY <1>6, <1>10 DEF ToSet
  <1>12. f \in Seq(S)
    BY <1>3, <1>6
  <1> QED
    BY <1>5, <1>11, <1>12 DEF f

\* Only one order of the numbers up to n ascends.
LEMMA AscendingInterval ==
  ASSUME NEW n \in Nat
  PROVE  Ascending(1..n) = [i \in 1..n |-> i]
  <1> DEFINE f == Ascending(1..n)
  <1>1. f \in Seq(1..n) /\ ToSet(f) = 1..n /\ Increasing(f)
    BY AscendingSorts
  <1> HIDE DEF f
  <1>2. Len(f) = n
    <2>1. f \in Seq(Nat) /\ Injective(f)
      BY <1>1, SeqMonotonic, IncreasingInjective, 1..n \subseteq Nat
    <2>2. Cardinality(1..n) = n
      BY FS_Interval
    <2> QED
      BY <1>1, <2>1, <2>2, InjectiveLength
  <1>3. DOMAIN f = 1..n /\ \A i \in 1..n : f[i] \in 1..n
    BY <1>1, <1>2
  <1>4. \A j, k \in 1..n : j < k => f[j] < f[k]
    BY <1>1, <1>3 DEF Increasing
  <1> DEFINE Low == {i \in Nat : i + 1 \in 1..n => f[i + 1] >= i + 1}
             High == {d \in Nat : n - d \in 1..n => f[n - d] <= n - d}
  <1>5. 0 \in Low /\ \A i \in Nat : i \in Low => i + 1 \in Low
    <2>1. 0 \in Low
      BY <1>3
    <2>2. ASSUME NEW i \in Nat, i \in Low, i + 2 \in 1..n PROVE f[i + 2] >= i + 2
      <3>1. f[i + 1] >= i + 1 /\ f[i + 1] < f[i + 2] /\ f[i + 1] \in 1..n /\ f[i + 2] \in 1..n
        BY <1>3, <1>4, <2>2
      <3> QED
        BY <3>1
    <2> QED
      BY <2>1, <2>2
  <1>6. 0 \in High /\ \A d \in Nat : d \in High => d + 1 \in High
    <2>1. 0 \in High
      BY <1>3
    <2>2. ASSUME NEW d \in Nat, d \in High, n - (d + 1) \in 1..n
          PROVE  f[n - (d + 1)] <= n - (d + 1)
      <3> DEFINE i == n - (d + 1)
      <3>1. n - d = i + 1 /\ i + 1 \in 1..n /\ i \in 1..n
        BY <2>2
      <3>2. f[i + 1] <= i + 1 /\ f[i] < f[i + 1] /\ f[i] \in 1..n /\ f[i + 1] \in 1..n
        BY <1>3, <1>4, <2>2, <3>1
      <3> QED
        BY <3>1, <3>2
    <2> QED
      BY <2>1, <2>2
  <1>7. Nat \subseteq Low /\ Nat \subseteq High
    <2> HIDE DEF Low, High
    <2> QED
      BY <1>5, <1>6, NumberInduction
  <1>8. \A i \in 1..n : f[i] = i
    <2> TAKE i \in 1..n
    <2>1. i - 1 \in Low /\ n - i \in High
      BY <1>7
    <2>2. (i - 1) + 1 = i /\ n - (n - i) = i
      OBVIOUS
    <2>3. f[i] >= i /\ f[i] <= i
      BY <2>1, <2>2
    <2> QED
      BY <1>3, <2>3
  <1>9. f = [i \in 1..n |-> i]
    BY <1>1, <1>2, <1>3, <1>8
  <1> QED
    BY <1>9 DEF f

\* If all the rows exist, the answer is what was asked for.
LEMMA SortRetrievalRowsKeeps ==
  ASSUME NEW U, NEW ids \in Seq(U), NEW rows, ToSet(ids) \subseteq rows
  PROVE  SortRetrievalRows(ids, rows) = ids
  <1> DEFINE n == Len(ids)
             P == {k \in DOMAIN ids : ids[k] \in rows}
  <1>1. n \in Nat /\ DOMAIN ids = 1..n /\ ids \in [1..n -> U]
    BY LenProperties
  <1>2. P = 1..n
    BY <1>1 DEF ToSet
  <1> HIDE DEF n
  <1>3. Ascending(P) = [i \in 1..n |-> i]
    BY <1>1, <1>2, AscendingInterval
  <1>4. SortRetrievalRows(ids, rows) = [k \in DOMAIN Ascending(P) |-> ids[Ascending(P)[k]]]
    BY DEF SortRetrievalRows
  <1> HIDE DEF P
  <1>5. SortRetrievalRows(ids, rows) = [k \in 1..n |-> ids[k]]
    BY <1>3, <1>4
  <1> QED
    BY <1>1, <1>5

\* The notes that the links seen lead to from id, and one step of OrderedRetrievalIds.
LinkedFrom(seen, id) == {l[2] : l \in {m \in seen : m[1] = id}}
ExtendedBy(ids, S) == ids \o Ascending(NewTargets(ids, S))

\* The ids are extended once for each of the nearest notes.
LEMMA OrderedRetrievalIdsSteps ==
  ASSUME NEW U, NEW top \in Seq(U), NEW seen
  PROVE  \E E : /\ E[0] = top
                /\ \A k \in 1..Len(top) : E[k] = ExtendedBy(E[k - 1], LinkedFrom(seen, top[k]))
                /\ OrderedRetrievalIds(top, seen) = E[Len(top)]
  <1> DEFINE Grown(k, ids) == ExtendedBy(ids, LinkedFrom(seen, top[k]))
             Is(E, m) == E = [k \in 0..m |-> IF k = 0 THEN top ELSE Grown(k, E[k - 1])]
             T == {m \in Nat : \E E : Is(E, m)}
             All == CHOOSE E : Is(E, Len(top))
  <1>0. Len(top) \in Nat
    BY LenProperties
  <1>1. OrderedRetrievalIds(top, seen) = All[Len(top)]
    BY DEF OrderedRetrievalIds, ExtendedBy, LinkedFrom
  <1> HIDE DEF Grown
  <1>2. 0 \in T
    <2>1. Is([k \in 0..0 |-> top], 0)
      OBVIOUS
    <2> HIDE DEF Is
    <2> QED
      BY <2>1
  <1>3. ASSUME NEW m \in Nat, m \in T PROVE m + 1 \in T
    <2>1. PICK E : Is(E, m)
      <3> HIDE DEF Is
      <3> QED
        BY <1>3
    <2> DEFINE F == [k \in 0..(m + 1) |-> IF k = m + 1 THEN Grown(m + 1, E[m]) ELSE E[k]]
    <2>2. \A k \in 0..(m + 1) : F[k] = IF k = 0 THEN top ELSE Grown(k, F[k - 1])
      BY <2>1
    <2>3. Is(F, m + 1)
      BY <2>2
    <2> HIDE DEF Is
    <2> QED
      BY <2>3
  <1>4. Len(top) \in T
    <2> HIDE DEF T
    <2> QED
      BY <1>0, <1>2, <1>3, NumberInduction
  <1>5. Is(All, Len(top))
    <2> HIDE DEF Is
    <2> QED
      BY <1>4
  <1> HIDE DEF All
  <1>6. All[0] = top /\ \A k \in 1..Len(top) : All[k] = Grown(k, All[k - 1])
    BY <1>0, <1>5
  <1> QED
    BY <1>1, <1>6 DEF Grown

-----------------------------------------------------------------------------
(* The ids of an answer.                                                   *)

\* The r-th of the nearest notes is the first of them that links to id.
FirstFrom(top, seen, id, r) ==
  /\ r \in 1..Len(top) /\ <<top[r], id>> \in seen
  /\ \A j \in 1..(r - 1) : <<top[j], id>> \notin seen

\* The ids after the links of the first k of the nearest notes.
ExtendedSound(top, seen, n, k, ids) ==
  /\ ids \in Seq(1..n) /\ Injective(ids)
  /\ Len(top) <= Len(ids) /\ \A i \in 1..Len(top) : ids[i] = top[i]
  /\ \A id \in 1..n :
       id \in ToSet(ids) <=> id \in ToSet(top) \/ \E j \in 1..k : <<top[j], id>> \in seen
  /\ \A i \in (Len(top) + 1)..Len(ids) : \E r \in 1..k : FirstFrom(top, seen, ids[i], r)
  /\ \A i, j \in (Len(top) + 1)..Len(ids) : \A r, t \in 1..k :
       i < j /\ FirstFrom(top, seen, ids[i], r) /\ FirstFrom(top, seen, ids[j], t)
         => r < t \/ (r = t /\ ids[i] < ids[j])

\* Only one note is the first.
LEMMA FirstFromUnique ==
  ASSUME NEW top, NEW seen, NEW id, Len(top) \in Nat, NEW r, NEW t,
         FirstFrom(top, seen, id, r), FirstFrom(top, seen, id, t)
  PROVE  r = t
  <1>1. r \in 1..Len(top) /\ t \in 1..Len(top)
    BY DEF FirstFrom
  <1>2. ~(r < t) /\ ~(t < r)
    BY <1>1 DEF FirstFrom
  <1> QED
    BY <1>1, <1>2

\* The links of one more note keep the order.
LEMMA ExtendedBySound ==
  ASSUME NEW n \in Nat, NEW top \in Seq(1..n), NEW seen \in SUBSET (ToSet(top) \X (1..n)),
         NEW k \in Nat, k + 1 <= Len(top), NEW ids, ExtendedSound(top, seen, n, k, ids)
  PROVE  ExtendedSound(top, seen, n, k + 1, ExtendedBy(ids, LinkedFrom(seen, top[k + 1])))
  <1> DEFINE N == NewTargets(ids, LinkedFrom(seen, top[k + 1]))
             new == Ascending(N)
             more == ids \o new
             L == Len(top)
             First(id, r) == FirstFrom(top, seen, id, r)
  <1>0. L \in Nat /\ k + 1 \in 1..L /\ ids \in Seq(1..n)
    BY LenProperties DEF ExtendedSound
  <1>1. \A x : x \in N <=> x \in 1..n /\ x \notin ToSet(ids) /\ <<top[k + 1], x>> \in seen
    <2>1. \A m \in seen : m = <<m[1], m[2]>> /\ m[2] \in 1..n
      OBVIOUS
    <2>2. \A x : x \in LinkedFrom(seen, top[k + 1]) => x \in 1..n /\ <<top[k + 1], x>> \in seen
      BY <2>1 DEF LinkedFrom
    <2>3. \A x : <<top[k + 1], x>> \in seen => x \in LinkedFrom(seen, top[k + 1])
      <3> TAKE x
      <3> DEFINE m == <<top[k + 1], x>>
      <3>1. m[1] = top[k + 1] /\ m[2] = x
        OBVIOUS
      <3> HIDE DEF m
      <3>2. m \in seen => x \in LinkedFrom(seen, top[k + 1])
        BY <3>1 DEF LinkedFrom
      <3> QED
        BY <3>2 DEF m
    <2> QED
      BY <2>2, <2>3 DEF NewTargets
  <1>2. N \in SUBSET (1..n)
    BY <1>1
  <1> HIDE DEF N
  <1>3. /\ new \in Seq(1..n) /\ ToSet(new) = N /\ Increasing(new)
        /\ new \in Seq(Nat) /\ Injective(new)
    <2>1. new \in Seq(N) /\ ToSet(new) = N /\ Increasing(new)
      BY <1>2, AscendingSorts
    <2> HIDE DEF new
    <2>2. new \in Seq(1..n)
      BY <1>2, <2>1, SeqMonotonic
    <2>3. new \in Seq(Nat)
      BY <2>2, 1..n \subseteq Nat, SeqMonotonic
    <2> QED
      BY <2>1, <2>2, <2>3, IncreasingInjective
  <1>3a. ExtendedBy(ids, LinkedFrom(seen, top[k + 1])) = more
    BY DEF ExtendedBy, N
  <1> HIDE DEF new
  <1>4. /\ more \in Seq(1..n) /\ Len(more) = Len(ids) + Len(new)
        /\ Len(ids) \in Nat /\ Len(new) \in Nat /\ DOMAIN more = 1..Len(more)
        /\ DOMAIN ids = 1..Len(ids) /\ DOMAIN new = 1..Len(new)
    BY <1>0, <1>3, ConcatProperties, LenProperties
  <1>5. \A i \in 1..Len(ids) : i \in 1..Len(more) /\ more[i] = ids[i]
    BY <1>0, <1>3, <1>4, ConcatProperties
  <1>6. \A i \in 1..Len(new) : Len(ids) + i \in 1..Len(more) /\ more[Len(ids) + i] = new[i]
    <2> TAKE i \in 1..Len(new)
    <2>1. Len(ids) + i \in 1..(Len(ids) + Len(new)) /\ ~(Len(ids) + i <= Len(ids))
      BY <1>4
    <2>2. (ids \o new)[Len(ids) + i] = new[(Len(ids) + i) - Len(ids)]
      BY <1>0, <1>3, <2>1, ConcatProperties
    <2>3. (Len(ids) + i) - Len(ids) = i
      BY <1>4
    <2> QED
      BY <1>4, <2>1, <2>2, <2>3
  <1> HIDE DEF more
  <1>7. \A i \in 1..Len(more) : i \in 1..Len(ids) \/ \E m \in 1..Len(new) : i = Len(ids) + m
    <2> TAKE i \in 1..Len(more)
    <2>1. CASE i > Len(ids)
      <3>1. i - Len(ids) \in 1..Len(new) /\ i = Len(ids) + (i - Len(ids))
        BY <1>4, <2>1
      <3> QED
        BY <3>1
    <2> QED
      BY <1>4, <2>1
  <1>8. \A i \in 1..Len(new) : new[i] \in N
    BY <1>3, <1>4 DEF ToSet
  <1>9. \A x \in N : First(x, k + 1)
    <2> TAKE x \in N
    <2>1. \A j \in 1..k : <<top[j], x>> \notin seen
      BY <1>1 DEF ExtendedSound
    <2> QED
      BY <1>0, <1>1, <2>1 DEF FirstFrom
  <1>10. Injective(more)
    <2> SUFFICES ASSUME NEW i \in 1..Len(more), NEW j \in 1..Len(more), more[i] = more[j]
                 PROVE  i = j
      BY <1>4 DEF Injective
    <2>1. \A m \in 1..Len(ids) : \A p \in 1..Len(new) : ids[m] # new[p]
      BY <1>1, <1>4, <1>8 DEF ToSet
    <2>2. ASSUME i \in 1..Len(ids), j \in 1..Len(ids) PROVE i = j
      <3>1. ids[i] = ids[j] /\ DOMAIN ids = 1..Len(ids)
        BY <1>4, <1>5, <2>2
      <3>2. Injective(ids)
        BY DEF ExtendedSound
      <3> QED
        BY <2>2, <3>1, <3>2 DEF Injective
    <2>3. ASSUME NEW m \in 1..Len(new), NEW p \in 1..Len(new), i = Len(ids) + m, j = Len(ids) + p
          PROVE  i = j
      <3>1. more[i] = new[m] /\ more[j] = new[p]
        BY <1>6, <2>3
      <3>2. m = p
        BY <1>3, <1>4, <3>1 DEF Injective
      <3> QED
        BY <2>3, <3>2
    <2>4. ASSUME NEW m \in 1..Len(new), i = Len(ids) + m PROVE i = j
      <3>1. j \notin 1..Len(ids)
        BY <1>5, <1>6, <2>1, <2>4
      <3> QED
        BY <1>7, <2>3, <2>4, <3>1
    <2>5. ASSUME NEW m \in 1..Len(new), j = Len(ids) + m PROVE i = j
      <3>1. i \notin 1..Len(ids)
        BY <1>5, <1>6, <2>1, <2>5
      <3> QED
        BY <1>7, <2>3, <2>5, <3>1
    <2> QED
      BY <1>7, <2>2, <2>4, <2>5
  <1>11. ASSUME NEW id \in 1..n
         PROVE  id \in ToSet(more) <=> id \in ToSet(top) \/ \E j \in 1..(k + 1) : <<top[j], id>> \in seen
    <2>1. id \in ToSet(more) <=> id \in ToSet(ids) \/ id \in N
      <3>1. ASSUME id \in ToSet(more) PROVE id \in ToSet(ids) \/ id \in N
        <4>1. PICK i \in 1..Len(more) : more[i] = id
          BY <1>4, <3>1 DEF ToSet
        <4>2. CASE i \in 1..Len(ids)
          BY <1>4, <1>5, <4>1, <4>2 DEF ToSet
        <4>3. ASSUME NEW m \in 1..Len(new), i = Len(ids) + m PROVE id \in N
          BY <1>6, <1>8, <4>1, <4>3
        <4> QED
          BY <1>7, <4>2, <4>3
      <3>2. ASSUME id \in ToSet(ids) PROVE id \in ToSet(more)
        BY <1>4, <1>5, <3>2 DEF ToSet
      <3>3. ASSUME id \in N PROVE id \in ToSet(more)
        <4>1. PICK m \in 1..Len(new) : new[m] = id
          BY <1>3, <1>4, <3>3 DEF ToSet
        <4> QED
          BY <1>4, <1>6, <4>1 DEF ToSet
      <3> QED
        BY <3>1, <3>2, <3>3
    <2>2. id \in ToSet(ids) <=> id \in ToSet(top) \/ \E j \in 1..k : <<top[j], id>> \in seen
      BY DEF ExtendedSound
    <2>3. (\E j \in 1..(k + 1) : <<top[j], id>> \in seen)
            <=> <<top[k + 1], id>> \in seen \/ \E j \in 1..k : <<top[j], id>> \in seen
      <3>1. \A j \in 1..(k + 1) : j = k + 1 \/ j \in 1..k
        OBVIOUS
      <3>2. \A j \in 1..k : j \in 1..(k + 1)
        OBVIOUS
      <3> QED
        BY <3>1, <3>2, k + 1 \in 1..(k + 1)
    <2> QED
      BY <1>1, <2>1, <2>2, <2>3
  <1>12. Len(top) <= Len(more) /\ \A i \in 1..Len(top) : more[i] = top[i]
    <2>1. Len(top) <= Len(ids) /\ \A i \in 1..Len(top) : ids[i] = top[i]
      BY DEF ExtendedSound
    <2>2. \A i \in 1..Len(top) : i \in 1..Len(ids)
      BY <1>0, <1>4, <2>1
    <2> QED
      BY <1>0, <1>4, <1>5, <2>1, <2>2
  <1>13. ASSUME NEW i \in (L + 1)..Len(more)
         PROVE  \/ i \in (L + 1)..Len(ids) /\ more[i] = ids[i] /\ \E r \in 1..k : First(more[i], r)
                \/ \E m \in 1..Len(new) : /\ i = Len(ids) + m /\ more[i] = new[m]
                                          /\ First(more[i], k + 1)
    <2>1. i \in 1..Len(more)
      BY <1>0, <1>4
    <2>2. CASE i \in 1..Len(ids)
      <3>1. i \in (L + 1)..Len(ids)
        BY <1>0, <1>4, <2>2
      <3> QED
        BY <1>5, <2>2, <3>1 DEF ExtendedSound
    <2> QED
      BY <1>6, <1>7, <1>8, <1>9, <2>1, <2>2
  <1>14. \A i \in (L + 1)..Len(more) : \E r \in 1..(k + 1) : First(more[i], r)
    <2> TAKE i \in (L + 1)..Len(more)
    <2>1. k + 1 \in 1..(k + 1) /\ \A r \in 1..k : r \in 1..(k + 1)
      OBVIOUS
    <2> HIDE DEF First
    <2> QED
      BY <1>13, <2>1
  <1>15. ASSUME NEW i \in (L + 1)..Len(more), NEW j \in (L + 1)..Len(more),
                NEW r \in 1..(k + 1), NEW t \in 1..(k + 1),
                i < j, First(more[i], r), First(more[j], t)
         PROVE  r < t \/ (r = t /\ more[i] < more[j])
    <2>1. \A q : First(more[i], q) => q = r
      BY <1>0, <1>15, FirstFromUnique
    <2>2. \A q : First(more[j], q) => q = t
      BY <1>0, <1>15, FirstFromUnique
    <2>3. CASE j \in (L + 1)..Len(ids)
      <3>1. i \in (L + 1)..Len(ids)
        BY <1>0, <1>4, <1>15, <2>3
      <3>2. more[i] = ids[i] /\ more[j] = ids[j] /\ r \in 1..k /\ t \in 1..k
        <4> HIDE DEF First
        <4>1. \A m \in 1..Len(new) : i # Len(ids) + m /\ j # Len(ids) + m
          <5>1. Len(ids) \in Nat /\ i <= Len(ids) /\ j <= Len(ids)
            BY <1>4, <2>3, <3>1
          <5>2. \A m \in 1..Len(new) : m > 0 /\ m \in Nat
            BY <1>4
          <5> QED
            BY <5>1, <5>2
        <4> QED
          BY <1>13, <2>1, <2>2, <4>1
      <3> QED
        BY <1>15, <2>3, <3>1, <3>2 DEF ExtendedSound
    <2>4. CASE j \notin (L + 1)..Len(ids)
      <3> HIDE DEF First
      <3>1. PICK p \in 1..Len(new) : j = Len(ids) + p /\ more[j] = new[p] /\ t = k + 1
        BY <1>13, <2>2, <2>4
      <3>2. CASE i \in (L + 1)..Len(ids)
        <4>1. \A m \in 1..Len(new) : i # Len(ids) + m
          BY <1>0, <1>4, <3>2
        <4>2. r \in 1..k
          BY <1>13, <2>1, <4>1
        <4> QED
          BY <3>1, <4>2
      <3>3. CASE i \notin (L + 1)..Len(ids)
        <4>1. PICK m \in 1..Len(new) : i = Len(ids) + m /\ more[i] = new[m] /\ r = k + 1
          BY <1>13, <2>1, <3>3
        <4>2. m < p
          BY <1>4, <1>15, <3>1, <4>1
        <4>3. new[m] < new[p]
          BY <1>3, <1>4, <4>2 DEF Increasing
        <4> QED
          BY <3>1, <4>1, <4>3
      <3> QED
        BY <3>2, <3>3
    <2> QED
      BY <2>3, <2>4
  <1>16. \A i, j \in (L + 1)..Len(more) : \A r, t \in 1..(k + 1) :
           i < j /\ First(more[i], r) /\ First(more[j], t)
             => r < t \/ (r = t /\ more[i] < more[j])
    <2> HIDE DEF First
    <2> QED
      BY <1>15
  <1>17. more \in Seq(1..n)
    BY <1>4
  <1>18. ExtendedSound(top, seen, n, k + 1, more)
    BY <1>10, <1>11, <1>12, <1>14, <1>16, <1>17, Zenon DEF ExtendedSound
  <1> QED
    BY <1>3a, <1>18

\* The ids of an answer, as the notes it found and the links it saw determine them.
LEMMA RetrievalSound ==
  ASSUME NEW n \in Nat, NEW top \in Seq(1..n), Injective(top),
         NEW seen \in SUBSET (ToSet(top) \X (1..n))
  PROVE  ExtendedSound(top, seen, n, Len(top), OrderedRetrievalIds(top, seen))
  <1>0. Len(top) \in Nat /\ DOMAIN top = 1..Len(top)
    BY LenProperties
  <1>1. PICK E : /\ E[0] = top
                 /\ \A k \in 1..Len(top) : E[k] = ExtendedBy(E[k - 1], LinkedFrom(seen, top[k]))
                 /\ OrderedRetrievalIds(top, seen) = E[Len(top)]
    BY OrderedRetrievalIdsSteps
  <1> DEFINE T == {k \in Nat : k <= Len(top) => ExtendedSound(top, seen, n, k, E[k])}
  <1>2. 0 \in T
    <2>1. (Len(top) + 1)..Len(top) = {} /\ 1..0 = {}
      BY <1>0
    <2>2. ExtendedSound(top, seen, n, 0, top)
      <3>1. top \in Seq(1..n) /\ Len(top) <= Len(top) /\ \A i \in 1..Len(top) : top[i] = top[i]
        BY <1>0
      <3> QED
        BY <2>1, <3>1 DEF ExtendedSound
    <2> QED
      BY <1>1, <2>2
  <1>3. ASSUME NEW k \in Nat, k \in T PROVE k + 1 \in T
    <2> SUFFICES ASSUME k + 1 <= Len(top) PROVE ExtendedSound(top, seen, n, k + 1, E[k + 1])
      OBVIOUS
    <2>1. ExtendedSound(top, seen, n, k, E[k])
      BY <1>0, <1>3
    <2>2. k + 1 \in 1..Len(top) /\ (k + 1) - 1 = k
      BY <1>0
    <2>3. E[k + 1] = ExtendedBy(E[k], LinkedFrom(seen, top[k + 1]))
      BY <1>1, <2>2
    <2> QED
      BY <2>1, <2>3, ExtendedBySound
  <1>4. Len(top) \in T
    <2> HIDE DEF T
    <2> QED
      BY <1>0, <1>2, <1>3, NumberInduction
  <1> QED
    BY <1>0, <1>1, <1>4

-----------------------------------------------------------------------------
(* The inductive invariant.                                                *)

\* A set of positions that is not empty has a last one.
LEMMA LatestExists ==
  ASSUME NEW n \in Nat, NEW S \in SUBSET (1..n), S # {}
  PROVE  Latest(S) \in S
  <1> DEFINE T == {n - k : k \in S}
  <1>0. \A k \in S : k \in Nat /\ n - k \in Nat
    OBVIOUS
  <1>1. T \subseteq Nat /\ T # {}
    BY <1>0
  <1>2. PICK x \in T : \A y \in T : ~(y < x)
    <2> HIDE DEF T
    <2> QED
      BY <1>1, LeastMember
  <1>3. PICK k \in S : x = n - k
    BY <1>2
  <1>4. \A j \in S : j <= k
    <2> SUFFICES ASSUME NEW j \in S PROVE j <= k
      OBVIOUS
    <2>1. ~(n - j < n - k)
      BY <1>2, <1>3
    <2> QED
      BY <2>1, <1>0
  <1> QED
    BY <1>3, <1>4 DEF Latest

\* What the neighbours become is typed: a value for some of the neighbours.
LEMMA NeighborUpdatesType ==
  ASSUME NEW S \in SUBSET Ids, NEW near \in [S -> Metadata],
         NEW evolved \in BoundedSeq(Update, MaxUpdates)
  PROVE  NeighborUpdates(near, evolved) \in UNION {[D -> Metadata] : D \in SUBSET Ids}
  <1> DEFINE K == Changing(near, evolved)
             Of(i) == {k \in K : evolved[k].id = i}
             D == {evolved[k].id : k \in K}
  <1>1. PICK n \in 0..MaxUpdates : evolved \in [1..n -> Update]
    BY DEF BoundedSeq, SeqOf
  <1>2. n \in Nat /\ K \in SUBSET (1..n)
    BY <1>1, BoundsNat DEF Changing
  <1>3. D \in SUBSET Ids
    BY <1>1, <1>2 DEF Update
  <1>4. ASSUME NEW i \in D PROVE evolved[Latest(Of(i))].note \in Metadata
    <2>1. Of(i) # {} /\ Of(i) \in SUBSET (1..n)
      BY <1>2
    <2>2. Latest(Of(i)) \in 1..n
      BY <1>2, <2>1, LatestExists
    <2> QED
      BY <1>1, <2>2 DEF Update
  <1>5. NeighborUpdates(near, evolved) = [i \in D |-> evolved[Latest(Of(i))].note]
    BY DEF NeighborUpdates
  <1> HIDE DEF D, Of
  <1> QED
    BY <1>3, <1>4, <1>5

\* Updating rows keeps their number and their type.
LEMMA UpdatedType ==
  ASSUME NEW rows \in Seq(Metadata), NEW D \in SUBSET Ids, NEW updates \in [D -> Metadata]
  PROVE  /\ Updated(rows, updates) \in Seq(Metadata)
         /\ Len(Updated(rows, updates)) = Len(rows)
  BY DEF Updated

\* The types of a phase and of a query.
Phases == {"idle"} \cup AddPhases \cup QueryPhases
Queries == [top : Seq(Ids), seen : SUBSET (Ids \X Ids), ids : Seq(Ids)]

\* A server's step that leaves the tables alone keeps the invariant if what it
\* has prepared and found is sound.
LEMMA TablesKept ==
  ASSUME GraphInv, NEW s \in Servers, UNCHANGED <<notes, index, links>>,
         NEW p \in Phases, pc' = [pc EXCEPT ![s] = p],
         NEW a \in Addition \cup {NoAddition}, add' = [add EXCEPT ![s] = a],
         p \in AddPhases => AdditionSound(a),
         NEW q \in Queries, query' = [query EXCEPT ![s] = q],
         p \in QueryPhases => QuerySound(p, q)
  PROVE  GraphInv'
  <1>1. \A t \in Servers : add'[t] = IF t = s THEN a ELSE add[t]
    BY DEF GraphInv, TypeOK
  <1>2. \A t \in Servers : pc'[t] = IF t = s THEN p ELSE pc[t]
    BY DEF GraphInv, TypeOK
  <1>2a. \A t \in Servers : query'[t] = IF t = s THEN q ELSE query[t]
    BY DEF GraphInv, TypeOK
  <1>3. \A t \in Servers : pc'[t] \in AddPhases => AdditionSound(add[t])'
    BY <1>1, <1>2 DEF GraphInv, AdditionSound
  <1>3a. \A t \in Servers : pc'[t] \in QueryPhases => QuerySound(pc[t], query[t])'
    <2> SUFFICES ASSUME NEW t \in Servers, pc'[t] \in QueryPhases
                 PROVE  QuerySound(pc[t], query[t])'
      OBVIOUS
    <2>1. QuerySound(pc'[t], query'[t])
      BY <1>2, <1>2a DEF GraphInv
    <2> QED
      BY <2>1 DEF QuerySound
  <1>4. TypeOK'
    <2>1. pc' \in [Servers -> Phases] /\ add' \in [Servers -> Addition \cup {NoAddition}]
      BY DEF GraphInv, TypeOK, Phases
    <2>2. query' \in [Servers -> Queries]
      BY DEF GraphInv, TypeOK, Queries
    <2> QED
      BY <2>1, <2>2 DEF GraphInv, TypeOK, Phases, Queries
  <1>5. EmbeddingMatchesNote' /\ LinksSound' /\ Len(notes') <= MaxNotes
    BY DEF GraphInv, EmbeddingMatchesNote, LinksSound
  <1> QED
    BY <1>3, <1>3a, <1>4, <1>5 DEF GraphInv

\* A step of an addition leaves what the server's query has found alone.
LEMMA AdditionKept ==
  ASSUME GraphInv, NEW s \in Servers, UNCHANGED <<notes, index, links, query>>,
         NEW p \in {"idle"} \cup AddPhases, pc' = [pc EXCEPT ![s] = p],
         NEW a \in Addition \cup {NoAddition}, add' = [add EXCEPT ![s] = a],
         p \in AddPhases => AdditionSound(a)
  PROVE  GraphInv'
  <1>1. query[s] \in Queries /\ query' = [query EXCEPT ![s] = query[s]]
    BY DEF GraphInv, TypeOK, Queries
  <1>2. p \in Phases /\ p \notin QueryPhases
    BY DEF Phases, AddPhases, QueryPhases
  <1> QED
    BY <1>1, <1>2, TablesKept

\* The graph is empty at first.
LEMMA InitGraphInv == Init => GraphInv
  <1> SUFFICES ASSUME Init PROVE GraphInv
    OBVIOUS
  <1>1. NoQuery \in Queries
    BY DEF NoQuery, Queries
  <1>2. query \in [Servers -> Queries]
    BY <1>1 DEF Init
  <1>3. TypeOK
    BY <1>2 DEF Init, TypeOK, Queries
  <1> QED
    BY <1>3, BoundsNat
    DEF Init, GraphInv, EmbeddingMatchesNote, LinksSound, AddPhases, QueryPhases

\* The note that is committed has the next id, so that links to neighbours lead to
\* other notes.
LEMMA PersistKeeps ==
  ASSUME GraphInv, NEW s \in Servers, PersistNote(s)
  PROVE  GraphInv'
  <1> DEFINE a == add[s]
             id == Len(notes) + 1
  <1>1. AdditionSound(a) /\ notes \in Seq(Metadata) /\ index = notes /\ links \subseteq Ids \X Ids
    BY DEF PersistNote, Goto, GraphInv, AddPhases, TypeOK, EmbeddingMatchesNote
  <1>2. PICK D \in SUBSET Ids : a.updates \in [D -> Metadata]
    BY <1>1 DEF AdditionSound, Addition
  <1>3. a.note \in Metadata /\ a.embedded = a.note
    BY <1>1 DEF AdditionSound, Addition
  <1>4. /\ Append(notes, a.note) \in Seq(Metadata)
        /\ Len(Append(notes, a.note)) = id
    BY <1>1, <1>3
  <1>5. notes' \in Seq(Metadata) /\ Len(notes') = id /\ DOMAIN notes' = 1..id
    <2>1. notes' = Updated(Append(notes, a.note), a.updates)
      BY DEF PersistNote
    <2> DEFINE rows == Append(notes, a.note)
               updates == a.updates
    <2>2. rows \in Seq(Metadata) /\ Len(rows) = id /\ updates \in [D -> Metadata]
      BY <1>2, <1>4
    <2>3. notes' = Updated(rows, updates)
      BY <2>1
    <2> HIDE DEF rows, updates
    <2>4. notes' \in Seq(Metadata) /\ Len(notes') = Len(rows)
      BY <2>2, <2>3, UpdatedType
    <2> QED
      BY <2>2, <2>4
  <1>6. index' = notes'
    BY <1>1, <1>3 DEF PersistNote, UpdatedIndex
  <1>7. DOMAIN notes = 1..Len(notes) /\ Len(notes) \in Nat /\ id \in Ids
    BY <1>1, BoundsNat DEF PersistNote, Ids
  <1>8. a.linked \subseteq 1..Len(notes)
    BY <1>1, <1>7 DEF AdditionSound
  <1>9. links' = links \cup BothLinks(id, a.linked)
    BY DEF PersistNote
  <1>10. LinksSound' /\ links' \subseteq Ids \X Ids
    <2>1. ASSUME NEW l \in links
          PROVE  /\ l[1] # l[2] /\ l[1] \in 1..id /\ l[2] \in 1..id /\ <<l[2], l[1]>> \in links'
      BY <1>7, <1>9 DEF GraphInv, LinksSound
    <2>2. ASSUME NEW l \in BothLinks(id, a.linked)
          PROVE  /\ l[1] # l[2] /\ l[1] \in 1..id /\ l[2] \in 1..id /\ l \in Ids \X Ids
                 /\ <<l[2], l[1]>> \in links'
      <3>1. PICK k \in a.linked : l = <<id, k>> \/ l = <<k, id>>
        BY DEF BothLinks
      <3>2. k \in 1..Len(notes) /\ k \in Ids
        BY <1>7, <1>8, BoundsNat DEF Ids
      <3>3. <<id, k>> \in links' /\ <<k, id>> \in links'
        BY <1>9 DEF BothLinks
      <3> QED
        BY <1>7, <3>1, <3>2, <3>3
    <2> QED
      BY <1>1, <1>5, <1>9, <2>1, <2>2 DEF LinksSound
  <1>11. \A t \in Servers : pc'[t] \in AddPhases => AdditionSound(add[t])'
    <2> SUFFICES ASSUME NEW t \in Servers, pc'[t] \in AddPhases
                 PROVE  AdditionSound(add[t])'
      OBVIOUS
    <2>1. t # s /\ pc[t] \in AddPhases /\ add'[t] = add[t]
      BY DEF PersistNote, Goto, GraphInv, TypeOK, AddPhases
    <2>2. AdditionSound(add[t]) /\ DOMAIN notes \subseteq DOMAIN notes'
      BY <1>5, <1>7, <2>1 DEF GraphInv
    <2> QED
      BY <2>1, <2>2 DEF AdditionSound
  <1>11a. \A t \in Servers : pc'[t] \in QueryPhases => QuerySound(pc[t], query[t])'
    <2> SUFFICES ASSUME NEW t \in Servers, pc'[t] \in QueryPhases
                 PROVE  QuerySound(pc[t], query[t])'
      OBVIOUS
    <2>1. t # s /\ pc'[t] = pc[t] /\ query'[t] = query[t]
      BY DEF PersistNote, Goto, GraphInv, TypeOK, QueryPhases
    <2>2. QuerySound(pc[t], query[t]) /\ DOMAIN notes \subseteq DOMAIN notes'
      BY <1>5, <1>7, <2>1 DEF GraphInv
    <2>3. query[t].top \in Seq(DOMAIN notes')
      BY <2>2, SeqMonotonic DEF QuerySound
    <2> QED
      BY <2>1, <2>2, <2>3 DEF QuerySound
  <1>12. TypeOK'
    BY <1>5, <1>6, <1>10 DEF PersistNote, Goto, GraphInv, TypeOK
  <1> QED
    BY <1>5, <1>6, <1>7, <1>10, <1>11, <1>11a, <1>12 DEF GraphInv, EmbeddingMatchesNote, Ids

\* The other steps of an addition: what is prepared names notes that exist only.
LEMMA AddKeeps ==
  ASSUME GraphInv, NEW s \in Servers, Add(s)
  PROVE  GraphInv'
  <1> DEFINE GivesUp == /\ pc' = [pc EXCEPT ![s] = "idle"]
                        /\ add' = [add EXCEPT ![s] = NoAddition]
                        /\ UNCHANGED <<notes, index, links, query>>
  <1>0. notes \in Seq(Metadata) /\ index = notes /\ Len(notes) <= MaxNotes
    BY DEF GraphInv, TypeOK, EmbeddingMatchesNote
  <1>0a. GivesUp => GraphInv'
    <2> SUFFICES ASSUME GivesUp PROVE GraphInv'
      OBVIOUS
    <2>1. "idle" \in {"idle"} \cup AddPhases /\ "idle" \notin AddPhases
      BY DEF AddPhases
    <2>2. NoAddition \in Addition \cup {NoAddition}
      OBVIOUS
    <2> QED
      BY <2>1, <2>2, AdditionKept
  <1>1. DOMAIN notes \subseteq Ids /\ \A i \in DOMAIN notes : notes[i] \in Metadata
    BY <1>0, BoundsNat DEF Ids
  <1>2. ASSUME NEW note \in Metadata, FindNeighbors(s, note)
        PROVE  GraphInv'
    <2>1. PICK S \in SUBSET DOMAIN index :
            /\ pc' = [pc EXCEPT ![s] = IF S = {} THEN "persist" ELSE "evolve"]
            /\ add' = [add EXCEPT ![s] = [NewAddition(note) EXCEPT !.near = [i \in S |-> notes[i]]]]
            /\ UNCHANGED <<notes, index, links, query>>
      BY <1>2 DEF FindNeighbors, Goto
    <2> DEFINE a == [NewAddition(note) EXCEPT !.near = [i \in S |-> notes[i]]]
               p == IF S = {} THEN "persist" ELSE "evolve"
    <2>2. S \in SUBSET Ids /\ [i \in S |-> notes[i]] \in [S -> Metadata]
      BY <1>0, <1>1
    <2>3. {} \in SUBSET Ids /\ [i \in {} |-> note] \in [{} -> Metadata]
      OBVIOUS
    <2>4. a \in Addition /\ a.near = [i \in S |-> notes[i]] /\ a.linked = {} /\ a.embedded = a.note
      BY <2>2, <2>3 DEF NewAddition, Addition
    <2>5. AdditionSound(a)
      BY <1>0, <2>4 DEF AdditionSound
    <2> HIDE DEF a
    <2> QED
      BY <2>1, <2>4, <2>5, AdditionKept DEF AddPhases, a
  <1>3. ASSUME NEW evolved \in BoundedSeq(Update, MaxUpdates), NEW connections \in SUBSET Ids,
               NEW note \in Metadata, EvolveGraph(s, connections, note, evolved)
        PROVE  GraphInv'
    <2>1. AdditionSound(add[s]) /\ add[s] \in Addition
      BY <1>3 DEF EvolveGraph, Goto, GraphInv, AddPhases, AdditionSound
    <2>2. PICK S \in SUBSET Ids : add[s].near \in [S -> Metadata]
      BY <2>1 DEF Addition
    <2> DEFINE near == add[s].near
               updates == NeighborUpdates(near, evolved)
               a == [Retag(add[s], note) EXCEPT !.linked = Linked(near, connections),
                                                !.updates = updates]
    <2>3. updates \in UNION {[D -> Metadata] : D \in SUBSET Ids}
      <3> HIDE DEF near
      <3> QED
        BY <2>2, NeighborUpdatesType DEF near
    <2>4. Linked(near, connections) \subseteq Ids /\ Linked(near, connections) \subseteq DOMAIN notes
      BY <2>1 DEF Linked, AdditionSound
    <2> HIDE DEF updates
    <2>5. /\ a \in Addition /\ a.near = near /\ a.linked = Linked(near, connections)
          /\ a.embedded = a.note
      BY <2>1, <2>3, <2>4 DEF Retag, Addition
    <2>6. AdditionSound(a)
      BY <2>1, <2>4, <2>5 DEF AdditionSound
    <2>7. add' = [add EXCEPT ![s] = a] /\ pc' = [pc EXCEPT ![s] = "persist"]
          /\ UNCHANGED <<notes, index, links, query>>
      BY <1>3 DEF EvolveGraph, Goto, updates
    <2> HIDE DEF a
    <2> QED
      BY <2>5, <2>6, <2>7, AdditionKept DEF AddPhases
  <1>4. ASSUME NEW evolved, TooManyUpdates(s, evolved)
        PROVE  GraphInv'
    <2>1. GivesUp
      BY <1>4 DEF TooManyUpdates, Goto
    <2> QED
      BY <1>0a, <2>1
  <1>5. CASE AddFails(s)
    <2>1. GivesUp
      BY <1>5 DEF AddFails
    <2> QED
      BY <1>0a, <2>1
  <1>6. CASE PersistNote(s)
    BY <1>6, PersistKeeps
  <1> QED
    BY <1>2, <1>3, <1>4, <1>5, <1>6 DEF Add

\* A query writes nothing; what it finds exists.
LEMMA RetrieveKeeps ==
  ASSUME GraphInv, NEW s \in Servers, Retrieve(s)
  PROVE  GraphInv'
  <1> DEFINE n == Len(notes)
             a == query[s]
  <1>1. /\ notes \in Seq(Metadata) /\ index = notes /\ n \in Nat /\ DOMAIN notes = 1..n
        /\ 1..n \subseteq Ids
    BY BoundsNat DEF GraphInv, TypeOK, EmbeddingMatchesNote, Ids
  <1>2. add' = [add EXCEPT ![s] = add[s]] /\ add[s] \in Addition \cup {NoAddition}
    BY DEF GraphInv, TypeOK, Retrieve, FindNearest, ReadLinks, ReadLinksFails, FetchNotes, Answer
  <1>3. a \in Queries
    BY DEF GraphInv, TypeOK, Queries
  <1>4. UNCHANGED <<notes, index, links>>
    BY DEF Retrieve, FindNearest, ReadLinks, ReadLinksFails, FetchNotes, Answer
  <1> HIDE DEF n
  <1>5. ASSUME NEW p \in {"idle"} \cup QueryPhases, NEW q \in Queries,
               p \in QueryPhases => QuerySound(p, q),
               pc' = [pc EXCEPT ![s] = p], query' = [query EXCEPT ![s] = q]
        PROVE  GraphInv'
    <2>1. p \in Phases /\ p \notin AddPhases
      BY DEF Phases, AddPhases, QueryPhases
    <2> QED
      BY <1>2, <1>4, <1>5, <2>1, TablesKept
  <1>6. CASE FindNearest(s)
    <2>1. PICK S \in SUBSET DOMAIN index : \E top \in SetToSeqs(S) :
                 query' = [query EXCEPT ![s] = [NoQuery EXCEPT !.top = top]]
      BY <1>6 DEF FindNearest
    <2>2. PICK top \in SetToSeqs(S) :
                 query' = [query EXCEPT ![s] = [NoQuery EXCEPT !.top = top]]
      BY <2>1
    <2>3. S \in SUBSET (1..n)
      BY <1>1
    <2>4. Cardinality(S) \in Nat
      <3>1. IsFiniteSet(1..n)
        BY <1>1, FS_Interval
      <3>2. IsFiniteSet(S)
        BY <2>3, <3>1, FS_Subset
      <3> QED
        BY <3>2, FS_CardinalityType
    <2>5. top \in Seq(1..n) /\ \A j, k \in DOMAIN top : top[j] = top[k] => j = k
      <3> DEFINE c == Cardinality(S)
      <3>1. c \in Nat /\ top \in [1..c -> S] /\ \A j, k \in 1..c : j # k => top[j] # top[k]
        BY <2>4 DEF SetToSeqs
      <3> HIDE DEF c
      <3>2. top \in [1..c -> 1..n] /\ DOMAIN top = 1..c
        BY <2>3, <3>1
      <3>3. top \in Seq(1..n)
        <4>1. top \in UNION {[1..m -> 1..n] : m \in Nat}
          BY <3>1, <3>2
        <4> QED
          BY <4>1, SeqDef, Zenon
      <3> QED
        BY <3>1, <3>2, <3>3
    <2> DEFINE q == [NoQuery EXCEPT !.top = top]
    <2>6. q.top = top /\ q.seen = {} /\ q.ids = <<>> /\ q = [top |-> top, seen |-> {}, ids |-> <<>>]
      BY DEF NoQuery
    <2>7. top \in Seq(Ids)
      BY <1>1, <2>5, SeqMonotonic
    <2>8. q \in Queries
      <3>1. {} \in SUBSET (Ids \X Ids) /\ <<>> \in Seq(Ids)
        OBVIOUS
      <3> HIDE DEF q
      <3> QED
        BY <2>6, <2>7, <3>1 DEF Queries
    <2> HIDE DEF q
    <2>9. QuerySound("links", q)
      BY <1>1, <2>5, <2>6 DEF QuerySound
    <2> QED
      BY <1>5, <1>6, <2>2, <2>8, <2>9 DEF FindNearest, Goto, QueryPhases, q
  <1>7. ASSUME pc[s] \in QueryPhases PROVE QuerySound(pc[s], a)
    BY <1>7 DEF GraphInv
  <1>8. CASE ReadLinks(s)
    <2>1. QuerySound("links", a)
      BY <1>7, <1>8 DEF ReadLinks, Goto, QueryPhases
    <2> DEFINE seen == {l \in links : l[1] \in ToSet(a.top)}
               q == [a EXCEPT !.seen = seen]
    <2>2. links \subseteq Ids \X Ids /\ \A l \in links : l[2] \in DOMAIN notes
      BY DEF GraphInv, TypeOK, LinksSound
    <2>3. seen \subseteq Ids \X Ids /\ seen \subseteq ToSet(a.top) \X DOMAIN notes
      BY <2>2
    <2> HIDE DEF seen
    <2>4. q \in Queries /\ q.top = a.top /\ q.seen = seen
      BY <1>3, <2>3 DEF Queries
    <2>5. query' = [query EXCEPT ![s] = q]
      BY <1>8 DEF ReadLinks, seen
    <2> HIDE DEF q
    <2>6. QuerySound("fetch", q)
      BY <2>1, <2>3, <2>4 DEF QuerySound
    <2> QED
      BY <1>5, <1>8, <2>4, <2>5, <2>6 DEF ReadLinks, Goto, QueryPhases
  <1>9. CASE ReadLinksFails(s)
    <2>1. QuerySound("links", a)
      BY <1>7, <1>9 DEF ReadLinksFails, Goto, QueryPhases
    <2>2. QuerySound("fetch", a)
      BY <2>1 DEF QuerySound
    <2>3. query' = [query EXCEPT ![s] = a]
      BY <1>9 DEF ReadLinksFails, GraphInv, TypeOK
    <2> QED
      BY <1>3, <1>5, <1>9, <2>2, <2>3 DEF ReadLinksFails, Goto, QueryPhases
  <1>10. CASE FetchNotes(s)
    <2>1. QuerySound("fetch", a)
      BY <1>7, <1>10 DEF FetchNotes, Goto, QueryPhases
    <2> DEFINE ids == OrderedRetrievalIds(a.top, a.seen)
               q == [a EXCEPT !.ids = SortRetrievalRows(ids, DOMAIN notes)]
    <2>2. ExtendedSound(a.top, a.seen, n, Len(a.top), ids)
      BY <1>1, <2>1, RetrievalSound DEF QuerySound, Injective
    <2>3. ids \in Seq(1..n)
      BY <2>2 DEF ExtendedSound
    <2> HIDE DEF ids
    <2>4. ToSet(ids) \subseteq DOMAIN notes
      BY <1>1, <2>3 DEF ToSet
    <2>5. SortRetrievalRows(ids, DOMAIN notes) = ids
      BY <2>3, <2>4, SortRetrievalRowsKeeps
    <2>6. ids \in Seq(Ids)
      BY <1>1, <2>3, SeqMonotonic
    <2>7. q \in Queries /\ q.top = a.top /\ q.seen = a.seen /\ q.ids = ids
      BY <1>3, <2>5, <2>6 DEF Queries
    <2>8. query' = [query EXCEPT ![s] = q]
      BY <1>10 DEF FetchNotes, ids
    <2> HIDE DEF q
    <2>9. QuerySound("answer", q)
      BY <2>1, <2>7 DEF QuerySound, ids
    <2> QED
      BY <1>5, <1>10, <2>7, <2>8, <2>9 DEF FetchNotes, Goto, QueryPhases
  <1>11. CASE Answer(s)
    <2>1. NoQuery \in Queries
      BY DEF NoQuery, Queries
    <2> QED
      BY <1>5, <1>11, <2>1 DEF Answer, Goto, QueryPhases
  <1> QED
    BY <1>6, <1>8, <1>9, <1>10, <1>11 DEF Retrieve

\* The inductive invariant holds in every reachable state.
THEOREM GraphInvariance == Spec => []GraphInv
  <1>1. GraphInv /\ [Next]_vars => GraphInv'
    <2> SUFFICES ASSUME GraphInv, [Next]_vars PROVE GraphInv'
      OBVIOUS
    <2>1. CASE UNCHANGED vars
      BY <2>1
      DEF vars, GraphInv, TypeOK, EmbeddingMatchesNote, LinksSound, AdditionSound, QuerySound
    <2>2. CASE Next
      BY <2>2, AddKeeps, RetrieveKeeps DEF Next
    <2> QED
      BY <2>1, <2>2
  <1> QED
    BY InitGraphInv, <1>1, PTL DEF Spec

\* Every embedding was made from the context and tags its note has now.
THEOREM EmbeddingMatchesNoteHolds == Spec => []EmbeddingMatchesNote
  <1>1. GraphInv => EmbeddingMatchesNote
    BY DEF GraphInv
  <1> QED
    BY GraphInvariance, <1>1, PTL

\* Links lead both ways between two different notes that exist.
THEOREM LinksSoundHolds == Spec => []LinksSound
  <1>1. GraphInv => LinksSound
    BY DEF GraphInv
  <1> QED
    BY GraphInvariance, <1>1, PTL

\* The rank of a note in an answer is the position of the first note that links to it.
LEMMA RankIsFirst ==
  ASSUME NEW U, NEW a, a.top \in Seq(U), NEW id, NEW r, FirstFrom(a.top, a.seen, id, r)
  PROVE  Rank(a, id) = r
  <1>1. Len(a.top) \in Nat /\ DOMAIN a.top = 1..Len(a.top)
    BY LenProperties
  <1>2. FirstFrom(a.top, a.seen, id, Rank(a, id))
    BY <1>1 DEF Rank, FirstFrom
  <1> QED
    BY <1>1, <1>2, FirstFromUnique

\* An answer has the nearest notes first and then all the notes they link to, each once,
\* those of a nearer note before those of a farther one, and those of one note by their ids.
THEOREM AnswerInOrderHolds == Spec => []AnswerInOrder
  <1>1. GraphInv => AnswerInOrder
    <2> SUFFICES ASSUME GraphInv, NEW s \in Servers, pc[s] = "answer"
                 PROVE  LET a == query[s]
                            linkedTo == {l[2] : l \in a.seen} \ ToSet(a.top)
                            After(j, k) ==
                              \/ Rank(a, a.ids[j]) > Rank(a, a.ids[k])
                              \/ Rank(a, a.ids[j]) = Rank(a, a.ids[k]) /\ a.ids[j] > a.ids[k]
                        IN  /\ IsPrefix(a.top, a.ids)
                            /\ ToSet(a.ids) = ToSet(a.top) \cup linkedTo
                            /\ Len(a.ids) = Len(a.top) + Cardinality(linkedTo)
                            /\ \A j, k \in (Len(a.top) + 1)..Len(a.ids) : j > k => After(j, k)
      BY DEF AnswerInOrder
    <2> DEFINE a == query[s]
               n == Len(notes)
               top == a.top
               ids == a.ids
               linkedTo == {l[2] : l \in a.seen} \ ToSet(top)
               After(j, k) == \/ Rank(a, ids[j]) > Rank(a, ids[k])
                              \/ Rank(a, ids[j]) = Rank(a, ids[k]) /\ ids[j] > ids[k]
    <2>1. QuerySound("answer", a) /\ n \in Nat /\ DOMAIN notes = 1..n
      BY DEF GraphInv, TypeOK, QueryPhases
    <2>2. /\ top \in Seq(1..n) /\ Injective(top)
          /\ a.seen \in SUBSET (ToSet(top) \X (1..n))
          /\ ids = OrderedRetrievalIds(top, a.seen)
      BY <2>1 DEF QuerySound, Injective
    <2> HIDE DEF n, top, ids
    <2>3. ExtendedSound(top, a.seen, n, Len(top), ids)
      BY <2>1, <2>2, RetrievalSound
    <2>4. /\ ids \in Seq(1..n) /\ Injective(ids) /\ Len(top) <= Len(ids)
          /\ \A i \in 1..Len(top) : ids[i] = top[i]
      BY <2>3 DEF ExtendedSound
    <2>5. Len(top) \in Nat /\ Len(ids) \in Nat /\ DOMAIN top = 1..Len(top) /\ DOMAIN ids = 1..Len(ids)
      BY <2>2, <2>4, LenProperties
    <2>5a. (\A i \in 1..Len(top) : top[i] \in 1..n) /\ \A i \in 1..Len(ids) : ids[i] \in 1..n
      BY <2>2, <2>4, ElementOfSeq
    <2>6. IsPrefix(top, ids)
      <3>1. SubSeq(top, 1, Len(top)) = [i \in 1..Len(top) |-> top[i]]
        BY <2>5
      <3>2. SubSeq(ids, 1, Len(top)) = [i \in 1..Len(top) |-> ids[i]]
        BY <2>5
      <3> QED
        BY <2>4, <3>1, <3>2 DEF IsPrefix
    <2>7. ToSet(ids) = ToSet(top) \cup linkedTo
      <3>1. \A x \in ToSet(ids) : x \in 1..n
        BY <2>5, <2>5a DEF ToSet
      <3>2. \A x \in ToSet(top) : x \in 1..n
        BY <2>5, <2>5a DEF ToSet
      <3>3. \A l \in a.seen : l = <<l[1], l[2]>> /\ l[1] \in ToSet(top) /\ l[2] \in 1..n
        BY <2>2
      <3>4. ASSUME NEW x \in 1..n
            PROVE  x \in {l[2] : l \in a.seen} <=> \E j \in 1..Len(top) : <<top[j], x>> \in a.seen
        <4>1. ASSUME NEW l \in a.seen, x = l[2] PROVE \E j \in 1..Len(top) : <<top[j], x>> \in a.seen
          <5>1. PICK j \in 1..Len(top) : l[1] = top[j]
            BY <2>5, <3>3 DEF ToSet
          <5> QED
            BY <3>3, <4>1, <5>1
        <4>2. ASSUME NEW j \in 1..Len(top), <<top[j], x>> \in a.seen PROVE x \in {l[2] : l \in a.seen}
          <5> DEFINE l == <<top[j], x>>
          <5>1. l[2] = x
            OBVIOUS
          <5> QED
            BY <4>2, <5>1
        <4> QED
          BY <4>1, <4>2
      <3>5. \A x \in 1..n : x \in ToSet(ids) <=> x \in ToSet(top) \/ x \in {l[2] : l \in a.seen}
        BY <2>3, <3>4 DEF ExtendedSound
      <3>6. \A x \in linkedTo : x \in 1..n
        BY <3>3
      <3> QED
        BY <3>1, <3>2, <3>5, <3>6
    <2>8. Len(ids) = Len(top) + Cardinality(linkedTo)
      <3>1. /\ IsFiniteSet(ToSet(ids)) /\ Cardinality(ToSet(ids)) = Len(ids)
            /\ IsFiniteSet(ToSet(top)) /\ Cardinality(ToSet(top)) = Len(top)
        BY <2>2, <2>4, InjectiveLength
      <3>2. linkedTo = ToSet(ids) \ ToSet(top) /\ ToSet(ids) \cap ToSet(top) = ToSet(top)
        BY <2>7
      <3> HIDE DEF linkedTo
      <3> DEFINE A == ToSet(ids)
                 B == ToSet(top)
      <3>2a. IsFiniteSet(A) /\ linkedTo = A \ B /\ A \cap B = B
        BY <3>1, <3>2
      <3>3. Cardinality(linkedTo) = Len(ids) - Len(top)
        <4> HIDE DEF A, B
        <4>1. Cardinality(A \ B) = Cardinality(A) - Cardinality(A \cap B)
          BY <3>2a, FS_Difference
        <4> QED
          BY <3>1, <3>2a, <4>1 DEF A, B
      <3> QED
        BY <2>5, <3>3
    <2>9. ASSUME NEW j \in (Len(top) + 1)..Len(ids), NEW k \in (Len(top) + 1)..Len(ids), j > k
          PROVE  After(j, k)
      <3>1. PICK r \in 1..Len(top) : FirstFrom(top, a.seen, ids[j], r)
        BY <2>3 DEF ExtendedSound
      <3>2. PICK t \in 1..Len(top) : FirstFrom(top, a.seen, ids[k], t)
        BY <2>3 DEF ExtendedSound
      <3>3. t < r \/ (t = r /\ ids[k] < ids[j])
        <4>1. k < j
          BY <2>5, <2>9
        <4> QED
          BY <2>3, <3>1, <3>2, <4>1 DEF ExtendedSound
      <3>4. Rank(a, ids[j]) = r /\ Rank(a, ids[k]) = t
        BY <2>2, <3>1, <3>2, RankIsFirst DEF top
      <3>5. ids[j] \in Nat /\ ids[k] \in Nat
        <4>1. j \in 1..Len(ids) /\ k \in 1..Len(ids)
          BY <2>5
        <4> QED
          BY <2>1, <2>5a, <4>1
      <3> QED
        BY <3>3, <3>4, <3>5
    <2> QED
      BY <2>6, <2>7, <2>8, <2>9 DEF top, ids
  <1> QED
    BY GraphInvariance, <1>1, PTL
=============================================================================
