--------------------------- MODULE CommonTheorems ---------------------------
(***************************************************************************)
(* What the proofs about several components use: digests, sequences of     *)
(* records without a type and their prefixes, counting the lines of one    *)
(* kind, least and greatest elements, and on these induction and recursion. *)
(***************************************************************************)
EXTENDS Digest, Naturals, SequencesExt, FiniteSets, FiniteSetTheorems, SequenceTheorems,
        WellFoundedInduction, TLAPS

\* Digests are equal only for equal contents, and differ from every string
\* that is no digest.
LEMMA DigestsDiffer ==
  ASSUME NEW x, NEW y
  PROVE  /\ SHA256(x) = SHA256(y) => x = y
         /\ SHA256(x) \notin {ZeroHash, NoString, Garbage}
         /\ ZeroHash \notin {NoString, Garbage}
<1>1. SHA256(x) = SHA256(y) => x = y
  <2>1. SHA256(x).sha256 = x /\ SHA256(y).sha256 = y
    BY DEF SHA256
  <2> QED BY <2>1
<1>2. /\ DOMAIN SHA256(x) = {"sha256"}
      /\ DOMAIN ZeroHash = {"zeros"}
      /\ DOMAIN NoString = {"empty"}
      /\ DOMAIN Garbage = {"garbage"}
  BY DEF SHA256, ZeroHash, NoString, Garbage
<1> QED BY <1>1, <1>2
-----------------------------------------------------------------------------
\* Sequences.

LEMMA SeqIsSeq ==
  ASSUME NEW S, NEW s \in Seq(S)
  PROVE  /\ IsSeq(s)
         /\ Len(s) \in Nat
         /\ \A k \in 1..Len(s) : s[k] \in S
BY SeqOfRange, LenProperties, ElementOfSeq DEF IsSeq

LEMMA IsSeqLen ==
  ASSUME NEW s, IsSeq(s)
  PROVE  Len(s) \in Nat
BY LenProperties DEF IsSeq

\* A sequence that grows by one element.
LEMMA Grow ==
  ASSUME NEW s, NEW e, IsSeq(s)
  PROVE  /\ IsSeq(Append(s, e))
         /\ Len(Append(s, e)) = Len(s) + 1
         /\ Append(s, e)[Len(s) + 1] = e
         /\ \A k \in 1..Len(s) : Append(s, e)[k] = s[k]
<1> DEFINE S == Range(s) \cup {e}
<1>1. s \in Seq(S)
  BY SeqMonotonic DEF IsSeq
<1>2. e \in S
  OBVIOUS
<1>3. Append(s, e) \in Seq(S)
  BY <1>1, <1>2, AppendProperties
<1>4. IsSeq(Append(s, e))
  BY <1>3, SeqIsSeq
<1>5. /\ Len(Append(s, e)) = Len(s) + 1
      /\ Append(s, e)[Len(s) + 1] = e
      /\ \A k \in 1..Len(s) : Append(s, e)[k] = s[k]
  BY <1>1, <1>2, AppendProperties
<1> QED BY <1>4, <1>5

LEMMA GrowRange ==
  ASSUME NEW s, NEW e, IsSeq(s)
  PROVE  Range(Append(s, e)) = Range(s) \cup {e}
<1> DEFINE t == Append(s, e)
<1>1. /\ IsSeq(t) /\ Len(t) = Len(s) + 1 /\ t[Len(s) + 1] = e
      /\ \A k \in 1..Len(s) : t[k] = s[k]
  BY Grow
<1> HIDE DEF t
<1>2. Len(s) \in Nat /\ DOMAIN s = 1..Len(s) /\ DOMAIN t = 1..Len(t)
  BY <1>1, LenProperties DEF IsSeq
<1>3. DOMAIN t = DOMAIN s \cup {Len(s) + 1}
  BY <1>1, <1>2
<1> QED BY <1>1, <1>2, <1>3 DEF Range, t

LEMMA RemoveAtSeq ==
  ASSUME NEW S, NEW s \in Seq(S), NEW k \in 1..Len(s)
  PROVE  RemoveAt(s, k) \in Seq(S)
<1>1. SubSeq(s, 1, k - 1) \in Seq(S)
  BY SubSeqProperties, ElementOfSeq, LenProperties
<1>2. SubSeq(s, k + 1, Len(s)) \in Seq(S)
  BY SubSeqProperties, ElementOfSeq, LenProperties
<1> QED BY <1>1, <1>2, ConcatProperties DEF RemoveAt

LEMMA InsertAtSeq ==
  ASSUME NEW S, NEW s \in Seq(S), NEW k \in 1..(Len(s) + 1), NEW e \in S
  PROVE  InsertAt(s, k, e) \in Seq(S) /\ Len(InsertAt(s, k, e)) = Len(s) + 1
<1>1. Len(s) \in Nat /\ \A i \in 1..Len(s) : s[i] \in S
  BY ElementOfSeq, LenProperties
<1>2. SubSeq(s, 1, k - 1) \in Seq(S) /\ Len(SubSeq(s, 1, k - 1)) = k - 1
  BY <1>1, SubSeqProperties
<1>3. SubSeq(s, k, Len(s)) \in Seq(S) /\ Len(SubSeq(s, k, Len(s))) = Len(s) - k + 1
  BY <1>1, SubSeqProperties
<1> DEFINE front == SubSeq(s, 1, k - 1)
           back  == SubSeq(s, k, Len(s))
           one   == <<e>>
<1>4. one \in Seq(S) /\ Len(one) = 1
  OBVIOUS
<1> HIDE DEF front, back, one
<1>5. front \o one \in Seq(S) /\ Len(front \o one) = Len(front) + Len(one)
  BY <1>2, <1>4, ConcatProperties DEF front
<1>6. /\ (front \o one) \o back \in Seq(S)
      /\ Len((front \o one) \o back) = Len(front \o one) + Len(back)
  BY <1>3, <1>5, ConcatProperties DEF back
<1>7. Len((front \o one) \o back) = Len(s) + 1
  <2>1. Len(front) = k - 1
    BY <1>2 DEF front
  <2>2. Len(back) = Len(s) - k + 1
    BY <1>3 DEF back
  <2> QED BY <1>1, <1>4, <1>5, <1>6, <2>1, <2>2
<1>8. InsertAt(s, k, e) = (front \o one) \o back
  BY DEF InsertAt, front, one, back
<1> QED BY <1>6, <1>7, <1>8

LEMMA ReplaceAtSeq ==
  ASSUME NEW S, NEW s \in Seq(S), NEW k \in 1..Len(s), NEW e \in S
  PROVE  ReplaceAt(s, k, e) \in Seq(S)
BY ExceptSeq DEF ReplaceAt

LEMMA SwapSeq ==
  ASSUME NEW S, NEW s \in Seq(S), NEW k \in 1..Len(s), k < Len(s)
  PROVE  [s EXCEPT ![k] = s[k + 1], ![k + 1] = s[k]] \in Seq(S)
<1>1. k + 1 \in 1..Len(s) /\ s[k] \in S /\ s[k + 1] \in S
  BY ElementOfSeq, LenProperties
<1>2. [s EXCEPT ![k] = s[k + 1]] \in Seq(S) /\ Len([s EXCEPT ![k] = s[k + 1]]) = Len(s)
  BY <1>1, ExceptSeq
<1>3. [[s EXCEPT ![k] = s[k + 1]] EXCEPT ![k + 1] = s[k]] \in Seq(S)
  BY <1>1, <1>2, ExceptSeq
<1> QED BY <1>3

\* A prefix, element by element.
LEMMA PrefixElements ==
  ASSUME NEW s, NEW t, IsSeq(s), IsSeq(t)
  PROVE  IsPrefix(s, t) <=> Len(s) <= Len(t) /\ \A k \in 1..Len(s) : s[k] = t[k]
<1>1. Len(s) \in Nat /\ Len(t) \in Nat
  BY IsSeqLen
<1> DEFINE S == Range(s) \cup Range(t)
<1>2. s \in Seq(S) /\ t \in Seq(S)
  BY SeqMonotonic DEF IsSeq
<1> HIDE DEF S
<1>3. \A k \in 1..Len(s) : s[k] \in S
  BY <1>2, ElementOfSeq
<1>4. /\ SubSeq(s, 1, Len(s)) \in Seq(S)
      /\ Len(SubSeq(s, 1, Len(s))) = Len(s)
      /\ \A k \in 1..Len(s) : SubSeq(s, 1, Len(s))[k] = s[k]
  BY <1>1, <1>3, SubSeqProperties
<1>5. ASSUME Len(s) <= Len(t)
      PROVE  /\ SubSeq(t, 1, Len(s)) \in Seq(S)
             /\ Len(SubSeq(t, 1, Len(s))) = Len(s)
             /\ \A k \in 1..Len(s) : SubSeq(t, 1, Len(s))[k] = t[k]
  <2>1. \A k \in 1..Len(s) : t[k] \in S
    BY <1>1, <1>2, <1>5, ElementOfSeq
  <2> QED BY <1>1, <2>1, SubSeqProperties
<1>6. ASSUME Len(s) <= Len(t), \A k \in 1..Len(s) : s[k] = t[k]
      PROVE  SubSeq(s, 1, Len(s)) = SubSeq(t, 1, Len(s))
  BY <1>4, <1>5, <1>6, SeqEqual
<1> QED BY <1>4, <1>5, <1>6 DEF IsPrefix

-----------------------------------------------------------------------------
\* Counting.

\* How many members of a set of positive numbers there are up to n.
LEMMA CountUpTo ==
  ASSUME NEW S, \A m \in S : m \in Nat /\ m >= 1
  PROVE  /\ Cardinality({m \in S : m <= 0}) = 0
         /\ \A n \in Nat :
              /\ IsFiniteSet({m \in S : m <= n})
              /\ Cardinality({m \in S : m <= n}) \in Nat
              /\ Cardinality({m \in S : m <= n + 1}) =
                   IF n + 1 \in S THEN Cardinality({m \in S : m <= n}) + 1
                                  ELSE Cardinality({m \in S : m <= n})
<1>0. \A m \in S : m \in Nat /\ m >= 1
  OBVIOUS
<1>1. {m \in S : m <= 0} = {}
  BY <1>0
<1>2. ASSUME NEW n \in Nat
      PROVE  /\ IsFiniteSet({m \in S : m <= n})
             /\ Cardinality({m \in S : m <= n}) \in Nat
             /\ Cardinality({m \in S : m <= n + 1}) =
                  IF n + 1 \in S THEN Cardinality({m \in S : m <= n}) + 1
                                 ELSE Cardinality({m \in S : m <= n})
  <2> DEFINE U == {m \in S : m <= n}
             V == {m \in S : m <= n + 1}
  <2>1. IsFiniteSet(0..n)
    BY FS_Interval
  <2>2. U \in SUBSET (0..n)
    BY <1>0
  <2> HIDE DEF U
  <2>3. IsFiniteSet(U) /\ Cardinality(U) \in Nat
    BY <2>1, <2>2, FS_Subset, FS_CardinalityType
  <2>4. n + 1 \notin U
    BY <2>2
  <2>5. CASE n + 1 \in S
    <3>1. V = U \cup {n + 1}
      BY <1>0, <2>5 DEF U
    <3> HIDE DEF V
    <3>2. Cardinality(V) = Cardinality(U) + 1
      BY <2>3, <2>4, <3>1, FS_AddElement
    <3> QED BY <2>3, <2>5, <3>2 DEF U, V
  <2>6. CASE n + 1 \notin S
    <3>1. V = U
      BY <1>0, <2>6 DEF U
    <3> QED BY <2>3, <2>6, <3>1 DEF U
  <2> QED BY <2>5, <2>6
<1> QED BY <1>1, <1>2, FS_EmptySet

\* The count grows with the number it goes up to.
LEMMA CountGrows ==
  ASSUME NEW S, \A m \in S : m \in Nat /\ m >= 1, NEW k \in Nat, NEW n \in Nat, k <= n
  PROVE  Cardinality({m \in S : m <= k}) <= Cardinality({m \in S : m <= n})
<1> DEFINE U == {m \in S : m <= k}
           V == {m \in S : m <= n}
<1>0. \A m \in S : m \in Nat
  OBVIOUS
<1>1. U \in SUBSET V
  BY <1>0
<1>2. IsFiniteSet(V)
  BY CountUpTo, Zenon
<1> HIDE DEF U, V
<1>3. Cardinality(U) <= Cardinality(V)
  BY <1>1, <1>2, FS_Subset
<1> QED BY <1>3 DEF U, V

-----------------------------------------------------------------------------
\* Least and greatest elements.

\* Of finitely many sets one is a strict superset of no other.
LEMMA LeastImage ==
  ASSUME NEW n \in Nat, NEW S \in SUBSET (1..n), NEW f \in [S -> SUBSET (1..n)], S # {}
  PROVE  \E x \in S : \A y \in S : f[y] \subseteq f[x] => f[y] = f[x]
<1>1. IsWellFoundedOn(StrictSubsetOrdering(1..n), SUBSET (1..n))
  <2>1. IsFiniteSet(1..n)
    BY FS_Interval
  <2>2. FiniteSubsetsOf(1..n) = SUBSET (1..n)
    BY <2>1, FS_FiniteSubsetsOfFinite
  <2> QED BY <2>2, FS_StrictSubsetOrderingWellFounded
<1> DEFINE T == {f[x] : x \in S}
<1>2. T \subseteq SUBSET (1..n) /\ T # {}
  OBVIOUS
<1> HIDE DEF T
<1>3. \E t \in T : \A u \in T : ~(<<u, t>> \in StrictSubsetOrdering(1..n))
  BY <1>1, <1>2, WFMin
<1>4. PICK t \in T : \A u \in T : ~(<<u, t>> \in StrictSubsetOrdering(1..n))
  BY <1>3
<1>5. PICK x \in S : t = f[x]
  BY <1>4 DEF T
<1>6. ASSUME NEW y \in S, f[y] \subseteq f[x], f[y] # f[x]
      PROVE  FALSE
  <2>1. f[y] \in T
    BY DEF T
  <2>2. <<f[y], f[x]>> \in StrictSubsetOrdering(1..n)
    BY <1>6 DEF StrictSubsetOrdering
  <2> QED BY <1>4, <1>5, <2>1, <2>2
<1> QED BY <1>6

\* A set of positive numbers up to n that is not empty has a least and a greatest
\* element: one before which there are fewest, and one after which there are.
LEMMA MinMaxExist ==
  ASSUME NEW n \in Nat, NEW S \in SUBSET (1..n), S # {}
  PROVE  /\ Min(S) \in S /\ \A k \in S : Min(S) <= k
         /\ Max(S) \in S /\ \A k \in S : Max(S) >= k
<1>0. \A x \in S : x \in Nat
  OBVIOUS
<1>1. \E x \in S : \A y \in S : x <= y
  <2> DEFINE f == [x \in S |-> {y \in S : y < x}]
  <2>1. f \in [S -> SUBSET (1..n)]
    OBVIOUS
  <2>2. \A x \in S : \A y : y \in f[x] <=> y \in S /\ y < x
    OBVIOUS
  <2> HIDE DEF f
  <2>3. PICK x \in S : \A y \in S : f[y] \subseteq f[x] => f[y] = f[x]
    BY <2>1, LeastImage
  <2>4. ASSUME NEW y \in S, y < x
        PROVE  FALSE
    <3>1. y \in f[x] /\ y \notin f[y]
      BY <2>2, <2>4, <1>0
    <3>2. ASSUME NEW z, z \in f[y]
          PROVE  z \in f[x]
      <4>1. z \in S /\ z < y
        BY <2>2, <3>2
      <4>2. z < x
        BY <2>4, <4>1, <1>0
      <4> QED BY <2>2, <4>1, <4>2
    <3> QED BY <2>3, <3>1, <3>2
  <2> QED BY <2>4, <1>0
<1>2. \E x \in S : \A y \in S : x >= y
  <2> DEFINE f == [x \in S |-> {y \in S : y > x}]
  <2>1. f \in [S -> SUBSET (1..n)]
    OBVIOUS
  <2>2. \A x \in S : \A y : y \in f[x] <=> y \in S /\ y > x
    OBVIOUS
  <2> HIDE DEF f
  <2>3. PICK x \in S : \A y \in S : f[y] \subseteq f[x] => f[y] = f[x]
    BY <2>1, LeastImage
  <2>4. ASSUME NEW y \in S, y > x
        PROVE  FALSE
    <3>1. y \in f[x] /\ y \notin f[y]
      BY <2>2, <2>4, <1>0
    <3>2. ASSUME NEW z, z \in f[y]
          PROVE  z \in f[x]
      <4>1. z \in S /\ z > y
        BY <2>2, <3>2
      <4>2. z > x
        BY <2>4, <4>1, <1>0
      <4> QED BY <2>2, <4>1, <4>2
    <3> QED BY <2>3, <3>1, <3>2
  <2> QED BY <2>4, <1>0
<1> QED BY <1>1, <1>2 DEF Min, Max
-----------------------------------------------------------------------------
\* Induction and recursion over the natural numbers, with sets and functions for
\* what is usually a predicate and an operator.

\* A set of natural numbers with 0 in it and with each its successor has them all.
LEMMA SetInduction ==
  ASSUME NEW S, 0 \in S, \A n \in Nat : n \in S => n + 1 \in S
  PROVE  \A n \in Nat : n \in S
<1> SUFFICES ASSUME NEW m \in Nat, m \notin S
             PROVE  FALSE
  OBVIOUS
<1> DEFINE U == {k \in 1..(m + 1) : k - 1 \notin S}
<1>1. m + 1 \in U
  OBVIOUS
<1>2. \A k : k \in U <=> k \in 1..(m + 1) /\ k - 1 \notin S
  OBVIOUS
<1> HIDE DEF U
<1>3. U \in SUBSET (1..(m + 1)) /\ U # {}
  BY <1>1, <1>2
<1>4. PICK k \in U : \A j \in U : k <= j
  <2>1. m + 1 \in Nat
    OBVIOUS
  <2> QED BY <1>3, <2>1, MinMaxExist
<1>5. k \in 1..(m + 1) /\ k - 1 \notin S
  BY <1>2, <1>4
<1>6. k # 1
  BY <1>5
<1>7. k - 1 \in 1..(m + 1) /\ k - 2 \in Nat
  BY <1>5, <1>6
<1>8. k - 1 \notin U
  BY <1>4, <1>5
<1>9. (k - 1) - 1 \in S
  BY <1>2, <1>7, <1>8
<1>10. (k - 1) - 1 = k - 2 /\ (k - 2) + 1 = k - 1
  BY <1>5
<1> QED BY <1>5, <1>7, <1>9, <1>10

\* f starts with e, and each of its values comes from the one before.
Steps(f, S, e, h) ==
  f \in [Nat -> S] /\ f[0] = e /\ \A n \in Nat : f[n + 1] = h[n][f[n]]

\* There is a function for every start and every way to step.
LEMMA StepwiseFunction ==
  ASSUME NEW S, NEW e \in S, NEW h \in [Nat -> [S -> S]]
  PROVE  \E f : Steps(f, S, e, h)
<1> DEFINE Runs(g, n) == /\ g \in [0..n -> S]
                         /\ g[0] = e
                         /\ \A i \in 0..(n - 1) : g[i + 1] = h[i][g[i]]
<1>1. \A n \in Nat : \E g : Runs(g, n)
  <2> DEFINE A == {n \in Nat : \E g : Runs(g, n)}
  <2>1. 0 \in A
    <3>1. Runs([i \in 0..0 |-> e], 0)
      OBVIOUS
    <3> QED BY <3>1
  <2>2. ASSUME NEW n \in Nat, n \in A
        PROVE  n + 1 \in A
    <3>1. PICK g : Runs(g, n)
      BY <2>2
    <3> DEFINE r == [i \in 0..(n + 1) |-> IF i = n + 1 THEN h[n][g[n]] ELSE g[i]]
    <3>2. g[n] \in S /\ h[n][g[n]] \in S
      BY <3>1
    <3>3. \A i \in 0..n : g[i] \in S /\ r[i] = g[i]
      BY <3>1
    <3>4. r[n + 1] = h[n][g[n]]
      OBVIOUS
    <3>5. r \in [0..(n + 1) -> S]
      BY <3>1, <3>2
    <3> HIDE DEF r
    <3>6. r[0] = e
      BY <3>1, <3>3
    <3>7. ASSUME NEW i \in 0..n
          PROVE  r[i + 1] = h[i][r[i]]
      <4>1. CASE i = n
        BY <3>3, <3>4, <4>1
      <4>2. CASE i # n
        <5>1. i \in 0..(n - 1) /\ i + 1 \in 0..n
          BY <4>2
        <5> QED BY <3>1, <3>3, <5>1
      <4> QED BY <4>1, <4>2
    <3>8. (n + 1) - 1 = n
      OBVIOUS
    <3>9. Runs(r, n + 1)
      BY <3>5, <3>6, <3>7, <3>8
    <3> QED BY <3>9
  <2> HIDE DEF A
  <2>3. \A n \in Nat : n \in A
    BY <2>1, <2>2, SetInduction
  <2> QED BY <2>3 DEF A
<1>2. ASSUME NEW n \in Nat, NEW m \in Nat, n <= m, NEW g, NEW r, Runs(g, n), Runs(r, m)
      PROVE  g[n] = r[n]
  <2> DEFINE A == {i \in Nat : i <= n => g[i] = r[i]}
  <2>1. 0 \in A
    BY <1>2
  <2>2. ASSUME NEW i \in Nat, i \in A
        PROVE  i + 1 \in A
    <3>1. CASE i + 1 <= n
      <4>1. i \in 0..(n - 1) /\ i \in 0..(m - 1)
        BY <3>1, <1>2
      <4>2. g[i] = r[i]
        BY <2>2, <3>1
      <4>3. g[i + 1] = h[i][g[i]]
        BY <1>2, <4>1
      <4>4. r[i + 1] = h[i][r[i]]
        BY <1>2, <4>1
      <4> QED BY <4>2, <4>3, <4>4
    <3> QED BY <3>1
  <2> HIDE DEF A
  <2>3. \A i \in Nat : i \in A
    BY <2>1, <2>2, SetInduction
  <2> QED BY <2>3 DEF A
<1> DEFINE run(n) == CHOOSE g : Runs(g, n)
           f      == [n \in Nat |-> run(n)[n]]
<1>3. \A n \in Nat : Runs(run(n), n)
  <2> HIDE DEF Runs
  <2> QED BY <1>1
<1>4. \A n \in Nat : f[n] \in S /\ f[n] = run(n)[n]
  <2> SUFFICES ASSUME NEW n \in Nat
               PROVE  run(n)[n] \in S
    OBVIOUS
  <2>1. Runs(run(n), n)
    BY <1>3
  <2> HIDE DEF run
  <2> QED BY <2>1
<1>5. f \in [Nat -> S]
  BY <1>4
<1>6. f[0] = e
  <2> DEFINE g == run(0)
  <2>1. f[0] = g[0]
    BY <1>4
  <2>2. Runs(g, 0)
    <3> HIDE DEF run, Runs
    <3> QED BY <1>3
  <2> HIDE DEF run, g, f
  <2> QED BY <2>1, <2>2
<1>7. ASSUME NEW n \in Nat
      PROVE  f[n + 1] = h[n][f[n]]
  <2> DEFINE g == run(n)
             r == run(n + 1)
  <2>1. Runs(g, n) /\ Runs(r, n + 1)
    <3>1. n + 1 \in Nat
      OBVIOUS
    <3> HIDE DEF run, Runs
    <3> QED BY <1>3, <3>1
  <2>2. f[n] = g[n] /\ f[n + 1] = r[n + 1]
    OBVIOUS
  <2> HIDE DEF run, g, r, f
  <2>3. r[n + 1] = h[n][r[n]]
    BY <2>1
  <2>4. g[n] = r[n]
    <3> HIDE DEF Runs
    <3>1. n <= n + 1 /\ n + 1 \in Nat
      OBVIOUS
    <3>2. ASSUME NEW j \in Nat, n <= j, Runs(r, j)
          PROVE  g[n] = r[n]
      BY <1>2, <2>1, <3>2
    <3> QED BY <2>1, <3>1, <3>2
  <2> QED BY <2>2, <2>3, <2>4
<1> QED BY <1>5, <1>6, <1>7 DEF Steps
=============================================================================
