------------------------ MODULE HashedDocument_proofs ------------------------
(***************************************************************************)
(* Proofs about HashedDocument, for floats and integers of any width, any  *)
(* strings and numbers, and any number of alterations: what the hash of a  *)
(* canonical text tells apart, and what it does not reject.                *)
(***************************************************************************)
EXTENDS HashedDocument, CommonTheorems

-----------------------------------------------------------------------------
\* Powers of two and of ten.

LEMMA Powers ==
  ASSUME NEW b \in Nat \ {0}, NEW Pow,
         \A g : g = [n \in Nat |-> IF n = 0 THEN 1 ELSE b * g[n - 1]]
                => Pow = [n \in Nat |-> IF n = 0 THEN 1 ELSE b * Pow[n - 1]]
  PROVE  /\ Pow \in [Nat -> Nat \ {0}]
         /\ Pow[0] = 1
         /\ \A n \in Nat : Pow[n + 1] = b * Pow[n]
<1> DEFINE S == Nat \ {0}
           h == [n \in Nat |-> [x \in S |-> b * x]]
<1>1. 1 \in S /\ h \in [Nat -> [S -> S]]
  <2>1. \A x \in S : b * x \in S
    OBVIOUS
  <2> QED BY <2>1
<1>2. \A n \in Nat, x \in S : h[n][x] = b * x
  OBVIOUS
<1> HIDE DEF h, S
<1>3. PICK f : Steps(f, S, 1, h)
  BY <1>1, StepwiseFunction
<1>4. /\ f \in [Nat -> Nat \ {0}] /\ f[0] = 1
      /\ \A n \in Nat : f[n + 1] = b * f[n]
  BY <1>2, <1>3 DEF Steps, S
<1> DEFINE step(g) == [n \in Nat |-> IF n = 0 THEN 1 ELSE b * g[n - 1]]
<1>5. f = step(f)
  <2> SUFFICES ASSUME NEW n \in Nat
               PROVE  f[n] = IF n = 0 THEN 1 ELSE b * f[n - 1]
    BY <1>4
  <2>1. CASE n = 0
    BY <1>4, <2>1
  <2>2. CASE n # 0
    <3>1. n - 1 \in Nat /\ (n - 1) + 1 = n
      BY <2>2
    <3> QED BY <1>4, <2>2, <3>1
  <2> QED BY <2>1, <2>2
<1>6. \A g : g = step(g) => Pow = step(Pow)
  OBVIOUS
<1> HIDE DEF step
<1>7. Pow = step(Pow)
  BY <1>5, <1>6
<1>8. \A n \in Nat : Pow[n] = IF n = 0 THEN 1 ELSE b * Pow[n - 1]
  BY <1>7 DEF step
<1>9. Pow[0] = 1
  BY <1>8
<1>10. \A n \in Nat : Pow[n + 1] = b * Pow[n]
  BY <1>8
<1>11. \A n \in Nat : Pow[n] \in Nat \ {0}
  <2> DEFINE A == {n \in Nat : Pow[n] \in Nat \ {0}}
  <2>1. 0 \in A
    BY <1>9
  <2>2. \A n \in Nat : n \in A => n + 1 \in A
    BY <1>10
  <2> HIDE DEF A
  <2>3. \A n \in Nat : n \in A
    BY <2>1, <2>2, SetInduction
  <2> QED BY <2>3 DEF A
<1>12. Pow = [n \in Nat |-> Pow[n]]
  BY <1>7 DEF step
<1> QED BY <1>9, <1>10, <1>11, <1>12

LEMMA PowersOfTwo ==
  /\ Pow2 \in [Nat -> Nat \ {0}]
  /\ Pow2[0] = 1
  /\ \A n \in Nat : Pow2[n + 1] = 2 * Pow2[n]
<1>1. \A g : g = [n \in Nat |-> IF n = 0 THEN 1 ELSE 2 * g[n - 1]]
              => Pow2 = [n \in Nat |-> IF n = 0 THEN 1 ELSE 2 * Pow2[n - 1]]
  BY DEF Pow2
<1>2. 2 \in Nat \ {0}
  OBVIOUS
<1> QED BY ONLY <1>1, <1>2, Powers

LEMMA PowersOfTen ==
  /\ Pow10 \in [Nat -> Nat \ {0}]
  /\ Pow10[0] = 1
  /\ \A n \in Nat : Pow10[n + 1] = 10 * Pow10[n]
<1>1. \A g : g = [n \in Nat |-> IF n = 0 THEN 1 ELSE 10 * g[n - 1]]
              => Pow10 = [n \in Nat |-> IF n = 0 THEN 1 ELSE 10 * Pow10[n - 1]]
  BY DEF Pow10
<1>2. 10 \in Nat \ {0}
  OBVIOUS
<1> QED BY ONLY <1>1, <1>2, Powers

LEMMA PowersAdd ==
  ASSUME NEW m \in Nat, NEW n \in Nat
  PROVE  Pow2[m + n] = Pow2[m] * Pow2[n]
<1> DEFINE A == {k \in Nat : Pow2[m + k] = Pow2[m] * Pow2[k]}
<1>1. 0 \in A
  <2>1. Pow2[m] \in Nat /\ m + 0 = m
    BY PowersOfTwo
  <2> QED BY <2>1, PowersOfTwo
<1>2. ASSUME NEW k \in Nat, k \in A
      PROVE  k + 1 \in A
  <2>1. m + (k + 1) = (m + k) + 1 /\ m + k \in Nat
    OBVIOUS
  <2>2. Pow2[m + (k + 1)] = 2 * Pow2[m + k]
    BY <2>1, PowersOfTwo
  <2>3. Pow2[k + 1] = 2 * Pow2[k]
    BY PowersOfTwo
  <2> DEFINE x == Pow2[m]
             y == Pow2[k]
  <2>4. x \in Nat /\ y \in Nat
    BY PowersOfTwo
  <2>5. Pow2[m + k] = x * y
    BY <1>2
  <2> HIDE DEF x, y
  <2>6. 2 * (x * y) = x * (2 * y)
    BY <2>4
  <2> QED BY <2>2, <2>3, <2>5, <2>6 DEF x, y
<1> HIDE DEF A
<1>3. \A k \in Nat : k \in A
  BY <1>1, <1>2, SetInduction
<1> QED BY <1>3 DEF A

LEMMA PowersGrow ==
  ASSUME NEW m \in Nat, NEW n \in Nat, m < n
  PROVE  2 * Pow2[m] <= Pow2[n]
<1>1. n - m - 1 \in Nat /\ n = (m + 1) + (n - m - 1) /\ m + 1 \in Nat
  OBVIOUS
<1> DEFINE x == Pow2[m + 1]
           y == Pow2[n - m - 1]
<1>2. Pow2[n] = x * y
  BY <1>1, PowersAdd
<1>3. x = 2 * Pow2[m] /\ x \in Nat /\ y \in Nat \ {0}
  BY <1>1, PowersOfTwo
<1> HIDE DEF x, y
<1>4. x <= x * y
  BY <1>3
<1> QED BY <1>2, <1>3, <1>4

LEMMA PowersPass ==
  ASSUME NEW n \in Nat
  PROVE  n < Pow2[n]
<1> DEFINE A == {k \in Nat : k < Pow2[k]}
<1>1. 0 \in A
  BY PowersOfTwo
<1>2. \A k \in Nat : k \in A => k + 1 \in A
  BY PowersOfTwo
<1> HIDE DEF A
<1>3. \A k \in Nat : k \in A
  BY <1>1, <1>2, SetInduction
<1> QED BY <1>3 DEF A

-----------------------------------------------------------------------------
\* Rounding to a float64.

\* Each positive number lies between two neighbouring powers of two.
LEMMA BinaryExponent ==
  ASSUME NEW a \in Nat \ {0}
  PROVE  \E e \in 0..a : Pow2[e] <= a /\ a < Pow2[e + 1]
<1> SUFFICES ASSUME \A e \in 0..a : ~(Pow2[e] <= a /\ a < Pow2[e + 1])
             PROVE  FALSE
  OBVIOUS
<1>0. \A n \in Nat : Pow2[n] \in Nat
  BY PowersOfTwo
<1> DEFINE A == {n \in Nat : Pow2[n] <= a}
<1>1. 0 \in A
  BY PowersOfTwo
<1>2. ASSUME NEW n \in Nat, n \in A
      PROVE  n + 1 \in A
  <2>1. Pow2[n] <= a /\ n < Pow2[n] /\ Pow2[n] \in Nat /\ Pow2[n + 1] \in Nat
    BY <1>0, <1>2, PowersPass
  <2>2. n \in 0..a
    BY <2>1
  <2>3. ~(a < Pow2[n + 1])
    BY <2>1, <2>2
  <2> QED BY <2>1, <2>3
<1> HIDE DEF A
<1>3. \A n \in Nat : n \in A
  BY <1>1, <1>2, SetInduction
<1>4. Pow2[a] <= a /\ a < Pow2[a] /\ Pow2[a] \in Nat
  BY <1>0, <1>3, PowersPass DEF A
<1> QED BY <1>4

LEMMA SpacingOf ==
  ASSUME NEW a \in Nat
  PROVE  /\ Spacing(a) \in Nat \ {0}
         /\ a < Pow2[Precision] => Spacing(a) = 1
         /\ Pow2[Precision] <= a /\ a < Pow2[Precision + 1] => Spacing(a) = 2
         /\ Pow2[Precision + 1] <= a =>
              \E k \in Nat : k * Spacing(a) <= a /\ Pow2[Precision + 1] <= k * Spacing(a)
<1> DEFINE P == Precision
<1>1. /\ P \in Nat \ {0} /\ P - 1 \in Nat /\ P + 1 \in Nat
      /\ Pow2[P] \in Nat \ {0} /\ Pow2[P + 1] = 2 * Pow2[P]
  BY WidthAssumption, PowersOfTwo
<1>2. CASE a < Pow2[P]
  <2>1. Spacing(a) = 1
    BY <1>2 DEF Spacing
  <2> QED BY <1>1, <1>2, <2>1
<1>3. CASE ~(a < Pow2[P])
  <2> DEFINE e == CHOOSE n \in 0..a : Pow2[n] <= a /\ a < Pow2[n + 1]
  <2>1. a \in Nat \ {0}
    BY <1>1, <1>3
  <2>2. e \in 0..a /\ Pow2[e] <= a /\ a < Pow2[e + 1]
    BY <2>1, BinaryExponent
  <2>3. Spacing(a) = Pow2[e - P + 1]
    BY <1>3 DEF Spacing
  <2> HIDE DEF e
  <2>4. e \in Nat /\ e + 1 \in Nat /\ Pow2[e] \in Nat /\ Pow2[e + 1] \in Nat
    BY <2>2, PowersOfTwo
  <2>5. e >= P
    <3>1. SUFFICES ASSUME e < P PROVE FALSE
      BY <1>1, <2>4
    <3>2. Pow2[e + 1] = 2 * Pow2[e] /\ 2 * Pow2[e] <= Pow2[P]
      BY <1>1, <2>4, <3>1, PowersGrow, PowersOfTwo
    <3> QED BY <1>1, <1>3, <2>2, <2>4, <3>2
  <2>6. e - P + 1 \in Nat
    BY <1>1, <2>4, <2>5
  <2>7. Spacing(a) \in Nat \ {0}
    BY <2>3, <2>6, PowersOfTwo
  <2>8. ASSUME a < Pow2[P + 1]
        PROVE  Spacing(a) = 2
    <3>1. e = P
      <4>1. SUFFICES ASSUME P < e PROVE FALSE
        BY <1>1, <2>4, <2>5
      <4>2. 2 * Pow2[P] <= Pow2[e]
        BY <1>1, <2>4, <4>1, PowersGrow
      <4> QED BY <1>1, <2>2, <2>4, <2>8, <4>2
    <3>2. e - P + 1 = 0 + 1
      BY <1>1, <3>1
    <3>3. Pow2[0 + 1] = 2
      BY PowersOfTwo
    <3> QED BY <2>3, <3>2, <3>3
  <2>9. ASSUME Pow2[P + 1] <= a
        PROVE  \E k \in Nat : k * Spacing(a) <= a /\ Pow2[P + 1] <= k * Spacing(a)
    <3>1. e = (P - 1) + (e - P + 1)
      BY <1>1, <2>4
    <3>2. Pow2[e] = Pow2[P - 1] * Spacing(a)
      <4> DEFINE d == e - P + 1
      <4>1. d \in Nat /\ e = (P - 1) + d /\ Spacing(a) = Pow2[d]
        BY <2>3, <2>6, <3>1
      <4> HIDE DEF d
      <4>2. Pow2[(P - 1) + d] = Pow2[P - 1] * Pow2[d]
        BY <1>1, <4>1, PowersAdd
      <4> QED BY <4>1, <4>2
    <3>3. e >= P + 1
      <4>1. SUFFICES ASSUME e = P PROVE FALSE
        BY <1>1, <2>4, <2>5
      <4> QED BY <1>1, <2>2, <2>9, <4>1
    <3>4. Pow2[P + 1] <= Pow2[e]
      <4>1. CASE e = P + 1
        BY <1>1, <2>4, <4>1
      <4>2. CASE P + 1 < e
        <5>1. 2 * Pow2[P + 1] <= Pow2[e]
          BY <1>1, <2>4, <4>2, PowersGrow
        <5> QED BY <1>1, <2>4, <5>1
      <4> QED BY <1>1, <2>4, <3>3, <4>1, <4>2
    <3>5. Pow2[P - 1] \in Nat
      BY <1>1, PowersOfTwo
    <3> WITNESS Pow2[P - 1] \in Nat
    <3> QED BY <2>2, <3>2, <3>4
  <2>10. Pow2[P] <= a
    BY <1>1, <1>3
  <2> QED BY <1>3, <2>7, <2>8, <2>9
<1> QED BY <1>2, <1>3

\* What a float64 between the integers it can tell from their neighbours becomes,
\* and what one beyond does.
LEMMA Nearest ==
  ASSUME NEW a \in Nat
  PROVE  /\ NearestTo(a) \in Nat
         /\ a % 2 = 0 /\ a < Pow2[Precision + 1] => NearestTo(a) = a
         /\ Pow2[Precision + 1] <= a => Pow2[Precision + 1] <= NearestTo(a)
<1> DEFINE u == Spacing(a)
           q == a \div u
           r == a % u
           t == Pow2[Precision + 1]
<1>1. u \in Nat \ {0}
  BY SpacingOf
<1>2. a < t => u = 1 \/ u = 2
  <2>1. Pow2[Precision] \in Nat
    BY WidthAssumption, PowersOfTwo
  <2> QED BY <2>1, SpacingOf
<1>3. t <= a => \E k \in Nat : k * u <= a /\ t <= k * u
  BY SpacingOf
<1>4. t \in Nat
  BY WidthAssumption, PowersOfTwo
<1> HIDE DEF u, t
<1>5. q \in Nat /\ r \in 0..(u - 1) /\ a = q * u + r
  BY <1>1
<1>6. NearestTo(a) = (IF 2 * r > u \/ (2 * r = u /\ q % 2 = 1) THEN q + 1 ELSE q) * u
  BY DEF NearestTo, u
<1> HIDE DEF q, r
<1>7. PICK p \in {q, q + 1} : NearestTo(a) = p * u /\ (r = 0 => p = q)
  BY <1>1, <1>5, <1>6
<1>8. NearestTo(a) \in Nat
  BY <1>1, <1>5, <1>7
<1>9. ASSUME a % 2 = 0, a < t
      PROVE  NearestTo(a) = a
  <2>1. r = 0
    BY <1>2, <1>9 DEF r
  <2> QED BY <1>1, <1>5, <1>7, <2>1
<1>10. ASSUME t <= a
       PROVE  t <= NearestTo(a)
  <2>1. PICK k \in Nat : k * u <= a /\ t <= k * u
    BY <1>3, <1>10
  <2>2. k <= q
    <3>1. SUFFICES ASSUME q + 1 <= k PROVE FALSE
      BY <1>5
    <3>2. (q + 1) * u <= k * u
      BY <1>1, <1>5, <3>1
    <3>3. (q + 1) * u = q * u + u
      BY <1>1, <1>5
    <3> QED BY <1>1, <1>5, <2>1, <3>2, <3>3
  <2>3. k <= p /\ p \in Nat
    BY <1>5, <1>7, <2>2
  <2>4. k * u <= p * u
    BY <1>1, <2>3
  <2> QED BY <1>1, <1>4, <1>7, <2>1, <2>3, <2>4
<1> QED BY <1>8, <1>9, <1>10 DEF t

LEMMA RoundedNumber ==
  ASSUME NEW h \in Int
  PROVE  /\ Rounded(h) \in Int
         /\ Magnitude(Rounded(h)) \in Nat
         /\ h % 2 = 0 /\ Magnitude(h) < Pow2[Precision + 1] => Rounded(h) = h
         /\ Pow2[Precision + 1] <= Magnitude(h)
              => Pow2[Precision + 1] <= Magnitude(Rounded(h))
<1>0. Pow2[Precision + 1] \in Nat
  BY WidthAssumption, PowersOfTwo
<1>1. CASE h < 0
  <2> DEFINE a == -h
  <2>1. a \in Nat /\ (h % 2 = 0 => a % 2 = 0) /\ Magnitude(h) = a /\ Rounded(h) = -NearestTo(a)
    BY <1>1 DEF Magnitude, Rounded
  <2>2. h = -a
    OBVIOUS
  <2> HIDE DEF a
  <2>3. /\ NearestTo(a) \in Nat
        /\ a % 2 = 0 /\ a < Pow2[Precision + 1] => NearestTo(a) = a
        /\ Pow2[Precision + 1] <= a => Pow2[Precision + 1] <= NearestTo(a)
    BY <2>1, Nearest
  <2>4. Magnitude(Rounded(h)) = NearestTo(a)
    BY <2>1, <2>3 DEF Magnitude
  <2> QED BY <1>0, <2>1, <2>2, <2>3, <2>4
<1>2. CASE ~(h < 0)
  <2>1. h \in Nat /\ Magnitude(h) = h /\ Rounded(h) = NearestTo(h)
    BY <1>2 DEF Magnitude, Rounded
  <2>2. /\ NearestTo(h) \in Nat
        /\ h % 2 = 0 /\ h < Pow2[Precision + 1] => NearestTo(h) = h
        /\ Pow2[Precision + 1] <= h => Pow2[Precision + 1] <= NearestTo(h)
    BY <2>1, Nearest
  <2>3. Magnitude(Rounded(h)) = NearestTo(h)
    BY <2>1, <2>2 DEF Magnitude
  <2> QED BY <1>0, <2>1, <2>2, <2>3
<1> QED BY <1>1, <1>2

\* The conversion to an int64 keeps the integers that a float64 tells from their
\* neighbours, and makes none of them from another number, on either platform.
LEMMA SafeIntegers ==
  ASSUME NEW n \in Int, NEW p
  PROVE  /\ ToInt64(n, p) \in Int
         /\ Magnitude(n) < Pow2[Precision] => ToInt64(n, p) = n
         /\ Pow2[Precision] <= Magnitude(n) => Pow2[Precision] <= Magnitude(ToInt64(n, p))
<1> DEFINE t == Pow2[Precision]
           w == Pow2[IntBits - 1]
<1>1. t \in Nat /\ w \in Nat /\ 2 * t <= w /\ t # 0
  <2>1. IntBits - 1 \in Nat /\ Precision \in Nat /\ Precision < IntBits - 1
    BY WidthAssumption
  <2> QED BY <2>1, PowersOfTwo, PowersGrow
<1>2. MaxInt = w - 1 /\ MinInt = -w
  BY DEF MaxInt, MinInt
<1> HIDE DEF t, w
<1>3. CASE n \in MinInt..MaxInt
  <2>1. ~(n > MaxInt)
    BY <1>1, <1>2, <1>3
  <2>2. ToInt64(n, p) = n
    BY <1>3, <2>1, Zenon DEF ToInt64
  <2> QED BY <2>2 DEF t
<1>4. CASE n \notin MinInt..MaxInt
  <2>1. ToInt64(n, p) \in {MaxInt, MinInt}
    BY <1>4 DEF ToInt64
  <2>2. n > MaxInt \/ n < MinInt
    BY <1>1, <1>2, <1>4
  <2>3. t <= Magnitude(n)
    BY <1>1, <1>2, <2>2 DEF Magnitude
  <2>4. MaxInt \in Int /\ MinInt \in Int /\ t <= Magnitude(MaxInt) /\ t <= Magnitude(MinInt)
    BY <1>1, <1>2 DEF Magnitude
  <2>5. Magnitude(n) \in Nat
    BY DEF Magnitude
  <2> QED BY <1>1, <2>1, <2>3, <2>4, <2>5 DEF t
<1> QED BY <1>3, <1>4

-----------------------------------------------------------------------------
\* A float64 as the shortest decimal that is read as it.

\* Between two powers of two, the float64 are as far apart as everywhere there.
LEMMA SpacingBetween ==
  ASSUME NEW a \in Nat, NEW e \in Nat, Precision <= e, Pow2[e] <= a, a < Pow2[e + 1]
  PROVE  Spacing(a) = Pow2[e - Precision + 1]
<1>1. Precision \in Nat \ {0}
  BY WidthAssumption
<1>2. \A n \in Nat : Pow2[n] \in Nat \ {0}
  BY PowersOfTwo
<1>3. ~(a < Pow2[Precision])
  <2>1. Precision < e => 2 * Pow2[Precision] <= Pow2[e]
    BY <1>1, PowersGrow
  <2>2. Pow2[Precision] <= Pow2[e]
    <3>1. CASE Precision < e
      BY <1>1, <1>2, <2>1, <3>1
    <3>2. CASE Precision = e
      BY <1>1, <1>2, <3>2
    <3> QED BY <1>1, <3>1, <3>2
  <2> QED BY <1>1, <1>2, <2>2
<1> DEFINE d == CHOOSE n \in 0..a : Pow2[n] <= a /\ a < Pow2[n + 1]
<1>4. Spacing(a) = Pow2[d - Precision + 1]
  BY <1>3 DEF Spacing
<1>5. e \in 0..a
  <2>1. e < Pow2[e] /\ Pow2[e] \in Nat
    BY <1>2, PowersPass
  <2> QED BY <2>1
<1>6. d \in 0..a /\ Pow2[d] <= a /\ a < Pow2[d + 1]
  BY <1>5
<1> HIDE DEF d
<1>7. ASSUME NEW m \in Nat, NEW n \in Nat, m < n, Pow2[n] <= a, a < Pow2[m + 1]
      PROVE  FALSE
  <2>1. 2 * Pow2[m] <= Pow2[n] /\ Pow2[m + 1] = 2 * Pow2[m]
    BY <1>7, PowersGrow, PowersOfTwo
  <2> QED BY <1>2, <1>7, <2>1
<1>8. d = e
  <2>1. d \in Nat
    BY <1>6
  <2>2. ~(d < e) /\ ~(e < d)
    BY <1>6, <1>7, <2>1
  <2> QED BY <2>1, <2>2
<1> QED BY <1>4, <1>8

\* A multiple of the spacing around it is a float64.
LEMMA MultipleStays ==
  ASSUME NEW k \in Nat, NEW u \in Nat \ {0}, Spacing(k * u) = u
  PROVE  NearestTo(k * u) = k * u
<1> DEFINE a == k * u
           q == a \div u
           r == a % u
<1>1. a \in Nat
  OBVIOUS
<1>2. NearestTo(a) = (IF 2 * r > u \/ (2 * r = u /\ q % 2 = 1) THEN q + 1 ELSE q) * u
  BY DEF NearestTo
<1>3. a = k * u
  OBVIOUS
<1> HIDE DEF a
<1>4. q \in Nat /\ r \in 0..(u - 1) /\ a = q * u + r
  BY <1>1
<1> HIDE DEF q, r
<1>5. q = k
  <2>1. ASSUME q + 1 <= k PROVE FALSE
    <3>1. (q + 1) * u <= k * u
      BY <1>4, <2>1
    <3>2. (q + 1) * u = q * u + u
      BY <1>4
    <3> QED BY <1>3, <1>4, <3>1, <3>2
  <2>2. ASSUME k + 1 <= q PROVE FALSE
    <3>1. (k + 1) * u <= q * u
      BY <1>4, <2>2
    <3>2. (k + 1) * u = k * u + u
      OBVIOUS
    <3> QED BY <1>3, <1>4, <3>1, <3>2
  <2> QED BY <1>4, <2>1, <2>2
<1>6. r = 0
  BY <1>3, <1>4, <1>5
<1> QED BY <1>2, <1>3, <1>5, <1>6 DEF a

LEMMA FloatsStay ==
  ASSUME NEW a \in Nat
  PROVE  NearestTo(NearestTo(a)) = NearestTo(a)
<1> DEFINE P == Precision
<1>1. P \in Nat \ {0} /\ P - 1 \in Nat
  BY WidthAssumption
<1>2. \A n \in Nat : Pow2[n] \in Nat \ {0} /\ Pow2[n + 1] = 2 * Pow2[n]
  BY PowersOfTwo
<1>3. CASE a < Pow2[P]
  <2>1. Spacing(a) = 1 /\ a * 1 = a
    BY <1>3 DEF Spacing
  <2>2. NearestTo(a) = a
    BY <2>1, MultipleStays
  <2> QED BY <2>2
<1>4. CASE ~(a < Pow2[P])
  <2>1. a \in Nat \ {0} /\ Pow2[P] <= a
    BY <1>1, <1>2, <1>4
  <2>2. PICK e \in 0..a : Pow2[e] <= a /\ a < Pow2[e + 1]
    BY <2>1, BinaryExponent
  <2>3. e \in Nat /\ P <= e
    <3>1. ASSUME e < P PROVE FALSE
      <4>1. 2 * Pow2[e] <= Pow2[P] /\ Pow2[e + 1] = 2 * Pow2[e]
        BY <1>1, <1>2, <3>1, PowersGrow
      <4> QED BY <1>1, <1>2, <2>1, <2>2, <4>1
    <3> QED BY <1>1, <3>1
  <2> DEFINE u == Pow2[e - P + 1]
             s == Pow2[P - 1]
             q == a \div u
             r == a % u
  <2>4. u \in Nat \ {0} /\ s \in Nat \ {0} /\ e - P + 1 \in Nat
    BY <1>1, <1>2, <2>3
  <2>5. Spacing(a) = u
    BY <2>2, <2>3, SpacingBetween
  <2>6. Pow2[e] = s * u /\ Pow2[e + 1] = s * (2 * u)
    <3> DEFINE d == e - P + 1
    <3>1. d \in Nat /\ e = (P - 1) + d
      BY <1>1, <2>3
    <3> HIDE DEF d
    <3>2. Pow2[(P - 1) + d] = Pow2[P - 1] * Pow2[d]
      BY <1>1, <3>1, PowersAdd
    <3>3. Pow2[e] = s * u
      BY <3>1, <3>2 DEF d
    <3>4. Pow2[e + 1] = 2 * (s * u)
      BY <1>2, <2>3, <3>3
    <3> HIDE DEF s, u
    <3>5. 2 * (s * u) = s * (2 * u)
      BY <2>4
    <3> QED BY <3>3, <3>4, <3>5
  <2>7. NearestTo(a) = (IF 2 * r > u \/ (2 * r = u /\ q % 2 = 1) THEN q + 1 ELSE q) * u
    BY <2>5 DEF NearestTo
  <2> HIDE DEF u, s
  <2>8. q \in Nat /\ r \in 0..(u - 1) /\ a = q * u + r
    BY <2>4
  <2> HIDE DEF q, r
  <2>9. PICK p \in {q, q + 1} : NearestTo(a) = p * u
    BY <2>7
  <2>10. s <= q
    <3>1. SUFFICES ASSUME q + 1 <= s PROVE FALSE
      BY <2>4, <2>8
    <3>2. (q + 1) * u <= s * u /\ (q + 1) * u = q * u + u
      BY <2>4, <2>8, <3>1
    <3> QED BY <2>2, <2>4, <2>6, <2>8, <3>2
  <2>11. q < 2 * s
    <3>1. SUFFICES ASSUME 2 * s <= q PROVE FALSE
      BY <2>4, <2>8
    <3>2. (2 * s) * u <= q * u /\ (2 * s) * u = s * (2 * u)
      BY <2>4, <2>8, <3>1
    <3> QED BY <2>2, <2>4, <2>6, <2>8, <3>2
  <2>12. p \in Nat /\ s <= p /\ p <= 2 * s
    BY <2>4, <2>8, <2>10, <2>11
  <2>13. CASE p < 2 * s
    <3>1. s * u <= p * u /\ p * u < s * (2 * u) /\ p * u \in Nat
      <4>1. s * u <= p * u
        BY <2>4, <2>12
      <4>2. p + 1 <= 2 * s
        BY <2>4, <2>12, <2>13
      <4>3. (p + 1) * u <= (2 * s) * u
        BY <2>4, <2>12, <4>2
      <4>4. (p + 1) * u = p * u + u /\ (2 * s) * u = s * (2 * u)
        BY <2>4, <2>12
      <4> QED BY <2>4, <2>12, <4>1, <4>3, <4>4
    <3>2. Spacing(p * u) = u
      BY <2>3, <2>6, <3>1, SpacingBetween DEF u
    <3> QED BY <2>4, <2>9, <2>12, <3>2, MultipleStays
  <2>14. CASE p = 2 * s
    <3> DEFINE v == 2 * u
    <3>1. p * u = s * v /\ v \in Nat \ {0} /\ s * v \in Nat
      BY <2>4, <2>14
    <3>2. e + 1 \in Nat /\ P <= e + 1 /\ (e + 1) - P + 1 = (e - P + 1) + 1
      BY <1>1, <2>3
    <3>3. Pow2[(e + 1) - P + 1] = v
      BY <1>2, <2>4, <3>2 DEF u
    <3>4. Pow2[e + 1] <= s * v /\ s * v < Pow2[(e + 1) + 1]
      BY <1>2, <2>6, <3>1, <3>2
    <3>5. Spacing(s * v) = v
      BY <3>1, <3>2, <3>3, <3>4, SpacingBetween
    <3> HIDE DEF v
    <3>6. NearestTo(s * v) = s * v
      BY <2>4, <3>1, <3>5, MultipleStays
    <3> QED BY <2>9, <3>1, <3>6
  <2> QED BY <2>4, <2>12, <2>13, <2>14
<1> QED BY <1>3, <1>4

LEMMA RoundedStays ==
  ASSUME NEW h \in Int
  PROVE  Rounded(Rounded(h)) = Rounded(h)
<1> DEFINE a == Magnitude(h)
           f == NearestTo(a)
<1>1. a \in Nat /\ (h < 0 => a = -h) /\ (h >= 0 => a = h)
  BY DEF Magnitude
<1> HIDE DEF a
<1>2. f \in Nat /\ NearestTo(f) = f
  BY <1>1, Nearest, FloatsStay
<1>3. NearestTo(0) = 0
  <2>1. 0 % 2 = 0 /\ 0 < Pow2[Precision + 1]
    BY WidthAssumption, PowersOfTwo
  <2> QED BY <2>1, Nearest
<1> HIDE DEF f
<1>4. CASE h < 0
  <2>1. -h = a /\ Rounded(h) = -f
    BY <1>1, <1>4 DEF Rounded, f
  <2>2. CASE f = 0
    <3> DEFINE y == -f
    <3>1. y \in Int /\ f + y = 0
      BY <1>2
    <3> HIDE DEF y
    <3>2. y = 0
      BY <2>2, <3>1
    <3>3. \A k \in Nat : Rounded(k) = NearestTo(k)
      BY DEF Rounded
    <3> QED BY <1>3, <2>1, <3>2, <3>3 DEF y
  <2>3. CASE f # 0
    <3>1. -f < 0 /\ -(-f) = f
      BY <1>2, <2>3
    <3>2. Rounded(-f) = -NearestTo(-(-f))
      BY <3>1 DEF Rounded
    <3> QED BY <1>2, <2>1, <3>1, <3>2
  <2> QED BY <2>2, <2>3
<1>5. CASE ~(h < 0)
  <2>1. h = a /\ Rounded(h) = f
    BY <1>1, <1>5 DEF Rounded, f
  <2>2. Rounded(f) = NearestTo(f)
    BY <1>2 DEF Rounded
  <2> QED BY <1>2, <2>1, <2>2
<1> QED BY <1>4, <1>5

LEMMA LeastNumber ==
  ASSUME NEW S \in SUBSET Nat, S # {}
  PROVE  \E x \in S : \A y \in S : x <= y
<1> SUFFICES ASSUME \A x \in S : \E y \in S : ~(x <= y)
             PROVE  FALSE
  OBVIOUS
<1> DEFINE A == {n \in Nat : \A m \in S : n <= m}
<1>1. 0 \in A
  OBVIOUS
<1>2. \A n \in Nat : n \in A => n + 1 \in A
  OBVIOUS
<1> HIDE DEF A
<1>3. \A n \in Nat : n \in A
  BY <1>1, <1>2, SetInduction
<1>4. PICK x \in S : TRUE
  OBVIOUS
<1>5. x \in Nat /\ x + 1 \in A
  BY <1>3
<1> QED BY <1>5 DEF A

LEMMA AlikeNumbers ==
  ASSUME NEW n \in Nat
  PROVE  /\ n \in ReadAlike(n)
         /\ \A m \in ReadAlike(n) : m \in Nat /\ NearestTo(2 * m) = NearestTo(2 * n)
<1> DEFINE apart == Spacing(2 * n) \div 2
           float == NearestTo(2 * n)
<1>1. ReadAlike(n) = {m \in (n - apart)..(n + apart) : NearestTo(2 * m) = float}
  BY DEF ReadAlike
<1>2. apart \in Nat /\ float \in Nat
  <2>1. Spacing(2 * n) \in Nat \ {0} /\ NearestTo(2 * n) \in Nat
    BY SpacingOf, Nearest
  <2> QED BY <2>1
<1>3. float = NearestTo(2 * n)
  OBVIOUS
<1> HIDE DEF apart, float
<1>4. n \in ReadAlike(n)
  BY <1>1, <1>2, <1>3
<1>5. ASSUME NEW m \in ReadAlike(n)
      PROVE  m \in Nat /\ NearestTo(2 * m) = NearestTo(2 * n)
  <2>1. m \in Int /\ NearestTo(2 * m) = float
    BY <1>1, <1>2
  <2>2. ASSUME m < 0 PROVE FALSE
    <3>1. Pow2[Precision] \in Nat
      BY WidthAssumption, PowersOfTwo
    <3>2. Spacing(2 * m) = 1
      BY <2>1, <2>2, <3>1 DEF Spacing
    <3> DEFINE a == 2 * m
    <3>3. a \in Int /\ a < 0 /\ a \div 1 = a /\ a % 1 = 0
      BY <2>1, <2>2
    <3>4. NearestTo(a) = (IF 2 * (a % 1) > 1 \/ (2 * (a % 1) = 1 /\ (a \div 1) % 2 = 1)
                          THEN a \div 1 + 1 ELSE a \div 1) * 1
      BY <3>2 DEF NearestTo
    <3> HIDE DEF a
    <3>5. NearestTo(a) = a
      BY <3>3, <3>4
    <3> QED BY <1>2, <2>1, <3>3, <3>5 DEF a
  <2> QED BY <1>3, <2>1, <2>2
<1> QED BY <1>4, <1>5

\* It is read as the float64 it was written for.
LEMMA ShortestIsReadAlike ==
  ASSUME NEW n \in Nat
  PROVE  Shortest(n) \in Nat /\ NearestTo(2 * Shortest(n)) = NearestTo(2 * n)
<1> DEFINE alike    == ReadAlike(n)
           zeros    == {k \in 0..ExponentDigits : \E m \in alike : m % Pow10[k] = 0}
           unit     == Pow10[MostZeros(alike)]
           short    == {m \in alike : m % unit = 0}
           far(m)   == Magnitude(m - n)
<1>1. n \in alike /\ \A m \in alike : m \in Nat
  BY AlikeNumbers
<1>2. Shortest(n) = CHOOSE m \in short : \A o \in short : far(m) <= far(o)
  BY DEF Shortest
<1>3. MostZeros(alike) = Max(zeros)
  BY DEF MostZeros
<1>4. ExponentDigits \in Nat /\ Pow10[0] = 1
  BY WidthAssumption, PowersOfTen
<1> HIDE DEF alike
<1>5. 0 \in zeros
  BY <1>1, <1>4
<1>6. Max(zeros) \in zeros
  <2> DEFINE S == {ExponentDigits - k : k \in zeros}
  <2>1. S \in SUBSET Nat /\ S # {}
    BY <1>4, <1>5
  <2>2. PICK x \in S : \A y \in S : x <= y
    BY <2>1, LeastNumber
  <2>3. PICK k \in zeros : x = ExponentDigits - k
    BY <2>2
  <2>4. ASSUME NEW j \in zeros
        PROVE  k >= j
    <3>1. j \in Nat /\ k \in Nat
      BY <1>4
    <3>2. x <= ExponentDigits - j
      BY <2>2
    <3> QED BY <1>4, <2>3, <3>1, <3>2
  <2> HIDE DEF zeros
  <2> QED BY <2>3, <2>4 DEF Max
<1>7. short # {}
  BY <1>3, <1>6
<1> HIDE DEF unit, zeros
<1>8. \A m \in short : far(m) \in Nat
  BY <1>1 DEF Magnitude
<1> HIDE DEF far, short
<1>9. \E m \in short : \A o \in short : far(m) <= far(o)
  <2> DEFINE S == {far(m) : m \in short}
  <2>1. S \in SUBSET Nat /\ S # {}
    BY <1>7, <1>8
  <2>2. PICK x \in S : \A y \in S : x <= y
    BY <2>1, LeastNumber
  <2> QED BY <2>2
<1>10. Shortest(n) \in short
  BY <1>2, <1>9
<1>11. Shortest(n) \in alike
  BY <1>10 DEF short
<1> QED BY <1>11, AlikeNumbers DEF alike

\* A safe integer is written as it is, and no other float64 is written as one.
LEMMA ShortestOfSafe ==
  ASSUME NEW n \in Int
  PROVE  /\ ShortestDecimal(n) \in Int
         /\ Magnitude(n) < Pow2[Precision] => ShortestDecimal(n) = n
         /\ Pow2[Precision] <= Magnitude(n) => Pow2[Precision] <= Magnitude(ShortestDecimal(n))
<1> DEFINE t == Pow2[Precision]
<1>1. t \in Nat /\ Pow2[Precision + 1] = 2 * t
  BY WidthAssumption, PowersOfTwo
<1>2. ASSUME NEW k \in Nat
      PROVE  /\ Shortest(k) \in Nat
             /\ k < t => Shortest(k) = k
             /\ t <= k => t <= Shortest(k)
  <2> DEFINE m == Shortest(k)
  <2>1. m \in Nat /\ NearestTo(2 * m) = NearestTo(2 * k)
    BY ShortestIsReadAlike
  <2> HIDE DEF m
  <2>2. ASSUME NEW j \in Nat
        PROVE  /\ j < t => NearestTo(2 * j) = 2 * j
               /\ t <= j => 2 * t <= NearestTo(2 * j)
               /\ NearestTo(2 * j) \in Nat
    <3>1. 2 * j \in Nat /\ (2 * j) % 2 = 0
      OBVIOUS
    <3> QED BY <1>1, <3>1, Nearest
  <2> HIDE DEF t
  <2>3. ASSUME k < t PROVE m = k
    <3>1. NearestTo(2 * k) = 2 * k
      BY <2>2, <2>3
    <3>2. m < t
      <4>1. SUFFICES ASSUME t <= m PROVE FALSE
        BY <1>1, <2>1
      <4>2. 2 * t <= NearestTo(2 * m)
        BY <2>1, <2>2, <4>1
      <4> QED BY <1>1, <2>1, <2>3, <3>1, <4>2
    <3>3. NearestTo(2 * m) = 2 * m
      BY <2>1, <2>2, <3>2
    <3> QED BY <2>1, <3>1, <3>3
  <2>4. ASSUME t <= k PROVE t <= m
    <3>1. SUFFICES ASSUME m < t PROVE FALSE
      BY <1>1, <2>1
    <3>2. NearestTo(2 * m) = 2 * m
      BY <2>1, <2>2, <3>1
    <3>3. 2 * t <= NearestTo(2 * k)
      BY <2>2, <2>4
    <3> QED BY <1>1, <2>1, <3>1, <3>2, <3>3
  <2> QED BY <2>1, <2>3, <2>4 DEF m
<1> HIDE DEF t
<1>3. CASE n < 0
  <2>1. -n \in Nat /\ ShortestDecimal(n) = -Shortest(-n) /\ Magnitude(n) = -n
    BY <1>3 DEF ShortestDecimal, Magnitude
  <2>2. Magnitude(-Shortest(-n)) = Shortest(-n)
    BY <1>2, <2>1 DEF Magnitude
  <2> QED BY <1>1, <1>2, <2>1, <2>2 DEF t
<1>4. CASE ~(n < 0)
  <2>1. n \in Nat /\ ShortestDecimal(n) = Shortest(n) /\ Magnitude(n) = n
    BY <1>4 DEF ShortestDecimal, Magnitude
  <2>2. Magnitude(Shortest(n)) = Shortest(n)
    BY <1>2, <2>1 DEF Magnitude
  <2> QED BY <1>1, <1>2, <2>1, <2>2 DEF t
<1> QED BY <1>3, <1>4

\* A float64 that is an integer is read again from what is written for it.
LEMMA ShortestIsReadBack ==
  ASSUME NEW n \in Int
  PROVE  Rounded(2 * ShortestDecimal(n)) = Rounded(2 * n)
<1>1. NearestTo(0) = 0
  <2>1. 0 % 2 = 0 /\ 0 < Pow2[Precision + 1]
    BY WidthAssumption, PowersOfTwo
  <2> QED BY <2>1, Nearest
<1>2. CASE n < 0
  <2> DEFINE m == Shortest(-n)
  <2>1. -n \in Nat /\ ShortestDecimal(n) = -m
    BY <1>2 DEF ShortestDecimal
  <2>2. m \in Nat /\ NearestTo(2 * m) = NearestTo(2 * (-n))
    BY <2>1, ShortestIsReadAlike
  <2> HIDE DEF m
  <2>3. Rounded(2 * n) = -NearestTo(2 * (-n))
    <3>1. 2 * n < 0 /\ -(2 * n) = 2 * (-n)
      BY <1>2
    <3> QED BY <3>1 DEF Rounded
  <2>4. Rounded(2 * (-m)) = -NearestTo(2 * m)
    <3>1. CASE m = 0
      <4>1. 2 * (-m) = 0 /\ 2 * m = 0
        BY <2>2, <3>1
      <4>2. \A h \in Nat : Rounded(h) = NearestTo(h)
        BY DEF Rounded
      <4> DEFINE x == NearestTo(2 * m)
                 y == -x
      <4>3. x \in Nat /\ y \in Int /\ x + y = 0
        BY <1>1, <4>1
      <4> HIDE DEF x, y
      <4>4. x = 0 /\ Rounded(2 * (-m)) = 0
        BY <1>1, <4>1, <4>2 DEF x
      <4>5. y = 0
        BY <4>3, <4>4
      <4> QED BY <4>4, <4>5 DEF x, y
    <3>2. CASE m # 0
      <4>1. 2 * (-m) < 0 /\ -(2 * (-m)) = 2 * m
        BY <2>2, <3>2
      <4> QED BY <4>1 DEF Rounded
    <3> QED BY <3>1, <3>2
  <2> QED BY <2>1, <2>2, <2>3, <2>4
<1>3. CASE ~(n < 0)
  <2> DEFINE m == Shortest(n)
  <2>1. n \in Nat /\ ShortestDecimal(n) = m
    BY <1>3 DEF ShortestDecimal
  <2>2. m \in Nat /\ NearestTo(2 * m) = NearestTo(2 * n)
    BY <2>1, ShortestIsReadAlike
  <2> HIDE DEF m
  <2>3. Rounded(2 * n) = NearestTo(2 * n) /\ Rounded(2 * m) = NearestTo(2 * m)
    <3>1. ~(2 * n < 0) /\ ~(2 * m < 0)
      BY <2>1, <2>2
    <3> QED BY <3>1 DEF Rounded
  <2> QED BY <2>1, <2>2, <2>3
<1> QED BY <1>2, <1>3

-----------------------------------------------------------------------------
\* Sequences of sequences, one after the other.

LEMMA FunctionIsSeq ==
  ASSUME NEW S, NEW n \in Nat, NEW f \in [1..n -> S]
  PROVE  f \in Seq(S) /\ Len(f) = n
OBVIOUS

\* f[i] is what the first i of them come to.
Joins(f, s, T) ==
  f \in [Nat -> Seq(T)] /\ f[0] = <<>> /\ \A i \in 1..Len(s) : f[i] = f[i - 1] \o s[i]

LEMMA Flattening ==
  ASSUME NEW T, NEW s \in Seq(Seq(T))
  PROVE  \E f : Joins(f, s, T) /\ FlattenSeq(s) = f[Len(s)]
<1> DEFINE n == Len(s)
           h == [i \in Nat |-> [x \in Seq(T) |-> IF i + 1 \in 1..n THEN x \o s[i + 1] ELSE x]]
<1>1. n \in Nat /\ \A i \in 1..n : s[i] \in Seq(T)
  BY LenProperties, ElementOfSeq
<1>2. \A i \in Nat, x \in Seq(T) : h[i][x] = IF i + 1 \in 1..n THEN x \o s[i + 1] ELSE x
  OBVIOUS
<1>3. h \in [Nat -> [Seq(T) -> Seq(T)]]
  <2> SUFFICES ASSUME NEW i \in Nat, NEW x \in Seq(T), i + 1 \in 1..n
               PROVE  x \o s[i + 1] \in Seq(T)
    OBVIOUS
  <2> QED BY <1>1, ConcatProperties
<1>4. <<>> \in Seq(T)
  OBVIOUS
<1> HIDE DEF h, n
<1>5. PICK f : Steps(f, Seq(T), <<>>, h)
  BY <1>3, <1>4, StepwiseFunction
<1>6. f \in [Nat -> Seq(T)] /\ f[0] = <<>> /\ \A i \in Nat : f[i + 1] = h[i][f[i]]
  BY <1>5 DEF Steps
<1>7. ASSUME NEW i \in 1..n
      PROVE  f[i] = f[i - 1] \o s[i]
  <2>1. i - 1 \in Nat /\ (i - 1) + 1 = i
    BY <1>1
  <2>2. f[(i - 1) + 1] = h[i - 1][f[i - 1]] /\ f[i - 1] \in Seq(T)
    BY <1>6, <2>1
  <2> QED BY <1>2, <2>1, <2>2
<1>8. Joins(f, s, T)
  BY <1>6, <1>7 DEF Joins, n
<1>9. FlattenSeq(s) = f[n]
  <2>1. CASE n = 0
    <3>1. s = <<>>
      BY <2>1, EmptySeq DEF n
    <3> QED BY <1>6, <2>1, <3>1 DEF FlattenSeq, n
  <2>2. CASE n # 0
    <3> DEFINE join(g) == [i \in 1..n |-> IF i = 1 THEN s[i] ELSE g[i - 1] \o s[i]]
               r       == [i \in 1..n |-> f[i]]
               flatten == CHOOSE g : g = join(g)
    <3>1. FlattenSeq(s) = flatten[n]
      BY <2>2 DEF FlattenSeq, n
    <3>2. r = join(r)
      <4> SUFFICES ASSUME NEW i \in 1..n
                   PROVE  f[i] = IF i = 1 THEN s[i] ELSE r[i - 1] \o s[i]
        OBVIOUS
      <4>1. CASE i = 1
        <5>1. f[1] = f[0] \o s[1] /\ s[1] \in Seq(T)
          <6>1. 1 \in 1..n /\ 1 - 1 = 0
            BY <4>1
          <6> QED BY <1>1, <1>7, <6>1
        <5> QED BY <1>6, <4>1, <5>1, ConcatEmptySeq
      <4>2. CASE i # 1
        <5>1. i - 1 \in 1..n
          BY <1>1, <4>2
        <5> QED BY <1>7, <4>2, <5>1
      <4> QED BY <4>1, <4>2
    <3> HIDE DEF join, r
    <3>3. flatten = join(flatten)
      BY <3>2
    <3> HIDE DEF flatten
    <3>4. \A i \in 1..n : flatten[i] = IF i = 1 THEN s[i] ELSE flatten[i - 1] \o s[i]
      BY <3>3 DEF join
    <3>5. \A i \in 1..n : r[i] = IF i = 1 THEN s[i] ELSE r[i - 1] \o s[i]
      BY <3>2 DEF join
    <3> DEFINE A == {i \in Nat : i + 1 <= n => flatten[i + 1] = r[i + 1]}
    <3>6. 0 \in A
      <4>1. 0 + 1 = 1 /\ 1 \in 1..n
        BY <1>1, <2>2
      <4> QED BY <3>4, <3>5, <4>1
    <3>7. ASSUME NEW i \in Nat, i \in A
          PROVE  i + 1 \in A
      <4>1. CASE i + 1 + 1 <= n
        <5> DEFINE j == i + 1 + 1
        <5>1. j \in 1..n /\ j # 1 /\ j - 1 = i + 1 /\ i + 1 <= n
          BY <1>1, <4>1
        <5>2. flatten[j - 1] = r[j - 1]
          BY <3>7, <5>1
        <5> HIDE DEF j
        <5>3. flatten[j] = r[j]
          BY <3>4, <3>5, <5>1, <5>2
        <5> QED BY <5>3 DEF j
      <4> QED BY <1>1, <4>1
    <3> HIDE DEF A
    <3>8. \A i \in Nat : i \in A
      BY <3>6, <3>7, SetInduction
    <3>9. n - 1 \in Nat /\ (n - 1) + 1 = n /\ n <= n
      BY <1>1, <2>2
    <3>10. flatten[n] = r[n]
      <4>1. n - 1 \in A
        BY <3>8, <3>9
      <4> QED BY <3>9, <4>1 DEF A
    <3> QED BY <1>1, <2>2, <3>1, <3>10 DEF r
  <2> QED BY <2>1, <2>2
<1> QED BY <1>8, <1>9 DEF n

\* What the first of them come to is the beginning of the whole.
LEMMA JoinsArePrefixes ==
  ASSUME NEW T, NEW s \in Seq(Seq(T)), NEW f, Joins(f, s, T),
         NEW m \in 0..Len(s), NEW n \in 0..Len(s), m <= n
  PROVE  Len(f[m]) <= Len(f[n]) /\ \A k \in 1..Len(f[m]) : f[n][k] = f[m][k]
<1>0. Len(s) \in Nat /\ \A i \in 1..Len(s) : s[i] \in Seq(T)
  BY LenProperties, ElementOfSeq
<1>1. /\ \A i \in Nat : f[i] \in Seq(T) /\ Len(f[i]) \in Nat
      /\ \A i \in 1..Len(s) : f[i] = f[i - 1] \o s[i]
  BY LenProperties DEF Joins
<1> DEFINE Begins(i) == Len(f[m]) <= Len(f[i]) /\ \A k \in 1..Len(f[m]) : f[i][k] = f[m][k]
           A         == {d \in Nat : m + d <= Len(s) => Begins(m + d)}
<1>2. 0 \in A
  <2>1. m + 0 = m /\ m \in Nat
    OBVIOUS
  <2> QED BY <1>1, <2>1
<1>3. ASSUME NEW d \in Nat, d \in A
      PROVE  d + 1 \in A
  <2> SUFFICES ASSUME m + (d + 1) <= Len(s)
               PROVE  Begins(m + (d + 1))
    OBVIOUS
  <2> DEFINE i == m + d
             x == f[i]
             y == s[i + 1]
  <2>1. i \in Nat /\ i + 1 \in 1..Len(s) /\ m + (d + 1) = i + 1 /\ (i + 1) - 1 = i /\ i <= Len(s)
    BY <1>0
  <2>2. Begins(i)
    BY <1>3, <2>1
  <2>3. f[i + 1] = x \o y /\ x \in Seq(T) /\ y \in Seq(T)
    BY <1>0, <1>1, <2>1
  <2> HIDE DEF i, x, y
  <2>4. /\ Len(x \o y) = Len(x) + Len(y) /\ Len(x) \in Nat /\ Len(y) \in Nat
        /\ \A k \in 1..Len(x) : (x \o y)[k] = x[k]
    BY <2>3, ConcatProperties, LenProperties
  <2>5. Len(f[m]) <= Len(x) /\ (\A k \in 1..Len(f[m]) : x[k] = f[m][k]) /\ Len(f[m]) \in Nat
    BY <1>1, <2>2 DEF x
  <2>6. Len(f[m]) <= Len(x \o y) /\ \A k \in 1..Len(f[m]) : (x \o y)[k] = f[m][k]
    <3>1. \A k \in 1..Len(f[m]) : k \in 1..Len(x)
      BY <2>4, <2>5
    <3>2. Len(f[m]) <= Len(x) + Len(y)
      BY <2>4, <2>5
    <3> QED BY <2>4, <2>5, <3>1, <3>2
  <2>7. Begins(i + 1)
    BY <2>3, <2>6
  <2> QED BY <2>1, <2>7
<1> HIDE DEF A
<1>4. \A d \in Nat : d \in A
  BY <1>2, <1>3, SetInduction
<1>5. n - m \in Nat /\ m + (n - m) = n /\ n <= Len(s)
  BY <1>0
<1>6. n - m \in A
  BY <1>4, <1>5
<1>7. Begins(n)
  <2> HIDE DEF Begins
  <2> QED BY <1>5, <1>6 DEF A
<1> QED BY <1>7

\* One of the sequences goes on as the other does.
Agree(x, y) == \A k \in 1..Len(x) : k \in 1..Len(y) => x[k] = y[k]

\* The part after the first i is in the whole w after these.
Places(f, s, i, w) ==
  /\ f[i + 1] = f[i] \o s[i + 1]
  /\ Len(f[i]) \in Nat /\ Len(s[i + 1]) \in Nat
  /\ Len(f[i]) + Len(s[i + 1]) <= Len(w)
  /\ \A k \in 1..Len(s[i + 1]) : w[Len(f[i]) + k] = s[i + 1][k]

LEMMA PartOfWhole ==
  ASSUME NEW T, NEW s \in Seq(Seq(T)), NEW f, Joins(f, s, T), NEW i \in Nat, i + 1 \in 1..Len(s)
  PROVE  Places(f, s, i, f[Len(s)])
<1> DEFINE n == Len(s)
           x == f[i]
           y == s[i + 1]
<1>1. n \in Nat /\ y \in Seq(T) /\ x \in Seq(T)
  BY LenProperties, ElementOfSeq DEF Joins
<1>2. (i + 1) - 1 = i /\ i + 1 \in 1..n
  OBVIOUS
<1>3. f[i + 1] = x \o y
  BY <1>2 DEF Joins
<1>4. /\ Len(x \o y) = Len(x) + Len(y) /\ Len(x) \in Nat /\ Len(y) \in Nat
      /\ \A k \in 1..(Len(x) + Len(y)) :
           (x \o y)[k] = IF k <= Len(x) THEN x[k] ELSE y[k - Len(x)]
  BY <1>1, ConcatProperties, LenProperties
<1>5. i + 1 \in 0..n /\ n \in 0..n /\ i + 1 <= n
  BY <1>1, <1>2
<1>6. Len(f[i + 1]) <= Len(f[n]) /\ \A k \in 1..Len(f[i + 1]) : f[n][k] = f[i + 1][k]
  <2> DEFINE m == i + 1
  <2>1. m \in 0..Len(s) /\ n \in 0..Len(s) /\ m <= n
    BY <1>5
  <2> HIDE DEF m
  <2>2. Len(f[m]) <= Len(f[n]) /\ \A k \in 1..Len(f[m]) : f[n][k] = f[m][k]
    BY <2>1, JoinsArePrefixes
  <2> QED BY <2>2 DEF m
<1> HIDE DEF x, y, n
<1>7. ASSUME NEW k \in 1..Len(y)
      PROVE  f[n][Len(x) + k] = y[k]
  <2>1. Len(x) + k \in 1..(Len(x) + Len(y)) /\ ~(Len(x) + k <= Len(x)) /\ (Len(x) + k) - Len(x) = k
    BY <1>4
  <2>2. (x \o y)[Len(x) + k] = y[k]
    BY <1>4, <2>1
  <2> QED BY <1>3, <1>4, <1>6, <2>1, <2>2
<1>8. Len(x) + Len(y) <= Len(f[n])
  BY <1>3, <1>4, <1>6
<1> QED BY <1>3, <1>4, <1>7, <1>8 DEF x, y, n, Places

\* Two codes whose words are not empty, and none of which starts another, are equal
\* when what they come to is.
LEMMA DecodedOnce ==
  ASSUME NEW T, NEW a \in Seq(Seq(T)), NEW b \in Seq(Seq(T)),
         FlattenSeq(a) = FlattenSeq(b),
         \A i \in 1..Len(a) : a[i] # <<>>,
         \A i \in 1..Len(b) : b[i] # <<>>,
         \A i \in 1..Len(a) : i \in 1..Len(b) /\ Agree(a[i], b[i]) => a[i] = b[i]
  PROVE  Len(a) = Len(b) /\ \A i \in 1..Len(a) : a[i] = b[i]
<1>1. PICK f : Joins(f, a, T) /\ FlattenSeq(a) = f[Len(a)]
  BY Flattening
<1>2. PICK g : Joins(g, b, T) /\ FlattenSeq(b) = g[Len(b)]
  BY Flattening
<1> DEFINE w == FlattenSeq(a)
<1>3. /\ Len(a) \in Nat /\ \A i \in 1..Len(a) : a[i] \in Seq(T)
      /\ Len(b) \in Nat /\ \A i \in 1..Len(b) : b[i] \in Seq(T)
  BY LenProperties, ElementOfSeq
<1>4. w = f[Len(a)] /\ w = g[Len(b)]
  BY <1>1, <1>2
<1> HIDE DEF w
<1>5. f[0] = <<>> /\ g[0] = <<>>
  BY <1>1, <1>2 DEF Joins
<1>6. ASSUME NEW i \in Nat, i + 1 \in 1..Len(a)
      PROVE  Places(f, a, i, w)
  BY <1>1, <1>4, <1>6, PartOfWhole
<1>7. ASSUME NEW i \in Nat, i + 1 \in 1..Len(b)
      PROVE  Places(g, b, i, w)
  BY <1>2, <1>4, <1>7, PartOfWhole
<1> DEFINE A == {i \in Nat : i <= Len(a) /\ i <= Len(b)
                   => f[i] = g[i] /\ \A j \in 1..i : a[j] = b[j]}
<1>8. 0 \in A
  BY <1>5
<1>9. ASSUME NEW i \in Nat, i \in A
      PROVE  i + 1 \in A
  <2> SUFFICES ASSUME i + 1 <= Len(a), i + 1 <= Len(b)
               PROVE  f[i + 1] = g[i + 1] /\ \A j \in 1..(i + 1) : a[j] = b[j]
    OBVIOUS
  <2>1. i + 1 \in 1..Len(a) /\ i + 1 \in 1..Len(b) /\ i <= Len(a) /\ i <= Len(b)
    BY <1>3
  <2>2. f[i] = g[i] /\ \A j \in 1..i : a[j] = b[j]
    BY <1>9, <2>1
  <2>3. \A k \in 1..Len(a[i + 1]) : w[Len(f[i]) + k] = a[i + 1][k]
    BY <1>6, <2>1 DEF Places
  <2>4. \A k \in 1..Len(b[i + 1]) : w[Len(g[i]) + k] = b[i + 1][k]
    BY <1>7, <2>1 DEF Places
  <2>5. Agree(a[i + 1], b[i + 1])
    BY <2>2, <2>3, <2>4 DEF Agree
  <2>6. a[i + 1] = b[i + 1]
    BY <2>1, <2>5
  <2>7. f[i + 1] = f[i] \o a[i + 1] /\ g[i + 1] = g[i] \o b[i + 1]
    BY <1>6, <1>7, <2>1 DEF Places
  <2>8. \A j \in 1..(i + 1) : j \in 1..i \/ j = i + 1
    OBVIOUS
  <2>9. f[i + 1] = g[i + 1]
    BY <2>2, <2>6, <2>7
  <2> QED BY <2>2, <2>6, <2>8, <2>9
<1> HIDE DEF A
<1>10. \A i \in Nat : i \in A
  BY <1>8, <1>9, SetInduction
<1>11. \A i \in Nat : i <= Len(a) /\ i <= Len(b) => f[i] = g[i] /\ \A j \in 1..i : a[j] = b[j]
  BY <1>10 DEF A
<1>12. ~(Len(a) < Len(b))
  <2> SUFFICES ASSUME Len(a) < Len(b)
               PROVE  FALSE
    OBVIOUS
  <2> DEFINE i == Len(a)
  <2>1. i \in Nat /\ i + 1 \in 1..Len(b) /\ i <= Len(a) /\ i <= Len(b)
    BY <1>3
  <2>2. g[i] = w
    BY <1>4, <1>11, <2>1
  <2>3. Len(g[i]) \in Nat /\ Len(b[i + 1]) \in Nat /\ Len(g[i]) + Len(b[i + 1]) <= Len(w)
    BY <1>7, <2>1 DEF Places
  <2>4. b[i + 1] \in Seq(T) /\ b[i + 1] # <<>>
    BY <1>3, <2>1
  <2>5. Len(b[i + 1]) # 0
    BY <2>4, EmptySeq
  <2> QED BY <2>2, <2>3, <2>5
<1>13. ~(Len(b) < Len(a))
  <2> SUFFICES ASSUME Len(b) < Len(a)
               PROVE  FALSE
    OBVIOUS
  <2> DEFINE i == Len(b)
  <2>1. i \in Nat /\ i + 1 \in 1..Len(a) /\ i <= Len(a) /\ i <= Len(b)
    BY <1>3
  <2>2. f[i] = w
    BY <1>4, <1>11, <2>1
  <2>3. Len(f[i]) \in Nat /\ Len(a[i + 1]) \in Nat /\ Len(f[i]) + Len(a[i + 1]) <= Len(w)
    BY <1>6, <2>1 DEF Places
  <2>4. a[i + 1] \in Seq(T) /\ a[i + 1] # <<>>
    BY <1>3, <2>1
  <2>5. Len(a[i + 1]) # 0
    BY <2>4, EmptySeq
  <2> QED BY <2>2, <2>3, <2>5
<1>14. Len(a) = Len(b)
  BY <1>3, <1>12, <1>13
<1>15. Len(a) <= Len(a) /\ Len(a) <= Len(b)
  BY <1>3, <1>14
<1>16. \A j \in 1..Len(a) : a[j] = b[j]
  BY <1>3, <1>11, <1>15
<1> QED BY <1>14, <1>16

-----------------------------------------------------------------------------
\* Strings.

\* The characters in the text between the quotes.
TextChars == Chars \cup {"u2028"}

LEMMA Escapes ==
  ASSUME NEW c \in Chars
  PROVE  /\ Escaped(c) = ReferenceEscape(c)
         /\ c # "separator" => EscapedByLibrary(c) = ReferenceEscape(c)
         /\ EscapedByLibrary(c) \in Seq(TextChars) /\ EscapedByLibrary(c) # <<>>
         /\ ReferenceEscape(c) \in Seq(TextChars) /\ ReferenceEscape(c) # <<>>
<1>1. CASE c = "n"
  BY <1>1 DEF Escaped, EscapedByLibrary, ReferenceEscape, TextChars, Chars
<1>2. CASE c = "\\"
  BY <1>2 DEF Escaped, EscapedByLibrary, ReferenceEscape, TextChars, Chars
<1>3. CASE c = "newline"
  BY <1>3 DEF Escaped, EscapedByLibrary, ReferenceEscape, TextChars, Chars
<1>4. CASE c = "separator"
  BY <1>4 DEF Escaped, EscapedByLibrary, ReferenceEscape, TextChars, Chars
<1> QED BY <1>1, <1>2, <1>3, <1>4 DEF Chars

LEMMA ShortWords ==
  ASSUME NEW p, NEW q
  PROVE  /\ Len(<<p>>) = 1 /\ <<p>>[1] = p
         /\ Len(<<p, q>>) = 2 /\ <<p, q>>[1] = p /\ <<p, q>>[2] = q
OBVIOUS

\* No escape starts another, and none that the verifier writes is the reference's for
\* another character; the one for a separator is not even that of a separator.
LEMMA EscapesDiffer ==
  ASSUME NEW c \in Chars, NEW d \in Chars, NEW x,
         x \in {EscapedByLibrary(c), ReferenceEscape(c)}, Agree(x, ReferenceEscape(d))
  PROVE  c = d /\ x = ReferenceEscape(d)
<1> DEFINE y == ReferenceEscape(d)
<1>1. /\ c = "n" => x = <<"n">>
      /\ c = "\\" => x = <<"\\", "\\">>
      /\ c = "newline" => x = <<"\\", "n">>
      /\ c = "separator" => x \in {<<"\\", "u2028">>, <<"separator">>}
  BY DEF EscapedByLibrary, Escaped, ReferenceEscape
<1>2. /\ d = "n" => y = <<"n">>
      /\ d = "\\" => y = <<"\\", "\\">>
      /\ d = "newline" => y = <<"\\", "n">>
      /\ d = "separator" => y = <<"separator">>
  BY DEF ReferenceEscape
<1> HIDE DEF y
<1>3. /\ 1 \in 1..Len(x) /\ 1 \in 1..Len(y)
      /\ c \in {"\\", "newline"} => 2 \in 1..Len(x)
      /\ d \in {"\\", "newline"} => 2 \in 1..Len(y)
      /\ x = <<"\\", "u2028">> => 2 \in 1..Len(x)
  <2>1. /\ Len(x) \in {1, 2} /\ (c \in {"\\", "newline"} => Len(x) = 2)
        /\ x = <<"\\", "u2028">> => Len(x) = 2
    BY <1>1, ShortWords DEF Chars
  <2>2. Len(y) \in {1, 2} /\ (d \in {"\\", "newline"} => Len(y) = 2)
    BY <1>2, ShortWords DEF Chars
  <2>3. 1 \in 1..1 /\ 1 \in 1..2 /\ 2 \in 1..2
    OBVIOUS
  <2> QED BY <2>1, <2>2, <2>3
<1>4. x[1] = y[1] /\ (2 \in 1..Len(x) /\ 2 \in 1..Len(y) => x[2] = y[2])
  BY <1>3 DEF Agree, y
<1>5. /\ c = "n" => x[1] = "n"
      /\ c = "\\" => x[1] = "\\" /\ x[2] = "\\"
      /\ c = "newline" => x[1] = "\\" /\ x[2] = "n"
      /\ c = "separator" => x[1] \in {"separator", "\\"}
      /\ x = <<"\\", "u2028">> => x[1] = "\\" /\ x[2] = "u2028"
  BY <1>1, ShortWords
<1>6. /\ d = "n" => y[1] = "n"
      /\ d = "\\" => y[1] = "\\" /\ y[2] = "\\"
      /\ d = "newline" => y[1] = "\\" /\ y[2] = "n"
      /\ d = "separator" => y[1] = "separator"
  BY <1>2
<1>7. x # <<"\\", "u2028">>
  BY <1>3, <1>4, <1>5, <1>6 DEF Chars
<1>8. c = d
  BY <1>1, <1>3, <1>4, <1>5, <1>6, <1>7 DEF Chars
<1>9. x = y
  BY <1>1, <1>2, <1>7, <1>8 DEF Chars
<1> QED BY <1>8, <1>9 DEF y

\* Strings whose escapes, one after the other, come to the same are the same; x writes
\* the escapes of the one, the reference those of the other.
LEMMA EscapedOnce ==
  ASSUME NEW a \in Seq(Chars), NEW b \in Seq(Chars), NEW x,
         \A c \in Chars : x[c] \in {EscapedByLibrary(c), ReferenceEscape(c)},
         FlattenSeq([i \in DOMAIN a |-> x[a[i]]])
           = FlattenSeq([i \in DOMAIN b |-> ReferenceEscape(b[i])])
  PROVE  a = b
<1> DEFINE s == [i \in DOMAIN a |-> x[a[i]]]
           t == [i \in DOMAIN b |-> ReferenceEscape(b[i])]
<1>1. /\ Len(a) \in Nat /\ DOMAIN a = 1..Len(a) /\ \A i \in 1..Len(a) : a[i] \in Chars
      /\ Len(b) \in Nat /\ DOMAIN b = 1..Len(b) /\ \A i \in 1..Len(b) : b[i] \in Chars
  BY LenProperties, ElementOfSeq
<1>2. /\ \A i \in 1..Len(a) : s[i] = x[a[i]] /\ s[i] \in Seq(TextChars) /\ s[i] # <<>>
      /\ \A i \in 1..Len(b) : t[i] = ReferenceEscape(b[i])
                              /\ t[i] \in Seq(TextChars) /\ t[i] # <<>>
  BY <1>1, Escapes
<1>3. s \in Seq(Seq(TextChars)) /\ Len(s) = Len(a) /\ t \in Seq(Seq(TextChars)) /\ Len(t) = Len(b)
  <2> DEFINE U == Seq(TextChars)
  <2>1. s \in [1..Len(a) -> U] /\ t \in [1..Len(b) -> U]
    BY <1>1, <1>2
  <2> HIDE DEF s, t, U
  <2>2. s \in Seq(U) /\ t \in Seq(U) /\ Len(s) = Len(a) /\ Len(t) = Len(b)
    BY <1>1, <2>1, FunctionIsSeq
  <2> QED BY <2>2 DEF U
<1>4. FlattenSeq(s) = FlattenSeq(t)
  OBVIOUS
<1> HIDE DEF s, t
<1>5. ASSUME NEW i \in 1..Len(s), i \in 1..Len(t), Agree(s[i], t[i])
      PROVE  a[i] = b[i] /\ s[i] = t[i]
  <2>1. /\ a[i] \in Chars /\ b[i] \in Chars
        /\ s[i] \in {EscapedByLibrary(a[i]), ReferenceEscape(a[i])}
        /\ t[i] = ReferenceEscape(b[i])
    BY <1>1, <1>2, <1>3, <1>5
  <2> QED BY <1>5, <2>1, EscapesDiffer
<1>6. Len(s) = Len(t) /\ \A i \in 1..Len(s) : s[i] = t[i]
  <2>1. (\A i \in 1..Len(s) : s[i] # <<>>) /\ \A i \in 1..Len(t) : t[i] # <<>>
    BY <1>2, <1>3
  <2>2. \A i \in 1..Len(s) : i \in 1..Len(t) /\ Agree(s[i], t[i]) => s[i] = t[i]
    BY <1>5
  <2> QED BY <1>3, <1>4, <2>1, <2>2, DecodedOnce
<1>7. Len(a) = Len(b) /\ \A i \in 1..Len(a) : a[i] = b[i]
  <2>1. \A i \in 1..Len(s) : Agree(s[i], t[i])
    BY <1>6 DEF Agree
  <2> QED BY <1>3, <1>5, <1>6, <2>1
<1> QED BY <1>7, SeqEqual

\* What is written for a string tells it from others.
LEMMA StringsDiffer ==
  ASSUME NEW a \in Seq(Chars), NEW b \in Seq(Chars),
         ReferenceString(b) \in {marshalString(a), encodeString(a)}
  PROVE  a = b
<1>1. DOMAIN a = 1..Len(a) /\ \A i \in DOMAIN a : a[i] \in Chars
  BY LenProperties, ElementOfSeq
<1> DEFINE t == [i \in DOMAIN b |-> ReferenceEscape(b[i])]
<1>2. ReferenceString(b).quoted = FlattenSeq(t)
  BY DEF ReferenceString, Quoted
<1> HIDE DEF t
<1>3. CASE ReferenceString(b) = marshalString(a)
  <2> DEFINE x == [c \in Chars |-> EscapedByLibrary(c)]
  <2>1. [i \in DOMAIN a |-> EscapedByLibrary(a[i])] = [i \in DOMAIN a |-> x[a[i]]]
    BY <1>1
  <2>2. marshalString(a).quoted = FlattenSeq([i \in DOMAIN a |-> x[a[i]]])
    BY <2>1 DEF marshalString, Quoted
  <2>3. \A c \in Chars : x[c] \in {EscapedByLibrary(c), ReferenceEscape(c)}
    OBVIOUS
  <2> HIDE DEF x
  <2> QED BY <1>2, <1>3, <2>2, <2>3, EscapedOnce DEF t
<1>4. CASE ReferenceString(b) = encodeString(a)
  <2> DEFINE x == [c \in Chars |-> ReferenceEscape(c)]
  <2>1. [i \in DOMAIN a |-> Escaped(a[i])] = [i \in DOMAIN a |-> x[a[i]]]
    BY <1>1, Escapes
  <2>2. encodeString(a).quoted = FlattenSeq([i \in DOMAIN a |-> x[a[i]]])
    BY <2>1 DEF encodeString, Quoted
  <2>3. \A c \in Chars : x[c] \in {EscapedByLibrary(c), ReferenceEscape(c)}
    OBVIOUS
  <2> HIDE DEF x
  <2> QED BY <1>2, <1>4, <2>2, <2>3, EscapedOnce DEF t
<1> QED BY <1>3, <1>4

\* The bundle's encoder writes what the reference does, the Legal-Pack's when there
\* is no separator.
LEMMA StringsKept ==
  ASSUME NEW a \in Seq(Chars)
  PROVE  /\ encodeString(a) = ReferenceString(a)
         /\ "separator" \notin ToSet(a) => marshalString(a) = ReferenceString(a)
<1>1. DOMAIN a = 1..Len(a) /\ \A i \in 1..Len(a) : a[i] \in Chars
  BY LenProperties, ElementOfSeq
<1>2. [i \in DOMAIN a |-> Escaped(a[i])] = [i \in DOMAIN a |-> ReferenceEscape(a[i])]
  BY <1>1, Escapes
<1>3. encodeString(a) = ReferenceString(a)
  BY <1>2 DEF encodeString, ReferenceString
<1>4. ASSUME "separator" \notin ToSet(a)
      PROVE  marshalString(a) = ReferenceString(a)
  <2>1. \A i \in DOMAIN a : a[i] # "separator"
    BY <1>4 DEF ToSet
  <2>2. [i \in DOMAIN a |-> EscapedByLibrary(a[i])] = [i \in DOMAIN a |-> ReferenceEscape(a[i])]
    BY <1>1, <2>1, Escapes
  <2> QED BY <2>2 DEF marshalString, ReferenceString
<1> QED BY <1>3, <1>4

-----------------------------------------------------------------------------
\* Values.

IsTyped(v) == IsStringValue(v) \/ IsNumberValue(v)

LEMMA ValuesAreTyped ==
  ASSUME NEW v, IsValue(v)
  PROVE  IsTyped(v)
<1>1. CASE v = Integer(ArtifactCount)
  <2>1. v = [form |-> "integer", halves |-> 2]
    BY <1>1 DEF Integer, ArtifactCount
  <2>2. v.halves = 2 /\ IsNumber(v) /\ v.halves \div 2 = 1
    BY <2>1 DEF IsNumber
  <2> QED BY <1>1, <2>2 DEF IsTyped, IsNumberValue, ArtifactCount
<1> QED BY <1>1, DocumentAssumption DEF IsValue, IsTyped

LEMMA TextsDiffer ==
  ASSUME NEW n, NEW m, NEW t
  PROVE  /\ Digits(n) = Digits(m) => n = m
         /\ Digits(n) # Quoted(t) /\ Digits(n) # Refused /\ Quoted(t) # Refused
<1>1. Digits(n).digits = n /\ Digits(m).digits = m
  BY DEF Digits
<1>2. DOMAIN Digits(n) = {"digits"} /\ DOMAIN Quoted(t) = {"quoted"} /\ DOMAIN Refused = {"refused"}
  BY DEF Digits, Quoted, Refused
<1> QED BY <1>1, <1>2

LEMMA StringValues ==
  ASSUME NEW v, IsStringValue(v)
  PROVE  /\ IsString(v) /\ ~IsNumber(v) /\ v.chars \in Seq(Chars) /\ v = String(v.chars)
         /\ Meaning(v) = v
BY DEF IsStringValue, IsString, IsNumber, String, Meaning

LEMMA NumberValues ==
  ASSUME NEW v, IsNumberValue(v)
  PROVE  /\ IsNumber(v) /\ ~IsString(v) /\ v.halves \in Int
         /\ v.form \in {"integer", "decimal"}
         /\ v.form = "integer" =>
              /\ v = Integer(v.halves \div 2) /\ v.halves = 2 * (v.halves \div 2)
              /\ Meaning(v) = v
         /\ v.form = "decimal" => Meaning(v) = [form |-> "integer", halves |-> Rounded(v.halves)]
         /\ Meaning(v).halves = IF v.form = "integer" THEN v.halves ELSE Rounded(v.halves)
<1>1. IsNumber(v) /\ v.halves \in Int /\ v \in {Integer(v.halves \div 2), Decimal(v.halves)}
  BY DEF IsNumberValue
<1>2. DOMAIN v = {"form", "halves"}
  BY <1>1 DEF Integer, Decimal
<1>3. ~IsString(v)
  BY <1>2 DEF IsString
<1>4. CASE v = Integer(v.halves \div 2)
  <2>1. v.form = "integer" /\ v.halves = 2 * (v.halves \div 2)
    BY <1>4 DEF Integer
  <2>2. Meaning(v) = v
    BY <2>1 DEF Meaning
  <2> QED BY <1>1, <1>3, <1>4, <2>1, <2>2
<1>5. CASE v = Decimal(v.halves)
  <2>1. v.form = "decimal"
    BY <1>5 DEF Decimal
  <2>2. Meaning(v) = [form |-> "integer", halves |-> Rounded(v.halves)]
    BY <1>1, <2>1 DEF Meaning
  <2>3. Meaning(v).halves = Rounded(v.halves)
    BY <2>2
  <2> QED BY <1>1, <1>3, <2>1, <2>2, <2>3
<1> QED BY <1>1, <1>4, <1>5

IsRoute == route \in {"manifest", "event", "entry"}

\* What stands for a string in the texts.
LEMMA StringTexts ==
  ASSUME NEW v, IsStringValue(v), IsRoute
  PROVE  /\ ReferenceOf(v) = ReferenceString(v.chars)
         /\ Written(v) = IF route = "entry" THEN marshalString(v.chars) ELSE encodeString(v.chars)
<1>1. IsString(v) /\ ~IsNumber(v)
  BY StringValues
<1>2. ReferenceOf(v) = ReferenceString(v.chars)
  BY <1>1 DEF ReferenceOf, LegalReference, Reference
<1>3. marshalViaReflection(v, platform) = encodeString(v.chars)
  BY <1>1 DEF marshalViaReflection
<1>4. marshalAny(v, platform) = encodeString(v.chars)
  BY <1>1 DEF marshalAny
<1>5. Marshal(v) = marshalString(v.chars)
  BY <1>1 DEF Marshal
<1> QED BY <1>2, <1>3, <1>4, <1>5 DEF Written, IsRoute

\* The digits of an integer float64.
FloatDigits(n) ==
  IF route = "event" /\ Magnitude(2 * n) < 2 * Pow10[ExponentDigits]
  THEN ShortestDecimal(n)
  ELSE ToInt64(n, platform)

LEMMA SafeDigits ==
  ASSUME NEW n \in Int
  PROVE  /\ FloatDigits(n) \in Int
         /\ Magnitude(n) < Pow2[Precision] => FloatDigits(n) = n
         /\ Pow2[Precision] <= Magnitude(n) => Pow2[Precision] <= Magnitude(FloatDigits(n))
BY SafeIntegers, ShortestOfSafe DEF FloatDigits

\* What stands for a number.
LEMMA NumberTexts ==
  ASSUME NEW v, IsNumberValue(v), IsRoute
  PROVE  /\ v.form = "integer" => ReferenceOf(v) = Verbatim(v)
         /\ v.form = "decimal" =>
              ReferenceOf(v) =
                IF route = "entry" \/ OutOfRange(v.halves) \/ Rounded(v.halves) % 2 # 0 THEN Refused
                ELSE Digits(Rounded(v.halves) \div 2)
         /\ v.form = "integer" /\ route # "event" => Written(v) = Verbatim(v)
         /\ route = "event" \/ (v.form = "decimal" /\ route = "manifest") =>
              Written(v) =
                IF (route = "manifest" /\ OutOfRange(v.halves)) \/ Rounded(v.halves) % 2 # 0 THEN Refused
                ELSE Digits(FloatDigits(Rounded(v.halves) \div 2))
         /\ v.form = "decimal" /\ route = "entry" => Written(v) = Refused
<1> DEFINE r == Rounded(v.halves)
           n == r \div 2
<1>1. IsNumber(v) /\ ~IsString(v) /\ v.halves \in Int /\ v.form \in {"integer", "decimal"}
  BY NumberValues
<1>2. r \in Int
  BY <1>1, RoundedNumber
<1>3. marshalAny(v, platform) =
        IF v.form = "integer" THEN Verbatim(v)
        ELSE IF OutOfRange(v.halves) \/ r % 2 # 0 THEN Refused
        ELSE Digits(ToInt64(n, platform))
  <2> HIDE DEF n
  <2>1. r % 2 # 0 <=> ~(r % 2 = 0)
    OBVIOUS
  <2> QED BY <1>1, <2>1 DEF marshalAny, ThroughFloat, marshalFloat, n
<1>4. marshalViaReflection(v, platform) =
        IF r % 2 # 0 THEN Refused
        ELSE IF Magnitude(r) < 2 * Pow10[ExponentDigits] THEN Digits(ShortestDecimal(n))
        ELSE Digits(ToInt64(n, platform))
  BY <1>1 DEF marshalViaReflection, marshalFloat
<1>5. Marshal(v) = IF v.form = "integer" THEN Verbatim(v) ELSE Refused
  BY <1>1 DEF Marshal
<1>6. Reference(v) =
        IF v.form = "integer" THEN Verbatim(v)
        ELSE IF OutOfRange(v.halves) \/ r % 2 # 0 THEN Refused
        ELSE Digits(n)
  BY <1>1 DEF Reference
<1>7. ReferenceOf(v) =
        IF route = "entry" /\ v.form # "integer" THEN Refused ELSE Reference(v)
  BY <1>1 DEF ReferenceOf, LegalReference
<1>8. Written(v) = CASE route = "manifest" -> marshalAny(v, platform)
                     [] route = "event"    -> marshalViaReflection(v, platform)
                     [] route = "entry"    -> Marshal(v)
  BY DEF Written
<1>9. /\ v.form = "integer" => ReferenceOf(v) = Verbatim(v)
      /\ v.form = "decimal" =>
           ReferenceOf(v) =
             IF route = "entry" \/ OutOfRange(v.halves) \/ r % 2 # 0 THEN Refused
             ELSE Digits(n)
  BY <1>6, <1>7
<1>10. /\ route = "manifest" => Written(v) = marshalAny(v, platform)
       /\ route = "event" => Written(v) = marshalViaReflection(v, platform)
       /\ route = "entry" => Written(v) = Marshal(v)
  BY <1>8
<1>11. r % 2 = 0 => r = 2 * n
  BY <1>2
<1> HIDE DEF r, n
<1>12. ASSUME route = "event"
       PROVE  Written(v) = IF r % 2 # 0 THEN Refused ELSE Digits(FloatDigits(n))
  BY <1>4, <1>10, <1>11, <1>12 DEF FloatDigits
<1>13. ASSUME v.form = "decimal", route = "manifest"
       PROVE  Written(v) = IF OutOfRange(v.halves) \/ r % 2 # 0 THEN Refused
                           ELSE Digits(FloatDigits(n))
  BY <1>3, <1>10, <1>13 DEF FloatDigits
<1> QED BY <1>1, <1>3, <1>5, <1>9, <1>10, <1>12, <1>13 DEF IsRoute, r, n

\* A number in the text that the reference writes for a safe one is half of what this
\* says.
LEMMA SafeTexts ==
  ASSUME NEW v, IsNumberValue(v), IsRoute, IsSafe(v), ReferenceOf(v) # Refused
  PROVE  \E m \in Int : /\ Magnitude(m) < Pow2[Precision]
                        /\ Meaning(v) = Integer(m)
                        /\ ReferenceOf(v) = Digits(m)
<1>1. /\ IsNumber(v) /\ v.halves \in Int /\ v.form \in {"integer", "decimal"}
      /\ Meaning(v).halves = IF v.form = "integer" THEN v.halves ELSE Rounded(v.halves)
      /\ v.form = "integer" => /\ v = Integer(v.halves \div 2) /\ v.halves = 2 * (v.halves \div 2)
                               /\ Meaning(v) = v
      /\ v.form = "decimal" => Meaning(v) = [form |-> "integer", halves |-> Rounded(v.halves)]
  BY NumberValues
<1>2. Magnitude(Meaning(v).halves) < Pow2[Precision + 1]
  BY <1>1 DEF IsSafe
<1>3. Pow2[Precision] \in Nat /\ Pow2[Precision + 1] = 2 * Pow2[Precision]
  BY WidthAssumption, PowersOfTwo
<1>4. ASSUME NEW k \in Int, Magnitude(2 * k) < Pow2[Precision + 1]
      PROVE  Magnitude(k) < Pow2[Precision]
  BY <1>3, <1>4 DEF Magnitude
<1>5. CASE v.form = "integer"
  <2> DEFINE k == v.halves \div 2
  <2>1. k \in Int /\ v.halves = 2 * k /\ Meaning(v) = Integer(k) /\ Meaning(v).halves = v.halves
    BY <1>1, <1>5
  <2>2. ReferenceOf(v) = Digits(k)
    BY <1>5, NumberTexts DEF Verbatim
  <2> HIDE DEF k
  <2>3. Magnitude(k) < Pow2[Precision]
    BY <1>2, <1>4, <2>1
  <2> QED BY <2>1, <2>2, <2>3
<1>6. CASE v.form = "decimal"
  <2> DEFINE r == Rounded(v.halves)
             k == r \div 2
  <2>1. r \in Int
    BY <1>1, RoundedNumber
  <2>2. r % 2 = 0 /\ ReferenceOf(v) = Digits(k)
    BY <1>6, NumberTexts
  <2>3. Meaning(v) = [form |-> "integer", halves |-> r] /\ Meaning(v).halves = r
    BY <1>1, <1>6
  <2> HIDE DEF r
  <2>4. k \in Int /\ r = 2 * k
    BY <2>1, <2>2
  <2> HIDE DEF k
  <2>5. Meaning(v) = Integer(k)
    BY <2>3, <2>4 DEF Integer
  <2>6. Magnitude(k) < Pow2[Precision]
    BY <1>2, <1>4, <2>3, <2>4
  <2> QED BY <2>2, <2>4, <2>5, <2>6
<1> QED BY <1>1, <1>5, <1>6

\* Such a number is in range, and a float64 holds what it says.
LEMMA SafeFloats ==
  ASSUME NEW v, IsNumberValue(v), IsRoute, IsSafe(v), ReferenceOf(v) # Refused
  PROVE  /\ ~OutOfRange(v.halves)
         /\ \E m \in Int : /\ Magnitude(m) < Pow2[Precision]
                           /\ Rounded(v.halves) = 2 * m
                           /\ ReferenceOf(v) = Digits(m)
<1>1. /\ v.halves \in Int /\ v.form \in {"integer", "decimal"}
      /\ v.form = "integer" => v.halves = 2 * (v.halves \div 2) /\ Meaning(v) = v
      /\ v.form = "decimal" => Meaning(v) = [form |-> "integer", halves |-> Rounded(v.halves)]
  BY NumberValues
<1>2. PICK m \in Int : Magnitude(m) < Pow2[Precision] /\ Meaning(v) = Integer(m)
                       /\ ReferenceOf(v) = Digits(m)
  BY SafeTexts
<1>3. Meaning(v).halves = 2 * m
  BY <1>2 DEF Integer
<1>4. Pow2[Precision] \in Nat /\ Pow2[Precision + 1] = 2 * Pow2[Precision]
  BY WidthAssumption, PowersOfTwo
<1> DEFINE r == Rounded(v.halves)
<1>5. r = 2 * m
  <2>1. CASE v.form = "decimal"
    BY <1>1, <1>3, <2>1
  <2>2. CASE v.form = "integer"
    <3>1. v.halves = 2 * m
      BY <1>1, <1>3, <2>2
    <3>2. Magnitude(v.halves) < Pow2[Precision + 1] /\ v.halves % 2 = 0
      BY <1>2, <1>4, <3>1 DEF Magnitude
    <3>3. r = v.halves
      BY <1>1, <3>2, RoundedNumber
    <3> QED BY <3>1, <3>3
  <2> QED BY <1>1, <2>1, <2>2
<1>6. ~OutOfRange(v.halves)
  <2> HIDE DEF r
  <2>1. Magnitude(r) < Pow2[Precision + 1] /\ Magnitude(r) \in Nat
    BY <1>2, <1>4, <1>5 DEF Magnitude
  <2>2. 2 * Pow2[Precision + 1] <= Pow2[MaxExponent + 1]
    BY WidthAssumption, PowersGrow
  <2>3. Pow2[Precision + 1] \in Nat /\ Pow2[MaxExponent + 1] \in Nat
    BY WidthAssumption, PowersOfTwo
  <2> QED BY <2>1, <2>2, <2>3 DEF OutOfRange, r
<1> QED BY <1>2, <1>5, <1>6

\* A value whose text is the reference's for a safe one means the same.
LEMMA SameTextSameMeaning ==
  ASSUME NEW v, NEW w, IsTyped(v), IsTyped(w), IsRoute, IsSafe(v),
         Written(w) = ReferenceOf(v), Written(w) # Refused
  PROVE  Meaning(v) = Meaning(w)
<1>1. CASE IsStringValue(v)
  <2>1. ReferenceOf(v) = ReferenceString(v.chars)
    BY <1>1, StringTexts
  <2>2. ~IsNumberValue(w)
    <3> SUFFICES ASSUME IsNumberValue(w)
                 PROVE  FALSE
      OBVIOUS
    <3>1. w.form \in {"integer", "decimal"}
      BY NumberValues
    <3>2. Written(w) = Refused \/ \E n : Written(w) = Digits(n)
      BY <3>1, NumberTexts DEF Verbatim, IsRoute
    <3> QED BY <1>1, <2>1, <3>2, TextsDiffer DEF ReferenceString
  <2>3. IsStringValue(w)
    BY <2>2 DEF IsTyped
  <2>4. ReferenceString(v.chars) \in {marshalString(w.chars), encodeString(w.chars)}
    BY <2>1, <2>3, StringTexts
  <2>5. v.chars = w.chars
    BY <1>1, <2>3, <2>4, StringValues, StringsDiffer
  <2> QED BY <1>1, <2>3, <2>5, StringValues
<1>2. CASE IsNumberValue(v)
  <2>1. PICK m \in Int : Magnitude(m) < Pow2[Precision] /\ Meaning(v) = Integer(m)
                         /\ ReferenceOf(v) = Digits(m)
    BY <1>2, SafeTexts
  <2>2. IsNumberValue(w)
    <3> SUFFICES ASSUME IsStringValue(w)
                 PROVE  FALSE
      BY DEF IsTyped
    <3>1. Written(w) \in {marshalString(w.chars), encodeString(w.chars)}
      BY StringTexts
    <3> QED BY <2>1, <3>1, TextsDiffer DEF marshalString, encodeString
  <2>3. /\ w.halves \in Int /\ w.form \in {"integer", "decimal"}
        /\ w.form = "integer" => /\ w = Integer(w.halves \div 2) /\ w.halves = 2 * (w.halves \div 2)
                                 /\ Meaning(w) = w
        /\ w.form = "decimal" => Meaning(w) = [form |-> "integer", halves |-> Rounded(w.halves)]
    BY <2>2, NumberValues
  <2>4. CASE w.form = "integer" /\ route # "event"
    <3>1. Digits(w.halves \div 2) = Digits(m)
      BY <2>1, <2>2, <2>4, NumberTexts DEF Verbatim
    <3>2. w.halves \div 2 = m
      BY <3>1, TextsDiffer
    <3> QED BY <2>1, <2>3, <2>4, <3>2
  <2>5. CASE route = "event" \/ w.form = "decimal"
    <3> DEFINE r == Rounded(w.halves)
               k == r \div 2
    <3>1. Written(w) = Digits(FloatDigits(k)) /\ r % 2 = 0
      <4>1. route = "event" \/ (w.form = "decimal" /\ route = "manifest")
        BY <2>2, <2>5, NumberTexts DEF IsRoute
      <4> QED BY <2>2, <4>1, NumberTexts
    <3>2. r \in Int /\ Pow2[Precision] \in Nat /\ Pow2[Precision + 1] = 2 * Pow2[Precision]
      BY <2>3, RoundedNumber, WidthAssumption, PowersOfTwo
    <3>3. FloatDigits(k) = m
      BY <2>1, <3>1, TextsDiffer
    <3> HIDE DEF r
    <3>4. k \in Int /\ r = 2 * k
      BY <3>1, <3>2
    <3> HIDE DEF k
    <3>5. Magnitude(k) < Pow2[Precision]
      <4>1. Pow2[Precision] <= Magnitude(k) => Pow2[Precision] <= Magnitude(m)
        BY <3>3, <3>4, SafeDigits
      <4>2. Magnitude(k) \in Nat /\ Magnitude(m) \in Nat
        BY <3>4 DEF Magnitude
      <4> QED BY <2>1, <3>2, <4>1, <4>2
    <3>6. k = m
      BY <3>3, <3>4, <3>5, SafeDigits
    <3>7. CASE w.form = "decimal"
      <4>1. Meaning(w) = [form |-> "integer", halves |-> 2 * m]
        BY <2>3, <3>4, <3>6, <3>7 DEF r
      <4> QED BY <2>1, <4>1 DEF Integer
    <3>8. CASE w.form = "integer"
      <4>1. w.halves % 2 = 0 /\ Meaning(w) = Integer(w.halves \div 2)
        BY <2>3, <3>8
      <4>2. ~(Pow2[Precision + 1] <= Magnitude(w.halves))
        <5>1. Pow2[Precision + 1] <= Magnitude(w.halves) => Pow2[Precision + 1] <= Magnitude(r)
          BY <2>3, RoundedNumber DEF r
        <5>2. Magnitude(r) < Pow2[Precision + 1]
          BY <3>2, <3>4, <3>5 DEF Magnitude
        <5>3. Magnitude(r) \in Nat
          BY <3>2 DEF Magnitude
        <5> QED BY <3>2, <5>1, <5>2, <5>3
      <4>3. Magnitude(w.halves) < Pow2[Precision + 1]
        <5>1. Magnitude(w.halves) \in Nat
          BY <2>3 DEF Magnitude
        <5> QED BY <3>2, <4>2, <5>1
      <4>4. r = w.halves
        BY <2>3, <4>1, <4>3, RoundedNumber DEF r
      <4>5. w.halves \div 2 = m
        BY <3>4, <3>6, <4>4
      <4> QED BY <2>1, <4>1, <4>5
    <3> QED BY <2>3, <3>7, <3>8
  <2> QED BY <2>3, <2>4, <2>5
<1> QED BY <1>1, <1>2 DEF IsTyped

\* What the reference writes for a value that the encoder carries, the verifier
\* writes too, for a safe number or for an integer that it does not read as a float.
LEMMA SameText ==
  ASSUME NEW v, IsTyped(v), IsRoute, ReferenceOf(v) # Refused,
         route = "entry" => ~HasSeparator(v),
         IsSafe(v) \/ (route # "event" /\ (IsNumber(v) => v.form = "integer"))
  PROVE  Written(v) = ReferenceOf(v)
<1>1. CASE IsStringValue(v)
  <2>1. IsString(v) /\ v.chars \in Seq(Chars)
    BY <1>1, StringValues
  <2>2. route = "entry" => "separator" \notin ToSet(v.chars)
    BY <2>1 DEF HasSeparator
  <2>3. /\ encodeString(v.chars) = ReferenceString(v.chars)
        /\ "separator" \notin ToSet(v.chars) => marshalString(v.chars) = ReferenceString(v.chars)
    BY <2>1, StringsKept
  <2> QED BY <1>1, <2>2, <2>3, StringTexts
<1>2. CASE IsNumberValue(v)
  <2>1. /\ IsNumber(v) /\ v.halves \in Int /\ v.form \in {"integer", "decimal"}
        /\ v.form = "integer" => /\ v.halves = 2 * (v.halves \div 2) /\ Meaning(v) = v
        /\ v.form = "decimal" => Meaning(v) = [form |-> "integer", halves |-> Rounded(v.halves)]
    BY <1>2, NumberValues
  <2>2. CASE v.form = "integer" /\ route # "event"
    BY <1>2, <2>2, NumberTexts
  <2>3. CASE ~(v.form = "integer" /\ route # "event")
    <3>1. IsSafe(v)
      BY <2>1, <2>3
    <3> DEFINE r == Rounded(v.halves)
    <3>2. ~OutOfRange(v.halves)
      BY <1>2, <3>1, SafeFloats
    <3>3. PICK m \in Int : Magnitude(m) < Pow2[Precision] /\ r = 2 * m
                           /\ ReferenceOf(v) = Digits(m)
      BY <1>2, <3>1, SafeFloats
    <3>4. route = "event" \/ (v.form = "decimal" /\ route = "manifest")
      BY <1>2, <2>1, <2>3, NumberTexts DEF IsRoute
    <3>5. Written(v) = IF (route = "manifest" /\ OutOfRange(v.halves)) \/ r % 2 # 0 THEN Refused
                       ELSE Digits(FloatDigits(r \div 2))
      BY <1>2, <3>4, NumberTexts
    <3> HIDE DEF r
    <3>6. r % 2 = 0 /\ r \div 2 = m
      BY <3>3
    <3>7. FloatDigits(m) = m
      BY <3>3, SafeDigits
    <3> QED BY <3>2, <3>3, <3>5, <3>6, <3>7
  <2> QED BY <2>2, <2>3
<1> QED BY <1>1, <1>2 DEF IsTyped

\* Where no number goes through a float, texts tell strings and integers of any size
\* apart.
LEMMA ExactTexts ==
  ASSUME NEW v, NEW w, IsTyped(v), IsTyped(w), IsRoute, route # "event",
         IsNumber(v) => v.form = "integer", IsNumber(w) => w.form = "integer"
  PROVE  /\ Written(w) = ReferenceOf(v) => v = w
         /\ Written(v) # Refused /\ ReferenceOf(v) # Refused
<1>1. CASE IsStringValue(v)
  <2>1. /\ ReferenceOf(v) = ReferenceString(v.chars)
        /\ Written(v) \in {marshalString(v.chars), encodeString(v.chars)}
    BY <1>1, StringTexts
  <2>2. Written(v) # Refused /\ ReferenceOf(v) # Refused
    BY <2>1, TextsDiffer DEF ReferenceString, marshalString, encodeString
  <2>3. CASE IsStringValue(w)
    <3> SUFFICES ASSUME Written(w) = ReferenceOf(v)
                 PROVE  v = w
      BY <2>2
    <3>1. ReferenceString(v.chars) \in {marshalString(w.chars), encodeString(w.chars)}
      BY <2>1, <2>3, StringTexts
    <3> QED BY <1>1, <2>3, <3>1, StringValues, StringsDiffer
  <2>4. CASE IsNumberValue(w)
    <3>1. Written(w) = Digits(w.halves \div 2)
      BY <2>4, NumberTexts, NumberValues DEF Verbatim
    <3> QED BY <2>1, <2>2, <3>1, TextsDiffer DEF ReferenceString
  <2> QED BY <2>3, <2>4 DEF IsTyped
<1>2. CASE IsNumberValue(v)
  <2>1. ReferenceOf(v) = Digits(v.halves \div 2) /\ Written(v) = Digits(v.halves \div 2)
    BY <1>2, NumberTexts, NumberValues DEF Verbatim
  <2>2. Written(v) # Refused /\ ReferenceOf(v) # Refused
    BY <2>1, TextsDiffer
  <2>3. CASE IsStringValue(w)
    <3>1. Written(w) \in {marshalString(w.chars), encodeString(w.chars)}
      BY <2>3, StringTexts
    <3> QED BY <2>1, <2>2, <3>1, TextsDiffer DEF marshalString, encodeString
  <2>4. CASE IsNumberValue(w)
    <3>1. Written(w) = Digits(w.halves \div 2)
      BY <2>4, NumberTexts, NumberValues DEF Verbatim
    <3>2. v = Integer(v.halves \div 2) /\ w = Integer(w.halves \div 2)
      BY <1>2, <2>4, NumberValues
    <3>3. Digits(w.halves \div 2) = Digits(v.halves \div 2) => w.halves \div 2 = v.halves \div 2
      BY TextsDiffer
    <3> QED BY <2>1, <2>2, <3>1, <3>2, <3>3
  <2> QED BY <2>3, <2>4 DEF IsTyped
<1> QED BY <1>1, <1>2 DEF IsTyped

-----------------------------------------------------------------------------
\* The inductive invariant.

LEMMA IInvInit == Init => IInv
<1> SUFFICES ASSUME Init PROVE IInv
  OBVIOUS
<1>1. IsDocument(NoFields)
  BY DEF IsDocument, NoFields
<1>2. TypeOK
  BY <1>1, DocumentAssumption DEF Init, TypeOK, Verdicts, NoFields
<1> QED BY <1>2 DEF Init, IInv

\* What is hashed has no field that was not in the file.
LEMMA ParsedDocument ==
  ASSUME NEW doc, IsDocument(doc), IsRoute
  PROVE  /\ IsDocument(Parsed(doc))
         /\ DOMAIN Parsed(doc) \subseteq DOMAIN doc
         /\ \A f \in DOMAIN Parsed(doc) : Parsed(doc)[f] = doc[f]
<1>1. CASE route \in {"manifest", "event"}
  <2>1. Parsed(doc) = doc
    BY <1>1 DEF Parsed, ToMap
  <2> QED BY <2>1
<1>2. CASE route = "entry"
  <2>1. Parsed(doc) = computeSelfHash(doc)
    BY <1>2 DEF Parsed
  <2>2. /\ DOMAIN computeSelfHash(doc) \subseteq DOMAIN doc
        /\ \A f \in DOMAIN computeSelfHash(doc) : computeSelfHash(doc)[f] = doc[f]
    BY DEF computeSelfHash, Known
  <2> QED BY <2>1, <2>2 DEF IsDocument
<1> QED BY <1>1, <1>2 DEF IsRoute

LEMMA IInvNext == IInv /\ [Next]_vars => IInv'
<1> SUFFICES ASSUME IInv, [Next]_vars PROVE IInv'
  OBVIOUS
<1> USE DEF IInv
<1>1. CASE Seal
  <2>1. PICK n \in Names, v \in Values, note \in Names :
          \E doc \in {[name |-> n, inner |-> v],
                      [name |-> n, inner |-> v, note |-> note],
                      [name |-> n, inner |-> v, extra |-> v],
                      [name |-> n, inner |-> v, count |-> Integer(ArtifactCount)],
                      [name |-> n, inner |-> v, count |-> Integer(ArtifactCount), note |-> note]} :
            CanBeSealed(doc) /\ sealed' = doc /\ delivered' = doc
    BY <1>1 DEF Seal
  <2>2. /\ CanBeSealed(sealed') /\ delivered' = sealed'
        /\ sealed' \in {[name |-> n, inner |-> v],
                      [name |-> n, inner |-> v, note |-> note],
                      [name |-> n, inner |-> v, extra |-> v],
                      [name |-> n, inner |-> v, count |-> Integer(ArtifactCount)],
                      [name |-> n, inner |-> v, count |-> Integer(ArtifactCount), note |-> note]}
    BY <2>1
  <2> DEFINE doc == sealed'
             c   == Integer(ArtifactCount)
  <2>3. IsValue(n) /\ IsValue(v) /\ IsValue(note) /\ IsValue(c)
    BY DEF IsValue
  <2> HIDE DEF c
  <2>4. /\ DOMAIN doc \subseteq Fields
        /\ doc["name"] = n /\ doc["inner"] = v
        /\ "note" \in DOMAIN doc => doc["note"] = note
        /\ "extra" \in DOMAIN doc => doc["extra"] = v
        /\ "count" \in DOMAIN doc => doc["count"] = c
    <3>1. CASE doc = [name |-> n, inner |-> v]
      BY <3>1 DEF Fields
    <3>2. CASE doc = [name |-> n, inner |-> v, note |-> note]
      BY <3>2 DEF Fields
    <3>3. CASE doc = [name |-> n, inner |-> v, extra |-> v]
      BY <3>3 DEF Fields
    <3>4. CASE doc = [name |-> n, inner |-> v, count |-> c]
      BY <3>4 DEF Fields
    <3>5. CASE doc = [name |-> n, inner |-> v, count |-> c, note |-> note]
      BY <3>5 DEF Fields
    <3> QED BY <2>2, <3>1, <3>2, <3>3, <3>4, <3>5 DEF c
  <2>5. IsDocument(doc)
    BY <2>3, <2>4 DEF IsDocument, Fields
  <2>6. IsStringValue(n) /\ IsStringValue(note)
    BY DocumentAssumption
  <2>7. /\ UNCHANGED <<route, platform, alterations, parsed, verdict>>
        /\ phase = "seal" /\ phase' = "transit"
    BY <1>1 DEF Seal
  <2>8. parsed = NoFields
    BY <2>7
  <2>9. CanBeSealed(sealed)'
    BY <2>2, <2>7 DEF CanBeSealed, ReferenceOf
  <2>10. IsSealed(sealed)'
    <3>1. /\ IsStringValue(doc["name"])
          /\ "note" \in DOMAIN doc => IsStringValue(doc["note"])
          /\ "count" \in DOMAIN doc => IsArtifactCount(doc["count"])
      BY <2>4, <2>6 DEF IsArtifactCount, c
    <3> QED BY <2>9, <3>1 DEF IsSealed
  <2>11. IsDocument(sealed)' /\ IsDocument(delivered)' /\ IsDocument(parsed)'
         /\ DOMAIN parsed' \subseteq DOMAIN delivered'
    BY <2>2, <2>5, <2>7, <2>8 DEF TypeOK, NoFields, IsDocument
  <2>12. TypeOK'
    BY <2>7, <2>11 DEF TypeOK
  <2> QED BY <2>7, <2>8, <2>10, <2>12
<1>2. CASE Alter
  <2>1. /\ phase = "transit" /\ alterations < MaxAlterations /\ alterations' = alterations + 1
        /\ UNCHANGED <<route, platform, sealed, phase, parsed, verdict>>
    BY <1>2 DEF Alter
  <2>2. PICK f \in Fields :
          \/ \E v \in Values : delivered' = With(delivered, f, v)
          \/ f \in DOMAIN delivered /\ delivered' = Without(delivered, f)
    BY <1>2 DEF Alter
  <2>3. IsDocument(delivered)
    BY DEF TypeOK
  <2>4. IsDocument(delivered)'
    <3>1. ASSUME NEW v \in Values, delivered' = With(delivered, f, v)
          PROVE  IsDocument(delivered')
      <4>1. IsValue(v)
        BY DEF IsValue
      <4>2. /\ DOMAIN delivered' = DOMAIN delivered \cup {f}
            /\ \A g \in DOMAIN delivered' : delivered'[g] = IF g = f THEN v ELSE delivered[g]
        BY <3>1 DEF With
      <4> QED BY <2>3, <4>1, <4>2 DEF IsDocument
    <3>2. ASSUME delivered' = Without(delivered, f)
          PROVE  IsDocument(delivered')
      <4>1. /\ DOMAIN delivered' = DOMAIN delivered \ {f}
            /\ \A g \in DOMAIN delivered' : delivered'[g] = delivered[g]
        BY <3>2 DEF Without
      <4> QED BY <2>3, <4>1 DEF IsDocument
    <3>3. IsDocument(delivered')
      BY <2>2, <3>1, <3>2
    <3> QED BY <3>3
  <2>5. parsed = NoFields
    BY <2>1
  <2>6. DOMAIN parsed' \subseteq DOMAIN delivered'
    BY <2>1, <2>5 DEF NoFields
  <2>7. IsDocument(sealed)' /\ IsDocument(parsed)'
    BY <2>1 DEF TypeOK, IsDocument
  <2>8. alterations' \in 0..MaxAlterations
    BY <2>1, DocumentAssumption DEF TypeOK
  <2>9. TypeOK'
    BY <2>1, <2>4, <2>6, <2>7, <2>8 DEF TypeOK
  <2>10. IsSealed(sealed)'
    BY <2>1 DEF IsSealed, CanBeSealed, ReferenceOf
  <2> QED BY <2>1, <2>5, <2>9, <2>10
<1>3. CASE Parse
  <2>1. /\ phase = "transit" /\ parsed = NoFields
        /\ UNCHANGED <<route, platform, sealed, delivered, alterations>>
    BY <1>3 DEF Parse
  <2>2. IsRoute /\ IsDocument(delivered) /\ IsDocument(sealed)
    BY DocumentAssumption DEF TypeOK, IsRoute
  <2>3. IsSealed(sealed)'
    BY <2>1 DEF IsSealed, CanBeSealed, ReferenceOf
  <2>4. (Parses(delivered) <=> Parses(delivered)') /\ Parsed(delivered)' = Parsed(delivered)
    BY <2>1 DEF Parses, Parsed
  <2>5. IsDocument(delivered)' /\ IsDocument(sealed)'
    BY <2>1, <2>2 DEF IsDocument
  <2>6. CASE ~Parses(delivered) /\ Reject("malformed") /\ UNCHANGED parsed
    <3>1. phase' = "done" /\ verdict' = "malformed" /\ parsed' = NoFields
      BY <2>1, <2>6 DEF Reject
    <3>2. IsDocument(parsed)' /\ DOMAIN parsed' \subseteq DOMAIN delivered'
      BY <3>1 DEF NoFields, IsDocument
    <3>3. TypeOK'
      BY <2>1, <2>5, <3>1, <3>2 DEF TypeOK, Verdicts
    <3>4. VerdictIsDue'
      BY <2>4, <2>6, <3>1 DEF VerdictIsDue
    <3> QED BY <2>3, <3>1, <3>3, <3>4
  <2>7. CASE /\ Parses(delivered) /\ parsed' = Parsed(delivered)
             /\ phase' = "parsed" /\ UNCHANGED verdict
    <3>1. IsDocument(parsed') /\ DOMAIN parsed' \subseteq DOMAIN delivered
      BY <2>2, <2>7, ParsedDocument
    <3>2. IsDocument(parsed)' /\ DOMAIN parsed' \subseteq DOMAIN delivered'
      BY <2>1, <3>1 DEF IsDocument
    <3>3. TypeOK'
      BY <2>1, <2>5, <2>7, <3>2 DEF TypeOK
    <3>4. IsParsed'
      BY <2>4, <2>7 DEF IsParsed
    <3> QED BY <2>3, <2>7, <3>3, <3>4
  <2> QED BY <1>3, <2>6, <2>7 DEF Parse
<1>4. CASE Encode
  <2>1. /\ phase = "parsed"
        /\ UNCHANGED <<route, platform, sealed, delivered, alterations, parsed>>
    BY <1>4 DEF Encode
  <2>2. IsSealed(sealed)'
    BY <2>1 DEF IsSealed, CanBeSealed, ReferenceOf
  <2>3. IsParsed'
    BY <2>1 DEF IsParsed, Parses, Parsed
  <2>4. (IsEncoded <=> IsEncoded') /\ Text' = Text
    BY <2>1 DEF IsEncoded, Text, Written
  <2>5. IsDocument(delivered)' /\ IsDocument(sealed)' /\ IsDocument(parsed)'
    BY <2>1 DEF IsDocument, TypeOK
  <2>6. CASE ~IsEncoded /\ Reject("malformed")
    <3>1. phase' = "done" /\ verdict' = "malformed"
      BY <2>6 DEF Reject
    <3>2. TypeOK'
      BY <2>1, <2>5, <3>1 DEF TypeOK, Verdicts
    <3>3. VerdictIsDue'
      BY <2>3, <2>4, <2>6, <3>1 DEF VerdictIsDue
    <3> QED BY <2>2, <3>1, <3>2, <3>3
  <2>7. CASE IsEncoded /\ phase' = "encoded" /\ UNCHANGED verdict
    <3>1. \A f \in DOMAIN parsed' : Text'[f] # Refused
      BY <2>1, <2>4, <2>7 DEF IsEncoded
    <3>2. TypeOK'
      BY <2>1, <2>5, <2>7, <3>1 DEF TypeOK
    <3> QED BY <2>2, <2>3, <2>7, <3>2
  <2> QED BY <1>4, <2>6, <2>7 DEF Encode
<1>5. CASE Compare
  <2>1. /\ phase = "encoded" /\ phase' = "done"
        /\ verdict' = IF Text = ReferenceText(sealed) THEN "match" ELSE "mismatch"
        /\ UNCHANGED <<route, platform, sealed, delivered, alterations, parsed>>
    BY <1>5 DEF Compare
  <2>2. IsSealed(sealed)'
    BY <2>1 DEF IsSealed, CanBeSealed, ReferenceOf
  <2>3. IsParsed'
    BY <2>1 DEF IsParsed, Parses, Parsed
  <2>4. (IsEncoded <=> IsEncoded') /\ Text' = Text /\ ReferenceText(sealed)' = ReferenceText(sealed)
    BY <2>1 DEF IsEncoded, Text, Written, ReferenceText, ReferenceOf
  <2>5. IsDocument(delivered)' /\ IsDocument(sealed)' /\ IsDocument(parsed)'
    BY <2>1 DEF IsDocument, TypeOK
  <2>6. TypeOK'
    BY <2>1, <2>5 DEF TypeOK, Verdicts
  <2>7. IsEncoded
    BY <2>1 DEF TypeOK, IsEncoded
  <2>8. VerdictIsDue'
    BY <2>1, <2>3, <2>4, <2>7 DEF VerdictIsDue
  <2> QED BY <2>1, <2>2, <2>6, <2>8
<1>6. CASE UNCHANGED vars
  <2>1. UNCHANGED <<route, platform, sealed, delivered, alterations, phase, parsed, verdict>>
    BY <1>6 DEF vars
  <2>2. TypeOK'
    BY <2>1 DEF TypeOK, IsDocument, Text, Written
  <2>3. phase' # "seal" => IsSealed(sealed)'
    BY <2>1 DEF IsSealed, CanBeSealed, ReferenceOf
  <2>4. phase' \in {"parsed", "encoded"} => IsParsed'
    BY <2>1 DEF IsParsed, Parses, Parsed
  <2>5. /\ (Parses(delivered) <=> Parses(delivered)') /\ (IsParsed <=> IsParsed')
        /\ (IsEncoded <=> IsEncoded')
        /\ Text' = Text /\ ReferenceText(sealed)' = ReferenceText(sealed)
    BY <2>1 DEF IsParsed, Parses, Parsed, IsEncoded, Text, Written, ReferenceText, ReferenceOf
  <2>6. phase' = "done" => VerdictIsDue'
    BY <2>1, <2>5 DEF VerdictIsDue
  <2> QED BY <2>1, <2>2, <2>3, <2>4, <2>6
<1> QED BY <1>1, <1>2, <1>3, <1>4, <1>5, <1>6 DEF Next, Done

\* What there is to seal, and what stands between that and a verdict: the invariant on
\* which the others rest.
THEOREM InvariantHolds == Spec => []IInv
<1> QED BY IInvInit, IInvNext, PTL DEF Spec

\* Every variable has its type, and a text that is compared shows what was in the file.
THEOREM TypesHold == Spec => []TypeOK
<1>1. IInv => TypeOK
  BY DEF IInv
<1> QED BY <1>1, InvariantHolds, PTL

-----------------------------------------------------------------------------
\* Safety.

\* What a match says of the documents, field by field.
LEMMA MatchingFields ==
  ASSUME IInv, verdict = "match"
  PROVE  /\ phase = "done" /\ IsParsed
         /\ DOMAIN parsed = DOMAIN sealed
         /\ \A f \in DOMAIN sealed : /\ parsed[f] = delivered[f] /\ f \in DOMAIN delivered
                                     /\ IsTyped(sealed[f]) /\ IsTyped(delivered[f])
                                     /\ Written(delivered[f]) = ReferenceOf(sealed[f])
                                     /\ Written(delivered[f]) # Refused
<1>1. TypeOK /\ IsRoute
  BY DocumentAssumption DEF IInv, TypeOK, IsRoute
<1>2. phase = "done"
  BY <1>1 DEF TypeOK
<1>3. IsParsed /\ IsEncoded /\ Text = ReferenceText(sealed)
  BY <1>2 DEF IInv, VerdictIsDue
<1>4. DOMAIN parsed = DOMAIN sealed /\ \A f \in DOMAIN sealed : Text[f] = ReferenceText(sealed)[f]
  <2>1. DOMAIN Text = DOMAIN parsed /\ DOMAIN ReferenceText(sealed) = DOMAIN sealed
    BY DEF Text, ReferenceText
  <2> QED BY <1>3, <2>1
<1>5. IsDocument(delivered) /\ IsDocument(sealed)
  BY <1>1 DEF TypeOK
<1>6. DOMAIN parsed \subseteq DOMAIN delivered /\ \A f \in DOMAIN parsed : parsed[f] = delivered[f]
  BY <1>1, <1>3, <1>5, ParsedDocument DEF IsParsed
<1>7. ASSUME NEW f \in DOMAIN sealed
      PROVE  /\ parsed[f] = delivered[f] /\ f \in DOMAIN delivered
             /\ IsTyped(sealed[f]) /\ IsTyped(delivered[f])
             /\ Written(delivered[f]) = ReferenceOf(sealed[f])
             /\ Written(delivered[f]) # Refused
  <2>1. parsed[f] = delivered[f] /\ f \in DOMAIN delivered /\ f \in DOMAIN parsed
    BY <1>4, <1>6
  <2>2. IsTyped(sealed[f]) /\ IsTyped(delivered[f])
    BY <1>5, <2>1, ValuesAreTyped DEF IsDocument
  <2>3. Text[f] = Written(parsed[f]) /\ ReferenceText(sealed)[f] = ReferenceOf(sealed[f])
    BY <2>1 DEF Text, ReferenceText
  <2>4. Text[f] # Refused
    BY <1>3, <2>1 DEF IsEncoded
  <2> QED BY <1>4, <2>1, <2>2, <2>3, <2>4
<1> QED BY <1>2, <1>3, <1>4, <1>7

\* When the fields that were compared mean the same, the documents do.
LEMMA CoveredAlike ==
  ASSUME IInv, verdict = "match",
         \A f \in DOMAIN sealed : Meaning(sealed[f]) = Meaning(delivered[f])
  PROVE  SameMeaning(sealed, delivered)
<1>1. IsParsed /\ DOMAIN parsed = DOMAIN sealed
  BY MatchingFields
<1>2. IsRoute
  BY DocumentAssumption DEF IInv, TypeOK, IsRoute
<1>3. CASE route # "entry"
  <2>1. parsed = delivered
    BY <1>1, <1>2, <1>3 DEF IsParsed, Parsed, ToMap, IsRoute
  <2>2. Covered(sealed) = sealed /\ Covered(delivered) = delivered
    BY <1>3 DEF Covered
  <2> QED BY <1>1, <2>1, <2>2 DEF SameMeaning
<1>4. CASE route = "entry"
  <2>1. Covered(sealed) = computeSelfHash(sealed) /\ Covered(delivered) = computeSelfHash(delivered)
    BY <1>4 DEF Covered
  <2>2. DOMAIN sealed = Known(delivered)
    <3>1. parsed = computeSelfHash(delivered)
      BY <1>1, <1>4 DEF IsParsed, Parsed
    <3> QED BY <1>1, <3>1 DEF computeSelfHash
  <2>3. ASSUME "note" \in DOMAIN sealed
        PROVE  IsNonEmpty(sealed["note"])
    <3>1. IsString(delivered["note"]) /\ delivered["note"].chars # <<>>
      BY <2>2, <2>3 DEF Known, IsNonEmpty
    <3>2. Meaning(sealed["note"]) = Meaning(delivered["note"])
      BY <2>3
    <3>3. phase = "done"
      BY MatchingFields
    <3>4. IsStringValue(sealed["note"])
      BY <2>3, <3>3 DEF IInv, IsSealed
    <3>5. IsTyped(delivered["note"])
      BY <2>3, MatchingFields
    <3>6. IsStringValue(delivered["note"])
      BY <3>1, <3>5, NumberValues DEF IsTyped
    <3>7. sealed["note"] = delivered["note"]
      BY <3>2, <3>4, <3>6, StringValues
    <3> QED BY <3>1, <3>7 DEF IsNonEmpty
  <2>4. Known(sealed) = DOMAIN sealed
    <3>1. \A f \in DOMAIN sealed : f \in {"name", "inner", "note"}
      BY <2>2 DEF Known
    <3> QED BY <2>3, <3>1 DEF Known
  <2>5. DOMAIN Covered(sealed) = DOMAIN sealed /\ DOMAIN Covered(delivered) = DOMAIN sealed
    BY <2>1, <2>2, <2>4 DEF computeSelfHash
  <2> QED BY <2>5 DEF SameMeaning
<1> QED BY <1>3, <1>4

\* A document delivered with the fields that were sealed, as they were, matches.
LEMMA DeliveredAlike ==
  ASSUME IInv, phase = "done", IsCarried(sealed),
         DOMAIN Covered(delivered) = DOMAIN sealed,
         \A f \in DOMAIN sealed : delivered[f] = sealed[f],
         SafeNumbers(sealed) \/ (route # "event" /\ IntegersOnly(sealed))
  PROVE  verdict = "match"
<1>1. TypeOK /\ IsRoute /\ IsSealed(sealed) /\ VerdictIsDue
  BY DocumentAssumption DEF IInv, TypeOK, IsRoute
<1>2. IsDocument(sealed) /\ IsDocument(delivered)
  BY <1>1 DEF TypeOK
<1>3. \A f \in DOMAIN sealed : IsTyped(sealed[f]) /\ ReferenceOf(sealed[f]) # Refused
  BY <1>1, <1>2, ValuesAreTyped DEF IsDocument, IsSealed, CanBeSealed
<1>4. {"name", "inner"} \subseteq DOMAIN sealed /\ IsNonEmpty(sealed["name"])
  BY <1>1, StringValues DEF IsSealed, CanBeSealed, IsNonEmpty
<1>5. route # "entry" => DOMAIN delivered = DOMAIN sealed
  BY DEF Covered
<1>6. Parses(delivered)
  <2>1. CASE route = "manifest"
    <3>1. DOMAIN delivered = DOMAIN sealed
      BY <1>5, <2>1
    <3>2. "count" \in DOMAIN sealed /\ "extra" \notin DOMAIN sealed
      BY <1>1, <2>1 DEF IsSealed, CanBeSealed
    <3>3. RequiredKeys \subseteq DOMAIN delivered
      BY <1>4, <3>1, <3>2 DEF RequiredKeys
    <3>4. DOMAIN delivered \subseteq RequiredKeys \cup OptionalKeys
      BY <1>2, <3>1, <3>2 DEF IsDocument, Fields, RequiredKeys, OptionalKeys
    <3>5. IsNonEmpty(delivered["name"])
      BY <1>4
    <3>6. IsArtifactCount(delivered["count"])
      BY <1>1, <3>2 DEF IsSealed
    <3>7. "note" \in DOMAIN delivered => IsString(delivered["note"])
      BY <1>1, <3>1, StringValues DEF IsSealed
    <3>8. ParseManifest(delivered)
      BY <3>3, <3>4, <3>5, <3>6, <3>7 DEF ParseManifest
    <3> QED BY <2>1, <3>8 DEF Parses
  <2>2. CASE route = "event"
    <3>1. ASSUME NEW f \in DOMAIN delivered, IsNumber(delivered[f])
          PROVE  ~OutOfRange(delivered[f].halves)
      <4>1. f \in DOMAIN sealed /\ delivered[f] = sealed[f]
        BY <1>5, <2>2
      <4>2. IsNumberValue(sealed[f])
        BY <1>3, <3>1, <4>1, StringValues DEF IsTyped
      <4>3. IsSafe(sealed[f])
        BY <2>2, <4>1 DEF SafeNumbers
      <4> QED BY <1>1, <1>3, <4>1, <4>2, <4>3, SafeFloats
    <3> QED BY <2>2, <3>1 DEF Parses, parseAuditEvent
  <2>3. CASE route = "entry"
    <3>1. "name" \in Known(delivered)
      BY <1>4, <2>3 DEF Covered, computeSelfHash
    <3>2. "name" \in DOMAIN delivered /\ IsNonEmpty(delivered["name"])
      BY <1>4, <3>1 DEF Known
    <3> QED BY <2>3, <3>2 DEF Parses, parseAuditEntry
  <2> QED BY <1>1, <2>1, <2>2, <2>3 DEF IsRoute
<1>7. IsParsed
  BY <1>1, <1>6 DEF VerdictIsDue
<1>8. DOMAIN parsed = DOMAIN sealed
  <2>1. parsed = Covered(delivered)
    BY <1>1, <1>7 DEF IsParsed, Parsed, ToMap, Covered, IsRoute
  <2> QED BY <2>1
<1>9. ASSUME NEW f \in DOMAIN sealed
      PROVE  parsed[f] = sealed[f] /\ Written(sealed[f]) = ReferenceOf(sealed[f])
  <2>1. parsed[f] = sealed[f]
    BY <1>1, <1>2, <1>7, <1>8, ParsedDocument DEF IsParsed
  <2>2. route = "entry" => ~HasSeparator(sealed[f])
    BY DEF IsCarried, Separators
  <2>3. \/ IsSafe(sealed[f])
        \/ route # "event" /\ (IsNumber(sealed[f]) => sealed[f].form = "integer")
    BY DEF SafeNumbers, IntegersOnly
  <2> QED BY <1>1, <1>3, <2>1, <2>2, <2>3, SameText
<1>10. \A f \in DOMAIN parsed : Text[f] = ReferenceOf(sealed[f])
  BY <1>8, <1>9 DEF Text
<1>11. IsEncoded
  BY <1>3, <1>8, <1>10 DEF IsEncoded
<1>12. Text = ReferenceText(sealed)
  <2>1. Text = [f \in DOMAIN sealed |-> ReferenceOf(sealed[f])]
    BY <1>8, <1>9 DEF Text
  <2> QED BY <2>1 DEF ReferenceText
<1> QED BY <1>1, <1>6, <1>11, <1>12 DEF VerdictIsDue

\* Whatever a document of safe numbers was altered to, on any route and any platform:
\* when its hash still matches, it says what it said.
THEOREM AlterationsShow == Spec => []AlterationShows
<1>1. IInv => AlterationShows
  <2> SUFFICES ASSUME IInv, verdict = "match", SafeNumbers(sealed)
               PROVE  SameMeaning(sealed, delivered)
    BY DEF AlterationShows
  <2>1. IsRoute
    BY DocumentAssumption DEF IInv, TypeOK, IsRoute
  <2>2. ASSUME NEW f \in DOMAIN sealed
        PROVE  Meaning(sealed[f]) = Meaning(delivered[f])
    <3>1. /\ IsTyped(sealed[f]) /\ IsTyped(delivered[f])
          /\ Written(delivered[f]) = ReferenceOf(sealed[f])
          /\ Written(delivered[f]) # Refused
      BY MatchingFields
    <3>2. IsSafe(sealed[f])
      BY DEF SafeNumbers
    <3> QED BY <2>1, <3>1, <3>2, SameTextSameMeaning
  <2> QED BY <2>2, CoveredAlike
<1> QED BY <1>1, InvariantHolds, PTL

\* A document that the encoders carry, of safe numbers, matches on every platform when
\* it was delivered as sealed.
THEOREM SealedDocumentsMatch == Spec => []NoFalseAlarm
<1>1. IInv => NoFalseAlarm
  <2> SUFFICES ASSUME IInv, phase = "done", delivered = sealed, IsCarried(sealed),
                      SafeNumbers(sealed)
               PROVE  verdict = "match"
    BY DEF NoFalseAlarm
  <2>1. DOMAIN Covered(delivered) = DOMAIN sealed
    BY DEF IsCarried, AllCovered
  <2>2. \A f \in DOMAIN sealed : delivered[f] = sealed[f]
    OBVIOUS
  <2> QED BY <2>1, <2>2, DeliveredAlike
<1> QED BY <1>1, InvariantHolds, PTL

\* Integers of any size survive the two routes that do not read them as floats: there,
\* a document matches exactly as long as it says what it said.
THEOREM IntegersAreExact == Spec => []IntegersSurvive
<1>1. IInv => IntegersSurvive
  <2> SUFFICES ASSUME IInv, phase = "done", route # "event",
                      IntegersOnly(sealed), IntegersOnly(delivered), IsCarried(sealed)
               PROVE  verdict = "match" <=> SameMeaning(sealed, delivered)
    BY DEF IntegersSurvive
  <2>1. IsRoute /\ IsDocument(sealed) /\ IsDocument(delivered)
    BY DocumentAssumption DEF IInv, TypeOK, IsRoute
  <2>2. ASSUME verdict = "match"
        PROVE  SameMeaning(sealed, delivered)
    <3>1. ASSUME NEW f \in DOMAIN sealed
          PROVE  Meaning(sealed[f]) = Meaning(delivered[f])
      <4>1. /\ IsTyped(sealed[f]) /\ IsTyped(delivered[f]) /\ f \in DOMAIN delivered
            /\ Written(delivered[f]) = ReferenceOf(sealed[f])
        BY <2>2, MatchingFields
      <4>2. /\ IsNumber(sealed[f]) => sealed[f].form = "integer"
            /\ IsNumber(delivered[f]) => delivered[f].form = "integer"
        BY <4>1 DEF IntegersOnly
      <4>3. sealed[f] = delivered[f]
        BY <2>1, <4>1, <4>2, ExactTexts
      <4> QED BY <4>3
    <3> QED BY <2>2, <3>1, CoveredAlike
  <2>3. ASSUME SameMeaning(sealed, delivered)
        PROVE  verdict = "match"
    <3>1. DOMAIN Covered(sealed) = DOMAIN sealed
      BY DEF IsCarried, AllCovered
    <3>2. DOMAIN Covered(delivered) = DOMAIN sealed
      BY <2>3, <3>1 DEF SameMeaning
    <3>3. ASSUME NEW f \in DOMAIN sealed
          PROVE  delivered[f] = sealed[f]
      <4>1. Meaning(sealed[f]) = Meaning(delivered[f])
        BY <2>3, <3>1 DEF SameMeaning
      <4>2. f \in DOMAIN delivered
        BY <3>2 DEF Covered, computeSelfHash, Known
      <4>3. /\ IsTyped(sealed[f]) /\ IsTyped(delivered[f])
            /\ IsNumber(sealed[f]) => sealed[f].form = "integer"
            /\ IsNumber(delivered[f]) => delivered[f].form = "integer"
        BY <2>1, <4>2, ValuesAreTyped DEF IsDocument, IntegersOnly
      <4>4. Meaning(sealed[f]) = sealed[f] /\ Meaning(delivered[f]) = delivered[f]
        BY <4>3, StringValues, NumberValues DEF IsTyped
      <4> QED BY <4>1, <4>4
    <3> QED BY <3>2, <3>3, DeliveredAlike
  <2> QED BY <2>2, <2>3
<1> QED BY <1>1, InvariantHolds, PTL

\* An event's number whose text is the sealed one is read as the float64 that was
\* sealed, unless it is one with an exponent.
LEMMA EventFloats ==
  ASSUME NEW v, NEW w, IsTyped(v), IsTyped(w), route = "event",
         Written(w) = ReferenceOf(v), Written(w) # Refused, ~HasExponent(w)
  PROVE  AsFloat(w) = AsFloat(v)
<1>0. IsRoute
  BY DEF IsRoute
<1>1. CASE IsStringValue(v)
  <2>1. ~IsNumber(v) /\ Meaning(v) = v
    BY <1>1, StringValues
  <2>2. Meaning(w) = v
    BY <1>0, <2>1, SameTextSameMeaning DEF IsSafe
  <2>3. IsStringValue(w)
    <3>1. ASSUME IsNumberValue(w) PROVE FALSE
      <4>1. \/ Meaning(w) = w /\ IsNumber(w)
            \/ Meaning(w) = [form |-> "integer", halves |-> Rounded(w.halves)]
        BY <3>1, NumberValues
      <4>2. IsNumber(Meaning(w))
        BY <4>1 DEF IsNumber
      <4> QED BY <2>1, <2>2, <4>2
    <3> QED BY <3>1 DEF IsTyped
  <2>4. w = v
    BY <2>2, <2>3, StringValues
  <2> QED BY <2>4
<1>2. CASE IsNumberValue(v)
  <2>1. /\ IsNumber(v) /\ v.halves \in Int /\ v.form \in {"integer", "decimal"}
        /\ v.form = "integer" => v.halves = 2 * (v.halves \div 2)
    BY <1>2, NumberValues
  <2>2. IsNumberValue(w)
    <3> SUFFICES ASSUME IsStringValue(w)
                 PROVE  FALSE
      BY DEF IsTyped
    <3>1. Written(w) \in {marshalString(w.chars), encodeString(w.chars)}
      BY <1>0, StringTexts
    <3>2. ReferenceOf(v) = Refused \/ \E n : ReferenceOf(v) = Digits(n)
      BY <1>0, <1>2, <2>1, NumberTexts DEF Verbatim
    <3> QED BY <3>1, <3>2, TextsDiffer DEF marshalString, encodeString
  <2>3. IsNumber(w) /\ w.halves \in Int
    BY <2>2, NumberValues
  <2> DEFINE r == Rounded(w.halves)
             n == r \div 2
  <2>4. r \in Int /\ Magnitude(r) \in Nat /\ Rounded(r) = r
    BY <2>3, RoundedNumber, RoundedStays
  <2>5. Magnitude(r) < 2 * Pow10[ExponentDigits]
    <3>1. Pow10[ExponentDigits] \in Nat
      BY WidthAssumption, PowersOfTen
    <3>2. ~(Magnitude(r) >= 2 * Pow10[ExponentDigits])
      BY <2>3 DEF HasExponent
    <3> HIDE DEF r
    <3> QED BY <2>4, <3>1, <3>2
  <2>6. Written(w) = Digits(FloatDigits(n)) /\ r % 2 = 0
    BY <1>0, <2>2, NumberTexts
  <2>7. AsFloat(w) = Decimal(r) /\ AsFloat(v) = Decimal(Rounded(v.halves))
    BY <2>1, <2>3 DEF AsFloat
  <2> HIDE DEF r
  <2>8. n \in Int /\ r = 2 * n
    BY <2>4, <2>6
  <2> HIDE DEF n
  <2>9. Written(w) = Digits(ShortestDecimal(n))
    BY <2>5, <2>6, <2>8 DEF FloatDigits
  <2>10. Rounded(2 * ShortestDecimal(n)) = r
    BY <2>4, <2>8, ShortestIsReadBack
  <2>11. CASE v.form = "integer"
    <3>1. Digits(v.halves \div 2) = Digits(ShortestDecimal(n))
      BY <1>0, <1>2, <2>9, <2>11, NumberTexts DEF Verbatim
    <3>2. v.halves \div 2 = ShortestDecimal(n)
      BY <3>1, TextsDiffer
    <3>3. v.halves = 2 * ShortestDecimal(n)
      BY <2>1, <2>11, <3>2
    <3> QED BY <2>7, <2>10, <3>3
  <2>12. CASE v.form = "decimal"
    <3> DEFINE s == Rounded(v.halves)
    <3>1. s \in Int /\ Rounded(s) = s
      BY <2>1, RoundedNumber, RoundedStays
    <3>2. s % 2 = 0 /\ Digits(s \div 2) = Digits(ShortestDecimal(n))
      BY <1>0, <1>2, <2>9, <2>12, NumberTexts
    <3>3. s \div 2 = ShortestDecimal(n)
      BY <3>2, TextsDiffer
    <3> HIDE DEF s
    <3>4. s = 2 * ShortestDecimal(n)
      BY <3>1, <3>2, <3>3
    <3>5. s = r
      BY <2>10, <3>1, <3>4
    <3> QED BY <2>7, <3>5 DEF s
  <2> QED BY <2>1, <2>11, <2>12
<1> QED BY <1>1, <1>2 DEF IsTyped

\* An event whose hash matches has the fields that were sealed, and its numbers are read
\* as the float64 that were sealed, but for those written with an exponent.
THEOREM EventsKeepTheirFloats == Spec => []EventsKeepFloats
<1>1. IInv => EventsKeepFloats
  <2> SUFFICES ASSUME IInv, verdict = "match", route = "event"
               PROVE  /\ DOMAIN delivered = DOMAIN sealed
                      /\ \A f \in DOMAIN sealed :
                           HasExponent(delivered[f]) \/ AsFloat(delivered[f]) = AsFloat(sealed[f])
    BY DEF EventsKeepFloats
  <2>1. DOMAIN delivered = DOMAIN sealed
    <3>1. IsParsed /\ DOMAIN parsed = DOMAIN sealed
      BY MatchingFields
    <3>2. parsed = delivered
      BY <3>1 DEF IsParsed, Parsed
    <3> QED BY <3>1, <3>2
  <2>2. ASSUME NEW f \in DOMAIN sealed, ~HasExponent(delivered[f])
        PROVE  AsFloat(delivered[f]) = AsFloat(sealed[f])
    <3>1. /\ IsTyped(sealed[f]) /\ IsTyped(delivered[f])
          /\ Written(delivered[f]) = ReferenceOf(sealed[f])
          /\ Written(delivered[f]) # Refused
      BY MatchingFields
    <3> QED BY <2>2, <3>1, EventFloats
  <2> QED BY <2>1, <2>2
<1> QED BY <1>1, InvariantHolds, PTL
=============================================================================
