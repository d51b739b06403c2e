-------------------------- MODULE Algorithms_proofs --------------------------
(***************************************************************************)
(* What the recursive definitions of Algorithms compute, for sequences of  *)
(* any length.  Induction is by least elements: what holds for 0, and for  *)
(* n + 1 if it holds for n, has no least exception.                        *)
(***************************************************************************)
EXTENDS Algorithms, SequenceTheorems, WellFoundedInduction, TLAPS

(* Induction *)

\* Natural numbers have a least one.
LEMMA LeastNatural ==
  ASSUME NEW T \in SUBSET Nat, T # {}
  PROVE  \E m \in T : \A n \in T : m <= n
<1> DEFINE R == {p \in Nat \X Nat : p[1] < p[2]}
<1>1. IsWellFoundedOn(R, Nat)
  BY NatLessThanWellFounded DEF OpToRel
<1>2. PICK m \in T : \A n \in T : <<n, m>> \notin R
  <2> HIDE DEF R
  <2> QED BY <1>1, WFMin
<1>3. \A n \in T : ~ (n < m)
  <2> TAKE n \in T
  <2>1. <<n, m>> \notin R
    BY <1>2
  <2> QED BY <2>1
<1> QED BY <1>3

\* Induction, for sets.
LEMMA SetInduction ==
  ASSUME NEW S, 0 \in S, \A n \in Nat : n \in S => n + 1 \in S
  PROVE  Nat \subseteq S
<1> DEFINE T == Nat \ S
<1>1. SUFFICES ASSUME T # {} PROVE FALSE
  OBVIOUS
<1>2. PICK m \in T : \A n \in T : m <= n
  BY <1>1, LeastNatural
<1>3. m \in Nat /\ m # 0 /\ m \notin S
  BY <1>2
<1>4. m - 1 \in Nat /\ ~ (m <= m - 1) /\ (m - 1) + 1 = m
  BY <1>3
<1>5. m - 1 \in S
  BY <1>2, <1>4
<1> QED BY <1>3, <1>4, <1>5

\* Integers with an upper bound have a largest one.
LEMMA LargestInteger ==
  ASSUME NEW T \in SUBSET Int, T # {}, NEW b \in Int, \A t \in T : t <= b
  PROVE  Max(T) \in T /\ \A t \in T : Max(T) >= t
<1> DEFINE D == {b - t : t \in T}
<1>1. D \in SUBSET Nat /\ D # {}
  <2>1. \A t \in T : b - t \in Nat
    OBVIOUS
  <2> QED BY <2>1
<1>2. PICK d \in D : \A e \in D : d <= e
  BY <1>1, LeastNatural
<1>3. PICK m \in T : d = b - m
  BY <1>2
<1>4. \A t \in T : m >= t
  <2> TAKE t \in T
  <2>1. b - t \in D /\ d <= b - t
    BY <1>2
  <2> QED BY <1>3, <2>1
<1> QED BY <1>3, <1>4 DEF Max

\* With a lower bound, a least one.
LEMMA LeastInteger ==
  ASSUME NEW T \in SUBSET Int, T # {}, NEW b \in Int, \A t \in T : b <= t
  PROVE  Min(T) \in T /\ \A t \in T : Min(T) <= t
<1> DEFINE D == {t - b : t \in T}
<1>1. D \in SUBSET Nat /\ D # {}
  <2>1. \A t \in T : t - b \in Nat
    OBVIOUS
  <2> QED BY <2>1
<1>2. PICK d \in D : \A e \in D : d <= e
  BY <1>1, LeastNatural
<1>3. PICK m \in T : d = m - b
  BY <1>2
<1>4. \A t \in T : m <= t
  <2> TAKE t \in T
  <2>1. t - b \in D /\ d <= t - b
    BY <1>2
  <2> QED BY <1>3, <2>1
<1> QED BY <1>3, <1>4 DEF Min

\* The largest of the numbers up to n.
LEMMA LargestUpTo ==
  ASSUME NEW n \in Nat, NEW T \in SUBSET (1 .. n), T # {}
  PROVE  Max(T) \in T /\ \A t \in T : Max(T) >= t
BY LargestInteger

LEMMA MaxOfTwo ==
  ASSUME NEW a \in Int, NEW b \in Int
  PROVE  Max({a, b}) = IF a >= b THEN a ELSE b
<1>1. Max({a, b}) \in {a, b} /\ \A t \in {a, b} : Max({a, b}) >= t
  <2>1. CASE a >= b
    BY <2>1, LargestInteger
  <2>2. CASE ~ (a >= b)
    BY <2>2, LargestInteger
  <2> QED BY <2>1, <2>2
<1> QED BY <1>1

LEMMA MinOfTwo ==
  ASSUME NEW a \in Int, NEW b \in Int
  PROVE  Min({a, b}) = IF a <= b THEN a ELSE b
<1>1. \E x \in {a, b} : \A y \in {a, b} : x <= y
  OBVIOUS
<1>2. Min({a, b}) \in {a, b} /\ \A t \in {a, b} : Min({a, b}) <= t
  BY <1>1 DEF Min
<1> QED BY <1>2
-----------------------------------------------------------------------------
(* Sums *)

\* The sums of the elements whose indices are in a set.
Summed(s, sum) ==
  sum = [T \in SUBSET DOMAIN s |->
           IF T = {} THEN 0 ELSE sum[T \ {Max(T)}] + s[Max(T)]]

Sums(s) == CHOOSE sum : Summed(s, sum)

LEMMA TotalIsSum == \A s : Total(s) = Sums(s)[DOMAIN s]
BY DEF Total, FoldLeft, MapThenFoldSet, Sums, Summed

\* There are such sums: with one more element, they are those without it, and those with
\* it added.
LEMMA SumsExist ==
  ASSUME NEW s, NEW n \in Nat, DOMAIN s = 1 .. n
  PROVE  Summed(s, Sums(s))
<1> DEFINE Equation(f, m) ==
             f = [T \in SUBSET (1 .. m) |->
                    IF T = {} THEN 0 ELSE f[T \ {Max(T)}] + s[Max(T)]]
           S == {m \in Nat : \E f : Equation(f, m)}
<1>1. 0 \in S
  <2> DEFINE f == [T \in SUBSET (1 .. 0) |-> 0]
  <2>1. \A T \in SUBSET (1 .. 0) : T = {}
    OBVIOUS
  <2>2. Equation(f, 0)
    BY <2>1
  <2> QED BY <2>2
<1>2. ASSUME NEW m \in Nat, m \in S PROVE m + 1 \in S
  <2>1. PICK f : Equation(f, m)
    BY <1>2
  <2> DEFINE g == [T \in SUBSET (1 .. m + 1) |->
                     IF m + 1 \in T THEN f[T \ {m + 1}] + s[m + 1] ELSE f[T]]
  <2>2. ASSUME NEW T \in SUBSET (1 .. m + 1)
        PROVE  g[T] = IF T = {} THEN 0 ELSE g[T \ {Max(T)}] + s[Max(T)]
    <3>1. CASE m + 1 \in T
      <4>1. Max(T) = m + 1
        <5> HIDE DEF Equation, g
        <5>1. m + 1 \in Nat /\ T \in SUBSET (1 .. m + 1) /\ T # {}
          BY <3>1
        <5>2. Max(T) \in T /\ \A t \in T : Max(T) >= t
          BY ONLY <5>1, LargestUpTo
        <5>3. Max(T) \in 1 .. m + 1 /\ Max(T) >= m + 1
          BY <3>1, <5>2
        <5> QED BY <5>3
      <4>2. T \ {m + 1} \in SUBSET (1 .. m + 1) /\ m + 1 \notin T \ {m + 1}
        OBVIOUS
      <4>3. g[T \ {m + 1}] = f[T \ {m + 1}]
        BY <4>2
      <4> HIDE DEF Equation
      <4> QED BY <3>1, <4>1, <4>3
    <3>2. CASE m + 1 \notin T
      <4>1. T \in SUBSET (1 .. m)
        BY <3>2
      <4>2. g[T] = f[T]
        BY <3>2
      <4>3. f[T] = IF T = {} THEN 0 ELSE f[T \ {Max(T)}] + s[Max(T)]
        BY <2>1, <4>1
      <4>4. g[T \ {Max(T)}] = f[T \ {Max(T)}]
        BY <3>2
      <4> HIDE DEF Equation, g
      <4> QED BY <4>2, <4>3, <4>4
    <3> QED BY <3>1, <3>2
  <2>3. g = [T \in SUBSET (1 .. m + 1) |->
               IF T = {} THEN 0 ELSE g[T \ {Max(T)}] + s[Max(T)]]
    BY <2>2
  <2>4. \E h : Equation(h, m + 1)
    <3> HIDE DEF g
    <3> QED BY <2>3
  <2> HIDE DEF Equation
  <2> QED BY <2>4
<1>3. n \in S
  <2> HIDE DEF S
  <2> QED BY <1>1, <1>2, SetInduction
<1>4. \E f : Summed(s, f)
  BY <1>3 DEF Summed
<1> QED BY <1>4 DEF Sums

\* The sum of the first i elements.
SumTo(s, i) == Sums(s)[1 .. i]

LEMMA SumByElement ==
  ASSUME NEW s, NEW n \in Nat, DOMAIN s = 1 .. n
  PROVE  /\ Total(s) = SumTo(s, n)
         /\ SumTo(s, 0) = 0
         /\ \A i \in 0 .. n - 1 : SumTo(s, i + 1) = SumTo(s, i) + s[i + 1]
<1>1. \A T \in SUBSET (1 .. n) :
        Sums(s)[T] = IF T = {} THEN 0 ELSE Sums(s)[T \ {Max(T)}] + s[Max(T)]
  <2> DEFINE f == Sums(s)
  <2>1. f = [T \in SUBSET (1 .. n) |-> IF T = {} THEN 0 ELSE f[T \ {Max(T)}] + s[Max(T)]]
    BY SumsExist DEF Summed
  <2> HIDE DEF f
  <2>2. \A T \in SUBSET (1 .. n) : f[T] = IF T = {} THEN 0 ELSE f[T \ {Max(T)}] + s[Max(T)]
    BY <2>1
  <2> QED BY <2>2 DEF f
<1>2. 1 .. 0 = {} /\ {} \in SUBSET (1 .. n)
  OBVIOUS
<1>3. ASSUME NEW i \in 0 .. n - 1
      PROVE  SumTo(s, i + 1) = SumTo(s, i) + s[i + 1]
  <2> DEFINE T == 1 .. i + 1
  <2>1. T \in SUBSET (1 .. n) /\ T # {} /\ i + 1 \in T /\ i + 1 \in Nat
    <3>1. i \in Nat /\ i + 1 \in 1 .. n /\ i + 1 \in T
      OBVIOUS
    <3>2. T \in SUBSET (1 .. n)
      OBVIOUS
    <3> HIDE DEF T
    <3> QED BY <3>1, <3>2
  <2>2. \A t \in T : t \in Nat /\ t <= i + 1
    OBVIOUS
  <2>3. T \ {i + 1} = 1 .. i
    OBVIOUS
  <2>4. Max(T) = i + 1
    <3>1. T \in SUBSET (1 .. i + 1)
      OBVIOUS
    <3> HIDE DEF T
    <3>2. Max(T) \in T /\ \A t \in T : Max(T) >= t
      BY ONLY <2>1, <3>1, LargestUpTo
    <3>3. Max(T) \in Nat /\ Max(T) <= i + 1 /\ Max(T) >= i + 1
      BY <2>1, <2>2, <3>2
    <3> QED BY <3>3
  <2> HIDE DEF T
  <2>5. Sums(s)[T] = Sums(s)[1 .. i] + s[i + 1]
    BY <1>1, <2>1, <2>3, <2>4
  <2> QED BY <2>5 DEF SumTo, T
<1> QED BY <1>1, <1>2, <1>3, TotalIsSum DEF SumTo

\* The sum of integers between two bounds.
LEMMA TotalBounds ==
  ASSUME NEW s, NEW n \in Nat, DOMAIN s = 1 .. n, NEW lo \in Int, NEW hi \in Int,
         \A i \in 1 .. n : s[i] \in Int /\ lo <= s[i] /\ s[i] <= hi
  PROVE  Total(s) \in Int /\ n * lo <= Total(s) /\ Total(s) <= n * hi
<1>0. /\ Total(s) = SumTo(s, n) /\ SumTo(s, 0) = 0
      /\ \A i \in 0 .. n - 1 : SumTo(s, i + 1) = SumTo(s, i) + s[i + 1]
  BY ONLY n \in Nat, DOMAIN s = 1 .. n, SumByElement
<1> DEFINE Good(i) == SumTo(s, i) \in Int /\ i * lo <= SumTo(s, i) /\ SumTo(s, i) <= i * hi
           S == {i \in Nat : i <= n => Good(i)}
<1>1. 0 \in S
  BY <1>0
<1>2. ASSUME NEW i \in Nat, i \in S PROVE i + 1 \in S
  <2> SUFFICES ASSUME i + 1 <= n PROVE Good(i + 1)
    OBVIOUS
  <2>1. Good(i) /\ SumTo(s, i + 1) = SumTo(s, i) + s[i + 1]
    BY <1>0, <1>2
  <2>2. s[i + 1] \in Int /\ lo <= s[i + 1] /\ s[i + 1] <= hi
    OBVIOUS
  <2> DEFINE x == SumTo(s, i)
             y == s[i + 1]
             a == i * lo
             b == i * hi
  <2>3. (i + 1) * lo = a + lo /\ (i + 1) * hi = b + hi /\ a \in Int /\ b \in Int
    OBVIOUS
  <2>4. x \in Int /\ y \in Int /\ a <= x /\ x <= b /\ lo <= y /\ y <= hi
    BY <2>1, <2>2
  <2> HIDE DEF x, y, a, b
  <2>5. x + y \in Int /\ a + lo <= x + y /\ x + y <= b + hi
    BY <2>3, <2>4
  <2> QED BY <2>1, <2>3, <2>5 DEF x, y
<1>3. n \in S
  <2> HIDE DEF S
  <2> QED BY <1>1, <1>2, SetInduction
<1> QED BY <1>0, <1>3

\* A sum of integers is one.
LEMMA TotalType ==
  ASSUME NEW s, NEW n \in Nat, DOMAIN s = 1 .. n, \A i \in 1 .. n : s[i] \in Int
  PROVE  Total(s) \in Int
<1>0. /\ Total(s) = SumTo(s, n) /\ SumTo(s, 0) = 0
      /\ \A i \in 0 .. n - 1 : SumTo(s, i + 1) = SumTo(s, i) + s[i + 1]
  BY ONLY n \in Nat, DOMAIN s = 1 .. n, SumByElement
<1> DEFINE S == {i \in Nat : i <= n => SumTo(s, i) \in Int}
<1>1. 0 \in S
  BY <1>0
<1>2. ASSUME NEW i \in Nat, i \in S PROVE i + 1 \in S
  BY <1>0, <1>2
<1>3. n \in S
  <2> HIDE DEF S
  <2> QED BY <1>1, <1>2, SetInduction
<1> QED BY <1>0, <1>3
-----------------------------------------------------------------------------
(* Averages *)

LEMMA QuotientType ==
  ASSUME NEW a \in Int, NEW b \in Int, b # 0
  PROVE  Quotient(a, b) \in Int
<1>1. Abs(a) \in Nat /\ Abs(b) \in Nat \ {0}
  BY DEF Abs
<1>2. Abs(a) \div Abs(b) \in Int
  BY <1>1
<1> QED BY <1>2 DEF Quotient

\* A product of integers.
LEMMA ProductType == \A a, b \in Int : a * b \in Int
OBVIOUS

\* A quotient is between two bounds of which the dividend has multiples.
LEMMA DivisionBounds ==
  ASSUME NEW a \in Nat, NEW n \in Nat \ {0}, NEW c \in Nat, a <= n * c
  PROVE  a \div n \in Nat /\ a \div n <= c
<1> DEFINE q == a \div n
<1>1. q \in Int /\ n * q <= a /\ a < n * q + n
  OBVIOUS
<1>2. q \in Nat
  OBVIOUS
<1>3. q <= c
  <2> SUFFICES ASSUME c < q PROVE FALSE
    BY <1>2
  <2> HIDE DEF q
  <2>1. n * (c + 1) <= n * q
    BY <1>2
  <2>2. n * (c + 1) = n * c + n
    OBVIOUS
  <2>3. n * c \in Nat /\ n * q \in Nat
    BY <1>2
  <2> QED BY <1>1, <2>1, <2>2, <2>3
<1> QED BY <1>2, <1>3

LEMMA DivisionFloor ==
  ASSUME NEW a \in Nat, NEW n \in Nat \ {0}, NEW c \in Nat, n * c <= a
  PROVE  a \div n \in Nat /\ c <= a \div n
<1> DEFINE q == a \div n
<1>1. q \in Nat /\ n * q <= a /\ a < n * q + n
  OBVIOUS
<1>2. c <= q
  <2> SUFFICES ASSUME q < c PROVE FALSE
    BY <1>1
  <2> HIDE DEF q
  <2>1. n * (q + 1) <= n * c
    BY <1>1
  <2>2. n * (q + 1) = n * q + n
    BY <1>1
  <2>3. n * c \in Nat /\ n * q \in Nat
    BY <1>1
  <2> QED BY <1>1, <2>1, <2>2, <2>3
<1> QED BY <1>1, <1>2

\* So is that of an integer, which is rounded towards zero.
LEMMA QuotientBounds ==
  ASSUME NEW a \in Int, NEW n \in Nat \ {0}, NEW lo \in Int, NEW hi \in Int,
         n * lo <= a, a <= n * hi
  PROVE  Quotient(a, n) \in Int /\ lo <= Quotient(a, n) /\ Quotient(a, n) <= hi
<1>1. Abs(n) = n /\ ~ (n < 0) /\ n * lo \in Int /\ n * hi \in Int
  BY DEF Abs
<1>2. CASE a >= 0
  <2>1. a \in Nat /\ Abs(a) = a /\ Quotient(a, n) = a \div n
    BY <1>1, <1>2 DEF Quotient, Abs
  <2>2. hi \in Nat
    <3> SUFFICES ASSUME hi < 0 PROVE FALSE
      OBVIOUS
    <3>1. n * hi < 0
      OBVIOUS
    <3> QED BY <1>2, <3>1
  <2>3. a \div n \in Nat /\ a \div n <= hi
    BY <2>1, <2>2, DivisionBounds
  <2>4. CASE lo <= 0
    BY <2>1, <2>3, <2>4
  <2>5. CASE lo > 0
    <3>1. lo <= a \div n
      BY <2>1, <2>5, DivisionFloor
    <3> QED BY <2>1, <2>3, <3>1
  <2> QED BY <2>4, <2>5
<1>3. CASE a < 0
  <2> DEFINE m == -a
  <2>1. m \in Nat /\ Abs(a) = m /\ Quotient(a, n) = -(m \div n)
    BY <1>1, <1>3 DEF Quotient, Abs
  <2>2. n * (-hi) <= m /\ m <= n * (-lo)
    <3>1. n * (-hi) = -(n * hi) /\ n * (-lo) = -(n * lo)
      OBVIOUS
    <3> QED BY <1>1, <3>1
  <2>3. -lo \in Nat
    <3> SUFFICES ASSUME lo > 0 PROVE FALSE
      OBVIOUS
    <3>1. n * lo > 0
      OBVIOUS
    <3> QED BY <1>1, <1>3, <3>1
  <2> HIDE DEF m
  <2>4. m \div n \in Nat /\ m \div n <= -lo
    BY <2>1, <2>2, <2>3, DivisionBounds
  <2>5. CASE hi >= 0
    BY <2>1, <2>4, <2>5
  <2>6. CASE hi < 0
    <3>1. -hi \in Nat
      BY <2>6
    <3>2. -hi <= m \div n
      BY <2>1, <2>2, <3>1, DivisionFloor
    <3> QED BY <2>1, <2>4, <3>2
  <2> QED BY <2>5, <2>6
<1> QED BY <1>2, <1>3

\* The average of readings lies between the smallest and the largest.
THEOREM AverageIsBetween ==
  ASSUME NEW s \in Seq(Int), s # << >>, NEW lo \in Int, NEW hi \in Int,
         \A i \in DOMAIN s : lo <= s[i] /\ s[i] <= hi
  PROVE  Average(s) \in Int /\ lo <= Average(s) /\ Average(s) <= hi
<1> DEFINE n == Len(s)
<1>1. n \in Nat \ {0} /\ DOMAIN s = 1 .. n /\ \A i \in 1 .. n : s[i] \in Int
  BY EmptySeq, LenProperties, ElementOfSeq
<1>2. Total(s) \in Int /\ n * lo <= Total(s) /\ Total(s) <= n * hi
  <2> HIDE DEF n
  <2>1. n \in Nat /\ \A i \in 1 .. n : s[i] \in Int /\ lo <= s[i] /\ s[i] <= hi
    BY <1>1
  <2> QED BY ONLY <1>1, <2>1, lo \in Int, hi \in Int, TotalBounds
<1>3. Average(s) = Quotient(Total(s), n)
  BY DEF Average
<1> HIDE DEF n
<1> QED BY <1>1, <1>2, <1>3, QuotientBounds

LEMMA AverageType ==
  ASSUME NEW s \in Seq(Int)
  PROVE  Average(s) \in Int
<1> DEFINE n == Len(s)
<1>1. n \in Nat /\ DOMAIN s = 1 .. n /\ \A i \in 1 .. n : s[i] \in Int
  BY LenProperties, ElementOfSeq
<1>2. Total(s) \in Int
  <2> HIDE DEF n
  <2> QED BY ONLY <1>1, TotalType
<1>3. s # << >> => n # 0
  BY EmptySeq
<1> QED BY <1>1, <1>2, <1>3, QuotientType DEF Average

LEMMA WeightedAverageType ==
  ASSUME NEW pairs, NEW n \in Nat, DOMAIN pairs = 1 .. n,
         \A i \in 1 .. n : pairs[i].value \in Int /\ pairs[i].weight \in Int
  PROVE  WeightedAverage(pairs) \in Int
<1> DEFINE v == [i \in DOMAIN pairs |-> pairs[i].weight * pairs[i].value]
           w == [i \in DOMAIN pairs |-> pairs[i].weight]
<1>1. /\ DOMAIN v = 1 .. n /\ \A i \in 1 .. n : v[i] \in Int
      /\ DOMAIN w = 1 .. n /\ \A i \in 1 .. n : w[i] \in Int
  BY ProductType
<1>2. WeightedAverage(pairs) = IF Total(w) = 0 THEN Total(v) ELSE Quotient(Total(v), Total(w))
  BY DEF WeightedAverage
<1> HIDE DEF v, w
<1>3. Total(v) \in Int /\ Total(w) \in Int
  BY <1>1, TotalType
<1> QED BY <1>2, <1>3, QuotientType

\* The sum of weighted values lies between the weight times the smallest and times the
\* largest of them.
LEMMA WeightedTotal ==
  ASSUME NEW v, NEW w, NEW x, NEW n \in Nat,
         DOMAIN v = 1 .. n, DOMAIN w = 1 .. n, NEW lo \in Int, NEW hi \in Int,
         \A i \in 1 .. n : /\ w[i] \in Nat /\ x[i] \in Int /\ v[i] = w[i] * x[i]
                           /\ lo <= x[i] /\ x[i] <= hi
  PROVE  /\ Total(v) \in Int /\ Total(w) \in Nat
         /\ Total(w) * lo <= Total(v) /\ Total(v) <= Total(w) * hi
<1>1. /\ Total(v) = SumTo(v, n) /\ SumTo(v, 0) = 0
      /\ \A i \in 0 .. n - 1 : SumTo(v, i + 1) = SumTo(v, i) + v[i + 1]
  BY ONLY n \in Nat, DOMAIN v = 1 .. n, SumByElement
<1>2. /\ Total(w) = SumTo(w, n) /\ SumTo(w, 0) = 0
      /\ \A i \in 0 .. n - 1 : SumTo(w, i + 1) = SumTo(w, i) + w[i + 1]
  BY ONLY n \in Nat, DOMAIN w = 1 .. n, SumByElement
<1> DEFINE Good(i) == /\ SumTo(v, i) \in Int /\ SumTo(w, i) \in Nat
                      /\ SumTo(w, i) * lo <= SumTo(v, i) /\ SumTo(v, i) <= SumTo(w, i) * hi
           S == {i \in Nat : i <= n => Good(i)}
<1>3. 0 \in S
  BY <1>1, <1>2
<1>4. ASSUME NEW i \in Nat, i \in S PROVE i + 1 \in S
  <2> SUFFICES ASSUME i + 1 <= n PROVE Good(i + 1)
    OBVIOUS
  <2>1. /\ Good(i) /\ SumTo(v, i + 1) = SumTo(v, i) + v[i + 1]
        /\ SumTo(w, i + 1) = SumTo(w, i) + w[i + 1]
    BY <1>1, <1>2, <1>4
  <2>2. /\ w[i + 1] \in Nat /\ x[i + 1] \in Int /\ v[i + 1] = w[i + 1] * x[i + 1]
        /\ lo <= x[i + 1] /\ x[i + 1] <= hi
    OBVIOUS
  <2> DEFINE p == SumTo(v, i)
             q == SumTo(w, i)
             a == w[i + 1]
             b == x[i + 1]
  <2>3. p \in Int /\ q \in Nat /\ a \in Nat /\ b \in Int /\ q * lo <= p /\ p <= q * hi
    BY <2>1, <2>2
  <2>4. v[i + 1] = a * b /\ lo <= b /\ b <= hi
    BY <2>2
  <2> HIDE DEF p, q, a, b
  <2>5. a * lo <= a * b /\ a * b <= a * hi
    BY <2>3, <2>4
  <2>6. (q + a) * lo = q * lo + a * lo /\ (q + a) * hi = q * hi + a * hi
    BY <2>3
  <2>7. q * lo \in Int /\ q * hi \in Int /\ a * lo \in Int /\ a * hi \in Int /\ a * b \in Int
    BY <2>3, ProductType
  <2>8. /\ p + a * b \in Int /\ q + a \in Nat
        /\ (q + a) * lo <= p + a * b /\ p + a * b <= (q + a) * hi
    <3> DEFINE c == a * b
               d == a * lo
               e == a * hi
               g == q * lo
               h == q * hi
    <3>1. /\ c \in Int /\ d \in Int /\ e \in Int /\ g \in Int /\ h \in Int
          /\ d <= c /\ c <= e /\ g <= p /\ p <= h
          /\ (q + a) * lo = g + d /\ (q + a) * hi = h + e
      BY <2>3, <2>5, <2>6, <2>7
    <3> HIDE DEF c, d, e, g, h
    <3>2. p + c \in Int /\ q + a \in Nat /\ g + d <= p + c /\ p + c <= h + e
      BY <2>3, <3>1
    <3> QED BY <3>1, <3>2 DEF c
  <2> QED BY <2>1, <2>4, <2>8 DEF p, q, a
<1>5. n \in S
  <2> HIDE DEF S
  <2> QED BY <1>3, <1>4, SetInduction
<1> QED BY <1>1, <1>2, <1>5

\* The weighted average lies between the smallest and the largest of the values, too, unless
\* nothing has a weight.
THEOREM WeightedAverageIsBetween ==
  ASSUME NEW pairs, NEW n \in Nat, DOMAIN pairs = 1 .. n, NEW lo \in Int, NEW hi \in Int,
         \A i \in 1 .. n : /\ pairs[i].value \in Int /\ pairs[i].weight \in Nat
                           /\ lo <= pairs[i].value /\ pairs[i].value <= hi,
         NEW k \in 1 .. n, pairs[k].weight > 0
  PROVE  lo <= WeightedAverage(pairs) /\ WeightedAverage(pairs) <= hi
<1> DEFINE v == [i \in DOMAIN pairs |-> pairs[i].weight * pairs[i].value]
           w == [i \in DOMAIN pairs |-> pairs[i].weight]
           x == [i \in DOMAIN pairs |-> pairs[i].value]
<1>1. /\ DOMAIN v = 1 .. n /\ DOMAIN w = 1 .. n
      /\ \A i \in 1 .. n : /\ w[i] \in Nat /\ x[i] \in Int /\ v[i] = w[i] * x[i]
                           /\ lo <= x[i] /\ x[i] <= hi
      /\ w[k] > 0
  OBVIOUS
<1>2. WeightedAverage(pairs) = IF Total(w) = 0 THEN Total(v) ELSE Quotient(Total(v), Total(w))
  BY DEF WeightedAverage
<1> HIDE DEF v, w, x
<1>3. /\ Total(v) \in Int /\ Total(w) \in Nat
      /\ Total(w) * lo <= Total(v) /\ Total(v) <= Total(w) * hi
  BY <1>1, WeightedTotal
<1>4. Total(w) # 0
  <2>1. /\ Total(w) = SumTo(w, n) /\ SumTo(w, 0) = 0
        /\ \A i \in 0 .. n - 1 : SumTo(w, i + 1) = SumTo(w, i) + w[i + 1]
    BY ONLY <1>1, n \in Nat, SumByElement
  <2> DEFINE S == {i \in Nat : i <= n => SumTo(w, i) \in Nat /\ (k <= i => SumTo(w, i) > 0)}
  <2>2. 0 \in S
    BY <2>1
  <2>3. ASSUME NEW i \in Nat, i \in S PROVE i + 1 \in S
    <3> SUFFICES ASSUME i + 1 <= n
                 PROVE  SumTo(w, i + 1) \in Nat /\ (k <= i + 1 => SumTo(w, i + 1) > 0)
      OBVIOUS
    <3>1. /\ SumTo(w, i) \in Nat /\ (k <= i => SumTo(w, i) > 0)
          /\ SumTo(w, i + 1) = SumTo(w, i) + w[i + 1] /\ w[i + 1] \in Nat
      BY <1>1, <2>1, <2>3
    <3>2. k <= i \/ k = i + 1 \/ ~ (k <= i + 1)
      OBVIOUS
    <3> QED BY <1>1, <3>1, <3>2
  <2>4. n \in S
    <3> HIDE DEF S
    <3> QED BY <2>2, <2>3, SetInduction
  <2> QED BY <2>1, <2>4
<1> QED BY <1>2, <1>3, <1>4, QuotientBounds
-----------------------------------------------------------------------------
(* Outliers *)

\* Of integers there is a first largest one.
LEMMA FirstLargest ==
  ASSUME NEW n \in Nat \ {0}, NEW f \in [1 .. n -> Int]
  PROVE  \E i \in 1 .. n : \A j \in 1 .. n : f[j] < f[i] \/ (f[j] = f[i] /\ i <= j)
<1> DEFINE Found(m) == \E i \in 1 .. m : \A j \in 1 .. m :
                         f[j] < f[i] \/ (f[j] = f[i] /\ i <= j)
           S == {k \in Nat : k + 1 <= n => Found(k + 1)}
<1>1. 0 \in S
  <2>1. 1 .. 0 + 1 = {1}
    OBVIOUS
  <2> QED BY <2>1
<1>2. ASSUME NEW k \in Nat, k \in S PROVE k + 1 \in S
  <2> DEFINE m == k + 1
  <2> SUFFICES ASSUME m + 1 <= n PROVE Found(m + 1)
    OBVIOUS
  <2>1. m \in Nat \ {0}
    OBVIOUS
  <2>2. PICK i \in 1 .. m : \A j \in 1 .. m : f[j] < f[i] \/ (f[j] = f[i] /\ i <= j)
    BY <1>2
  <2> HIDE DEF m
  <2>3. /\ \A j \in 1 .. m + 1 : j \in 1 .. m \/ j = m + 1
        /\ \A j \in 1 .. m + 1 : f[j] \in Int
        /\ i \in 1 .. m + 1 /\ m + 1 \in 1 .. m + 1 /\ i <= m + 1
    BY <2>1
  <2>4. CASE f[m + 1] <= f[i]
    <3>1. \A j \in 1 .. m + 1 : f[j] < f[i] \/ (f[j] = f[i] /\ i <= j)
      BY <2>2, <2>3, <2>4
    <3> QED BY <2>3, <3>1
  <2>5. CASE f[m + 1] > f[i]
    <3>1. \A j \in 1 .. m : f[j] < f[m + 1]
      <4> TAKE j \in 1 .. m
      <4>1. j \in 1 .. m + 1
        BY <2>1
      <4>2. f[j] \in Int /\ f[i] \in Int /\ f[m + 1] \in Int /\ f[j] <= f[i]
        BY <2>2, <2>3, <4>1
      <4> QED BY <2>5, <4>2
    <3>2. \A j \in 1 .. m + 1 : f[j] < f[m + 1] \/ (f[j] = f[m + 1] /\ m + 1 <= j)
      BY <2>1, <2>3, <3>1
    <3> QED BY <2>3, <3>2
  <2>6. f[m + 1] <= f[i] \/ f[m + 1] > f[i]
    <3>1. f[m + 1] \in Int /\ f[i] \in Int
      BY <2>3
    <3> QED BY <3>1
  <2> QED BY <2>4, <2>5, <2>6
<1>3. n - 1 \in S
  <2> HIDE DEF S
  <2>1. n - 1 \in Nat
    OBVIOUS
  <2> QED BY <1>1, <1>2, <2>1, SetInduction
<1> QED BY <1>3

LEMMA FurthestType ==
  ASSUME NEW s \in Seq(Int), s # << >>, NEW average \in Int
  PROVE  Furthest(s, average) \in DOMAIN s
<1> DEFINE n == Len(s)
           f == [i \in 1 .. n |-> Abs(average - s[i])]
<1>1. n \in Nat \ {0} /\ DOMAIN s = 1 .. n /\ \A i \in 1 .. n : s[i] \in Int
  BY EmptySeq, LenProperties, ElementOfSeq
<1>2. f \in [1 .. n -> Int]
  BY <1>1 DEF Abs
<1>3. \E i \in 1 .. n : \A j \in 1 .. n : f[j] < f[i] \/ (f[j] = f[i] /\ i <= j)
  <2> HIDE DEF f, n
  <2> QED BY <1>1, <1>2, FirstLargest
<1> QED BY <1>1, <1>3 DEF Furthest

LEMMA LargestOfSequence ==
  ASSUME NEW s \in Seq(Int), s # << >>
  PROVE  Largest(s) \in Int /\ \A i \in DOMAIN s : s[i] <= Largest(s)
<1> DEFINE n == Len(s)
<1>1. n \in Nat \ {0} /\ DOMAIN s = 1 .. n /\ s \in [1 .. n -> Int]
  BY EmptySeq, LenProperties
<1>2. PICK i \in 1 .. n : \A j \in 1 .. n : s[j] < s[i] \/ (s[j] = s[i] /\ i <= j)
  <2> HIDE DEF n
  <2> QED BY <1>1, FirstLargest
<1>3. ToSet(s) \in SUBSET Int /\ ToSet(s) # {} /\ s[i] \in Int
      /\ \A x \in ToSet(s) : x <= s[i]
  BY <1>1, <1>2 DEF ToSet
<1>4. Max(ToSet(s)) \in ToSet(s) /\ \A x \in ToSet(s) : Max(ToSet(s)) >= x
  BY <1>3, LargestInteger
<1> QED BY <1>1, <1>3, <1>4 DEF Largest, ToSet

\* The element of the place i is gone, the others are still there.
LEMMA WithoutOne ==
  ASSUME NEW s \in Seq(Int), NEW i \in DOMAIN s
  PROVE  /\ Without(s, i) \in Seq(Int) /\ Len(Without(s, i)) = Len(s) - 1
         /\ \A k \in DOMAIN Without(s, i) : \E j \in DOMAIN s \ {i} : Without(s, i)[k] = s[j]
<1> DEFINE n == Len(s)
           t == [s EXCEPT ![i] = s[n]]
<1>1. n \in Nat \ {0} /\ DOMAIN s = 1 .. n /\ i \in 1 .. n /\ n \in 1 .. n
      /\ \A j \in 1 .. n : s[j] \in Int
  BY LenProperties, ElementOfSeq
<1>2. t \in Seq(Int) /\ Len(t) = n
  <2>1. t \in [1 .. n -> Int]
    BY <1>1
  <2> HIDE DEF t, n
  <2>2. t \in Seq(Int) /\ DOMAIN t = 1 .. n
    BY <1>1, <2>1
  <2>3. DOMAIN t = 1 .. Len(t) /\ Len(t) \in Nat
    BY <2>2, LenProperties
  <2> QED BY <1>1, <2>2, <2>3
<1>3. \A k \in 1 .. n - 1 : t[k] = IF k = i THEN s[n] ELSE s[k]
  BY <1>1
<1>4. Without(s, i) = SubSeq(t, 1, n - 1)
  BY DEF Without
<1> HIDE DEF t, n
<1>5. /\ SubSeq(t, 1, n - 1) \in Seq(Int) /\ Len(SubSeq(t, 1, n - 1)) = n - 1
      /\ \A k \in 1 .. n - 1 : SubSeq(t, 1, n - 1)[k] = t[k]
  <2>1. CASE n = 1
    <3>1. SubSeq(t, 1, n - 1) = << >>
      BY <1>2, <2>1, SubSeqProperties
    <3>2. << >> \in Seq(Int) /\ Len(<< >>) = 0 /\ 1 .. n - 1 = {}
      BY <2>1, EmptySeq
    <3> QED BY <2>1, <3>1, <3>2
  <2>2. CASE n # 1
    BY <1>1, <1>2, <2>2, SubSeqProperties
  <2> QED BY <2>1, <2>2
<1>6. DOMAIN Without(s, i) = 1 .. n - 1
  BY <1>4, <1>5, LenProperties
<1>7. ASSUME NEW k \in 1 .. n - 1
      PROVE  \E j \in DOMAIN s \ {i} : Without(s, i)[k] = s[j]
  <2>1. k \in 1 .. n /\ k # n
    BY <1>1
  <2>2. CASE k = i
    BY <1>1, <1>3, <1>4, <1>5, <2>1, <2>2
  <2>3. CASE k # i
    BY <1>1, <1>3, <1>4, <1>5, <2>1, <2>3
  <2> QED BY <2>2, <2>3
<1> QED BY <1>4, <1>5, <1>6, <1>7 DEF n

\* filter_outliers pass by pass.
Unfiltered(s) == [kept |-> s, average |-> Average(s), gap |-> 0, done |-> FALSE]

Pass(before, minimum, allowed) ==
  LET gap  == Gap(before.kept)
      rest == Without(before.kept, Furthest(before.kept, before.average))
  IN  IF before.done \/ Len(before.kept) <= minimum THEN before
      ELSE IF gap < allowed THEN [before EXCEPT !.gap = gap, !.done = TRUE]
      ELSE [before EXCEPT !.kept = rest, !.average = Average(rest), !.gap = gap]

Passed(s, minimum, allowed, m, pass) ==
  pass = [n \in 0 .. m |-> IF n = 0 THEN Unfiltered(s)
                                    ELSE Pass(pass[n - 1], minimum, allowed)]

Passes(s, minimum, allowed) == CHOOSE pass : Passed(s, minimum, allowed, Len(s), pass)

LEMMA FilterByPasses ==
  ASSUME NEW s \in Seq(Int), NEW minimum, NEW allowed
  PROVE  FilterOutliers(s, minimum, allowed) = Passes(s, minimum, allowed)[Len(s)]
BY DEF FilterOutliers, Passes, Passed, Pass, Unfiltered

LEMMA PassByPass ==
  ASSUME NEW s \in Seq(Int), NEW minimum, NEW allowed
  PROVE  /\ Passes(s, minimum, allowed)[0] = Unfiltered(s)
         /\ \A n \in 0 .. Len(s) - 1 :
              Passes(s, minimum, allowed)[n + 1]
                = Pass(Passes(s, minimum, allowed)[n], minimum, allowed)
<1> DEFINE Exists(m) == \E f : Passed(s, minimum, allowed, m, f)
           S == {m \in Nat : Exists(m)}
<1>1. 0 \in S
  <2>1. 0 .. 0 = {0}
    OBVIOUS
  <2>2. Passed(s, minimum, allowed, 0, [n \in 0 .. 0 |-> Unfiltered(s)])
    BY <2>1 DEF Passed
  <2> QED BY <2>2
<1>2. ASSUME NEW m \in Nat, m \in S PROVE m + 1 \in S
  <2>1. PICK f : Passed(s, minimum, allowed, m, f)
    BY <1>2
  <2> DEFINE g == [n \in 0 .. m + 1 |-> IF n = m + 1 THEN Pass(f[m], minimum, allowed)
                                                     ELSE f[n]]
  <2>2. ASSUME NEW n \in 0 .. m + 1
        PROVE  g[n] = IF n = 0 THEN Unfiltered(s) ELSE Pass(g[n - 1], minimum, allowed)
    <3>1. CASE n = m + 1
      BY <3>1
    <3>2. CASE n # m + 1
      <4>1. n \in 0 .. m /\ g[n] = f[n] /\ (n # 0 => n - 1 \in 0 .. m /\ g[n - 1] = f[n - 1])
        BY <3>2
      <4>2. f[n] = IF n = 0 THEN Unfiltered(s) ELSE Pass(f[n - 1], minimum, allowed)
        BY <2>1, <4>1 DEF Passed
      <4> HIDE DEF g
      <4> QED BY <4>1, <4>2
    <3> QED BY <3>1, <3>2
  <2>3. g = [n \in 0 .. m + 1 |-> IF n = 0 THEN Unfiltered(s)
                                          ELSE Pass(g[n - 1], minimum, allowed)]
    BY <2>2
  <2>4. Passed(s, minimum, allowed, m + 1, g)
    <3> HIDE DEF g
    <3> QED BY <2>3 DEF Passed
  <2> QED BY <2>4
<1>3. Len(s) \in S
  <2> HIDE DEF S
  <2> QED BY <1>1, <1>2, SetInduction, LenProperties
<1>4. Passed(s, minimum, allowed, Len(s), Passes(s, minimum, allowed))
  BY <1>3 DEF Passes
<1> DEFINE p == Passes(s, minimum, allowed)
           l == Len(s)
<1>5. p = [n \in 0 .. l |-> IF n = 0 THEN Unfiltered(s) ELSE Pass(p[n - 1], minimum, allowed)]
      /\ l \in Nat
  BY <1>4, LenProperties DEF Passed
<1> HIDE DEF p, l
<1>6. \A n \in 0 .. l : p[n] = IF n = 0 THEN Unfiltered(s) ELSE Pass(p[n - 1], minimum, allowed)
  BY <1>5
<1>7. p[0] = Unfiltered(s)
  BY <1>5, <1>6
<1>8. \A n \in 0 .. l - 1 : p[n + 1] = Pass(p[n], minimum, allowed)
  <2> TAKE n \in 0 .. l - 1
  <2>1. n + 1 \in 0 .. l /\ n + 1 # 0 /\ (n + 1) - 1 = n
    BY <1>5
  <2> QED BY <1>6, <2>1
<1> QED BY <1>7, <1>8 DEF p, l

\* The gap is no less than zero.
LEMMA GapType ==
  ASSUME NEW s \in Seq(Int), s # << >>
  PROVE  Gap(s) \in Nat
<1>1. Len(s) \in DOMAIN s /\ s[Len(s)] \in Int
  BY EmptySeq, LenProperties, ElementOfSeq
<1>2. Largest(s) \in Int /\ s[Len(s)] <= Largest(s)
  BY <1>1, LargestOfSequence
<1> QED BY <1>1, <1>2 DEF Gap

\* What is known of the result of n passes.
Results == [kept : Seq(Int), average : Int, gap : Nat, done : BOOLEAN]

After(s, minimum, allowed, n, result) ==
  /\ result \in Results
  /\ \A k \in DOMAIN result.kept : \E j \in DOMAIN s : result.kept[k] = s[j]
  /\ result.average = Average(result.kept)
  /\ Len(result.kept) <= Len(s)
  /\ Len(result.kept) = Len(s) \/ Len(result.kept) >= minimum
  /\ \/ result.done /\ result.gap = Gap(result.kept) /\ result.gap < allowed
     \/ ~ result.done /\ (Len(result.kept) <= minimum \/ Len(result.kept) <= Len(s) - n)

LEMMA PassKeeps ==
  ASSUME NEW s \in Seq(Int), NEW minimum \in Nat, NEW allowed \in Int, NEW n \in Nat,
         NEW x, After(s, minimum, allowed, n, x)
  PROVE  After(s, minimum, allowed, n + 1, Pass(x, minimum, allowed))
<1> DEFINE t == x.kept
           y == Pass(x, minimum, allowed)
<1> SUFFICES After(s, minimum, allowed, n + 1, y)
  OBVIOUS
<1>1. /\ t \in Seq(Int) /\ x.average \in Int /\ x.gap \in Nat /\ x.done \in BOOLEAN
      /\ Len(t) \in Nat /\ Len(s) \in Nat /\ x.average = Average(t)
  BY LenProperties DEF After, Results
<1>2. CASE x.done
  <2>1. y = x
    BY <1>2 DEF Pass
  <2> QED BY <1>2, <2>1 DEF After
<1>3. CASE ~ x.done /\ Len(t) <= minimum
  <2>1. y = x
    BY <1>3 DEF Pass
  <2> QED BY <1>3, <2>1 DEF After
<1>4. CASE ~ x.done /\ ~ (Len(t) <= minimum)
  <2>1. t # << >> /\ Len(t) <= Len(s) - n
    BY <1>1, <1>4, EmptySeq DEF After
  <2>2. Gap(t) \in Nat
    BY <1>1, <2>1, GapType
  <2>3. CASE Gap(t) < allowed
    <3>1. y = [x EXCEPT !.gap = Gap(t), !.done = TRUE]
      BY <1>4, <2>3 DEF Pass
    <3>2. y.kept = t /\ y.average = x.average /\ y.gap = Gap(t) /\ y.done = TRUE
          /\ y \in Results
      BY <1>1, <2>2, <3>1 DEF After, Results
    <3> HIDE DEF y
    <3> QED BY <2>3, <3>2 DEF After
  <2>4. CASE ~ (Gap(t) < allowed)
    <3> DEFINE i == Furthest(t, x.average)
               u == Without(t, i)
    <3>1. i \in DOMAIN t
      BY <1>1, <2>1, FurthestType
    <3> HIDE DEF i
    <3>2. /\ u \in Seq(Int) /\ Len(u) = Len(t) - 1
          /\ \A k \in DOMAIN u : \E j \in DOMAIN t \ {i} : u[k] = t[j]
      BY <1>1, <3>1, WithoutOne
    <3> HIDE DEF u
    <3>3. Average(u) \in Int
      BY <3>2, AverageType
    <3>4. y = [x EXCEPT !.kept = u, !.average = Average(u), !.gap = Gap(t)]
      BY <1>4, <2>4 DEF Pass, u, i
    <3>5. /\ y.kept = u /\ y.average = Average(u) /\ y.gap = Gap(t) /\ y.done = FALSE
          /\ y \in Results
      BY <1>1, <1>4, <2>2, <3>2, <3>3, <3>4 DEF After, Results
    <3>6. \A k \in DOMAIN u : \E j \in DOMAIN s : u[k] = s[j]
      BY <3>2 DEF After
    <3>7. Len(u) <= Len(s) /\ Len(u) >= minimum /\ Len(u) <= Len(s) - (n + 1)
      BY <1>1, <1>4, <2>1, <3>2
    <3> HIDE DEF y
    <3> QED BY <3>5, <3>6, <3>7 DEF After
  <2> QED BY <2>3, <2>4
<1> QED BY <1>1, <1>2, <1>3, <1>4

\* The removal of outliers comes to its end: what is left are readings that it was given, as
\* many as are asked for if there were so many, with their average; and there are no more of
\* them than that, or the gap between them is smaller than allowed.
THEOREM OutliersRemoved ==
  ASSUME NEW s \in Seq(Int), NEW minimum \in Nat, NEW allowed \in Int
  PROVE  LET result == FilterOutliers(s, minimum, allowed)
         IN  /\ result \in Results
             /\ \A k \in DOMAIN result.kept : \E j \in DOMAIN s : result.kept[k] = s[j]
             /\ result.average = Average(result.kept)
             /\ Len(result.kept) = Len(s) \/ Len(result.kept) >= minimum
             /\ Len(result.kept) <= minimum
                  \/ (result.gap = Gap(result.kept) /\ result.gap < allowed)
<1> DEFINE p == Passes(s, minimum, allowed)
           l == Len(s)
           S == {n \in Nat : n <= l => After(s, minimum, allowed, n, p[n])}
<1>1. l \in Nat
  BY LenProperties
<1>2. p[0] = Unfiltered(s) /\ \A n \in 0 .. l - 1 : p[n + 1] = Pass(p[n], minimum, allowed)
  BY PassByPass
<1> HIDE DEF p
<1>3. 0 \in S
  <2> DEFINE x == Unfiltered(s)
  <2>1. /\ x.kept = s /\ x.average = Average(s) /\ x.gap = 0 /\ x.done = FALSE
        /\ x \in Results
    BY AverageType DEF Unfiltered, Results
  <2> HIDE DEF x
  <2>2. After(s, minimum, allowed, 0, x)
    BY <1>1, <2>1 DEF After
  <2> QED BY <1>2, <2>2 DEF x
<1>4. ASSUME NEW n \in Nat, n \in S PROVE n + 1 \in S
  <2> SUFFICES ASSUME n + 1 <= l PROVE After(s, minimum, allowed, n + 1, p[n + 1])
    OBVIOUS
  <2>1. n \in 0 .. l - 1 /\ n <= l
    BY <1>1
  <2>2. After(s, minimum, allowed, n, p[n]) /\ p[n + 1] = Pass(p[n], minimum, allowed)
    BY <1>2, <1>4, <2>1
  <2> QED BY <2>2, PassKeeps
<1>5. l \in S
  <2> HIDE DEF S
  <2> QED BY <1>1, <1>3, <1>4, SetInduction
<1>6. After(s, minimum, allowed, l, FilterOutliers(s, minimum, allowed))
  BY <1>1, <1>5, FilterByPasses DEF p
<1> DEFINE r == FilterOutliers(s, minimum, allowed)
<1>7. After(s, minimum, allowed, l, r) /\ l \in Nat
  BY <1>1, <1>6
<1>8. r.kept \in Seq(Int) /\ Len(r.kept) \in Nat
  BY <1>7, LenProperties DEF After, Results
<1> HIDE DEF r
<1>9. \/ Len(r.kept) <= minimum
      \/ r.gap = Gap(r.kept) /\ r.gap < allowed
  BY <1>7, <1>8 DEF After
<1> QED BY <1>7, <1>9 DEF After, r

\* Outliers or not, the average of what is kept lies between the bounds of the readings.
LEMMA FilteredIsBetween ==
  ASSUME NEW s \in Seq(Int), NEW minimum \in Nat, NEW allowed \in Int,
         NEW lo \in Int, NEW hi \in Int, lo <= 0, 0 <= hi,
         \A j \in DOMAIN s : lo <= s[j] /\ s[j] <= hi
  PROVE  LET average == FilterOutliers(s, minimum, allowed).average
         IN  average \in Int /\ lo <= average /\ average <= hi
<1> DEFINE r == FilterOutliers(s, minimum, allowed)
           t == r.kept
<1>1. /\ t \in Seq(Int) /\ r.average = Average(t)
      /\ \A k \in DOMAIN t : \E j \in DOMAIN s : t[k] = s[j]
  BY OutliersRemoved DEF Results
<1> HIDE DEF r
<1>2. \A k \in DOMAIN t : lo <= t[k] /\ t[k] <= hi
  BY <1>1
<1>3. CASE t = << >>
  BY <1>1, <1>3 DEF Average, r
<1>4. CASE t # << >>
  BY <1>1, <1>2, <1>4, AverageIsBetween DEF r
<1> QED BY <1>3, <1>4
-----------------------------------------------------------------------------
(* Curves *)

Curves == Seq([x : Int, y : Int])

\* The segments of a curve, and the first of some of them.
LEMMA SegmentsOfCurve ==
  ASSUME NEW curve \in Curves
  PROVE  /\ Len(curve) \in Nat /\ (curve # << >> => Len(curve) # 0)
         /\ \A i \in 1 .. Len(curve) : curve[i].x \in Int /\ curve[i].y \in Int
         /\ Segments(curve) \in SUBSET Nat
         /\ \A i \in Segments(curve) : i \in 1 .. Len(curve) /\ i + 1 \in 1 .. Len(curve)
<1>1. Len(curve) \in Nat /\ (curve # << >> => Len(curve) # 0)
  BY EmptySeq, LenProperties DEF Curves
<1>2. \A i \in 1 .. Len(curve) : curve[i] \in [x : Int, y : Int]
  BY ElementOfSeq DEF Curves
<1>3. \A i \in 1 .. Len(curve) : curve[i].x \in Int /\ curve[i].y \in Int
  BY <1>2
<1>4. \A i \in 1 .. Len(curve) - 1 : i \in 1 .. Len(curve) /\ i + 1 \in 1 .. Len(curve)
  BY <1>1
<1> QED BY <1>1, <1>3, <1>4 DEF Segments

LEMMA FirstIsLeast ==
  ASSUME NEW T \in SUBSET Nat, T # {}
  PROVE  First(T) \in T /\ \A j \in T : First(T) <= j
<1>1. \E i \in T : \A j \in T : i <= j
  BY LeastNatural
<1> QED BY <1>1 DEF First

\* Between two points.
LEMMA Interpolated ==
  ASSUME NEW a \in Int, NEW b \in Int, NEW n \in Nat \ {0}, NEW d \in Nat, d <= n,
         NEW lo \in Int, NEW hi \in Int, lo <= a, lo <= b, a <= hi, b <= hi
  PROVE  LET v == a + Quotient((b - a) * d, n)
         IN  v \in Int /\ lo <= v /\ v <= hi
<1> DEFINE e == b - a
           f == e * d
           q == Quotient(f, n)
<1>1. e \in Int /\ f \in Int /\ n \in Nat \ {0}
  OBVIOUS
<1>2. CASE e >= 0
  <2> HIDE DEF e
  <2>1. n * 0 <= f
    BY <1>1, <1>2
  <2>2. f <= n * e
    BY <1>1, <1>2
  <2> HIDE DEF f
  <2>3. q \in Int /\ 0 <= q /\ q <= e
    <3>1. 0 \in Int
      OBVIOUS
    <3> QED BY ONLY <1>1, <2>1, <2>2, <3>1, QuotientBounds
  <2> HIDE DEF q
  <2>4. a + q \in Int /\ lo <= a + q /\ a + q <= hi
    BY <2>3 DEF e
  <2> QED BY <2>4 DEF q, f, e
<1>3. CASE e < 0
  <2> HIDE DEF e
  <2>1. f <= n * 0
    BY <1>1, <1>3
  <2>2. n * e <= f
    BY <1>1, <1>3
  <2> HIDE DEF f
  <2>3. q \in Int /\ e <= q /\ q <= 0
    <3>1. 0 \in Int
      OBVIOUS
    <3> QED BY ONLY <1>1, <2>1, <2>2, <3>1, QuotientBounds
  <2> HIDE DEF q
  <2>4. a + q \in Int /\ lo <= a + q /\ a + q <= hi
    BY <2>3 DEF e
  <2> QED BY <2>4 DEF q, f, e
<1> QED BY <1>1, <1>2, <1>3

\* What is looked up lies between the lowest and the highest point, whatever the curve and
\* the order of its points.
THEOREM LookUpIsBetween ==
  ASSUME NEW curve \in Curves, NEW x \in Int, NEW lo \in Int, NEW hi \in Int,
         curve = << >> => lo <= 0 /\ 0 <= hi,
         \A i \in 1 .. Len(curve) : lo <= curve[i].y /\ curve[i].y <= hi
  PROVE  GetY(curve, x) \in Int /\ lo <= GetY(curve, x) /\ GetY(curve, x) <= hi
<1> DEFINE right == {i \in Segments(curve) : x < curve[i + 1].x}
           n     == Len(curve)
<1>1. CASE curve = << >>
  BY <1>1 DEF GetY
<1>2. CASE curve # << >>
  <2>1. /\ n \in Nat \ {0} /\ 1 \in 1 .. n /\ n \in 1 .. n
        /\ \A i \in 1 .. n : curve[i].x \in Int /\ curve[i].y \in Int
        /\ Segments(curve) \in SUBSET Nat
        /\ \A i \in Segments(curve) : i \in 1 .. n /\ i + 1 \in 1 .. n
    BY <1>2, SegmentsOfCurve
  <2>2. CASE x < curve[1].x
    BY <1>2, <2>1, <2>2 DEF GetY
  <2>3. CASE ~ (x < curve[1].x) /\ right = {}
    BY <1>2, <2>1, <2>3 DEF GetY
  <2>4. CASE ~ (x < curve[1].x) /\ right # {}
    <3> DEFINE i == First(right)
               a == curve[i]
               b == curve[i + 1]
    <3>1. i \in right /\ \A j \in right : i <= j
      <4>1. right \in SUBSET Nat
        BY <2>1
      <4> HIDE DEF right
      <4> QED BY <2>4, <4>1, FirstIsLeast
    <3>2. /\ i \in Segments(curve) /\ i \in 1 .. n /\ i + 1 \in 1 .. n
          /\ x < curve[i + 1].x
      <4> HIDE DEF i
      <4> QED BY <2>1, <3>1
    <3>3. GetY(curve, x) = a.y + (IF b.x - a.x = 0 THEN 0
                                  ELSE Quotient((b.y - a.y) * (x - a.x), b.x - a.x))
      BY <1>2, <2>4 DEF GetY
    <3> HIDE DEF i
    <3>4. a.x <= x
      <4>1. CASE i = 1
        BY <2>1, <2>4, <4>1
      <4>2. CASE i # 1
        <5> DEFINE j == i - 1
        <5>1. j \in Segments(curve) /\ j + 1 = i /\ ~ (i <= j)
          BY <2>1, <3>2, <4>2 DEF Segments
        <5> HIDE DEF j
        <5>2. j \notin right
          BY <3>1, <5>1
        <5>3. ~ (x < curve[j + 1].x)
          BY <5>1, <5>2
        <5> QED BY <2>1, <3>2, <5>1, <5>3
      <4> QED BY <4>1, <4>2
    <3>5. /\ a.x \in Int /\ a.y \in Int /\ b.x \in Int /\ b.y \in Int
          /\ lo <= a.y /\ a.y <= hi /\ lo <= b.y /\ b.y <= hi
      BY <2>1, <3>2
    <3> DEFINE m == b.x - a.x
               d == x - a.x
               p == a.y
               q == b.y
    <3>6. m \in Nat \ {0} /\ d \in Nat /\ d <= m
      BY <3>2, <3>4, <3>5
    <3>7. p \in Int /\ q \in Int /\ lo <= p /\ p <= hi /\ lo <= q /\ q <= hi
      BY <3>5
    <3>8. GetY(curve, x) = p + Quotient((q - p) * d, m)
      BY <3>3, <3>6
    <3> HIDE DEF m, d, p, q
    <3> DEFINE v == p + Quotient((q - p) * d, m)
    <3>9. v \in Int /\ lo <= v /\ v <= hi
      BY ONLY <3>6, <3>7, lo \in Int, hi \in Int, Interpolated
    <3> HIDE DEF v
    <3>10. GetY(curve, x) = v
      BY <3>8 DEF v
    <3> QED BY <3>9, <3>10
  <2> QED BY <2>2, <2>3, <2>4
<1> QED BY <1>1, <1>2

\* Finitely many integers lie between two bounds.
LEMMA BoundsExist ==
  ASSUME NEW f, NEW n \in Nat, \A i \in 1 .. n : f[i] \in Int
  PROVE  \E lo, hi \in Int :
           lo <= 0 /\ 0 <= hi /\ \A i \in 1 .. n : lo <= f[i] /\ f[i] <= hi
<1> DEFINE S == {m \in Nat : m <= n => \E lo, hi \in Int :
                   lo <= 0 /\ 0 <= hi /\ \A i \in 1 .. m : lo <= f[i] /\ f[i] <= hi}
<1>1. 0 \in S
  <2>1. \A i \in 1 .. 0 : 0 <= f[i] /\ f[i] <= 0
    OBVIOUS
  <2> QED BY <2>1
<1>2. ASSUME NEW m \in Nat, m \in S PROVE m + 1 \in S
  <2> SUFFICES ASSUME m + 1 <= n
               PROVE  \E lo, hi \in Int : lo <= 0 /\ 0 <= hi
                        /\ \A i \in 1 .. m + 1 : lo <= f[i] /\ f[i] <= hi
    OBVIOUS
  <2>1. PICK lo, hi \in Int :
          lo <= 0 /\ 0 <= hi /\ \A i \in 1 .. m : lo <= f[i] /\ f[i] <= hi
    BY <1>2
  <2> DEFINE v == f[m + 1]
             l == IF v < lo THEN v ELSE lo
             h == IF v > hi THEN v ELSE hi
  <2>2. v \in Int
    OBVIOUS
  <2>3. l \in Int /\ h \in Int /\ l <= lo /\ hi <= h /\ l <= v /\ v <= h
    BY <2>2
  <2>4. \A i \in 1 .. m + 1 : f[i] \in Int /\ (i \in 1 .. m \/ i = m + 1)
    OBVIOUS
  <2> HIDE DEF l, h
  <2>5. \A i \in 1 .. m + 1 : l <= f[i] /\ f[i] <= h
    BY <2>1, <2>3, <2>4
  <2>6. l <= 0 /\ 0 <= h
    BY <2>1, <2>3
  <2> QED BY <2>3, <2>5, <2>6
<1>3. n \in S
  <2> HIDE DEF S
  <2> QED BY <1>1, <1>2, SetInduction
<1> QED BY <1>3

LEMMA EndsOfScale ==
  ASSUME NEW f, NEW n \in Nat, \A i \in 1 .. n : f[i] \in Int
  PROVE  LET S == {0} \cup {f[i] : i \in 1 .. n}
         IN  /\ Min(S) \in Int /\ Max(S) \in Int /\ Min(S) <= 0 /\ 0 <= Max(S)
             /\ \A i \in 1 .. n : Min(S) <= f[i] /\ f[i] <= Max(S)
<1> DEFINE S == {0} \cup {f[i] : i \in 1 .. n}
<1>1. PICK lo, hi \in Int :
        lo <= 0 /\ 0 <= hi /\ \A i \in 1 .. n : lo <= f[i] /\ f[i] <= hi
  BY BoundsExist
<1>2. S \in SUBSET Int /\ S # {} /\ \A t \in S : lo <= t /\ t <= hi
  BY <1>1
<1>3. 0 \in S /\ \A i \in 1 .. n : f[i] \in S
  OBVIOUS
<1> HIDE DEF S
<1>4. Min(S) \in S /\ \A t \in S : Min(S) <= t
  BY <1>2, LeastInteger
<1>5. Max(S) \in S /\ \A t \in S : Max(S) >= t
  BY <1>2, LargestInteger
<1>6. Min(S) \in Int /\ Max(S) \in Int
  BY <1>2, <1>4, <1>5
<1>7. \A t \in S : t <= Max(S)
  BY <1>2, <1>5, <1>6
<1> QED BY <1>3, <1>4, <1>6, <1>7 DEF S

LEMMA GetYType ==
  ASSUME NEW curve \in Curves, NEW x \in Int
  PROVE  GetY(curve, x) \in Int
<1> DEFINE f == [i \in 1 .. Len(curve) |-> curve[i].y]
<1>1. Len(curve) \in Nat /\ \A i \in 1 .. Len(curve) : f[i] \in Int
  BY SegmentsOfCurve
<1> HIDE DEF f
<1>2. PICK lo, hi \in Int :
        lo <= 0 /\ 0 <= hi /\ \A i \in 1 .. Len(curve) : lo <= f[i] /\ f[i] <= hi
  BY <1>1, BoundsExist
<1>3. \A i \in 1 .. Len(curve) : lo <= curve[i].y /\ curve[i].y <= hi
  BY <1>2 DEF f
<1> QED BY <1>2, <1>3, LookUpIsBetween

\* At its points the curve has their values, if they are in order.
THEOREM LookUpMeetsPoints ==
  ASSUME NEW curve \in Curves, NEW k \in 1 .. Len(curve),
         \A i, j \in 1 .. Len(curve) : i < j => curve[i].x < curve[j].x
  PROVE  GetY(curve, curve[k].x) = curve[k].y
<1> DEFINE n     == Len(curve)
           x     == curve[k].x
           right == {i \in Segments(curve) : x < curve[i + 1].x}
<1>1. /\ n \in Nat /\ k \in 1 .. n /\ 1 \in 1 .. n /\ curve # << >>
      /\ \A i \in 1 .. n : curve[i].x \in Int /\ curve[i].y \in Int
      /\ Segments(curve) = 1 .. n - 1
  <2>1. curve = << >> => n = 0
    BY EmptySeq
  <2>2. n \in Nat /\ \A i \in 1 .. n : curve[i].x \in Int /\ curve[i].y \in Int
    BY SegmentsOfCurve
  <2>3. k \in 1 .. n /\ Segments(curve) = 1 .. n - 1
    BY DEF Segments
  <2> HIDE DEF n
  <2> QED BY <2>1, <2>2, <2>3
<1>2. ~ (x < curve[1].x)
  <2>1. CASE k = 1
    BY <1>1, <2>1
  <2>2. CASE k # 1
    BY <1>1, <2>2
  <2> QED BY <2>1, <2>2
<1>3. \A i \in 1 .. n - 1 : i \in right <=> k <= i
  <2> TAKE i \in 1 .. n - 1
  <2> HIDE DEF n
  <2>1. i + 1 \in 1 .. n /\ i \in Segments(curve) /\ k \in Int /\ i \in Int
    BY <1>1
  <2>2. CASE k <= i
    BY <1>1, <2>1, <2>2 DEF n
  <2>3. CASE k = i + 1
    BY <1>1, <2>1, <2>3
  <2>4. CASE i + 1 < k
    <3>1. curve[i + 1].x < curve[k].x /\ curve[i + 1].x \in Int /\ curve[k].x \in Int
      BY <1>1, <2>1, <2>4 DEF n
    <3> QED BY <2>1, <2>4, <3>1
  <2> QED BY <2>1, <2>2, <2>3, <2>4
<1>4. CASE k = n
  <2>1. right = {}
    BY <1>1, <1>3, <1>4
  <2> QED BY <1>1, <1>2, <1>4, <2>1 DEF GetY
<1>5. CASE k # n
  <2>1. k \in 1 .. n - 1 /\ k \in right /\ right \in SUBSET Nat
    <3>1. k \in 1 .. n - 1
      BY <1>1, <1>5
    <3>2. k \in right
      BY <1>1, <1>3, <3>1
    <3>3. right \in SUBSET Nat
      BY <1>1
    <3> QED BY <3>1, <3>2, <3>3
  <2>2. \A i \in right : k <= i
    BY <1>1, <1>3
  <2> DEFINE f == First(right)
  <2>3. f = k
    <3> HIDE DEF right
    <3>1. f \in right /\ f <= k
      BY <2>1, FirstIsLeast
    <3>2. k <= f /\ f \in Nat /\ k \in Nat
      BY <2>1, <2>2, <3>1
    <3> HIDE DEF f
    <3> QED BY <3>1, <3>2
  <2> DEFINE a == curve[k]
             b == curve[k + 1]
  <2>4. GetY(curve, x) = a.y + (IF b.x - a.x = 0 THEN 0
                                ELSE Quotient((b.y - a.y) * (x - a.x), b.x - a.x))
    BY <1>1, <1>2, <2>1, <2>3 DEF GetY
  <2>5. k + 1 \in 1 .. n /\ a.x \in Int /\ a.y \in Int /\ b.x \in Int /\ b.y \in Int
        /\ b.x - a.x # 0 /\ x - a.x = 0 /\ b.x - a.x \in Int
    <3>1. k + 1 \in 1 .. n /\ k < k + 1
      BY <1>1, <2>1
    <3>2. a.x \in Int /\ a.y \in Int /\ b.x \in Int /\ b.y \in Int
      BY <1>1, <3>1
    <3>3. a.x < b.x
      BY <1>1, <3>1
    <3> QED BY <3>1, <3>2, <3>3
  <2> DEFINE m == b.x - a.x
             e == b.y - a.y
  <2>6. m \in Int /\ m # 0 /\ e * (x - a.x) = 0
    BY <2>5
  <2>7. Quotient(0, m) = 0
    <3> HIDE DEF m
    <3>1. Abs(m) \in Nat \ {0} /\ Abs(0) = 0
      BY <2>6 DEF Abs
    <3>2. Abs(0) \div Abs(m) = 0
      BY <3>1
    <3> QED BY <3>2 DEF Quotient
  <2>8. GetY(curve, x) = a.y + 0
    BY <2>4, <2>6, <2>7
  <2> QED BY <2>5, <2>8
<1> QED BY <1>4, <1>5

\* Numerator and denominator with their signs changed.
LEMMA QuotientNegated ==
  ASSUME NEW a \in Int, NEW b \in Int, b # 0
  PROVE  Quotient(a, b) = Quotient(-a, -b)
<1>1. Abs(-a) = Abs(a) /\ Abs(-b) = Abs(b) /\ Abs(a) \in Nat /\ Abs(b) \in Nat \ {0}
  BY DEF Abs
<1> DEFINE q == Abs(a) \div Abs(b)
<1>2. q \in Int
  BY <1>1
<1>3. Quotient(a, b) = IF (a < 0) = (b < 0) THEN q ELSE -q
  BY DEF Quotient
<1>4. Quotient(-a, -b) = IF (-a < 0) = (-b < 0) THEN q ELSE -q
  BY <1>1 DEF Quotient
<1>5. CASE a # 0
  <2>1. ((a < 0) = (b < 0)) <=> ((-a < 0) = (-b < 0))
    BY <1>5
  <2> HIDE DEF q
  <2> QED BY <1>3, <1>4, <2>1
<1>6. CASE a = 0
  <2>1. q = 0
    <3>1. Abs(a) = 0
      BY <1>6 DEF Abs
    <3> QED BY <1>1, <3>1
  <2> HIDE DEF q
  <2> QED BY <1>3, <1>4, <2>1
<1> QED BY <1>5, <1>6

\* Where a value is looked up in reverse is on the curve, or zero.
THEOREM ReverseLookUpIsBetween ==
  ASSUME NEW curve \in Curves, NEW y \in Int, NEW lo \in Int, NEW hi \in Int,
         lo <= 0, 0 <= hi,
         \A i \in 1 .. Len(curve) : lo <= curve[i].x /\ curve[i].x <= hi
  PROVE  GetX(curve, y) \in Int /\ lo <= GetX(curve, y) /\ GetX(curve, y) <= hi
<1> DEFINE low(i)  == Min({curve[i].y, curve[i + 1].y})
           high(i) == Max({curve[i].y, curve[i + 1].y})
           through == {i \in Segments(curve) : low(i) <= y /\ y < high(i)}
<1>1. CASE through = {}
  BY <1>1 DEF GetX
<1>2. CASE through # {}
  <2> DEFINE i == First(through)
             a == curve[i]
             b == curve[i + 1]
  <2>1. /\ \A k \in 1 .. Len(curve) : curve[k].x \in Int /\ curve[k].y \in Int
        /\ Segments(curve) \in SUBSET Nat
        /\ \A k \in Segments(curve) : k \in 1 .. Len(curve) /\ k + 1 \in 1 .. Len(curve)
    BY SegmentsOfCurve
  <2>2. i \in through
    <3>1. through \in SUBSET Nat
      BY <2>1
    <3> HIDE DEF through
    <3> QED BY <1>2, <3>1, FirstIsLeast
  <2>3. GetX(curve, y) = a.x + Quotient((y - a.y) * (b.x - a.x), b.y - a.y)
    BY <1>2 DEF GetX
  <2>4. i \in Segments(curve) /\ low(i) <= y /\ y < high(i)
    <3> HIDE DEF i
    <3> QED BY <2>2
  <2> HIDE DEF i, through
  <2>5. /\ a.x \in Int /\ a.y \in Int /\ b.x \in Int /\ b.y \in Int
        /\ lo <= a.x /\ a.x <= hi /\ lo <= b.x /\ b.x <= hi
    BY <2>1, <2>4
  <2> DEFINE p == a.x
             q == b.x
             e == y - a.y
             m == b.y - a.y
  <2>6. p \in Int /\ q \in Int /\ lo <= p /\ p <= hi /\ lo <= q /\ q <= hi
        /\ lo \in Int /\ hi \in Int
    BY <2>5
  <2>7. \/ m \in Nat \ {0} /\ e \in Nat /\ e <= m
        \/ -m \in Nat \ {0} /\ -e \in Nat /\ -e <= -m
    <3> DEFINE u == a.y
               w == b.y
               l == low(i)
               h == high(i)
    <3>1. l = IF u <= w THEN u ELSE w
      BY <2>5, MinOfTwo
    <3>2. h = IF u >= w THEN u ELSE w
      BY <2>5, MaxOfTwo
    <3>3. u \in Int /\ w \in Int /\ l <= y /\ y < h
      BY <2>4, <2>5
    <3> HIDE DEF u, w, l, h
    <3>4. \/ w - u \in Nat \ {0} /\ y - u \in Nat /\ y - u <= w - u
          \/ -(w - u) \in Nat \ {0} /\ -(y - u) \in Nat /\ -(y - u) <= -(w - u)
      BY <3>1, <3>2, <3>3
    <3> QED BY <3>4 DEF u, w
  <2>8. m \in Int /\ e \in Int /\ e * (q - p) = (q - p) * e /\ (q - p) * e \in Int
    <3>1. m \in Int /\ e \in Int /\ q - p \in Int
      BY <2>5, <2>6
    <3> DEFINE r == q - p
    <3> HIDE DEF e, r
    <3>2. e * r = r * e /\ r * e \in Int
      <4>1. e \in Int /\ r \in Int
        BY <3>1 DEF r
      <4> QED BY <4>1, ProductType
    <3> QED BY <3>1, <3>2 DEF r
  <2>9. GetX(curve, y) = p + Quotient((q - p) * e, m)
    BY <2>3, <2>8
  <2> HIDE DEF p, q, e, m
  <2>10. CASE m \in Nat \ {0} /\ e \in Nat /\ e <= m
    <3> DEFINE v == p + Quotient((q - p) * e, m)
    <3>1. v \in Int /\ lo <= v /\ v <= hi
      BY ONLY <2>6, <2>10, Interpolated
    <3> HIDE DEF v
    <3>2. GetX(curve, y) = v
      BY <2>9 DEF v
    <3> QED BY <3>1, <3>2
  <2>11. CASE -m \in Nat \ {0} /\ -e \in Nat /\ -e <= -m
    <3> DEFINE d == -e
               n == -m
               v == p + Quotient((q - p) * d, n)
    <3>1. n \in Nat \ {0} /\ d \in Nat /\ d <= n
      BY <2>11
    <3>2. -((q - p) * e) = (q - p) * d /\ m # 0
      BY <2>6, <2>8, <2>11
    <3> HIDE DEF d
    <3>3. Quotient((q - p) * e, m) = Quotient((q - p) * d, n)
      <4> DEFINE f == (q - p) * e
      <4>1. f \in Int
        BY <2>8
      <4> HIDE DEF f
      <4>2. Quotient(f, m) = Quotient(-f, -m)
        BY ONLY <4>1, <2>8, <3>2, QuotientNegated
      <4> QED BY <3>2, <4>2 DEF f
    <3> HIDE DEF n
    <3>4. v \in Int /\ lo <= v /\ v <= hi
      BY ONLY <2>6, <3>1, Interpolated
    <3>5. GetX(curve, y) = v
      BY <2>9, <3>3
    <3> HIDE DEF v
    <3> QED BY <3>4, <3>5
  <2> QED BY <2>7, <2>10, <2>11
<1> QED BY <1>1, <1>2

LEMMA GetXType ==
  ASSUME NEW curve \in Curves, NEW y \in Int
  PROVE  GetX(curve, y) \in Int
<1> DEFINE f == [i \in 1 .. Len(curve) |-> curve[i].x]
<1>1. Len(curve) \in Nat /\ \A i \in 1 .. Len(curve) : f[i] \in Int
  BY SegmentsOfCurve
<1> HIDE DEF f
<1>2. PICK lo, hi \in Int :
        lo <= 0 /\ 0 <= hi /\ \A i \in 1 .. Len(curve) : lo <= f[i] /\ f[i] <= hi
  BY <1>1, BoundsExist
<1>3. \A i \in 1 .. Len(curve) : lo <= curve[i].x /\ curve[i].x <= hi
  BY <1>2 DEF f
<1> QED BY <1>2, <1>3, ReverseLookUpIsBetween
=============================================================================
