----------------------- MODULE SpeedConverter_proofs -----------------------
(***************************************************************************)
(* The speed converter for a ring of any size, any sensor, any thresholds  *)
(* of the filter and of the capture modes, and any curve to replay.        *)
(***************************************************************************)
EXTENDS SpeedConverter, Algorithms_proofs, FiniteSetTheorems, TLAPS

(* The readings that are taken *)

\* The order of the readings, as numbers: the newest has the least.
Order(slots, next, i) ==
  IF slots[i].age = Never THEN Slots + i ELSE (next - 1 - i) % Slots

LEMMA NewerHasLess ==
  ASSUME NEW slots, NEW next \in Int, NEW i \in Indices, NEW j \in Indices
  PROVE  /\ Order(slots, next, i) \in Nat
         /\ Newer(slots, next, i, j) <=> Order(slots, next, i) < Order(slots, next, j)
<1> DEFINE r(k) == (next - 1 - k) % Slots
<1>1. Slots \in Nat \ {0} /\ i \in Nat /\ j \in Nat
  BY SensorAssumption DEF Indices
<1>2. r(i) \in 0 .. Slots - 1 /\ r(j) \in 0 .. Slots - 1
  <2>1. next - 1 - i \in Int /\ next - 1 - j \in Int
    BY <1>1
  <2> QED BY <1>1, <2>1
<1>3. /\ Order(slots, next, i) = IF slots[i].age = Never THEN Slots + i ELSE r(i)
      /\ Order(slots, next, j) = IF slots[j].age = Never THEN Slots + j ELSE r(j)
      /\ Newer(slots, next, i, j) <=>
           IF slots[i].age = Never THEN slots[j].age = Never /\ i < j
           ELSE slots[j].age = Never \/ r(i) < r(j)
  BY DEF Order, Newer
<1> HIDE DEF r
<1> QED BY <1>1, <1>2, <1>3

\* Of some readings there is a newest one.
LEMMA NewestIsOne ==
  ASSUME NEW slots, NEW next \in Int, NEW S \in SUBSET Indices, S # {}
  PROVE  Newest(slots, next, S) \in S
<1> DEFINE T == {Order(slots, next, i) : i \in S}
<1>1. T \in SUBSET Nat /\ T # {}
  BY NewerHasLess
<1>2. PICK m \in T : \A n \in T : m <= n
  <2> HIDE DEF T
  <2> QED BY <1>1, LeastNatural
<1>3. PICK i \in S : m = Order(slots, next, i)
  BY <1>2
<1>4. \A j \in S : ~ Newer(slots, next, j, i)
  <2> TAKE j \in S
  <2>1. Order(slots, next, i) <= Order(slots, next, j)
    BY <1>2, <1>3
  <2>2. /\ Order(slots, next, i) \in Nat /\ Order(slots, next, j) \in Nat
        /\ Newer(slots, next, j, i) <=> Order(slots, next, j) < Order(slots, next, i)
    BY NewerHasLess
  <2> QED BY <2>1, <2>2
<1> QED BY <1>3, <1>4 DEF Newest

\* What is left of W when its newest readings are taken one by one.
WithoutNewest(slots, next, S) == S \ {Newest(slots, next, S)}

Taking(slots, next, W, n, left) ==
  left = [k \in 0 .. n |-> IF k = 0 THEN W ELSE left[k - 1] \ {Newest(slots, next, left[k - 1])}]

LeftOf(slots, next, W) == CHOOSE left : Taking(slots, next, W, Cardinality(W), left)

LEMMA LeftOneByOne ==
  ASSUME NEW slots, NEW next, NEW W, Cardinality(W) \in Nat
  PROVE  /\ LeftOf(slots, next, W)[0] = W
         /\ \A k \in 0 .. Cardinality(W) - 1 :
              LeftOf(slots, next, W)[k + 1] = WithoutNewest(slots, next, LeftOf(slots, next, W)[k])
<1> DEFINE Exists(m) == \E f : Taking(slots, next, W, m, f)
           S == {m \in Nat : Exists(m)}
           o(T) == T \ {Newest(slots, next, T)}
<1>1. 0 \in S
  <2>1. 0 .. 0 = {0}
    OBVIOUS
  <2>2. Taking(slots, next, W, 0, [n \in 0 .. 0 |-> W])
    BY <2>1 DEF Taking
  <2> QED BY <2>2
<1>2. ASSUME NEW m \in Nat, m \in S PROVE m + 1 \in S
  <2>1. PICK f : Taking(slots, next, W, m, f)
    BY <1>2
  <2> DEFINE g == [n \in 0 .. m + 1 |-> IF n = m + 1 THEN o(f[m]) ELSE f[n]]
  <2>2. ASSUME NEW n \in 0 .. m + 1
        PROVE  g[n] = IF n = 0 THEN W ELSE o(g[n - 1])
    <3>1. CASE n = m + 1
      BY <3>1
    <3>2. CASE n # m + 1
      <4>1. n \in 0 .. m /\ g[n] = f[n] /\ (n # 0 => n - 1 \in 0 .. m /\ g[n - 1] = f[n - 1])
        BY <3>2
      <4>2. f[n] = IF n = 0 THEN W ELSE o(f[n - 1])
        BY <2>1, <4>1 DEF Taking
      <4> HIDE DEF g, o
      <4> QED BY <4>1, <4>2
    <3> QED BY <3>1, <3>2
  <2>3. g = [n \in 0 .. m + 1 |-> IF n = 0 THEN W ELSE o(g[n - 1])]
    BY <2>2
  <2>4. Taking(slots, next, W, m + 1, g)
    <3> HIDE DEF g
    <3> QED BY <2>3 DEF Taking
  <2> QED BY <2>4
<1>3. Cardinality(W) \in S
  <2> HIDE DEF S
  <2> QED BY <1>1, <1>2, SetInduction
<1>4. Taking(slots, next, W, Cardinality(W), LeftOf(slots, next, W))
  BY <1>3 DEF LeftOf
<1> DEFINE p == LeftOf(slots, next, W)
           l == Cardinality(W)
<1>5. p = [n \in 0 .. l |-> IF n = 0 THEN W ELSE WithoutNewest(slots, next, p[n - 1])] /\ l \in Nat
  BY <1>4 DEF Taking, WithoutNewest
<1> HIDE DEF p, l
<1>6. \A n \in 0 .. l : p[n] = IF n = 0 THEN W ELSE WithoutNewest(slots, next, p[n - 1])
  BY <1>5
<1>7. p[0] = W
  BY <1>5, <1>6
<1>8. \A n \in 0 .. l - 1 : p[n + 1] = WithoutNewest(slots, next, p[n])
  <2> TAKE n \in 0 .. l - 1
  <2>1. n + 1 \in 0 .. l /\ n + 1 # 0 /\ (n + 1) - 1 = n
    BY <1>5
  <2> QED BY <1>6, <2>1
<1> QED BY <1>7, <1>8 DEF p, l

\* When fewer are taken than there are, there is a newest of those that are left.
LEMMA SomeAreLeft ==
  ASSUME NEW slots, NEW next \in Int, NEW W \in SUBSET Indices
  PROVE  /\ Cardinality(W) \in Nat
         /\ \A k \in 0 .. Cardinality(W) - 1 :
              Newest(slots, next, LeftOf(slots, next, W)[k]) \in W
<1> DEFINE c == Cardinality(W)
           left == LeftOf(slots, next, W)
           S == {k \in Nat : k <= c => /\ left[k] \in SUBSET W /\ IsFiniteSet(left[k])
                                       /\ Cardinality(left[k]) = c - k}
<1>1. IsFiniteSet(W) /\ c \in Nat
  <2>1. IsFiniteSet(Indices)
    <3>1. 0 \in Int /\ Slots - 1 \in Int
      BY SensorAssumption
    <3> QED BY <3>1, FS_Interval DEF Indices
  <2>2. IsFiniteSet(W)
    BY <2>1, FS_Subset
  <2> QED BY <2>2, FS_CardinalityType
<1>2. left[0] = W /\ \A k \in 0 .. c - 1 : left[k + 1] = WithoutNewest(slots, next, left[k])
  BY <1>1, LeftOneByOne
<1> HIDE DEF left, c
<1>3. ASSUME NEW k \in Nat, k < c, left[k] \in SUBSET W, IsFiniteSet(left[k]),
             Cardinality(left[k]) = c - k
      PROVE  Newest(slots, next, left[k]) \in left[k]
  <2>1. left[k] # {}
    <3>1. Cardinality(left[k]) # 0
      BY <1>1, <1>3
    <3> QED BY <3>1, FS_EmptySet
  <2>2. left[k] \in SUBSET Indices
    BY <1>3
  <2> QED BY <2>1, <2>2, NewestIsOne
<1>4. 0 \in S
  BY <1>1, <1>2 DEF c
<1>5. ASSUME NEW k \in Nat, k \in S PROVE k + 1 \in S
  <2> SUFFICES ASSUME k + 1 <= c
               PROVE  /\ left[k + 1] \in SUBSET W /\ IsFiniteSet(left[k + 1])
                      /\ Cardinality(left[k + 1]) = c - (k + 1)
    OBVIOUS
  <2>1. k < c /\ k \in 0 .. c - 1
    BY <1>1
  <2>2. left[k] \in SUBSET W /\ IsFiniteSet(left[k]) /\ Cardinality(left[k]) = c - k
    BY <1>1, <1>5, <2>1
  <2> DEFINE n == Newest(slots, next, left[k])
  <2>3. n \in left[k]
    BY <1>3, <2>1, <2>2
  <2>4. left[k + 1] = left[k] \ {n}
    BY <1>2, <2>1 DEF WithoutNewest
  <2> HIDE DEF n
  <2>5. IsFiniteSet(left[k] \ {n}) /\ Cardinality(left[k] \ {n}) = Cardinality(left[k]) - 1
    BY <2>2, <2>3, FS_RemoveElement
  <2> QED BY <1>1, <2>2, <2>4, <2>5
<1>6. Nat \subseteq S
  <2> HIDE DEF S
  <2> QED BY <1>4, <1>5, SetInduction
<1>7. \A k \in 0 .. c - 1 : Newest(slots, next, left[k]) \in W
  <2> TAKE k \in 0 .. c - 1
  <2>1. k \in Nat /\ k < c /\ k <= c
    BY <1>1
  <2>2. left[k] \in SUBSET W /\ IsFiniteSet(left[k]) /\ Cardinality(left[k]) = c - k
    BY <1>6, <2>1
  <2> QED BY <1>3, <2>1, <2>2
<1> QED BY <1>1, <1>7 DEF c, left

\* What is taken are readings that are not too old.
LEMMA TakenFromRing ==
  ASSUME NEW slots, NEW next \in Int, \A i \in Indices : slots[i].speed \in Nat
  PROVE  /\ Taken(slots, next) \in Seq(Nat)
         /\ \A k \in DOMAIN Taken(slots, next) :
              \E i \in Recent(slots) : Taken(slots, next)[k] = slots[i].speed
<1> DEFINE speed  == slots[Newest(slots, next, Recent(slots))].speed
           W      == {i \in Recent(slots) : slots[i].age <= SearchPeriod(speed)}
           number == Min({NumberToTake(speed), Cardinality(W)})
           left   == LeftOf(slots, next, W)
<1>1. CASE Recent(slots) = {}
  BY <1>1 DEF Taken
<1>2. CASE Recent(slots) # {}
  <2>1. Taken(slots, next) = [k \in 1 .. number |-> slots[Newest(slots, next, left[k - 1])].speed]
    BY <1>2 DEF Taken, LeftOf, Taking
  <2>2. Recent(slots) \in SUBSET Indices /\ W \in SUBSET Indices
    BY DEF Recent
  <2>3. Newest(slots, next, Recent(slots)) \in Indices
    BY <1>2, <2>2, NewestIsOne
  <2>4. speed \in Nat
    BY <2>3
  <2> HIDE DEF speed
  <2>5. W \subseteq Recent(slots)
    OBVIOUS
  <2> HIDE DEF W
  <2>6. /\ Cardinality(W) \in Nat
        /\ \A k \in 0 .. Cardinality(W) - 1 : Newest(slots, next, left[k]) \in W
    BY <2>2, SomeAreLeft
  <2> HIDE DEF left
  <2>7. number \in Nat /\ number <= Cardinality(W)
    <3>1. NumberToTake(speed) \in Nat
      <4>1. SpeedPerReading \in Nat \ {0}
        BY SensorAssumption
      <4>2. speed \div SpeedPerReading \in Nat
        BY <2>4, <4>1
      <4> QED BY <4>2 DEF NumberToTake
    <3> DEFINE m == NumberToTake(speed)
               c == Cardinality(W)
    <3>2. m \in Nat /\ c \in Nat
      BY <2>6, <3>1
    <3> HIDE DEF m, c
    <3>3. Min({m, c}) = IF m <= c THEN m ELSE c
      BY <3>2, MinOfTwo
    <3>4. Min({m, c}) \in Nat /\ Min({m, c}) <= c
      BY <3>2, <3>3
    <3> QED BY <3>4 DEF m, c
  <2> HIDE DEF number
  <2>8. \A k \in 1 .. number : Newest(slots, next, left[k - 1]) \in Recent(slots)
    <3> TAKE k \in 1 .. number
    <3>1. k - 1 \in 0 .. Cardinality(W) - 1
      BY <2>6, <2>7
    <3> QED BY <2>5, <2>6, <3>1
  <2> DEFINE t == Taken(slots, next)
  <2> HIDE DEF t
  <2>9. /\ DOMAIN t = 1 .. number
        /\ \A k \in 1 .. number : t[k] = slots[Newest(slots, next, left[k - 1])].speed
        /\ t = [k \in 1 .. number |-> t[k]]
    BY <2>1 DEF t
  <2>10. \A k \in 1 .. number : \E i \in Recent(slots) : t[k] = slots[i].speed
    BY <2>8, <2>9
  <2>11. \A k \in 1 .. number : t[k] \in Nat
    BY <2>2, <2>10
  <2>12. t \in Seq(Nat)
    BY <2>7, <2>9, <2>11
  <2> QED BY <2>9, <2>10, <2>12 DEF t
<1> QED BY <1>1, <1>2

\* The speed displayed is not above the readings.
LEMMA DisplayedIsBounded ==
  ASSUME NEW readings \in Seq(Nat), NEW top \in Nat,
         \A k \in DOMAIN readings : readings[k] <= top
  PROVE  Displayed(readings) \in 0 .. top
<1> DEFINE f == FilterOutliers(readings, MinReadings, AllowedGap)
<1>1. /\ MinReadings \in Nat /\ AllowedGap \in Int /\ 0 \in Int /\ top \in Int
      /\ 0 <= 0 /\ 0 <= top
  BY SensorAssumption
<1>2. Len(readings) \in Nat /\ readings \in [1 .. Len(readings) -> Nat]
      /\ DOMAIN readings = 1 .. Len(readings)
  OBVIOUS
<1>3. readings \in Seq(Int) /\ \A k \in DOMAIN readings : 0 <= readings[k] /\ readings[k] <= top
  <2>1. readings \in [1 .. Len(readings) -> Int]
    BY <1>2
  <2> QED BY <1>2, <2>1
<1>4. f.average \in Int /\ 0 <= f.average /\ f.average <= top
  BY ONLY <1>1, <1>3, FilteredIsBetween
<1> HIDE DEF f
<1>5. f.average \in 0 .. top /\ 0 \in 0 .. top
  BY <1>1, <1>4
<1>6. Displayed(readings) = 0 \/ Displayed(readings) = f.average
  BY DEF Displayed, f
<1> QED BY <1>5, <1>6

\* Standstill is what readings of zero stand for, however many there are.
LEMMA ZeroIsStandstill ==
  ASSUME NEW readings \in Seq(Nat), \A k \in DOMAIN readings : readings[k] = 0
  PROVE  Displayed(readings) = 0
<1>1. \A k \in DOMAIN readings : readings[k] <= 0
  OBVIOUS
<1>2. Displayed(readings) \in 0 .. 0
  BY <1>1, DisplayedIsBounded
<1> QED BY <1>2

-----------------------------------------------------------------------------
(* The types *)

Rings == [Indices -> [speed : 0 .. MaxSpeed, age : Never .. TooOld]]

Replayed == [playing : BOOLEAN, paused : BOOLEAN, at : 0 .. End, since : 0 .. End + 1]

\* What is being sent when the position of the replay is about to be stored is a position.
TypeInv == TypeOK /\ (cycleAt = "replay" => sending \in 0 .. End)

SensorType ==
  /\ ring \in Rings /\ position \in Indices /\ shown \in 0 .. MaxSpeed
  /\ capture \in CaptureModes /\ timer \in CaptureModes /\ restarted \in BOOLEAN
  /\ cycleAt \in {"idle", "reprogram", "output", "replay", "look", "send"}
  /\ ran \in BOOLEAN /\ pulses \in 0 .. Slots /\ car \in Speeds \cup {0, Unsettled}

OutputType ==
  /\ mode \in Modes /\ manual \in ManualSpeed \cup {0} /\ replay \in Replayed
  /\ sending \in Nat /\ output \in Nat /\ overtaken \in BOOLEAN /\ attended \in BOOLEAN

LEMMA TypeParts ==
  /\ TypeInv <=> /\ SensorType /\ OutputType
                 /\ cycleAt = "replay" => sending \in 0 .. End
  /\ TypeInv' <=> /\ SensorType' /\ OutputType'
                  /\ cycleAt' = "replay" => sending' \in 0 .. End
BY DEF TypeInv, TypeOK, SensorType, OutputType, Rings, Replayed

LEMMA SensorConstants ==
  /\ Slots \in Nat \ {0} /\ Validity \in Nat \ {0} /\ MaxSpeed \in Nat
  /\ TooOld \in Nat /\ TooOld = Validity + 1 /\ Never = -1
  /\ 0 \in Indices /\ Indices \subseteq Nat
  BY SensorAssumption DEF TooOld, Never, Indices

\* A pulse is measured as a natural number, also when the counter has just wrapped.
LEMMA AcceptedType ==
  ASSUME NEW speed \in Speeds, timer \in CaptureModes, capture \in CaptureModes
  PROVE  Accepted(speed) \subseteq 1 .. MaxSpeed
<1> DEFINE wrap == WrapSpeed[timer]
           left == wrap - speed * (wrap \div speed)
           seen == IF left = 0 THEN 0 ELSE (speed * wrap) \div left
           d == Divider[timer]
           e == Divider[capture]
<1>1. speed \in Nat \ {0} /\ MaxSpeed \in Nat
  BY SensorAssumption
<1>2. wrap \in Nat \ {0} /\ d \in Nat \ {0} /\ e \in Nat \ {0}
  <2>1. WrapSpeed \in [CaptureModes -> Nat \ {0}] /\ Divider \in [CaptureModes -> Nat \ {0}]
    BY SensorAssumption
  <2> QED BY <2>1
<1>3. Measured(speed) = (seen * d) \div e
  BY DEF Measured
<1> HIDE DEF wrap, d, e
<1>4. left \in Nat
  BY <1>1, <1>2
<1> HIDE DEF left
<1>5. seen \in Nat
  <2>1. CASE left = 0
    BY <2>1
  <2>2. CASE left # 0
    <3>1. speed * wrap \in Nat
      BY <1>1, <1>2
    <3> DEFINE w == speed * wrap
    <3> HIDE DEF w
    <3>2. w \div left \in Nat
      BY <1>4, <2>2, <3>1 DEF w
    <3> QED BY <2>2, <3>2 DEF w
  <2> QED BY <2>1, <2>2
<1> HIDE DEF seen
<1>6. Measured(speed) \in Nat
  <2> DEFINE w == seen * d
  <2>1. w \in Nat
    BY <1>2, <1>5
  <2> HIDE DEF w
  <2>2. w \div e \in Nat
    BY <1>2, <2>1
  <2> QED BY <1>3, <2>2 DEF w
<1> DEFINE n == Measured(speed)
<1>7. n \in Nat
  BY <1>6
<1>8. LargestPart(n) \in Nat
  <2> HIDE DEF n
  <2>1. (3 * n) \div 2 \in Nat /\ (6 * n) \div 5 \in Nat
    BY <1>7
  <2> QED BY <2>1 DEF LargestPart
<1>9. Accepted(speed) \subseteq {k \in Nat : 0 < k /\ k <= MaxSpeed}
  BY <1>7, <1>8 DEF Accepted, ValidReading
<1> QED BY <1>1, <1>9

\* A reading goes into the ring, and the next one after it.
LEMMA StoreType ==
  ASSUME ring \in Rings, position \in Indices, NEW reading \in 1 .. MaxSpeed, Store(reading)
  PROVE  /\ ring' \in Rings /\ position' \in Indices
         /\ position \in Indices /\ ring'[position].age = 0
<1>1. ring' = [ring EXCEPT ![position] = Reading(reading)] /\ position' = (position + 1) % Slots
  BY DEF Store, Next1
<1>2. Reading(reading) \in [speed : 0 .. MaxSpeed, age : Never .. TooOld]
      /\ Reading(reading).age = 0
  BY SensorConstants DEF Reading
<1>3. (position + 1) % Slots \in Indices
  <2>1. position + 1 \in Int /\ Slots \in Nat \ {0}
    BY SensorConstants
  <2> QED BY <2>1 DEF Indices
<1> QED BY <1>1, <1>2, <1>3 DEF Rings

\* The cycle takes readings from the ring, and displays none above them.
LEMMA TakenType ==
  ASSUME NEW r \in Rings, NEW next \in Indices
  PROVE  /\ Taken(r, next) \in Seq(Nat) /\ Displayed(Taken(r, next)) \in 0 .. MaxSpeed
         /\ \A k \in DOMAIN Taken(r, next) :
              \E i \in Recent(r) : Taken(r, next)[k] = r[i].speed
<1> DEFINE t == Taken(r, next)
<1>1. \A i \in Indices : r[i].speed \in 0 .. MaxSpeed
  BY DEF Rings
<1>2. /\ next \in Int /\ MaxSpeed \in Nat /\ \A i \in Indices : r[i].speed \in Nat
      /\ \A i \in Indices : r[i].speed <= MaxSpeed
  BY <1>1, SensorConstants
<1>3. t \in Seq(Nat) /\ \A k \in DOMAIN t : \E i \in Recent(r) : t[k] = r[i].speed
  BY <1>2, TakenFromRing
<1>4. \A k \in DOMAIN t : t[k] <= MaxSpeed
  BY <1>2, <1>3 DEF Recent
<1> HIDE DEF t
<1>5. Displayed(t) \in 0 .. MaxSpeed
  BY <1>2, <1>3, <1>4, DisplayedIsBounded
<1> QED BY <1>3, <1>5 DEF t

LEMMA NothingType ==
  /\ << >> \in Seq(Nat) /\ Displayed(<< >>) = 0 /\ Displayed(<< >>) \in 0 .. MaxSpeed
<1>1. Displayed(<< >>) = 0
  BY DEF Displayed
<1> QED BY <1>1, SensorConstants

\* The curve is not empty, its ticks and speeds are natural numbers.
LEMMA ReplayType ==
  End \in Nat /\ \A x \in Int : GetY(ReplayData, x) \in Nat
<1>1. ReplayData \in Seq([x : Nat, y : Nat]) /\ ReplayData # << >>
  BY ConverterAssumption
<1> DEFINE n == Len(ReplayData)
<1>2. /\ n \in Nat \ {0} /\ DOMAIN ReplayData = 1 .. n
      /\ \A i \in 1 .. n : ReplayData[i] \in [x : Nat, y : Nat]
  BY <1>1, EmptySeq, LenProperties, ElementOfSeq
<1>3. n \in 1 .. n
  BY <1>2
<1>4. End \in Nat
  BY <1>2, <1>3 DEF End
<1>5. ReplayData \in Curves
  <2> DEFINE T == [x : Int, y : Int]
  <2>1. \A i \in 1 .. n : ReplayData[i] \in T
    BY <1>2
  <2> DEFINE U == [x : Nat, y : Nat]
  <2>2. ReplayData \in [1 .. n -> U]
    <3> HIDE DEF U
    <3>1. ReplayData \in Seq(U)
      BY <1>1 DEF U
    <3> QED BY <3>1
  <2> HIDE DEF T, U, n
  <2>3. ReplayData \in [1 .. n -> T]
    BY <2>1, <2>2
  <2>4. ReplayData \in Seq(T)
    BY <1>2, <2>3
  <2> QED BY <2>4 DEF Curves, T
<1>6. ASSUME NEW x \in Int PROVE GetY(ReplayData, x) \in Nat
  <2> DEFINE f == [i \in 1 .. n |-> ReplayData[i].y]
  <2>1. \A i \in 1 .. n : f[i] = ReplayData[i].y /\ f[i] \in Nat /\ f[i] \in Int
    BY <1>2
  <2> HIDE DEF f
  <2>2. PICK lo, hi \in Int : 0 <= hi /\ \A i \in 1 .. n : f[i] <= hi
    BY <1>2, <2>1, BoundsExist
  <2>3. \A i \in 1 .. n : 0 <= ReplayData[i].y /\ ReplayData[i].y <= hi
    BY <2>1, <2>2
  <2>4. 0 \in Int /\ (ReplayData = << >> => 0 <= 0 /\ 0 <= hi)
    BY <2>2
  <2>5. GetY(ReplayData, x) \in Int /\ 0 <= GetY(ReplayData, x)
    BY <1>5, <2>3, <2>4, LookUpIsBetween
  <2> QED BY <2>5
<1> QED BY <1>4, <1>6

LEMMA InitTypeInv == Init => TypeInv
<1> SUFFICES ASSUME Init PROVE TypeInv
  OBVIOUS
<1>1. ring \in Rings
  BY SensorConstants DEF Init, SensorInit, Cleared, Rings
<1>2. position \in Indices /\ shown \in 0 .. MaxSpeed /\ pulses \in 0 .. Slots
  BY SensorConstants DEF Init, SensorInit
<1>3. SensorType
  BY <1>1, <1>2 DEF Init, SensorInit, SensorType, CaptureModes
<1>4. replay \in Replayed
  <2>1. PICK playing \in BOOLEAN, paused \in BOOLEAN :
          replay = [playing |-> playing, paused |-> paused, at |-> 0, since |-> 0]
    BY DEF Init
  <2>2. 0 \in 0 .. End /\ 0 \in 0 .. End + 1
    BY ReplayType
  <2> QED BY <2>1, <2>2 DEF Replayed
<1>5. OutputType
  BY <1>4 DEF Init, OutputType, Modes
<1>6. cycleAt # "replay"
  BY DEF Init, SensorInit
<1> QED BY <1>3, <1>5, <1>6, TypeParts

LEMMA PulseSeenType ==
  ASSUME SensorType, NEW n \in Nat, PulseSeen(n)
  PROVE  pulses' \in 0 .. Slots /\ restarted' \in BOOLEAN
<1>1. pulses \in Nat /\ Slots \in Nat
  BY SensorConstants DEF SensorType
<1> DEFINE m == pulses + n
<1>2. m \in Nat
  BY <1>1
<1>3. restarted' = FALSE /\ pulses' = IF car = Unsettled THEN 0 ELSE Min({m, Slots})
  BY DEF PulseSeen
<1> HIDE DEF m
<1>4. Min({m, Slots}) \in 0 .. Slots
  <2>1. Min({m, Slots}) = IF m <= Slots THEN m ELSE Slots
    BY <1>1, <1>2, MinOfTwo
  <2> QED BY <1>1, <1>2, <2>1
<1>5. 0 \in 0 .. Slots
  BY <1>1
<1>6. pulses' \in 0 .. Slots
  BY <1>3, <1>4, <1>5
<1>7. restarted' \in BOOLEAN
  BY <1>3
<1> QED BY <1>6, <1>7

LEMMA PulseTypes == TypeInv /\ Pulse => TypeInv'
<1> SUFFICES ASSUME TypeInv, Pulse PROVE TypeInv'
  OBVIOUS
<1>1. SensorType /\ OutputType /\ (cycleAt = "replay" => sending \in 0 .. End)
  BY TypeParts
<1>2. OutputType' /\ sending' = sending
  BY <1>1 DEF Pulse, OutputType, outVars
<1>3. CASE Capture
  <2>1. PICK speed \in Speeds : \E reading \in Accepted(speed) : Store(reading)
    BY <1>1, <1>3, SensorConstants DEF Capture, PulsesNow, PulsesBetween
  <2>2. PICK reading \in 1 .. MaxSpeed : Store(reading)
    BY <1>1, <2>1, AcceptedType DEF SensorType
  <2>3. ring' \in Rings /\ position' \in Indices
    BY <1>1, <2>2, StoreType DEF SensorType
  <2>4. pulses' \in 0 .. Slots /\ restarted' \in BOOLEAN
    BY <1>1, <1>3, PulseSeenType DEF Capture
  <2>5. SensorType' /\ cycleAt' = cycleAt
    BY <1>1, <1>3, <2>3, <2>4 DEF Capture, SensorType
  <2> QED BY <1>1, <1>2, <2>5, TypeParts
<1>4. CASE Refuse
  <2>1. pulses' \in 0 .. Slots /\ restarted' \in BOOLEAN
    BY <1>1, <1>4, PulseSeenType DEF Refuse
  <2>2. SensorType' /\ cycleAt' = cycleAt
    BY <1>1, <1>4, <2>1 DEF Refuse, SensorType, ringVars
  <2> QED BY <1>1, <1>2, <2>2, TypeParts
<1> QED BY <1>3, <1>4 DEF Pulse

\* The second part of a cycle, for whatever readings of the ring.
LEMMA ProcessType ==
  ASSUME SensorType, NEW readings, Displayed(readings) \in 0 .. MaxSpeed, Process(readings)
  PROVE  /\ shown' = Displayed(readings) /\ shown' \in 0 .. MaxSpeed
         /\ capture' \in CaptureModes /\ timer' \in CaptureModes
         /\ cycleAt = "idle" /\ cycleAt' \in {"reprogram", "output"}
         /\ ran' \in BOOLEAN /\ car' = car
BY DEF Process, CaptureMode, SensorType, CaptureModes

LEMMA ClearedRingType == ClearedRing \in Rings
BY SensorConstants DEF ClearedRing, Cleared, Rings

LEMMA RunCycleTypes == TypeInv /\ RunCycle => TypeInv'
<1> SUFFICES ASSUME TypeInv, RunCycle PROVE TypeInv'
  OBVIOUS
<1>1. SensorType /\ OutputType
  BY TypeParts
<1>2. OutputType'
  BY <1>1 DEF RunCycle, OutputType, outVars
<1>3. ASSUME NEW readings, Displayed(readings) \in 0 .. MaxSpeed, Process(readings),
             ring' \in Rings, position' \in Indices, pulses' \in 0 .. Slots,
             restarted' \in BOOLEAN
      PROVE  TypeInv'
  <2>1. /\ shown' \in 0 .. MaxSpeed
        /\ capture' \in CaptureModes /\ timer' \in CaptureModes
        /\ cycleAt' \in {"reprogram", "output"}
        /\ ran' \in BOOLEAN /\ car' = car
    BY <1>1, <1>3, ProcessType
  <2>2. SensorType' /\ cycleAt' # "replay"
    BY <1>1, <1>3, <2>1 DEF SensorType
  <2> QED BY <1>2, <2>2, TypeParts
<1>4. CASE Cycle
  <2>1. Displayed(Taken(ring, position)) \in 0 .. MaxSpeed
    BY <1>1, TakenType DEF SensorType
  <2>2. ring' \in Rings
    BY <1>1, <1>4, ClearedRingType DEF Cycle, SensorType
  <2>3. Process(Taken(ring, position)) /\ UNCHANGED <<position, restarted, pulses>>
    BY <1>4 DEF Cycle
  <2> QED BY <1>1, <1>3, <2>1, <2>2, <2>3 DEF SensorType
<1>5. CASE TornCopy
  <2> DEFINE r == [ring EXCEPT ![position].age = 0]
             n == Next1(position)
  <2>1. r \in Rings
    BY <1>1, SensorConstants DEF SensorType, Rings
  <2>2. PICK speed \in Speeds : \E reading \in Accepted(speed) : Store(reading)
    BY <1>5 DEF TornCopy, PulsesBetween
  <2>3. PICK reading \in 1 .. MaxSpeed : Store(reading)
    BY <1>1, <2>2, AcceptedType DEF SensorType
  <2>4. ring' \in Rings /\ position' \in Indices
    BY <1>1, <2>3, StoreType DEF SensorType
  <2>5. n \in Indices
    BY <2>3, <2>4 DEF Store
  <2>6. Process(Taken(r, n)) /\ PulseSeen(1)
    BY <1>5 DEF TornCopy
  <2> HIDE DEF r, n
  <2>7. Displayed(Taken(r, n)) \in 0 .. MaxSpeed
    BY <2>1, <2>5, TakenType
  <2>8. pulses' \in 0 .. Slots /\ restarted' \in BOOLEAN
    BY <1>1, <2>6, PulseSeenType
  <2> QED BY <1>3, <2>4, <2>6, <2>7, <2>8
<1>6. CASE TornClear
  <2>1. PICK speed \in Speeds : \E reading \in Accepted(speed) :
          ring' = [ClearedRing EXCEPT ![position] = [Cleared EXCEPT !.speed = reading]]
    BY <1>6 DEF TornClear, PulsesBetween
  <2>2. PICK reading \in 1 .. MaxSpeed :
          ring' = [ClearedRing EXCEPT ![position] = [Cleared EXCEPT !.speed = reading]]
    BY <1>1, <2>1, AcceptedType DEF SensorType
  <2>3. [Cleared EXCEPT !.speed = reading] \in [speed : 0 .. MaxSpeed, age : Never .. TooOld]
    BY <2>2, SensorConstants DEF Cleared
  <2>4. ring' \in Rings
    BY <2>2, <2>3, ClearedRingType DEF Rings
  <2>5. position' \in Indices
    <3>1. position' = (position + 1) % Slots /\ position + 1 \in Int /\ Slots \in Nat \ {0}
      BY <1>1, <1>6, SensorConstants DEF TornClear, Next1, SensorType
    <3> QED BY <3>1 DEF Indices
  <2>6. pulses' \in 0 .. Slots /\ restarted' \in BOOLEAN
    BY <1>1, <1>6, PulseSeenType DEF TornClear
  <2>7. Process(<< >>)
    BY <1>6 DEF TornClear
  <2> QED BY <1>3, <2>4, <2>5, <2>6, <2>7, NothingType
<1> QED BY <1>4, <1>5, <1>6 DEF RunCycle

\* The steps of the output leave the sensor alone but for where the cycle is.
LEMMA OutputStepTypes == TypeInv /\ Output => TypeInv'
<1> SUFFICES ASSUME TypeInv, Output PROVE TypeInv'
  OBVIOUS
<1>1. SensorType /\ OutputType /\ (cycleAt = "replay" => sending \in 0 .. End)
  BY TypeParts
<1>2. /\ ring' = ring /\ position' = position /\ shown' = shown /\ capture' = capture
      /\ timer' = timer /\ restarted' = restarted /\ ran' = ran /\ pulses' = pulses
      /\ car' = car /\ mode' = mode /\ manual' = manual /\ attended' = attended
  BY DEF Output, Choose, ChooseReplay, Advance, LookUp, Send, ringVars, timerVars
<1>3. cycleAt' \in {"idle", "replay", "look", "send"} => SensorType'
  BY <1>1, <1>2 DEF SensorType
<1>4. ASSUME cycleAt' \in {"idle", "replay", "look", "send"}, sending' \in Nat,
             output' \in Nat, overtaken' \in BOOLEAN, replay' \in Replayed,
             cycleAt' = "replay" => sending' \in 0 .. End
      PROVE  TypeInv'
  <2>1. OutputType'
    BY <1>1, <1>2, <1>4 DEF OutputType
  <2> QED BY <1>3, <1>4, <2>1, TypeParts
<1>5. replay \in Replayed /\ sending \in Nat /\ output \in Nat /\ overtaken \in BOOLEAN
  BY <1>1 DEF OutputType
<1>6. CASE Choose
  <2>1. Kmph(shown) \in Nat
    <3>1. shown \in Nat
      BY <1>1, SensorConstants DEF SensorType
    <3> QED BY <3>1 DEF Kmph
  <2>2. manual \in Nat
    BY <1>1, ConverterAssumption DEF OutputType
  <2>3. sending' \in Nat
    BY <1>6, <2>1, <2>2 DEF Choose
  <2>4. cycleAt' = "send" /\ output' = output /\ overtaken' = FALSE /\ replay' = replay
    BY <1>6 DEF Choose
  <2> QED BY <1>4, <1>5, <2>3, <2>4
<1>7. CASE ChooseReplay
  <2>1. Position(replay) \in 0 .. End
    <3>1. replay.at \in 0 .. End /\ replay.since \in 0 .. End + 1 /\ End \in Nat
      BY <1>5, ReplayType DEF Replayed
    <3> QED BY <3>1 DEF Position
  <2>2. sending' \in 0 .. End /\ sending' \in Nat
    BY <1>7, <2>1, ReplayType DEF ChooseReplay
  <2>3. /\ cycleAt' \in {"replay", "look"} /\ output' = output /\ overtaken' = FALSE
        /\ replay' = replay
    BY <1>7 DEF ChooseReplay
  <2> QED BY <1>4, <1>5, <2>2, <2>3
<1>8. CASE Advance
  <2>1. sending \in 0 .. End /\ End \in Nat
    BY <1>1, <1>8, ReplayType DEF Advance
  <2>2. replay' \in Replayed
    <3>1. 0 \in 0 .. End + 1
      BY <2>1
    <3> QED BY <1>5, <1>8, <2>1, <3>1 DEF Advance, Replayed
  <2>3. cycleAt' = "look" /\ output' = output /\ overtaken' = overtaken /\ sending' = sending
    BY <1>8 DEF Advance
  <2> QED BY <1>4, <1>5, <2>2, <2>3
<1>9. CASE LookUp
  <2>1. sending' \in Nat
    <3>1. replay.at \in Int
      BY <1>5, ReplayType DEF Replayed
    <3> QED BY <1>9, <3>1, ReplayType DEF LookUp
  <2>2. cycleAt' = "send" /\ output' = output /\ overtaken' = overtaken /\ replay' = replay
    BY <1>9 DEF LookUp
  <2> QED BY <1>4, <1>5, <2>1, <2>2
<1>10. CASE Send
  <2>1. /\ cycleAt' = "idle" /\ output' = sending /\ overtaken' = overtaken
        /\ replay' = replay /\ sending' = 0
    BY <1>10 DEF Send
  <2> QED BY <1>4, <1>5, <2>1
<1> QED BY <1>6, <1>7, <1>8, <1>9, <1>10 DEF Output

\* What the commands do to the replay keeps its position on the curve.
LEMMA ReplayCommands ==
  ASSUME NEW r \in Replayed
  PROVE  Stopped(r) \in Replayed /\ Played(r) \in Replayed
<1>1. 0 \in 0 .. End /\ 0 \in 0 .. End + 1
  BY ReplayType
<1>2. Stopped(r) \in Replayed
  BY DEF Stopped, Replayed
<1>3. Played(r) \in Replayed
  BY <1>1 DEF Played, Replayed
<1> QED BY <1>2, <1>3

LEMMA CommandTypes == TypeInv /\ (SetMode \/ SetManual) => TypeInv'
<1> SUFFICES ASSUME TypeInv, SetMode \/ SetManual PROVE TypeInv'
  OBVIOUS
<1>1. SensorType /\ OutputType /\ (cycleAt = "replay" => sending \in 0 .. End)
  BY TypeParts
<1>2. /\ UNCHANGED sensorVars
      /\ sending' = sending /\ output' = output /\ attended' = attended /\ overtaken' = TRUE
  BY DEF SetMode, SetManual, Command
<1>3. SensorType' /\ cycleAt' = cycleAt
  BY <1>1, <1>2 DEF SensorType, sensorVars, ringVars, timerVars
<1>4. mode' \in Modes /\ manual' \in ManualSpeed \cup {0}
  BY <1>1 DEF SetMode, SetManual, OutputType
<1>5. replay' \in Replayed
  <2>1. replay \in Replayed
    BY <1>1 DEF OutputType
  <2>2. Stopped(replay) \in Replayed /\ Played(Stopped(replay)) \in Replayed
    BY <2>1, ReplayCommands
  <2> QED BY <2>1, <2>2 DEF SetMode, SetManual
<1>6. OutputType'
  BY <1>1, <1>2, <1>4, <1>5 DEF OutputType
<1> QED BY <1>1, <1>2, <1>3, <1>6, TypeParts

\* A tick makes the readings older, the oldest not.
LEMMA ElapseTypes == TypeInv /\ Elapse => TypeInv'
<1> SUFFICES ASSUME TypeInv, Elapse PROVE TypeInv'
  OBVIOUS
<1>1. SensorType /\ OutputType
  BY TypeParts
<1>2. \A age \in Never .. TooOld : Older(age) \in Never .. TooOld
  <2> TAKE age \in Never .. TooOld
  <2>1. age \in Int /\ age + 1 \in Int /\ TooOld \in Int /\ age <= TooOld /\ -1 <= age
    BY SensorConstants
  <2>2. Min({age + 1, TooOld}) = IF age + 1 <= TooOld THEN age + 1 ELSE TooOld
    BY <2>1, MinOfTwo
  <2> QED BY <2>1, <2>2, SensorConstants DEF Older
<1>3. ring' \in Rings
  <2>1. \A i \in Indices : [ring[i] EXCEPT !.age = Older(@)]
                             \in [speed : 0 .. MaxSpeed, age : Never .. TooOld]
    BY <1>1, <1>2 DEF SensorType, Rings
  <2> QED BY <2>1 DEF Elapse, SensorElapse, Rings
<1>4. SensorType' /\ cycleAt' = cycleAt /\ cycleAt = "idle"
  <2>1. 0 \in 0 .. Slots
    BY SensorConstants
  <2> QED BY <1>1, <1>3, <2>1 DEF Elapse, SensorElapse, SensorType, timerVars
<1>5. replay' \in Replayed
  <2>1. replay \in Replayed /\ replay.since \in 0 .. End + 1 /\ End \in Nat
    BY <1>1, ReplayType DEF OutputType, Replayed
  <2> DEFINE s == replay.since + 1
             t == End + 1
  <2>2. s \in Nat /\ t \in Nat
    BY <2>1
  <2> HIDE DEF s
  <2>3. Min({s, t}) \in 0 .. t
    <3> HIDE DEF t
    <3>1. Min({s, t}) = IF s <= t THEN s ELSE t
      BY <2>2, MinOfTwo
    <3> QED BY <2>2, <3>1
  <2>4. replay' = replay \/ replay' = [replay EXCEPT !.since = Min({s, t})]
    BY DEF Elapse, s
  <2> DEFINE m == Min({s, t})
  <2> HIDE DEF m
  <2>5. m \in 0 .. End + 1 /\ (replay' = replay \/ replay' = [replay EXCEPT !.since = m])
    BY <2>3, <2>4 DEF m
  <2> QED BY <2>1, <2>5 DEF Replayed
<1>6. OutputType'
  BY <1>1, <1>5 DEF Elapse, OutputType
<1> QED BY <1>4, <1>6, TypeParts

LEMMA NextTypeInv == TypeInv /\ [Next]_vars => TypeInv'
<1> SUFFICES ASSUME TypeInv, [Next]_vars PROVE TypeInv'
  OBVIOUS
<1>1. SensorType /\ OutputType /\ (cycleAt = "replay" => sending \in 0 .. End)
  BY TypeParts
<1>2. CASE Switch
  <2>1. SensorType' /\ cycleAt' = "output"
    BY <1>1, <1>2 DEF Switch, Reprogram, SensorType, ringVars
  <2>2. OutputType'
    BY <1>1, <1>2 DEF Switch, OutputType, outVars
  <2> QED BY <2>1, <2>2, TypeParts
<1>3. CASE Settle
  <2>1. SensorType' /\ cycleAt' = cycleAt
    BY <1>1, <1>3 DEF Settle, SensorSettle, SensorType, ringVars, timerVars
  <2>2. OutputType' /\ sending' = sending
    BY <1>1, <1>3 DEF Settle, OutputType, outVars
  <2> QED BY <1>1, <2>1, <2>2, TypeParts
<1>4. CASE UNCHANGED vars
  <2>1. SensorType' /\ cycleAt' = cycleAt
    BY <1>1, <1>4 DEF vars, sensorVars, SensorType, ringVars, timerVars
  <2>2. OutputType' /\ sending' = sending
    BY <1>1, <1>4 DEF vars, OutputType, outVars
  <2> QED BY <1>1, <2>1, <2>2, TypeParts
<1> QED BY <1>2, <1>3, <1>4, PulseTypes, RunCycleTypes, OutputStepTypes, CommandTypes,
           ElapseTypes DEF Next

LEMMA SpecTypeInv == Spec => []TypeInv
  BY InitTypeInv, NextTypeInv, PTL DEF Spec

\* The variables keep their types: whatever the pulses are, in the ring are only valid
\* readings, the index into it stays within it, what is displayed is no faster than the
\* fastest valid reading, and the replay stays on its curve.
THEOREM TypeCorrect == Spec => []TypeOK
<1>1. TypeInv => TypeOK
  BY DEF TypeInv
<1> QED BY <1>1, SpecTypeInv, PTL

-----------------------------------------------------------------------------
(* Standstill *)

\* In a ring of readings that are too old or cleared, only cleared ones are taken.
LEMMA SilentIsZero ==
  ASSUME SensorType, Silent, ~ Phantom
  PROVE  Displayed(Taken(ring, position)) = 0
<1> DEFINE t == Taken(ring, position)
<1>1. t \in Seq(Nat) /\ \A k \in DOMAIN t : \E i \in Recent(ring) : t[k] = ring[i].speed
  BY TakenType DEF SensorType
<1>2. \A i \in Recent(ring) : ring[i].speed = 0
  <2> TAKE i \in Recent(ring)
  <2>1. i \in Indices /\ ring[i].age <= Validity
    BY DEF Recent
  <2>2. ring[i].age # TooOld
    BY <2>1, SensorConstants
  <2>3. ring[i].age = Never
    BY <2>1, <2>2 DEF Silent
  <2> QED BY <2>1, <2>3 DEF Phantom
<1>3. \A k \in DOMAIN t : t[k] = 0
  BY <1>1, <1>2
<1> HIDE DEF t
<1>4. Displayed(t) = 0
  BY <1>1, <1>3, ZeroIsStandstill
<1> QED BY <1>4 DEF t

\* A pulse that is stored ends the silence.
LEMMA StoredIsHeard ==
  ASSUME SensorType, NEW reading \in 1 .. MaxSpeed, Store(reading)
  PROVE  ~ Silent'
<1>1. position \in Indices /\ ring'[position].age = 0
  BY StoreType DEF SensorType
<1>2. 0 # Never /\ 0 # TooOld
  BY SensorConstants
<1> QED BY <1>1, <1>2 DEF Silent

LEMMA NextStandstill == TypeInv /\ StandstillIsShown /\ [Next]_vars => StandstillIsShown'
<1> SUFFICES ASSUME TypeInv, StandstillIsShown, [Next]_vars PROVE StandstillIsShown'
  OBVIOUS
<1>1. SensorType
  BY TypeParts
<1>2. CASE UNCHANGED <<ring, shown, ran>>
  BY <1>2 DEF StandstillIsShown, Silent, Phantom
<1>3. ASSUME NEW speed \in Speeds, \E reading \in Accepted(speed) : Store(reading)
      PROVE  ~ Silent'
  <2>1. PICK reading \in 1 .. MaxSpeed : Store(reading)
    BY <1>1, <1>3, AcceptedType DEF SensorType
  <2> QED BY <1>1, <2>1, StoredIsHeard
<1>4. CASE Pulse
  <2>1. CASE Capture
    <3>1. ~ Silent'
      BY <1>1, <1>3, <2>1 DEF Capture, PulsesNow, PulsesBetween
    <3> QED BY <3>1 DEF StandstillIsShown
  <2>2. CASE Refuse
    BY <1>2, <2>2 DEF Refuse, ringVars
  <2> QED BY <1>4, <2>1, <2>2 DEF Pulse
<1>5. CASE RunCycle
  <2>1. CASE Cycle
    <3> DEFINE t == Taken(ring, position)
    <3>1. shown' = Displayed(t) /\ (t = << >> \/ ring' = ring)
      BY <2>1 DEF Cycle, Process
    <3> HIDE DEF t
    <3>2. CASE t = << >>
      BY <3>1, <3>2, NothingType DEF StandstillIsShown
    <3>3. CASE ring' = ring
      <4>1. Silent' => Silent
        BY <3>3 DEF Silent
      <4>2. Phantom => Phantom'
        BY <3>3 DEF Phantom
      <4>3. Silent /\ ~ Phantom => Displayed(t) = 0
        BY <1>1, SilentIsZero DEF t
      <4> QED BY <3>1, <4>1, <4>2, <4>3 DEF StandstillIsShown
    <3> QED BY <3>1, <3>2, <3>3
  <2>2. CASE TornCopy
    <3>1. ~ Silent'
      BY <1>3, <2>2 DEF TornCopy, PulsesBetween
    <3> QED BY <3>1 DEF StandstillIsShown
  <2>3. CASE TornClear
    <3>1. shown' = 0
      BY <2>3, NothingType DEF TornClear, Process
    <3> QED BY <3>1 DEF StandstillIsShown
  <2> QED BY <1>5, <2>1, <2>2, <2>3 DEF RunCycle
<1>6. CASE Switch
  BY <1>2, <1>6 DEF Switch, Reprogram, ringVars
<1>7. CASE Output
  BY <1>2, <1>7 DEF Output, Choose, ChooseReplay, Advance, LookUp, Send, ringVars
<1>8. CASE SetMode \/ SetManual
  BY <1>2, <1>8 DEF SetMode, SetManual, Command, sensorVars, ringVars
<1>9. CASE Elapse
  <2>1. ran' = FALSE
    BY <1>9 DEF Elapse, SensorElapse
  <2> QED BY <2>1 DEF StandstillIsShown
<1>10. CASE Settle
  BY <1>2, <1>10 DEF Settle, SensorSettle, ringVars
<1>11. CASE UNCHANGED vars
  BY <1>2, <1>11 DEF vars, sensorVars, ringVars
<1> QED BY <1>4, <1>5, <1>6, <1>7, <1>8, <1>9, <1>10, <1>11 DEF Next

\* When all readings are too old or cleared, the cycle displays standstill, unless a pulse
\* that interrupted the clearing has left a speed without its time; whatever the speed was
\* before, and the size of the ring, the filter and its thresholds.
THEOREM StandstillStaysShown == Spec => []StandstillIsShown
<1>1. Init => StandstillIsShown
  BY DEF Init, SensorInit, StandstillIsShown
<1> QED BY <1>1, NextStandstill, SpecTypeInv, PTL DEF Spec

-----------------------------------------------------------------------------
(* What is sent out *)

\* What Cyc100ms has done of an output is what is called for, or a command came since.
CurrentInv ==
  /\ cycleAt \in {"replay", "look"} => overtaken \/ mode = "replay"
  /\ cycleAt = "send" => overtaken \/ sending = Called
  /\ OutputIsCurrent

LEMMA NextCurrent == TypeInv /\ CurrentInv /\ [Next]_vars => CurrentInv'
<1> SUFFICES ASSUME TypeInv, CurrentInv, [Next]_vars PROVE CurrentInv'
  OBVIOUS
<1>1. SensorType
  BY TypeParts
<1>2. CASE UNCHANGED <<cycleAt, overtaken, mode, manual, sending, output, shown>>
           /\ replay'.at = replay.at
  <2>1. Called' = Called
    BY <1>2 DEF Called, Kmph
  <2> QED BY <1>2, <2>1 DEF CurrentInv, OutputIsCurrent
<1>3. CASE Pulse
  BY <1>2, <1>3 DEF Pulse, Capture, Refuse, outVars
<1>4. CASE RunCycle
  <2>1. cycleAt' \in {"reprogram", "output"}
    BY <1>4 DEF RunCycle, Cycle, TornCopy, TornClear, Process
  <2> QED BY <2>1 DEF CurrentInv, OutputIsCurrent
<1>5. CASE Switch
  <2>1. cycleAt' = "output"
    BY <1>5 DEF Switch, Reprogram
  <2> QED BY <2>1 DEF CurrentInv, OutputIsCurrent
<1>6. CASE Choose
  BY <1>6 DEF Choose, CurrentInv, OutputIsCurrent, Called, Kmph
<1>7. CASE ChooseReplay
  BY <1>7 DEF ChooseReplay, CurrentInv, OutputIsCurrent
<1>8. CASE Advance
  BY <1>8 DEF Advance, CurrentInv, OutputIsCurrent
<1>9. CASE LookUp
  <2>1. /\ cycleAt = "look" /\ cycleAt' = "send" /\ sending' = GetY(ReplayData, replay.at)
        /\ mode' = mode /\ replay' = replay /\ overtaken' = overtaken
    BY <1>9 DEF LookUp
  <2>2. mode = "replay" => Called' = sending'
    BY <2>1 DEF Called
  <2> QED BY <2>1, <2>2 DEF CurrentInv, OutputIsCurrent
<1>10. CASE Send
  <2>1. /\ cycleAt = "send" /\ cycleAt' = "idle" /\ output' = sending
        /\ mode' = mode /\ manual' = manual /\ replay' = replay /\ shown' = shown
        /\ overtaken' = overtaken
    BY <1>10 DEF Send
  <2>2. Called' = Called
    BY <2>1 DEF Called, Kmph
  <2> QED BY <2>1, <2>2 DEF CurrentInv, OutputIsCurrent
<1>11. CASE SetMode \/ SetManual
  <2>1. overtaken' = TRUE
    BY <1>11 DEF SetMode, SetManual, Command
  <2> QED BY <2>1 DEF CurrentInv, OutputIsCurrent
<1>12. CASE Elapse
  <2>1. UNCHANGED <<cycleAt, overtaken, mode, manual, sending, output, shown>>
    BY <1>12 DEF Elapse, SensorElapse
  <2>2. replay'.at = replay.at
    BY <1>12, TypeParts DEF Elapse, OutputType, Replayed
  <2> QED BY <1>2, <2>1, <2>2
<1>13. CASE Settle
  BY <1>2, <1>13 DEF Settle, SensorSettle, outVars
<1>14. CASE UNCHANGED vars
  BY <1>2, <1>14 DEF vars, sensorVars, outVars
<1> QED BY <1>3, <1>4, <1>5, <1>6, <1>7, <1>8, <1>9, <1>10, <1>11, <1>12, <1>13, <1>14
        DEF Next, Output

\* Between two cycles the PWM has the speed that mode, manual speed, curve and sensor call
\* for, unless a command came since the last cycle chose it; for every curve and sensor.
THEOREM OutputStaysCurrent == Spec => []OutputIsCurrent
<1>1. Init => CurrentInv
  <2>1. 0 \div 1000 = 0
    OBVIOUS
  <2> QED BY <2>1 DEF Init, SensorInit, CurrentInv, OutputIsCurrent, Called, Kmph
<1>2. CurrentInv => OutputIsCurrent
  BY DEF CurrentInv
<1> QED BY <1>1, <1>2, NextCurrent, SpecTypeInv, PTL DEF Spec
=============================================================================
