----------------------------- MODULE Algorithms -----------------------------
(***************************************************************************)
(* The arithmetic the signal converters share: averages and the removal of *)
(* outliers (util_algorithms.hpp) and characteristic curves                *)
(* (lookup_table.hpp).  A curve is a sequence of points [x, y].            *)
(***************************************************************************)
EXTENDS Integers, Sequences, SequencesExt

Abs(a) == IF a < 0 THEN -a ELSE a

\* Division of C++ integers: it rounds towards zero.
Quotient(a, b) ==
  LET q == Abs(a) \div Abs(b) IN IF (a < 0) = (b < 0) THEN q ELSE -q
-----------------------------------------------------------------------------
(* util_algorithms.hpp *)

Total(s) == FoldLeft(LAMBDA sum, x : sum + x, 0, s)

Average(s) == IF s = << >> THEN 0 ELSE Quotient(Total(s), Len(s))

\* Of pairs [value, weight].
WeightedAverage(pairs) ==
  LET weighted == Total([i \in DOMAIN pairs |-> pairs[i].weight * pairs[i].value])
      weights  == Total([i \in DOMAIN pairs |-> pairs[i].weight])
  IN  IF weights = 0 THEN weighted ELSE Quotient(weighted, weights)

\* The element furthest away from average, the first of several.
Furthest(s, average) ==
  LET distance(i) == Abs(average - s[i])
  IN  CHOOSE i \in DOMAIN s : \A j \in DOMAIN s :
        distance(j) < distance(i) \/ (distance(j) = distance(i) /\ i <= j)

\* The last element takes the place of the one that goes.
Without(s, i) == SubSeq([s EXCEPT ![i] = s[Len(s)]], 1, Len(s) - 1)

Largest(s) == Max(ToSet(s))

\* u32_min is the smaller of an element and the maximum so far: the element
\* itself, in the end the last one.
Gap(s) == Largest(s) - s[Len(s)]

\* What is kept of s, its average, and the gap found by the last pass: before
\* that pass removed its outlier, if it did.  A pass needs more than minimum
\* elements and is the last one if their gap is below allowed.
FilterOutliers(s, minimum, allowed) ==
  LET pass[n \in 0 .. Len(s)] ==
        IF n = 0
        THEN [kept |-> s, average |-> Average(s), gap |-> 0, done |-> FALSE]
        ELSE LET before == pass[n - 1]
                 gap    == Gap(before.kept)
                 rest   == Without(before.kept, Furthest(before.kept, before.average))
             IN  IF before.done \/ Len(before.kept) <= minimum THEN before
                 ELSE IF gap < allowed THEN [before EXCEPT !.gap = gap, !.done = TRUE]
                 ELSE [before EXCEPT !.kept = rest, !.average = Average(rest), !.gap = gap]
  IN  pass[Len(s)]
-----------------------------------------------------------------------------
(* lookup_table.hpp *)

Segments(curve) == 1 .. Len(curve) - 1

First(S) == CHOOSE i \in S : \A j \in S : i <= j

\* Left and right of the curve the outermost y.
GetY(curve, x) ==
  LET right == {i \in Segments(curve) : x < curve[i + 1].x}
  IN  IF curve = << >> THEN 0
      ELSE IF x < curve[1].x THEN curve[1].y
      ELSE IF right = {} THEN curve[Len(curve)].y
      ELSE LET i  == First(right)
               dx == curve[i + 1].x - curve[i].x
               dy == curve[i + 1].y - curve[i].y
           IN  curve[i].y + (IF dx = 0 THEN 0 ELSE Quotient(dy * (x - curve[i].x), dx))

\* Zero where the curve does not go: a segment has its lower end, but not its
\* upper one.
GetX(curve, y) ==
  LET low(i)  == Min({curve[i].y, curve[i + 1].y})
      high(i) == Max({curve[i].y, curve[i + 1].y})
      through == {i \in Segments(curve) : low(i) <= y /\ y < high(i)}
  IN  IF through = {} THEN 0
      ELSE LET i == First(through)
           IN  curve[i].x + Quotient((y - curve[i].y) * (curve[i + 1].x - curve[i].x),
                                     curve[i + 1].y - curve[i].y)
=============================================================================
