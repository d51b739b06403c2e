-------------------------- MODULE NvSections_proofs --------------------------
(***************************************************************************)
(* Proofs about the section table of NonvolatileDataHandler, for every     *)
(* number of names, every size of table and flash and every firmware.      *)
(***************************************************************************)
EXTENDS NvSections, SequenceTheorems, WellFoundedInduction, TLAPS

(* The inductive invariant: a table and a shadow that belong together *)

\* all sizes are multiples of four
AlignedTable(ss) == \A i \in DOMAIN ss : ss[i].size % 4 = 0

\* each section begins where the one before it ends
Contiguous(ss) ==
  \A i \in DOMAIN ss : ss[i].pos = IF i = 1 THEN Base ELSE End(ss[i - 1])

Layout(ss, d) == LayoutOK(ss, d) /\ Contiguous(ss)

Good(ss, d, m) ==
  /\ ss \in Seq(Section) /\ d \in Seq(Word)
  /\ Len(ss) * EntrySize <= TableSize
  /\ AlignedTable(ss)
  /\ ShadowSize(d) <= FlashSize
  /\ ~ m => Layout(ss, d)

FlashGood == flash # NoImage => Good(flash.table, flash.data, flash.moved)

\* the last call is forgotten until startup is over
LastGood == phase \notin {"ready", "halted"} => last.op = "none"

\* a failed store was stopped by the table area
StoreGood == OnlyTableOverflowStopsStore

IInv ==
  /\ TypeOK
  /\ Good(sections, data, moved)
  /\ FlashGood
  /\ LastGood
  /\ StoreGood

-----------------------------------------------------------------------------
(* Arithmetic and sequences *)

\* AlignUp rounds up to the next multiple of four.
LEMMA AlignUpProperties ==
  ASSUME NEW n \in Nat
  PROVE  /\ AlignUp(n) \in Nat
         /\ AlignUp(n) % 4 = 0
         /\ n <= AlignUp(n)
         /\ n % 4 = 0 => AlignUp(n) = n
         /\ AlignUp(n) = 0 => n = 0
         /\ \A m \in Nat : m % 4 = 0 /\ n <= m => AlignUp(n) <= m
  BY DEF AlignUp

\* The base of the data is a multiple of four, and not 0.
LEMMA BaseProperties ==
  Base \in Nat \ {0} /\ Base % 4 = 0 /\ Base <= FlashSize
  BY NvAssumption, FlashHoldsHeader DEF Base

\* The length of three sequences put together.
LEMMA ConcatThree ==
  ASSUME NEW S, NEW x \in Seq(S), NEW y \in Seq(S), NEW z \in Seq(S)
  PROVE  /\ (x \o y) \o z \in Seq(S)
         /\ Len((x \o y) \o z) = Len(x) + Len(y) + Len(z)
<1> DEFINE xy == x \o y
<1>1. xy \in Seq(S) /\ Len(xy) = Len(x) + Len(y)
  BY ConcatProperties
<1> HIDE DEF xy
<1>2. xy \o z \in Seq(S) /\ Len(xy \o z) = Len(xy) + Len(z)
  BY <1>1, ConcatProperties
<1>3. Len(x) \in Nat /\ Len(y) \in Nat /\ Len(z) \in Nat
  BY LenProperties
<1>4. Len(xy \o z) = Len(x) + Len(y) + Len(z)
  BY <1>1, <1>2, <1>3
<1> QED BY <1>2, <1>4 DEF xy

\* The part of a sequence from one index to another.
LEMMA PartProperties ==
  ASSUME NEW S, NEW x \in Seq(S), NEW k \in Nat, NEW l \in Nat, k <= l, l <= Len(x)
  PROVE  /\ SubSeq(x, k + 1, l) \in Seq(S)
         /\ Len(SubSeq(x, k + 1, l)) = l - k
         /\ \A i \in 1 .. l - k : SubSeq(x, k + 1, l)[i] = x[k + i]
<1>1. Len(x) \in Nat
  BY LenProperties
<1>2. \A i \in k + 1 .. l : x[i] \in S
  BY <1>1, ElementOfSeq
<1>3. /\ SubSeq(x, k + 1, l) \in Seq(S)
      /\ Len(SubSeq(x, k + 1, l)) = IF k + 1 <= l THEN l - (k + 1) + 1 ELSE 0
      /\ \A i \in 1 .. l - (k + 1) + 1 :
           SubSeq(x, k + 1, l)[i] = x[(k + 1) + i - 1]
  BY <1>2, SubSeqProperties
<1>4. \A i \in 1 .. l - k : (k + 1) + i - 1 = k + i /\ i \in 1 .. l - (k + 1) + 1
  OBVIOUS
<1>5. (IF k + 1 <= l THEN l - (k + 1) + 1 ELSE 0) = l - k
  OBVIOUS
<1> QED BY <1>3, <1>4, <1>5

\* Grown inserts words and keeps the others.
LEMMA GrownProperties ==
  ASSUME NEW d \in Seq(Word), NEW at \in Nat, at <= Len(d), NEW words \in Nat
  PROVE  /\ Grown(d, at, words) \in Seq(Word)
         /\ Len(Grown(d, at, words)) = Len(d) + words
<1> DEFINE before == SubSeq(d, 1, at)
           new    == [i \in 1 .. words |-> Zero]
           after  == SubSeq(d, at + 1, Len(d))
<1>1. new \in Seq(Word) /\ Len(new) = words
  BY NvAssumption
<1>2. Len(d) \in Nat
  BY LenProperties
<1>3. before \in Seq(Word) /\ Len(before) = at
  BY PartProperties, 0 \in Nat, 0 + 1 = 1, at - 0 = at, 0 <= at
<1>4. after \in Seq(Word) /\ Len(after) = Len(d) - at
  BY <1>2, PartProperties
<1>5. Grown(d, at, words) = (before \o new) \o after
  BY DEF Grown
<1> HIDE DEF before, new, after
<1>6. /\ (before \o new) \o after \in Seq(Word)
      /\ Len((before \o new) \o after) = Len(before) + Len(new) + Len(after)
  <2>1. \A x, y, z \in Seq(Word) :
          /\ (x \o y) \o z \in Seq(Word)
          /\ Len((x \o y) \o z) = Len(x) + Len(y) + Len(z)
    BY ConcatThree
  <2> QED BY <1>1, <1>3, <1>4, <2>1
<1>7. at + words + (Len(d) - at) = Len(d) + words
  BY <1>2
<1> QED BY <1>1, <1>3, <1>4, <1>5, <1>6, <1>7

\* Cutting the words between n and o out of g words, when b and c bytes are
\* what o - n words make a difference of.
LEMMA DifferenceInWords ==
  \A n, o, g \in Nat : \A b, c \in Nat :
    4 * (o - n) = c - b => 4 * (n + (g - o)) = 4 * g + b - c
OBVIOUS

\* The words that z bytes from the q-th on begin and end at, among g words.
LEMMA WordsInData ==
  \A q, z, g \in Nat : q + z <= 4 * g =>
    /\ q \div 4 \in Nat /\ z \div 4 \in Nat
    /\ q \div 4 + z \div 4 \in Nat
    /\ q \div 4 + z \div 4 <= g
    /\ q \div 4 <= q \div 4 + z \div 4
OBVIOUS

\* The index of the word written o bytes after the q-th, among g words.
LEMMA WordInData ==
  \A q, o, g \in Nat : q + o + 4 <= 4 * g => (q + o) \div 4 + 1 \in 1 .. g
OBVIOUS

\* The sizes in bytes of two shadows whose lengths in words differ by a resize.
LEMMA SizesDiffer ==
  \A b, k, m, z, o \in Nat :
    4 * m = 4 * k + z - o => b + 4 * m = (b + 4 * k) + z - o
OBVIOUS

\* Spliced changes the length by the difference of the sizes.
LEMMA SplicedProperties ==
  ASSUME NEW d \in Seq(Word), NEW s \in Section, NEW size \in Nat,
         InData(s, d), s.size % 4 = 0, size % 4 = 0
  PROVE  /\ Spliced(d, s, size) \in Seq(Word)
         /\ 4 * Len(Spliced(d, s, size)) = 4 * Len(d) + size - s.size
<1> DEFINE from == (s.pos - Base) \div 4
           to   == from + s.size \div 4
<1>1. Len(d) \in Nat /\ s.pos \in Nat /\ s.size \in Nat
  BY NvAssumption, LenProperties DEF Section
<1>2. from \in Nat /\ to \in Nat /\ to <= Len(d) /\ from <= to
  <2>1. s.pos - Base \in Nat /\ (s.pos - Base) + s.size <= 4 * Len(d)
    BY <1>1, BaseProperties DEF InData, End, ShadowSize
  <2> DEFINE q == s.pos - Base
             z == s.size
             g == Len(d)
  <2>2. q \in Nat /\ z \in Nat /\ g \in Nat /\ q + z <= 4 * g
    BY <1>1, <2>1
  <2> HIDE DEF q, z, g
  <2>3. /\ q \div 4 \in Nat /\ q \div 4 + z \div 4 \in Nat
        /\ q \div 4 + z \div 4 <= g /\ q \div 4 <= q \div 4 + z \div 4
    BY ONLY <2>2, WordsInData
  <2> QED BY <2>3 DEF q, z, g
<1>3. CASE size > s.size
  <2> DEFINE words == (size - s.size) \div 4
  <2>1. words \in Nat /\ 4 * words = size - s.size
    BY <1>1, <1>3
  <2>2. Spliced(d, s, size) = Grown(d, to, words)
    BY <1>3 DEF Spliced
  <2> HIDE DEF words, to
  <2>3. /\ Grown(d, to, words) \in Seq(Word)
        /\ Len(Grown(d, to, words)) = Len(d) + words
    BY <1>2, <2>1, GrownProperties
  <2>4. 4 * (Len(d) + words) = 4 * Len(d) + size - s.size
    BY <1>1, <2>1
  <2> QED BY <2>2, <2>3, <2>4
<1>4. CASE ~ (size > s.size)
  <2> DEFINE k == from + size \div 4
             before == SubSeq(d, 1, k)
             after  == SubSeq(d, to + 1, Len(d))
  <2>1. k \in Nat /\ k <= to /\ k <= Len(d) /\ 4 * (to - k) = s.size - size
    <3> DEFINE p == size \div 4
               q == s.size \div 4
    <3>1. p \in Nat /\ 4 * p = size /\ q \in Nat /\ 4 * q = s.size
      BY <1>1
    <3>2. p <= q
      BY <1>1, <1>4, <3>1
    <3>3. k = from + p /\ to = from + q
      OBVIOUS
    <3> HIDE DEF p, q, k, to, from
    <3> QED BY <1>1, <1>2, <3>1, <3>2, <3>3
  <2>2. Spliced(d, s, size) = before \o after
    BY <1>4 DEF Spliced
  <2> HIDE DEF k, to, from
  <2>3. before \in Seq(Word) /\ Len(before) = k
    BY <2>1, PartProperties, 0 \in Nat, 0 + 1 = 1, k - 0 = k, 0 <= k
  <2>4. after \in Seq(Word) /\ Len(after) = Len(d) - to
    BY <1>1, <1>2, PartProperties
  <2> HIDE DEF before, after
  <2>5. before \o after \in Seq(Word) /\ Len(before \o after) = Len(before) + Len(after)
    BY <2>3, <2>4, ConcatProperties
  <2>6. 4 * (k + (Len(d) - to)) = 4 * Len(d) + size - s.size
    <3>1. \A n, o, g \in Nat : \A b, c \in Nat :
            4 * (o - n) = c - b => 4 * (n + (g - o)) = 4 * g + b - c
      BY DifferenceInWords
    <3>2. k \in Nat /\ to \in Nat /\ Len(d) \in Nat /\ s.size \in Nat /\ size \in Nat
      BY <1>1, <1>2, <2>1
    <3> QED BY ONLY <2>1, <3>1, <3>2
  <2> QED BY <2>2, <2>3, <2>4, <2>5, <2>6
<1> QED BY <1>3, <1>4

-----------------------------------------------------------------------------
(* Tables and shadows that belong together *)

\* What the fields of a section are.
LEMMA SectionFields ==
  ASSUME NEW ss \in Seq(Section), NEW i \in DOMAIN ss
  PROVE  /\ i \in 1 .. Len(ss)
         /\ ss[i] \in Section
         /\ ss[i].name \in Name
         /\ ss[i].size \in Nat
         /\ ss[i].pos \in Nat /\ ss[i].pos < PositionRange
         /\ End(ss[i]) \in Nat
<1>1. i \in 1 .. Len(ss)
  BY LenProperties
<1>2. ss[i] \in Section
  BY <1>1, ElementOfSeq
<1> QED BY <1>1, <1>2, NvAssumption DEF Section, End

\* What the size of a shadow is.
LEMMA ShadowProperties ==
  ASSUME NEW d \in Seq(Word)
  PROVE  /\ ShadowSize(d) \in Nat /\ ShadowSize(d) >= Base
         /\ ShadowSize(d) % 4 = 0
         /\ Len(d) \in Nat
         /\ ShadowSize(d) = Base + 4 * Len(d)
<1>1. Len(d) \in Nat
  BY LenProperties
<1> QED BY <1>1, BaseProperties DEF ShadowSize

\* The empty table belongs to the empty shadow.
LEMMA EmptyGood ==
  ASSUME NEW m
  PROVE  Good(<< >>, << >>, m)
<1>1. << >> \in Seq(Section) /\ << >> \in Seq(Word) /\ Len(<< >>) = 0
  OBVIOUS
<1>2. DOMAIN << >> = {}
  OBVIOUS
<1>3. 0 * EntrySize <= TableSize
  BY NvAssumption
<1>4. ShadowSize(<< >>) <= FlashSize
  BY <1>1, BaseProperties, FlashHoldsHeader DEF ShadowSize
<1>5. AlignedTable(<< >>) /\ Contiguous(<< >>) /\ LayoutOK(<< >>, << >>)
  BY <1>2 DEF AlignedTable, Contiguous, LayoutOK
<1> QED BY <1>1, <1>3, <1>4, <1>5 DEF Good, Layout

\* A section that is put behind all others, and words for it, make a good table.
LEMMA AppendGood ==
  ASSUME NEW ss, NEW d, NEW m, Good(ss, d, m),
         NEW x \in Section, x.size % 4 = 0, x.pos = ShadowSize(d),
         ~ Has(ss, x.name), (Len(ss) + 1) * EntrySize <= TableSize,
         NEW d2 \in Seq(Word), 4 * Len(d2) = 4 * Len(d) + x.size,
         ShadowSize(d2) <= FlashSize
  PROVE  Good(Append(ss, x), d2, m)
<1> DEFINE tt == Append(ss, x)
           n  == Len(ss)
<1>1. ss \in Seq(Section) /\ d \in Seq(Word)
  BY DEF Good
<1>2. /\ n \in Nat /\ DOMAIN ss = 1 .. n
      /\ tt \in Seq(Section) /\ Len(tt) = n + 1 /\ DOMAIN tt = 1 .. n + 1
      /\ \A i \in 1 .. n : tt[i] = ss[i]
      /\ tt[n + 1] = x
  BY <1>1, LenProperties
<1>3. x.size \in Nat /\ x.pos \in Nat /\ End(x) = x.pos + x.size
  BY NvAssumption DEF Section, End
<1>4. \A i \in 1 .. n : /\ ss[i].size \in Nat /\ ss[i].pos \in Nat
                        /\ End(ss[i]) \in Nat /\ ss[i].size % 4 = 0
  BY <1>1, <1>2, SectionFields DEF Good, AlignedTable
<1>5. /\ ShadowSize(d) \in Nat /\ ShadowSize(d2) \in Nat
      /\ ShadowSize(d2) = ShadowSize(d) + x.size
      /\ Base \in Nat /\ Base <= ShadowSize(d)
  <2>1. /\ ShadowSize(d) \in Nat /\ ShadowSize(d) >= Base
        /\ Len(d) \in Nat /\ ShadowSize(d) = Base + 4 * Len(d)
    BY <1>1, ShadowProperties
  <2>2. /\ ShadowSize(d2) \in Nat
        /\ Len(d2) \in Nat /\ ShadowSize(d2) = Base + 4 * Len(d2)
    BY ShadowProperties
  <2>3. Base \in Nat
    BY BaseProperties
  <2> DEFINE sz == x.size
             k  == Len(d)
             l2 == Len(d2)
  <2>4. sz \in Nat /\ k \in Nat /\ l2 \in Nat /\ 4 * l2 = 4 * k + sz
    BY <1>3, <2>1, <2>2
  <2> HIDE DEF sz, k, l2
  <2>5. Base + 4 * l2 = (Base + 4 * k) + sz
    BY ONLY <2>3, <2>4
  <2>6. ShadowSize(d2) = ShadowSize(d) + x.size
    BY <2>1, <2>2, <2>5 DEF sz, k, l2
  <2> QED BY <2>1, <2>2, <2>3, <2>6
<1> HIDE DEF tt, n
<1>6. AlignedTable(tt)
  BY <1>2, <1>4 DEF AlignedTable
<1>7. ASSUME ~ m PROVE LayoutOK(tt, d2)
  <2> USE <1>7
  <2>1. LayoutOK(ss, d)
    BY DEF Good, Layout
  <2>2. \A i \in 1 .. n : Base <= ss[i].pos /\ End(ss[i]) <= ShadowSize(d)
    BY <1>2, <2>1 DEF LayoutOK
  <2>3. \A i \in DOMAIN tt : Base <= tt[i].pos /\ End(tt[i]) <= ShadowSize(d2)
    <3> TAKE i \in DOMAIN tt
    <3>1. CASE i = n + 1
      BY <1>2, <1>3, <1>5, <3>1
    <3>2. CASE i # n + 1
      <4>1. i \in 1 .. n
        BY <1>2, <3>2
      <4>2. /\ tt[i] = ss[i] /\ End(ss[i]) \in Nat
            /\ Base <= ss[i].pos /\ End(ss[i]) <= ShadowSize(d)
        BY <1>2, <1>4, <2>2, <4>1
      <4>3. ShadowSize(d) <= ShadowSize(d2)
        BY <1>3, <1>5
      <4> QED BY <1>5, <4>2, <4>3
    <3> QED BY <3>1, <3>2
  <2>4. \A i, j \in DOMAIN tt : i < j => End(tt[i]) <= tt[j].pos
    <3> TAKE i, j \in DOMAIN tt
    <3> HAVE i < j
    <3>1. i \in 1 .. n
      BY <1>2
    <3>2. CASE j = n + 1
      BY <1>2, <2>2, <3>1, <3>2
    <3>3. CASE j # n + 1
      <4>1. j \in 1 .. n
        BY <1>2, <3>3
      <4> QED BY <1>2, <2>1, <3>1, <4>1 DEF LayoutOK
    <3> QED BY <3>2, <3>3
  <2>5. \A i, j \in DOMAIN tt : tt[i].name = tt[j].name => i = j
    <3> TAKE i, j \in DOMAIN tt
    <3> HAVE tt[i].name = tt[j].name
    <3>1. \A a \in 1 .. n : ss[a].name # x.name
      BY <1>2 DEF Has
    <3>2. CASE i \in 1 .. n /\ j \in 1 .. n
      BY <1>2, <2>1, <3>2 DEF LayoutOK
    <3>3. CASE i \notin 1 .. n \/ j \notin 1 .. n
      BY <1>2, <3>1, <3>3
    <3> QED BY <3>2, <3>3
  <2>6. tt # << >> /\ End(tt[Len(tt)]) = ShadowSize(d2)
    BY <1>2, <1>3, <1>5
  <2> QED BY <2>3, <2>4, <2>5, <2>6 DEF LayoutOK
<1>8. ASSUME ~ m PROVE Contiguous(tt)
  <2> USE <1>8
  <2>1. LayoutOK(ss, d) /\ Contiguous(ss)
    BY DEF Good, Layout
  <2>2. SUFFICES ASSUME NEW i \in DOMAIN tt
                 PROVE  tt[i].pos = IF i = 1 THEN Base ELSE End(tt[i - 1])
    BY DEF Contiguous
  <2>3. CASE i # n + 1
    <3>1. i \in 1 .. n /\ (i # 1 => i - 1 \in 1 .. n)
      BY <1>2, <2>3
    <3>2. ss[i].pos = IF i = 1 THEN Base ELSE End(ss[i - 1])
      BY <1>2, <2>1, <3>1 DEF Contiguous
    <3> QED BY <1>2, <3>1, <3>2
  <2>4. CASE i = n + 1 /\ n = 0
    <3>1. ss = << >>
      BY <1>1, <2>4, EmptySeq DEF n
    <3>2. d = << >>
      BY <2>1, <3>1 DEF LayoutOK
    <3>3. ShadowSize(d) = Base
      BY <3>2, BaseProperties DEF ShadowSize
    <3> QED BY <1>2, <2>4, <3>3
  <2>5. CASE i = n + 1 /\ n # 0
    <3>1. ss # << >>
      BY <2>5 DEF n
    <3>2. End(ss[n]) = ShadowSize(d)
      BY <2>1, <3>1 DEF LayoutOK, n
    <3>3. i # 1 /\ i - 1 = n /\ n \in 1 .. n
      BY <1>2, <2>5
    <3> QED BY <1>2, <2>5, <3>2, <3>3
  <2> QED BY <2>3, <2>4, <2>5
<1>9. Len(tt) * EntrySize <= TableSize
  BY <1>2 DEF n
<1> QED BY <1>2, <1>6, <1>7, <1>8, <1>9 DEF Good, Layout, tt

\* A position that is written stays in the range of its type.
LEMMA PositionRangeKept ==
  ASSUME NEW diff \in Int
  PROVE  diff % PositionRange \in 0 .. PositionRange - 1
  BY NvAssumption

\* Relocating the sections behind one and resizing it leaves a well-formed table.
LEMMA ResizedTyped ==
  ASSUME NEW ss \in Seq(Section), AlignedTable(ss), NEW k \in DOMAIN ss,
         NEW diff \in Int, NEW size \in Nat, size % 4 = 0
  PROVE  LET tt == Resized(Relocated(ss, k, diff), k, size)
         IN  /\ tt \in Seq(Section) /\ Len(tt) = Len(ss) /\ AlignedTable(tt)
             /\ tt[k].size = size
<1> DEFINE rr == Relocated(ss, k, diff)
           tt == Resized(rr, k, size)
<1>1. /\ Len(ss) \in Nat /\ DOMAIN ss = 1 .. Len(ss)
      /\ \A i \in 1 .. Len(ss) : ss[i] \in Section /\ ss[i].size % 4 = 0
  BY LenProperties, ElementOfSeq DEF AlignedTable
<1>2. \A i \in 1 .. Len(ss) : rr[i] \in Section /\ rr[i].size % 4 = 0
  <2> TAKE i \in 1 .. Len(ss)
  <2>1. CASE i \in Behind(ss, k)
    <3>1. rr[i] = [ss[i] EXCEPT !.pos = diff % PositionRange]
      BY <1>1, <2>1 DEF Relocated
    <3> QED BY <1>1, <3>1, PositionRangeKept DEF Section
  <2>2. CASE i \notin Behind(ss, k)
    BY <1>1, <2>2 DEF Relocated
  <2> QED BY <2>1, <2>2
<1>3. rr = [i \in 1 .. Len(ss) |-> rr[i]]
  BY <1>1 DEF Relocated
<1>4. tt = [i \in 1 .. Len(ss) |->
              IF i = k THEN [rr[k] EXCEPT !.valid = FALSE, !.size = size] ELSE rr[i]]
  BY <1>1, <1>3 DEF Resized
<1> HIDE DEF rr, tt
<1>5. \A i \in 1 .. Len(ss) : tt[i] \in Section /\ tt[i].size % 4 = 0
  BY <1>1, <1>2, <1>4 DEF Section
<1>6. tt \in Seq(Section) /\ Len(tt) = Len(ss) /\ DOMAIN tt = 1 .. Len(ss)
  BY <1>1, <1>4, <1>5
<1>7. tt[k].size = size
  BY <1>1, <1>2, <1>4 DEF Section
<1> QED BY <1>5, <1>6, <1>7 DEF AlignedTable, rr, tt

\* Taking a section out of the table leaves a well-formed table.
LEMMA WithoutTyped ==
  ASSUME NEW ss \in Seq(Section), AlignedTable(ss), NEW k \in DOMAIN ss
  PROVE  /\ Without(ss, k) \in Seq(Section)
         /\ Len(Without(ss, k)) = Len(ss) - 1
         /\ AlignedTable(Without(ss, k))
<1> DEFINE before == SubSeq(ss, 1, k - 1)
           after  == SubSeq(ss, k + 1, Len(ss))
<1>1. /\ Len(ss) \in Nat /\ k \in 1 .. Len(ss)
      /\ \A i \in 1 .. Len(ss) : ss[i] \in Section /\ ss[i].size % 4 = 0
  BY LenProperties, ElementOfSeq DEF AlignedTable
<1>2. /\ before \in Seq(Section) /\ Len(before) = k - 1
      /\ \A i \in 1 .. k - 1 : before[i] = ss[i]
  <2>1. k - 1 \in Nat /\ 0 \in Nat /\ 0 <= k - 1 /\ k - 1 <= Len(ss) /\ 0 + 1 = 1
        /\ (k - 1) - 0 = k - 1 /\ \A i \in 1 .. k - 1 : 0 + i = i
    BY <1>1
  <2> QED BY <2>1, PartProperties
<1>3. /\ after \in Seq(Section) /\ Len(after) = Len(ss) - k
      /\ \A i \in 1 .. Len(ss) - k : after[i] = ss[k + i]
  BY <1>1, PartProperties
<1>4. Without(ss, k) = before \o after
  BY DEF Without
<1> HIDE DEF before, after
<1>5. /\ before \o after \in Seq(Section)
      /\ Len(before \o after) = Len(before) + Len(after)
      /\ \A i \in 1 .. Len(before) + Len(after) : (before \o after)[i] =
           IF i <= Len(before) THEN before[i] ELSE after[i - Len(before)]
  BY <1>2, <1>3, ConcatProperties
<1>6. Len(before) + Len(after) = Len(ss) - 1
  BY <1>1, <1>2, <1>3
<1>7. \A i \in 1 .. Len(ss) - 1 : (before \o after)[i].size % 4 = 0
  <2> TAKE i \in 1 .. Len(ss) - 1
  <2>1. CASE i <= k - 1
    <3>1. i \in 1 .. k - 1 /\ i \in 1 .. Len(ss) /\ i \in 1 .. Len(before) + Len(after)
      BY <1>1, <1>6, <2>1
    <3>2. (before \o after)[i] = before[i]
      BY <1>2, <1>5, <2>1, <3>1
    <3>3. before[i] = ss[i]
      BY <1>2, <3>1
    <3> QED BY <1>1, <3>1, <3>2, <3>3
  <2>2. CASE ~ (i <= k - 1)
    <3>1. i - (k - 1) \in 1 .. Len(ss) - k /\ k + (i - (k - 1)) \in 1 .. Len(ss)
      BY <1>1, <2>2
    <3>2. (before \o after)[i] = after[i - (k - 1)]
      BY <1>1, <1>2, <1>5, <1>6, <2>2
    <3>3. after[i - (k - 1)] = ss[k + (i - (k - 1))]
      BY <1>3, <3>1
    <3> QED BY <1>1, <3>1, <3>2, <3>3
  <2> QED BY <2>1, <2>2
<1>8. DOMAIN (before \o after) = 1 .. Len(ss) - 1
  BY <1>5, <1>6, LenProperties
<1> QED BY <1>4, <1>5, <1>6, <1>7, <1>8 DEF AlignedTable

\* The last section may change its size, together with the end of the shadow.
LEMMA ResizeLastGood ==
  ASSUME NEW ss, NEW d, Good(ss, d, FALSE), ss # << >>,
         NEW size \in Nat, size % 4 = 0, NEW diff \in Int,
         NEW d2 \in Seq(Word), ShadowSize(d2) <= FlashSize,
         4 * Len(d2) = 4 * Len(d) + size - ss[Len(ss)].size
  PROVE  Good(Resized(Relocated(ss, Len(ss), diff), Len(ss), size), d2, FALSE)
<1> DEFINE n  == Len(ss)
           tt == Resized(Relocated(ss, n, diff), n, size)
<1>1. ss \in Seq(Section) /\ d \in Seq(Word) /\ LayoutOK(ss, d) /\ Contiguous(ss)
  BY DEF Good, Layout
<1>2. n \in Nat \ {0} /\ DOMAIN ss = 1 .. n /\ n \in 1 .. n
  BY <1>1, EmptySeq, LenProperties
<1>3. \A i \in 1 .. n : /\ ss[i] \in Section
                        /\ ss[i].size \in Nat /\ ss[i].pos \in Nat
                        /\ End(ss[i]) = ss[i].pos + ss[i].size
  BY <1>1, <1>2, SectionFields DEF End
<1>4. tt \in Seq(Section) /\ Len(tt) = n /\ AlignedTable(tt)
  <2>1. AlignedTable(ss) /\ n \in DOMAIN ss
    BY <1>2 DEF Good
  <2> QED BY <1>1, <2>1, ResizedTyped
<1>5. Behind(ss, n) = {}
  <2> SUFFICES ASSUME NEW i \in 1 .. n PROVE ~ (ss[i].pos > ss[n].pos)
    BY <1>2 DEF Behind
  <2>1. CASE i = n
    BY <1>2, <1>3, <2>1
  <2>2. CASE i # n
    <3>1. i < n /\ n \in 1 .. n
      <4> HIDE DEF n
      <4> QED BY <1>2, <2>2
    <3>2. End(ss[i]) <= ss[n].pos
      BY <1>1, <1>2, <3>1 DEF LayoutOK
    <3>3. /\ ss[i].pos \in Nat /\ ss[i].size \in Nat /\ ss[n].pos \in Nat
          /\ End(ss[i]) = ss[i].pos + ss[i].size
      BY <1>3, <3>1
    <3> QED BY <3>2, <3>3
  <2> QED BY <2>1, <2>2
<1>6. Relocated(ss, n, diff) = ss
  BY <1>1, <1>2, <1>5 DEF Relocated
<1>7. tt = [ss EXCEPT ![n] = [ss[n] EXCEPT !.valid = FALSE, !.size = size]]
  BY <1>1, <1>2, <1>6 DEF Resized
<1>8. DOMAIN tt = 1 .. n
  BY <1>4, LenProperties
<1>9. \A i \in 1 .. n : i # n => tt[i] = ss[i]
  BY <1>2, <1>7
<1>10. /\ tt[n].pos = ss[n].pos /\ tt[n].size = size /\ tt[n].name = ss[n].name
       /\ End(tt[n]) = ss[n].pos + size
  BY <1>2, <1>3, <1>7 DEF Section, End
<1>11. \A i \in 1 .. n : tt[i].pos = ss[i].pos /\ tt[i].name = ss[i].name
  BY <1>9, <1>10
<1>12. /\ ShadowSize(d) \in Nat /\ ShadowSize(d2) \in Nat /\ Base \in Nat
       /\ ShadowSize(d2) = ShadowSize(d) + size - ss[n].size
  <2>1. ShadowSize(d) \in Nat /\ Len(d) \in Nat /\ ShadowSize(d) = Base + 4 * Len(d)
    BY <1>1, ShadowProperties
  <2>2. ShadowSize(d2) \in Nat /\ Len(d2) \in Nat /\ ShadowSize(d2) = Base + 4 * Len(d2)
    BY ShadowProperties
  <2>3. Base \in Nat /\ ss[n].size \in Nat
    BY <1>2, <1>3, BaseProperties
  <2> DEFINE old == ss[n].size
             k   == Len(d)
             m   == Len(d2)
  <2>4. /\ old \in Nat /\ k \in Nat /\ m \in Nat /\ Base \in Nat /\ size \in Nat
        /\ 4 * m = 4 * k + size - old
    BY <2>1, <2>2, <2>3
  <2> HIDE DEF old, k, m
  <2>5. Base + 4 * m = (Base + 4 * k) + size - old
    BY ONLY <2>4, SizesDiffer
  <2>6. ShadowSize(d2) = ShadowSize(d) + size - old
    BY <2>1, <2>2, <2>5 DEF k, m
  <2> QED BY <2>1, <2>2, <2>3, <2>6 DEF old
<1> HIDE DEF tt, n
<1>13. End(ss[n]) = ShadowSize(d)
  BY <1>1 DEF LayoutOK, n
<1>14. End(tt[n]) = ShadowSize(d2)
  <2> DEFINE old == ss[n].size
             at  == ss[n].pos
  <2>1. old \in Nat /\ at \in Nat /\ at + old = ShadowSize(d)
    BY <1>2, <1>3, <1>13
  <2>2. End(tt[n]) = at + size /\ ShadowSize(d2) = ShadowSize(d) + size - old
    BY <1>10, <1>12
  <2> HIDE DEF old, at
  <2> QED BY <1>12, <2>1, <2>2
<1>15. \A i \in DOMAIN tt : Base <= tt[i].pos /\ End(tt[i]) <= ShadowSize(d2)
  <2> TAKE i \in DOMAIN tt
  <2>1. Base <= tt[i].pos
    BY <1>1, <1>2, <1>8, <1>11 DEF LayoutOK
  <2>2. CASE i = n
    BY <1>12, <1>14, <2>1, <2>2
  <2>3. CASE i # n
    <3>1. i \in 1 .. n /\ i < n
      BY <1>2, <1>8, <2>3
    <3>2. End(tt[i]) = End(ss[i]) /\ End(ss[i]) <= ss[n].pos
      BY <1>1, <1>2, <1>9, <3>1 DEF LayoutOK
    <3>3. ss[n].pos <= ShadowSize(d2)
      <4> DEFINE at == ss[n].pos
      <4>1. at \in Nat /\ End(tt[n]) = at + size
        BY <1>2, <1>3, <1>10
      <4> HIDE DEF at
      <4>2. at <= ShadowSize(d2)
        BY <1>12, <1>14, <4>1
      <4> QED BY <4>2 DEF at
    <3>4. End(ss[i]) \in Nat /\ ss[n].pos \in Nat
      <4> DEFINE at   == ss[i].pos
                 size_i == ss[i].size
      <4>1. at \in Nat /\ size_i \in Nat /\ End(ss[i]) = at + size_i
        BY <1>3, <3>1
      <4>2. ss[n].pos \in Nat
        BY <1>2, <1>3
      <4> HIDE DEF at, size_i
      <4> QED BY <4>1, <4>2
    <3> QED BY <1>12, <2>1, <3>2, <3>3, <3>4
  <2> QED BY <2>2, <2>3
<1>16. \A i, j \in DOMAIN tt : i < j => End(tt[i]) <= tt[j].pos
  <2> TAKE i, j \in DOMAIN tt
  <2> HAVE i < j
  <2>1. i \in 1 .. n /\ j \in 1 .. n /\ i # n
    BY <1>2, <1>8
  <2> QED BY <1>1, <1>2, <1>9, <1>11, <2>1 DEF LayoutOK
<1>17. \A i, j \in DOMAIN tt : tt[i].name = tt[j].name => i = j
  BY <1>1, <1>2, <1>8, <1>11 DEF LayoutOK
<1>18. tt # << >> /\ End(tt[Len(tt)]) = ShadowSize(d2)
  BY <1>2, <1>4, <1>14
<1>19. Contiguous(tt)
  <2> SUFFICES ASSUME NEW i \in 1 .. n
               PROVE  tt[i].pos = IF i = 1 THEN Base ELSE End(tt[i - 1])
    BY <1>8 DEF Contiguous
  <2>1. ss[i].pos = IF i = 1 THEN Base ELSE End(ss[i - 1])
    BY <1>1, <1>2 DEF Contiguous
  <2>2. i # 1 => i - 1 \in 1 .. n /\ i - 1 # n
    BY <1>2
  <2> QED BY <1>9, <1>11, <2>1, <2>2
<1>20. LayoutOK(tt, d2)
  BY <1>15, <1>16, <1>17, <1>18 DEF LayoutOK
<1>21. Len(tt) * EntrySize <= TableSize
  BY <1>4 DEF Good, n
<1> QED BY <1>4, <1>19, <1>20, <1>21 DEF Good, Layout, tt, n

\* An empty last section may be taken out.
LEMMA DropLastGood ==
  ASSUME NEW ss, NEW d, Good(ss, d, FALSE), ss # << >>, ss[Len(ss)].size = 0
  PROVE  Good(Without(ss, Len(ss)), d, FALSE)
<1> DEFINE n  == Len(ss)
           tt == Without(ss, n)
<1>1. /\ ss \in Seq(Section) /\ d \in Seq(Word) /\ LayoutOK(ss, d) /\ Contiguous(ss)
      /\ AlignedTable(ss) /\ n * EntrySize <= TableSize
  BY DEF Good, Layout
<1>2. n \in Nat \ {0} /\ DOMAIN ss = 1 .. n /\ n \in 1 .. n
  BY <1>1, EmptySeq, LenProperties
<1>3. \A i \in 1 .. n : /\ ss[i].size \in Nat /\ ss[i].pos \in Nat
                        /\ End(ss[i]) = ss[i].pos + ss[i].size
  BY <1>1, <1>2, SectionFields DEF End
<1>4. tt \in Seq(Section) /\ Len(tt) = n - 1 /\ AlignedTable(tt)
  BY <1>1, <1>2, WithoutTyped
<1>5. DOMAIN tt = 1 .. n - 1
  BY <1>4, LenProperties
<1>6. \A i \in 1 .. n - 1 : tt[i] = ss[i]
  <2>1. SubSeq(ss, n + 1, n) = << >>
    BY <1>2, SubSeqEmpty
  <2>2. /\ SubSeq(ss, 1, n - 1) \in Seq(Section)
        /\ \A i \in 1 .. n - 1 : SubSeq(ss, 1, n - 1)[i] = ss[i]
    <3>1. n - 1 \in Nat /\ 0 \in Nat /\ 0 <= n - 1 /\ n - 1 <= Len(ss) /\ 0 + 1 = 1
          /\ (n - 1) - 0 = n - 1 /\ \A i \in 1 .. n - 1 : 0 + i = i
      BY <1>2
    <3> QED BY <1>1, <3>1, PartProperties
  <2>3. tt = SubSeq(ss, 1, n - 1) \o << >>
    BY <2>1 DEF Without
  <2>4. tt = SubSeq(ss, 1, n - 1)
    BY <2>2, <2>3, ConcatEmptySeq
  <2> QED BY <2>2, <2>4
<1>7. End(ss[n]) = ShadowSize(d) /\ ss[n].size = 0
  BY <1>1 DEF LayoutOK
<1> HIDE DEF tt, n
<1>8. ss[n].pos = ShadowSize(d)
  <2> DEFINE at == ss[n].pos
  <2>1. at \in Nat /\ at + 0 = ShadowSize(d)
    BY <1>2, <1>3, <1>7
  <2> HIDE DEF at
  <2>2. at = ShadowSize(d)
    BY <2>1
  <2> QED BY <2>2 DEF at
<1>9. \A i \in 1 .. n - 1 : i \in 1 .. n
  BY <1>2
<1>10. \A i \in DOMAIN tt : Base <= tt[i].pos /\ End(tt[i]) <= ShadowSize(d)
  BY <1>1, <1>2, <1>5, <1>6, <1>9 DEF LayoutOK
<1>11. \A i, j \in DOMAIN tt : i < j => End(tt[i]) <= tt[j].pos
  BY <1>1, <1>2, <1>5, <1>6, <1>9 DEF LayoutOK
<1>12. \A i, j \in DOMAIN tt : tt[i].name = tt[j].name => i = j
  BY <1>1, <1>2, <1>5, <1>6, <1>9 DEF LayoutOK
<1>13. IF tt = << >> THEN d = << >> ELSE End(tt[Len(tt)]) = ShadowSize(d)
  <2>1. CASE n = 1
    <3>1. ss[n].pos = Base
      BY <1>1, <1>2, <2>1 DEF Contiguous
    <3>2. ShadowSize(d) = Base
      BY <1>8, <3>1
    <3>3. Len(d) \in Nat /\ Base + 4 * Len(d) = Base /\ Base \in Nat
      BY <1>1, <3>2, ShadowProperties, BaseProperties
    <3>4. Len(d) = 0
      BY <3>3
    <3>5. d = << >>
      BY <1>1, <3>4, EmptySeq
    <3>6. tt = << >>
      BY <1>4, <2>1, EmptySeq
    <3> QED BY <3>5, <3>6
  <2>2. CASE n # 1
    <3>1. n - 1 \in 1 .. n - 1 /\ n # 1 /\ n \in 1 .. n
      BY <1>2, <2>2
    <3>2. ss[n].pos = End(ss[n - 1])
      BY <1>1, <1>2, <3>1 DEF Contiguous
    <3>3. End(tt[n - 1]) = ShadowSize(d)
      BY <1>6, <1>8, <3>1, <3>2
    <3>4. tt # << >>
      BY <1>4, <3>1, Len(<< >>) = 0
    <3> QED BY <1>4, <3>3, <3>4
  <2> QED BY <2>1, <2>2
<1>14. Contiguous(tt)
  <2> SUFFICES ASSUME NEW i \in 1 .. n - 1
               PROVE  tt[i].pos = IF i = 1 THEN Base ELSE End(tt[i - 1])
    BY <1>5 DEF Contiguous
  <2>1. i \in 1 .. n /\ (i # 1 => i - 1 \in 1 .. n - 1)
    BY <1>2
  <2>2. ss[i].pos = IF i = 1 THEN Base ELSE End(ss[i - 1])
    BY <1>1, <1>2, <2>1 DEF Contiguous
  <2> QED BY <1>6, <2>1, <2>2
<1>15. Len(tt) * EntrySize <= TableSize
  <2>1. (n - 1) * EntrySize = n * EntrySize - EntrySize
    BY <1>2, NvAssumption
  <2>2. n * EntrySize \in Nat
    BY <1>2, NvAssumption
  <2> QED BY <1>1, <1>4, <2>1, <2>2, NvAssumption
<1>16. LayoutOK(tt, d)
  BY <1>10, <1>11, <1>12, <1>13 DEF LayoutOK
<1>17. ShadowSize(d) <= FlashSize
  BY DEF Good
<1> QED BY <1>1, <1>4, <1>14, <1>15, <1>16, <1>17 DEF Good, Layout, tt, n

-----------------------------------------------------------------------------
(* The operations *)

\* The integrity check reports one of two codes.
LEMMA CheckedCodes ==
  ASSUME NEW ss, NEW d
  PROVE  Checked(ss, d) \in {"SUCCESS", "UNEXPECTED_VALUE"}
  BY DEF Checked

\* add_section keeps table and shadow together, and changes neither if it fails.
LEMMA AddKeeps ==
  ASSUME Good(sections, data, moved), NEW n \in Name, NEW asked \in Nat
  PROVE  LET r == AddResult(n, asked)
         IN  /\ Good(r.table, r.words, moved)
             /\ r.ret \in Code
             /\ r.ret \in {"NOT_ENOUGH_MEMORY", "PARAMETER_WRONG"}
                  => r.table = sections /\ r.words = data
<1> DEFINE size == AlignUp(asked)
           ss   == Added(n, size)
           d    == RoomFor(data, size)
<1>1. sections \in Seq(Section) /\ data \in Seq(Word)
  BY DEF Good
<1>2. size \in Nat /\ size % 4 = 0
  BY AlignUpProperties
<1>3. AddError(n, asked) \in {"SUCCESS", "NOT_ENOUGH_MEMORY", "PARAMETER_WRONG"}
  BY DEF AddError
<1>4. CASE AddError(n, asked) # "SUCCESS"
  BY <1>3, <1>4 DEF AddResult, Code
<1>5. CASE AddError(n, asked) = "SUCCESS"
  <2>1. /\ ShadowSize(data) + size <= FlashSize
        /\ (Len(sections) + 1) * EntrySize <= TableSize
        /\ ~ Has(sections, n)
    <3>1. /\ ShadowSize(data) \in Nat /\ FlashSize \in Nat
          /\ (Len(sections) + 1) * EntrySize \in Nat /\ TableSize \in Nat
      BY <1>1, ShadowProperties, NvAssumption, LenProperties
    <3>2. /\ ~ (ShadowSize(data) + size > FlashSize)
          /\ ~ ((Len(sections) + 1) * EntrySize > TableSize)
          /\ ~ Has(sections, n)
      BY <1>5 DEF AddError
    <3> HIDE DEF size
    <3> QED BY <1>2, <3>1, <3>2
  <2>2. AddResult(n, asked) = [ret |-> Checked(ss, d), table |-> ss, words |-> d]
    BY <1>5 DEF AddResult
  <2> HIDE DEF size
  <2>3. d \in Seq(Word) /\ 4 * Len(d) = 4 * Len(data) + size
    <3> DEFINE words == size \div 4
               end   == Len(data)
    <3>1. end \in Nat /\ end <= Len(data) /\ words \in Nat /\ 4 * words = size
      BY <1>1, <1>2, LenProperties
    <3>2. d = Grown(data, end, words)
      BY DEF RoomFor
    <3> HIDE DEF words, d, end
    <3>3. /\ Grown(data, end, words) \in Seq(Word)
          /\ Len(Grown(data, end, words)) = Len(data) + words
      BY <1>1, <3>1, GrownProperties
    <3>4. Len(data) \in Nat
      BY <1>1, LenProperties
    <3>5. 4 * Len(d) = 4 * Len(data) + size
      BY <3>1, <3>2, <3>3, <3>4
    <3> QED BY <3>2, <3>3, <3>5
  <2>4. ShadowSize(d) <= FlashSize
    <3>1. ShadowSize(data) = Base + 4 * Len(data) /\ Len(data) \in Nat
      BY <1>1, ShadowProperties
    <3>2. ShadowSize(d) = Base + 4 * Len(d) /\ Len(d) \in Nat /\ Base \in Nat
      BY <2>3, ShadowProperties, BaseProperties
    <3> HIDE DEF d
    <3> QED BY <1>2, <2>1, <2>3, <3>1, <3>2
  <2> DEFINE x == [name |-> n, size |-> size, pos |-> ShadowSize(data), valid |-> FALSE]
  <2>5. /\ x \in Section /\ x.name = n /\ x.size = size /\ x.pos = ShadowSize(data)
        /\ ss = Append(sections, x)
    <3>1. /\ ShadowSize(data) \in Nat /\ FlashSize \in Nat /\ PositionRange \in Nat
          /\ FlashSize < PositionRange
      BY <1>1, ShadowProperties, NvAssumption
    <3>2. ShadowSize(data) \in 0 .. PositionRange - 1
      BY <1>2, <2>1, <3>1
    <3> QED BY <1>2, <3>2 DEF Section, Added, NewPosition
  <2> HIDE DEF x, d
  <2>6. Good(Append(sections, x), d, moved)
    BY <1>2, <2>1, <2>3, <2>4, <2>5, AppendGood
  <2>7. Good(ss, d, moved)
    BY <2>5, <2>6
  <2> HIDE DEF ss
  <2> QED BY <2>2, <2>7, CheckedCodes DEF Code
<1> QED BY <1>4, <1>5

\* resize_section keeps table and shadow together, as long as no section but the
\* last one is resized, and changes neither if it fails.
LEMMA ResizeKeeps ==
  ASSUME Good(sections, data, moved), moved \in BOOLEAN,
         NEW n \in Name, NEW asked \in Nat, SpliceDefined(n, asked)
  PROVE  LET r == ResizeResult(n, asked)
         IN  /\ Good(r.table, r.words, moved \/ Relocates(n, asked))
             /\ r.ret \in Code
             /\ r.ret \in {"NOT_ENOUGH_MEMORY", "PARAMETER_WRONG"}
                  => r.table = sections /\ r.words = data
<1> DEFINE size == AlignUp(asked)
           err  == ResizeError(n, size)
           k    == Find(sections, n)
           diff == size - sections[k].size
           all  == Resized(Relocated(sections, k, diff), k, size)
           ss   == IF size = 0 THEN Without(all, k) ELSE all
           d    == Spliced(data, sections[k], size)
           m    == moved \/ Relocates(n, asked)
<1>1. /\ sections \in Seq(Section) /\ data \in Seq(Word) /\ AlignedTable(sections)
      /\ Len(sections) * EntrySize <= TableSize /\ ShadowSize(data) <= FlashSize
  BY DEF Good
<1>2. size \in Nat /\ size % 4 = 0
  BY AlignUpProperties
<1>3. err \in {"SUCCESS", "SAME", "NOT_ENOUGH_MEMORY", "PARAMETER_WRONG"}
  BY DEF ResizeError
<1>4. ResizeResult(n, asked) =
        CASE err = "SUCCESS" -> [ret |-> Checked(ss, d), table |-> ss, words |-> d]
          [] err = "SAME"    -> [ret |-> "SUCCESS", table |-> sections, words |-> data]
          [] OTHER           -> [ret |-> err, table |-> sections, words |-> data]
  BY DEF ResizeResult
<1>5. CASE err # "SUCCESS"
  <2>1. m = moved
    BY <1>5 DEF Relocates
  <2> HIDE DEF err, m
  <2>2. Good(sections, data, m)
    BY <2>1
  <2> QED BY <1>3, <1>4, <1>5, <2>2 DEF Code, m
<1>6. CASE err = "SUCCESS"
  <2>1. Has(sections, n)
    BY <1>6 DEF ResizeError
  <2>2. k \in DOMAIN sections
    BY <2>1 DEF Has, Find
  <2>3. InData(sections[k], data)
    BY <1>6 DEF SpliceDefined
  <2> DEFINE old == sections[k].size
  <2>4. sections[k] \in Section /\ old \in Nat /\ old % 4 = 0
    BY <1>1, <2>2, SectionFields DEF AlignedTable
  <2>5. ~ (ShadowSize(data) + (size - old) > FlashSize)
    BY <1>6 DEF ResizeError
  <2> HIDE DEF size, err, k
  <2>6. diff \in Int
    <3> HIDE DEF old
    <3>1. size - old \in Int
      BY <1>2, <2>4
    <3> QED BY <3>1 DEF old
  <2>7. d \in Seq(Word) /\ 4 * Len(d) = 4 * Len(data) + size - old
    BY <1>1, <1>2, <2>3, <2>4, SplicedProperties
  <2>8. ShadowSize(d) <= FlashSize
    <3>1. ShadowSize(data) = Base + 4 * Len(data) /\ Len(data) \in Nat
      BY <1>1, ShadowProperties
    <3>2. ShadowSize(d) = Base + 4 * Len(d) /\ Len(d) \in Nat /\ Base \in Nat
      BY <2>7, ShadowProperties, BaseProperties
    <3>3. FlashSize \in Nat
      BY NvAssumption
    <3> HIDE DEF d, old
    <3> QED BY <1>2, <2>4, <2>5, <2>7, <3>1, <3>2, <3>3
  <2> HIDE DEF d
  <2>9. /\ all \in Seq(Section) /\ Len(all) = Len(sections) /\ AlignedTable(all)
        /\ all[k].size = size
    <3> HIDE DEF diff
    <3> QED BY <1>1, <1>2, <2>2, <2>6, ResizedTyped
  <2>10. ss \in Seq(Section) /\ Len(ss) <= Len(sections) /\ AlignedTable(ss)
    <3>1. Len(sections) \in Nat /\ DOMAIN sections = 1 .. Len(sections)
      BY <1>1, LenProperties
    <3> HIDE DEF all
    <3>2. k \in DOMAIN all
      BY <2>2, <2>9, <3>1, LenProperties
    <3>3. CASE size = 0
      <4>1. /\ Without(all, k) \in Seq(Section) /\ Len(Without(all, k)) = Len(all) - 1
            /\ AlignedTable(Without(all, k))
        BY <2>9, <3>2, WithoutTyped
      <4> QED BY <2>9, <3>1, <3>3, <4>1
    <3>4. CASE size # 0
      BY <2>9, <3>1, <3>4
    <3> QED BY <3>3, <3>4
  <2>11. Len(ss) * EntrySize <= TableSize
    <3>1. /\ Len(ss) \in Nat /\ Len(sections) \in Nat /\ EntrySize \in Nat
          /\ TableSize \in Nat
      BY <1>1, <2>10, LenProperties, NvAssumption
    <3> HIDE DEF ss
    <3>2. Len(ss) * EntrySize <= Len(sections) * EntrySize
      BY <2>10, <3>1
    <3>3. Len(ss) * EntrySize \in Nat /\ Len(sections) * EntrySize \in Nat
      BY <3>1
    <3> QED BY <1>1, <3>1, <3>2, <3>3
  <2>12. ASSUME ~ m PROVE Layout(ss, d)
    <3>1. ~ moved /\ ~ Relocates(n, asked)
      BY <2>12
    <3>2. k = Len(sections)
      BY <1>6, <3>1 DEF Relocates, err, size, k
    <3>3. Good(sections, data, FALSE) /\ sections # << >>
      BY <1>1, <2>2, <3>1 DEF Good
    <3>4. Good(all, d, FALSE)
      <4> HIDE DEF diff
      <4>1. 4 * Len(d) = 4 * Len(data) + size - sections[Len(sections)].size
        BY <2>7, <3>2
      <4> QED BY <1>2, <2>6, <2>7, <2>8, <3>2, <3>3, <4>1, ResizeLastGood
    <3> HIDE DEF all
    <3>5. CASE size = 0
      <4>1. Len(all) = k /\ all[Len(all)].size = 0
        BY <2>9, <3>2, <3>5
      <4>2. all # << >>
        BY <1>1, <2>9, <3>3, EmptySeq
      <4>3. Good(Without(all, Len(all)), d, FALSE)
        BY <3>4, <4>1, <4>2, DropLastGood
      <4> QED BY <3>5, <4>1, <4>3 DEF Good
    <3>6. CASE size # 0
      BY <3>4, <3>6 DEF Good
    <3> QED BY <3>5, <3>6
  <2>13. Good(ss, d, m)
    BY <2>7, <2>8, <2>10, <2>11, <2>12 DEF Good
  <2> HIDE DEF ss, m
  <2>14. ResizeResult(n, asked) = [ret |-> Checked(ss, d), table |-> ss, words |-> d]
    BY <1>4, <1>6
  <2> QED BY <2>13, <2>14, CheckedCodes DEF Code, m
<1> QED BY <1>5, <1>6

-----------------------------------------------------------------------------
(* Loading an image *)

\* A bounded set of numbers has a largest element.
LEMMA LargestExists ==
  ASSUME NEW N \in Nat, NEW T, T \subseteq 0 .. N, T # {}
  PROVE  \E x \in T : \A y \in T : y <= x
<1> DEFINE R == {p \in Nat \X Nat : p[1] < p[2]}
           U == {N - z : z \in T}
<1>1. IsWellFoundedOn(R, Nat)
  BY NatLessThanWellFounded DEF OpToRel
<1>2. U \subseteq Nat /\ U # {}
  <2>1. \A z \in T : N - z \in Nat
    <3>1. \A z \in T : z \in 0 .. N
      BY Zenon
    <3> HIDE DEF U, R
    <3> QED BY <3>1
  <2> QED BY <2>1, Zenon
<1>3. \E u \in U : \A v \in U : <<v, u>> \notin R
  <2> HIDE DEF R, U
  <2> QED BY <1>1, <1>2, WFMin
<1>4. PICK x \in T : \A v \in U : <<v, N - x>> \notin R
  BY <1>3
<1>5. \A y \in T : y <= x
  <2> TAKE y \in T
  <2>1. N - y \in U
    <3>1. \E z \in T : N - y = N - z
      BY Zenon
    <3> QED BY <3>1
  <2>2. x \in 0 .. N /\ y \in 0 .. N
    <3> HIDE DEF U, R
    <3>1. \A z \in T : z \in 0 .. N
      BY Zenon
    <3> QED BY <3>1
  <2>3. N - y \in Nat /\ N - x \in Nat
    BY <2>2
  <2>4. <<N - y, N - x>> \notin R
    BY <1>4, <2>1
  <2>5. ~ (N - y < N - x)
    BY <2>3, <2>4
  <2> QED BY <2>2, <2>5
<1> QED BY <1>5

\* The extent of a table is the largest end of a section.
LEMMA ExtentProperties ==
  ASSUME NEW ss \in Seq(Section), NEW N \in Nat, Base <= N,
         \A i \in DOMAIN ss : End(ss[i]) <= N
  PROVE  /\ Extent(ss) \in Nat /\ Base <= Extent(ss) /\ Extent(ss) <= N
         /\ \A i \in DOMAIN ss : End(ss[i]) <= Extent(ss)
         /\ Extent(ss) \in {Base} \cup {End(ss[i]) : i \in DOMAIN ss}
<1> DEFINE T == {Base} \cup {End(ss[i]) : i \in DOMAIN ss}
<1>1. \A i \in DOMAIN ss : End(ss[i]) \in Nat
  BY SectionFields
<1>2. T \subseteq 0 .. N /\ T # {}
  BY <1>1, BaseProperties
<1>3. PICK m \in T : \A y \in T : y <= m
  <2> HIDE DEF T
  <2> QED BY <1>2, LargestExists
<1>4. m >= Base /\ \A i \in DOMAIN ss : End(ss[i]) <= m
  BY <1>2, <1>3, BaseProperties
<1>5. /\ Extent(ss) \in T /\ Extent(ss) >= Base
      /\ \A i \in DOMAIN ss : End(ss[i]) <= Extent(ss)
  BY <1>3, <1>4 DEF Extent
<1> HIDE DEF T
<1>6. Extent(ss) \in 0 .. N
  BY <1>2, <1>5
<1> QED BY <1>5, <1>6, BaseProperties DEF T

\* The sections of a table in good order end where the shadow ends.
LEMMA CleanExtent ==
  ASSUME NEW ss \in Seq(Section), NEW d \in Seq(Word), ss # << >>, LayoutOK(ss, d)
  PROVE  Extent(ss) = ShadowSize(d) /\ AlignUp(Extent(ss)) = ShadowSize(d)
<1>1. /\ ShadowSize(d) \in Nat /\ Base <= ShadowSize(d) /\ ShadowSize(d) % 4 = 0
  BY ShadowProperties, BaseProperties
<1>2. \A i \in DOMAIN ss : End(ss[i]) <= ShadowSize(d)
  BY DEF LayoutOK
<1>3. /\ Extent(ss) \in Nat /\ Extent(ss) <= ShadowSize(d)
      /\ \A i \in DOMAIN ss : End(ss[i]) <= Extent(ss)
  BY <1>1, <1>2, ExtentProperties
<1>4. Len(ss) \in DOMAIN ss /\ End(ss[Len(ss)]) = ShadowSize(d)
  BY EmptySeq, LenProperties DEF LayoutOK
<1>5. Extent(ss) = ShadowSize(d)
  BY <1>1, <1>3, <1>4
<1> QED BY <1>1, <1>5, AlignUpProperties

\* Marking the sections of a table as valid changes no other field.
LEMMA ParsedSection ==
  ASSUME NEW x \in Section, x.size # 0
  PROVE  /\ Parsed(x) = [x EXCEPT !.valid = TRUE]
         /\ Parsed(x) \in Section
         /\ Parsed(x).name = x.name /\ Parsed(x).size = x.size
         /\ Parsed(x).pos = x.pos /\ End(Parsed(x)) = End(x)
  BY DEF Parsed, Section, End

\* A table without empty sections is parsed section by section.
LEMMA ParsedTableProperties ==
  ASSUME NEW img \in Image, \A i \in DOMAIN img.table : img.table[i].size # 0
  PROVE  LET ss == img.table
             tt == ParsedTable(img)
         IN  /\ tt \in Seq(Section) /\ Len(tt) = Len(ss) /\ DOMAIN tt = DOMAIN ss
             /\ \A i \in DOMAIN ss :
                  /\ tt[i] = [ss[i] EXCEPT !.valid = TRUE]
                  /\ tt[i].name = ss[i].name /\ tt[i].size = ss[i].size
                  /\ tt[i].pos = ss[i].pos /\ End(tt[i]) = End(ss[i])
<1> DEFINE ss == img.table
           tt == ParsedTable(img)
<1>1. ss \in Seq(Section)
  BY DEF Image
<1>2. Len(ss) \in Nat /\ DOMAIN ss = 1 .. Len(ss)
  BY <1>1, LenProperties
<1>3. \A i \in 1 .. Len(ss) : ss[i] \in Section /\ ss[i].size # 0
  BY <1>1, <1>2, ElementOfSeq
<1>4. tt = [i \in 1 .. Len(ss) |-> Parsed(ss[i])]
  BY <1>2 DEF ParsedTable
<1> HIDE DEF tt, ss
<1>5. \A i \in 1 .. Len(ss) : tt[i] = Parsed(ss[i])
  BY <1>4
<1>6. \A i \in 1 .. Len(ss) : tt[i] \in Section
  BY <1>3, <1>5, ParsedSection
<1>7. tt \in Seq(Section) /\ Len(tt) = Len(ss) /\ DOMAIN tt = 1 .. Len(ss)
  BY <1>2, <1>4, <1>6
<1>8. \A i \in 1 .. Len(ss) :
        /\ tt[i] = [ss[i] EXCEPT !.valid = TRUE]
        /\ tt[i].name = ss[i].name /\ tt[i].size = ss[i].size
        /\ tt[i].pos = ss[i].pos /\ End(tt[i]) = End(ss[i])
  BY <1>3, <1>5, ParsedSection
<1> QED BY <1>2, <1>7, <1>8 DEF ss, tt

\* An image without empty sections, of a table in good order, has the same table and
\* data after it was parsed.
LEMMA CleanImage ==
  ASSUME NEW img \in Image, \A i \in DOMAIN img.table : img.table[i].size # 0,
         LayoutOK(img.table, img.data), img.table # << >>
  PROVE  /\ ParsedData(img) = img.data
         /\ LayoutOK(ParsedTable(img), img.data)
         /\ Contiguous(img.table) => Contiguous(ParsedTable(img))
         /\ IntegrityOK(ParsedTable(img), ShadowSize(img.data))
<1> DEFINE ss == img.table
           tt == ParsedTable(img)
           d  == img.data
<1>1. ss \in Seq(Section) /\ d \in Seq(Word)
  BY DEF Image
<1>2. /\ tt \in Seq(Section) /\ Len(tt) = Len(ss) /\ DOMAIN tt = DOMAIN ss
      /\ \A i \in DOMAIN ss :
           /\ tt[i].name = ss[i].name /\ tt[i].size = ss[i].size
           /\ tt[i].pos = ss[i].pos /\ End(tt[i]) = End(ss[i])
  BY ParsedTableProperties
<1>3. Len(ss) \in DOMAIN ss /\ DOMAIN ss = 1 .. Len(ss)
  BY <1>1, EmptySeq, LenProperties
<1>4. \A i \in DOMAIN ss : /\ ss[i].size \in Nat /\ ss[i].pos \in Nat
                           /\ End(ss[i]) \in Nat /\ End(ss[i]) = ss[i].pos + ss[i].size
  BY <1>1, SectionFields DEF End
<1>5. AlignUp(Extent(ss)) = ShadowSize(d)
  BY <1>1, CleanExtent
<1>6. /\ ShadowSize(d) = Base + 4 * Len(d) /\ Len(d) \in Nat /\ Base \in Nat
      /\ ShadowSize(d) \in Nat
  BY <1>1, ShadowProperties, BaseProperties
<1>7. ParsedData(img) = d
  <2>1. (ShadowSize(d) - Base) \div 4 = Len(d)
    <3> DEFINE l == Len(d)
    <3>1. ShadowSize(d) - Base = 4 * l /\ l \in Nat
      BY <1>6
    <3> HIDE DEF l
    <3>2. (4 * l) \div 4 = l
      BY <3>1
    <3> QED BY <3>1, <3>2 DEF l
  <2>2. ParsedData(img) = SubSeq(d, 1, Len(d))
    BY <1>5, <2>1 DEF ParsedData
  <2> QED BY <1>1, <2>2, SubSeqFull
<1>8. LayoutOK(ss, d) /\ ss # << >>
  OBVIOUS
<1> HIDE DEF ss, tt, d
<1>9. tt # << >>
  BY <1>1, <1>2, <1>3, <1>8, EmptySeq
<1>10. LayoutOK(tt, d)
  BY <1>2, <1>3, <1>8, <1>9 DEF LayoutOK
<1>11. ASSUME Contiguous(ss) PROVE Contiguous(tt)
  <2> SUFFICES ASSUME NEW i \in DOMAIN ss
               PROVE  tt[i].pos = IF i = 1 THEN Base ELSE End(tt[i - 1])
    BY <1>2 DEF Contiguous
  <2>1. ss[i].pos = IF i = 1 THEN Base ELSE End(ss[i - 1])
    BY <1>11 DEF Contiguous
  <2>2. i # 1 => i - 1 \in DOMAIN ss
    BY <1>3
  <2> QED BY <1>2, <2>1, <2>2
<1>12. AlignUp(Extent(tt)) = ShadowSize(d)
  BY <1>1, <1>2, <1>9, <1>10, CleanExtent
<1>13. \A i, j \in DOMAIN tt : tt[i].name # tt[j].name => ~ Overlaps(tt[i], tt[j])
  <2> SUFFICES ASSUME NEW i \in DOMAIN tt, NEW j \in DOMAIN tt, i # j
               PROVE  ~ Overlaps(tt[i], tt[j])
    OBVIOUS
  <2>1. /\ tt[i].pos \in Nat /\ tt[j].pos \in Nat
        /\ End(tt[i]) \in Nat /\ End(tt[j]) \in Nat
        /\ tt[i].pos <= End(tt[i]) /\ tt[j].pos <= End(tt[j])
    BY <1>2, <1>4
  <2>2. i < j \/ j < i
    BY <1>2, <1>3
  <2>3. End(tt[i]) <= tt[j].pos \/ End(tt[j]) <= tt[i].pos
    BY <1>10, <2>2 DEF LayoutOK
  <2> QED BY <2>1, <2>3 DEF Overlaps
<1>14. IntegrityOK(tt, ShadowSize(d))
  BY <1>9, <1>10, <1>12, <1>13 DEF IntegrityOK, LayoutOK
<1> QED BY <1>7, <1>10, <1>11, <1>14 DEF ss, tt, d

\* What try_to_load accepts is a table and a shadow that belong together.
LEMMA LoadsGood ==
  ASSUME NEW img \in Image, Good(img.table, img.data, img.moved), Loads(img)
  PROVE  Good(ParsedTable(img), ParsedData(img), img.moved)
<1> DEFINE ss == img.table
           tt == ParsedTable(img)
           d  == img.data
           d2 == ParsedData(img)
<1>1. ss \in Seq(Section) /\ d \in Seq(Word)
  BY DEF Image
<1>2. ASSUME NEW i \in DOMAIN ss PROVE ss[i].size # 0
  <2> SUFFICES ASSUME ss[i].size = 0 PROVE FALSE
    OBVIOUS
  <2>1. i \in DOMAIN tt /\ tt[i].pos = 0
    BY <1>2 DEF ParsedTable, Parsed
  <2>2. Base <= tt[i].pos
    BY <2>1 DEF Loads, IntegrityOK
  <2> QED BY <2>1, <2>2, BaseProperties
<1>3. /\ tt \in Seq(Section) /\ Len(tt) = Len(ss) /\ DOMAIN tt = DOMAIN ss
      /\ \A i \in DOMAIN ss : tt[i].size = ss[i].size
  BY <1>2, ParsedTableProperties
<1>4. AlignedTable(tt) /\ Len(tt) * EntrySize <= TableSize
  BY <1>3 DEF Good, AlignedTable
<1>5. d2 \in Seq(Word) /\ ShadowSize(d2) <= FlashSize
  <2> DEFINE e == AlignUp(Extent(ss))
             k == (e - Base) \div 4
  <2>1. /\ ShadowSize(d) \in Nat /\ Base <= ShadowSize(d) /\ ShadowSize(d) % 4 = 0
        /\ Len(d) \in Nat /\ ShadowSize(d) = Base + 4 * Len(d)
        /\ Base \in Nat /\ Base % 4 = 0
    BY <1>1, ShadowProperties, BaseProperties
  <2>2. \A i \in DOMAIN ss : End(ss[i]) <= ShadowSize(d)
    BY DEF Loads
  <2>3. Extent(ss) \in Nat /\ Base <= Extent(ss) /\ Extent(ss) <= ShadowSize(d)
    BY <1>1, <2>1, <2>2, ExtentProperties
  <2>4. e \in Nat /\ e % 4 = 0 /\ Base <= e /\ e <= ShadowSize(d)
    <3>1. /\ e \in Nat /\ e % 4 = 0 /\ Extent(ss) <= e
          /\ \A m \in Nat : m % 4 = 0 /\ Extent(ss) <= m => e <= m
      BY <2>3, AlignUpProperties
    <3> HIDE DEF e
    <3> QED BY <2>1, <2>3, <3>1
  <2>5. d2 = SubSeq(d, 1, k)
    BY DEF ParsedData
  <2> HIDE DEF e
  <2>6. k \in Nat /\ 4 * k = e - Base /\ k <= Len(d)
    BY <2>1, <2>4
  <2> HIDE DEF k, d2
  <2>7. d2 \in Seq(Word) /\ Len(d2) = k
    BY <1>1, <2>5, <2>6, PartProperties, 0 \in Nat, 0 + 1 = 1, k - 0 = k, 0 <= k
  <2>8. ShadowSize(d2) = e
    BY <2>1, <2>4, <2>6, <2>7, ShadowProperties
  <2>9. ShadowSize(d) <= FlashSize /\ FlashSize \in Nat
    BY NvAssumption DEF Good
  <2> QED BY <2>1, <2>4, <2>7, <2>8, <2>9
<1>6. ASSUME ~ img.moved PROVE Layout(tt, d2)
  <2>1. LayoutOK(ss, d) /\ Contiguous(ss)
    BY <1>6 DEF Good, Layout
  <2>2. ss # << >>
    <3>1. tt # << >>
      BY DEF Loads, IntegrityOK
    <3> HIDE DEF tt
    <3> QED BY <1>1, <1>3, <3>1, EmptySeq
  <2>3. d2 = d /\ LayoutOK(tt, d) /\ Contiguous(tt)
    BY <1>2, <2>1, <2>2, CleanImage
  <2> QED BY <2>3 DEF Layout
<1> QED BY <1>3, <1>4, <1>5, <1>6 DEF Good

-----------------------------------------------------------------------------
(* The inductive invariant *)

\* The system starts with nothing stored and an empty table.
THEOREM InductiveInit == Init => IInv
<1> SUFFICES ASSUME Init PROVE IInv
  OBVIOUS
<1>1. todo \in Seq(Default) /\ Base \in Nat
  BY NvAssumption, BaseProperties DEF Init, Default
<1>2. TypeOK
  <2>1. /\ << >> \in Seq(Section) /\ << >> \in Seq(Word) /\ << >> \in Seq(Default)
    BY EmptySeq
  <2>2. last \in [op : Op, name : Name \cup {NoName}, ret : Code]
    BY DEF Init, Code, Op
  <2> QED BY <1>1, <2>1, <2>2 DEF Init, TypeOK, Code
<1>3. Good(sections, data, moved) /\ FlashGood
  BY EmptyGood DEF Init, FlashGood
<1>4. LastGood /\ StoreGood
  BY DEF Init, LastGood, StoreGood, OnlyTableOverflowStopsStore
<1> QED BY <1>2, <1>3, <1>4 DEF IInv

\* The default section at the head of the list of those still to be visited.
LEMMA TodoProperties ==
  ASSUME todo \in Seq(Default), todo # << >>
  PROVE  /\ Head(todo) \in Default /\ Head(todo).name \in Name /\ Head(todo).size \in Nat
         /\ Tail(todo) \in Seq(Default)
<1>1. Head(todo) \in Default /\ Tail(todo) \in Seq(Default)
  BY HeadTailProperties
<1> QED BY <1>1 DEF Default

\* Power on leaves an empty table, whatever was there before.
LEMMA PowerOnKeeps ==
  ASSUME NEW fw \in Firmware, PowerOn(fw)
  PROVE  /\ sections' \in Seq(Section) /\ data' \in Seq(Word) /\ moved' \in BOOLEAN
         /\ defaults' \in Seq(Default) /\ todo' \in Seq(Default) /\ reserved' \in Nat
         /\ phase' = "config" /\ code' \in Code
         /\ Good(sections', data', moved')
<1>1. fw \in Seq(Default) /\ Base \in Nat
  BY NvAssumption, BaseProperties DEF Default
<1>2. /\ << >> \in Seq(Section) /\ << >> \in Seq(Word) /\ << >> \in Seq(Default)
      /\ Good(<< >>, << >>, FALSE)
  BY EmptyGood, EmptySeq
<1> QED BY <1>1, <1>2 DEF PowerOn, Code

\* Writing a word of a section changes neither the table nor the length of the data.
LEMMA WriteKeeps ==
  ASSUME IInv, NEW n \in Name, NEW off \in Size, NEW w \in Word,
         WriteSection(n, off, w)
  PROVE  Good(sections', data', moved') /\ data' \in Seq(Word)
<1> DEFINE s == sections[Find(sections, n)]
           i == (s.pos - Base + off) \div 4 + 1
<1>1. sections \in Seq(Section) /\ data \in Seq(Word) /\ Good(sections, data, moved)
  BY DEF IInv, Good
<1>2. sections' = sections /\ moved' = moved
  BY DEF WriteSection
<1>3. CASE data' = data
  BY <1>1, <1>2, <1>3
<1>4. CASE /\ Has(sections, n) /\ WriteFits(s, off) /\ InData(s, data)
           /\ data' = [data EXCEPT ![i] = w]
  <2>1. data' \in Seq(Word) /\ Len(data') = Len(data)
    <3>1. Find(sections, n) \in DOMAIN sections
      BY <1>4 DEF Has, Find
    <3>2. s.pos \in Nat /\ s.size \in Nat /\ off \in Nat
      BY <1>1, <3>1, SectionFields, NvAssumption
    <3>3. Len(data) \in Nat
      BY <1>1, LenProperties
    <3> HIDE DEF s
    <3>4. s.pos - Base \in Nat /\ (s.pos - Base) + off + 4 <= 4 * Len(data)
      <4>1. /\ 4 + off <= s.size
            /\ Base <= s.pos /\ s.pos + s.size <= Base + 4 * Len(data)
        BY <1>4 DEF WriteFits, InData, End, ShadowSize
      <4>2. Base \in Nat
        BY BaseProperties
      <4> DEFINE at   == s.pos
                 size == s.size
                 g    == Len(data)
      <4>3. /\ at \in Nat /\ size \in Nat /\ off \in Nat /\ g \in Nat
            /\ 4 + off <= size /\ Base <= at /\ at + size <= Base + 4 * g
        BY <3>2, <3>3, <4>1
      <4> HIDE DEF at, size, g
      <4>4. at - Base \in Nat /\ (at - Base) + off + 4 <= 4 * g
        BY ONLY <4>2, <4>3
      <4> QED BY <4>4 DEF at, g
    <3> DEFINE q == s.pos - Base
               g == Len(data)
    <3>a. q \in Nat /\ g \in Nat /\ off \in Nat /\ q + off + 4 <= 4 * g
      BY <3>2, <3>3, <3>4
    <3>5. i \in 1 .. Len(data)
      <4> HIDE DEF q, g
      <4>1. (q + off) \div 4 + 1 \in 1 .. g
        BY ONLY <3>a, WordInData
      <4> QED BY <4>1 DEF q, g
    <3> HIDE DEF i
    <3> QED BY <1>1, <1>4, <3>5, ExceptSeq
  <2>2. ShadowSize(data') = ShadowSize(data)
    BY <2>1 DEF ShadowSize
  <2>3. ASSUME Layout(sections, data) PROVE Layout(sections, data')
    <3>1. sections = << >> => data' = << >>
      <4>1. ASSUME sections = << >> PROVE FALSE
        BY <1>4, <4>1 DEF Has
      <4> QED BY <4>1
    <3> QED BY <2>2, <2>3, <3>1 DEF Layout, LayoutOK
  <2> QED BY <1>1, <1>2, <2>1, <2>2, <2>3 DEF Good
<1> QED BY <1>3, <1>4 DEF WriteSection

\* Every step of startup, of the interface and of the power supply keeps the invariant.
THEOREM InductiveStep == IInv /\ [Next]_vars => IInv'
<1> SUFFICES ASSUME IInv, [Next]_vars PROVE IInv'
  OBVIOUS
<1> USE DEF IInv
<1> DEFINE SameRam   == UNCHANGED <<sections, data, moved>>
           StartStep == UNCHANGED <<flash, last, calls>>
<1>1. ASSUME AcceptDefault PROVE IInv'
  <2>1. Head(todo) \in Default /\ Head(todo).size \in Nat /\ Tail(todo) \in Seq(Default)
    BY <1>1, TodoProperties DEF AcceptDefault, TypeOK
  <2>2. TypeOK'
    BY <1>1, <2>1, AppendProperties DEF AcceptDefault, TypeOK
  <2> QED BY <1>1, <2>2 DEF AcceptDefault, FlashGood, LastGood, StoreGood,
             OnlyTableOverflowStopsStore, TableOverflows
<1>2. ASSUME RejectDefault PROVE IInv'
  <2>1. Tail(todo) \in Seq(Default)
    BY <1>2, TodoProperties DEF RejectDefault, TypeOK
  <2>2. TypeOK'
    BY <1>2, <2>1 DEF RejectDefault, TypeOK, Code
  <2> QED BY <1>2, <2>2 DEF RejectDefault, FlashGood, LastGood, StoreGood,
             OnlyTableOverflowStopsStore, TableOverflows
<1>3. ASSUME Configured PROVE IInv'
  BY <1>3 DEF Configured, TypeOK, FlashGood, LastGood, StoreGood,
     OnlyTableOverflowStopsStore, TableOverflows
<1>4. ASSUME TryToLoad PROVE IInv'
  <2>1. Good(sections', data', moved')
    <3>1. CASE Loads(flash)
      <4>1. flash # NoImage
        BY <3>1 DEF Loads
      <4>2. flash \in Image /\ Good(flash.table, flash.data, flash.moved)
        BY <4>1 DEF TypeOK, FlashGood
      <4>3. Good(ParsedTable(flash), ParsedData(flash), flash.moved)
        BY <3>1, <4>2, LoadsGood
      <4> QED BY <1>4, <3>1, <4>3 DEF TryToLoad
    <3>2. CASE ~ Loads(flash)
      BY <1>4, <3>2, EmptyGood DEF TryToLoad
    <3> QED BY <3>1, <3>2
  <2>2. moved' \in BOOLEAN /\ code' \in Code
    <3>1. Loads(flash) => flash.moved \in BOOLEAN
      BY DEF Loads, TypeOK, Image
    <3> QED BY <1>4, <3>1 DEF TryToLoad, Code
  <2>3. TypeOK'
    BY <1>4, <2>1, <2>2 DEF TryToLoad, TypeOK, Good
  <2>4. last.op = "none"
    BY <1>4 DEF TryToLoad, LastGood
  <2> QED BY <1>4, <2>1, <2>3, <2>4 DEF TryToLoad, FlashGood, LastGood, StoreGood,
             OnlyTableOverflowStopsStore
<1>5. ASSUME LoadAdds PROVE IInv'
  <2>1. Head(todo).name \in Name /\ Head(todo).size \in Nat /\ Tail(todo) \in Seq(Default)
    BY <1>5, TodoProperties DEF LoadAdds, TypeOK
  <2>2. Good(sections', data', moved') /\ code' \in Code
    BY <1>5, <2>1, AddKeeps DEF LoadAdds
  <2>3. TypeOK'
    BY <1>5, <2>1, <2>2 DEF LoadAdds, TypeOK, Good
  <2>4. last.op = "none"
    BY <1>5 DEF LoadAdds, LastGood
  <2> QED BY <1>5, <2>2, <2>3, <2>4 DEF LoadAdds, FlashGood, LastGood, StoreGood,
             OnlyTableOverflowStopsStore
<1>6. ASSUME LoadResizes PROVE IInv'
  <2>1. Head(todo).name \in Name /\ Head(todo).size \in Nat /\ Tail(todo) \in Seq(Default)
    BY <1>6, TodoProperties DEF LoadResizes, TypeOK
  <2>2. moved \in BOOLEAN /\ moved' \in BOOLEAN
    BY <1>6 DEF LoadResizes, TypeOK, Relocates
  <2>3. Good(sections', data', moved') /\ code' \in Code
    BY <1>6, <2>1, <2>2, ResizeKeeps DEF LoadResizes
  <2>4. TypeOK'
    BY <1>6, <2>1, <2>2, <2>3 DEF LoadResizes, TypeOK, Good
  <2>5. last.op = "none"
    BY <1>6 DEF LoadResizes, LastGood
  <2> QED BY <1>6, <2>3, <2>4, <2>5 DEF LoadResizes, FlashGood, LastGood, StoreGood,
             OnlyTableOverflowStopsStore
<1>7. ASSUME LoadKeeps PROVE IInv'
  <2>1. Tail(todo) \in Seq(Default)
    BY <1>7, TodoProperties DEF LoadKeeps, TypeOK
  <2>2. TypeOK'
    BY <1>7, <2>1 DEF LoadKeeps, TypeOK
  <2> QED BY <1>7, <2>2 DEF LoadKeeps, FlashGood, LastGood, StoreGood,
             OnlyTableOverflowStopsStore, TableOverflows
<1>8. ASSUME Loaded PROVE IInv'
  BY <1>8 DEF Loaded, TypeOK, Op, FlashGood, LastGood, StoreGood,
     OnlyTableOverflowStopsStore, TableOverflows
<1>9. ASSUME NEW n \in Name, NEW size \in Size, AddSection(n, size) PROVE IInv'
  <2>1. size \in Nat
    BY NvAssumption
  <2>2. Good(sections', data', moved') /\ AddResult(n, size).ret \in Code
    BY <1>9, <2>1, AddKeeps DEF AddSection
  <2>3. TypeOK'
    BY <1>9, <2>2 DEF AddSection, Called, TypeOK, Good, Op
  <2> QED BY <1>9, <2>2, <2>3 DEF AddSection, Called, FlashGood, LastGood, StoreGood,
             OnlyTableOverflowStopsStore
<1>10. ASSUME NEW n \in Name, NEW size \in Nat, ResizeSection(n, size) PROVE IInv'
  <2>1. moved \in BOOLEAN /\ moved' \in BOOLEAN
    BY <1>10 DEF ResizeSection, TypeOK, Relocates
  <2>2. Good(sections', data', moved') /\ ResizeResult(n, size).ret \in Code
    BY <1>10, <2>1, ResizeKeeps DEF ResizeSection
  <2>3. TypeOK'
    BY <1>10, <2>1, <2>2 DEF ResizeSection, Called, TypeOK, Good, Op
  <2> QED BY <1>10, <2>2, <2>3 DEF ResizeSection, Called, FlashGood, LastGood, StoreGood,
             OnlyTableOverflowStopsStore
<1>11. ASSUME NEW n \in Name, NEW off \in Size, NEW w \in Word, WriteSection(n, off, w)
       PROVE  IInv'
  <2>1. Good(sections', data', moved') /\ data' \in Seq(Word)
    BY <1>11, WriteKeeps
  <2>2. /\ UNCHANGED <<sections, flash, moved, defaults, reserved, todo, phase, code>>
        /\ phase = "ready" /\ calls' = calls + 1
        /\ last'.op = "write" /\ last' \in [op : Op, name : Name \cup {NoName}, ret : Code]
    BY <1>11 DEF WriteSection, Called, Op, Code
  <2>3. TypeOK'
    BY <2>1, <2>2 DEF TypeOK
  <2> QED BY <2>1, <2>2, <2>3 DEF FlashGood, LastGood, StoreGood,
             OnlyTableOverflowStopsStore
<1>12. ASSUME Store PROVE IInv'
  <2>1. /\ UNCHANGED <<sections, data, moved, defaults, reserved, todo, phase, code>>
        /\ phase \in {"ready", "halted"} /\ calls' = calls + 1
        /\ last' \in [op : Op, name : Name \cup {NoName}, ret : Code]
    BY <1>12 DEF Store, Called, Op, Code
  <2>2. flash' = flash \/ flash' = ImageNow
    BY <1>12 DEF Store
  <2>3. FlashGood' /\ (flash' = NoImage \/ flash' \in Image)
    <3>1. CASE flash' = flash
      BY <3>1 DEF FlashGood, TypeOK
    <3>2. CASE flash' = ImageNow
      BY <3>2 DEF FlashGood, TypeOK, ImageNow, Image
    <3> QED BY <2>2, <3>1, <3>2
  <2>4. StoreGood'
    <3>1. ASSUME last'.ret # "SUCCESS" PROVE TableOverflows'
      <4>1. StoreError
        BY <1>12, <3>1 DEF Store, Called
      <4>2. ~ (ShadowSize(data) > FlashSize)
        <5>1. ShadowSize(data) \in Nat /\ ShadowSize(data) <= FlashSize
          BY ShadowProperties DEF TypeOK, Good
        <5> QED BY <5>1, NvAssumption
      <4>3. TableOverflows
        BY <4>1, <4>2 DEF StoreError
      <4> QED BY <2>1, <4>3 DEF TableOverflows
    <3> QED BY <3>1 DEF StoreGood, OnlyTableOverflowStopsStore
  <2>5. TypeOK'
    BY <2>1, <2>3 DEF TypeOK
  <2> QED BY <2>1, <2>3, <2>4, <2>5 DEF LastGood
<1>13. ASSUME NEW fw \in Firmware, PowerCycle(fw) PROVE IInv'
  <2>1. PowerOn(fw) /\ calls' = calls + 1 /\ flash' = flash
        /\ last' = [op |-> "none", name |-> NoName, ret |-> "SUCCESS"]
    BY <1>13 DEF PowerCycle
  <2>2. TypeOK' /\ Good(sections', data', moved')
    BY <2>1, PowerOnKeeps DEF TypeOK, Op, Code
  <2> QED BY <2>1, <2>2 DEF FlashGood, LastGood, StoreGood, OnlyTableOverflowStopsStore
<1>14. ASSUME UNCHANGED vars PROVE IInv'
  BY <1>14 DEF vars, TypeOK, FlashGood, LastGood, StoreGood,
     OnlyTableOverflowStopsStore, TableOverflows
<1>15. ASSUME NEW n \in Name, DeleteSection(n) PROVE IInv'
  BY <1>10, <1>15 DEF DeleteSection
<1>16. ASSUME NEW n \in Name, NEW size \in Size, ResizeSection(n, size) PROVE IInv'
  BY <1>10, <1>16, NvAssumption
<1> QED
  BY <1>1, <1>2, <1>3, <1>4, <1>5, <1>6, <1>7, <1>8, <1>9, <1>11, <1>12, <1>13,
     <1>14, <1>15, <1>16 DEF Next

-----------------------------------------------------------------------------
(* What holds of every firmware, flash size and number of sections *)

\* The invariant holds in every state NonvolatileDataHandler can reach.
THEOREM Invariance == Spec => []IInv
  BY InductiveInit, InductiveStep, PTL DEF Spec

\* The table, the shadow and the stored picture keep their types; in particular no
\* position ever leaves the 16 bits of m_u32_position.
THEOREM TypeCorrect == Spec => []TypeOK
<1>1. IInv => TypeOK
  BY DEF IInv
<1> QED BY <1>1, Invariance, PTL

\* Unless another section than the last was resized, add_section, resize_section and
\* load() keep the sections apart, in order and inside the shadow.
THEOREM LayoutIsClean == Spec => []CleanLayout
<1>1. IInv => CleanLayout
  BY DEF IInv, Good, Layout, CleanLayout
<1> QED BY <1>1, Invariance, PTL

\* The shadow never outgrows the flash blocks, whether or not resize_section has
\* already damaged the table.
THEOREM ShadowAlwaysFits == Spec => []ShadowFits
<1>1. IInv => ShadowFits
  BY DEF IInv, Good, ShadowFits
<1> QED BY <1>1, Invariance, PTL

\* store() fails for want of room in the table area and for no other reason.
THEOREM StoreFailsOnlyOnTable == Spec => []OnlyTableOverflowStopsStore
<1>1. IInv => OnlyTableOverflowStopsStore
  BY DEF IInv, StoreGood
<1> QED BY <1>1, Invariance, PTL

\* What store() wrote from an undamaged table without empty sections is restored by
\* the next try_to_load: the round trip through flash loses nothing.
THEOREM StoredImageLoads == Spec => []StoredLoads
<1>1. ASSUME IInv PROVE StoredLoads
  <2> SUFFICES ASSUME flash # NoImage, ~ flash.moved, flash.table # << >>,
                      \A i \in DOMAIN flash.table : flash.table[i].size > 0
               PROVE  /\ Loads(flash)
                      /\ ParsedData(flash) = flash.data
                      /\ ParsedTable(flash) =
                           [i \in DOMAIN flash.table |->
                              [flash.table[i] EXCEPT !.valid = TRUE]]
    BY DEF StoredLoads
  <2>1. flash \in Image /\ Good(flash.table, flash.data, FALSE)
    BY <1>1 DEF IInv, TypeOK, FlashGood, Good
  <2>2. LayoutOK(flash.table, flash.data)
    BY <2>1 DEF Good, Layout
  <2>3. \A i \in DOMAIN flash.table : flash.table[i].size # 0
    OBVIOUS
  <2>4. /\ ParsedData(flash) = flash.data
        /\ IntegrityOK(ParsedTable(flash), ShadowSize(flash.data))
    BY <2>1, <2>2, <2>3, CleanImage
  <2>5. Loads(flash)
    BY <2>1, <2>2, <2>4 DEF Loads, LayoutOK, Good
  <2>6. ParsedTable(flash) = [i \in DOMAIN flash.table |->
                                [flash.table[i] EXCEPT !.valid = TRUE]]
    BY <2>3, Zenon DEF ParsedTable, Parsed
  <2> QED BY <2>4, <2>5, <2>6
<1> QED BY <1>1, Invariance, PTL

\* A call that reports a wrong parameter or missing memory has changed neither the
\* table nor the shadow nor the flash.
THEOREM FailuresAreClean == Spec => FailedCallsChangeNothing
<1> DEFINE Failed  == last'.ret \in {"NOT_ENOUGH_MEMORY", "PARAMETER_WRONG"}
           Nothing == UNCHANGED <<sections, data, flash>>
<1>1. ASSUME IInv, [Next]_vars, calls' # calls, Failed PROVE Nothing
  <2>1. ASSUME NEW n \in Name, NEW size \in Size, AddSection(n, size) PROVE Nothing
    <3>1. size \in Nat /\ last'.ret = AddResult(n, size).ret
      BY <2>1, NvAssumption DEF AddSection, Called
    <3>2. AddResult(n, size).table = sections /\ AddResult(n, size).words = data
      BY <1>1, <3>1, AddKeeps DEF IInv
    <3> QED BY <2>1, <3>2 DEF AddSection
  <2>2. ASSUME NEW n \in Name, NEW size \in Nat, ResizeSection(n, size) PROVE Nothing
    <3>1. last'.ret = ResizeResult(n, size).ret /\ SpliceDefined(n, size)
      BY <2>2 DEF ResizeSection, Called
    <3>2. ResizeResult(n, size).table = sections /\ ResizeResult(n, size).words = data
      BY <1>1, <3>1, ResizeKeeps DEF IInv, TypeOK
    <3> QED BY <2>2, <3>2 DEF ResizeSection
  <2>3. ASSUME NEW n \in Name, NEW off \in Size, NEW w \in Word, WriteSection(n, off, w)
        PROVE  Nothing
    BY <1>1, <2>3 DEF WriteSection, Called
  <2>4. ASSUME Store PROVE Nothing
    BY <1>1, <2>4 DEF Store, Called
  <2>5. ASSUME NEW fw \in Firmware, PowerCycle(fw) PROVE FALSE
    BY <1>1, <2>5 DEF PowerCycle
  <2>6. ASSUME \/ AcceptDefault \/ RejectDefault \/ Configured \/ TryToLoad
               \/ LoadAdds \/ LoadResizes \/ LoadKeeps \/ Loaded
        PROVE  FALSE
    BY <1>1, <2>6 DEF AcceptDefault, RejectDefault, Configured, TryToLoad, LoadAdds,
       LoadResizes, LoadKeeps, Loaded
  <2>7. ~ UNCHANGED vars
    BY <1>1 DEF vars
  <2>8. \A n \in Name : DeleteSection(n) => Nothing
    BY <2>2 DEF DeleteSection
  <2> QED BY <1>1, <2>1, <2>2, <2>3, <2>4, <2>5, <2>6, <2>7, <2>8, NvAssumption DEF Next
<1>2. IInv /\ [Next]_vars => [calls' # calls /\ Failed => Nothing]_vars
  BY <1>1
<1> QED BY <1>2, Invariance, PTL DEF Spec, FailedCallsChangeNothing
-----------------------------------------------------------------------------
(* What a call leaves alone *)

DifferentNames(ss) == \A i, j \in DOMAIN ss : ss[i].name = ss[j].name => i = j

\* the word of the data a section begins at, and its number of words
FirstWord(s) == (s.pos - Base) \div 4
Words(s)     == s.size \div 4

\* A section in the data consists of words of the data.
LEMMA SectionWords ==
  ASSUME NEW s \in Section, NEW d \in Seq(Word), InData(s, d)
  PROVE  /\ FirstWord(s) \in Nat /\ Words(s) \in Nat /\ Len(d) \in Nat
         /\ FirstWord(s) + Words(s) \in Nat
         /\ FirstWord(s) <= FirstWord(s) + Words(s)
         /\ FirstWord(s) + Words(s) <= Len(d)
<1>1. Len(d) \in Nat /\ s.pos \in Nat /\ s.size \in Nat
  BY NvAssumption, LenProperties DEF Section
<1>2. s.pos - Base \in Nat /\ (s.pos - Base) + s.size <= 4 * Len(d)
  BY <1>1, BaseProperties DEF InData, End, ShadowSize
<1> DEFINE q == s.pos - Base
           z == s.size
           g == Len(d)
<1>3. q \in Nat /\ z \in Nat /\ g \in Nat /\ q + z <= 4 * g
  BY <1>1, <1>2
<1>4. FirstWord(s) = q \div 4 /\ Words(s) = z \div 4
  BY DEF FirstWord, Words
<1> HIDE DEF q, z, g
<1>5. /\ q \div 4 \in Nat /\ z \div 4 \in Nat /\ q \div 4 + z \div 4 \in Nat
      /\ q \div 4 + z \div 4 <= g /\ q \div 4 <= q \div 4 + z \div 4
  BY ONLY <1>3, WordsInData
<1> QED BY <1>3, <1>4, <1>5 DEF g

\* A section holds the same in two tables if they have the same entry for it and the words
\* there are the same.
LEMMA SameContent ==
  ASSUME NEW ss \in Seq(Section), NEW tt \in Seq(Section),
         NEW d \in Seq(Word), NEW e \in Seq(Word), NEW n,
         DifferentNames(ss), DifferentNames(tt),
         NEW j \in DOMAIN ss, ss[j].name = n, j \in DOMAIN tt, tt[j] = ss[j],
         InData(ss[j], d), InData(ss[j], e),
         \A q \in 1 .. Len(d) :
           q > FirstWord(ss[j]) /\ q <= FirstWord(ss[j]) + Words(ss[j]) => e[q] = d[q]
  PROVE  Content(tt, e, n) = Content(ss, d, n)
<1>1. Find(ss, n) = j /\ Find(tt, n) = j
  BY DEF Find, DifferentNames
<1> DEFINE k == FirstWord(ss[j])
           l == FirstWord(ss[j]) + Words(ss[j])
<1>2. /\ k \in Nat /\ l \in Nat /\ k <= l /\ l <= Len(d) /\ Len(d) \in Nat
  BY SectionFields, SectionWords
<1>3. l <= Len(e)
  BY SectionFields, SectionWords
<1>4. Content(ss, d, n) = SubSeq(d, k + 1, l) /\ Content(tt, e, n) = SubSeq(e, k + 1, l)
  BY <1>1 DEF Content, FirstWord, Words
<1>5. \A q \in 1 .. Len(d) : q > k /\ q <= l => e[q] = d[q]
  OBVIOUS
<1> HIDE DEF k, l
<1>6. /\ SubSeq(d, k + 1, l) \in Seq(Word) /\ Len(SubSeq(d, k + 1, l)) = l - k
      /\ \A q \in 1 .. l - k : SubSeq(d, k + 1, l)[q] = d[k + q]
  BY <1>2, PartProperties
<1>7. /\ SubSeq(e, k + 1, l) \in Seq(Word) /\ Len(SubSeq(e, k + 1, l)) = l - k
      /\ \A q \in 1 .. l - k : SubSeq(e, k + 1, l)[q] = e[k + q]
  BY <1>2, <1>3, PartProperties
<1>8. \A q \in 1 .. l - k : k + q \in 1 .. Len(d) /\ k + q > k /\ k + q <= l
  BY <1>2
<1>9. \A q \in 1 .. l - k : SubSeq(e, k + 1, l)[q] = SubSeq(d, k + 1, l)[q]
  BY <1>5, <1>6, <1>7, <1>8
<1>10. SubSeq(e, k + 1, l) = SubSeq(d, k + 1, l)
  BY <1>6, <1>7, <1>9, SeqEqual
<1> QED BY <1>4, <1>10

\* The beginning of a sequence stays what it was when something follows it.
LEMMA PrefixOfConcat ==
  ASSUME NEW d \in Seq(Word), NEW k \in Nat, k <= Len(d), NEW y \in Seq(Word)
  PROVE  /\ SubSeq(d, 1, k) \o y \in Seq(Word)
         /\ Len(SubSeq(d, 1, k) \o y) = k + Len(y)
         /\ \A q \in 1 .. k : (SubSeq(d, 1, k) \o y)[q] = d[q]
<1> DEFINE x == SubSeq(d, 1, k)
<1>1. x \in Seq(Word) /\ Len(x) = k /\ \A q \in 1 .. k : x[q] = d[q]
  <2>1. 0 \in Nat /\ 0 <= k /\ 0 + 1 = 1 /\ k - 0 = k /\ \A q \in 1 .. k : 0 + q = q
    OBVIOUS
  <2> QED BY <2>1, PartProperties
<1> HIDE DEF x
<1>2. /\ x \o y \in Seq(Word) /\ Len(x \o y) = Len(x) + Len(y)
      /\ \A q \in 1 .. Len(x) + Len(y) :
           (x \o y)[q] = IF q <= Len(x) THEN x[q] ELSE y[q - Len(x)]
  BY <1>1, ConcatProperties
<1>3. Len(y) \in Nat
  BY LenProperties
<1>4. \A q \in 1 .. k : q \in 1 .. Len(x) + Len(y) /\ q <= Len(x)
  BY <1>1, <1>3
<1> QED BY <1>1, <1>2, <1>4 DEF x

\* Grown leaves the words in front of the new ones alone.
LEMMA GrownKeeps ==
  ASSUME NEW d \in Seq(Word), NEW at \in Nat, at <= Len(d), NEW words \in Nat
  PROVE  \A q \in 1 .. at : Grown(d, at, words)[q] = d[q]
<1> DEFINE new   == [i \in 1 .. words |-> Zero]
           after == SubSeq(d, at + 1, Len(d))
           x     == SubSeq(d, 1, at) \o new
<1>1. new \in Seq(Word) /\ Len(new) = words
  BY NvAssumption
<1>2. after \in Seq(Word)
  BY LenProperties, PartProperties
<1>3. Grown(d, at, words) = x \o after
  BY DEF Grown
<1>4. x \in Seq(Word) /\ Len(x) = at + words /\ \A q \in 1 .. at : x[q] = d[q]
  <2> HIDE DEF new
  <2> QED BY <1>1, PrefixOfConcat
<1> HIDE DEF x, after
<1>5. \A q \in 1 .. Len(x) + Len(after) :
        (x \o after)[q] = IF q <= Len(x) THEN x[q] ELSE after[q - Len(x)]
  BY <1>2, <1>4, ConcatProperties
<1>6. \A q \in 1 .. at : q \in 1 .. Len(x) + Len(after) /\ q <= Len(x)
  BY <1>2, <1>4, LenProperties
<1> QED BY <1>3, <1>4, <1>5, <1>6

\* Spliced leaves the words in front of the section alone.
LEMMA SplicedKeeps ==
  ASSUME NEW d \in Seq(Word), NEW s \in Section, NEW size \in Nat,
         InData(s, d), s.size % 4 = 0, size % 4 = 0
  PROVE  \A q \in 1 .. FirstWord(s) : Spliced(d, s, size)[q] = d[q]
<1> DEFINE from == FirstWord(s)
           to   == FirstWord(s) + Words(s)
<1>1. /\ from \in Nat /\ to \in Nat /\ from <= to /\ to <= Len(d) /\ Len(d) \in Nat
      /\ s.size \in Nat
  BY SectionWords, NvAssumption DEF Section
<1>2. CASE size > s.size
  <2> DEFINE words == (size - s.size) \div 4
  <2>1. words \in Nat
    BY <1>1, <1>2
  <2>2. Spliced(d, s, size) = Grown(d, to, words)
    BY <1>2 DEF Spliced, FirstWord, Words
  <2> HIDE DEF words, from, to
  <2>3. \A q \in 1 .. to : Grown(d, to, words)[q] = d[q]
    BY <1>1, <2>1, GrownKeeps
  <2>4. \A q \in 1 .. from : q \in 1 .. to
    BY <1>1
  <2> QED BY <2>2, <2>3, <2>4 DEF from
<1>3. CASE ~ (size > s.size)
  <2> DEFINE k     == FirstWord(s) + size \div 4
             after == SubSeq(d, to + 1, Len(d))
  <2>1. k \in Nat /\ from <= k /\ k <= Len(d)
    <3> DEFINE p == size \div 4
               q == Words(s)
    <3>1. p \in Nat /\ 4 * p = size /\ q \in Nat /\ 4 * q = s.size
      BY <1>1 DEF Words
    <3>2. p <= q
      BY <1>1, <1>3, <3>1
    <3>3. k = from + p /\ to = from + q
      OBVIOUS
    <3> HIDE DEF p, q, k, to, from
    <3> QED BY <1>1, <3>1, <3>2, <3>3
  <2>2. Spliced(d, s, size) = SubSeq(d, 1, k) \o after
    BY <1>3 DEF Spliced, FirstWord, Words
  <2>3. after \in Seq(Word)
    <3> HIDE DEF to
    <3> QED BY <1>1, PartProperties
  <2> HIDE DEF k, from, after
  <2>4. \A q \in 1 .. k : (SubSeq(d, 1, k) \o after)[q] = d[q]
    BY <2>1, <2>3, PrefixOfConcat
  <2>5. \A q \in 1 .. from : q \in 1 .. k
    BY <1>1, <2>1
  <2> QED BY <2>2, <2>4, <2>5 DEF from
<1> QED BY <1>2, <1>3

\* What is known of a table in good order: different names, and every section's words
\* lie in the data, those of a later section behind those of an earlier one.
LEMMA GoodSections ==
  ASSUME NEW ss, NEW d, Good(ss, d, FALSE)
  PROVE  /\ ss \in Seq(Section) /\ d \in Seq(Word) /\ DifferentNames(ss)
         /\ \A i \in DOMAIN ss : InData(ss[i], d)
         /\ \A i, j \in DOMAIN ss : i < j => End(ss[i]) <= ss[j].pos
  BY DEF Good, Layout, LayoutOK, DifferentNames, InData

\* Byte ranges that follow each other consist of words that follow each other.
LEMMA RangesInWords ==
  \A p, z, q \in Nat : p + z <= q => p \div 4 + z \div 4 <= q \div 4
OBVIOUS

\* A section that ends before another one begins has its words before the other's.
LEMMA WordsFollow ==
  ASSUME NEW s \in Section, NEW t \in Section, Base <= s.pos, Base <= t.pos,
         End(s) <= t.pos
  PROVE  FirstWord(s) + Words(s) <= FirstWord(t)
<1> DEFINE p == s.pos - Base
           z == s.size
           q == t.pos - Base
<1>1. p \in Nat /\ z \in Nat /\ q \in Nat /\ p + z <= q
  BY NvAssumption, BaseProperties DEF Section, End
<1>2. FirstWord(s) = p \div 4 /\ Words(s) = z \div 4 /\ FirstWord(t) = q \div 4
  BY DEF FirstWord, Words
<1> HIDE DEF p, z, q
<1> QED BY <1>1, <1>2, RangesInWords

\* The frame of a call: the name of the section it is about is free.
Framed(n) ==
  Has(sections, n) /\ Has(sections', n) =>
    Content(sections', data', n) = Content(sections, data, n)

\* add_section puts the new section behind the others.
LEMMA AddFramed ==
  ASSUME Good(sections, data, FALSE), NEW m \in Name, NEW asked \in Nat, NEW n,
         n # m, sections' = AddResult(m, asked).table, data' = AddResult(m, asked).words,
         Good(sections', data', FALSE)
  PROVE  Framed(n)
<1> DEFINE size == AlignUp(asked)
<1>1. CASE AddError(m, asked) # "SUCCESS"
  BY <1>1 DEF AddResult, Framed
<1>2. CASE AddError(m, asked) = "SUCCESS"
  <2>1. sections' = Added(m, size) /\ data' = RoomFor(data, size)
    BY <1>2 DEF AddResult
  <2>2. size \in Nat
    BY AlignUpProperties
  <2>3. /\ sections \in Seq(Section) /\ data \in Seq(Word) /\ DifferentNames(sections)
        /\ sections' \in Seq(Section) /\ data' \in Seq(Word) /\ DifferentNames(sections')
        /\ \A i \in DOMAIN sections : InData(sections[i], data)
        /\ \A i \in DOMAIN sections' : InData(sections'[i], data')
    BY GoodSections
  <2> SUFFICES ASSUME Has(sections, n), Has(sections', n)
               PROVE  Content(sections', data', n) = Content(sections, data, n)
    BY DEF Framed
  <2> DEFINE x == [name |-> m, size |-> size, pos |-> NewPosition(data, size),
                   valid |-> FALSE]
  <2>4. sections' = Append(sections, x) /\ x.name = m
    BY <2>1 DEF Added
  <2> HIDE DEF x
  <2>5. PICK j \in DOMAIN sections' : sections'[j].name = n
    BY DEF Has
  <2>6. /\ Len(sections) \in Nat /\ DOMAIN sections = 1 .. Len(sections)
        /\ DOMAIN sections' = 1 .. Len(sections) + 1
        /\ \A i \in 1 .. Len(sections) : sections'[i] = sections[i]
        /\ sections'[Len(sections) + 1] = x
    BY <2>3, <2>4, LenProperties
  <2>7. j \in DOMAIN sections /\ sections'[j] = sections[j]
    BY <2>4, <2>5, <2>6
  <2>8. \A q \in 1 .. Len(data) : data'[q] = data[q]
    <3> DEFINE words == size \div 4
    <3>1. words \in Nat /\ Len(data) \in Nat
      BY <2>2, <2>3, LenProperties
    <3>2. data' = Grown(data, Len(data), words)
      BY <2>1 DEF RoomFor
    <3> HIDE DEF words
    <3> QED BY <2>3, <3>1, <3>2, GrownKeeps
  <2>9. InData(sections[j], data) /\ InData(sections[j], data')
    BY <2>3, <2>5, <2>7
  <2>10. sections[j].name = n /\ sections'[j] = sections[j]
    BY <2>5, <2>7
  <2>11. \A q \in 1 .. Len(data) :
           q > FirstWord(sections[j]) /\ q <= FirstWord(sections[j]) + Words(sections[j])
             => data'[q] = data[q]
    BY <2>8
  <2>12. /\ sections \in Seq(Section) /\ data \in Seq(Word)
         /\ sections' \in Seq(Section) /\ data' \in Seq(Word)
         /\ DifferentNames(sections) /\ DifferentNames(sections')
         /\ j \in DOMAIN sections /\ j \in DOMAIN sections'
    BY <2>3, <2>5, <2>7
  <2> QED BY ONLY <2>9, <2>10, <2>11, <2>12, SameContent
<1> QED BY <1>1, <1>2

\* Resizing or deleting the last section leaves the entries before it alone.
LEMMA EntriesKept ==
  ASSUME Good(sections, data, FALSE), NEW size \in Nat, size % 4 = 0, NEW diff \in Int,
         sections # << >>
  PROVE  LET k   == Len(sections)
             all == Resized(Relocated(sections, k, diff), k, size)
             ss  == IF size = 0 THEN Without(all, k) ELSE all
         IN  /\ \A j \in DOMAIN ss : j # k => j \in DOMAIN sections /\ ss[j] = sections[j]
             /\ k \in DOMAIN ss => ss[k].name = sections[k].name
<1> DEFINE k   == Len(sections)
           all == Resized(Relocated(sections, k, diff), k, size)
<1>1. /\ sections \in Seq(Section) /\ AlignedTable(sections)
      /\ \A i, j \in DOMAIN sections : i < j => End(sections[i]) <= sections[j].pos
  BY GoodSections DEF Good
<1>2. k \in Nat \ {0} /\ DOMAIN sections = 1 .. k /\ k \in DOMAIN sections
  BY <1>1, EmptySeq, LenProperties
<1>3. all \in Seq(Section) /\ Len(all) = k
  <2> HIDE DEF k
  <2>1. /\ sections \in Seq(Section) /\ AlignedTable(sections) /\ k \in DOMAIN sections
    BY <1>1, <1>2
  <2>2. /\ all \in Seq(Section) /\ Len(all) = Len(sections) /\ AlignedTable(all)
        /\ all[k].size = size
    BY ONLY <2>1, diff \in Int, size \in Nat, size % 4 = 0, ResizedTyped
  <2> QED BY <2>2 DEF k
<1>4. \A i \in 1 .. k : /\ sections[i].pos \in Nat /\ sections[i].size \in Nat
                        /\ End(sections[i]) = sections[i].pos + sections[i].size
                        /\ sections[i] \in Section
  BY <1>1, <1>2, SectionFields DEF End
<1>5. k \notin Behind(sections, k)
  BY <1>2, <1>4 DEF Behind
<1>6. \A i \in 1 .. k : i # k => i \notin Behind(sections, k)
  <2> SUFFICES ASSUME NEW i \in 1 .. k, i # k PROVE ~ (sections[i].pos > sections[k].pos)
    BY DEF Behind
  <2>1. i < k
    <3> HIDE DEF k
    <3> QED BY <1>2
  <2>2. End(sections[i]) <= sections[k].pos
    BY <1>1, <1>2, <2>1
  <2>3. /\ sections[i].pos \in Nat /\ sections[i].size \in Nat /\ sections[k].pos \in Nat
        /\ End(sections[i]) = sections[i].pos + sections[i].size
    BY <1>2, <1>4
  <2> DEFINE a == sections[i].pos
             b == sections[k].pos
             c == sections[i].size
  <2> HIDE DEF k
  <2>4. a \in Nat /\ b \in Nat /\ c \in Nat /\ a + c <= b
    BY <2>2, <2>3
  <2> HIDE DEF a, b, c
  <2>5. ~ (a > b)
    BY <2>4
  <2> QED BY <2>5 DEF a, b
<1>7. \A i \in 1 .. k : Relocated(sections, k, diff)[i] = sections[i]
  BY <1>2, <1>5, <1>6 DEF Relocated
<1>8. DOMAIN Relocated(sections, k, diff) = 1 .. k
  BY <1>2 DEF Relocated
<1>9. /\ \A i \in 1 .. k : i # k => all[i] = sections[i]
      /\ all[k].name = sections[k].name
  <2>1. k \in 1 .. k
    BY <1>2
  <2>2. sections[k] \in Section
    BY <1>4, <2>1
  <2> QED BY <1>7, <1>8, <2>1, <2>2 DEF Resized, Section
<1>10. DOMAIN all = 1 .. k
  BY <1>3, LenProperties
<1> HIDE DEF all, k
<1>11. CASE size # 0
  BY <1>2, <1>9, <1>10, <1>11 DEF all, k
<1>12. CASE size = 0
  <2>1. SubSeq(all, k + 1, Len(all)) = << >>
    BY <1>2, <1>3, SubSeqEmpty
  <2>2. /\ SubSeq(all, 1, k - 1) \in Seq(Section) /\ Len(SubSeq(all, 1, k - 1)) = k - 1
        /\ \A i \in 1 .. k - 1 : SubSeq(all, 1, k - 1)[i] = all[i]
    <3>1. k - 1 \in Nat /\ 0 \in Nat /\ 0 <= k - 1 /\ k - 1 <= Len(all) /\ 0 + 1 = 1
          /\ (k - 1) - 0 = k - 1 /\ \A i \in 1 .. k - 1 : 0 + i = i
      BY <1>2, <1>3
    <3> QED BY <1>3, <3>1, PartProperties
  <2>3. Without(all, k) = SubSeq(all, 1, k - 1)
    BY <2>1, <2>2, ConcatEmptySeq DEF Without
  <2>4. DOMAIN Without(all, k) = 1 .. k - 1
    BY <2>2, <2>3, LenProperties
  <2>5. \A j \in 1 .. k - 1 : j \in 1 .. k /\ j # k
    BY <1>2
  <2>6. k \notin 1 .. k - 1
    BY <1>2
  <2> QED BY <1>2, <1>9, <1>12, <2>2, <2>3, <2>4, <2>5, <2>6 DEF all, k
<1> QED BY <1>11, <1>12

\* resize_section of the last section leaves the others alone.
LEMMA ResizeFramed ==
  ASSUME Good(sections, data, FALSE), NEW m \in Name, NEW asked \in Nat, NEW n, n # m,
         SpliceDefined(m, asked), ~ Relocates(m, asked),
         sections' = ResizeResult(m, asked).table, data' = ResizeResult(m, asked).words,
         Good(sections', data', FALSE)
  PROVE  Framed(n)
<1> DEFINE size == AlignUp(asked)
           err  == ResizeError(m, size)
           k    == Find(sections, m)
           diff == size - sections[k].size
           all  == Resized(Relocated(sections, k, diff), k, size)
           ss   == IF size = 0 THEN Without(all, k) ELSE all
           d    == Spliced(data, sections[k], size)
<1>1. size \in Nat /\ size % 4 = 0
  BY AlignUpProperties
<1>2. /\ sections \in Seq(Section) /\ data \in Seq(Word) /\ DifferentNames(sections)
      /\ sections' \in Seq(Section) /\ data' \in Seq(Word) /\ DifferentNames(sections')
      /\ \A i \in DOMAIN sections : InData(sections[i], data)
      /\ \A i \in DOMAIN sections' : InData(sections'[i], data')
      /\ \A i, j \in DOMAIN sections : i < j => End(sections[i]) <= sections[j].pos
  BY GoodSections
<1>3. ResizeResult(m, asked) =
        CASE err = "SUCCESS" -> [ret |-> Checked(ss, d), table |-> ss, words |-> d]
          [] err = "SAME"    -> [ret |-> "SUCCESS", table |-> sections, words |-> data]
          [] OTHER           -> [ret |-> err, table |-> sections, words |-> data]
  BY DEF ResizeResult
<1>4. CASE err # "SUCCESS"
  <2> HIDE DEF err, ss, d
  <2>1. sections' = sections /\ data' = data
    BY <1>3, <1>4
  <2> QED BY <2>1 DEF Framed
<1>5. CASE err = "SUCCESS"
  <2>1. sections' = ss /\ data' = d
    <3> HIDE DEF err, ss, d
    <3> QED BY <1>3, <1>5
  <2>2. Has(sections, m)
    BY <1>5 DEF ResizeError
  <2>3. k \in DOMAIN sections /\ sections[k].name = m
    BY <2>2 DEF Has, Find
  <2>4. k = Len(sections)
    BY <1>5 DEF Relocates
  <2>5. sections[k] \in Section /\ sections[k].size \in Nat /\ sections[k].size % 4 = 0
    BY <1>2, <2>3, SectionFields DEF Good, AlignedTable
  <2>6. diff \in Int /\ sections # << >>
    <3>1. sections # << >>
      BY <2>3
    <3> DEFINE o == sections[k].size
    <3> HIDE DEF size, o
    <3>2. size - o \in Int
      BY <1>1, <2>5 DEF o
    <3> QED BY <3>1, <3>2 DEF o
  <2> HIDE DEF size, diff, k
  <2>7. /\ \A j \in DOMAIN ss : j # k => j \in DOMAIN sections /\ ss[j] = sections[j]
        /\ k \in DOMAIN ss => ss[k].name = sections[k].name
    BY <1>1, <2>4, <2>6, EntriesKept
  <2> HIDE DEF ss
  <2> SUFFICES ASSUME Has(sections, n), Has(sections', n)
               PROVE  Content(sections', data', n) = Content(sections, data, n)
    BY DEF Framed
  <2>8. PICK j \in DOMAIN sections' : sections'[j].name = n
    BY DEF Has
  <2>9. j # k /\ j \in DOMAIN sections /\ sections'[j] = sections[j]
    BY <2>1, <2>3, <2>7, <2>8
  <2>10. j < k
    BY <1>2, <2>3, <2>4, <2>9, LenProperties
  <2>11. FirstWord(sections[j]) + Words(sections[j]) <= FirstWord(sections[k])
    <3>1. sections[j] \in Section /\ sections[k] \in Section
      BY <1>2, <2>3, <2>9, SectionFields
    <3>2. Base <= sections[j].pos /\ Base <= sections[k].pos
          /\ End(sections[j]) <= sections[k].pos
      BY <1>2, <2>3, <2>9, <2>10 DEF InData
    <3> QED BY <3>1, <3>2, WordsFollow
  <2>12. \A q \in 1 .. FirstWord(sections[k]) : data'[q] = data[q]
    BY <1>1, <1>2, <2>1, <2>3, <2>5, SplicedKeeps
  <2>13. \A q \in 1 .. Len(data) :
           q > FirstWord(sections[j]) /\ q <= FirstWord(sections[j]) + Words(sections[j])
             => data'[q] = data[q]
    <3>1. /\ FirstWord(sections[k]) \in Nat
          /\ FirstWord(sections[j]) + Words(sections[j]) \in Nat
      <4>1. sections[j] \in Section /\ sections[k] \in Section
            /\ InData(sections[j], data) /\ InData(sections[k], data)
        BY <1>2, <2>3, <2>9, SectionFields
      <4> QED BY <1>2, <4>1, SectionWords
    <3> DEFINE a == FirstWord(sections[k])
               b == FirstWord(sections[j]) + Words(sections[j])
    <3>2. a \in Nat /\ b \in Nat /\ b <= a /\ \A q \in 1 .. a : data'[q] = data[q]
      BY <2>11, <2>12, <3>1
    <3>3. \A q \in 1 .. Len(data) : q <= b => data'[q] = data[q]
      <4> HIDE DEF a, b
      <4>1. Len(data) \in Nat
        BY <1>2, LenProperties
      <4>2. \A q \in 1 .. Len(data) : q <= b => q \in 1 .. a
        BY <3>2, <4>1
      <4> QED BY <3>2, <4>2
    <3> QED BY <3>3
  <2>14. InData(sections[j], data) /\ InData(sections[j], data')
    BY <1>2, <2>8, <2>9
  <2>15. sections[j].name = n /\ sections'[j] = sections[j]
    BY <2>8, <2>9
  <2>16. /\ sections \in Seq(Section) /\ data \in Seq(Word)
         /\ sections' \in Seq(Section) /\ data' \in Seq(Word)
         /\ DifferentNames(sections) /\ DifferentNames(sections')
         /\ j \in DOMAIN sections /\ j \in DOMAIN sections'
    BY <1>2, <2>8, <2>9
  <2> QED BY ONLY <2>13, <2>14, <2>15, <2>16, SameContent
<1> QED BY <1>4, <1>5

\* The word a write goes to, o bytes after the start p of z bytes, is not one of those y bytes from
\* x on, if the two ranges do not overlap.
LEMMA WriteMisses ==
  \A p, z, x, y, o \in Nat :
    o + 4 <= z /\ (p + z <= x \/ x + y <= p) =>
      LET q == (p + o) \div 4 + 1
      IN  ~ (q > x \div 4 /\ q <= x \div 4 + y \div 4)
OBVIOUS

\* write_section changes a word of its own section only.
LEMMA WriteFramed ==
  ASSUME Good(sections, data, FALSE), NEW m \in Name, NEW off \in Nat, NEW w \in Word,
         NEW n, n # m, WriteSection(m, off, w), data' \in Seq(Word)
  PROVE  Framed(n)
<1> DEFINE k == Find(sections, m)
           s == sections[k]
           e == (s.pos - Base + off) \div 4 + 1
<1>1. sections' = sections
  BY DEF WriteSection
<1>2. CASE ~ (Has(sections, m) /\ WriteFits(s, off))
  BY <1>1, <1>2 DEF WriteSection, Framed
<1>3. CASE Has(sections, m) /\ WriteFits(s, off)
  <2>1. data' = [data EXCEPT ![e] = w]
    BY <1>3 DEF WriteSection
  <2>2. k \in DOMAIN sections /\ sections[k].name = m
    BY <1>3 DEF Has, Find
  <2>3. /\ sections \in Seq(Section) /\ data \in Seq(Word) /\ DifferentNames(sections)
        /\ \A i \in DOMAIN sections : InData(sections[i], data)
        /\ \A i, j \in DOMAIN sections : i < j => End(sections[i]) <= sections[j].pos
    BY GoodSections
  <2>4. off + 4 <= s.size
    <3>1. s.size \in Nat
      BY <2>2, <2>3, SectionFields
    <3> QED BY <1>3, <3>1 DEF WriteFits
  <2> HIDE DEF k
  <2> SUFFICES ASSUME Has(sections, n)
               PROVE  Content(sections', data', n) = Content(sections, data, n)
    BY DEF Framed
  <2>5. PICK j \in DOMAIN sections : sections[j].name = n
    BY DEF Has
  <2>6. End(s) <= sections[j].pos \/ End(sections[j]) <= s.pos
    <3>1. j # k
      BY <2>2, <2>5
    <3>2. j < k \/ k < j
      BY <2>2, <2>3, <3>1, LenProperties
    <3> QED BY <2>2, <2>3, <3>2
  <2>7. ~ (e > FirstWord(sections[j])
           /\ e <= FirstWord(sections[j]) + Words(sections[j]))
    <3> DEFINE p == s.pos - Base
               z == s.size
               x == sections[j].pos - Base
               y == sections[j].size
    <3>1. /\ s.pos \in Nat /\ s.size \in Nat
          /\ sections[j].pos \in Nat /\ sections[j].size \in Nat
          /\ Base <= s.pos /\ Base <= sections[j].pos /\ Base \in Nat
          /\ End(s) = s.pos + s.size
          /\ End(sections[j]) = sections[j].pos + sections[j].size
      BY <2>2, <2>3, SectionFields, BaseProperties DEF InData, End
    <3>2. p \in Nat /\ z \in Nat /\ x \in Nat /\ y \in Nat
      BY <3>1
    <3>3. p + z <= x \/ x + y <= p
      <4> DEFINE a == s.pos
                 c == sections[j].pos
                 g == Base
      <4>1. /\ a \in Nat /\ z \in Nat /\ c \in Nat /\ y \in Nat /\ g \in Nat
            /\ (a + z <= c \/ c + y <= a)
        BY <2>6, <3>1
      <4>2. p = a - g /\ x = c - g
        OBVIOUS
      <4> HIDE DEF p, x, z, y, a, c, g, e, s
      <4>3. (a - g) + z <= c - g \/ (c - g) + y <= a - g
        BY ONLY <4>1
      <4> QED BY <4>2, <4>3
    <3>4. /\ e = (p + off) \div 4 + 1
          /\ FirstWord(sections[j]) = x \div 4 /\ Words(sections[j]) = y \div 4
      BY DEF FirstWord, Words
    <3>5. off + 4 <= z
      BY <2>4
    <3> HIDE DEF p, z, x, y, e
    <3>6. ~ ((p + off) \div 4 + 1 > x \div 4 /\ (p + off) \div 4 + 1 <= x \div 4 + y \div 4)
      BY <3>2, <3>3, <3>5, WriteMisses
    <3> QED BY <3>4, <3>6
  <2>8. \A q \in 1 .. Len(data) : q # e => data'[q] = data[q]
    <3> HIDE DEF e
    <3>1. DOMAIN data = 1 .. Len(data)
      BY <2>3, LenProperties
    <3> QED BY <2>1, <3>1
  <2>9. \A q \in 1 .. Len(data) :
          q > FirstWord(sections[j]) /\ q <= FirstWord(sections[j]) + Words(sections[j])
            => data'[q] = data[q]
    <3> HIDE DEF e
    <3> QED BY <2>7, <2>8
  <2>10. InData(sections[j], data) /\ InData(sections[j], data')
    <3>1. Len(data') = Len(data)
      <4> HIDE DEF e
      <4>1. DOMAIN data' = DOMAIN data
        BY <2>1
      <4>2. 1 .. Len(data') = 1 .. Len(data) /\ Len(data) \in Nat /\ Len(data') \in Nat
        BY <2>3, <4>1, LenProperties
      <4> QED BY <4>2
    <3> QED BY <2>3, <3>1 DEF InData, ShadowSize
  <2> QED BY <1>1, <2>3, <2>5, <2>9, <2>10, SameContent
<1> QED BY <1>2, <1>3

\* As long as no section but the last one was resized, a call on one section leaves the
\* words of all others alone.
THEOREM CallsKeepContents == Spec => ContentFrame
<1> DEFINE Ready == phase = "ready" /\ phase' = "ready" /\ ~ moved'
           Kept  == \A n \in Name : Has(sections, n) /\ Has(sections', n) /\ n # last'.name
                      => Content(sections', data', n) = Content(sections, data, n)
<1>1. ASSUME IInv, IInv', [Next]_vars, Ready PROVE Kept
  <2> SUFFICES ASSUME NEW n \in Name, n # last'.name PROVE Framed(n)
    BY DEF Framed
  <2>1. Good(sections', data', FALSE)
    BY <1>1 DEF IInv, Good
  <2>2. ASSUME UNCHANGED <<sections, data>> PROVE Framed(n)
    BY <2>2 DEF Framed
  <2>3. ASSUME ~ moved PROVE Good(sections, data, FALSE)
    BY <1>1, <2>3 DEF IInv, Good
  <2>4. ASSUME NEW m \in Name, NEW size \in Size, AddSection(m, size) PROVE Framed(n)
    <3>1. /\ sections' = AddResult(m, size).table /\ data' = AddResult(m, size).words
          /\ last'.name = m /\ moved' = moved /\ size \in Nat
      BY <2>4, NvAssumption DEF AddSection, Called
    <3> QED BY <1>1, <2>1, <2>3, <3>1, AddFramed
  <2>5. ASSUME NEW m \in Name, NEW size \in Nat, ResizeSection(m, size) PROVE Framed(n)
    <3>1. /\ sections' = ResizeResult(m, size).table /\ data' = ResizeResult(m, size).words
          /\ last'.name = m /\ moved' = (moved \/ Relocates(m, size))
          /\ SpliceDefined(m, size)
      BY <2>5 DEF ResizeSection, Called
    <3>2. ~ moved /\ ~ Relocates(m, size)
      BY <1>1, <3>1
    <3> QED BY <2>1, <2>3, <3>1, <3>2, ResizeFramed
  <2>6. ASSUME NEW m \in Name, NEW off \in Size, NEW w \in Word, WriteSection(m, off, w)
        PROVE  Framed(n)
    <3>1. last'.name = m /\ moved' = moved /\ off \in Nat
      BY <2>6, NvAssumption DEF WriteSection, Called
    <3>2. data' \in Seq(Word)
      BY <2>1 DEF Good
    <3> QED BY <1>1, <2>3, <2>6, <3>1, <3>2, WriteFramed
  <2>7. ASSUME Store PROVE Framed(n)
    BY <2>2, <2>7 DEF Store
  <2>8. ASSUME NEW fw \in Firmware, PowerCycle(fw) PROVE FALSE
    BY <1>1, <2>8 DEF PowerCycle, PowerOn
  <2>9. ASSUME \/ AcceptDefault \/ RejectDefault \/ Configured \/ TryToLoad
               \/ LoadAdds \/ LoadResizes \/ LoadKeeps \/ Loaded
        PROVE  FALSE
    BY <1>1, <2>9 DEF AcceptDefault, RejectDefault, Configured, TryToLoad, LoadAdds,
       LoadResizes, LoadKeeps, Loaded
  <2>10. CASE UNCHANGED vars
    BY <2>2, <2>10 DEF vars
  <2>11. \A m \in Name : DeleteSection(m) => Framed(n)
    BY <2>5 DEF DeleteSection
  <2> QED BY <1>1, <2>4, <2>5, <2>6, <2>7, <2>8, <2>9, <2>10, <2>11, NvAssumption DEF Next
<1>2. IInv /\ IInv' /\ [Next]_vars => [Ready => Kept]_vars
  BY <1>1
<1> QED BY <1>2, Invariance, PTL DEF Spec, ContentFrame
====
