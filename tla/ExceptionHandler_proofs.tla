----------------------- MODULE ExceptionHandler_proofs -----------------------
(***************************************************************************)
(* Proofs about the list of exceptions: for any exceptions, any bound of   *)
(* the list, any size of its section and any interleaving of the main      *)
(* thread, Cyc100ms and the fault handlers.  First the list by itself,     *)
(* then what of it reaches the flash, what is read back, and when the      *)
(* section holds the list.                                                 *)
(***************************************************************************)
EXTENDS ExceptionHandler, SequenceTheorems, FunctionTheorems, FiniteSetTheorems, TLAPS

(* The inductive invariant *)

\* what the section EXCP, a picture of it or the flash can hold
Held == [{"EXCP"} -> Seq(Entry) \cup {Unwritten}]

NvTyped ==
  /\ ram \in Held
  /\ picture \in Held \cup {Nothing} /\ durable \in Held \cup {Nothing}

\* what Cyc100ms has found out about the list still holds
SearchHolds ==
  ~ raced /\ ~ frozen /\ ~ cyc.disturbed =>
    /\ cyc.pc \in {"shorten", "append"} => ~ Known(list, cyc.id)
    /\ cyc.pc = "append" => Len(list) < MaxExceptions

\* Cyc100ms does not handle exceptions before startup has come so far, or has stopped
BootIsQuiet == phase = "boot" /\ ~ halted => cyc.pc = "idle"

IInv == TypeOK /\ NvTyped /\ ListIsBounded /\ NoDuplicates /\ SearchHolds /\ BootIsQuiet

-----------------------------------------------------------------------------
(* Lists *)

\* Which entries are known is a matter of the identifiers alone.
LEMMA KnownIds ==
  ASSUME NEW l, NEW e
  PROVE  Known(l, e) <=> e \in Ids(l)
  BY DEF Known, Ids

\* A known exception is found where it is.
LEMMA AtFinds ==
  ASSUME NEW l, NEW e, Known(l, e)
  PROVE  At(l, e) \in DOMAIN l /\ l[At(l, e)].id = e
  BY DEF Known, At

\* Shortening a full list leaves room, and no identifier it did not have before.
LEMMA ShortenedProperties ==
  ASSUME NEW l \in Seq(Entry)
  PROVE  LET m == IF Len(l) = MaxExceptions THEN Tail(l) ELSE l
         IN  /\ m \in Seq(Entry) /\ Ids(m) \subseteq Ids(l)
             /\ Len(l) <= MaxExceptions => Len(m) < MaxExceptions
             /\ Distinct(l) => Distinct(m)
<1> DEFINE m == IF Len(l) = MaxExceptions THEN Tail(l) ELSE l
<1>1. MaxExceptions \in Nat \ {0} /\ Len(l) \in Nat /\ DOMAIN l = 1 .. Len(l)
  BY ExcpAssumption, LenProperties
<1>2. CASE Len(l) # MaxExceptions
  <2>1. Len(l) <= MaxExceptions => Len(l) < MaxExceptions
    <3> DEFINE n == Len(l)
    <3>1. n \in Nat /\ MaxExceptions \in Nat /\ n # MaxExceptions
      BY <1>1, <1>2
    <3> HIDE DEF n
    <3>2. n <= MaxExceptions => n < MaxExceptions
      BY <3>1
    <3> QED BY <3>2 DEF n
  <2>2. m = l
    BY <1>2
  <2> QED BY <2>1, <2>2
<1>3. CASE Len(l) = MaxExceptions
  <2> DEFINE t == Tail(l)
  <2>1. l # << >>
    BY <1>1, <1>3, EmptySeq
  <2>2. /\ t \in Seq(Entry) /\ Len(t) = Len(l) - 1
        /\ \A i \in 1 .. Len(t) : t[i] = l[i + 1]
    BY <2>1, HeadTailProperties
  <2> HIDE DEF t
  <2>3. DOMAIN t = 1 .. Len(t)
    BY <2>2, LenProperties
  <2>4. \A i \in DOMAIN t : i + 1 \in DOMAIN l /\ t[i] = l[i + 1]
    BY <1>1, <2>2, <2>3
  <2>5. Ids(t) \subseteq Ids(l)
    BY <2>4 DEF Ids
  <2>6. ASSUME Distinct(l) PROVE Distinct(t)
    <3> SUFFICES ASSUME NEW i \in DOMAIN t, NEW j \in DOMAIN t, t[i].id = t[j].id
                 PROVE  i = j
      BY DEF Distinct
    <3>1. i + 1 = j + 1
      BY <2>4, <2>6 DEF Distinct
    <3> QED BY <2>2, <2>3, <3>1
  <2> QED BY <1>1, <1>3, <2>2, <2>5, <2>6 DEF t
<1> QED BY <1>2, <1>3

\* An exception that was not listed is appended.
LEMMA AppendedProperties ==
  ASSUME NEW l \in Seq(Entry), NEW x \in Entry
  PROVE  LET m == Append(l, x)
         IN  /\ m \in Seq(Entry) /\ Len(m) = Len(l) + 1
             /\ Known(m, x.id) /\ Len(m) \in DOMAIN m
             /\ Distinct(l) /\ ~ Known(l, x.id) => Distinct(m)
<1> DEFINE m == Append(l, x)
           n == Len(l)
<1>1. n \in Nat /\ DOMAIN l = 1 .. n
  BY LenProperties
<1>2. /\ m \in Seq(Entry) /\ Len(m) = n + 1
      /\ \A i \in 1 .. n : m[i] = l[i]
      /\ m[n + 1] = x
  BY AppendProperties
<1> HIDE DEF m, n
<1>3. DOMAIN m = 1 .. n + 1
  BY <1>2, LenProperties
<1>4. Known(m, x.id)
  BY <1>1, <1>2, <1>3 DEF Known
<1>5. ASSUME Distinct(l), ~ Known(l, x.id) PROVE Distinct(m)
  <2> SUFFICES ASSUME NEW i \in 1 .. n + 1, NEW j \in 1 .. n + 1, m[i].id = m[j].id
               PROVE  i = j
    BY <1>3 DEF Distinct
  <2>1. \A k \in 1 .. n : m[k].id # x.id
    BY <1>1, <1>2, <1>5 DEF Known
  <2>2. CASE i \in 1 .. n /\ j \in 1 .. n
    BY <1>1, <1>2, <1>5, <2>2 DEF Distinct
  <2>3. CASE i = n + 1 \/ j = n + 1
    BY <1>1, <1>2, <2>1, <2>3
  <2> QED BY <1>1, <2>2, <2>3
<1> QED BY <1>1, <1>2, <1>3, <1>4, <1>5 DEF m, n

\* store_exception_in_list: the exception is listed afterwards, nothing is listed twice
\* and the list keeps its bound.
LEMMA StoredProperties ==
  ASSUME NEW l \in Seq(Entry), NEW x \in Entry
  PROVE  /\ Stored(l, x) \in Seq(Entry) /\ Known(Stored(l, x), x.id)
         /\ Distinct(l) => Distinct(Stored(l, x))
         /\ Len(l) <= MaxExceptions => Len(Stored(l, x)) <= MaxExceptions
<1>1. CASE Known(l, x.id)
  BY <1>1 DEF Stored
<1>2. CASE ~ Known(l, x.id)
  <2> DEFINE s == IF Len(l) = MaxExceptions THEN Tail(l) ELSE l
  <2>1. /\ s \in Seq(Entry) /\ Ids(s) \subseteq Ids(l)
        /\ Len(l) <= MaxExceptions => Len(s) < MaxExceptions
        /\ Distinct(l) => Distinct(s)
    BY ShortenedProperties
  <2>2. Stored(l, x) = Append(s, x)
    BY <1>2 DEF Stored
  <2> HIDE DEF s
  <2>3. ~ Known(s, x.id)
    BY <1>2, <2>1, KnownIds
  <2>4. /\ Append(s, x) \in Seq(Entry) /\ Len(Append(s, x)) = Len(s) + 1
        /\ Known(Append(s, x), x.id) /\ (Distinct(s) => Distinct(Append(s, x)))
    BY <2>1, <2>3, AppendedProperties
  <2>5. Len(s) \in Nat /\ MaxExceptions \in Nat
    BY <2>1, LenProperties, ExcpAssumption
  <2> QED BY <2>1, <2>2, <2>4, <2>5
<1> QED BY <1>1, <1>2

\* Counting an exception changes no identifier.
LEMMA CountedProperties ==
  ASSUME NEW l \in Seq(Entry), NEW i \in DOMAIN l
  PROVE  /\ Counted(l, i) \in Seq(Entry) /\ Len(Counted(l, i)) = Len(l)
         /\ Ids(Counted(l, i)) = Ids(l)
         /\ Distinct(l) => Distinct(Counted(l, i))
<1> DEFINE x == [l[i] EXCEPT !.count = @ + 1]
           m == [l EXCEPT ![i] = x]
<1>1. i \in 1 .. Len(l) /\ DOMAIN l = 1 .. Len(l)
  BY LenProperties
<1>2. l[i] \in Entry
  BY <1>1, ElementOfSeq
<1>3. x \in Entry /\ x.id = l[i].id
  BY <1>2 DEF Entry
<1>4. Counted(l, i) = m
  BY DEF Counted
<1> HIDE DEF x
<1>5. m \in Seq(Entry) /\ Len(m) = Len(l)
  BY <1>1, <1>3, ExceptSeq
<1>6. DOMAIN m = DOMAIN l /\ \A j \in DOMAIN l : m[j].id = l[j].id
  BY <1>3
<1> HIDE DEF m
<1>7. Ids(m) = Ids(l) /\ (Distinct(l) => Distinct(m))
  BY <1>6 DEF Ids, Distinct
<1> QED BY <1>4, <1>5, <1>7

\* What handle_exception leaves in the list.
LEMMA RecordedProperties ==
  ASSUME NEW l \in Seq(Entry), NEW e \in Exception
  PROVE  /\ Recorded(l, e) \in Seq(Entry)
         /\ Distinct(l) => Distinct(Recorded(l, e))
         /\ Len(l) <= MaxExceptions => Len(Recorded(l, e)) <= MaxExceptions
<1> DEFINE m == Stored(l, New(e))
<1>1. New(e) \in Entry /\ New(e).id = e
  BY DEF New, Entry
<1>2. /\ m \in Seq(Entry) /\ Known(m, e)
      /\ Distinct(l) => Distinct(m)
      /\ Len(l) <= MaxExceptions => Len(m) <= MaxExceptions
  BY <1>1, StoredProperties
<1>3. Recorded(l, e) = Counted(m, At(m, e))
  BY DEF Recorded
<1> HIDE DEF m
<1>4. At(m, e) \in DOMAIN m
  BY <1>2, AtFinds
<1> QED BY <1>2, <1>3, <1>4, CountedProperties

-----------------------------------------------------------------------------
(* The inductive invariant *)

\* The device starts with an empty list.
THEOREM InductiveInit == Init => IInv
<1> SUFFICES ASSUME Init PROVE IInv
  OBVIOUS
<1> USE DEF Init, NV!Init
<1>1. << >> \in Seq(Entry) /\ Len(<< >>) = 0 /\ DOMAIN << >> = {}
  BY EmptySeq
<1>2. Idle \in [pc : {"idle", "search", "shorten", "append", "count", "serialise", "write"},
                id : Exception, at : Nat, disturbed : BOOLEAN, buffer : Seq(Entry)]
      /\ Idle.pc = "idle"
  BY <1>1, ExcpAssumption DEF Idle
<1>3. TypeOK
  BY <1>1, <1>2 DEF TypeOK
<1>4. NvTyped
  BY DEF NvTyped, NV!Empty, Held
<1>5. ListIsBounded /\ NoDuplicates /\ SearchHolds /\ BootIsQuiet
  BY <1>1, <1>2, ExcpAssumption DEF ListIsBounded, NoDuplicates, Distinct, SearchHolds,
     BootIsQuiet
<1> QED BY <1>3, <1>4, <1>5 DEF IInv

\* The type of the locals of Cyc100ms.
CycType ==
  [pc : {"idle", "search", "shorten", "append", "count", "serialise", "write"},
   id : Exception, at : Nat, disturbed : BOOLEAN, buffer : Seq(Entry)]

\* What the list has to satisfy.
ListOK(l) == l \in Seq(Entry) /\ (~ raced => Len(l) <= MaxExceptions /\ Distinct(l))

\* A new list of the main thread: what Cyc100ms had found out either still holds or is
\* marked as disturbed.
LEMMA DisturbedProperties ==
  ASSUME IInv, NEW l \in Seq(Entry)
  PROVE  /\ Disturbed(cyc, l) \in CycType
         /\ Disturbed(cyc, l).pc = cyc.pc /\ Disturbed(cyc, l).id = cyc.id
         /\ ~ Disturbed(cyc, l).disturbed =>
              ~ cyc.disturbed /\ Len(l) = Len(list) /\ Ids(l) = Ids(list)
<1>1. cyc \in CycType
  BY DEF IInv, TypeOK, CycType
<1> QED BY <1>1 DEF Disturbed, CycType

\* The list part of the invariant, once the main thread has changed the list.
LEMMA MainKeepsList ==
  ASSUME IInv, list' \in Seq(Entry), cyc' = Disturbed(cyc, list'),
         raced' = raced, frozen' = frozen, ~ raced => Len(list') <= MaxExceptions /\ Distinct(list')
  PROVE  ListIsBounded' /\ NoDuplicates' /\ SearchHolds' /\ cyc' \in CycType
<1>1. /\ cyc' \in CycType /\ cyc'.pc = cyc.pc /\ cyc'.id = cyc.id
      /\ ~ cyc'.disturbed =>
           ~ cyc.disturbed /\ Len(list') = Len(list) /\ Ids(list') = Ids(list)
  BY DisturbedProperties
<1>2. SearchHolds'
  BY <1>1, KnownIds DEF IInv, SearchHolds
<1> QED BY <1>1, <1>2 DEF ListIsBounded, NoDuplicates

\* A list that is written to the section leaves the nonvolatile data well-typed.
LEMMA WriteTyped ==
  ASSUME IInv, NEW v \in Seq(Entry) \cup {Unwritten}, NV!Write("EXCP", v)
  PROVE  NvTyped' /\ valid' = valid
  BY DEF NV!Write, IInv, NvTyped, Held

\* What the section holds after handle_exception is a list or blank.
LEMMA SectionAfterTyped ==
  ASSUME IInv, NEW l \in Seq(Entry), NEW attached \in BOOLEAN
  PROVE  SectionAfter(l, attached) \in Seq(Entry) \cup {Unwritten}
<1>1. ram["EXCP"] \in Seq(Entry) \cup {Unwritten}
  BY DEF IInv, NvTyped, Held
<1> QED BY <1>1 DEF SectionAfter

\* What the steps that are not about the list leave well-typed.
RestTyped ==
  /\ phase' \in {"boot", "reading", "up"} /\ reading' \in Seq(Entry)
  /\ raising' \subseteq Exception
  /\ halted' \in BOOLEAN /\ frozen' \in BOOLEAN /\ pending' \in BOOLEAN
  /\ unsaved' \in BOOLEAN /\ raced' \in BOOLEAN /\ valid' \in BOOLEAN
  /\ critical' \subseteq [id : Exception, by : {"main", "fault"}, written : BOOLEAN]
  /\ secured' \in {"no", "begun", "done"}
  /\ raises' \in Nat /\ restarts' \in Nat

ListKept ==
  /\ list' \in Seq(Entry) /\ cyc' \in CycType
  /\ ListIsBounded' /\ NoDuplicates' /\ SearchHolds'

\* The invariant, in the parts the steps are concerned with.
LEMMA InvariantParts ==
  /\ IInv => /\ TypeOK /\ NvTyped /\ ListIsBounded /\ NoDuplicates /\ SearchHolds
             /\ BootIsQuiet /\ list \in Seq(Entry) /\ cyc \in CycType
  /\ RestTyped /\ ListKept /\ NvTyped' /\ BootIsQuiet' => IInv'
  BY DEF IInv, TypeOK, CycType, RestTyped, ListKept

\* Steps that leave the list alone.
LEMMA SameList ==
  ASSUME IInv, UNCHANGED <<list, cyc, raced, frozen>>
  PROVE  ListKept
  BY InvariantParts DEF ListKept, ListIsBounded, NoDuplicates, SearchHolds

\* handle_exception as the main thread runs it.
LEMMA ListRecords ==
  ASSUME IInv, NEW e \in Exception, list' = Recorded(list, e), raced' = raced,
         frozen' = frozen, cyc' = Disturbed(cyc, list')
  PROVE  ListKept
<1>1. list \in Seq(Entry) /\ ListIsBounded /\ NoDuplicates
  BY InvariantParts
<1>2. /\ list' \in Seq(Entry)
      /\ ~ raced => Len(list') <= MaxExceptions /\ Distinct(list')
  BY <1>1, RecordedProperties DEF ListIsBounded, NoDuplicates
<1> QED BY <1>2, MainKeepsList DEF ListKept

\* An exception that is recorded while Cyc100ms has nothing to do, or can do nothing
\* any more.
LEMMA OtherRecords ==
  ASSUME IInv, NEW e \in Exception, list' = Recorded(list, e), raced' = raced,
         cyc' = cyc, cyc.pc = "idle" \/ frozen'
  PROVE  ListKept
<1>1. list \in Seq(Entry) /\ cyc \in CycType /\ ListIsBounded /\ NoDuplicates
  BY InvariantParts
<1>2. /\ list' \in Seq(Entry)
      /\ ~ raced => Len(list') <= MaxExceptions /\ Distinct(list')
  BY <1>1, RecordedProperties DEF ListIsBounded, NoDuplicates
<1> QED BY <1>1, <1>2 DEF ListKept, ListIsBounded, NoDuplicates, SearchHolds

\* Steps that leave the nonvolatile data alone.
LEMMA SameData ==
  ASSUME IInv, UNCHANGED nvVars
  PROVE  NvTyped' /\ valid' = valid
  BY InvariantParts DEF nvVars, NvTyped

\* Steps that write the list to the section.
LEMMA Persists ==
  ASSUME IInv, NEW l \in Seq(Entry), NEW a \in BOOLEAN, PersistIf(l, a)
  PROVE  NvTyped' /\ valid' = valid
  BY SectionAfterTyped, WriteTyped DEF PersistIf

\* What is remembered of a critical exception.
LEMMA HandledTyped ==
  ASSUME NEW e \in Exception, NEW by \in {"main", "fault"}, NEW l
  PROVE  Handled(e, by, l) \in [id : Exception, by : {"main", "fault"}, written : BOOLEAN]
  BY DEF Handled, Attached, Fits

\* The section holds a list, once it was written.
LEMMA SectionTyped ==
  ASSUME IInv, ram["EXCP"] # Unwritten
  PROVE  ram["EXCP"] \in Seq(Entry)
  BY InvariantParts DEF NvTyped, Held

\* The main thread at startup.
LEMMA BootStep ==
  ASSUME IInv, \/ \E e \in Exception, c \in BOOLEAN : BootRaises(e, c)
               \/ BootReads \/ ReadsEntry \/ ReadsAll
  PROVE  IInv'
<1> USE InvariantParts
<1>1. ASSUME NEW e \in Exception, NEW c \in BOOLEAN, BootRaises(e, c) PROVE IInv'
  <2>1. cyc.pc = "idle"
    BY <1>1 DEF BootRaises, MainRuns, BootIsQuiet
  <2>2. ListKept
    BY <1>1, <2>1, OtherRecords DEF BootRaises
  <2>3. NvTyped' /\ valid' = valid
    BY <1>1, SameData DEF BootRaises
  <2>4. critical' \subseteq [id : Exception, by : {"main", "fault"}, written : BOOLEAN]
    BY <1>1, HandledTyped DEF BootRaises, TypeOK
  <2>5. RestTyped
    BY <1>1, <2>3, <2>4 DEF BootRaises, Budget, RestTyped, TypeOK
  <2> QED BY <1>1, <2>1, <2>2, <2>3, <2>5 DEF BootRaises, BootIsQuiet
<1>2. ASSUME BootReads PROVE IInv'
  <2>1. cyc.pc = "idle"
    BY <1>2 DEF BootReads, MainRuns, BootIsQuiet
  <2>2. CASE ram["EXCP"] = Unwritten
    <3>1. ListKept
      BY <1>2, <2>1, <2>2, OtherRecords, ExcpAssumption DEF BootReads
    <3>2. NvTyped' /\ valid' = valid
      BY <1>2, <2>2, <3>1, Persists DEF BootReads, ListKept
    <3>3. unsaved' \in BOOLEAN
      BY <1>2, <2>2 DEF BootReads, TypeOK, Fits
    <3>4. RestTyped
      BY <1>2, <2>2, <3>2, <3>3, EmptySeq DEF BootReads, RestTyped, TypeOK
    <3> QED BY <1>2, <2>1, <3>1, <3>2, <3>4 DEF BootReads, BootIsQuiet
  <2>3. CASE ram["EXCP"] # Unwritten
    <3>1. ListKept /\ NvTyped' /\ valid' = valid
      BY <1>2, <2>3, SameList, SameData DEF BootReads
    <3>2. RestTyped
      BY <1>2, <2>3, <3>1, SectionTyped DEF BootReads, RestTyped, TypeOK
    <3> QED BY <1>2, <2>1, <3>1, <3>2 DEF BootReads, BootIsQuiet
  <2> QED BY <2>2, <2>3
<1>3. ASSUME ReadsEntry PROVE IInv'
  <2>1. reading \in Seq(Entry) /\ reading # << >> /\ phase = "reading"
    BY <1>3 DEF ReadsEntry, TypeOK
  <2>2. Head(reading) \in Entry /\ Tail(reading) \in Seq(Entry)
    BY <2>1, HeadTailProperties
  <2>3. /\ list' \in Seq(Entry)
        /\ ~ raced => Len(list') <= MaxExceptions /\ Distinct(list')
    BY <1>3, <2>2, StoredProperties DEF ReadsEntry, ListIsBounded, NoDuplicates
  <2>4. ListKept
    BY <1>3, <2>3, MainKeepsList DEF ReadsEntry, ListKept
  <2>5. NvTyped' /\ valid' = valid
    BY <1>3, SameData DEF ReadsEntry
  <2>6. RestTyped
    BY <1>3, <2>2, <2>5 DEF ReadsEntry, RestTyped, TypeOK
  <2> QED BY <1>3, <2>1, <2>4, <2>5, <2>6 DEF ReadsEntry, BootIsQuiet
<1>4. ASSUME ReadsAll PROVE IInv'
  <2>1. ListKept /\ NvTyped' /\ valid' = valid
    BY <1>4, SameList, SameData DEF ReadsAll
  <2>2. RestTyped
    BY <1>4, <2>1 DEF ReadsAll, RestTyped, TypeOK
  <2> QED BY <1>4, <2>1, <2>2 DEF ReadsAll, BootIsQuiet
<1> QED BY <1>1, <1>2, <1>3, <1>4

\* The main thread once the system is up.
LEMMA MainStep ==
  ASSUME IInv, \/ \E e \in Exception : MainHandles(e) \/ MainTriggers(e) \/ MainRecords(e)
               \/ Clear \/ WriteFlash \/ ReadFlash
  PROVE  IInv'
<1> USE InvariantParts
<1>1. ASSUME NEW e \in Exception, MainHandles(e) PROVE IInv'
  <2>1. ListKept
    BY <1>1, ListRecords DEF MainHandles, mainVars
  <2>2. NvTyped' /\ valid' = valid
    BY <1>1, <2>1, Persists DEF MainHandles, Persist, Attached, ListKept
  <2>3. unsaved' \in BOOLEAN
    BY <1>1 DEF MainHandles, StillUnsaved, TypeOK
  <2>4. RestTyped
    BY <1>1, <2>2, <2>3 DEF MainHandles, Budget, RestTyped, mainVars, TypeOK
  <2> QED BY <1>1, <2>1, <2>2, <2>4 DEF MainHandles, mainVars, BootIsQuiet
<1>5. ASSUME NEW e \in Exception, MainTriggers(e) PROVE IInv'
  <2>1. ListKept
    BY <1>5, SameList DEF MainTriggers
  <2>2. NvTyped' /\ valid' = valid
    BY <1>5, SameData DEF MainTriggers
  <2>3. RestTyped
    BY <1>5, <2>2 DEF MainTriggers, Budget, RestTyped, TypeOK
  <2> QED BY <1>5, <2>1, <2>2, <2>3 DEF MainTriggers, BootIsQuiet
<1>6. ASSUME NEW e \in Exception, MainRecords(e) PROVE IInv'
  <2>1. ListKept
    BY <1>6, ListRecords DEF MainRecords
  <2>2. NvTyped' /\ valid' = valid
    BY <1>6, <2>1, Persists DEF MainRecords, Persist, Attached, ListKept
  <2>3. critical' \subseteq [id : Exception, by : {"main", "fault"}, written : BOOLEAN]
    BY <1>6, HandledTyped DEF MainRecords, TypeOK
  <2>4. unsaved' \in BOOLEAN
    BY <1>6 DEF MainRecords, StillUnsaved, TypeOK
  <2>5. RestTyped
    BY <1>6, <2>2, <2>3, <2>4 DEF MainRecords, RestTyped, TypeOK
  <2> QED BY <1>6, <2>1, <2>2, <2>5 DEF MainRecords, BootIsQuiet
<1>2. ASSUME Clear PROVE IInv'
  <2>1. << >> \in Seq(Entry) /\ Len(<< >>) = 0 /\ Distinct(<< >>)
        /\ \A e \in Exception : ~ Known(<< >>, e)
    BY EmptySeq DEF Distinct, Known
  <2>2. list' = << >> /\ cyc' = Disturbed(cyc, << >>) /\ raced' = FALSE
    BY <1>2 DEF Clear
  <2>3. cyc' \in CycType
    BY <2>1, <2>2, DisturbedProperties
  <2>4. SearchHolds'
    BY <2>1, <2>2, <2>3, ExcpAssumption DEF SearchHolds, CycType
  <2>5. ListKept
    BY <2>1, <2>2, <2>3, <2>4, ExcpAssumption DEF ListKept, ListIsBounded, NoDuplicates
  <2>6. NvTyped' /\ valid' = valid
    BY <1>2, SameData DEF Clear
  <2>7. UNCHANGED <<phase, reading, halted, raising, frozen, pending, critical, secured,
                    restarts>>
    BY <1>2 DEF Clear, mainVars
  <2>8. raises' \in Nat
    BY <1>2 DEF Clear, Budget, TypeOK
  <2>9. unsaved' \in BOOLEAN /\ raced' \in BOOLEAN
    BY <1>2 DEF Clear
  <2>10. RestTyped
    BY <2>6, <2>7, <2>8, <2>9, Zenon DEF RestTyped, TypeOK
  <2> QED BY <1>2, <2>5, <2>6, <2>7, <2>10 DEF Clear, BootIsQuiet
<1>3. ASSUME WriteFlash PROVE IInv'
  <2>1. ListKept
    BY <1>3, SameList DEF WriteFlash
  <2>2. NvTyped' /\ valid' = valid
    BY <1>3, Persists DEF WriteFlash, Persist, Attached
  <2>3. unsaved' \in BOOLEAN
    BY <1>3 DEF WriteFlash, StillUnsaved, TypeOK
  <2>4. RestTyped
    BY <1>3, <2>2, <2>3 DEF WriteFlash, Budget, RestTyped, mainVars, TypeOK
  <2> QED BY <1>3, <2>1, <2>2, <2>4 DEF WriteFlash, mainVars, BootIsQuiet
<1>4. ASSUME ReadFlash PROVE IInv'
  <2>1. ListKept /\ NvTyped' /\ valid' = valid
    BY <1>4, SameList, SameData DEF ReadFlash
  <2>2. RestTyped
    BY <1>4, <2>1, SectionTyped DEF ReadFlash, Budget, RestTyped, TypeOK
  <2> QED BY <1>4, <2>1, <2>2 DEF ReadFlash, BootIsQuiet
<1> QED BY <1>1, <1>2, <1>3, <1>4, <1>5, <1>6

CycStep ==
  \/ \E e \in Exception : CycRaises(e)
  \/ CycFinds \/ CycFindsNot \/ CycShortens \/ CycAppends \/ CycCounts
  \/ CycSerialises \/ CycWrites

\* Cyc100ms changes its own locals, the list and the section, and nothing else.
LEMMA CycFrame ==
  ASSUME IInv, CycStep
  PROVE  RestTyped /\ NvTyped' /\ BootIsQuiet' /\ UNCHANGED frozen
<1> USE InvariantParts
<1>1. CASE CycWrites
  <2>1. cyc.buffer \in Seq(Entry)
    BY DEF CycType
  <2>2. NvTyped' /\ valid' = valid
    BY <1>1, <2>1, WriteTyped DEF CycWrites
  <2>3. critical' \subseteq [id : Exception, by : {"main", "fault"}, written : BOOLEAN]
    <3>1. critical \subseteq [id : Exception, by : {"main", "fault"}, written : BOOLEAN]
      BY DEF TypeOK
    <3>2. \A x \in critical :
            [x EXCEPT !.written = @ /\ Known(cyc.buffer, x.id)] \in
              [id : Exception, by : {"main", "fault"}, written : BOOLEAN]
      BY <3>1
    <3> QED BY <1>1, <3>2 DEF CycWrites
  <2>4. UNCHANGED <<phase, reading, halted, raising, frozen, pending, secured, raced,
                    raises, restarts>>
        /\ unsaved' \in BOOLEAN /\ cyc' = Idle
    BY <1>1 DEF CycWrites, mainVars
  <2>5. RestTyped
    BY <2>2, <2>3, <2>4 DEF RestTyped, TypeOK
  <2> QED BY <2>2, <2>4, <2>5 DEF BootIsQuiet, Idle
<1>2. CASE ~ CycWrites
  <2>1. /\ UNCHANGED nvVars /\ CycLeaves /\ UNCHANGED unsaved
        /\ raced' = raced \/ raced' = (raced \/ cyc.disturbed)
        /\ raises' = raises \/ raises' = raises + 1
        /\ CycRuns
    BY <1>2 DEF CycStep, CycRaises, CycFinds, CycFindsNot, CycShortens, CycAppends,
       CycCounts, CycSerialises, CycGoes, CycAt, Budget
  <2>2. NvTyped' /\ valid' = valid
    BY <2>1, SameData
  <2>3. raced' \in BOOLEAN
    BY <2>1 DEF TypeOK, CycType
  <2>4. RestTyped
    BY <2>1, <2>2, <2>3 DEF RestTyped, CycLeaves, mainVars, TypeOK
  <2>5. BootIsQuiet' /\ UNCHANGED frozen
    BY <2>1 DEF BootIsQuiet, CycRuns, CycLeaves, mainVars
  <2> QED BY <2>2, <2>4, <2>5
<1> QED BY <1>1, <1>2

\* What Cyc100ms does to the list: it keeps it in order as long as nothing has come
\* between its search and its entry.
LEMMA CycKeepsList ==
  ASSUME IInv, CycStep
  PROVE  ListKept
<1> USE InvariantParts
<1>1. /\ cyc.pc \in {"idle", "search", "shorten", "append", "count", "serialise", "write"}
      /\ cyc.id \in Exception /\ cyc.at \in Nat /\ cyc.disturbed \in BOOLEAN
      /\ cyc.buffer \in Seq(Entry)
  BY DEF CycType
<1>2. Idle \in CycType /\ Idle.pc = "idle"
  BY EmptySeq, ExcpAssumption DEF CycType, Idle
<1>3. frozen' = frozen
  BY CycFrame
<1>4. ASSUME list' = list, raced' = raced, cyc' \in CycType,
             cyc'.pc \notin {"shorten", "append"}
      PROVE  ListKept
  BY <1>4 DEF ListKept, ListIsBounded, NoDuplicates, SearchHolds
<1>5. ASSUME NEW e \in Exception, CycRaises(e) PROVE ListKept
  <2>1. cyc' \in CycType /\ cyc'.pc = "search"
    BY <1>2, <1>5 DEF CycRaises, CycType
  <2> QED BY <1>4, <1>5, <2>1 DEF CycRaises
<1>6. ASSUME CycFinds PROVE ListKept
  <2>1. At(list, cyc.id) \in Nat
    <3>1. At(list, cyc.id) \in DOMAIN list
      BY <1>6, AtFinds DEF CycFinds
    <3> QED BY <3>1, LenProperties
  <2>2. cyc' \in CycType /\ cyc'.pc = "count"
    BY <1>6, <2>1 DEF CycFinds, CycType
  <2> QED BY <1>4, <1>6, <2>2 DEF CycFinds
<1>7. ASSUME CycFindsNot PROVE ListKept
  <2>1. cyc' \in CycType /\ cyc'.pc = "shorten" /\ cyc'.id = cyc.id
    BY <1>7 DEF CycFindsNot, CycType
  <2> QED BY <1>7, <2>1 DEF CycFindsNot, ListKept, ListIsBounded, NoDuplicates, SearchHolds
<1>8. ASSUME CycShortens PROVE ListKept
  <2>1. /\ list' \in Seq(Entry) /\ Ids(list') \subseteq Ids(list)
        /\ Len(list) <= MaxExceptions => Len(list') < MaxExceptions
        /\ Distinct(list) => Distinct(list')
    BY <1>8, ShortenedProperties DEF CycShortens
  <2>2. cyc' \in CycType /\ cyc'.pc = "append" /\ cyc'.id = cyc.id
        /\ cyc'.disturbed = cyc.disturbed /\ cyc.pc = "shorten" /\ raced' = raced
    BY <1>8 DEF CycShortens, CycGoes, CycAt, CycType
  <2>3. Len(list') \in Nat /\ MaxExceptions \in Nat
    BY <2>1, LenProperties, ExcpAssumption
  <2>4. ListIsBounded' /\ NoDuplicates'
    BY <2>1, <2>2, <2>3 DEF ListIsBounded, NoDuplicates
  <2>5. SearchHolds'
    BY <1>3, <2>1, <2>2, KnownIds DEF SearchHolds, ListIsBounded
  <2> QED BY <2>1, <2>2, <2>4, <2>5 DEF ListKept
<1>9. ASSUME CycAppends PROVE ListKept
  <2>1. New(cyc.id) \in Entry /\ New(cyc.id).id = cyc.id
    BY <1>1 DEF New, Entry
  <2>2. /\ list' \in Seq(Entry) /\ Len(list') = Len(list) + 1
        /\ Distinct(list) /\ ~ Known(list, cyc.id) => Distinct(list')
    BY <1>9, <2>1, AppendedProperties DEF CycAppends
  <2>3. Len(list) \in Nat /\ MaxExceptions \in Nat
    BY LenProperties, ExcpAssumption
  <2>4. cyc' \in CycType /\ cyc'.pc = "count"
    <3>1. Len(list') \in Nat
      BY <2>2, LenProperties
    <3> QED BY <1>1, <1>9, <3>1 DEF CycAppends, CycType
  <2>5. /\ cyc.pc = "append" /\ ~ frozen
        /\ ~ raced' => ~ raced /\ ~ cyc.disturbed
    BY <1>9 DEF CycAppends, CycAt, CycRuns
  <2>6. ListIsBounded' /\ NoDuplicates'
    BY <2>2, <2>3, <2>5 DEF ListIsBounded, NoDuplicates, SearchHolds
  <2> QED BY <2>2, <2>4, <2>6 DEF ListKept, SearchHolds
<1>10. ASSUME CycCounts PROVE ListKept
  <2>1. cyc' \in CycType /\ cyc'.pc = "serialise" /\ raced' = raced
    BY <1>10 DEF CycCounts, CycGoes, CycType
  <2>2. CASE list' = list
    BY <1>4, <2>1, <2>2
  <2>3. CASE cyc.at \in DOMAIN list /\ list' = Counted(list, cyc.at)
    <3>1. /\ list' \in Seq(Entry) /\ Len(list') = Len(list)
          /\ Distinct(list) => Distinct(list')
      BY <2>3, CountedProperties
    <3> QED BY <2>1, <3>1 DEF ListKept, ListIsBounded, NoDuplicates, SearchHolds
  <2> QED BY <1>10, <2>2, <2>3 DEF CycCounts
<1>11. ASSUME CycSerialises PROVE ListKept
  <2>1. cyc' \in CycType /\ cyc'.pc \in {"write", "idle"}
    BY <1>2, <1>11 DEF CycSerialises, CycType
  <2> QED BY <1>4, <1>11, <2>1 DEF CycSerialises
<1>12. ASSUME CycWrites PROVE ListKept
  BY <1>2, <1>4, <1>12 DEF CycWrites
<1> QED BY <1>5, <1>6, <1>7, <1>8, <1>9, <1>10, <1>11, <1>12 DEF CycStep

\* A fault handler records its exception and lets nothing else run.
LEMMA FaultStep ==
  ASSUME IInv, NEW e \in Exception, FaultHandles(e)
  PROVE  IInv'
<1> USE InvariantParts
<1>1. ListKept
  BY OtherRecords DEF FaultHandles
<1>2. NvTyped' /\ valid' = valid
  BY <1>1, Persists DEF FaultHandles, Persist, Attached, ListKept
<1>3. critical' \subseteq [id : Exception, by : {"main", "fault"}, written : BOOLEAN]
  BY HandledTyped DEF FaultHandles, TypeOK
<1>4. unsaved' \in BOOLEAN
  BY DEF FaultHandles, StillUnsaved, TypeOK
<1>5. RestTyped
  BY <1>2, <1>3, <1>4 DEF FaultHandles, Budget, RestTyped, mainVars, TypeOK
<1> QED BY <1>1, <1>2, <1>5 DEF FaultHandles, mainVars, BootIsQuiet

\* store() moves pictures of the section and leaves everything else alone.
LEMMA StoreStep ==
  ASSUME IInv, StoreBegins \/ StoreErases \/ StoreCommits \/ StoreEnds
  PROVE  IInv'
<1> USE InvariantParts
<1>1. UNCHANGED <<list, cyc, phase, reading, halted, raising, frozen, pending, critical,
                  unsaved, raced, raises, restarts>>
  BY DEF StoreBegins, StoreErases, StoreCommits, StoreEnds, Storing, mainVars
<1>2. NvTyped' /\ valid' = valid
  BY DEF StoreBegins, StoreErases, StoreCommits, StoreEnds, NV!TakePicture, NV!Forget,
     NV!Commit, NV!DropPicture, NvTyped
<1>3. secured' \in {"no", "begun", "done"}
  BY DEF StoreBegins, StoreErases, StoreCommits, StoreEnds, TypeOK
<1>4. ListKept
  BY <1>1, SameList
<1>5. RestTyped
  BY <1>1, <1>2, <1>3 DEF RestTyped, TypeOK
<1> QED BY <1>1, <1>2, <1>4, <1>5 DEF BootIsQuiet

\* After a reset the device starts as it did at first, with what the flash holds.
LEMMA RestartStep ==
  ASSUME IInv, Restart
  PROVE  IInv'
<1> USE InvariantParts
<1>1. /\ << >> \in Seq(Entry) /\ Len(<< >>) = 0 /\ DOMAIN << >> = {}
      /\ Idle \in CycType /\ Idle.pc = "idle"
  BY EmptySeq, ExcpAssumption DEF CycType, Idle
<1>2. ListKept
  BY <1>1, ExcpAssumption
     DEF Restart, ListKept, ListIsBounded, NoDuplicates, Distinct, SearchHolds
<1>3. NV!Empty \in Held
  BY DEF NV!Empty, Held
<1>4. NvTyped' /\ valid' \in BOOLEAN
  <2>1. durable' \in Held \cup {Nothing}
    BY DEF Restart, NV!Restart, NvTyped
  <2> QED BY <1>3, <2>1 DEF Restart, NV!Restart, NvTyped
<1>5. RestTyped
  <2>1. /\ phase' \in {"boot", "reading", "up"} /\ secured' \in {"no", "begun", "done"}
        /\ reading' \in Seq(Entry) /\ raising' \subseteq Exception
        /\ critical' \subseteq [id : Exception, by : {"main", "fault"}, written : BOOLEAN]
    BY <1>1 DEF Restart
  <2>2. raises' \in Nat /\ restarts' \in Nat
    BY DEF Restart, TypeOK
  <2>3. /\ halted' \in BOOLEAN /\ frozen' \in BOOLEAN /\ pending' \in BOOLEAN
        /\ unsaved' \in BOOLEAN /\ raced' \in BOOLEAN
    BY DEF Restart
  <2> QED BY <1>4, <2>1, <2>2, <2>3, Zenon DEF RestTyped
<1> QED BY <1>1, <1>2, <1>4, <1>5 DEF Restart, BootIsQuiet

\* Every step of the main thread, of Cyc100ms, of a fault handler and of the hardware
\* keeps the invariant.
THEOREM InductiveStep == IInv /\ [Next]_vars => IInv'
<1> SUFFICES ASSUME IInv, [Next]_vars PROVE IInv'
  OBVIOUS
<1>1. CASE CycStep
  BY <1>1, CycFrame, CycKeepsList, InvariantParts
<1>2. CASE UNCHANGED vars
  <2>1. UNCHANGED <<list, cyc, raced, frozen, phase, reading, halted, raising, pending,
                    critical, secured, unsaved, raises, restarts>> /\ UNCHANGED nvVars
    BY <1>2 DEF vars, mainVars
  <2>2. ListKept /\ NvTyped' /\ valid' = valid
    BY <2>1, SameList, SameData
  <2>3. RestTyped /\ BootIsQuiet'
    BY <2>1, <2>2, InvariantParts DEF RestTyped, TypeOK, BootIsQuiet
  <2> QED BY <2>2, <2>3, InvariantParts
<1> QED
  BY <1>1, <1>2, BootStep, MainStep, FaultStep, StoreStep, RestartStep
     DEF Next, CycStep, PowerFailure, WatchdogReset

-----------------------------------------------------------------------------
(* What holds for any exceptions, bounds and interleavings *)

\* The invariant holds in every reachable state.
THEOREM Invariance == Spec => []IInv
  BY InductiveInit, InductiveStep, PTL DEF Spec

\* The list, the locals of Cyc100ms and what is remembered keep their types.
THEOREM TypeCorrect == Spec => []TypeOK
<1>1. IInv => TypeOK
  BY DEF IInv
<1> QED BY <1>1, Invariance, PTL

\* The list keeps its bound, unless Cyc100ms added an exception behind the back of the
\* main thread.
THEOREM BoundKept == Spec => []ListIsBounded
<1>1. IInv => ListIsBounded
  BY DEF IInv
<1> QED BY <1>1, Invariance, PTL

\* No exception is listed twice, with the same exemption.
THEOREM NothingTwice == Spec => []NoDuplicates
<1>1. IInv => NoDuplicates
  BY DEF IInv
<1> QED BY <1>1, Invariance, PTL

-----------------------------------------------------------------------------
(* Critical exceptions *)

\* What is true of a critical exception of the main thread: the thread is suspended; as
\* long as nothing written since has lost it, the section holds it (until a fault handler
\* overwrites that, and nothing is stored any more), the picture of a store() begun since
\* holds it, and the flash once that is done.
Kept(x) ==
  /\ frozen \/ Known(ram["EXCP"], x.id)
  /\ secured = "begun" /\ picture # Nothing => Known(picture["EXCP"], x.id)
  /\ secured = "done" =>
       /\ durable # Nothing /\ Known(durable["EXCP"], x.id)
       /\ picture # Nothing => durable = picture

CriticalIsKept ==
  \A x \in critical : x.by = "main" => halted /\ (x.written => Kept(x))

CriticalType == [id : Exception, by : {"main", "fault"}, written : BOOLEAN]

\* handle_exception leaves the exception in the list.
LEMMA RecordedIsKnown ==
  ASSUME NEW l \in Seq(Entry), NEW e \in Exception
  PROVE  Known(Recorded(l, e), e)
<1> DEFINE m == Stored(l, New(e))
<1>1. New(e) \in Entry /\ New(e).id = e
  BY DEF New, Entry
<1>2. m \in Seq(Entry) /\ Known(m, e)
  BY <1>1, StoredProperties
<1>3. Recorded(l, e) = Counted(m, At(m, e))
  BY DEF Recorded
<1> HIDE DEF m
<1>4. At(m, e) \in DOMAIN m
  BY <1>2, AtFinds
<1>5. Ids(Counted(m, At(m, e))) = Ids(m)
  BY <1>2, <1>4, CountedProperties
<1> QED BY <1>2, <1>3, <1>5, KnownIds

\* A running main thread has not handled a critical exception.
LEMMA RunningMain ==
  ASSUME CriticalIsKept, ~ halted
  PROVE  \A x \in critical : x.by # "main"
  BY DEF CriticalIsKept

\* Steps that concern no critical exception.
LEMMA CriticalAside ==
  ASSUME CriticalIsKept, UNCHANGED <<critical, halted, frozen, secured, nvVars>>
  PROVE  CriticalIsKept'
  BY DEF CriticalIsKept, Kept, nvVars

\* The main thread: only the exception it handles now can be a critical one.
LEMMA CriticalMain ==
  ASSUME IInv, CriticalIsKept,
         \/ \E e \in Exception, c \in BOOLEAN : BootRaises(e, c)
         \/ \E e \in Exception : MainHandles(e) \/ MainTriggers(e) \/ MainRecords(e)
         \/ BootReads \/ ReadsEntry \/ ReadsAll \/ Clear \/ WriteFlash \/ ReadFlash
  PROVE  CriticalIsKept'
<1> USE InvariantParts
<1>1. ~ halted
  BY DEF BootRaises, BootReads, ReadsEntry, ReadsAll, MainHandles, MainTriggers,
     MainRecords, Clear, WriteFlash, ReadFlash, MainRuns
<1>2. \A x \in critical : x.by # "main"
  BY <1>1, RunningMain
<1>3. ASSUME UNCHANGED critical PROVE CriticalIsKept'
  BY <1>2, <1>3 DEF CriticalIsKept
<1>4. ASSUME NEW e \in Exception, NEW c \in BOOLEAN, BootRaises(e, c)
      PROVE  CriticalIsKept'
  <2>1. CASE ~ c
    BY <1>3, <1>4, <2>1 DEF BootRaises
  <2>2. CASE c
    <3>1. critical' = critical \cup {Handled(e, "main", list')} /\ halted'
      BY <1>4, <2>2 DEF BootRaises
    <3>2. ~ Handled(e, "main", list').written
      BY <1>4 DEF BootRaises, Handled, Attached
    <3> QED BY <1>2, <3>1, <3>2 DEF CriticalIsKept
  <2> QED BY <2>1, <2>2
<1>5. ASSUME NEW e \in Exception, MainRecords(e) PROVE CriticalIsKept'
  <2>1. /\ critical' = critical \cup {Handled(e, "main", list')} /\ halted'
        /\ secured' = "no" /\ Persist(list') /\ list' = Recorded(list, e)
    BY <1>5 DEF MainRecords
  <2>2. Known(list', e)
    BY <2>1, RecordedIsKnown
  <2>3. Attached /\ Fits(list') => ram'["EXCP"] = list'
    BY <2>1 DEF Persist, PersistIf, SectionAfter, NV!Write, NvTyped, Held
  <2>4. Handled(e, "main", list').id = e
        /\ (Handled(e, "main", list').written => Attached /\ Fits(list'))
    BY DEF Handled
  <2> SUFFICES ASSUME NEW y \in critical', y.by = "main"
               PROVE  halted' /\ (y.written => Kept(y)')
    BY DEF CriticalIsKept
  <2>5. y = Handled(e, "main", list')
    BY <1>2, <2>1
  <2>6. y.written => Known(ram'["EXCP"], y.id)
    BY <2>2, <2>3, <2>4, <2>5
  <2> QED BY <2>1, <2>6 DEF Kept
<1> QED BY <1>3, <1>4, <1>5
  DEF MainHandles, MainTriggers, BootReads, ReadsEntry, ReadsAll, Clear, WriteFlash,
      ReadFlash

\* Cyc100ms writes a buffer over the section; what it loses no longer counts as written.
LEMMA CriticalCyc ==
  ASSUME IInv, CriticalIsKept, CycStep
  PROVE  CriticalIsKept'
<1> USE InvariantParts
<1>1. CASE CycWrites
  <2>1. /\ critical' = {[x EXCEPT !.written = @ /\ Known(cyc.buffer, x.id)] : x \in critical}
        /\ ram'["EXCP"] = cyc.buffer
        /\ UNCHANGED <<halted, frozen, secured, picture, durable>>
    BY <1>1 DEF CycWrites, mainVars, NV!Write, NvTyped, Held
  <2>2. SUFFICES ASSUME NEW y \in critical', y.by = "main"
                 PROVE  halted /\ (y.written => Kept(y)')
    BY <2>1 DEF CriticalIsKept
  <2>3. PICK x \in critical :
               y = [x EXCEPT !.written = @ /\ Known(cyc.buffer, x.id)]
    BY <2>1
  <2>4. x \in CriticalType
    BY DEF TypeOK, CriticalType
  <2>5. /\ y.id = x.id /\ y.by = x.by
        /\ y.written = (x.written /\ Known(cyc.buffer, x.id))
    BY <2>3, <2>4 DEF CriticalType
  <2>6. halted /\ (x.written => Kept(x))
    BY <2>2, <2>5 DEF CriticalIsKept
  <2> QED BY <2>1, <2>5, <2>6 DEF Kept
<1>2. CASE ~ CycWrites
  BY <1>1, <1>2, CriticalAside
     DEF CycStep, CycRaises, CycFinds, CycFindsNot, CycShortens, CycAppends, CycCounts,
         CycSerialises, CycLeaves, mainVars
<1> QED BY <1>1, <1>2

\* store() carries what the section holds to the flash.
LEMMA CriticalStore ==
  ASSUME IInv, CriticalIsKept, StoreBegins \/ StoreErases \/ StoreCommits \/ StoreEnds
  PROVE  CriticalIsKept'
<1>1. UNCHANGED <<critical, halted, frozen>> /\ ~ frozen
  BY DEF StoreBegins, StoreErases, StoreCommits, StoreEnds, Storing, CycAt, CycRuns, mainVars
<1>2. SUFFICES ASSUME NEW x \in critical, x.by = "main", x.written
               PROVE  Kept(x)'
  BY <1>1 DEF CriticalIsKept
<1>3. Kept(x)
  BY <1>2 DEF CriticalIsKept
<1>4. CASE StoreBegins
  BY <1>1, <1>3, <1>4 DEF StoreBegins, NV!TakePicture, Kept
<1>5. CASE StoreErases
  BY <1>1, <1>3, <1>5 DEF StoreErases, NV!Forget, Kept
<1>6. CASE StoreCommits
  BY <1>1, <1>3, <1>6 DEF StoreCommits, NV!Commit, Kept
<1>7. CASE StoreEnds
  <2>1. secured \in {"no", "begun", "done"}
    BY DEF IInv, TypeOK
  <2> QED BY <1>1, <1>3, <1>7, <2>1 DEF StoreEnds, NV!DropPicture, Kept
<1> QED BY <1>4, <1>5, <1>6, <1>7

\* Every step keeps what is known of critical exceptions.
LEMMA CriticalStep == IInv /\ CriticalIsKept /\ [Next]_vars => CriticalIsKept'
<1> SUFFICES ASSUME IInv, CriticalIsKept, [Next]_vars PROVE CriticalIsKept'
  OBVIOUS
<1>1. CASE UNCHANGED vars
  BY <1>1, CriticalAside DEF vars, mainVars
<1>2. ASSUME NEW e \in Exception, FaultHandles(e) PROVE CriticalIsKept'
  <2>1. /\ critical' = critical \cup {Handled(e, "fault", list')} /\ frozen'
        /\ UNCHANGED <<halted, secured, picture, durable>>
    BY <1>2 DEF FaultHandles, mainVars, Persist, PersistIf, NV!Write
  <2>2. Handled(e, "fault", list').by # "main"
    BY DEF Handled
  <2>3. SUFFICES ASSUME NEW x \in critical', x.by = "main"
                 PROVE  halted' /\ (x.written => Kept(x)')
    BY DEF CriticalIsKept
  <2>4. x \in critical
    BY <2>1, <2>2, <2>3
  <2> QED BY <2>1, <2>3, <2>4 DEF CriticalIsKept, Kept
<1>3. CASE Restart
  BY <1>3 DEF Restart, CriticalIsKept
<1> QED
  BY <1>1, <1>2, <1>3, CriticalMain, CriticalCyc, CriticalStore
     DEF Next, CycStep, PowerFailure, WatchdogReset

\* A critical exception of the main thread outlives a reset after a store().
THEOREM CriticalSurvives == Spec => MainCriticalSurvives
<1>1. Init => CriticalIsKept
  BY DEF Init, CriticalIsKept
<1>2. ASSUME CriticalIsKept, [Next]_vars, restarts' # restarts, secured = "done",
             picture = Nothing, NEW x \in critical, x.by = "main", x.written
      PROVE  durable' # Nothing /\ Known(durable'["EXCP"], x.id)
  <2>1. Kept(x)
    BY <1>2 DEF CriticalIsKept
  <2>2. Restart
    BY <1>2 DEF Next, vars, BootRaises, BootReads, ReadsEntry, ReadsAll, MainHandles,
       MainTriggers, MainRecords, Clear, WriteFlash, ReadFlash, CycRaises, CycFinds,
       CycFindsNot, CycShortens, CycAppends, CycCounts, CycSerialises, CycWrites,
       CycLeaves, FaultHandles, StoreBegins, StoreErases, StoreCommits, StoreEnds,
       Storing, PowerFailure, WatchdogReset
  <2>3. durable' = durable
    BY <1>2, <2>2 DEF Restart, NV!Restart
  <2> QED BY <1>2, <2>1, <2>3 DEF Kept
<1>3. CriticalIsKept /\ [Next]_vars =>
        [ restarts' # restarts /\ secured = "done" /\ picture = Nothing
          => \A x \in critical : x.by = "main" /\ x.written =>
               durable' # Nothing /\ Known(durable'["EXCP"], x.id) ]_vars
  BY <1>2
<1> QED BY <1>1, <1>3, CriticalStep, Invariance, PTL DEF Spec, MainCriticalSurvives

-----------------------------------------------------------------------------
(* Reading the section *)

\* A suspended main thread is not in the middle of reading the section.
ReadingRuns == phase = "reading" => ~ halted

Section == ram["EXCP"]

\* While the section is read: what it held is listed or still to come, or there is no
\* room for all of it.
RestoreInv ==
  phase = "reading" /\ ~ frozen /\ ~ raced =>
    /\ Section \in Seq(Entry) /\ Ids(reading) \subseteq Ids(Section)
    /\ \/ Ids(Section) \subseteq Ids(list) \cup Ids(reading)
       \/ Cardinality(Ids(list) \cup Ids(Section)) > MaxExceptions

\* A list has finitely many identifiers, as many as entries if none is listed twice.
LEMMA IdsCount ==
  ASSUME NEW l \in Seq(Entry)
  PROVE  /\ IsFiniteSet(Ids(l))
         /\ Distinct(l) => Cardinality(Ids(l)) = Len(l)
<1> DEFINE n == Len(l)
           f == [i \in 1 .. n |-> l[i].id]
<1>1. n \in Nat /\ DOMAIN l = 1 .. n
  BY LenProperties
<1>2. f \in [1 .. n -> Ids(l)] /\ \A y \in Ids(l) : \E i \in 1 .. n : f[i] = y
  BY <1>1 DEF Ids
<1>3. f \in Surjection(1 .. n, Ids(l))
  BY <1>2, Fun_IsSurj
<1>4. IsFiniteSet(1 .. n) /\ Cardinality(1 .. n) = n
  BY <1>1, FS_Interval
<1>5. ASSUME Distinct(l) PROVE f \in Injection(1 .. n, Ids(l))
  <2>1. \A i, j \in 1 .. n : f[i] = f[j] => i = j
    BY <1>1, <1>5 DEF Distinct
  <2> HIDE DEF f
  <2> QED BY <1>2, <2>1, Fun_IsInj
<1> HIDE DEF f
<1> QED BY <1>3, <1>4, <1>5, FS_Surjection

\* What store_exception_in_list does to the identifiers: it adds one, and loses none
\* unless the list was full; then it is full afterwards.
LEMMA StoredIds ==
  ASSUME NEW l \in Seq(Entry), NEW x \in Entry
  PROVE  /\ x.id \in Ids(Stored(l, x))
         /\ \/ Ids(l) \subseteq Ids(Stored(l, x))
            \/ Len(Stored(l, x)) = MaxExceptions
<1>1. Known(Stored(l, x), x.id)
  BY StoredProperties
<1>2. CASE Known(l, x.id)
  BY <1>1, <1>2, KnownIds DEF Stored
<1>3. CASE ~ Known(l, x.id) /\ Len(l) # MaxExceptions
  <2>1. Stored(l, x) = Append(l, x)
    BY <1>3 DEF Stored
  <2>2. /\ Len(l) \in Nat /\ Len(Append(l, x)) = Len(l) + 1
        /\ \A i \in 1 .. Len(l) : Append(l, x)[i] = l[i]
        /\ DOMAIN l = 1 .. Len(l) /\ DOMAIN Append(l, x) = 1 .. Len(l) + 1
    BY AppendProperties, LenProperties
  <2>3. \A i \in DOMAIN l : i \in DOMAIN Append(l, x) /\ Append(l, x)[i] = l[i]
    BY <2>2
  <2>4. Ids(l) \subseteq Ids(Append(l, x))
    BY <2>3 DEF Ids
  <2> QED BY <1>1, <2>1, <2>4, KnownIds
<1>4. CASE ~ Known(l, x.id) /\ Len(l) = MaxExceptions
  <2>1. Len(l) \in Nat \ {0} /\ l # << >>
    BY <1>4, ExcpAssumption, EmptySeq
  <2>2. Tail(l) \in Seq(Entry) /\ Len(Tail(l)) = Len(l) - 1
    BY <2>1, HeadTailProperties
  <2>3. Stored(l, x) = Append(Tail(l), x)
    BY <1>4 DEF Stored
  <2>4. Len(Stored(l, x)) = MaxExceptions
    BY <1>4, <2>1, <2>2, <2>3, AppendProperties
  <2> QED BY <1>1, <2>4, KnownIds
<1> QED BY <1>2, <1>3, <1>4

\* The identifiers of a list are those of its head and its tail.
LEMMA TailIds ==
  ASSUME NEW l \in Seq(Entry), l # << >>
  PROVE  /\ Head(l) \in Entry /\ Tail(l) \in Seq(Entry)
         /\ Ids(l) = {Head(l).id} \cup Ids(Tail(l))
<1>1. /\ Head(l) \in Entry /\ Tail(l) \in Seq(Entry) /\ Len(Tail(l)) = Len(l) - 1
      /\ \A i \in 1 .. Len(Tail(l)) : Tail(l)[i] = l[i + 1]
  BY HeadTailProperties
<1>2. /\ Len(l) \in Nat \ {0} /\ DOMAIN l = 1 .. Len(l)
      /\ DOMAIN Tail(l) = 1 .. Len(Tail(l)) /\ Head(l) = l[1]
  BY <1>1, EmptySeq, LenProperties
<1>3. \A i \in DOMAIN Tail(l) : i + 1 \in DOMAIN l /\ Tail(l)[i] = l[i + 1]
  BY <1>1, <1>2
<1>4. \A i \in DOMAIN l : i = 1 \/ (i - 1 \in DOMAIN Tail(l) /\ l[i] = Tail(l)[i - 1])
  BY <1>1, <1>2
<1>5. 1 \in DOMAIN l
  BY <1>2
<1>6. Ids(l) \subseteq {Head(l).id} \cup Ids(Tail(l))
  <2> SUFFICES ASSUME NEW i \in DOMAIN l
               PROVE  l[i].id \in {Head(l).id} \cup Ids(Tail(l))
    BY DEF Ids
  <2>1. CASE i = 1
    BY <1>2, <2>1
  <2>2. CASE i - 1 \in DOMAIN Tail(l) /\ l[i] = Tail(l)[i - 1]
    BY <2>2 DEF Ids
  <2> QED BY <1>4, <2>1, <2>2
<1>7. {Head(l).id} \cup Ids(Tail(l)) \subseteq Ids(l)
  BY <1>2, <1>3, <1>5 DEF Ids
<1> QED BY <1>1, <1>6, <1>7

\* One entry of the section is read.
LEMMA EntryRestored ==
  ASSUME IInv, RestoreInv, ReadsEntry
  PROVE  RestoreInv'
<1> USE InvariantParts
<1> DEFINE R == Ids(Section)
           x == Head(reading)
<1>1. /\ phase = "reading" /\ ~ frozen /\ reading # << >> /\ reading \in Seq(Entry)
      /\ list' = Stored(list, x) /\ reading' = Tail(reading)
      /\ UNCHANGED <<raced, frozen, ram>>
  BY DEF ReadsEntry, MainRuns, TypeOK, nvVars
<1>2. SUFFICES ASSUME ~ raced PROVE RestoreInv'
  BY <1>1 DEF RestoreInv
<1>3. /\ Section \in Seq(Entry) /\ Ids(reading) \subseteq R
      /\ R \subseteq Ids(list) \cup Ids(reading) \/ Cardinality(Ids(list) \cup R) > MaxExceptions
  BY <1>1, <1>2 DEF RestoreInv
<1>4. x \in Entry /\ Ids(reading) = {x.id} \cup Ids(reading')
  BY <1>1, TailIds
<1>5. /\ list' \in Seq(Entry) /\ Distinct(list')
      /\ x.id \in Ids(list')
      /\ Ids(list) \subseteq Ids(list') \/ Len(list') = MaxExceptions
  BY <1>1, <1>2, <1>4, StoredProperties, StoredIds DEF NoDuplicates
<1>6. IsFiniteSet(Ids(list')) /\ IsFiniteSet(R) /\ Cardinality(Ids(list')) = Len(list')
  BY <1>3, <1>5, IdsCount
<1>7. IsFiniteSet(Ids(list') \cup R) /\ Cardinality(Ids(list') \cup R) \in Nat
  BY <1>6, FS_Union, FS_CardinalityType
<1>8. \/ R \subseteq Ids(list') \cup Ids(reading')
      \/ Cardinality(Ids(list') \cup R) > MaxExceptions
  <2>1. CASE Ids(list) \subseteq Ids(list')
    <3>1. CASE R \subseteq Ids(list) \cup Ids(reading)
      BY <1>4, <1>5, <2>1, <3>1
    <3>2. CASE Cardinality(Ids(list) \cup R) > MaxExceptions
      <4>1. Ids(list) \cup R \in SUBSET (Ids(list') \cup R)
        BY <2>1
      <4>2. /\ Cardinality(Ids(list) \cup R) <= Cardinality(Ids(list') \cup R)
            /\ Cardinality(Ids(list) \cup R) \in Nat
        BY <1>7, <4>1, FS_Subset, FS_CardinalityType
      <4> QED BY <1>7, <3>2, <4>2, ExcpAssumption
    <3> QED BY <1>3, <3>1, <3>2
  <2>2. CASE Len(list') = MaxExceptions /\ ~ R \subseteq Ids(list')
    <3>1. PICK q \in R : q \notin Ids(list')
      BY <2>2
    <3>2. Cardinality(Ids(list') \cup {q}) = MaxExceptions + 1
      BY <1>6, <2>2, <3>1, FS_AddElement
    <3>3. Ids(list') \cup {q} \in SUBSET (Ids(list') \cup R)
      BY <3>1
    <3>4. MaxExceptions + 1 <= Cardinality(Ids(list') \cup R)
      BY <1>7, <3>2, <3>3, FS_Subset
    <3> QED BY <1>7, <3>4, ExcpAssumption
  <2> QED BY <1>5, <2>1, <2>2
<1> QED BY <1>1, <1>3, <1>4, <1>8 DEF RestoreInv, Section

\* Nothing else happens to list, section and buffer while the section is read.
LEMMA RestoreStep ==
  IInv /\ ReadingRuns /\ RestoreInv /\ [Next]_vars => ReadingRuns' /\ RestoreInv'
<1> SUFFICES ASSUME IInv, ReadingRuns, RestoreInv, [Next]_vars
             PROVE  ReadingRuns' /\ RestoreInv'
  OBVIOUS
<1> USE InvariantParts
<1>1. CASE UNCHANGED vars
  BY <1>1 DEF vars, mainVars, nvVars, ReadingRuns, RestoreInv, Section
<1>2. ASSUME NEW e \in Exception, NEW c \in BOOLEAN, BootRaises(e, c)
      PROVE  ReadingRuns' /\ RestoreInv'
  BY <1>2 DEF BootRaises, ReadingRuns, RestoreInv
<1>10. ASSUME NEW e \in Exception, MainHandles(e) \/ MainTriggers(e) \/ MainRecords(e)
       PROVE  ReadingRuns' /\ RestoreInv'
  BY <1>10 DEF MainHandles, MainTriggers, MainRecords, mainVars, ReadingRuns, RestoreInv
<1>3. CASE BootReads \/ ReadFlash
  <2>1. MainRuns /\ ~ halted'
    <3>1. CASE BootReads
      BY <3>1 DEF BootReads, MainRuns
    <3>2. CASE ReadFlash
      BY <3>2 DEF ReadFlash, MainRuns
    <3> QED BY <1>3, <3>1, <3>2
  <2>2. CASE phase' = "reading"
    <3>1. reading' = Section /\ ram' = ram /\ Section # Unwritten
      BY <1>3, <2>2 DEF BootReads, ReadFlash, nvVars, Section
    <3> QED BY <2>1, <3>1, SectionTyped DEF ReadingRuns, RestoreInv, Section
  <2> QED BY <2>1, <2>2 DEF ReadingRuns, RestoreInv
<1>4. CASE ReadsEntry
  BY <1>4, EntryRestored DEF ReadsEntry, ReadingRuns
<1>5. CASE ReadsAll \/ Clear \/ WriteFlash
  BY <1>5 DEF ReadsAll, Clear, WriteFlash, mainVars, ReadingRuns, RestoreInv
<1>6. CASE CycStep
  <2>1. phase # "reading" /\ UNCHANGED <<phase, halted>>
    BY <1>6 DEF CycStep, CycRaises, CycFinds, CycFindsNot, CycShortens, CycAppends,
       CycCounts, CycSerialises, CycWrites, CycLeaves, CycGoes, CycAt, CycRuns, mainVars,
       ReadingRuns
  <2> QED BY <2>1 DEF ReadingRuns, RestoreInv
<1>7. ASSUME NEW e \in Exception, FaultHandles(e) PROVE ReadingRuns' /\ RestoreInv'
  BY <1>7 DEF FaultHandles, mainVars, ReadingRuns, RestoreInv
<1>8. CASE StoreBegins \/ StoreErases \/ StoreCommits \/ StoreEnds
  <2>1. UNCHANGED <<list, phase, reading, halted, frozen, raced, ram>>
    BY <1>8 DEF StoreBegins, StoreErases, StoreCommits, StoreEnds, Storing, mainVars,
       NV!TakePicture, NV!Forget, NV!Commit, NV!DropPicture
  <2> QED BY <2>1 DEF ReadingRuns, RestoreInv, Section
<1>9. CASE Restart
  BY <1>9 DEF Restart, ReadingRuns, RestoreInv
<1> QED
  BY <1>1, <1>2, <1>3, <1>4, <1>5, <1>6, <1>7, <1>8, <1>9, <1>10
     DEF Next, CycStep, PowerFailure, WatchdogReset

\* What the section held is listed once it has been read, if there is room for it.
THEOREM ReadingRestores == Spec => RestartRestores
<1>1. Init => ReadingRuns /\ RestoreInv
  BY DEF Init, ReadingRuns, RestoreInv
<1>2. ASSUME IInv, RestoreInv, [Next]_vars, phase = "reading", phase' = "up", ~ raced,
             Cardinality(Ids(list) \cup Ids(ram["EXCP"])) <= MaxExceptions,
             NEW i \in DOMAIN ram["EXCP"]
      PROVE  Known(list', ram["EXCP"][i].id)
  <2>1. ReadsAll
    BY <1>2 DEF Next, vars, mainVars, BootRaises, BootReads, ReadsEntry, MainHandles,
       MainTriggers, MainRecords, Clear, WriteFlash, ReadFlash, CycRaises, CycFinds, CycFindsNot, CycShortens,
       CycAppends, CycCounts, CycSerialises, CycWrites, CycLeaves, FaultHandles,
       StoreBegins, StoreErases, StoreCommits, StoreEnds, Storing, PowerFailure,
       WatchdogReset, Restart
  <2>2. ~ frozen /\ reading = << >> /\ list' = list
    BY <2>1 DEF ReadsAll, MainRuns
  <2>3. Ids(reading) = {}
    BY <2>2 DEF Ids
  <2>4. /\ Section \in Seq(Entry)
        /\ \/ Ids(Section) \subseteq Ids(list)
           \/ Cardinality(Ids(list) \cup Ids(Section)) > MaxExceptions
    BY <1>2, <2>2, <2>3 DEF RestoreInv
  <2>5. list \in Seq(Entry)
    BY <1>2, InvariantParts
  <2>6. Cardinality(Ids(list) \cup Ids(Section)) \in Nat
    BY <2>4, <2>5, IdsCount, FS_Union, FS_CardinalityType
  <2>7. Ids(Section) \subseteq Ids(list)
    BY <1>2, <2>4, <2>6, ExcpAssumption DEF Section
  <2>8. ram["EXCP"][i].id \in Ids(Section)
    BY DEF Ids, Section
  <2> QED BY <2>2, <2>7, <2>8, KnownIds
<1>3. IInv /\ RestoreInv /\ [Next]_vars =>
        [ /\ phase = "reading" /\ phase' = "up" /\ ~ raced
          /\ Cardinality(Ids(list) \cup Ids(ram["EXCP"])) <= MaxExceptions
          => \A i \in DOMAIN ram["EXCP"] : Known(list', ram["EXCP"][i].id) ]_vars
  BY <1>2
<1> QED BY <1>1, <1>3, RestoreStep, Invariance, PTL DEF Spec, RestartRestores

-----------------------------------------------------------------------------
(* The section is current *)

\* A list that fits the section is not longer than the handler's bound: without this,
\* reading the section back would drop exceptions of a list that Cyc100ms made too long.
BoundExceedsSection == SectionBytes < 32 + 64 * (MaxExceptions + 1)

\* Whatever is written to the section, or was copied from it, fits.
FitsIn(h) == h["EXCP"] # Unwritten => h["EXCP"] \in Seq(Entry) /\ Fits(h["EXCP"])

CopiesFit ==
  /\ FitsIn(ram)
  /\ picture # Nothing => FitsIn(picture)
  /\ durable # Nothing => FitsIn(durable)
  /\ cyc.pc = "write" => Fits(cyc.buffer)

\* Cyc100ms has not changed the list without having written it.
Searching == cyc.pc \in {"idle", "search", "shorten"}

\* the exemptions of SectionIsCurrent
Doubled == Section # Unwritten /\ ~ Distinct(Section)

Current == Fits(list) /\ ~ unsaved => Section = list \/ Doubled

\* the section is the list, followed by what is still to be read
Continues ==
  /\ Len(Section) = Len(list) + Len(reading)
  /\ \A i \in 1 .. Len(list) : Section[i] = list[i]
  /\ \A i \in 1 .. Len(reading) : Section[Len(list) + i] = reading[i]

\* While the section is read, it is the list already, or the list grows into it.
Growing ==
  Fits(list) /\ ~ unsaved =>
    \/ Doubled
    \/ Section = list /\ \A i \in DOMAIN reading : Known(list, reading[i].id)
    \/ Continues

SectionInv ==
  /\ CopiesFit
  /\ phase = "boot" /\ MainRuns /\ ~ unsaved => list = << >>
  /\ phase = "reading" /\ ~ frozen => Section # Unwritten /\ (Searching => Growing)
  /\ phase = "up" /\ Searching => Current

\* Only the length of a list decides whether it fits.
LEMMA FitsByLength ==
  ASSUME NEW l \in Seq(Entry), NEW m \in Seq(Entry), Len(l) <= Len(m), Fits(m)
  PROVE  Fits(l)
<1>1. Len(l) \in Nat /\ Len(m) \in Nat /\ SectionBytes \in Nat
  BY LenProperties, ExcpAssumption
<1> QED BY <1>1 DEF Fits

\* A list that fits is bounded.
LEMMA FittingIsBounded ==
  ASSUME BoundExceedsSection, NEW l \in Seq(Entry), Fits(l)
  PROVE  Len(l) <= MaxExceptions
<1>1. Len(l) \in Nat /\ SectionBytes \in Nat /\ MaxExceptions \in Nat
  BY LenProperties, ExcpAssumption
<1> QED BY <1>1 DEF Fits, BoundExceedsSection

\* store_exception_in_list never shortens the list.
LEMMA StoredLength ==
  ASSUME NEW l \in Seq(Entry), NEW x \in Entry
  PROVE  Len(l) <= Len(Stored(l, x))
<1>1. Len(l) \in Nat /\ MaxExceptions \in Nat \ {0}
  BY LenProperties, ExcpAssumption
<1>2. CASE Known(l, x.id)
  BY <1>1, <1>2 DEF Stored
<1>3. CASE ~ Known(l, x.id) /\ Len(l) # MaxExceptions
  BY <1>1, <1>3, AppendProperties DEF Stored
<1>4. CASE ~ Known(l, x.id) /\ Len(l) = MaxExceptions
  <2>1. l # << >>
    BY <1>1, <1>4, EmptySeq
  <2>2. Tail(l) \in Seq(Entry) /\ Len(Tail(l)) = Len(l) - 1
    BY <2>1, HeadTailProperties
  <2>3. Len(Append(Tail(l), x)) = Len(l) - 1 + 1
    BY <2>2, AppendProperties
  <2> QED BY <1>1, <1>4, <2>3 DEF Stored
<1> QED BY <1>2, <1>3, <1>4

\* Writing a list to the section.
LEMMA WritesCurrent ==
  ASSUME IInv, SectionInv, NEW l \in Seq(Entry), NEW a \in BOOLEAN, PersistIf(l, a),
         cyc' = cyc \/ cyc' = Disturbed(cyc, l)
  PROVE  /\ CopiesFit'
         /\ a /\ Fits(l) => ram'["EXCP"] = l
         /\ ~ (a /\ Fits(l)) => ram'["EXCP"] = ram["EXCP"]
<1> USE InvariantParts
<1>1. ram'["EXCP"] = SectionAfter(l, a) /\ UNCHANGED <<picture, durable>>
  BY DEF PersistIf, NV!Write, NvTyped, Held
<1>2. FitsIn(ram')
  BY <1>1 DEF SectionAfter, SectionInv, CopiesFit, FitsIn
<1>3. cyc'.pc = cyc.pc /\ cyc'.buffer = cyc.buffer
  BY DEF Disturbed, CycType
<1> QED BY <1>1, <1>2, <1>3 DEF SectionInv, CopiesFit, SectionAfter

\* Steps that leave the section, its copies and the buffer alone.
LEMMA CopiesKept ==
  ASSUME SectionInv, UNCHANGED nvVars, cyc'.pc = "write" => Fits(cyc'.buffer)
  PROVE  CopiesFit'
  BY DEF SectionInv, CopiesFit, FitsIn, nvVars

\* One entry of the section is read.
LEMMA EntryGrows ==
  ASSUME BoundExceedsSection, IInv, SectionInv, ReadsEntry
  PROVE  SectionInv'
<1> USE InvariantParts
<1> DEFINE x == Head(reading)
<1>1. /\ phase = "reading" /\ phase' = phase /\ ~ frozen /\ reading # << >>
      /\ list' = Stored(list, x) /\ reading' = Tail(reading)
      /\ cyc' = Disturbed(cyc, list')
      /\ UNCHANGED <<unsaved, ram, picture, durable, valid>>
  BY DEF ReadsEntry, MainRuns, nvVars
<1>2. reading \in Seq(Entry) /\ x \in Entry /\ reading' \in Seq(Entry)
  BY <1>1, TailIds DEF TypeOK
<1>3. cyc'.pc = cyc.pc /\ cyc'.buffer = cyc.buffer
  BY <1>1 DEF Disturbed, CycType
<1>4. CopiesFit'
  BY <1>1, <1>3, CopiesKept DEF nvVars, SectionInv, CopiesFit
<1>5. list' \in Seq(Entry) /\ Len(list) <= Len(list')
  BY <1>1, <1>2, StoredProperties, StoredLength
<1>6. Section # Unwritten /\ Section \in Seq(Entry) /\ Fits(Section) /\ Section' = Section
  BY <1>1 DEF SectionInv, CopiesFit, FitsIn, Section
<1>7. ASSUME Searching, Fits(list'), ~ unsaved, ~ Doubled
      PROVE  \/ Section = list' /\ \A i \in DOMAIN reading' : Known(list', reading'[i].id)
             \/ Continues'
  <2>1. Fits(list)
    BY <1>5, <1>7, FitsByLength
  <2>2. \/ Section = list /\ \A i \in DOMAIN reading : Known(list, reading[i].id)
        \/ Continues
    BY <1>1, <1>7, <2>1 DEF SectionInv, Growing
  <2>3. /\ Len(reading) \in Nat \ {0} /\ Len(list) \in Nat /\ DOMAIN list = 1 .. Len(list)
        /\ DOMAIN reading = 1 .. Len(reading) /\ x = reading[1]
        /\ Len(reading') = Len(reading) - 1 /\ DOMAIN reading' = 1 .. Len(reading')
        /\ \A i \in 1 .. Len(reading') : reading'[i] = reading[i + 1]
    BY <1>1, <1>2, EmptySeq, LenProperties, HeadTailProperties
  <2>4. CASE Section = list /\ \A i \in DOMAIN reading : Known(list, reading[i].id)
    <3>1. Known(list, x.id)
      BY <2>3, <2>4
    <3>2. list' = list
      BY <1>1, <3>1 DEF Stored
    <3>3. \A i \in DOMAIN reading' : i + 1 \in DOMAIN reading /\ reading'[i] = reading[i + 1]
      BY <2>3
    <3> QED BY <2>4, <3>2, <3>3
  <2>5. CASE Continues
    <3>1. /\ Len(Section) \in Nat /\ DOMAIN Section = 1 .. Len(Section)
          /\ Len(Section) <= MaxExceptions /\ MaxExceptions \in Nat
      BY <1>6, LenProperties, FittingIsBounded, ExcpAssumption
    <3>2. Section[Len(list) + 1] = x /\ Len(Section) = Len(list) + Len(reading)
      BY <2>3, <2>5 DEF Continues
    <3>3. ~ Known(list, x.id)
      <4>1. SUFFICES ASSUME NEW i \in 1 .. Len(list), list[i].id = x.id PROVE FALSE
        BY <2>3 DEF Known
      <4>2. Section[i].id = Section[Len(list) + 1].id
        BY <2>5, <3>2, <4>1 DEF Continues
      <4>3. i \in DOMAIN Section /\ Len(list) + 1 \in DOMAIN Section /\ i # Len(list) + 1
        BY <2>3, <3>1, <3>2
      <4> QED BY <1>6, <1>7, <4>2, <4>3 DEF Doubled, Distinct
    <3>4. Len(list) # MaxExceptions
      <4> DEFINE n == Len(list)
                 k == Len(reading)
                 s == Len(Section)
      <4>1. n \in Nat /\ k \in Nat \ {0} /\ s = n + k /\ s <= MaxExceptions
        BY <2>3, <3>1, <3>2
      <4> HIDE DEF n, k, s
      <4>2. n # MaxExceptions
        BY <4>1, ExcpAssumption
      <4> QED BY <4>2 DEF n
    <3>5. list' = Append(list, x)
      BY <1>1, <3>3, <3>4 DEF Stored
    <3>6. /\ Len(list') = Len(list) + 1 /\ list'[Len(list) + 1] = x
          /\ \A i \in 1 .. Len(list) : list'[i] = list[i]
      BY <1>2, <3>5, AppendProperties
    <3>7. Len(Section) = Len(list') + Len(reading')
      BY <2>3, <3>2, <3>6
    <3>8. \A i \in 1 .. Len(list') : Section[i] = list'[i]
      <4> SUFFICES ASSUME NEW i \in 1 .. Len(list') PROVE Section[i] = list'[i]
        OBVIOUS
      <4>1. CASE i \in 1 .. Len(list)
        BY <2>5, <3>6, <4>1 DEF Continues
      <4>2. CASE i = Len(list) + 1
        BY <3>2, <3>6, <4>2
      <4> QED BY <2>3, <3>6, <4>1, <4>2
    <3>9. \A i \in 1 .. Len(reading') : Section[Len(list') + i] = reading'[i]
      <4> SUFFICES ASSUME NEW i \in 1 .. Len(reading')
                   PROVE  Section[Len(list') + i] = reading'[i]
        OBVIOUS
      <4>1. i + 1 \in 1 .. Len(reading) /\ Len(list') + i = Len(list) + (i + 1)
        BY <2>3, <3>6
      <4>2. Section[Len(list) + (i + 1)] = reading[i + 1]
        BY <2>5, <4>1 DEF Continues
      <4> QED BY <2>3, <4>1, <4>2
    <3> QED BY <1>6, <3>7, <3>8, <3>9 DEF Continues
  <2> QED BY <2>2, <2>4, <2>5
<1>8. Searching' => Growing'
  BY <1>1, <1>3, <1>6, <1>7 DEF Searching, Growing, Doubled
<1> QED BY <1>1, <1>4, <1>6, <1>8 DEF SectionInv

\* The section has been read: the list has grown into it.
LEMMA GrownIsCurrent ==
  ASSUME IInv, SectionInv, ReadsAll
  PROVE  SectionInv'
<1> USE InvariantParts
<1>1. /\ phase = "reading" /\ phase' = "up" /\ ~ frozen /\ reading = << >>
      /\ UNCHANGED <<list, cyc, unsaved, ram, picture, durable, valid>>
  BY DEF ReadsAll, MainRuns, nvVars
<1>2. CopiesFit'
  BY <1>1, CopiesKept DEF nvVars, SectionInv, CopiesFit
<1>3. Section # Unwritten /\ Section \in Seq(Entry) /\ (Searching => Growing)
  BY <1>1 DEF SectionInv, CopiesFit, FitsIn, Section
<1>4. ASSUME Continues PROVE Section = list
  <2>1. Len(reading) = 0 /\ Len(list) \in Nat /\ Len(Section) \in Nat
    BY <1>1, <1>3, EmptySeq, LenProperties
  <2>2. Len(Section) = Len(list) /\ \A i \in 1 .. Len(list) : Section[i] = list[i]
    BY <1>4, <2>1 DEF Continues
  <2> QED BY <1>3, <2>2, SeqEqual
<1>5. Searching => Current
  BY <1>3, <1>4 DEF Growing, Current
<1>6. Searching' => Current'
  BY <1>1, <1>5 DEF Searching, Current, Section, Doubled
<1> QED BY <1>1, <1>2, <1>6 DEF SectionInv

\* The section is about to be read.
LEMMA ReadingBegins ==
  ASSUME IInv, SectionInv, phase' = "reading", reading' = Section, Section # Unwritten,
         UNCHANGED <<list, cyc, unsaved, nvVars>>,
         \/ list = << >>
         \/ unsaved
         \/ Searching => Current
  PROVE  SectionInv'
<1> USE InvariantParts
<1>1. CopiesFit'
  BY CopiesKept DEF SectionInv, CopiesFit
<1>2. Section' = Section /\ Section \in Seq(Entry)
  BY SectionTyped DEF nvVars, Section
<1>3. ASSUME list = << >> PROVE Continues'
  <2>1. Len(list) = 0 /\ Len(Section) \in Nat
    BY <1>2, <1>3, EmptySeq, LenProperties
  <2>2. list' = list /\ reading' = Section
    OBVIOUS
  <2> QED BY <1>2, <2>1, <2>2 DEF Continues
<1>4. ASSUME Section = list
      PROVE  Section' = list' /\ \A i \in DOMAIN reading' : Known(list', reading'[i].id)
  BY <1>2, <1>4 DEF Known
<1>5. Searching' => Growing'
  BY <1>2, <1>3, <1>4 DEF Searching, Current, Growing, Doubled
<1> QED BY <1>1, <1>2, <1>5 DEF SectionInv

\* The main thread at startup.
LEMMA SectionBoot ==
  ASSUME BoundExceedsSection, IInv, SectionInv,
         \/ \E e \in Exception, c \in BOOLEAN : BootRaises(e, c)
         \/ BootReads \/ ReadsEntry \/ ReadsAll
  PROVE  SectionInv'
<1> USE InvariantParts
<1>1. ASSUME NEW e \in Exception, NEW c \in BOOLEAN, BootRaises(e, c) PROVE SectionInv'
  <2>1. CopiesFit'
    BY <1>1, CopiesKept DEF BootRaises, SectionInv, CopiesFit
  <2> QED BY <1>1, <2>1 DEF BootRaises, SectionInv
<1>2. ASSUME BootReads PROVE SectionInv'
  <2>1. CASE ram["EXCP"] = Unwritten
    <3>1. /\ list' = Recorded(list, ReadFailed) /\ PersistIf(list', TRUE) /\ phase' = "up"
          /\ cyc' = cyc
      BY <1>2, <2>1 DEF BootReads
    <3>2. list' \in Seq(Entry)
      BY <3>1, RecordedProperties, ExcpAssumption
    <3>3. CopiesFit' /\ (Fits(list') => ram'["EXCP"] = list')
      BY <3>1, <3>2, WritesCurrent
    <3> QED BY <3>1, <3>3 DEF SectionInv, Current, Section
  <2>2. CASE ram["EXCP"] # Unwritten
    <3>1. /\ phase' = "reading" /\ reading' = Section /\ Section # Unwritten
          /\ UNCHANGED <<list, cyc, unsaved, nvVars>>
      BY <1>2, <2>2 DEF BootReads, Section
    <3>2. list = << >> \/ unsaved
      BY <1>2 DEF BootReads, SectionInv
    <3> QED BY <3>1, <3>2, ReadingBegins
  <2> QED BY <2>1, <2>2
<1> QED BY <1>1, <1>2, EntryGrows, GrownIsCurrent

\* The main thread once the system is up.
LEMMA SectionMain ==
  ASSUME IInv, SectionInv,
         \/ \E e \in Exception : MainHandles(e) \/ MainTriggers(e) \/ MainRecords(e)
         \/ Clear \/ WriteFlash \/ ReadFlash
  PROVE  SectionInv'
<1> USE InvariantParts
<1>1. ASSUME NEW l \in Seq(Entry), list' = l, Persist(l), phase' = "up", phase = "up",
             cyc' = cyc \/ cyc' = Disturbed(cyc, l)
      PROVE  SectionInv'
  <2>1. Attached /\ PersistIf(l, TRUE)
    BY <1>1 DEF Attached, Persist
  <2>2. CopiesFit' /\ (Fits(l) => ram'["EXCP"] = l)
    BY <1>1, <2>1, WritesCurrent
  <2> QED BY <1>1, <2>2 DEF SectionInv, Current, Section
<1>2. ASSUME NEW e \in Exception, MainHandles(e) \/ MainRecords(e) PROVE SectionInv'
  <2>1. list' \in Seq(Entry)
    BY <1>2, RecordedProperties DEF MainHandles, MainRecords
  <2> QED BY <1>1, <1>2, <2>1 DEF MainHandles, MainRecords, mainVars
<1>6. ASSUME NEW e \in Exception, MainTriggers(e) PROVE SectionInv'
  <2>1. phase = "up" /\ UNCHANGED <<list, phase, cyc, unsaved, ram, picture, durable, valid>>
    BY <1>6 DEF MainTriggers, nvVars
  <2>2. CopiesFit'
    BY <2>1, CopiesKept DEF nvVars, SectionInv, CopiesFit
  <2>3. Searching' => Current'
    BY <2>1 DEF SectionInv, Searching, Current, Section, Doubled
  <2> QED BY <2>1, <2>2, <2>3 DEF SectionInv
<1>3. ASSUME Clear PROVE SectionInv'
  <2>1. phase' = "up" /\ unsaved' /\ UNCHANGED nvVars /\ cyc' = Disturbed(cyc, list')
    BY <1>3 DEF Clear, mainVars
  <2>2. cyc'.pc = cyc.pc /\ cyc'.buffer = cyc.buffer
    BY <2>1 DEF Disturbed, CycType
  <2>3. CopiesFit'
    BY <2>1, <2>2, CopiesKept DEF SectionInv, CopiesFit
  <2> QED BY <2>1, <2>3 DEF SectionInv, Current
<1>4. ASSUME WriteFlash PROVE SectionInv'
  BY <1>1, <1>4 DEF WriteFlash, mainVars
<1>5. ASSUME ReadFlash PROVE SectionInv'
  <2>1. /\ phase' = "reading" /\ reading' = Section /\ Section # Unwritten
        /\ UNCHANGED <<list, cyc, unsaved, nvVars>> /\ phase = "up"
    BY <1>5 DEF ReadFlash, Section
  <2>2. Searching => Current
    BY <2>1 DEF SectionInv
  <2> QED BY <2>1, <2>2, ReadingBegins
<1> QED BY <1>2, <1>3, <1>4, <1>5, <1>6

\* Cyc100ms: from the moment it changes the list until it has written it, nothing is
\* claimed; then the section is its buffer.
LEMMA SectionCyc ==
  ASSUME IInv, ReadingRuns, SectionInv, CycStep
  PROVE  SectionInv'
<1> USE InvariantParts
<1>1. /\ phase = "up" \/ (phase = "boot" /\ halted)
      /\ UNCHANGED <<phase, halted, raising, frozen>>
  BY DEF CycStep, CycRaises, CycFinds, CycFindsNot, CycShortens, CycAppends,
     CycCounts, CycSerialises, CycWrites, CycLeaves, CycGoes, CycAt, CycRuns, mainVars,
     ReadingRuns, TypeOK
<1>2. ASSUME CopiesFit', phase = "up" /\ Searching' => Current' PROVE SectionInv'
  BY <1>1, <1>2 DEF SectionInv, MainRuns
<1>3. CASE CycWrites
  <2>1. /\ cyc.pc = "write" /\ cyc'.pc = "idle" /\ ram'["EXCP"] = cyc.buffer
        /\ UNCHANGED <<list, picture, durable>> /\ unsaved' = (list # cyc.buffer)
    BY <1>3 DEF CycWrites, CycAt, Idle, NV!Write, NvTyped, Held
  <2>2. cyc.buffer \in Seq(Entry) /\ Fits(cyc.buffer)
    BY <2>1 DEF SectionInv, CopiesFit, CycType
  <2>3. CopiesFit'
    BY <2>1, <2>2 DEF SectionInv, CopiesFit, FitsIn
  <2>4. Current'
    BY <2>1 DEF Current, Section
  <2> QED BY <1>2, <2>3, <2>4
<1>4. CASE CycSerialises
  <2>1. cyc'.pc = "write" => Fits(cyc'.buffer)
    BY <1>4 DEF CycSerialises, Idle, CycType
  <2>2. UNCHANGED <<list, unsaved, ram>> /\ UNCHANGED nvVars
    BY <1>4 DEF CycSerialises, nvVars
  <2>3. CopiesFit'
    BY <2>1, <2>2, CopiesKept
  <2>4. ASSUME phase = "up", Searching' PROVE ~ Fits(list)
    BY <1>4, <2>4 DEF CycSerialises, Searching, CycType, Attached
  <2>5. phase = "up" /\ Searching' => Current'
    BY <2>2, <2>4 DEF Current
  <2> QED BY <1>2, <2>3, <2>5
<1>5. CASE CycShortens \/ CycAppends \/ CycCounts
  <2>1. cyc'.pc \in {"append", "count", "serialise"} /\ UNCHANGED nvVars
    BY <1>5 DEF CycShortens, CycAppends, CycCounts, CycGoes, CycType
  <2>2. CopiesFit' /\ ~ Searching'
    BY <2>1, CopiesKept DEF Searching
  <2> QED BY <1>2, <2>2
<1>6. CASE (\E e \in Exception : CycRaises(e)) \/ CycFinds \/ CycFindsNot
  <2>1. /\ cyc'.pc # "write" /\ Searching /\ UNCHANGED nvVars
        /\ UNCHANGED <<list, unsaved, ram>>
    BY <1>6 DEF CycRaises, CycFinds, CycFindsNot, CycAt, CycType, Idle, Searching, nvVars
  <2>2. CopiesFit'
    BY <2>1, CopiesKept
  <2>3. phase = "up" => Current'
    BY <2>1 DEF SectionInv, Current, Section, Doubled
  <2> QED BY <1>2, <2>2, <2>3
<1> QED BY <1>3, <1>4, <1>5, <1>6 DEF CycStep

\* A fault handler writes the list as the main thread does.
LEMMA SectionFault ==
  ASSUME IInv, SectionInv, NEW e \in Exception, FaultHandles(e)
  PROVE  SectionInv'
<1> USE InvariantParts
<1>1. /\ list' = Recorded(list, e) /\ Persist(list') /\ frozen' /\ cyc' = cyc
      /\ UNCHANGED phase
  BY DEF FaultHandles, mainVars
<1>2. list' \in Seq(Entry)
  BY <1>1, RecordedProperties
<1>3. /\ CopiesFit'
      /\ Attached /\ Fits(list') => ram'["EXCP"] = list'
  BY <1>1, <1>2, WritesCurrent DEF Persist, Attached
<1>4. phase = "up" => Current'
  BY <1>3 DEF Attached, Current, Section
<1> QED BY <1>1, <1>3, <1>4 DEF SectionInv, MainRuns

\* store() copies the section.
LEMMA SectionStore ==
  ASSUME IInv, SectionInv, StoreBegins \/ StoreErases \/ StoreCommits \/ StoreEnds
  PROVE  SectionInv'
<1>1. UNCHANGED <<list, cyc, phase, reading, halted, raising, frozen, unsaved, ram>>
  BY DEF StoreBegins, StoreErases, StoreCommits, StoreEnds, Storing, mainVars,
     NV!TakePicture, NV!Forget, NV!Commit, NV!DropPicture
<1>2. CopiesFit'
  <2>1. picture' \in {picture, ram, Nothing}
    BY DEF StoreBegins, StoreErases, StoreCommits, StoreEnds,
       NV!TakePicture, NV!Forget, NV!Commit, NV!DropPicture
  <2>2. durable' = durable \/ durable' = Nothing \/ (durable' = picture /\ picture # Nothing)
    BY DEF StoreBegins, StoreErases, StoreCommits, StoreEnds,
       NV!TakePicture, NV!Forget, NV!Commit, NV!DropPicture
  <2> QED BY <1>1, <2>1, <2>2 DEF SectionInv, CopiesFit, FitsIn
<1>3. MainRuns' = MainRuns /\ Searching' = Searching /\ Growing' = Growing
      /\ Current' = Current /\ Section' = Section
  BY <1>1 DEF MainRuns, Searching, Growing, Current, Section, Doubled, Continues
<1> QED BY <1>1, <1>2, <1>3 DEF SectionInv

\* After a reset the list is empty and the section holds what the flash held.
LEMMA SectionRestart ==
  ASSUME IInv, SectionInv, Restart
  PROVE  SectionInv'
<1>1. /\ list' = << >> /\ phase' = "boot" /\ cyc'.pc = "idle" /\ picture' = Nothing
      /\ durable' \in {durable, Nothing}
      /\ ram' = IF durable' = Nothing THEN NV!Empty ELSE durable'
  BY DEF Restart, NV!Restart, Idle
<1>2. FitsIn(NV!Empty)
  BY DEF FitsIn, NV!Empty
<1>3. CopiesFit'
  BY <1>1, <1>2 DEF SectionInv, CopiesFit, FitsIn
<1> QED BY <1>1, <1>3 DEF SectionInv

\* Every step keeps the section current, or says why it is not.
LEMMA SectionStep ==
  BoundExceedsSection /\ IInv /\ ReadingRuns /\ SectionInv /\ [Next]_vars => SectionInv'
<1> SUFFICES ASSUME BoundExceedsSection, IInv, ReadingRuns, SectionInv, [Next]_vars
             PROVE  SectionInv'
  OBVIOUS
<1>1. CASE UNCHANGED vars
  <2>1. UNCHANGED <<list, cyc, phase, reading, halted, raising, frozen, unsaved, ram,
                    picture, durable>>
    BY <1>1 DEF vars, mainVars, nvVars
  <2> QED BY <2>1 DEF SectionInv, CopiesFit, FitsIn, MainRuns, Searching, Growing, Current,
         Section, Doubled, Continues
<1> QED
  BY <1>1, SectionBoot, SectionMain, SectionCyc, SectionFault, SectionStore,
     SectionRestart DEF Next, CycStep, PowerFailure, WatchdogReset

\* Between two exceptions the section holds the list, provided no list fits the section
\* that is longer than the bound of the list (ten exceptions against four in the code).
THEOREM SectionStaysCurrent ==
  BoundExceedsSection => (Spec => []SectionIsCurrent)
<1> SUFFICES ASSUME BoundExceedsSection PROVE Spec => []SectionIsCurrent
  OBVIOUS
<1>1. Init => ReadingRuns /\ RestoreInv /\ SectionInv
  BY DEF Init, NV!Init, NV!Empty, Idle, ReadingRuns, RestoreInv, SectionInv, CopiesFit,
     FitsIn
<1>2. IInv /\ ReadingRuns /\ SectionInv /\ [Next]_vars => SectionInv'
  BY SectionStep
<1>3. SectionInv => SectionIsCurrent
  BY DEF SectionInv, SectionIsCurrent, Quiet, Searching, Current, Doubled, Section
<1> QED BY <1>1, <1>2, <1>3, RestoreStep, Invariance, PTL DEF Spec
=============================================================================
