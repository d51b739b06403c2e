--------------------------- MODULE NvStore_proofs ---------------------------
(***************************************************************************)
(* Proofs about store(): for any number and contents of sections, and any  *)
(* number of writes, resets and errors of the flash controller.            *)
(***************************************************************************)
EXTENDS NvStore, TLAPS

(* The inductive invariant *)

\* what the running store() has already put into header and table area
HeaderWritten ==
  /\ pc \in {"sum", "compare", "erase", "write"} => header \in Header
  /\ pc \in {"compare", "erase", "write"} => header.sum \in Contents

\* the words that are programmed, and those that are still erased
PageInOrder ==
  pc = "write" =>
    /\ \A i \in PageIndex : i >= word => page[i] = Erased
    /\ word > 1 => page[1] = header

\* as long as nothing was written behind it the checksum fits: the sections in the
\* shadow, or those that are already programmed
ChecksumFits ==
  ~ tearing =>
    /\ pc \in {"compare", "erase"} => shadow = header.sum
    /\ pc = "write" =>
         \A i \in SectionIndex :
           (IF i < word THEN page[i] ELSE shadow[i]) = header.sum[i]

\* between two store()s, and up to the moment the page is erased
PageIsGood == stale = {} /\ pc # "write" => Loadable(page)

IInv == TypeOK /\ HeaderWritten /\ PageInOrder /\ ChecksumFits /\ PageIsGood

-----------------------------------------------------------------------------
(* Pages *)

\* The numbers of the words, and what they hold.
LEMMA WordProperties ==
  /\ PageWords \in Nat /\ PageWords > 1
  /\ PageIndex = 1 .. PageWords /\ SectionIndex = 2 .. PageWords
  /\ SectionIndex \subseteq PageIndex /\ 1 \in PageIndex /\ PageWords \in SectionIndex
  /\ Erased \notin Header /\ Erased \notin Value /\ None \notin Header
  /\ None # Erased /\ None \notin Contents /\ Blank \in Value
<1>1. Contents \subseteq [SectionIndex -> PageWord]
  BY DEF Contents, PageWord
<1> QED BY <1>1, PageAssumption, StoreAssumption, HeaderAssumption
           DEF PageIndex, SectionIndex

\* The sections of a page are never the missing picture.
LEMMA SectionsOfPage ==
  ASSUME NEW p \in [PageIndex -> PageWord]
  PROVE  Sections(p) \in [SectionIndex -> PageWord] /\ Sections(p) # None
<1>1. Sections(p) \in [SectionIndex -> PageWord]
  BY WordProperties DEF Sections
<1> QED BY <1>1, HeaderAssumption

\* A page that loads holds a section in every word but the first.
LEMMA LoadableContents ==
  ASSUME NEW p \in [PageIndex -> PageWord], Loadable(p)
  PROVE  /\ p[1] \in Header /\ Sections(p) \in Contents
         /\ \A i \in PageIndex : p[i] # Erased
<1>1. p[1] \in Header /\ p[1].sum = Sections(p)
  BY DEF Loadable
<1>2. Sections(p) \in Contents
  BY <1>1, SectionsOfPage DEF Header
<1>3. \A i \in SectionIndex : p[i] \in Value
  <2> TAKE i \in SectionIndex
  <2>1. Sections(p)[i] \in Value
    BY <1>2 DEF Contents
  <2> QED BY <2>1 DEF Sections
<1>4. \A i \in PageIndex : i = 1 \/ i \in SectionIndex
  BY WordProperties
<1> QED BY <1>1, <1>2, <1>3, <1>4, WordProperties

\* An erase that is cut short leaves a page that is unchanged or does not load.
LEMMA PartlyErasedPage ==
  ASSUME NEW p \in [PageIndex -> PageWord], NEW q \in PartlyErased(p)
  PROVE  q \in [PageIndex -> PageWord] /\ (Loadable(q) => q = p)
<1>1. PICK gone \in SUBSET PageIndex :
        q = [i \in PageIndex |-> IF i \in gone THEN Erased ELSE p[i]]
  BY DEF PartlyErased
<1>2. q \in [PageIndex -> PageWord]
  BY <1>1 DEF PageWord
<1>3. ASSUME Loadable(q) PROVE q = p
  <2>1. gone = {}
    BY <1>1, <1>2, <1>3, LoadableContents
  <2> QED BY <1>1, <2>1
<1> QED BY <1>2, <1>3

\* A page whose first word is the header and whose sections have its checksum loads.
LEMMA ConsistentPage ==
  ASSUME NEW p \in [PageIndex -> PageWord], p[1] \in Header, p[1].sum \in Contents,
         \A i \in SectionIndex : p[i] = p[1].sum[i]
  PROVE  Loadable(p)
<1>1. Sections(p) = p[1].sum
  BY DEF Sections, Contents
<1> QED BY <1>1 DEF Loadable

-----------------------------------------------------------------------------
(* The inductive invariant *)

\* The device starts with an empty shadow and an erased page.
THEOREM InductiveInit == Init => IInv
<1> SUFFICES ASSUME Init PROVE IInv
  OBVIOUS
<1>1. TypeOK
  BY WordProperties DEF Init, TypeOK, Contents, PageWord, ErasedPage
<1> QED BY <1>1 DEF Init, IInv, HeaderWritten, PageInOrder, ChecksumFits, PageIsGood

\* Every step of store(), of the other threads and of the hardware keeps the
\* invariant.
THEOREM InductiveStep == IInv /\ [Next]_vars => IInv'
<1> SUFFICES ASSUME IInv, [Next]_vars PROVE IInv'
  OBVIOUS
<1> USE DEF IInv, Store
<1>1. ASSUME WriteHeader PROVE IInv'
  <2>1. header' \in Header
    BY <1>1 DEF WriteHeader, Header, TypeOK
  <2>2. TypeOK'
    BY <1>1, <2>1 DEF WriteHeader, TypeOK
  <2> QED BY <1>1, <2>1, <2>2 DEF WriteHeader, HeaderWritten, PageInOrder,
             ChecksumFits, PageIsGood, Loadable, Sections
<1>2. ASSUME WriteChecksum PROVE IInv'
  <2>1. header' \in Header /\ header'.sum = shadow /\ shadow \in Contents
    BY <1>2 DEF WriteChecksum, Header, HeaderWritten, TypeOK
  <2>2. TypeOK'
    BY <1>2, <2>1 DEF WriteChecksum, TypeOK
  <2> QED BY <1>2, <2>1, <2>2 DEF WriteChecksum, HeaderWritten, PageInOrder,
             ChecksumFits, PageIsGood, Loadable, Sections
<1>3. ASSUME SkipWriting PROVE IInv'
  <2>1. TypeOK'
    BY <1>3 DEF SkipWriting, AfterStore, TypeOK
  <2>2. ASSUME ~ tearing PROVE Loadable(page)
    <3>1. header \in Header /\ header.sum \in Contents /\ shadow = header.sum
      BY <1>3, <2>2 DEF SkipWriting, HeaderWritten, ChecksumFits
    <3>2. \A i \in PageIndex : page[i] = ShadowWord(i)
      BY <1>3 DEF SkipWriting, PageIsCurrent, Reads, PageIndex
    <3>3. page[1] = header /\ \A i \in SectionIndex : page[i] = shadow[i]
      BY <3>2, WordProperties DEF ShadowWord
    <3> QED BY <3>1, <3>3, ConsistentPage DEF TypeOK
  <2>3. PageIsGood'
    BY <1>3, <2>2 DEF SkipWriting, AfterStore, PageIsGood, Loadable, Sections
  <2> QED BY <1>3, <2>1, <2>3 DEF SkipWriting, HeaderWritten, PageInOrder, ChecksumFits
<1>4. ASSUME StartWriting PROVE IInv'
  BY <1>4 DEF StartWriting, TypeOK, HeaderWritten, PageInOrder, ChecksumFits,
     PageIsGood, Loadable, Sections
<1>5. ASSUME ErasePage PROVE IInv'
  <2>1. TypeOK'
    BY <1>5, WordProperties DEF ErasePage, TypeOK, ErasedPage, PageWord
  <2>2. ChecksumFits'
    <3> SUFFICES ASSUME ~ tearing, NEW i \in SectionIndex PROVE shadow[i] = header.sum[i]
      BY <1>5, WordProperties DEF ErasePage, ChecksumFits
    <3> QED BY <1>5 DEF ErasePage, ChecksumFits
  <2> QED BY <1>5, <2>1, <2>2 DEF ErasePage, HeaderWritten, PageInOrder, PageIsGood,
             ErasedPage
<1>6. ASSUME ProgramWord PROVE IInv'
  <2>1. word \in PageIndex /\ word + 1 \in PageIndex
    BY <1>6, WordProperties DEF ProgramWord, TypeOK
  <2>2. ShadowWord(word) \in PageWord
    BY <1>6, <2>1, WordProperties
       DEF ProgramWord, ShadowWord, HeaderWritten, TypeOK, Contents, PageWord
  <2>3. \A i \in PageIndex :
          page'[i] = IF i = word THEN ShadowWord(word) ELSE page[i]
    BY <1>6 DEF ProgramWord, Programmed, TypeOK
  <2>4. TypeOK'
    BY <1>6, <2>1, <2>2 DEF ProgramWord, Programmed, TypeOK
  <2>5. PageInOrder'
    BY <1>6, <2>1, <2>3, WordProperties DEF ProgramWord, PageInOrder, ShadowWord
  <2>6. ChecksumFits'
    BY <1>6, <2>1, <2>3, WordProperties DEF ProgramWord, ChecksumFits, ShadowWord
  <2> QED BY <1>6, <2>4, <2>5, <2>6 DEF ProgramWord, HeaderWritten, PageIsGood
<1>7. ASSUME ProgramLastWord PROVE IInv'
  <2>1. ShadowWord(word) \in PageWord
    BY <1>7, WordProperties DEF ProgramLastWord, ShadowWord, TypeOK, Contents, PageWord
  <2>2. \A i \in PageIndex :
          page'[i] = IF i = PageWords THEN shadow[i] ELSE page[i]
    BY <1>7, WordProperties DEF ProgramLastWord, Programmed, ShadowWord, TypeOK
  <2>3. TypeOK'
    BY <1>7, <2>1 DEF ProgramLastWord, Programmed, AfterStore, TypeOK
  <2>4. ASSUME ~ tearing PROVE Loadable(page')
    <3>1. page'[1] = header
      BY <1>7, <2>2, WordProperties DEF ProgramLastWord, PageInOrder
    <3>2. header \in Header /\ header.sum \in Contents
      BY <1>7 DEF ProgramLastWord, HeaderWritten
    <3>3. \A i \in SectionIndex : page'[i] = header.sum[i]
      BY <1>7, <2>2, <2>4, WordProperties DEF ProgramLastWord, ChecksumFits
    <3> QED BY <2>3, <3>1, <3>2, <3>3, ConsistentPage DEF TypeOK
  <2>5. PageIsGood'
    BY <1>7, <2>4 DEF ProgramLastWord, AfterStore, PageIsGood, Loadable, Sections
  <2> QED BY <1>7, <2>3, <2>5 DEF ProgramLastWord, HeaderWritten, PageInOrder,
             ChecksumFits
<1>8. ASSUME Fault PROVE IInv'
  <2>1. page' \in [PageIndex -> PageWord]
    BY <1>8, PartlyErasedPage DEF Fault, TypeOK
  <2>2. TypeOK'
    BY <1>8, <2>1 DEF Fault, TypeOK
  <2> QED BY <1>8, <2>2 DEF Fault, HeaderWritten, PageInOrder, ChecksumFits, PageIsGood
<1>9. ASSUME NEW i \in SectionIndex, NEW v \in Value, WriteSection(i, v) PROVE IInv'
  <2>1. shadow' \in Contents
    BY <1>9 DEF WriteSection, TypeOK, Contents
  <2>2. TypeOK'
    BY <1>9, <2>1 DEF WriteSection, TypeOK
  <2>3. ASSUME ~ tearing', pc \in {"compare", "erase"} PROVE shadow' = header.sum
    <3>1. v = shadow[i] /\ ~ tearing
      BY <1>9, <2>3 DEF WriteSection, Tears
    <3>2. shadow' = shadow
      BY <1>9, <3>1 DEF WriteSection, TypeOK, Contents
    <3> QED BY <2>3, <3>1, <3>2 DEF ChecksumFits
  <2>4. ASSUME ~ tearing', pc = "write", NEW j \in SectionIndex
        PROVE  (IF j < word THEN page[j] ELSE shadow'[j]) = header.sum[j]
    <3>1. (IF j < word THEN page[j] ELSE shadow[j]) = header.sum[j]
      BY <1>9, <2>4 DEF WriteSection, ChecksumFits
    <3>2. ASSUME ~ (j < word) PROVE shadow'[j] = shadow[j]
      <4>1. word <= j
        BY <3>2, WordProperties DEF TypeOK
      <4>2. i # j \/ v = shadow[i]
        BY <1>9, <2>4, <4>1 DEF WriteSection, Tears
      <4> QED BY <1>9, <4>2 DEF WriteSection, TypeOK, Contents
    <3> QED BY <3>1, <3>2
  <2>5. ChecksumFits'
    BY <1>9, <2>3, <2>4 DEF WriteSection, ChecksumFits
  <2> QED BY <1>9, <2>2, <2>5 DEF WriteSection, HeaderWritten, PageInOrder, PageIsGood,
             Loadable, Sections
<1>10. ASSUME Reset PROVE IInv'
  <2>1. page' \in [PageIndex -> PageWord]
    BY <1>10, PartlyErasedPage DEF Reset, TypeOK
  <2>2. shadow' \in Contents /\ valid' \in BOOLEAN
    BY <1>10, <2>1, LoadableContents, WordProperties DEF Reset, Contents
  <2>3. TypeOK'
    <3>1. /\ header' = None /\ pc' = "idle" /\ word' = 1 /\ tearing' = FALSE
          /\ resets' = resets + 1 /\ writes' = writes /\ faults' = faults
      BY <1>10 DEF Reset
    <3>2. 1 \in PageIndex
      BY WordProperties
    <3>3. stale' \subseteq {"new", "torn", "fault", "reset"}
      <4>1. stale \subseteq {"new", "torn", "fault", "reset"}
        BY DEF TypeOK
      <4>2. stale' \subseteq stale \cup {"reset"}
        BY <1>10 DEF Reset
      <4> QED BY <4>1, <4>2
    <3>4. resets \in Nat /\ writes \in Nat /\ faults \in Nat
      BY DEF TypeOK
    <3>5. /\ resets' \in Nat /\ writes' \in Nat /\ faults' \in Nat
          /\ header' \in Header \cup {None} /\ word' \in PageIndex
          /\ pc' \in {"idle", "sum", "compare", "erase", "write"}
      BY <3>1, <3>2, <3>4
    <3>6. tearing' \in BOOLEAN
      BY <3>1
    <3> QED BY <2>1, <2>2, <3>3, <3>5, <3>6, Zenon DEF TypeOK
  <2>4. PageIsGood'
    <3>1. stale' = {} => stale = {} /\ pc \notin {"erase", "write"}
      BY <1>10 DEF Reset
    <3>2. stale' = {} => page' = page /\ Loadable(page)
      BY <1>10, <3>1 DEF Reset, PageIsGood
    <3> QED BY <3>2 DEF PageIsGood, Loadable, Sections
  <2> QED BY <1>10, <2>3, <2>4 DEF Reset, HeaderWritten, PageInOrder, ChecksumFits
<1>11. ASSUME UNCHANGED vars PROVE IInv'
  BY <1>11 DEF vars, TypeOK, HeaderWritten, PageInOrder, ChecksumFits, PageIsGood,
     Loadable, Sections
<1> QED
  BY <1>1, <1>2, <1>3, <1>4, <1>5, <1>6, <1>7, <1>8, <1>9, <1>10, <1>11 DEF Next, Cycle

-----------------------------------------------------------------------------
(* What holds for every number of sections, writes, resets and errors *)

\* The invariant holds in every reachable state.
THEOREM Invariance == Spec => []IInv
  BY InductiveInit, InductiveStep, PTL DEF Spec

\* Shadow, header and page keep their types, and EE_Writes never leaves the page.
THEOREM TypeCorrect == Spec => []TypeOK
<1>1. IInv => TypeOK
  BY DEF IInv
<1> QED BY <1>1, Invariance, PTL

\* Between two store()s a restart finds all sections, unless the last store() was
\* torn, cut short, or there was none.
THEOREM RestartFindsSections == Spec => []IdlePageIsLoadable
<1>1. IInv => IdlePageIsLoadable
  BY DEF IInv, PageIsGood, IdlePageIsLoadable
<1> QED BY <1>1, Invariance, PTL

-----------------------------------------------------------------------------
(* store() implements DurableStore *)

\* A new device has nothing durable.
LEMMA PromiseInit == Init => Promise!Init
<1> SUFFICES ASSUME Init PROVE Promise!Init
  OBVIOUS
<1>1. ErasedPage \in [PageIndex -> PageWord] /\ ErasedPage[1] = Erased
  BY WordProperties DEF ErasedPage, PageWord
<1>2. ~ Loadable(page)
  BY <1>1, WordProperties DEF Init, Loadable
<1> QED BY <1>2 DEF Init, Promise!Init, Promise!Empty, Picture, Durable

\* Once a page no longer loads, nothing is durable: an erase is a step of the promise
\* whenever a picture was taken.
LEMMA PromiseForget ==
  ASSUME header # None, Picture # None, ~ Loadable(page'),
         UNCHANGED <<shadow, valid, header>>
  PROVE  Promise!Forget
  BY DEF Promise!Forget, Picture, Durable

\* Steps that change none of the variables of the promise.
LEMMA PromiseStutter ==
  ASSUME UNCHANGED <<shadow, valid, header, page>>
  PROVE  UNCHANGED Promise!vars
  BY DEF Promise!vars, Picture, Durable, Loadable, Sections

\* Every step of the implementation is a step of the promise, or changes nothing it
\* speaks of.
THEOREM PromiseStep == IInv /\ [Next]_vars => [Promise!Next]_(Promise!vars)
<1> SUFFICES ASSUME IInv, [Next]_vars
             PROVE  Promise!Next \/ UNCHANGED Promise!vars
  OBVIOUS
<1> USE DEF IInv, Store
<1>1. ASSUME pc \in {"compare", "erase", "write"}
      PROVE  header # None /\ Picture = header.sum /\ Picture # None
  BY <1>1, WordProperties DEF HeaderWritten, Picture
<1>2. ASSUME WriteHeader PROVE Promise!DropPicture
  <2>1. header' # None /\ header'.sum = None
    BY <1>2, WordProperties DEF WriteHeader, Header, TypeOK
  <2> QED BY <1>2, <2>1 DEF WriteHeader, Promise!DropPicture, Picture, Durable, Loadable,
             Sections
<1>3. ASSUME WriteChecksum PROVE Promise!TakePicture
  <2>1. header' # None /\ header'.sum = shadow
    BY <1>3, WordProperties DEF WriteChecksum, HeaderWritten, TypeOK, Header
  <2> QED BY <1>3, <2>1 DEF WriteChecksum, Promise!TakePicture, Picture, Durable,
             Loadable, Sections
<1>4. ASSUME SkipWriting \/ StartWriting PROVE UNCHANGED Promise!vars
  BY <1>4, PromiseStutter DEF SkipWriting, StartWriting
<1>5. ASSUME ErasePage PROVE Promise!Forget
  <2>1. ~ Loadable(page')
    BY <1>5, WordProperties DEF ErasePage, ErasedPage, Loadable
  <2> QED BY <1>1, <1>5, <2>1, PromiseForget DEF ErasePage
<1>6. ASSUME ProgramWord PROVE Promise!Forget
  <2>1. word \in PageIndex /\ word + 1 \in PageIndex /\ word + 1 # word
    BY <1>6, WordProperties DEF ProgramWord, TypeOK
  <2>2. page'[word + 1] = Erased
    BY <1>6, <2>1, WordProperties DEF ProgramWord, Programmed, PageInOrder, TypeOK
  <2>3. page' \in [PageIndex -> PageWord]
    BY InductiveStep DEF TypeOK
  <2>4. ~ Loadable(page')
    BY <2>1, <2>2, <2>3, LoadableContents
  <2> QED BY <1>1, <1>6, <2>4, PromiseForget DEF ProgramWord
<1>7. ASSUME ProgramLastWord PROVE Promise!Forget \/ Promise!Commit
  <2>1. page'[1] = header
    BY <1>7, WordProperties DEF ProgramLastWord, Programmed, PageInOrder, TypeOK
  <2>2. CASE Loadable(page')
    <3>1. Sections(page') = header.sum
      BY <2>1, <2>2 DEF Loadable
    <3>2. Durable' = Picture
      BY <1>1, <1>7, <2>2, <3>1 DEF ProgramLastWord, Durable, Sections, Loadable
    <3> QED BY <1>1, <1>7, <3>2 DEF ProgramLastWord, Promise!Commit, Picture
  <2>3. CASE ~ Loadable(page')
    BY <1>1, <1>7, <2>3, PromiseForget DEF ProgramLastWord
  <2> QED BY <2>2, <2>3
<1>8. ASSUME Fault PROVE Promise!Forget \/ UNCHANGED Promise!vars
  <2>1. page' = page \/ ~ Loadable(page')
    BY <1>8, PartlyErasedPage DEF Fault, TypeOK
  <2> QED BY <1>1, <1>8, <2>1, PromiseForget, PromiseStutter DEF Fault
<1>9. ASSUME NEW i \in SectionIndex, NEW v \in Value, WriteSection(i, v)
      PROVE  Promise!Write(i, v)
  BY <1>9 DEF WriteSection, Promise!Write, Picture, Durable, Loadable, Sections
<1>10. ASSUME Reset PROVE Promise!Restart
  <2>1. page' = page \/ (pc = "erase" /\ ~ Loadable(page'))
    BY <1>10, PartlyErasedPage DEF Reset, TypeOK
  <2>2. Durable' \in {Durable} \cup (IF Picture # None THEN {None} ELSE {})
    <3>1. CASE page' = page
      BY <3>1 DEF Durable, Loadable, Sections
    <3>2. CASE pc = "erase" /\ ~ Loadable(page')
      <4>1. Durable' = None
        BY <3>2 DEF Durable
      <4> QED BY <1>1, <3>2, <4>1
    <3> QED BY <2>1, <3>1, <3>2
  <2>3. page' \in [PageIndex -> PageWord]
    BY InductiveStep DEF TypeOK
  <2>4. CASE Loadable(page')
    <3>1. Durable' = Sections(page') /\ Durable' # None
      BY <2>3, <2>4, SectionsOfPage DEF Durable
    <3> QED BY <1>10, <2>2, <2>4, <3>1 DEF Reset, Promise!Restart, Picture
  <2>5. CASE ~ Loadable(page')
    <3>1. Durable' = None
      BY <2>5 DEF Durable
    <3> QED BY <1>10, <2>2, <2>5, <3>1 DEF Reset, Promise!Restart, Promise!Empty, Picture
  <2> QED BY <2>4, <2>5
<1>11. ASSUME UNCHANGED vars PROVE UNCHANGED Promise!vars
  BY <1>11, PromiseStutter DEF vars
<1> QED
  BY <1>2, <1>3, <1>4, <1>5, <1>6, <1>7, <1>8, <1>9, <1>10, <1>11
     DEF Next, Cycle, Promise!Next

\* store() and load() keep the promise of DurableStore: what a restart finds is always
\* one consistent picture of all sections, or nothing.
THEOREM PromiseKept == Spec => KeepsPromise
  BY PromiseInit, PromiseStep, Invariance, PTL DEF Spec, KeepsPromise, Promise!Spec
=============================================================================
