------------------------------- MODULE NvStore -------------------------------
(***************************************************************************)
(* NonvolatileDataHandler::store() step by step, as the thread Cyc100ms    *)
(* runs it once per second, together with what happens meanwhile: the      *)
(* console and startup thread has the higher priority and writes sections  *)
(* into the shadow between any two steps (no lock protects it), the flash  *)
(* controller reports errors, and the device is reset or loses power.      *)
(*                                                                         *)
(* The sections and their places are those load() has established (module  *)
(* NvSections); each section is one word of the shadow.  Word 1 of the     *)
(* shadow stands for the header and the section table: store() fills it    *)
(* with zeros, then with magic number, version, sizes and table, and last  *)
(* with the checksum.  The checksum is ideal: it tells any two contents    *)
(* apart, so that it is represented by the contents it was computed from.  *)
(***************************************************************************)
EXTENDS Eeprom, Sequences

CONSTANTS Value,     \* contents of a section
          Blank,     \* contents of a section load() had to add
          None,      \* no header, or no checksum
          MaxWrites, \* bound: calls of write_section
          MaxResets, \* bound: resets and power failures
          MaxFaults  \* bound: errors of the flash controller

ASSUME StoreAssumption ==
  /\ Blank \in Value
  /\ Erased \notin Value /\ None \notin Value /\ None # Erased
  /\ PageWords > 1
  /\ MaxWrites \in Nat /\ MaxResets \in Nat /\ MaxFaults \in Nat

SectionIndex == 2 .. PageWords
Contents     == [SectionIndex -> Value]

Header == [valid : BOOLEAN, sum : Contents \cup {None}]

\* what a word of the page can hold
PageWord == Header \cup Value \cup {Erased}

ASSUME HeaderAssumption ==
  /\ Erased \notin Header /\ None \notin Header
  /\ None \notin [SectionIndex -> PageWord]

VARIABLES
  shadow,  \* the sections in m_au8_data_shadow
  valid,   \* m_bo_is_valid of the sections
  header,  \* header and table in m_au8_data_shadow
  page,    \* the flash page
  pc,      \* where the running store() is
  word,    \* the next word EE_Writes programs
  tearing, \* history: the shadow changed behind the checksum of this store()
  stale,   \* history: why the page may hold no picture
  writes, resets, faults

vars == <<shadow, valid, header, page, pc, word, tearing, stale,
          writes, resets, faults>>

-----------------------------------------------------------------------------
(* try_to_load: header, checksum and sections of a page are consistent *)

Sections(p) == [i \in SectionIndex |-> p[i]]

\* bug: the checksum is not verified
BugLoadable(p) == p[1] \in Header /\ \A i \in SectionIndex : p[i] # Erased

Loadable(p) == p[1] \in Header /\ p[1].sum = Sections(p)

\* the words store() programs: header and sections of the shadow
ShadowWord(i) == IF i = 1 THEN header ELSE shadow[i]

-----------------------------------------------------------------------------
(* store() *)

Store(from, to) == pc = from /\ pc' = to

\* header and table area are cleared and written again, all but the checksum
WriteHeader ==
  /\ Store("idle", "sum")
  /\ header' = [valid |-> valid, sum |-> None]
  /\ UNCHANGED <<shadow, valid, page, word, tearing, stale, writes, resets,
                 faults>>

\* the checksum of everything behind it
WriteChecksum ==
  /\ Store("sum", "compare")
  /\ header' = [header EXCEPT !.sum = shadow]
  /\ tearing' = FALSE
  /\ UNCHANGED <<shadow, valid, page, word, stale, writes, resets, faults>>

\* bug: header and table are not compared
BugSectionsAreCurrent == Reads([page EXCEPT ![1] = header], PageWords,
                               [i \in PageIndex |-> ShadowWord(i)])

\* bug: the comparison is left out
BugNeverCurrent == FALSE

\* EE_Reads and memcmp: the page is left alone if it holds the same bytes already
PageIsCurrent == Reads(page, PageWords, [i \in PageIndex |-> ShadowWord(i)])

\* what is to be said of the page after a store() that ran to its end
AfterStore == IF tearing THEN {"torn"} ELSE {}

SkipWriting ==
  /\ Store("compare", "idle")
  /\ PageIsCurrent
  /\ stale' = AfterStore
  /\ UNCHANGED <<shadow, valid, header, page, word, tearing, writes, resets, faults>>

StartWriting ==
  /\ Store("compare", "erase")
  /\ ~ PageIsCurrent
  /\ UNCHANGED <<shadow, valid, header, page, word, tearing, stale, writes, resets,
                 faults>>

\* bug: the words are counted from 0
BugErasePage ==
  /\ Store("erase", "write")
  /\ page' = ErasedPage /\ word' = 0
  /\ UNCHANGED <<shadow, valid, header, tearing, stale, writes, resets, faults>>

ErasePage ==
  /\ Store("erase", "write")
  /\ page' = ErasedPage /\ word' = 1
  /\ UNCHANGED <<shadow, valid, header, tearing, stale, writes, resets, faults>>

\* one iteration of EE_Writes, which reads the shadow as it is by now
ProgramWord ==
  /\ pc = "write" /\ word < PageWords
  /\ page' = Programmed(page, word, ShadowWord(word))
  /\ word' = word + 1
  /\ UNCHANGED <<shadow, valid, header, pc, tearing, stale, writes, resets, faults>>

\* bug: the loop ends one word early
BugProgramLastWord ==
  /\ Store("write", "idle")
  /\ word = PageWords
  /\ stale' = AfterStore
  /\ UNCHANGED <<shadow, valid, header, page, word, tearing, writes, resets, faults>>

ProgramLastWord ==
  /\ Store("write", "idle")
  /\ word = PageWords
  /\ page' = Programmed(page, word, ShadowWord(word))
  /\ stale' = AfterStore
  /\ UNCHANGED <<shadow, valid, header, word, tearing, writes, resets, faults>>

\* an error of the flash controller ends store() with an exception
Fault ==
  /\ faults < MaxFaults /\ faults' = faults + 1
  /\ pc \in {"erase", "write"} /\ pc' = "idle"
  /\ page' \in IF pc = "erase" THEN PartlyErased(page) ELSE {page}
  /\ stale' = stale \cup {"fault"}
  /\ UNCHANGED <<shadow, valid, header, word, tearing, writes, resets>>

-----------------------------------------------------------------------------
(* The other threads, and the hardware *)

\* is section i still to be programmed with the checksum already taken
Tears(i) ==
  \/ pc \in {"compare", "erase"}
  \/ pc = "write" /\ word <= i

WriteSection(i, v) ==
  /\ writes < MaxWrites /\ writes' = writes + 1
  /\ shadow' = [shadow EXCEPT ![i] = v]
  /\ tearing' = (tearing \/ (Tears(i) /\ v # shadow[i]))
  /\ UNCHANGED <<valid, header, page, pc, word, stale, resets, faults>>

\* Reset by power failure, watchdog or software.  The device comes up again:
\* load() restores the page, or adds blank sections if there is nothing to load.
Reset ==
  /\ resets < MaxResets /\ resets' = resets + 1
  /\ page' \in IF pc = "erase" THEN PartlyErased(page) ELSE {page}
  /\ IF Loadable(page')
     THEN shadow' = Sections(page') /\ valid' = TRUE
     ELSE shadow' = [i \in SectionIndex |-> Blank] /\ valid' = FALSE
  /\ header' = None /\ pc' = "idle" /\ word' = 1 /\ tearing' = FALSE
  /\ stale' = stale \cup (IF pc \in {"erase", "write"} THEN {"reset"} ELSE {})
  /\ UNCHANGED <<writes, faults>>

-----------------------------------------------------------------------------
Init ==
  /\ shadow = [i \in SectionIndex |-> Blank] /\ valid = FALSE
  /\ header = None /\ page = ErasedPage
  /\ pc = "idle" /\ word = 1
  /\ tearing = FALSE /\ stale = {"new"}
  /\ writes = 0 /\ resets = 0 /\ faults = 0

Cycle ==
  \/ WriteHeader
  \/ WriteChecksum
  \/ SkipWriting
  \/ StartWriting
  \/ ErasePage
  \/ ProgramWord
  \/ ProgramLastWord

Next ==
  \/ Cycle
  \/ Fault
  \/ \E i \in SectionIndex, v \in Value : WriteSection(i, v)
  \/ Reset

Spec == Init /\ [][Next]_vars

\* the scheduler lets Cyc100ms finish a store() it has begun and begin the next one
FairSpec == Spec /\ WF_vars(Cycle)

-----------------------------------------------------------------------------
(* Properties *)

TypeOK ==
  /\ shadow \in Contents /\ valid \in BOOLEAN
  /\ header \in Header \cup {None}
  /\ page \in [PageIndex -> PageWord]
  /\ pc \in {"idle", "sum", "compare", "erase", "write"}
  /\ word \in PageIndex
  /\ tearing \in BOOLEAN /\ stale \subseteq {"new", "torn", "fault", "reset"}
  /\ writes \in Nat /\ resets \in Nat /\ faults \in Nat

\* Between two store()s a restart finds all sections, unless there was none yet,
\* or the last one was torn by write_section, or one was cut short by a reset or
\* an error of the flash controller and none has succeeded since.
IdlePageIsLoadable == pc = "idle" /\ stale = {} => Loadable(page)

\* the contents the checksum in the shadow stands for, and what a restart would find
Picture == IF header = None THEN None ELSE header.sum
Durable == IF Loadable(page) THEN Sections(page) ELSE None

\* store() and load() keep the promise of DurableStore.
Promise == INSTANCE DurableStore WITH
  Section <- SectionIndex,
  Nothing <- None,
  ram     <- shadow,
  picture <- Picture,
  durable <- Durable

KeepsPromise == Promise!Spec

\* Once no more sections are written and the hardware leaves it alone, the page
\* holds what the shadow holds, whatever happened before.
EventuallyDurable == <>[](Loadable(page) /\ Sections(page) = shadow)

\* The page is not worn out: once nothing changes it is no longer erased.
EventuallyQuiet == <>[](pc \notin {"erase", "write"})

=============================================================================
