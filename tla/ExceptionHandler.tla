--------------------------- MODULE ExceptionHandler ---------------------------
(***************************************************************************)
(* midware::ExceptionHandler (excp_handler.cpp): exceptions are collected  *)
(* in a list without duplicates, and after each one the list is written to *)
(* the section EXCP of the nonvolatile data.  The flash behind the section *)
(* is what module DurableStore promises of it; NvStore shows that the code *)
(* of NonvolatileDataHandler keeps the promise.                            *)
(*                                                                         *)
(* Three contexts raise exceptions.  The main thread (startup, then        *)
(* console) has the higher priority: what it does is one step for the      *)
(* thread Cyc100ms, which only runs while the main thread waits or is      *)
(* suspended, and which also runs store().  Fault handlers run on behalf   *)
(* of no thread and never return; what they interrupt is never resumed.    *)
(* No lock protects the list: Cyc100ms is taken apart into the steps       *)
(* between which the main thread can change it.  A critical exception      *)
(* stops the refresh of the watchdog first and suspends its thread last.   *)
(* In between it is printed, which may wait for the mutex of the trace,    *)
(* and let Cyc100ms run; Cyc100ms itself raises none.                      *)
(***************************************************************************)
EXTENDS Integers, Sequences, FiniteSets

CONSTANTS
  Exception,     \* the exceptions, told apart as operator== does
  ReadFailed,    \* EXCP_HANDLER_READING_DATA_FLASH_FAILED
  MaxExceptions, \* m_u_maximum_number_of_exceptions
  SectionBytes,  \* size of the section EXCP
  Unwritten,     \* a blank section
  Nothing,       \* no picture in flash
  MaxRaises,     \* bound: exceptions and console commands
  MaxRestarts    \* bound: resets

ASSUME ExcpAssumption ==
  /\ ReadFailed \in Exception
  /\ MaxExceptions \in Nat \ {0} /\ SectionBytes \in Nat
  /\ MaxRaises \in Nat /\ MaxRestarts \in Nat

VARIABLES
  list,    \* m_ao_stored_exceptions
  phase,   \* "boot", "reading" or "up": how far startup of the handler is
  reading, \* stored exceptions read_from_memory_version_100 has still to parse
  cyc,     \* where Cyc100ms is in handle_exception, and its locals: the iterator
           \* "at", the "buffer" of store_into_data_flash, and whether the list was
           \* "disturbed" since the iterator was taken
  halted,  \* the main thread is suspended
  raising, \* the critical exception the main thread prints at the moment, if any
  frozen,  \* a fault handler has taken the processor
  pending, \* Watchdog::m_bo_trigger_reset
  critical, \* history: the critical exceptions that were handled completely, and
            \* whether the section has held them since
  secured, \* history: progress of the last store() begun after that
  unsaved, \* history: the list was cleared, or changed before it had a section, or
           \* overtaken by an older buffer, and was not written to the section since
  raced,   \* history: Cyc100ms added an exception although the list had changed
           \* after it had looked for it
  ram, valid, picture, durable, \* the nonvolatile data
  raises, restarts

nvVars    == <<ram, valid, picture, durable>>
mainVars  == <<phase, reading, halted, raising>>
vars ==
  <<list, cyc, frozen, pending, critical, secured, unsaved, raced, raises, restarts,
    nvVars, mainVars>>

Entry == [id : Exception, count : Nat]

NV == INSTANCE DurableStore WITH Section <- {"EXCP"}, Value <- Seq(Entry),
                                 Blank <- Unwritten

-----------------------------------------------------------------------------
(* The list *)

Known(l, e) == \E i \in DOMAIN l : l[i].id = e

At(l, e) == CHOOSE i \in DOMAIN l : l[i].id = e

Ids(l) == {l[i].id : i \in DOMAIN l}

Distinct(l) == \A i, j \in DOMAIN l : l[i].id = l[j].id => i = j

\* bug: a full list is not shortened
BugStored(l, x) == IF Known(l, x.id) THEN l ELSE Append(l, x)

\* bug: a known exception is added again with its count
BugStoredAgain(l, x) ==
  IF \E i \in DOMAIN l : l[i] = x THEN l
  ELSE Append(IF Len(l) = MaxExceptions THEN Tail(l) ELSE l, x)

\* store_exception_in_list: a new exception replaces the oldest of a full list
Stored(l, x) ==
  IF Known(l, x.id) THEN l
  ELSE Append(IF Len(l) = MaxExceptions THEN Tail(l) ELSE l, x)

New(e) == [id |-> e, count |-> 0]

\* bug: the count runs backwards
BugCounted(l, i) == [l EXCEPT ![i].count = @ - 1]

Counted(l, i) == [l EXCEPT ![i].count = @ + 1]

Recorded(l, e) == LET m == Stored(l, New(e)) IN Counted(m, At(m, e))

\* store_into_buffer: 32 bytes of header and 64 bytes for each exception
Fits(l) == 32 + 64 * Len(l) <= SectionBytes

\* is the section known to the handler (set_nonvolatile_data_handler)
Attached == phase # "boot"

\* bug: a list that fills the section to its end does not fit
BugSectionAfter(l, attached) ==
  IF attached /\ 32 + 64 * Len(l) < SectionBytes THEN l ELSE ram["EXCP"]

\* store_into_data_flash: the section stays as it is if the list does not fit
SectionAfter(l, attached) == IF attached /\ Fits(l) THEN l ELSE ram["EXCP"]

PersistIf(l, attached) == NV!Write("EXCP", SectionAfter(l, attached))

Persist(l) == PersistIf(l, Attached)

\* is there still something in the list that is not in the section
StillUnsaved(l) == unsaved /\ ~ (Attached /\ Fits(l))

-----------------------------------------------------------------------------
(* The main thread *)

MainRuns == ~ halted /\ ~ frozen /\ raising = {}

\* what is known of a critical exception that has been handled
Handled(e, by, l) == [id |-> e, by |-> by, written |-> Attached /\ Fits(l)]

Budget == raises < MaxRaises /\ raises' = raises + 1

\* an exception of startup while the handler has no section yet: it stays in the list
BootRaises(e, isCritical) ==
  /\ phase = "boot" /\ MainRuns /\ Budget
  /\ list' = Recorded(list, e)
  /\ unsaved' = TRUE
  /\ pending' = (pending \/ isCritical)
  /\ halted' = isCritical
  /\ critical' = IF isCritical THEN critical \cup {Handled(e, "main", list')}
                 ELSE critical
  /\ UNCHANGED <<phase, reading, raising, cyc, frozen, secured, raced, restarts, nvVars>>

\* init() at startup: read the section, or report that it cannot be read
BootReads ==
  /\ phase = "boot" /\ MainRuns
  /\ IF ram["EXCP"] = Unwritten
     THEN /\ list' = Recorded(list, ReadFailed)
          /\ PersistIf(list', TRUE)
          /\ unsaved' = (unsaved /\ ~ Fits(list'))
          /\ phase' = "up" /\ reading' = << >>
     ELSE /\ phase' = "reading" /\ reading' = ram["EXCP"]
          /\ UNCHANGED <<list, unsaved, nvVars>>
  /\ UNCHANGED <<cyc, halted, raising, frozen, pending, critical, secured, raced,
                 raises, restarts>>

\* the iterator cyc holds may dangle once the list has changed its length
Disturbed(c, l) == IF Len(l) # Len(list) \/ Ids(l) # Ids(list)
                   THEN [c EXCEPT !.disturbed = TRUE] ELSE c

\* read_from_memory_version_100 adds the stored exceptions, with their counts
ReadsEntry ==
  /\ phase = "reading" /\ MainRuns /\ reading # << >>
  /\ list' = Stored(list, Head(reading))
  /\ reading' = Tail(reading)
  /\ cyc' = Disturbed(cyc, list')
  /\ UNCHANGED <<phase, halted, raising, frozen, pending, critical, secured, unsaved,
                 raced, raises, restarts, nvVars>>

\* bug: the loop over the stored exceptions ends one too early
BugReadsAll ==
  /\ phase = "reading" /\ MainRuns /\ Len(reading) <= 1
  /\ phase' = "up"
  /\ UNCHANGED <<list, reading, cyc, halted, raising, frozen, pending, critical,
                 secured, unsaved, raced, raises, restarts, nvVars>>

ReadsAll ==
  /\ phase = "reading" /\ MainRuns /\ reading = << >>
  /\ phase' = "up"
  /\ UNCHANGED <<list, reading, cyc, halted, raising, frozen, pending, critical,
                 secured, unsaved, raced, raises, restarts, nvVars>>

\* handle_exception, for an exception that is not critical: nothing changes before it is
\* printed, and nothing of lower priority interrupts the rest
MainHandles(e) ==
  /\ phase = "up" /\ MainRuns /\ Budget
  /\ list' = Recorded(list, e)
  /\ cyc' = Disturbed(cyc, list')
  /\ Persist(list')
  /\ unsaved' = StillUnsaved(list')
  /\ UNCHANGED <<mainVars, frozen, pending, critical, secured, raced, restarts>>

\* a critical one stops the refresh of the watchdog, and is printed
MainTriggers(e) ==
  /\ phase = "up" /\ MainRuns /\ Budget
  /\ pending' = TRUE
  /\ raising' = {e}
  /\ UNCHANGED <<list, phase, reading, halted, cyc, frozen, critical, secured, unsaved,
                 raced, restarts, nvVars>>

\* and is recorded afterwards
MainRecords(e) ==
  /\ phase = "up" /\ ~ halted /\ ~ frozen /\ e \in raising
  /\ list' = Recorded(list, e)
  /\ cyc' = Disturbed(cyc, list')
  /\ Persist(list')
  /\ unsaved' = StillUnsaved(list')
  /\ halted' = TRUE /\ raising' = {}
  /\ critical' = critical \cup {Handled(e, "main", list')}
  /\ secured' = "no"
  /\ UNCHANGED <<phase, reading, frozen, pending, raced, raises, restarts>>

\* the console commands clear, write_flash and read_flash
Clear ==
  /\ phase = "up" /\ MainRuns /\ Budget
  /\ list' = << >> /\ unsaved' = TRUE /\ raced' = FALSE
  /\ cyc' = Disturbed(cyc, list')
  /\ UNCHANGED <<mainVars, frozen, pending, critical, secured, restarts, nvVars>>

WriteFlash ==
  /\ phase = "up" /\ MainRuns /\ Budget
  /\ Persist(list)
  /\ unsaved' = StillUnsaved(list)
  /\ UNCHANGED <<list, cyc, mainVars, frozen, pending, critical, secured, raced,
                 restarts>>

ReadFlash ==
  /\ phase = "up" /\ MainRuns /\ Budget
  /\ ram["EXCP"] # Unwritten
  /\ phase' = "reading" /\ reading' = ram["EXCP"]
  /\ UNCHANGED <<list, cyc, halted, raising, frozen, pending, critical, secured,
                 unsaved, raced, restarts, nvVars>>

-----------------------------------------------------------------------------
(* Cyc100ms in handle_exception, step by step *)

Idle == [pc |-> "idle", id |-> ReadFailed, at |-> 0, disturbed |-> FALSE,
         buffer |-> << >>]

CycRuns == ~ frozen /\ (phase = "up" \/ halted)

CycAt(pc) == CycRuns /\ cyc.pc = pc

CycGoes(from, to) == CycAt(from) /\ cyc' = [cyc EXCEPT !.pc = to]

CycLeaves == UNCHANGED <<mainVars, frozen, pending, critical, secured, restarts>>

CycRaises(e) ==
  /\ CycAt("idle") /\ picture = Nothing /\ Budget
  /\ cyc' = [Idle EXCEPT !.pc = "search", !.id = e]
  /\ UNCHANGED <<list, unsaved, raced, nvVars>> /\ CycLeaves

\* std::find
CycFinds ==
  /\ CycAt("search") /\ Known(list, cyc.id)
  /\ cyc' = [cyc EXCEPT !.pc = "count", !.at = At(list, cyc.id), !.disturbed = FALSE]
  /\ UNCHANGED <<list, unsaved, raced, raises, nvVars>> /\ CycLeaves

CycFindsNot ==
  /\ CycAt("search") /\ ~ Known(list, cyc.id)
  /\ cyc' = [cyc EXCEPT !.pc = "shorten", !.disturbed = FALSE]
  /\ UNCHANGED <<list, unsaved, raced, raises, nvVars>> /\ CycLeaves

\* "if the buffer is full, delete the oldest exception"
CycShortens ==
  /\ CycGoes("shorten", "append")
  /\ list' = IF Len(list) = MaxExceptions THEN Tail(list) ELSE list
  /\ UNCHANGED <<unsaved, raced, raises, nvVars>> /\ CycLeaves

CycAppends ==
  /\ CycAt("append")
  /\ list' = Append(list, New(cyc.id))
  /\ cyc' = [cyc EXCEPT !.pc = "count", !.at = Len(list'), !.disturbed = FALSE]
  /\ raced' = (raced \/ cyc.disturbed)
  /\ UNCHANGED <<unsaved, raises, nvVars>> /\ CycLeaves

\* Through a dangling iterator the count goes to whatever is there now, or is lost.
CycCounts ==
  /\ CycGoes("count", "serialise")
  /\ \/ cyc.at \in DOMAIN list /\ list' = Counted(list, cyc.at)
     \/ cyc.disturbed /\ UNCHANGED list
  /\ UNCHANGED <<unsaved, raced, raises, nvVars>> /\ CycLeaves

\* store_into_buffer
CycSerialises ==
  /\ CycAt("serialise")
  /\ cyc' = IF Attached /\ Fits(list)
            THEN [cyc EXCEPT !.pc = "write", !.buffer = list]
            ELSE Idle
  /\ UNCHANGED <<list, unsaved, raced, raises, nvVars>> /\ CycLeaves

\* write_section, with the buffer as it was serialised
CycWrites ==
  /\ CycAt("write") /\ cyc' = Idle
  /\ NV!Write("EXCP", cyc.buffer)
  /\ unsaved' = (list # cyc.buffer)
  /\ critical' = {[x EXCEPT !.written = @ /\ Known(cyc.buffer, x.id)] : x \in critical}
  /\ UNCHANGED <<list, mainVars, frozen, pending, secured, raced, raises, restarts>>

-----------------------------------------------------------------------------
(* Fault handlers *)

FaultHandles(e) ==
  /\ ~ frozen /\ Budget
  /\ list' = Recorded(list, e)
  /\ Persist(list')
  /\ unsaved' = StillUnsaved(list')
  /\ frozen' = TRUE /\ pending' = TRUE
  /\ critical' = critical \cup {Handled(e, "fault", list')}
  /\ UNCHANGED <<cyc, mainVars, secured, raced, restarts>>

-----------------------------------------------------------------------------
(* store() on Cyc100ms, as DurableStore describes it *)

Storing == CycAt("idle") /\ UNCHANGED <<list, cyc, mainVars, frozen, pending, critical,
                                        unsaved, raced, raises, restarts>>

StoreBegins ==
  /\ Storing /\ picture = Nothing /\ NV!TakePicture
  /\ secured' = IF critical # {} THEN "begun" ELSE secured

\* the page is only touched if it holds something else
StoreErases ==
  /\ Storing /\ durable # picture /\ NV!Forget
  /\ UNCHANGED secured

StoreCommits ==
  /\ Storing /\ NV!Commit
  /\ secured' = IF secured = "begun" THEN "done" ELSE secured

StoreEnds ==
  /\ Storing /\ picture # Nothing /\ NV!DropPicture
  /\ secured' = IF secured # "no" /\ durable = picture THEN "done" ELSE "no"

-----------------------------------------------------------------------------
(* Resets *)

Restart ==
  /\ restarts < MaxRestarts /\ restarts' = restarts + 1
  /\ NV!Restart
  /\ list' = << >> /\ phase' = "boot" /\ reading' = << >>
  /\ cyc' = Idle /\ halted' = FALSE /\ raising' = {} /\ frozen' = FALSE /\ pending' = FALSE
  /\ critical' = {} /\ secured' = "no" /\ unsaved' = FALSE /\ raced' = FALSE
  /\ UNCHANGED raises

PowerFailure == ~ pending /\ Restart

\* the watchdog is not refreshed any more: when it expires is left open
WatchdogReset == pending /\ Restart

-----------------------------------------------------------------------------
Init ==
  /\ NV!Init
  /\ list = << >> /\ phase = "boot" /\ reading = << >>
  /\ cyc = Idle /\ halted = FALSE /\ raising = {} /\ frozen = FALSE /\ pending = FALSE
  /\ critical = {} /\ secured = "no" /\ unsaved = FALSE /\ raced = FALSE
  /\ raises = 0 /\ restarts = 0

Next ==
  \/ \E e \in Exception, c \in BOOLEAN : BootRaises(e, c)
  \/ BootReads
  \/ ReadsEntry
  \/ ReadsAll
  \/ \E e \in Exception : MainHandles(e)
  \/ \E e \in Exception : MainTriggers(e)
  \/ \E e \in Exception : MainRecords(e)
  \/ Clear
  \/ WriteFlash
  \/ ReadFlash
  \/ \E e \in Exception : CycRaises(e)
  \/ CycFinds
  \/ CycFindsNot
  \/ CycShortens
  \/ CycAppends
  \/ CycCounts
  \/ CycSerialises
  \/ CycWrites
  \/ \E e \in Exception : FaultHandles(e)
  \/ StoreBegins
  \/ StoreErases
  \/ StoreCommits
  \/ StoreEnds
  \/ PowerFailure
  \/ WatchdogReset

Spec == Init /\ [][Next]_vars

-----------------------------------------------------------------------------
(* Properties *)

Quiet == phase = "up" /\ cyc.pc = "idle"

TypeOK ==
  /\ list \in Seq(Entry)
  /\ phase \in {"boot", "reading", "up"} /\ reading \in Seq(Entry)
  /\ cyc \in [pc : {"idle", "search", "shorten", "append", "count", "serialise", "write"},
              id : Exception, at : Nat, disturbed : BOOLEAN, buffer : Seq(Entry)]
  /\ raising \subseteq Exception
  /\ halted \in BOOLEAN /\ frozen \in BOOLEAN /\ pending \in BOOLEAN
  /\ unsaved \in BOOLEAN /\ raced \in BOOLEAN /\ valid \in BOOLEAN
  /\ critical \subseteq [id : Exception, by : {"main", "fault"}, written : BOOLEAN]
  /\ secured \in {"no", "begun", "done"}
  /\ raises \in Nat /\ restarts \in Nat

\* However the contexts interleave, the list does not outgrow its bound, unless
\* Cyc100ms added an exception behind the back of the main thread.
ListIsBounded == ~ raced => Len(list) <= MaxExceptions

\* Nor is an exception listed twice, with the same exemption.
NoDuplicates == ~ raced => Distinct(list)

\* Between two exceptions the section holds the list as it is, unless the list has
\* outgrown the section, or was cleared, changed by startup or overtaken by an older
\* buffer of Cyc100ms, and not written since, or the section holds an exception twice.
SectionIsCurrent ==
  Quiet /\ Fits(list) /\ ~ unsaved =>
    \/ ram["EXCP"] = list
    \/ ram["EXCP"] # Unwritten /\ ~ Distinct(ram["EXCP"])

\* Once the section has been read, every exception it held is listed, if the list
\* has room for them beside those it held already, with the exemption from above.
RestartRestores ==
  [][ /\ phase = "reading" /\ phase' = "up" /\ ~ raced
      /\ Cardinality(Ids(list) \cup Ids(ram["EXCP"])) <= MaxExceptions
      =>
        \A i \in DOMAIN ram["EXCP"] : Known(list', ram["EXCP"][i].id) ]_vars

\* A critical exception of the main thread is in flash after a reset, if the list still
\* fitted, nothing Cyc100ms wrote afterwards had lost it again, and the last store() begun
\* since came to its end without an error.
MainCriticalSurvives ==
  [][ restarts' # restarts /\ secured = "done" /\ picture = Nothing =>
        \A x \in critical : x.by = "main" /\ x.written =>
          durable' # Nothing /\ Known(durable'["EXCP"], x.id) ]_vars

(* What a comment of the code says, and the code does not do *)

\* "Afterwards, when all information is safely stored in EEPROM, process the exception": a
\* critical exception that was handled is in flash, if the list fitted the section.
SafelyStored ==
  \A x \in critical : x.written => durable # Nothing /\ Known(durable["EXCP"], x.id)

=============================================================================
