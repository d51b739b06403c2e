----------------------------- MODULE DurableStore -----------------------------
(***************************************************************************)
(* What NonvolatileDataHandler promises to the modules that keep data in   *)
(* it: sections in RAM that are written at once, and a background task     *)
(* that, from time to time, makes one consistent picture of all sections   *)
(* durable.  A device that restarts finds the last durable picture as a    *)
(* whole, or nothing at all; never a mix of two pictures.                  *)
(*                                                                         *)
(* The promise includes what it does not cover: while a new picture is on  *)
(* its way to flash the old one is already gone, so that a restart may     *)
(* find nothing.                                                           *)
(***************************************************************************)
EXTENDS Naturals

CONSTANTS Section, Value,
          Blank,   \* what a section holds that was never written
          Nothing  \* no picture

VARIABLES ram,     \* what the running program reads and writes
          valid,   \* section_data_valid: ram was restored from flash
          picture, \* the picture being made durable
          durable  \* what a restart would find

vars == <<ram, valid, picture, durable>>

Contents == [Section -> Value]
Empty    == [s \in Section |-> Blank]

TypeOK ==
  /\ ram \in Contents /\ valid \in BOOLEAN
  /\ picture \in Contents \cup {Nothing}
  /\ durable \in Contents \cup {Nothing}

Init ==
  /\ ram = Empty /\ valid = FALSE
  /\ picture = Nothing /\ durable = Nothing

Write(s, v) ==
  /\ ram' = [ram EXCEPT ![s] = v]
  /\ UNCHANGED <<valid, picture, durable>>

TakePicture ==
  /\ picture' = ram
  /\ UNCHANGED <<ram, valid, durable>>

DropPicture ==
  /\ picture' = Nothing
  /\ UNCHANGED <<ram, valid, durable>>

\* the page is erased to make room for the picture
Forget ==
  /\ picture # Nothing
  /\ durable' = Nothing
  /\ UNCHANGED <<ram, valid, picture>>

\* the picture is complete on the page
Commit ==
  /\ picture # Nothing
  /\ durable' = picture
  /\ UNCHANGED <<ram, valid, picture>>

\* a restart, which may cut an erase short
Restart ==
  /\ durable' \in {durable} \cup (IF picture # Nothing THEN {Nothing} ELSE {})
  /\ ram' = IF durable' = Nothing THEN Empty ELSE durable'
  /\ valid' = (durable' # Nothing)
  /\ picture' = Nothing

Next ==
  \/ \E s \in Section, v \in Value : Write(s, v)
  \/ TakePicture
  \/ DropPicture
  \/ Forget
  \/ Commit
  \/ Restart

Spec == Init /\ [][Next]_vars
=============================================================================
