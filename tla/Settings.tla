-------------------------------- MODULE Settings --------------------------------
(***************************************************************************)
(* The settings of the device: the dataset (dataset.cpp) with the values   *)
(* and curves of the converters, and the end-of-line data (eol.cpp), which *)
(* are entered once.  Both live in objects in RAM and in a section of      *)
(* NonvolatileDataHandler, of which DurableStore says what a restart finds *)
(* again; the firmware that starts may be another one than before.         *)
(*                                                                         *)
(* What a dataset consists of is told by the firmware it comes from, whose *)
(* number is its version; 0 is no firmware, the origin of a blank section  *)
(* and of the values of an object that nothing was assigned to yet.        *)
(***************************************************************************)
EXTENDS Integers

CONSTANTS
  Firmware,   \* the versions of the firmware, each with a default dataset
  CurveBytes, \* the size of the curves of each, as to_bytes() makes them
  Licence,    \* what the end-of-line data allow
  Serial,     \* serial numbers and times that can be entered
  NoSerial,   \* "---"
  Blank,      \* a section that was never written
  Nothing     \* no picture

SectionSize == 300
CurveRoom   == 100 \* for the length and the points of a curve

\* what is kept in the sections
DatasetSection == [version : Nat, values : Nat, output : Nat, input : Nat]
EolSection     == [licence : SUBSET Licence, serial : Serial]

ASSUME SettingsAssumption ==
  /\ Firmware \subseteq Nat \ {0} /\ Firmware # {}
  /\ CurveBytes \in [Firmware \cup {0} -> Nat] /\ CurveBytes[0] = 0
  /\ NoSerial \notin Serial

\* what the sections may hold is told from what they never held
ASSUME BlankAssumption ==
  /\ Blank \notin DatasetSection \cup EolSection
  /\ Nothing \notin [{"DATASET", "EOL"} -> {Blank} \cup DatasetSection \cup EolSection]

\* no firmware has a default curve of more points than fit: nine and ten in this one
ASSUME CurvesFit == \A f \in Firmware : CurveBytes[f] + 4 < CurveRoom

VARIABLES
  ram, valid, picture, durable, \* NonvolatileDataHandler
  firmware, \* the firmware that runs
  started,  \* has startup_from_reset come past the settings?
  dataset,  \* m_o_dataset
  eol       \* m_o_eol_data

nvVars == <<ram, valid, picture, durable>>
vars == <<nvVars, firmware, started, dataset, eol>>

NV == INSTANCE DurableStore WITH Section <- {"DATASET", "EOL"}, Value <- {}

-----------------------------------------------------------------------------
(* Dataset *)

DefaultDataset(f) == [version |-> f, values |-> f, output |-> f, input |-> f]

\* what load_dataset reads: the header, and the rest
HasHeader(section) == section # Blank

Understood(section) == section.version <= firmware

\* a curve is found again: the bytes its length speaks of are in the section
Found(position, curve) == position + 4 + CurveBytes[curve] < SectionSize

\* load_dataset() from a section with a header, which it copies up to the check that fails
Loaded(d, section) ==
  CASE ~ Understood(section) -> [d EXCEPT !.version = section.version]
    [] ~ Found(100, section.output) ->
         [section EXCEPT !.output = d.output, !.input = d.input]
    [] ~ Found(200, section.input) -> [section EXCEPT !.input = d.input]
    [] OTHER -> section

LoadSucceeds ==
  LET section == ram["DATASET"]
  IN  /\ valid
      /\ HasHeader(section)
      /\ Understood(section)
      /\ Found(100, section.output) /\ Found(200, section.input)

AfterLoading(d) ==
  IF valid /\ HasHeader(ram["DATASET"]) THEN Loaded(d, ram["DATASET"]) ELSE d

\* the section before it is written for the first time
Written == IF ram["DATASET"] = Blank THEN DefaultDataset(0) ELSE ram["DATASET"]

Fits(curve) == CurveBytes[curve] + 4 <= CurveRoom

\* Mutant: the points of the curves are not written.
BugWrittenDataset(d) == [Written EXCEPT !.version = firmware, !.values = d.values]

\* write_dataset(): piece by piece, until a curve is too large
WrittenDataset(d) ==
  LET head == [Written EXCEPT !.version = firmware, !.values = d.values]
  IN  CASE ~ Fits(d.output) -> head
        [] ~ Fits(d.input) -> [head EXCEPT !.output = d.output]
        [] OTHER -> [head EXCEPT !.output = d.output, !.input = d.input]

-----------------------------------------------------------------------------
(* End-of-line data *)

NotWritten == [written |-> FALSE, licence |-> {}, serial |-> NoSerial]

\* read_eol_data_from_flash()
ReadEol(section) ==
  IF section = Blank THEN NotWritten
  ELSE [written |-> TRUE, licence |-> section.licence, serial |-> section.serial]

-----------------------------------------------------------------------------
(* Startup *)

\* the device restarts, with the same firmware or another one
Restart ==
  /\ NV!Restart
  /\ firmware' \in Firmware
  /\ started' = FALSE
  /\ dataset' = DefaultDataset(0)
  /\ eol' = NotWritten

\* eol_init(), then load_dataset(); a dataset that cannot be loaded is overwritten
Start ==
  /\ ~ started /\ started' = TRUE
  /\ eol' = ReadEol(ram["EOL"])
  /\ IF LoadSucceeds
     THEN dataset' = Loaded(dataset, ram["DATASET"]) /\ UNCHANGED nvVars
     ELSE /\ dataset' = DefaultDataset(firmware)
          /\ NV!Write("DATASET", WrittenDataset(dataset'))
  /\ UNCHANGED firmware

-----------------------------------------------------------------------------
(* Commands of the console *)

\* dataset load_default
LoadDefault ==
  /\ started
  /\ dataset' = DefaultDataset(firmware)
  /\ UNCHANGED <<nvVars, firmware, started, eol>>

\* dataset load_flash
LoadFlash ==
  /\ started
  /\ dataset' = AfterLoading(dataset)
  /\ UNCHANGED <<nvVars, firmware, started, eol>>

\* dataset write_flash
WriteFlash ==
  /\ started
  /\ NV!Write("DATASET", WrittenDataset(dataset))
  /\ UNCHANGED <<firmware, started, dataset, eol>>

\* eol: a serial number that is too long is refused when the licence is set already
RefuseSerial(licence) ==
  /\ started /\ ~ eol.written
  /\ eol' = [eol EXCEPT !.licence = licence]
  /\ UNCHANGED <<nvVars, firmware, started, dataset>>

\* Mutant: what is written already can be written again.
BugEnterEol(licence, serial) ==
  /\ started
  /\ NV!Write("EOL", [licence |-> licence, serial |-> serial])
  /\ eol' = ReadEol([licence |-> licence, serial |-> serial])
  /\ UNCHANGED <<firmware, started, dataset>>

\* eol: written to the section, and read back
EnterEol(licence, serial) ==
  /\ started /\ ~ eol.written
  /\ NV!Write("EOL", [licence |-> licence, serial |-> serial])
  /\ eol' = ReadEol([licence |-> licence, serial |-> serial])
  /\ UNCHANGED <<firmware, started, dataset>>

Command ==
  \/ LoadDefault
  \/ LoadFlash
  \/ WriteFlash
  \/ \E licence \in SUBSET Licence : RefuseSerial(licence)
  \/ \E licence \in SUBSET Licence, serial \in Serial : EnterEol(licence, serial)

-----------------------------------------------------------------------------
(* Specification *)

\* store(), of which the first one comes 1.1 s after the start
Store ==
  /\ started
  /\ NV!TakePicture \/ NV!DropPicture \/ NV!Forget \/ NV!Commit
  /\ UNCHANGED <<firmware, started, dataset, eol>>

Init ==
  /\ NV!Init
  /\ firmware \in Firmware
  /\ started = FALSE
  /\ dataset = DefaultDataset(0)
  /\ eol = NotWritten

Next ==
  \/ Restart
  \/ Start
  \/ Command
  \/ Store

Spec == Init /\ [][Next]_vars

-----------------------------------------------------------------------------
(* Properties *)

\* The end-of-line data are entered once: as long as the flash holds some, the program works
\* with these and nothing else, and it refuses to change them.  (Only a restart during a
\* store() lets them be entered again.)
EolIsForLife ==
  started /\ durable # Nothing /\ durable["EOL"] # Blank =>
    eol = [written |-> TRUE, licence |-> durable["EOL"].licence,
           serial |-> durable["EOL"].serial]

\* The dataset the program works with is that of one firmware as a whole, and of no newer one,
\* although load_dataset() copies before it has checked everything, write_dataset() writes piece
\* by piece, and both put the number of the firmware on what another one has written.
DatasetIsWhole ==
  started => \E f \in Firmware :
    /\ f <= firmware
    /\ dataset = [DefaultDataset(f) EXCEPT !.version = dataset.version]
    /\ f <= dataset.version /\ dataset.version <= firmware

=============================================================================
