---------------------------- MODULE Settings_proofs ----------------------------
(***************************************************************************)
(* Proofs about the settings: for any versions of the firmware whose       *)
(* default curves fit into the section, any number of restarts, and any    *)
(* order of the commands.                                                  *)
(***************************************************************************)
EXTENDS Settings, TLAPS

(* The inductive invariant *)

\* the values and curves of firmware f, last loaded or written by firmware v
Whole(f, v) == [version |-> v, values |-> f, output |-> f, input |-> f]

IsWhole(d, newest) ==
  \E f, v \in Firmware : f <= v /\ v <= newest /\ d = Whole(f, v)

Contents == [{"DATASET", "EOL"} -> {Blank} \cup DatasetSection \cup EolSection]

\* what the sections hold
InOrder(sections) ==
  /\ sections \in Contents
  /\ sections["DATASET"] = Blank \/ \E n \in Firmware : IsWhole(sections["DATASET"], n)
  /\ sections["EOL"] \in {Blank} \cup EolSection

SectionsInOrder ==
  /\ InOrder(ram)
  /\ picture = Nothing \/ InOrder(picture)
  /\ durable = Nothing \/ InOrder(durable)

Typed == firmware \in Firmware /\ started \in BOOLEAN /\ valid \in BOOLEAN

\* once the settings are loaded, what this firmware cannot understand is gone
DatasetsUnderstood ==
  started => IsWhole(dataset, firmware) /\ IsWhole(ram["DATASET"], firmware)

\* the object agrees with the section in RAM ...
EolAgrees ==
  started =>
    IF ram["EOL"] = Blank THEN ~ eol.written
    ELSE eol = [written |-> TRUE, licence |-> ram["EOL"].licence, serial |-> ram["EOL"].serial]

\* ... and what was written there is what is stored
EolIsStored ==
  /\ picture # Nothing => picture["EOL"] \in {Blank, ram["EOL"]}
  /\ durable # Nothing => durable["EOL"] \in {Blank, ram["EOL"]}

IInv == SectionsInOrder /\ Typed /\ DatasetsUnderstood /\ EolAgrees /\ EolIsStored

-----------------------------------------------------------------------------
(* Datasets *)

\* Every curve of a firmware fits, and is found again.
LEMMA CurvesAreKept ==
  ASSUME NEW f \in Firmware
  PROVE  Fits(f) /\ Found(100, f) /\ Found(200, f)
<1>1. CurveBytes[f] \in Nat /\ CurveBytes[f] + 4 < 100
  BY SettingsAssumption, CurvesFit DEF CurveRoom
<1> QED BY <1>1 DEF Fits, Found, CurveRoom, SectionSize

\* A whole dataset is a dataset.
LEMMA WholeProperties ==
  ASSUME NEW n \in Nat, NEW d, IsWhole(d, n)
  PROVE  d \in DatasetSection /\ d # Blank
<1>1. d \in DatasetSection
  BY SettingsAssumption DEF IsWhole, Whole, DatasetSection
<1> QED BY <1>1, BlankAssumption

\* The default dataset is whole, and of the firmware that runs.
LEMMA DefaultIsWhole ==
  ASSUME NEW n \in Firmware
  PROVE  IsWhole(DefaultDataset(n), n)
BY SettingsAssumption DEF IsWhole, Whole, DefaultDataset

\* write_dataset() of a whole dataset writes all of it.
LEMMA WholeIsWritten ==
  ASSUME NEW d, IsWhole(d, firmware), firmware \in Firmware,
         ram["DATASET"] = Blank \/ \E n \in Firmware : IsWhole(ram["DATASET"], n)
  PROVE  IsWhole(WrittenDataset(d), firmware)
<1>1. PICK f, v \in Firmware : f <= v /\ v <= firmware /\ d = Whole(f, v)
  BY DEF IsWhole
<1>2. Written \in [version : Nat, values : Nat, output : Nat, input : Nat]
  BY WholeProperties, SettingsAssumption DEF Written, DefaultDataset, DatasetSection
<1>3. d.values = f /\ d.output = f /\ d.input = f
  BY <1>1 DEF Whole
<1>4. WrittenDataset(d)
        = [Written EXCEPT !.version = firmware, !.values = f, !.output = f, !.input = f]
  BY <1>2, <1>3, CurvesAreKept DEF WrittenDataset
<1>5. WrittenDataset(d) = Whole(f, firmware)
  BY <1>2, <1>4 DEF Whole
<1>6. f <= firmware /\ firmware <= firmware
  BY <1>1, SettingsAssumption
<1> QED BY <1>5, <1>6 DEF IsWhole

\* load_dataset() of a whole dataset loads all of it, if this firmware understands it.
LEMMA WholeIsLoaded ==
  ASSUME NEW d, NEW n \in Firmware, NEW s, IsWhole(s, n), Understood(s), firmware \in Firmware
  PROVE  Loaded(d, s) = s /\ IsWhole(s, firmware)
<1>1. PICK f, v \in Firmware : f <= v /\ s = Whole(f, v)
  BY DEF IsWhole
<1>2. s.version = v /\ s.output = f /\ s.input = f
  BY <1>1 DEF Whole
<1>3. v <= firmware
  BY <1>2 DEF Understood
<1>4. Loaded(d, s) = s
  BY <1>2, CurvesAreKept DEF Loaded
<1> QED BY <1>1, <1>3, <1>4 DEF IsWhole

-----------------------------------------------------------------------------
(* The steps *)

\* write_dataset() leaves the sections in order, and the end-of-line data alone.
LEMMA DatasetWrite ==
  ASSUME IInv, NEW d, IsWhole(d, firmware), NV!Write("DATASET", WrittenDataset(d))
  PROVE  /\ SectionsInOrder' /\ valid' = valid
         /\ picture' = picture /\ durable' = durable
         /\ ram'["EOL"] = ram["EOL"] /\ IsWhole(ram'["DATASET"], firmware)
<1>1. IsWhole(WrittenDataset(d), firmware)
  BY WholeIsWritten DEF IInv, SectionsInOrder, InOrder, Typed
<1>2. WrittenDataset(d) \in DatasetSection
  BY <1>1, WholeProperties, SettingsAssumption DEF IInv, Typed
<1>3. ram \in Contents /\ ram' = [ram EXCEPT !["DATASET"] = WrittenDataset(d)]
  BY DEF IInv, SectionsInOrder, InOrder, NV!Write
<1>4. /\ ram' \in Contents /\ ram'["EOL"] = ram["EOL"]
      /\ ram'["DATASET"] = WrittenDataset(d)
  BY <1>2, <1>3 DEF Contents
<1>5. InOrder(ram')
  BY <1>1, <1>4 DEF IInv, SectionsInOrder, InOrder, Typed
<1> QED BY <1>1, <1>4, <1>5 DEF IInv, SectionsInOrder, InOrder, NV!Write

\* The settings of a device that starts for the first time.
LEMMA InitialInvariant == Init => IInv
<1> SUFFICES ASSUME Init PROVE IInv OBVIOUS
<1>1. ram = [s \in {"DATASET", "EOL"} |-> Blank]
  BY DEF Init, NV!Init, NV!Empty
<1>2. InOrder(ram)
  BY <1>1 DEF InOrder, Contents
<1> QED BY <1>2 DEF Init, NV!Init, IInv, SectionsInOrder, Typed, DatasetsUnderstood,
                    EolAgrees, EolIsStored

\* A restart finds the sections in order.
LEMMA RestartStep == IInv /\ Restart => IInv'
<1> SUFFICES ASSUME IInv, Restart PROVE IInv' OBVIOUS
<1> USE DEF Restart, NV!Restart
<1>1. durable' = Nothing \/ durable' = durable
  OBVIOUS
<1>2. InOrder(ram') /\ (durable' = Nothing \/ InOrder(durable'))
  <2>1. CASE durable' = Nothing
    <3>1. ram' = [s \in {"DATASET", "EOL"} |-> Blank]
      BY <2>1 DEF NV!Empty
    <3> QED BY <2>1, <3>1 DEF InOrder, Contents
  <2>2. CASE durable' # Nothing
    BY <2>2, <1>1 DEF IInv, SectionsInOrder
  <2> QED BY <2>1, <2>2
<1>3. durable' # Nothing => durable'["EOL"] = ram'["EOL"]
  OBVIOUS
<1> QED BY <1>2, <1>3 DEF IInv, SectionsInOrder, InOrder, Typed, DatasetsUnderstood, EolAgrees,
                          EolIsStored

\* The startup: the end-of-line data agree, and the dataset is one that is understood.
LEMMA StartStep == IInv /\ Start => IInv'
<1> SUFFICES ASSUME IInv, Start PROVE IInv' OBVIOUS
<1> USE DEF Start
<1>0. firmware' = firmware /\ firmware \in Firmware /\ started' = TRUE
  BY DEF IInv, Typed
<1>1. /\ SectionsInOrder' /\ valid' \in BOOLEAN
      /\ picture' = picture /\ durable' = durable /\ ram'["EOL"] = ram["EOL"]
      /\ IsWhole(dataset', firmware) /\ IsWhole(ram'["DATASET"], firmware)
  <2>1. CASE LoadSucceeds
    <3>1. ram["DATASET"] # Blank /\ Understood(ram["DATASET"])
      BY <2>1 DEF LoadSucceeds, HasHeader
    <3>2. PICK n \in Firmware : IsWhole(ram["DATASET"], n)
      BY <3>1 DEF IInv, SectionsInOrder, InOrder
    <3>3. dataset' = ram["DATASET"] /\ IsWhole(ram["DATASET"], firmware)
      BY <1>0, <2>1, <3>1, <3>2, WholeIsLoaded
    <3> QED BY <2>1, <3>3 DEF IInv, SectionsInOrder, InOrder, Typed, nvVars
  <2>2. CASE ~ LoadSucceeds
    <3>1. IsWhole(dataset', firmware)
      BY <1>0, <2>2, DefaultIsWhole
    <3> QED BY <2>2, <3>1, DatasetWrite DEF IInv, Typed
  <2> QED BY <2>1, <2>2
<1>2. ram["EOL"] \in {Blank} \cup EolSection
  BY DEF IInv, SectionsInOrder, InOrder
<1>3. EolAgrees'
  BY <1>1, <1>2 DEF EolAgrees, ReadEol, NotWritten
<1> QED BY <1>0, <1>1, <1>3 DEF IInv, Typed, DatasetsUnderstood, EolIsStored

\* load_dataset() by command: after the startup the section is always understood.
LEMMA LoadStep == IInv /\ LoadFlash => IInv'
<1> SUFFICES ASSUME IInv, LoadFlash PROVE IInv' OBVIOUS
<1> USE DEF LoadFlash
<1>1. firmware \in Firmware /\ IsWhole(ram["DATASET"], firmware) /\ IsWhole(dataset, firmware)
  BY DEF IInv, Typed, DatasetsUnderstood
<1>2. Understood(ram["DATASET"])
  BY <1>1 DEF IsWhole, Whole, Understood
<1>3. Loaded(dataset, ram["DATASET"]) = ram["DATASET"]
  BY <1>1, <1>2, WholeIsLoaded
<1>4. IsWhole(dataset', firmware)
  BY <1>1, <1>3 DEF AfterLoading
<1> QED BY <1>4 DEF IInv, SectionsInOrder, InOrder, Typed, DatasetsUnderstood, EolAgrees,
                    EolIsStored, nvVars

\* The end-of-line data are entered: nothing else was ever stored.
LEMMA EnterStep ==
  ASSUME IInv, NEW licence \in SUBSET Licence, NEW serial \in Serial, EnterEol(licence, serial)
  PROVE  IInv'
<1> DEFINE e == [licence |-> licence, serial |-> serial]
<1> USE DEF EnterEol
<1>1. e \in EolSection /\ e # Blank
  BY BlankAssumption DEF EolSection
<1>2. ram \in Contents /\ ram' = [ram EXCEPT !["EOL"] = e]
  BY DEF IInv, SectionsInOrder, InOrder, NV!Write
<1>3. ram' \in Contents /\ ram'["EOL"] = e /\ ram'["DATASET"] = ram["DATASET"]
  BY <1>1, <1>2 DEF Contents
<1>4. SectionsInOrder'
  BY <1>1, <1>3 DEF IInv, SectionsInOrder, InOrder, NV!Write
<1>5. ram["EOL"] = Blank
  BY DEF IInv, EolAgrees
<1>6. EolAgrees'
  <2>1. eol' = [written |-> TRUE, licence |-> e.licence, serial |-> e.serial]
    BY <1>1 DEF ReadEol
  <2> HIDE DEF e
  <2> QED BY <1>1, <1>3, <2>1 DEF EolAgrees
<1>7. EolIsStored'
  BY <1>3, <1>5 DEF IInv, EolIsStored, NV!Write
<1>8. Typed' /\ DatasetsUnderstood'
  BY <1>3 DEF IInv, Typed, DatasetsUnderstood, NV!Write
<1> QED BY <1>4, <1>6, <1>7, <1>8 DEF IInv

\* Commands change what is in use and in the sections together.
LEMMA CommandStep == IInv /\ Command => IInv'
<1> SUFFICES ASSUME IInv, Command PROVE IInv' OBVIOUS
<1>1. CASE LoadDefault
  <2>1. IsWhole(dataset', firmware)
    BY <1>1, DefaultIsWhole DEF LoadDefault, IInv, Typed
  <2> QED BY <1>1, <2>1 DEF LoadDefault, IInv, SectionsInOrder, InOrder, Typed,
                            DatasetsUnderstood, EolAgrees, EolIsStored, nvVars
<1>2. CASE LoadFlash
  BY <1>2, LoadStep
<1>3. CASE WriteFlash
  <2>1. IsWhole(dataset, firmware)
    BY <1>3 DEF WriteFlash, IInv, DatasetsUnderstood
  <2> QED BY <1>3, <2>1, DatasetWrite DEF WriteFlash, IInv, Typed, DatasetsUnderstood,
                                          EolAgrees, EolIsStored
<1>4. ASSUME NEW licence \in SUBSET Licence, RefuseSerial(licence) PROVE IInv'
  <2>1. ram["EOL"] = Blank
    BY <1>4 DEF RefuseSerial, IInv, EolAgrees
  <2>2. eol' = [eol EXCEPT !.licence = licence] /\ ~ eol.written /\ UNCHANGED nvVars
    BY <1>4 DEF RefuseSerial
  <2>3. eol'.written = eol.written
    BY <2>2
  <2> QED BY <1>4, <2>1, <2>2, <2>3 DEF RefuseSerial, IInv, SectionsInOrder, InOrder, Typed,
                                        DatasetsUnderstood, EolAgrees, EolIsStored, nvVars
<1>5. ASSUME NEW licence \in SUBSET Licence, NEW serial \in Serial, EnterEol(licence, serial)
      PROVE IInv'
  BY <1>5, EnterStep
<1> QED BY <1>1, <1>2, <1>3, <1>4, <1>5 DEF Command

\* store() moves pictures.
LEMMA StoreStep == IInv /\ Store => IInv'
BY DEF Store, NV!TakePicture, NV!DropPicture, NV!Forget, NV!Commit, IInv, SectionsInOrder, InOrder,
       Typed, DatasetsUnderstood, EolAgrees, EolIsStored

\* The invariant holds in every reachable state.
THEOREM Invariant == Spec => []IInv
<1>1. IInv /\ [Next]_vars => IInv'
  <2> SUFFICES ASSUME IInv, [Next]_vars PROVE IInv' OBVIOUS
  <2>1. CASE UNCHANGED vars
    BY <2>1 DEF vars, nvVars, IInv, SectionsInOrder, InOrder, Typed, DatasetsUnderstood,
                EolAgrees, EolIsStored
  <2> QED BY <2>1, RestartStep, StartStep, CommandStep, StoreStep DEF Next
<1> QED BY <1>1, InitialInvariant, PTL DEF Spec

-----------------------------------------------------------------------------
(* The properties *)

\* Whatever restarts, stores and commands there are, the end-of-line data in flash are the
\* ones in use, and stay so.
THEOREM EolStays == Spec => []EolIsForLife
<1>1. IInv => EolIsForLife
  BY DEF IInv, EolAgrees, EolIsStored, EolIsForLife
<1> QED BY <1>1, Invariant, PTL

\* Whatever firmware has written the section, the converters work with one dataset as a whole.
THEOREM DatasetStaysWhole == Spec => []DatasetIsWhole
<1>1. IInv => DatasetIsWhole
  <2> SUFFICES ASSUME IInv, started PROVE DatasetIsWhole BY DEF DatasetIsWhole
  <2>1. PICK f, v \in Firmware : f <= v /\ v <= firmware /\ dataset = Whole(f, v)
    BY DEF IInv, DatasetsUnderstood, IsWhole
  <2>2. dataset.version = v /\ dataset = [DefaultDataset(f) EXCEPT !.version = v]
    BY <2>1 DEF Whole, DefaultDataset
  <2>3. f <= firmware
    BY <2>1, SettingsAssumption DEF IInv, Typed
  <2> QED BY <2>1, <2>2, <2>3 DEF DatasetIsWhole
<1> QED BY <1>1, Invariant, PTL

=============================================================================
