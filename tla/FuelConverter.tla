---------------------------- MODULE FuelConverter ----------------------------
(***************************************************************************)
(* The fuel signal from the sensor to the cluster (main_application.cpp,   *)
(* fuel_gauge_output.cpp): the thread Cyc100ms runs the gauge and sends    *)
(* each value it signals to the DAC; the console selects whether this or a *)
(* value set by hand is sent.                                              *)
(*                                                                         *)
(* The console runs in the main thread, whose priority is higher: a        *)
(* command is one step, and may fall between any two steps of Cyc100ms.    *)
(* The main thread makes the objects and runs the first cycle before it    *)
(* waits for anything, that is before Cyc100ms runs.                       *)
(***************************************************************************)
EXTENDS FuelGauge

CONSTANTS
  OutputCurve,       \* level -> voltage of the cluster's gauge
  AmplifyingFactor,  \* of the operational amplifier, * 1000
  ManualLevel,       \* what the command "fuel manual" sets
  Unsettled          \* the sensor has not settled

ASSUME ConverterAssumption ==
  /\ OutputCurve \in Seq([x : Int, y : Int])
  /\ AmplifyingFactor \in Nat \ {0} /\ ManualLevel \subseteq Int

VARIABLES
  mode,    \* m_en_fuel_gauge_output_mode
  manual,  \* m_i32_fuel_gauge_output_manual_value
  read,    \* m_i32_fuel_sensor_read_value
  voltage, \* m_i32_set_voltage_output
  dac,     \* what the DAC was last set to
  cyc,     \* where Cyc100ms is in update_fuel_sensor_output, and its local value
  overtaken, \* history: a command fell into the output that Cyc100ms is sending, or
           \* has sent last
  settled  \* environment: the level the sensor keeps from some time on

outVars == <<mode, manual, read, voltage, dac, cyc, overtaken>>
vars    == <<gaugeVars, outVars, settled>>

Levels == Readings \cup {Unsettled}

Idle == [at |-> "idle", value |-> 0]

Init ==
  /\ GaugeInit
  /\ mode = "conversion" /\ manual = 0 /\ read = 0
  /\ voltage = 0 /\ dac = 0
  /\ cyc = [at |-> "boot", value |-> 0]
  /\ overtaken = FALSE
  /\ settled = Unsettled
-----------------------------------------------------------------------------
(* MainApplication::update_fuel_sensor_output *)

OutputLevel(m, byHand, sensor) == IF m = "manual" THEN byHand ELSE sensor

\* FuelGaugeOutput::set_fuel_level: the voltage of the cluster's gauge, and
\* what the DAC has to put out for it.
OutputVoltage(level) == GetY(OutputCurve, level)
DacVoltage(output)   == Quotient(output * 1000, AmplifyingFactor)

\* The main thread does all of it at once.
SendAtOnce(level) ==
  /\ voltage' = OutputVoltage(level)
  /\ dac' = DacVoltage(OutputVoltage(level))
-----------------------------------------------------------------------------
(* The main thread *)

\* What read_adc_value gives: the level of a sensor that has settled, or nothing.
Input(reading) ==
  reading \in (IF settled = Unsettled THEN Readings ELSE {settled}) \cup {NoReading}

\* init_fuel_level_converter: the first cycle, and the output of its value.
Startup ==
  /\ cyc.at = "boot"
  /\ \E reading \in Readings \cup {NoReading} :
       /\ Input(reading) /\ Cycle(reading)
       /\ read' = gauge'.fuel
       /\ SendAtOnce(OutputLevel(mode, manual, gauge'.fuel))
  /\ cyc' = Idle
  /\ UNCHANGED <<mode, manual, overtaken, settled>>

\* Mutant: the output is only updated by the next value of the sensor.
BugCommand(m, byHand) ==
  /\ cyc.at # "boot"
  /\ mode' = m /\ manual' = byHand
  /\ overtaken' = (cyc.at # "idle")
  /\ UNCHANGED <<gaugeVars, read, voltage, dac, cyc, settled>>

\* "fuel mode ..." and "fuel manual ..."
Command(m, byHand) ==
  /\ cyc.at # "boot"
  /\ mode' = m /\ manual' = byHand
  /\ SendAtOnce(OutputLevel(m, byHand, read))
  /\ overtaken' = (cyc.at # "idle")
  /\ UNCHANGED <<gaugeVars, read, cyc, settled>>

SetMode   == \E m \in {"conversion", "manual"} : Command(m, manual)
SetManual == \E level \in ManualLevel : Command(mode, level)
-----------------------------------------------------------------------------
(* Cyc100ms *)

\* The cycle of the gauge up to the signal, whose handler keeps the value.
RunCycle(reading) ==
  /\ cyc.at = "idle"
  /\ Input(reading) /\ Cycle(reading)
  /\ IF Signals(reading)
     THEN /\ read' = gauge'.fuel
          /\ cyc' = [at |-> "update", value |-> 0]
     ELSE UNCHANGED <<read, cyc>>
  /\ UNCHANGED <<mode, manual, voltage, dac, overtaken, settled>>

Reads  == \E reading \in Readings : RunCycle(reading)
Misses == RunCycle(NoReading)

\* The level to put out is chosen...
Update ==
  /\ cyc.at = "update"
  /\ cyc' = [at |-> "output", value |-> OutputLevel(mode, manual, read)]
  /\ overtaken' = FALSE
  /\ UNCHANGED <<gaugeVars, mode, manual, read, voltage, dac, settled>>

\* ...its voltage is stored...
SetOutput ==
  /\ cyc.at = "output"
  /\ voltage' = OutputVoltage(cyc.value)
  /\ cyc' = [at |-> "amplify", value |-> 0]
  /\ UNCHANGED <<gaugeVars, mode, manual, read, dac, overtaken, settled>>

\* ...and read back for the voltage of the DAC, which is passed on.
Amplify ==
  /\ cyc.at = "amplify"
  /\ cyc' = [at |-> "send", value |-> DacVoltage(voltage)]
  /\ UNCHANGED <<gaugeVars, mode, manual, read, voltage, dac, overtaken, settled>>

Send ==
  /\ cyc.at = "send"
  /\ dac' = cyc.value
  /\ cyc' = Idle
  /\ UNCHANGED <<gaugeVars, mode, manual, read, voltage, overtaken, settled>>

Output == Update \/ SetOutput \/ Amplify \/ Send
-----------------------------------------------------------------------------
\* The sensor stays at a level from here on.
Settle ==
  /\ settled = Unsettled
  /\ settled' \in Readings
  /\ UNCHANGED <<gaugeVars, outVars>>

Next == Startup \/ SetMode \/ SetManual \/ Reads \/ Misses \/ Output \/ Settle

\* The 100 ms cycles never stop, and again and again one of them gets a reading.
\* (Implied by fairness of the steps, strong for Reads, and stated without ENABLED.)
Fairness == []<><<Reads>>_vars

Spec == Init /\ [][Next]_vars /\ Fairness
-----------------------------------------------------------------------------
(* Properties *)

TypeOK ==
  /\ raw \in Seq(Readings)
  /\ \A i \in DOMAIN averages : averages[i].value \in Int /\ averages[i].weight \in Nat
  /\ gauge \in [state : States, higher : Nat, lower : Nat, slightly : Nat, fuel : Int]
  /\ mode \in {"conversion", "manual"} /\ manual \in ManualLevel \cup {0} /\ read \in Int
  /\ voltage \in Int /\ dac \in Int
  /\ cyc \in [at : {"boot", "idle", "update", "output", "amplify", "send"}, value : Int]
  /\ overtaken \in BOOLEAN
  /\ settled \in Levels

\* No run of failed, rejected or accepted readings makes the buffers grow past
\* their sizes (fuel_gauge_input.cpp:100-135).
BuffersAreBounded == Len(raw) < AveragingSize /\ Len(averages) < NumAverages

\* An error counter past its threshold is never carried into normal operation,
\* although recalibration does not clear the counter of higher averages and
\* calibration skips them all; and the counter of slightly lower averages stays
\* within its threshold although it is decremented at zero
\* (fuel_gauge_input.cpp:152-157, 228-284).
CountersAreInRange ==
  /\ gauge.state = "NormalOperation" =>
       gauge.higher <= ErrorThreshold /\ gauge.lower <= ErrorThreshold
  /\ gauge.state = "RefillDetected" => gauge.higher > ErrorThreshold
  /\ gauge.slightly <= LowerThreshold

\* While Cyc100ms is not sending, the DAC has what mode, manual value and sensor
\* value call for, unless a command fell into the last output
\* (main_application.cpp:414-424, 456-478).
OutputIsCurrent ==
  cyc.at = "idle" =>
    overtaken \/ dac = DacVoltage(OutputVoltage(OutputLevel(mode, manual, read)))

\* No filtering, weighting and stepping takes the value beyond the ends of the sensor's
\* curve, or the voltage beyond those of the cluster's (fuel_gauge_input.cpp:100-306,
\* fuel_gauge_output.cpp).
InputScale  == {0} \cup {InputCurve[i].x : i \in 1 .. Len(InputCurve)}
OutputScale == {0} \cup {OutputCurve[i].y : i \in 1 .. Len(OutputCurve)}
LevelsAreOnScale ==
  /\ {gauge.fuel, read} \subseteq Min(InputScale) .. Max(InputScale)
  /\ voltage \in Min(OutputScale) .. Max(OutputScale)

\* In normal operation the value never rises, except from below empty to empty,
\* and falls by no more than a step at a time (fuel_gauge_input.hpp:49).
NormalOnlyLowers ==
  [][gauge.state = "NormalOperation" /\ gauge'.state = "NormalOperation" =>
       /\ gauge'.fuel <= Max({0, gauge.fuel})
       /\ gauge.fuel - gauge'.fuel <= UpdateThreshold]_vars

\* A calibration ends with the value at the average, and no error counted: the
\* cycle that ends it does not judge the new value by old ones
\* (fuel_gauge_input.cpp:142-175).
CalibrationIsExact ==
  [][gauge.state = "Starting" /\ gauge'.state = "NormalOperation" =>
       /\ gauge'.fuel = WeightedAverage(averages')
       /\ gauge'.higher = 0 /\ gauge'.lower = 0]_vars

\* Once the sensor has settled, the value ends up in normal operation and where no
\* counter would move it any more, from every state and through recalibrations.
NearSensor ==
  /\ gauge.state = "NormalOperation"
  /\ gauge.fuel + ThresholdUp >= settled
  /\ gauge.fuel <= Max({0, settled + UpdateThreshold})
Converges == <>(settled # Unsettled) => <>[](settled # Unsettled /\ NearSensor)
=============================================================================
