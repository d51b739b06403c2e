------------------------------ MODULE FuelGauge ------------------------------
(***************************************************************************)
(* app::FuelGaugeInputFromADC (fuel_gauge_input.cpp): every 100 ms a       *)
(* reading of the fuel sensor; readings become averages, and a state       *)
(* machine decides whether the fuel value shown follows them.  Levels are  *)
(* in percent * 100; what the code fixes as macros and literals are        *)
(* constants.                                                              *)
(***************************************************************************)
EXTENDS Algorithms

CONSTANTS
  AdcValue,          \* what the ADC converts to in the instance
  AdcMax,            \* get_adc_max_value
  Supply, Resistor,  \* of the voltage divider
  InputCurve,        \* level -> resistance of the sensor
  NoReading,         \* read_adc_value fails
  AveragingSize,     \* FUEL_GAUGE_INPUT_AVERAGING_SIZE
  MinimumReadings,   \* 3: filter_outliers keeps as many
  MaxDistance,       \* FUEL_GAUGE_INPUT_READINGS_MAX_DISTANCE
  InvalidDistance,   \* FUEL_GAUGE_INPUT_READINGS_INVALID_DATA_DISTANCE
  FullRange,         \* 10000, 100 percent
  NumAverages,       \* FUEL_GAUGE_INPUT_NUM_OF_AVERAGES
  Calibration,       \* 3: as many averages end a calibration
  ThresholdUp, ThresholdDown,
  UpdateThreshold,   \* FUEL_GAUGE_INPUT_PERCENTAGE_UPDATE_THRESHOLD
  ErrorThreshold,    \* FUEL_GAUGE_INPUT_ERROR_COUNTER_THRESHOLD
  LowerThreshold,    \* FUEL_GAUGE_INPUT_FUEL_LOWER_COUNTER_THRESHOLD
  CounterRange       \* 2^32

ASSUME FuelAssumption ==
  /\ AdcMax \in Nat \ {0} /\ AdcValue \subseteq 0 .. AdcMax
  /\ Supply \in Nat /\ Resistor \in Nat
  /\ InputCurve \in Seq([x : Int, y : Int])
  /\ MinimumReadings \in Nat /\ {MaxDistance, InvalidDistance, FullRange} \subseteq Int
  /\ {ThresholdUp, ThresholdDown, UpdateThreshold} \subseteq Nat
  /\ AveragingSize \in Nat \ {0} /\ NumAverages \in Nat \ {0}
  /\ Calibration \in Nat \ {0} /\ Calibration < NumAverages
  /\ InvalidDistance < FullRange
  /\ ErrorThreshold \in Nat /\ LowerThreshold \in Nat
  /\ CounterRange \in Nat /\ LowerThreshold + 1 < CounterRange

VARIABLES
  raw,      \* m_ai32_raw_last_read_fuel_percentages
  averages, \* m_ai32_averaged_fuel_readings_buffer
  gauge     \* the state machine: its state, the counters of unexpectedly "higher"
            \* and "lower" and of "slightly" lower averages, and the value of "fuel"

gaugeVars == <<raw, averages, gauge>>

States == {"Starting", "NormalOperation", "RefillDetected", "ErrorRecovery"}

GaugeInit ==
  /\ raw = << >> /\ averages = << >>
  /\ gauge = [state |-> "Starting", higher |-> 0, lower |-> 0, slightly |-> 0, fuel |-> 0]
-----------------------------------------------------------------------------
(* From the ADC to averages *)

\* VoltageDivider::get_resistor_2_value.  At full scale the divisor is zero: the
\* processor's division gives zero, and zero less Resistor is negative as int32_t.
Resistance(voltage) ==
  (IF voltage = Supply THEN 0 ELSE (Resistor * Supply) \div (Supply - voltage)) - Resistor

\* The level a value of the ADC stands for.
Level(adc) == GetX(InputCurve, Resistance((Supply * adc) \div AdcMax))

Readings == {Level(adc) : adc \in AdcValue}

Filtered(readings) == FilterOutliers(readings, MinimumReadings, MaxDistance)

\* The readings once this cycle's is among them.
Received(reading) == IF reading = NoReading THEN raw ELSE Append(raw, reading)

Enough(readings) == Len(readings) >= AveragingSize

\* bo_new_averaged_value_reached
Accepted(readings) ==
  Enough(readings) /\ Filtered(readings).gap <= InvalidDistance

Weighed(filtered) ==
  [value |-> filtered.average, weight |-> (FullRange - filtered.gap) * (FullRange - filtered.gap)]

\* Mutant: the buffer is limited to one average less.
BugBuffered(buffer, average) ==
  LET longer == Append(buffer, average)
  IN  IF Len(longer) >= NumAverages - 1 THEN Tail(longer) ELSE longer

\* One more average in the buffer, without the oldest when it is full.
Buffered(buffer, average) ==
  LET longer == Append(buffer, average)
  IN  IF Len(longer) >= NumAverages THEN Tail(longer) ELSE longer

\* The averages after a cycle, and the readings that are left for the next one: a
\* rejected batch loses its oldest reading.
Averaged(readings) ==
  IF Accepted(readings) THEN Buffered(averages, Weighed(Filtered(readings))) ELSE averages

Left(readings) ==
  IF Accepted(readings) THEN << >>
  ELSE IF Enough(readings) THEN Tail(readings)
  ELSE readings
-----------------------------------------------------------------------------
(* The state machine; g is a gauge, buffer the averages of this cycle *)

\* Mutant: the cycle that ends the calibration does not set the value.
BugCalibratedLate(g, readings, buffer) ==
  LET value == IF buffer = << >> THEN Filtered(readings).average
                                 ELSE WeightedAverage(buffer)
  IN  IF g.state # "Starting" THEN g
      ELSE IF Len(buffer) < Calibration THEN [g EXCEPT !.fuel = value]
      ELSE [g EXCEPT !.state = "NormalOperation", !.higher = 0, !.lower = 0]

\* First switch: while calibrating, the value follows every cycle.
Calibrated(g, readings, buffer) ==
  LET value == IF buffer = << >> THEN Filtered(readings).average
                                 ELSE WeightedAverage(buffer)
  IN  IF g.state # "Starting" THEN g
      ELSE IF Len(buffer) < Calibration THEN [g EXCEPT !.fuel = value]
      ELSE [g EXCEPT !.fuel = value, !.state = "NormalOperation", !.higher = 0, !.lower = 0]

\* Mutant: the counter is not kept from going below zero.
BugReduced(counter) == counter - 2

Reduced(counter) == IF counter >= 2 THEN counter - 2 ELSE 0

\* m_u32_input_slightly_lower_counter--, on 32 bits.
Decremented(counter) == IF counter = 0 THEN CounterRange - 1 ELSE counter - 1

\* The average is not slightly lower, but an error is being recovered from: it is
\* the counter of slightly lower averages that goes down.
Counted(g, average) ==
  IF g.fuel > average + UpdateThreshold THEN [g EXCEPT !.slightly = @ + 1]
  ELSE IF g.lower > 0 THEN [g EXCEPT !.slightly = Decremented(@)]
  ELSE g

Unexpected(g, average) ==
  g.fuel + ThresholdUp < average \/ g.fuel > average + ThresholdDown

Expected(g, average) ==
  Counted([g EXCEPT !.higher = Reduced(@), !.lower = Reduced(@)], average)

\* The value goes down by a step.
Steps(g, average) ==
  ~ Unexpected(g, average) /\ Expected(g, average).slightly > LowerThreshold

\* Mutant: the step goes all the way to the average.
BugCompared(g, average) ==
  IF g.fuel + ThresholdUp < average THEN [g EXCEPT !.higher = @ + 1]
  ELSE IF g.fuel > average + ThresholdDown THEN [g EXCEPT !.lower = @ + 1]
  ELSE IF ~ Steps(g, average) THEN Expected(g, average)
  ELSE [Expected(g, average) EXCEPT !.slightly = 0, !.fuel = Max({0, average})]

Compared(g, average) ==
  IF g.fuel + ThresholdUp < average THEN [g EXCEPT !.higher = @ + 1]
  ELSE IF g.fuel > average + ThresholdDown THEN [g EXCEPT !.lower = @ + 1]
  ELSE IF ~ Steps(g, average) THEN Expected(g, average)
  ELSE [Expected(g, average) EXCEPT !.slightly = 0, !.fuel = Max({0, @ - UpdateThreshold})]

\* The thresholds of the error counters; ErrorRecovery is assigned last.
Watched(g) ==
  [g EXCEPT !.state = IF g.lower > ErrorThreshold THEN "ErrorRecovery"
                      ELSE IF g.higher > ErrorThreshold THEN "RefillDetected" ELSE @]

\* Both clear the counter of lower averages twice, and not the one of higher ones.
Recalibrate(g) == [g EXCEPT !.lower = 0, !.slightly = 0, !.state = "Starting"]

\* Second switch: once per new average.
Judged(g, buffer) ==
  CASE g.state = "NormalOperation" -> Watched(Compared(g, WeightedAverage(buffer)))
    [] g.state \in {"RefillDetected", "ErrorRecovery"} -> Recalibrate(g)
    [] OTHER -> g

\* FuelGaugeInputFromADC::cycle_100ms
Cycle(reading) ==
  LET readings   == Received(reading)
      buffer     == Averaged(readings)
      calibrated == Calibrated(gauge, Left(readings), buffer)
  IN  /\ raw' = Left(readings)
      /\ averages' = buffer
      /\ gauge' = IF Accepted(readings) THEN Judged(calibrated, buffer) ELSE calibrated

\* The cycle calls set_fuel_sensor_value: whenever it calibrates, and to step down.
Signals(reading) ==
  LET readings == Received(reading)
  IN  \/ gauge.state = "Starting"
      \/ /\ gauge.state = "NormalOperation" /\ Accepted(readings)
         /\ Steps(gauge, WeightedAverage(Averaged(readings)))
=============================================================================
