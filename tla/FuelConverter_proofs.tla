------------------------ MODULE FuelConverter_proofs ------------------------
(***************************************************************************)
(* The fuel signal for every sensor, every pair of curves, and each choice *)
(* of the sizes and thresholds.  For the buffers and counters it does not  *)
(* matter what the averages are; for the value on display it does, and     *)
(* Algorithms_proofs is what they rest on.                                 *)
(***************************************************************************)
EXTENDS FuelConverter, Algorithms_proofs, TLAPS

\* Sequences and gauges of whatever values.
IsSeq(s) == \E S : s \in Seq(S)

IsGauge(g) ==
  \E F : g \in [state : States, higher : Nat, lower : Nat, slightly : Nat, fuel : F]

GoodGauge(g) ==
  /\ IsGauge(g)
  /\ g.state = "NormalOperation" => g.higher <= ErrorThreshold /\ g.lower <= ErrorThreshold
  /\ g.state = "RefillDetected" => g.higher > ErrorThreshold
  /\ g.slightly <= LowerThreshold

IInv ==
  /\ raw \in Seq(Readings) /\ IsSeq(averages)
  /\ Len(raw) < AveragingSize /\ Len(averages) < NumAverages
  /\ GoodGauge(gauge)

-----------------------------------------------------------------------------
(* The buffers *)

\* One more element, of any kind, makes a sequence one longer.
LEMMA AppendLength ==
  ASSUME NEW s, IsSeq(s), NEW x
  PROVE  IsSeq(Append(s, x)) /\ Len(Append(s, x)) = Len(s) + 1 /\ Len(s) \in Nat
         /\ Append(s, x) # << >>
<1>1. PICK S : s \in Seq(S)
  BY DEF IsSeq
<1> DEFINE T == S \cup {x}
<1>2. s \in Seq(T)
  <2>1. s \in [1 .. Len(s) -> S] /\ Len(s) \in Nat
    BY <1>1
  <2>2. s \in [1 .. Len(s) -> T]
    BY <2>1
  <2> QED BY <2>1, <2>2
<1>3. x \in T
  OBVIOUS
<1> HIDE DEF T
<1>4. Append(s, x) \in Seq(T) /\ Len(Append(s, x)) = Len(s) + 1 /\ Len(s) \in Nat
  BY <1>2, <1>3
<1>5. Append(s, x) # << >>
  BY <1>4
<1> QED BY <1>4, <1>5 DEF IsSeq

\* Without its first element a sequence is one shorter.
LEMMA TailLength ==
  ASSUME NEW s, IsSeq(s), s # << >>
  PROVE  IsSeq(Tail(s)) /\ Len(Tail(s)) = Len(s) - 1 /\ Len(s) \in Nat
<1>1. PICK S : s \in Seq(S)
  BY DEF IsSeq
<1>2. Tail(s) \in Seq(S) /\ Len(Tail(s)) = Len(s) - 1 /\ Len(s) \in Nat
  BY <1>1
<1> QED BY <1>2 DEF IsSeq

\* The buffer of averages stays shorter than its limit.
LEMMA BufferedBounded ==
  ASSUME NEW s, IsSeq(s), Len(s) < NumAverages, NEW x
  PROVE  IsSeq(Buffered(s, x)) /\ Len(Buffered(s, x)) < NumAverages
<1> DEFINE longer == Append(s, x)
<1>1. /\ IsSeq(longer) /\ longer # << >>
      /\ Len(longer) = Len(s) + 1 /\ Len(s) \in Nat
  BY AppendLength
<1>2. NumAverages \in Nat
  BY FuelAssumption
<1>3. IsSeq(Tail(longer)) /\ Len(Tail(longer)) = Len(longer) - 1
  BY <1>1, TailLength
<1>4. CASE Len(longer) >= NumAverages
  <2>1. Buffered(s, x) = Tail(longer)
    BY <1>4 DEF Buffered
  <2> HIDE DEF longer
  <2> QED BY <1>1, <1>2, <1>3, <2>1
<1>5. CASE ~ (Len(longer) >= NumAverages)
  <2>1. Buffered(s, x) = longer
    BY <1>5 DEF Buffered
  <2> HIDE DEF longer
  <2>2. Len(longer) < NumAverages
    BY <1>1, <1>2, <1>5
  <2> QED BY <1>1, <2>1, <2>2
<1> QED BY <1>4, <1>5

\* So does the one of readings: a full one is averaged, or loses its oldest.
LEMMA LeftBounded ==
  ASSUME NEW s \in Seq(Readings), Len(s) <= AveragingSize
  PROVE  Left(s) \in Seq(Readings) /\ Len(Left(s)) < AveragingSize
<1>1. AveragingSize \in Nat /\ AveragingSize > 0
  BY FuelAssumption
<1>2. CASE Accepted(s)
  <2>1. Left(s) = << >>
    BY <1>2 DEF Left
  <2> QED BY <1>1, <2>1
<1>3. CASE ~ Accepted(s) /\ Enough(s)
  <2>1. Left(s) = Tail(s) /\ Len(s) >= AveragingSize
    BY <1>3 DEF Left, Enough
  <2>2. s # << >> /\ Len(s) \in Nat
    BY <1>1, <2>1
  <2>3. Tail(s) \in Seq(Readings) /\ Len(Tail(s)) = Len(s) - 1
    BY <2>2
  <2> QED BY <1>1, <2>1, <2>2, <2>3
<1>4. CASE ~ Accepted(s) /\ ~ Enough(s)
  <2>1. Left(s) = s /\ ~ (Len(s) >= AveragingSize)
    BY <1>4 DEF Left, Enough
  <2> QED BY <1>1, <2>1
<1> QED BY <1>2, <1>3, <1>4

-----------------------------------------------------------------------------
(* The state machine *)

\* The end of a calibration clears the counters of the errors.
LEMMA CalibratedGood ==
  ASSUME NEW g, GoodGauge(g), NEW readings, NEW buffer
  PROVE  GoodGauge(Calibrated(g, readings, buffer))
<1> DEFINE value == IF buffer = << >> THEN Filtered(readings).average
                                      ELSE WeightedAverage(buffer)
           c == Calibrated(g, readings, buffer)
<1>1. PICK F :
        g \in [state : States, higher : Nat, lower : Nat, slightly : Nat, fuel : F]
  BY DEF GoodGauge, IsGauge
<1>2. CASE g.state # "Starting"
  BY <1>2 DEF Calibrated
<1>3. CASE g.state = "Starting" /\ Len(buffer) < Calibration
  <2>1. c = [g EXCEPT !.fuel = value]
    BY <1>3 DEF Calibrated
  <2> HIDE DEF value, c
  <2>2. c \in [state : States, higher : Nat, lower : Nat, slightly : Nat,
               fuel : F \cup {value}]
    BY <1>1, <2>1
  <2>3. c.state = "Starting" /\ c.slightly <= LowerThreshold
    BY <1>1, <1>3, <2>1 DEF GoodGauge
  <2>4. IsGauge(c)
    BY <2>2 DEF IsGauge
  <2> QED BY <2>3, <2>4 DEF GoodGauge, c
<1>4. CASE g.state = "Starting" /\ ~ (Len(buffer) < Calibration)
  <2>1. c = [g EXCEPT !.fuel = value, !.state = "NormalOperation", !.higher = 0, !.lower = 0]
    BY <1>4 DEF Calibrated
  <2> HIDE DEF value, c
  <2>2. c \in [state : States, higher : Nat, lower : Nat, slightly : Nat,
               fuel : F \cup {value}]
    BY <1>1, <2>1 DEF States
  <2>3. /\ c.state = "NormalOperation" /\ c.slightly <= LowerThreshold
        /\ c.higher = 0 /\ c.lower = 0
    BY <1>1, <2>1 DEF GoodGauge
  <2>4. IsGauge(c)
    BY <2>2 DEF IsGauge
  <2> QED BY <2>3, <2>4, FuelAssumption DEF GoodGauge, c
<1> QED BY <1>2, <1>3, <1>4

\* An average that is expected takes the counters of the errors down, and leaves a
\* natural number as the counter of slightly lower averages.
LEMMA ExpectedShape ==
  ASSUME NEW g, NEW F, NEW average,
         g \in [state : States, higher : Nat, lower : Nat, slightly : Nat, fuel : F]
  PROVE  LET e == Expected(g, average)
         IN  /\ e \in [state : States, higher : Nat, lower : Nat, slightly : Nat, fuel : F]
             /\ e.state = g.state
             /\ e.higher <= g.higher /\ e.lower <= g.lower
<1> DEFINE r == [g EXCEPT !.higher = Reduced(@), !.lower = Reduced(@)]
           e == Expected(g, average)
<1>1. \A n \in Nat : Reduced(n) \in Nat /\ Reduced(n) <= n
  BY DEF Reduced
<1>2. /\ r \in [state : States, higher : Nat, lower : Nat, slightly : Nat, fuel : F]
      /\ r.state = g.state /\ r.higher <= g.higher /\ r.lower <= g.lower
  BY <1>1
<1>3. Decremented(r.slightly) \in Nat /\ r.slightly + 1 \in Nat
  <2>1. \A n \in Nat : Decremented(n) \in Nat
    BY FuelAssumption DEF Decremented
  <2> QED BY <1>2, <2>1
<1>4. \/ e = [r EXCEPT !.slightly = @ + 1]
      \/ e = [r EXCEPT !.slightly = Decremented(@)]
      \/ e = r
  BY DEF Expected, Counted
<1> HIDE DEF r, e
<1>5. /\ e \in [state : States, higher : Nat, lower : Nat, slightly : Nat, fuel : F]
      /\ e.state = r.state /\ e.higher = r.higher /\ e.lower = r.lower
  BY <1>2, <1>3, <1>4
<1> QED BY <1>2, <1>5 DEF e

\* A comparison takes an error counter at most one past its threshold, and the
\* counter of slightly lower averages not past its own.
LEMMA ComparedShape ==
  ASSUME NEW g, GoodGauge(g), g.state = "NormalOperation", NEW average
  PROVE  LET c == Compared(g, average)
         IN  IsGauge(c) /\ c.slightly <= LowerThreshold /\ c.state = "NormalOperation"
<1> DEFINE c == Compared(g, average)
           e == Expected(g, average)
           low == Max({0, e.fuel - UpdateThreshold})
<1>1. PICK F :
        g \in [state : States, higher : Nat, lower : Nat, slightly : Nat, fuel : F]
  BY DEF GoodGauge, IsGauge
<1>2. /\ e \in [state : States, higher : Nat, lower : Nat, slightly : Nat, fuel : F]
      /\ e.state = "NormalOperation"
  BY <1>1, ExpectedShape
<1>3. LowerThreshold \in Nat /\ g.slightly <= LowerThreshold
  BY FuelAssumption DEF GoodGauge
<1>4. CASE g.fuel + ThresholdUp < average
  <2>1. c = [g EXCEPT !.higher = @ + 1]
    BY <1>4 DEF Compared
  <2> QED BY <1>1, <1>3, <2>1 DEF IsGauge
<1>5. CASE ~ (g.fuel + ThresholdUp < average) /\ g.fuel > average + ThresholdDown
  <2>1. c = [g EXCEPT !.lower = @ + 1]
    BY <1>5 DEF Compared
  <2> QED BY <1>1, <1>3, <2>1 DEF IsGauge
<1>6. CASE ~ Unexpected(g, average) /\ ~ Steps(g, average)
  <2>1. c = e
    BY <1>6 DEF Compared, Unexpected
  <2>2. ~ (e.slightly > LowerThreshold)
    BY <1>6 DEF Steps
  <2> HIDE DEF e, c
  <2> QED BY <1>2, <1>3, <2>1, <2>2 DEF IsGauge, c
<1>7. CASE ~ Unexpected(g, average) /\ Steps(g, average)
  <2>1. c = [e EXCEPT !.slightly = 0, !.fuel = low]
    BY <1>7 DEF Compared, Unexpected
  <2> HIDE DEF e, low, c
  <2>2. c \in [state : States, higher : Nat, lower : Nat, slightly : Nat, fuel : F \cup {low}]
    BY <1>2, <2>1
  <2>3. c.slightly = 0 /\ c.state = "NormalOperation"
    BY <1>2, <2>1
  <2>4. IsGauge(c)
    BY <2>2 DEF IsGauge
  <2> QED BY <1>3, <2>3, <2>4 DEF c
<1> QED BY <1>4, <1>5, <1>6, <1>7 DEF Unexpected

\* A counter past its threshold ends normal operation.
LEMMA WatchedGood ==
  ASSUME NEW g, IsGauge(g), g.slightly <= LowerThreshold, g.state = "NormalOperation"
  PROVE  GoodGauge(Watched(g))
<1> DEFINE w == Watched(g)
           s == IF g.lower > ErrorThreshold THEN "ErrorRecovery"
                ELSE IF g.higher > ErrorThreshold THEN "RefillDetected" ELSE g.state
<1>1. PICK F :
        g \in [state : States, higher : Nat, lower : Nat, slightly : Nat, fuel : F]
  BY DEF IsGauge
<1>2. w = [g EXCEPT !.state = s]
  BY DEF Watched
<1>3. s \in States
  BY <1>1 DEF States
<1>4. /\ s = "NormalOperation" => g.higher <= ErrorThreshold /\ g.lower <= ErrorThreshold
      /\ s = "RefillDetected" => g.higher > ErrorThreshold
  BY <1>1, FuelAssumption
<1> HIDE DEF s, w
<1>5. /\ w \in [state : States, higher : Nat, lower : Nat, slightly : Nat, fuel : F]
      /\ w.state = s /\ w.higher = g.higher /\ w.lower = g.lower /\ w.slightly = g.slightly
  BY <1>1, <1>2, <1>3
<1> QED BY <1>4, <1>5 DEF GoodGauge, IsGauge, w

\* A new average is judged.
LEMMA JudgedGood ==
  ASSUME NEW g, GoodGauge(g), NEW buffer
  PROVE  GoodGauge(Judged(g, buffer))
<1>1. CASE g.state = "NormalOperation"
  <2>1. Judged(g, buffer) = Watched(Compared(g, WeightedAverage(buffer)))
    BY <1>1 DEF Judged
  <2> QED BY <1>1, <2>1, ComparedShape, WatchedGood
<1>2. CASE g.state \in {"RefillDetected", "ErrorRecovery"}
  <2> DEFINE r == Recalibrate(g)
  <2>1. Judged(g, buffer) = r
    BY <1>2 DEF Judged
  <2>2. PICK F :
          g \in [state : States, higher : Nat, lower : Nat, slightly : Nat, fuel : F]
    BY DEF GoodGauge, IsGauge
  <2>3. /\ r \in [state : States, higher : Nat, lower : Nat, slightly : Nat, fuel : F]
        /\ r.state = "Starting" /\ r.slightly = 0
    BY <2>2 DEF Recalibrate, States
  <2> HIDE DEF r
  <2> QED BY <2>1, <2>3, FuelAssumption DEF GoodGauge, IsGauge
<1>3. CASE g.state \notin {"NormalOperation", "RefillDetected", "ErrorRecovery"}
  BY <1>3 DEF Judged
<1> QED BY <1>1, <1>2, <1>3

-----------------------------------------------------------------------------
(* The invariant *)

\* Every cycle keeps the invariant, whether the ADC gives a reading or not.
LEMMA CycleIInv ==
  ASSUME IInv, NEW reading \in Readings \cup {NoReading}, Cycle(reading)
  PROVE  IInv'
<1> DEFINE readings == Received(reading)
           buffer   == Averaged(readings)
           calibrated == Calibrated(gauge, Left(readings), buffer)
<1>1. readings \in Seq(Readings) /\ Len(readings) <= AveragingSize
  <2>1. raw \in Seq(Readings) /\ Len(raw) \in Nat /\ Len(raw) < AveragingSize
        /\ AveragingSize \in Nat
    BY FuelAssumption DEF IInv
  <2>2. CASE reading = NoReading
    BY <2>1, <2>2 DEF Received
  <2>3. CASE reading # NoReading
    <3>1. readings = Append(raw, reading) /\ reading \in Readings
      BY <2>3 DEF Received
    <3> QED BY <2>1, <3>1
  <2> QED BY <2>2, <2>3
<1>2. IsSeq(buffer) /\ Len(buffer) < NumAverages
  BY BufferedBounded DEF Averaged, IInv
<1>3. raw' = Left(readings) /\ averages' = buffer
  BY DEF Cycle
<1>4. GoodGauge(gauge')
  <2>1. GoodGauge(calibrated)
    BY CalibratedGood DEF IInv
  <2>2. GoodGauge(Judged(calibrated, buffer))
    BY <2>1, JudgedGood
  <2>3. gauge' = calibrated \/ gauge' = Judged(calibrated, buffer)
    BY DEF Cycle
  <2> QED BY <2>1, <2>2, <2>3
<1> HIDE DEF readings, buffer
<1>5. raw' \in Seq(Readings) /\ Len(raw') < AveragingSize
  BY <1>1, <1>3, LeftBounded
<1> QED BY <1>2, <1>3, <1>4, <1>5 DEF IInv, GoodGauge, IsGauge, IsSeq

\* IInv holds initially.
LEMMA InitIInv == Init => IInv
<1> SUFFICES ASSUME Init PROVE IInv
  OBVIOUS
<1>1. raw = << >> /\ averages = << >>
  BY DEF Init, GaugeInit
<1>2. raw \in Seq(Readings) /\ IsSeq(averages)
  BY <1>1 DEF IsSeq
<1>3. Len(raw) < AveragingSize /\ Len(averages) < NumAverages
  BY <1>1, FuelAssumption
<1>4. GoodGauge(gauge)
  <2>1. gauge \in [state : States, higher : Nat, lower : Nat, slightly : Nat, fuel : {0}]
    BY DEF Init, GaugeInit, States
  <2>2. gauge.state = "Starting" /\ gauge.slightly = 0
    BY DEF Init, GaugeInit
  <2> QED BY <2>1, <2>2, FuelAssumption DEF GoodGauge, IsGauge
<1> QED BY <1>2, <1>3, <1>4 DEF IInv

\* IInv is kept by every step.
LEMMA NextIInv == IInv /\ [Next]_vars => IInv'
<1> SUFFICES ASSUME IInv, [Next]_vars PROVE IInv'
  OBVIOUS
<1>1. CASE UNCHANGED gaugeVars
  BY <1>1 DEF IInv, gaugeVars, GoodGauge, IsGauge, IsSeq
<1>2. CASE Startup
  BY <1>2, CycleIInv DEF Startup
<1>3. CASE SetMode \/ SetManual
  BY <1>1, <1>3 DEF SetMode, SetManual, Command
<1>4. CASE Reads
  BY <1>4, CycleIInv DEF Reads, RunCycle
<1>5. CASE Misses
  BY <1>5, CycleIInv DEF Misses, RunCycle
<1>6. CASE Output
  BY <1>1, <1>6 DEF Output, Update, SetOutput, Amplify, Send
<1>7. CASE Settle
  BY <1>1, <1>7 DEF Settle
<1>8. CASE UNCHANGED vars
  BY <1>1, <1>8 DEF vars
<1> QED BY <1>2, <1>3, <1>4, <1>5, <1>6, <1>7, <1>8 DEF Next

\* IInv is an invariant of the specification.
LEMMA SpecIInv == Spec => []IInv
  BY InitIInv, NextIInv, PTL DEF Spec

\* The buffers of cycle_100ms never reach their sizes.
THEOREM BuffersStayBounded == Spec => []BuffersAreBounded
<1>1. IInv => BuffersAreBounded
  BY DEF IInv, BuffersAreBounded
<1> QED BY <1>1, SpecIInv, PTL

\* No counter of the state machine is past its threshold in normal operation, and a
\* refill is only detected with a counter that is.
THEOREM CountersStayInRange == Spec => []CountersAreInRange
<1>1. IInv => CountersAreInRange
  BY DEF IInv, GoodGauge, CountersAreInRange
<1> QED BY <1>1, SpecIInv, PTL

-----------------------------------------------------------------------------
(* What is sent out *)

\* What Cyc100ms has already done of an output is what mode, manual value and sensor value
\* call for, or a command fell into it.
Wanted == OutputLevel(mode, manual, read)

OutputInv ==
  /\ cyc.at = "boot" => ~ overtaken
  /\ cyc.at = "output" => overtaken \/ cyc.value = Wanted
  /\ cyc.at = "amplify" => overtaken \/ voltage = OutputVoltage(Wanted)
  /\ cyc.at = "send" => overtaken \/ cyc.value = DacVoltage(OutputVoltage(Wanted))
  /\ OutputIsCurrent

\* A command sends at once; only an output that is under way is overtaken by it.
LEMMA CommandKeepsOutput ==
  ASSUME OutputInv, NEW m, NEW byHand, Command(m, byHand)
  PROVE  OutputInv'
<1>1. /\ mode' = m /\ manual' = byHand /\ read' = read /\ cyc' = cyc
      /\ cyc.at # "boot" /\ overtaken' = (cyc.at # "idle")
      /\ dac' = DacVoltage(OutputVoltage(OutputLevel(m, byHand, read)))
  BY DEF Command, SendAtOnce
<1>2. Wanted' = OutputLevel(m, byHand, read)
  BY <1>1 DEF Wanted
<1> QED BY <1>1, <1>2 DEF OutputInv, OutputIsCurrent, Wanted, OutputLevel

\* A cycle of the gauge that signals begins an output, another one leaves it alone.
LEMMA CycleKeepsOutput ==
  ASSUME OutputInv, NEW reading, RunCycle(reading)
  PROVE  OutputInv'
<1>1. CASE Signals(reading)
  <2>1. cyc'.at = "update"
    BY <1>1 DEF RunCycle
  <2> QED BY <2>1 DEF OutputInv, OutputIsCurrent
<1>2. CASE ~ Signals(reading)
  BY <1>2 DEF RunCycle, OutputInv, OutputIsCurrent, Wanted
<1> QED BY <1>1, <1>2

\* Each step of an output goes on from what the one before has done.
LEMMA SendingKeepsOutput == OutputInv /\ Output => OutputInv'
<1> SUFFICES ASSUME OutputInv, Output PROVE OutputInv'
  OBVIOUS
<1> USE DEF OutputInv, OutputIsCurrent, Wanted
<1>1. CASE Update
  BY <1>1 DEF Update
<1>2. CASE SetOutput
  BY <1>2 DEF SetOutput
<1>3. CASE Amplify
  BY <1>3 DEF Amplify
<1>4. CASE Send
  BY <1>4 DEF Send, Idle
<1> QED BY <1>1, <1>2, <1>3, <1>4 DEF Output

LEMMA NextKeepsOutput == OutputInv /\ [Next]_vars => OutputInv'
<1> SUFFICES ASSUME OutputInv, [Next]_vars PROVE OutputInv'
  OBVIOUS
<1>1. CASE Startup
  <2>1. /\ cyc.at = "boot" /\ cyc'.at = "idle" /\ overtaken' = overtaken
        /\ mode' = mode /\ manual' = manual
        /\ dac' = DacVoltage(OutputVoltage(OutputLevel(mode, manual, read')))
    BY <1>1 DEF Startup, SendAtOnce, Idle
  <2> QED BY <2>1 DEF OutputInv, OutputIsCurrent
<1>2. CASE SetMode \/ SetManual
  BY <1>2, CommandKeepsOutput DEF SetMode, SetManual
<1>3. CASE Reads \/ Misses
  BY <1>3, CycleKeepsOutput DEF Reads, Misses
<1>4. CASE Output
  BY <1>4, SendingKeepsOutput
<1>5. CASE Settle \/ UNCHANGED vars
  BY <1>5 DEF Settle, vars, outVars, OutputInv, OutputIsCurrent, Wanted
<1> QED BY <1>1, <1>2, <1>3, <1>4, <1>5 DEF Next

\* Between two outputs the DAC has what mode, manual value and sensor value call for, unless
\* a command fell into the last one, whatever the curves and the gauge make of the readings.
THEOREM OutputStaysCurrent == Spec => []OutputIsCurrent
<1>1. Init => OutputInv
  BY DEF Init, OutputInv, OutputIsCurrent
<1>2. OutputInv => OutputIsCurrent
  BY DEF OutputInv
<1> QED BY <1>1, <1>2, NextKeepsOutput, PTL DEF Spec
-----------------------------------------------------------------------------
(* The types *)

Pairs == [value : Int, weight : Nat]

Gauges == [state : States, higher : Nat, lower : Nat, slightly : Nat, fuel : Int]

\* The voltage at the divider is at most that of the supply.
LEMMA ResistanceType ==
  ASSUME NEW adc \in AdcValue
  PROVE  Resistance((Supply * adc) \div AdcMax) \in Int
<1>1. AdcMax \in Nat \ {0} /\ adc \in 0 .. AdcMax /\ Supply \in Nat /\ Resistor \in Nat
  BY FuelAssumption
<1> DEFINE a == Supply * adc
           v == a \div AdcMax
<1>2. v \in Nat /\ v <= Supply
  <2>1. a \in Nat /\ a <= AdcMax * Supply
    BY <1>1
  <2> HIDE DEF a
  <2> QED BY ONLY <1>1, <2>1, DivisionBounds
<1> HIDE DEF v
<1>3. CASE v = Supply
  BY <1>1, <1>3 DEF Resistance, v
<1>4. CASE v # Supply
  <2> DEFINE d == Supply - v
             b == Resistor * Supply
  <2>1. d \in Nat \ {0} /\ b \in Nat
    BY <1>1, <1>2, <1>4
  <2> HIDE DEF d, b
  <2>2. b \div d \in Int
    BY <2>1
  <2>3. Resistance(v) = b \div d - Resistor
    BY <1>4 DEF Resistance, b, d
  <2> QED BY <1>1, <2>2, <2>3 DEF v
<1> QED BY <1>3, <1>4

LEMMA ReadingsAreIntegers == Readings \subseteq Int
<1>1. InputCurve \in Curves
  BY FuelAssumption DEF Curves
<1>2. ASSUME NEW adc \in AdcValue PROVE Level(adc) \in Int
  <2> DEFINE y == Resistance((Supply * adc) \div AdcMax)
  <2>1. y \in Int
    BY ResistanceType
  <2> HIDE DEF y
  <2>2. GetX(InputCurve, y) \in Int
    BY <1>1, <2>1, GetXType
  <2> QED BY <2>2 DEF Level, y
<1> QED BY <1>2 DEF Readings

LEMMA ReadingsAsNumbers == \A s \in Seq(Readings) : s \in Seq(Int)
<1> TAKE s \in Seq(Readings)
<1>1. s \in [1 .. Len(s) -> Readings] /\ Len(s) \in Nat
  OBVIOUS
<1>2. s \in [1 .. Len(s) -> Int]
  BY <1>1, ReadingsAreIntegers
<1> QED BY <1>1, <1>2

\* One more element, and the first one off.
LEMMA AppendedAndCut ==
  ASSUME NEW S, NEW s \in Seq(S), NEW x \in S
  PROVE  Append(s, x) \in Seq(S) /\ Tail(Append(s, x)) \in Seq(S)
<1>1. Append(s, x) \in Seq(S) /\ Append(s, x) # << >>
  BY AppendProperties
<1> QED BY <1>1

\* What is filtered from readings can become an average, whose weight is a square.
LEMMA WeighedType ==
  ASSUME NEW s \in Seq(Readings)
  PROVE  Filtered(s).average \in Int /\ Weighed(Filtered(s)) \in Pairs
<1> DEFINE f == Filtered(s)
<1>1. s \in Seq(Int)
  BY ReadingsAsNumbers
<1>2. MinimumReadings \in Nat /\ MaxDistance \in Int /\ FullRange \in Int
  BY FuelAssumption
<1>3. f.average \in Int /\ f.gap \in Nat
  BY <1>1, <1>2, OutliersRemoved DEF Filtered, Results
<1> HIDE DEF f
<1> DEFINE d == FullRange - f.gap
<1>4. d \in Int
  BY <1>2, <1>3
<1> HIDE DEF d
<1>5. d * d \in Nat
  <2>1. CASE d >= 0
    BY <1>4, <2>1
  <2>2. CASE d < 0
    BY <1>4, <2>2
  <2> QED BY <1>4, <2>1, <2>2
<1>6. Weighed(f) = [value |-> f.average, weight |-> d * d]
  BY DEF Weighed, d
<1>7. Weighed(f) \in Pairs
  BY <1>3, <1>5, <1>6 DEF Pairs
<1> QED BY <1>3, <1>7 DEF f

LEMMA AveragedType ==
  ASSUME NEW s \in Seq(Readings), averages \in Seq(Pairs)
  PROVE  Averaged(s) \in Seq(Pairs)
<1> DEFINE p == Weighed(Filtered(s))
<1>1. p \in Pairs
  BY WeighedType
<1> HIDE DEF p
<1>2. Append(averages, p) \in Seq(Pairs) /\ Tail(Append(averages, p)) \in Seq(Pairs)
  BY <1>1, AppendedAndCut
<1>3. Buffered(averages, p) \in Seq(Pairs)
  BY <1>2 DEF Buffered
<1> QED BY <1>3 DEF Averaged, p

\* The average of a buffer, also of an empty one.
LEMMA BufferAverageType ==
  ASSUME NEW buffer \in Seq(Pairs)
  PROVE  WeightedAverage(buffer) \in Int
<1>1. /\ Len(buffer) \in Nat /\ DOMAIN buffer = 1 .. Len(buffer)
      /\ \A i \in 1 .. Len(buffer) : buffer[i] \in Pairs
  BY LenProperties, ElementOfSeq
<1>2. \A i \in 1 .. Len(buffer) : buffer[i].value \in Int /\ buffer[i].weight \in Int
  BY <1>1 DEF Pairs
<1> QED BY <1>1, <1>2, WeightedAverageType

LEMMA CalibratedType ==
  ASSUME NEW g \in Gauges, NEW readings \in Seq(Readings), NEW buffer \in Seq(Pairs)
  PROVE  Calibrated(g, readings, buffer) \in Gauges
<1> DEFINE value == IF buffer = << >> THEN Filtered(readings).average
                                      ELSE WeightedAverage(buffer)
<1>1. value \in Int
  BY WeighedType, BufferAverageType
<1>2. \/ Calibrated(g, readings, buffer) = g
      \/ Calibrated(g, readings, buffer) = [g EXCEPT !.fuel = value]
      \/ Calibrated(g, readings, buffer)
           = [g EXCEPT !.fuel = value, !.state = "NormalOperation", !.higher = 0, !.lower = 0]
  BY DEF Calibrated
<1> HIDE DEF value
<1>3. [g EXCEPT !.fuel = value] \in Gauges
  BY <1>1 DEF Gauges
<1>4. [g EXCEPT !.fuel = value, !.state = "NormalOperation", !.higher = 0, !.lower = 0]
        \in Gauges
  BY <1>1 DEF Gauges, States
<1> QED BY <1>2, <1>3, <1>4

\* A comparison leaves the value alone or takes it down by a step.
LEMMA ComparedFuel ==
  ASSUME NEW g \in Gauges, NEW average
  PROVE  LET c == Compared(g, average)
         IN  /\ c \in Gauges /\ c.state = g.state
             /\ c.fuel = g.fuel \/ c.fuel = Max({0, g.fuel - UpdateThreshold})
<1> DEFINE c == Compared(g, average)
           e == Expected(g, average)
           low == Max({0, g.fuel - UpdateThreshold})
<1>1. e \in Gauges /\ e.state = g.state
  BY ExpectedShape DEF Gauges
<1>2. e.fuel = g.fuel
  BY DEF Expected, Counted, Gauges
<1>3. low \in Int
  <2>1. g.fuel - UpdateThreshold \in Int /\ 0 \in Int
    BY FuelAssumption DEF Gauges
  <2> QED BY <2>1, MaxOfTwo
<1>4. \/ c = [g EXCEPT !.higher = @ + 1]
      \/ c = [g EXCEPT !.lower = @ + 1]
      \/ c = e
      \/ c = [e EXCEPT !.slightly = 0, !.fuel = low]
  BY <1>2 DEF Compared
<1> HIDE DEF c, e, low
<1>5. c \in Gauges /\ c.state = g.state /\ (c.fuel = g.fuel \/ c.fuel = low)
  <2>1. CASE c = [g EXCEPT !.higher = @ + 1]
    BY <2>1 DEF Gauges
  <2>2. CASE c = [g EXCEPT !.lower = @ + 1]
    BY <2>2 DEF Gauges
  <2>3. CASE c = e
    BY <1>1, <1>2, <2>3
  <2>4. CASE c = [e EXCEPT !.slightly = 0, !.fuel = low]
    BY <1>1, <1>3, <2>4 DEF Gauges
  <2> QED BY <1>4, <2>1, <2>2, <2>3, <2>4
<1> QED BY <1>5 DEF c, low

\* So does the judgement of a new average.
LEMMA JudgedFuel ==
  ASSUME NEW g \in Gauges, NEW buffer
  PROVE  LET j == Judged(g, buffer)
         IN  /\ j \in Gauges
             /\ j.fuel = g.fuel \/ j.fuel = Max({0, g.fuel - UpdateThreshold})
<1>1. CASE g.state = "NormalOperation"
  <2> DEFINE c == Compared(g, WeightedAverage(buffer))
             w == Watched(c)
  <2>1. Judged(g, buffer) = w
    BY <1>1 DEF Judged
  <2>2. /\ c \in Gauges /\ (c.fuel = g.fuel \/ c.fuel = Max({0, g.fuel - UpdateThreshold}))
    BY ComparedFuel
  <2> HIDE DEF c
  <2>3. w \in Gauges /\ w.fuel = c.fuel
    BY <2>2 DEF Watched, Gauges, States
  <2> HIDE DEF w
  <2> QED BY <2>1, <2>2, <2>3
<1>2. CASE g.state \in {"RefillDetected", "ErrorRecovery"}
  <2>1. Judged(g, buffer) = Recalibrate(g)
    BY <1>2 DEF Judged
  <2>2. [g EXCEPT !.lower = 0, !.slightly = 0, !.state = "Starting"] \in Gauges
    BY DEF Gauges, States
  <2>3. Recalibrate(g) \in Gauges /\ Recalibrate(g).fuel = g.fuel
    BY <2>2 DEF Recalibrate, Gauges
  <2> QED BY <2>1, <2>3
<1>3. CASE g.state \notin {"NormalOperation", "RefillDetected", "ErrorRecovery"}
  BY <1>3 DEF Judged
<1> QED BY <1>1, <1>2, <1>3

\* The types, with those of the elements of the buffer.
TypeInv == TypeOK /\ averages \in Seq(Pairs)

\* A cycle that was given a reading or none.
LEMMA CycleTypes ==
  ASSUME raw \in Seq(Readings), averages \in Seq(Pairs), gauge \in Gauges,
         NEW reading \in Readings \cup {NoReading}, Cycle(reading)
  PROVE  raw' \in Seq(Readings) /\ averages' \in Seq(Pairs) /\ gauge' \in Gauges
<1> DEFINE readings == Received(reading)
           buffer   == Averaged(readings)
           calibrated == Calibrated(gauge, Left(readings), buffer)
<1>1. readings \in Seq(Readings)
  BY DEF Received
<1>2. buffer \in Seq(Pairs)
  BY <1>1, AveragedType
<1>3. Left(readings) \in Seq(Readings)
  <2> HIDE DEF readings
  <2>1. CASE Enough(readings)
    <3>1. readings # << >>
      BY <2>1, FuelAssumption DEF Enough
    <3>2. Tail(readings) \in Seq(Readings)
      BY <1>1, <3>1
    <3> QED BY <1>1, <3>2 DEF Left
  <2>2. CASE ~ Enough(readings)
    BY <1>1, <2>2 DEF Left
  <2> QED BY <2>1, <2>2
<1>4. raw' = Left(readings) /\ averages' = buffer
      /\ (gauge' = calibrated \/ gauge' = Judged(calibrated, buffer))
  BY DEF Cycle
<1> HIDE DEF readings, buffer
<1>5. calibrated \in Gauges
  BY <1>2, <1>3, CalibratedType
<1> HIDE DEF calibrated
<1>6. Judged(calibrated, buffer) \in Gauges
  BY <1>5, JudgedFuel
<1> QED BY <1>2, <1>3, <1>4, <1>5, <1>6

LEMMA TypeInvForms ==
  TypeInv <=> /\ raw \in Seq(Readings) /\ averages \in Seq(Pairs) /\ gauge \in Gauges
              /\ mode \in {"conversion", "manual"} /\ manual \in ManualLevel \cup {0}
              /\ read \in Int /\ voltage \in Int /\ dac \in Int
              /\ cyc \in [at : {"boot", "idle", "update", "output", "amplify", "send"},
                          value : Int]
              /\ overtaken \in BOOLEAN /\ settled \in Levels
<1>1. ASSUME averages \in Seq(Pairs), NEW i \in DOMAIN averages
      PROVE  averages[i].value \in Int /\ averages[i].weight \in Nat
  <2>1. averages[i] \in Pairs
    BY <1>1
  <2> QED BY <2>1 DEF Pairs
<1> QED BY <1>1 DEF TypeInv, TypeOK, Gauges

\* Whatever the level, there is a voltage for it.
LEMMA VoltageTypes ==
  /\ \A level \in Int : OutputVoltage(level) \in Int
  /\ \A output \in Int : DacVoltage(output) \in Int
<1>1. OutputCurve \in Curves /\ AmplifyingFactor \in Int /\ AmplifyingFactor # 0
  BY ConverterAssumption DEF Curves
<1>2. ASSUME NEW level \in Int PROVE OutputVoltage(level) \in Int
  BY <1>1, GetYType DEF OutputVoltage
<1>3. ASSUME NEW output \in Int PROVE DacVoltage(output) \in Int
  <2>1. output * 1000 \in Int
    OBVIOUS
  <2> QED BY <1>1, <2>1, QuotientType DEF DacVoltage
<1> QED BY <1>2, <1>3

LEMMA InitTypeInv == Init => TypeInv
<1> SUFFICES ASSUME Init PROVE TypeInv
  OBVIOUS
<1>1. gauge \in Gauges
  BY DEF Init, GaugeInit, Gauges, States
<1>2. raw \in Seq(Readings) /\ averages \in Seq(Pairs)
  BY DEF Init, GaugeInit
<1>3. /\ mode \in {"conversion", "manual"} /\ manual \in ManualLevel \cup {0}
      /\ read \in Int /\ voltage \in Int /\ dac \in Int /\ overtaken \in BOOLEAN
      /\ settled \in Levels
  <2>1. mode \in {"conversion", "manual"} /\ manual \in ManualLevel \cup {0}
    BY DEF Init
  <2>2. read \in Int /\ voltage \in Int /\ dac \in Int
    BY DEF Init
  <2>3. overtaken \in BOOLEAN
    BY DEF Init
  <2>4. settled \in Levels
    BY DEF Init, Levels
  <2> QED BY <2>1, <2>2, <2>3, <2>4
<1>4. cyc \in [at : {"boot", "idle", "update", "output", "amplify", "send"}, value : Int]
  BY DEF Init
<1> QED BY <1>1, <1>2, <1>3, <1>4, TypeInvForms

LEMMA NextTypeInv == TypeInv /\ [Next]_vars => TypeInv'
<1> SUFFICES ASSUME TypeInv, [Next]_vars PROVE TypeInv'
  OBVIOUS
<1>1. /\ raw \in Seq(Readings) /\ averages \in Seq(Pairs) /\ gauge \in Gauges
      /\ mode \in {"conversion", "manual"} /\ manual \in ManualLevel \cup {0}
      /\ read \in Int /\ voltage \in Int /\ dac \in Int
      /\ cyc \in [at : {"boot", "idle", "update", "output", "amplify", "send"}, value : Int]
      /\ overtaken \in BOOLEAN /\ settled \in Levels
  BY TypeInvForms
<1> DEFINE Goal ==
      /\ raw' \in Seq(Readings) /\ averages' \in Seq(Pairs) /\ gauge' \in Gauges
      /\ mode' \in {"conversion", "manual"} /\ manual' \in ManualLevel \cup {0}
      /\ read' \in Int /\ voltage' \in Int /\ dac' \in Int
      /\ cyc' \in [at : {"boot", "idle", "update", "output", "amplify", "send"}, value : Int]
      /\ overtaken' \in BOOLEAN /\ settled' \in Levels
<1>2. Goal => TypeInv'
  <2>1. ASSUME averages' \in Seq(Pairs), NEW i \in DOMAIN averages'
        PROVE  averages'[i].value \in Int /\ averages'[i].weight \in Nat
    <3>1. averages'[i] \in Pairs
      BY <2>1
    <3> QED BY <3>1 DEF Pairs
  <2> QED BY <2>1 DEF TypeInv, TypeOK, Gauges
<1> SUFFICES Goal
  BY <1>2
<1>3. manual \in Int /\ \A m, sensor : sensor \in Int => OutputLevel(m, manual, sensor) \in Int
  BY <1>1, ConverterAssumption DEF OutputLevel
<1>4. CASE Startup
  <2>1. PICK reading \in Readings \cup {NoReading} :
          /\ Cycle(reading) /\ read' = gauge'.fuel
          /\ SendAtOnce(OutputLevel(mode, manual, gauge'.fuel))
    BY <1>4 DEF Startup
  <2>2. raw' \in Seq(Readings) /\ averages' \in Seq(Pairs) /\ gauge' \in Gauges
    BY <1>1, <2>1, CycleTypes
  <2>3. read' \in Int
    BY <2>1, <2>2 DEF Gauges
  <2>4. voltage' \in Int /\ dac' \in Int
    <3>1. OutputLevel(mode, manual, gauge'.fuel) \in Int
      BY <1>3, <2>1, <2>3
    <3> QED BY <2>1, <3>1, VoltageTypes DEF SendAtOnce
  <2> QED BY <1>1, <1>4, <2>2, <2>3, <2>4 DEF Startup, Idle
<1>5. ASSUME NEW m \in {"conversion", "manual"}, NEW byHand \in ManualLevel \cup {0},
             Command(m, byHand)
      PROVE  Goal
  <2>1. OutputLevel(m, byHand, read) \in Int
    BY <1>1, <1>5, ConverterAssumption DEF OutputLevel
  <2>2. voltage' \in Int /\ dac' \in Int
    BY <1>5, <2>1, VoltageTypes DEF Command, SendAtOnce
  <2> QED BY <1>1, <1>5, <2>2 DEF Command, gaugeVars
<1>6. CASE SetMode \/ SetManual
  BY <1>1, <1>5, <1>6 DEF SetMode, SetManual
<1>7. ASSUME NEW reading \in Readings \cup {NoReading}, RunCycle(reading)
      PROVE  Goal
  <2>1. raw' \in Seq(Readings) /\ averages' \in Seq(Pairs) /\ gauge' \in Gauges
    BY <1>1, <1>7, CycleTypes DEF RunCycle
  <2>2. read' \in Int
    BY <1>1, <1>7, <2>1 DEF RunCycle, Gauges
  <2> QED BY <1>1, <1>7, <2>1, <2>2 DEF RunCycle
<1>8. CASE Reads \/ Misses
  BY <1>7, <1>8 DEF Reads, Misses
<1>9. CASE Update
  BY <1>1, <1>3, <1>9 DEF Update, gaugeVars
<1>10. CASE SetOutput
  BY <1>1, <1>10, VoltageTypes DEF SetOutput, gaugeVars
<1>11. CASE Amplify
  BY <1>1, <1>11, VoltageTypes DEF Amplify, gaugeVars
<1>12. CASE Send
  BY <1>1, <1>12 DEF Send, Idle, gaugeVars
<1>13. CASE Settle
  BY <1>1, <1>13 DEF Settle, gaugeVars, outVars, Levels
<1>14. CASE UNCHANGED vars
  BY <1>1, <1>14 DEF vars, gaugeVars, outVars
<1> QED BY <1>4, <1>6, <1>8, <1>9, <1>10, <1>11, <1>12, <1>13, <1>14 DEF Next, Output

LEMMA SpecTypeInv == Spec => []TypeInv
  BY InitTypeInv, NextTypeInv, PTL DEF Spec

\* The variables keep their types, for every sensor, curve and divider: levels, averages,
\* and voltages are numbers, although the divider divides by zero at full scale, and the
\* weights of the averages, by which is divided, are not negative.
THEOREM TypeCorrect == Spec => []TypeOK
<1>1. TypeInv => TypeOK
  BY DEF TypeInv
<1> QED BY <1>1, SpecTypeInv, PTL

-----------------------------------------------------------------------------
(* The value on display *)

\* Who takes a step with the gauge.
LEMMA GaugeSteps ==
  ASSUME [Next]_vars
  PROVE  \/ \E reading \in Readings \cup {NoReading} : Cycle(reading)
         \/ UNCHANGED gaugeVars
<1>1. CASE Startup
  BY <1>1 DEF Startup
<1>2. CASE SetMode \/ SetManual
  BY <1>2 DEF SetMode, SetManual, Command
<1>3. CASE Reads \/ Misses
  BY <1>3 DEF Reads, Misses, RunCycle
<1>4. CASE Output
  BY <1>4 DEF Output, Update, SetOutput, Amplify, Send
<1>5. CASE Settle \/ UNCHANGED vars
  BY <1>5 DEF Settle, vars
<1> QED BY <1>1, <1>2, <1>3, <1>4, <1>5 DEF Next

\* In normal operation the value on display only falls, by no more than a step at a time,
\* except from below empty to empty, whatever the averages are.
THEOREM NormalOperationOnlyLowers == Spec => NormalOnlyLowers
<1> DEFINE A == gauge.state = "NormalOperation" /\ gauge'.state = "NormalOperation" =>
                  /\ gauge'.fuel <= Max({0, gauge.fuel})
                  /\ gauge.fuel - gauge'.fuel <= UpdateThreshold
<1>1. TypeInv /\ [Next]_vars => A
  <2> SUFFICES ASSUME TypeInv, [Next]_vars, gauge.state = "NormalOperation"
               PROVE  /\ gauge'.fuel <= Max({0, gauge.fuel})
                      /\ gauge.fuel - gauge'.fuel <= UpdateThreshold
    OBVIOUS
  <2>1. gauge \in Gauges /\ gauge.fuel \in Int /\ UpdateThreshold \in Nat /\ 0 \in Int
    BY TypeInvForms, FuelAssumption DEF Gauges
  <2> DEFINE f == gauge.fuel
             t == f - UpdateThreshold
  <2>2. t \in Int
    BY <2>1
  <2>3. Max({0, f}) = IF 0 >= f THEN 0 ELSE f
    BY <2>1, MaxOfTwo
  <2>4. Max({0, t}) = IF 0 >= t THEN 0 ELSE t
    BY <2>1, <2>2, MaxOfTwo
  <2>5. gauge'.fuel = f \/ gauge'.fuel = Max({0, t})
    <3>1. CASE UNCHANGED gaugeVars
      BY <3>1 DEF gaugeVars
    <3>2. ASSUME NEW reading \in Readings \cup {NoReading}, Cycle(reading)
          PROVE  gauge'.fuel = f \/ gauge'.fuel = Max({0, t})
      <4> DEFINE readings == Received(reading)
                 buffer   == Averaged(readings)
                 calibrated == Calibrated(gauge, Left(readings), buffer)
      <4>1. calibrated = gauge
        BY DEF Calibrated
      <4>2. gauge' = gauge \/ gauge' = Judged(gauge, buffer)
        BY <3>2, <4>1 DEF Cycle
      <4> HIDE DEF buffer
      <4> QED BY <2>1, <4>2, JudgedFuel
    <3> QED BY <3>1, <3>2, GaugeSteps
  <2> QED BY <2>1, <2>3, <2>4, <2>5
<1>2. TypeInv /\ [Next]_vars => [A]_vars
  BY <1>1
<1> QED BY <1>2, SpecTypeInv, PTL DEF Spec, NormalOnlyLowers

\* What is judged by the average that it already has does not change.
LEMMA JudgedByItself ==
  ASSUME NEW g \in Gauges, NEW buffer,
         g.state = "NormalOperation", g.higher = 0, g.lower = 0,
         g.slightly <= LowerThreshold, g.fuel = WeightedAverage(buffer)
  PROVE  Judged(g, buffer) = g
<1> DEFINE a == WeightedAverage(buffer)
<1>1. /\ ThresholdUp \in Nat /\ ThresholdDown \in Nat /\ UpdateThreshold \in Nat
      /\ ErrorThreshold \in Nat /\ LowerThreshold \in Nat
  BY FuelAssumption
<1>2. a \in Int /\ g.fuel = a /\ g.slightly \in Nat
  BY DEF Gauges
<1>3. Expected(g, a) = g
  <2>1. [g EXCEPT !.higher = Reduced(@), !.lower = Reduced(@)] = g
    <3>1. Reduced(0) = 0
      BY DEF Reduced
    <3> QED BY <3>1 DEF Gauges
  <2>2. Counted(g, a) = g
    BY <1>1, <1>2 DEF Counted
  <2> QED BY <2>1, <2>2 DEF Expected
<1>4. ~ Steps(g, a)
  BY <1>1, <1>2, <1>3 DEF Steps
<1>5. Compared(g, a) = g
  BY <1>1, <1>2, <1>3, <1>4 DEF Compared
<1>6. Watched(g) = g
  BY <1>1 DEF Watched, Gauges
<1> QED BY <1>5, <1>6 DEF Judged

\* A calibration ends with the value at the average of all that is in the buffer, and no
\* error counted.  The average that ends it is judged by the new value; as the two are the
\* same, and the counter of slightly lower averages is within its threshold, that changes
\* nothing.
THEOREM CalibrationStaysExact == Spec => CalibrationIsExact
<1> DEFINE A == gauge.state = "Starting" /\ gauge'.state = "NormalOperation" =>
                  /\ gauge'.fuel = WeightedAverage(averages')
                  /\ gauge'.higher = 0 /\ gauge'.lower = 0
<1>1. IInv /\ TypeInv /\ [Next]_vars => A
  <2> SUFFICES ASSUME IInv, TypeInv, [Next]_vars,
                      gauge.state = "Starting", gauge'.state = "NormalOperation"
               PROVE  /\ gauge'.fuel = WeightedAverage(averages')
                      /\ gauge'.higher = 0 /\ gauge'.lower = 0
    OBVIOUS
  <2>1. PICK reading \in Readings \cup {NoReading} : Cycle(reading)
    BY GaugeSteps DEF gaugeVars
  <2> DEFINE readings == Received(reading)
             buffer   == Averaged(readings)
             c == Calibrated(gauge, Left(readings), buffer)
  <2>2. averages' = buffer /\ (gauge' = c \/ gauge' = Judged(c, buffer))
    BY <2>1 DEF Cycle
  <2>3. gauge \in Gauges /\ gauge.slightly <= LowerThreshold
    BY TypeInvForms DEF IInv, GoodGauge
  <2>4. CASE Len(buffer) < Calibration
    <3>1. c.state = "Starting"
      BY <2>3, <2>4 DEF Calibrated, Gauges
    <3>2. Judged(c, buffer) = c
      <4> HIDE DEF c
      <4> QED BY <3>1 DEF Judged
    <3> QED BY <2>2, <3>1, <3>2
  <2>5. CASE ~ (Len(buffer) < Calibration)
    <3>1. buffer # << >>
      BY <2>5, FuelAssumption
    <3>2. c = [gauge EXCEPT !.fuel = WeightedAverage(buffer), !.state = "NormalOperation",
                            !.higher = 0, !.lower = 0]
      BY <2>5, <3>1 DEF Calibrated
    <3>3. WeightedAverage(buffer) \in Int
      <4>1. readings \in Seq(Readings)
        BY TypeInvForms DEF Received
      <4>2. buffer \in Seq(Pairs)
        BY <4>1, TypeInvForms, AveragedType
      <4> HIDE DEF buffer
      <4> QED BY <4>2, BufferAverageType
    <3> HIDE DEF c, buffer
    <3>4. /\ c \in Gauges /\ c.state = "NormalOperation" /\ c.higher = 0 /\ c.lower = 0
          /\ c.slightly <= LowerThreshold /\ c.fuel = WeightedAverage(buffer)
      BY <2>3, <3>2, <3>3 DEF Gauges, States
    <3>5. Judged(c, buffer) = c
      BY <3>4, JudgedByItself
    <3> QED BY <2>2, <3>4, <3>5
  <2> QED BY <2>4, <2>5
<1>2. IInv /\ TypeInv /\ [Next]_vars => [A]_vars
  BY <1>1
<1> QED BY <1>2, SpecIInv, SpecTypeInv, PTL DEF Spec, CalibrationIsExact

-----------------------------------------------------------------------------
(* The ends of the scales *)

Low  == Min(InputScale)
High == Max(InputScale)

LEMMA InputEnds ==
  /\ Low \in Int /\ High \in Int /\ Low <= 0 /\ 0 <= High
  /\ \A i \in 1 .. Len(InputCurve) : Low <= InputCurve[i].x /\ InputCurve[i].x <= High
<1> DEFINE n == Len(InputCurve)
           f == [i \in 1 .. n |-> InputCurve[i].x]
<1>1. InputCurve \in Curves
  BY FuelAssumption DEF Curves
<1>2. n \in Nat /\ \A i \in 1 .. n : InputCurve[i].x \in Int
  BY <1>1, SegmentsOfCurve
<1>3. \A i \in 1 .. n : f[i] = InputCurve[i].x /\ f[i] \in Int
  BY <1>2
<1>4. InputScale = {0} \cup {f[i] : i \in 1 .. n}
  BY <1>3 DEF InputScale
<1> HIDE DEF f, n
<1>5. /\ Low \in Int /\ High \in Int /\ Low <= 0 /\ 0 <= High
      /\ \A i \in 1 .. n : Low <= f[i] /\ f[i] <= High
  BY <1>2, <1>3, <1>4, EndsOfScale DEF Low, High
<1> QED BY <1>3, <1>5 DEF n

\* Whatever is put out is looked up.
LEMMA VoltagesAreOnScale ==
  /\ 0 \in Min(OutputScale) .. Max(OutputScale)
  /\ \A level \in Int : OutputVoltage(level) \in Min(OutputScale) .. Max(OutputScale)
<1> DEFINE n  == Len(OutputCurve)
           f  == [i \in 1 .. n |-> OutputCurve[i].y]
           lo == Min(OutputScale)
           hi == Max(OutputScale)
<1>1. OutputCurve \in Curves
  BY ConverterAssumption DEF Curves
<1>2. n \in Nat /\ \A i \in 1 .. n : OutputCurve[i].y \in Int
  BY <1>1, SegmentsOfCurve
<1>3. \A i \in 1 .. n : f[i] = OutputCurve[i].y /\ f[i] \in Int
  BY <1>2
<1>4. OutputScale = {0} \cup {f[i] : i \in 1 .. n}
  BY <1>3 DEF OutputScale
<1> HIDE DEF f, n
<1>5. /\ lo \in Int /\ hi \in Int /\ lo <= 0 /\ 0 <= hi
      /\ \A i \in 1 .. n : lo <= f[i] /\ f[i] <= hi
  BY <1>2, <1>3, <1>4, EndsOfScale
<1>6. \A i \in 1 .. Len(OutputCurve) : lo <= OutputCurve[i].y /\ OutputCurve[i].y <= hi
  BY <1>3, <1>5 DEF n
<1> HIDE DEF lo, hi
<1>7. ASSUME NEW level \in Int PROVE OutputVoltage(level) \in lo .. hi
  <2>1. GetY(OutputCurve, level) \in Int /\ lo <= GetY(OutputCurve, level)
        /\ GetY(OutputCurve, level) <= hi
    BY <1>1, <1>5, <1>6, LookUpIsBetween
  <2> QED BY <1>5, <2>1 DEF OutputVoltage
<1>8. 0 \in lo .. hi
  BY <1>5
<1> QED BY <1>7, <1>8 DEF lo, hi

\* What readings and averages are worth.  An average that is accepted has a weight.
Scaled == {p \in Pairs : p.weight > 0 /\ Low <= p.value /\ p.value <= High}

LEMMA ReadingsAreOnScale ==
  /\ \A reading \in Readings : reading \in Int /\ Low <= reading /\ reading <= High
<1> SUFFICES ASSUME NEW adc \in AdcValue, Level(adc) \in Int
             PROVE  Low <= Level(adc) /\ Level(adc) <= High
  BY ReadingsAreIntegers DEF Readings
<1> DEFINE y == Resistance((Supply * adc) \div AdcMax)
<1>1. InputCurve \in Curves
  BY FuelAssumption DEF Curves
<1>2. y \in Int
  BY ResistanceType
<1> HIDE DEF y
<1>3. Low <= GetX(InputCurve, y) /\ GetX(InputCurve, y) <= High
  BY <1>1, <1>2, InputEnds, ReverseLookUpIsBetween
<1> QED BY <1>3 DEF Level, y

LEMMA FilteredIsOnScale ==
  ASSUME NEW s \in Seq(Readings)
  PROVE  LET average == Filtered(s).average IN Low <= average /\ average <= High
<1> DEFINE average == FilterOutliers(s, MinimumReadings, MaxDistance).average
<1>1. \A j \in DOMAIN s : s[j] \in Readings
  OBVIOUS
<1>2. \A j \in DOMAIN s : Low <= s[j] /\ s[j] <= High
  BY <1>1, ReadingsAreOnScale
<1>3. s \in Seq(Int)
  BY ReadingsAsNumbers
<1>4. MinimumReadings \in Nat /\ MaxDistance \in Int
  BY FuelAssumption
<1>5. Low \in Int /\ High \in Int /\ Low <= 0 /\ 0 <= High
  BY InputEnds
<1>6. average \in Int /\ Low <= average /\ average <= High
  BY ONLY <1>2, <1>3, <1>4, <1>5, FilteredIsBetween
<1> HIDE DEF average
<1>7. Filtered(s).average = average
  BY DEF Filtered, average
<1> QED BY <1>6, <1>7

LEMMA WeighedIsScaled ==
  ASSUME NEW s \in Seq(Readings), Accepted(s)
  PROVE  Weighed(Filtered(s)) \in Scaled
<1> DEFINE f == Filtered(s)
           p == Weighed(f)
<1>1. p \in Pairs /\ f.average \in Int /\ Low <= f.average /\ f.average <= High
  BY WeighedType, FilteredIsOnScale
<1>2. f.gap \in Nat
  <2>1. s \in Seq(Int)
    BY ReadingsAsNumbers
  <2> QED BY <2>1, FuelAssumption, OutliersRemoved DEF Filtered, Results
<1>3. f.gap <= InvalidDistance
  BY DEF Accepted
<1> HIDE DEF f
<1> DEFINE d == FullRange - f.gap
<1>4. d \in Int /\ d > 0
  BY <1>2, <1>3, FuelAssumption
<1>5. p.weight = d * d /\ p.value = f.average
  BY DEF Weighed
<1> HIDE DEF d
<1>6. d * d > 0
  BY <1>4
<1> HIDE DEF p
<1>7. p.weight > 0 /\ Low <= p.value /\ p.value <= High
  BY <1>1, <1>5, <1>6
<1>8. p \in Scaled
  BY <1>1, <1>7 DEF Scaled
<1> QED BY <1>8 DEF p, f

LEMMA BufferIsOnScale ==
  ASSUME NEW buffer \in Seq(Scaled), buffer # << >>
  PROVE  Low <= WeightedAverage(buffer) /\ WeightedAverage(buffer) <= High
<1> DEFINE n == Len(buffer)
<1>1. n \in Nat \ {0} /\ DOMAIN buffer = 1 .. n /\ \A i \in 1 .. n : buffer[i] \in Scaled
  BY EmptySeq, LenProperties, ElementOfSeq
<1>2. \A i \in 1 .. n : /\ buffer[i].value \in Int /\ buffer[i].weight \in Nat
                        /\ Low <= buffer[i].value /\ buffer[i].value <= High
                        /\ buffer[i].weight > 0
  BY <1>1 DEF Scaled, Pairs
<1> HIDE DEF n
<1>3. n \in Nat /\ 1 \in 1 .. n /\ buffer[1].weight > 0
  BY <1>1, <1>2
<1> QED BY <1>1, <1>2, <1>3, InputEnds, WeightedAverageIsBetween

-----------------------------------------------------------------------------
\* The averages in the buffer are on the scale, and so is the value.
ScaleInv ==
  /\ averages \in Seq(Scaled)
  /\ gauge.fuel \in Low .. High
  /\ LevelsAreOnScale

LEMMA CycleStaysOnScale ==
  ASSUME TypeInv, ScaleInv, NEW reading \in Readings \cup {NoReading}, Cycle(reading)
  PROVE  averages' \in Seq(Scaled) /\ gauge'.fuel \in Low .. High
<1> DEFINE readings == Received(reading)
           buffer   == Averaged(readings)
           left     == Left(readings)
           c == Calibrated(gauge, left, buffer)
<1>1. raw \in Seq(Readings) /\ gauge \in Gauges /\ gauge.fuel \in Low .. High
  BY TypeInvForms DEF ScaleInv
<1>2. readings \in Seq(Readings)
  BY <1>1 DEF Received
<1>3. left \in Seq(Readings)
  <2> HIDE DEF readings
  <2>1. CASE Enough(readings)
    <3>1. readings # << >>
      BY <2>1, FuelAssumption DEF Enough
    <3>2. Tail(readings) \in Seq(Readings)
      BY <1>2, <3>1
    <3> QED BY <1>2, <3>2 DEF Left
  <2>2. CASE ~ Enough(readings)
    BY <1>2, <2>2 DEF Left
  <2> QED BY <2>1, <2>2
<1>4. buffer \in Seq(Scaled)
  <2> HIDE DEF readings
  <2>1. CASE Accepted(readings)
    <3> DEFINE p == Weighed(Filtered(readings))
    <3>1. p \in Scaled /\ averages \in Seq(Scaled)
      BY <1>2, <2>1, WeighedIsScaled DEF ScaleInv
    <3>2. buffer = Buffered(averages, p)
      BY <2>1 DEF Averaged
    <3> HIDE DEF p
    <3>3. Append(averages, p) \in Seq(Scaled) /\ Tail(Append(averages, p)) \in Seq(Scaled)
      BY <3>1, AppendedAndCut
    <3> HIDE DEF buffer
    <3> QED BY <3>2, <3>3 DEF Buffered
  <2>2. CASE ~ Accepted(readings)
    BY <2>2 DEF Averaged, ScaleInv
  <2> QED BY <2>1, <2>2
<1>5. averages' = buffer /\ (gauge' = c \/ gauge' = Judged(c, buffer))
  BY DEF Cycle
<1>6. buffer \in Seq(Pairs)
  BY <1>2, TypeInvForms, AveragedType
<1> HIDE DEF buffer, left, readings
<1> DEFINE value == IF buffer = << >> THEN Filtered(left).average ELSE WeightedAverage(buffer)
<1>7. value \in Low .. High
  <2>1. value \in Int
    BY <1>3, <1>6, WeighedType, BufferAverageType
  <2>2. Low <= value /\ value <= High
    BY <1>3, <1>4, FilteredIsOnScale, BufferIsOnScale
  <2> QED BY <2>1, <2>2, InputEnds
<1>8. c \in Gauges /\ c.fuel \in Low .. High
  <2>1. c \in Gauges
    BY <1>1, <1>3, <1>6, CalibratedType
  <2>2. c.fuel = gauge.fuel \/ c.fuel = value
    <3> HIDE DEF value
    <3>1. \/ c = gauge \/ c = [gauge EXCEPT !.fuel = value]
          \/ c = [gauge EXCEPT !.fuel = value, !.state = "NormalOperation", !.higher = 0,
                               !.lower = 0]
      BY DEF Calibrated, value
    <3> QED BY <1>1, <3>1 DEF Gauges
  <2> QED BY <1>1, <1>7, <2>1, <2>2
<1> HIDE DEF c
<1>9. Judged(c, buffer).fuel \in Low .. High
  <2> DEFINE t == c.fuel - UpdateThreshold
             u == Max({0, t})
  <2>1. c.fuel \in Int /\ UpdateThreshold \in Nat
    BY <1>8, InputEnds, FuelAssumption
  <2>2. t \in Int /\ 0 \in Int /\ t <= c.fuel
    BY <2>1
  <2> HIDE DEF t
  <2>3. u = IF 0 >= t THEN 0 ELSE t
    BY <2>2, MaxOfTwo
  <2> HIDE DEF u
  <2>4. u \in Low .. High
    BY <1>8, <2>1, <2>2, <2>3, InputEnds
  <2>5. Judged(c, buffer).fuel = c.fuel \/ Judged(c, buffer).fuel = u
    BY <1>8, JudgedFuel DEF t, u
  <2> QED BY <1>8, <2>4, <2>5
<1> QED BY <1>4, <1>5, <1>8, <1>9

LEMMA InitScaleInv == Init => ScaleInv
<1> SUFFICES ASSUME Init PROVE ScaleInv
  OBVIOUS
<1>1. averages = << >> /\ gauge.fuel = 0 /\ read = 0 /\ voltage = 0
  BY DEF Init, GaugeInit
<1>2. 0 \in Low .. High
  BY InputEnds
<1>3. averages \in Seq(Scaled)
  BY <1>1
<1> QED BY <1>1, <1>2, <1>3, VoltagesAreOnScale DEF ScaleInv, LevelsAreOnScale, Low, High

LEMMA NextScaleInv == TypeInv /\ ScaleInv /\ [Next]_vars => ScaleInv'
<1> SUFFICES ASSUME TypeInv, ScaleInv, [Next]_vars PROVE ScaleInv'
  OBVIOUS
<1> DEFINE OnOutput(v) == v \in Min(OutputScale) .. Max(OutputScale)
<1>1. /\ averages \in Seq(Scaled) /\ gauge.fuel \in Low .. High /\ read \in Low .. High
      /\ OnOutput(voltage)
  BY DEF ScaleInv, LevelsAreOnScale, Low, High
<1>2. ASSUME averages' \in Seq(Scaled), gauge'.fuel \in Low .. High, read' \in Low .. High,
             OnOutput(voltage')
      PROVE  ScaleInv'
  BY <1>2 DEF ScaleInv, LevelsAreOnScale, Low, High
<1>3. /\ read \in Int /\ manual \in Int /\ cyc.value \in Int
      /\ \A m, sensor : sensor \in Int => OutputLevel(m, manual, sensor) \in Int
  <2>1. read \in Int /\ manual \in Int
    <3>1. read \in Int /\ manual \in ManualLevel \cup {0}
      BY TypeInvForms
    <3> QED BY <3>1, ConverterAssumption
  <2>2. cyc.value \in Int
    <3>1. cyc \in [at : {"boot", "idle", "update", "output", "amplify", "send"}, value : Int]
      BY TypeInvForms
    <3> QED BY <3>1
  <2> QED BY <2>1, <2>2 DEF OutputLevel
<1>4. \A level \in Int : OnOutput(OutputVoltage(level))
  BY VoltagesAreOnScale
<1> HIDE DEF OnOutput
<1>5. CASE Startup
  <2>1. PICK reading \in Readings \cup {NoReading} :
          /\ Cycle(reading) /\ read' = gauge'.fuel
          /\ SendAtOnce(OutputLevel(mode, manual, gauge'.fuel))
    BY <1>5 DEF Startup
  <2>2. averages' \in Seq(Scaled) /\ gauge'.fuel \in Low .. High
    BY <2>1, CycleStaysOnScale
  <2>3. OutputLevel(mode, manual, gauge'.fuel) \in Int
    BY <1>3, <2>2, InputEnds
  <2>4. OnOutput(voltage')
    BY <1>4, <2>1, <2>3 DEF SendAtOnce
  <2> QED BY <1>2, <2>1, <2>2, <2>4
<1>6. ASSUME NEW m, NEW byHand \in Int, Command(m, byHand) PROVE ScaleInv'
  <2>1. OutputLevel(m, byHand, read) \in Int
    BY <1>3 DEF OutputLevel
  <2>2. OnOutput(voltage')
    BY <1>4, <1>6, <2>1 DEF Command, SendAtOnce
  <2>3. UNCHANGED <<averages, gauge, read>>
    BY <1>6 DEF Command, gaugeVars
  <2> QED BY <1>1, <1>2, <2>2, <2>3
<1>7. CASE SetMode \/ SetManual
  BY <1>3, <1>6, <1>7, ConverterAssumption DEF SetMode, SetManual
<1>8. ASSUME NEW reading \in Readings \cup {NoReading}, RunCycle(reading) PROVE ScaleInv'
  <2>1. averages' \in Seq(Scaled) /\ gauge'.fuel \in Low .. High
    BY <1>8, CycleStaysOnScale DEF RunCycle
  <2>2. (read' = read \/ read' = gauge'.fuel) /\ voltage' = voltage
    BY <1>8 DEF RunCycle
  <2> QED BY <1>1, <1>2, <2>1, <2>2
<1>9. CASE Reads \/ Misses
  BY <1>8, <1>9 DEF Reads, Misses
<1>10. CASE SetOutput
  <2>1. OnOutput(voltage') /\ UNCHANGED <<averages, gauge, read>>
    BY <1>3, <1>4, <1>10 DEF SetOutput, gaugeVars
  <2> QED BY <1>1, <1>2, <2>1
<1>11. CASE Update \/ Amplify \/ Send \/ Settle \/ UNCHANGED vars
  <2>1. UNCHANGED <<averages, gauge, read, voltage>>
    BY <1>11 DEF Update, Amplify, Send, Settle, vars, outVars, gaugeVars
  <2> QED BY <1>1, <1>2, <2>1
<1> QED BY <1>5, <1>7, <1>9, <1>10, <1>11 DEF Next, Output

\* The value stays between the lowest and the highest level of the sensor's curve, or zero,
\* and the voltage on that of the cluster: an average that is accepted has a weight, as the
\* gap between its readings is less than the full range, so that the weights never add up
\* to zero; and a step down ends at empty.
THEOREM LevelsStayOnScale == Spec => []LevelsAreOnScale
<1>1. ScaleInv => LevelsAreOnScale
  BY DEF ScaleInv
<1> QED BY <1>1, InitScaleInv, NextScaleInv, SpecTypeInv, PTL DEF Spec
=============================================================================
