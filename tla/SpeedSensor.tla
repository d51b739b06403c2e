---------------------------- MODULE SpeedSensor ----------------------------
(***************************************************************************)
(* The speed sensor from its pulses to the displayed speed                 *)
(* (speed_sensor_converter.cpp, stm32_pwm_ic.cpp): the interrupt of the    *)
(* input capture puts readings into a ring, from which every cycle of      *)
(* Cyc100ms takes the recent ones, removes outliers and averages; the      *)
(* speed selects the prescaler of the timer that measures the pulses.      *)
(*                                                                         *)
(* Speeds are in m/h, as in the code.  Time passes in ticks: Elapse makes  *)
(* every reading a tick older, and one cycle runs in each tick.            *)
(***************************************************************************)
EXTENDS Algorithms, FiniteSets

CONSTANTS
  Slots,          \* SPEED_SENSOR_READINGS_BUFFER_LENGTH
  Speeds,         \* speeds of the car
  MaxSpeed,       \* of a valid reading
  Validity,       \* m_maximum_reading_validity, in ticks
  PulseTime,      \* ticks between two pulses at 1 m/h
  SpeedPerReading,\* one reading is taken per so much speed...
  MinReadings,    \* ...and outliers are removed from more than so many...
  AllowedGap,     \* ...unless they are that close
  WrongGap,       \* with this gap, nothing is displayed
  SmallSpeed,     \* displayed as standstill
  HighFrom, LowBelow, \* thresholds of the capture modes
  Divider,        \* prescaler + 1 in each capture mode
  WrapSpeed,      \* below it, the counter wraps between two pulses in each mode
  SlowDuty,       \* below it, duty cycles of 25 to 75 % are accepted, above 40 to 60 %
  Unsettled       \* the car's speed still changes

CaptureModes == {"low", "high"}

ASSUME SensorAssumption ==
  /\ {Slots, Validity, PulseTime, SpeedPerReading} \subseteq Nat \ {0}
  /\ {MinReadings, AllowedGap, WrongGap, SmallSpeed, MaxSpeed} \subseteq Nat
  /\ Speeds \subseteq Nat \ {0} /\ Unsettled \notin Int
  /\ {HighFrom, LowBelow} \subseteq Nat /\ LowBelow <= HighFrom
  /\ {Divider, WrapSpeed} \subseteq [CaptureModes -> Nat \ {0}]

VARIABLES
  ring,      \* m_ast_measured_frequencies: speed and age of each reading
  position,  \* m_u8_input_array_position
  shown,     \* m_u32_current_vehicle_speed_mph
  capture,   \* m_en_pwm_ic_state_machine_state, and the driver's m_u16_prescaler
  timer,     \* the prescaler the timer runs with
  restarted, \* the timer counts since its start, not since a pulse
  cycleAt,   \* where Cyc100ms is in cycle()
  ran,       \* environment: the cycle of this tick has run
  car,       \* environment: the speed the car keeps from some time on
  pulses     \* environment: how many readings of that speed came in this tick

ringVars   == <<ring, position>>
timerVars  == <<capture, timer, restarted>>
sensorVars == <<ringVars, shown, timerVars, cycleAt, ran, pulses, car>>

Indices == 0 .. Slots - 1

\* Older readings than these are alike.
TooOld == Validity + 1

\* time_point::min(): the difference to it overflows, and is negative.
Never == -1

Cleared == [speed |-> 0, age |-> Never]

SensorInit ==
  /\ ring = [i \in Indices |-> Cleared] /\ position = 0
  /\ shown = 0
  /\ capture = "low" /\ timer = "low" /\ restarted = TRUE
  /\ cycleAt = "idle" /\ ran = FALSE /\ pulses = 0
  /\ car = Unsettled
-----------------------------------------------------------------------------
(* The input capture (stm32_pwm_ic.cpp) *)

\* What the timer makes of a speed: it measures the time since its counter
\* wrapped (nothing, if it just did), and the driver converts that with the
\* prescaler that it has noted.
Measured(speed) ==
  LET wrap == WrapSpeed[timer]
      left == wrap - speed * (wrap \div speed)
      seen == IF left = 0 THEN 0 ELSE (speed * wrap) \div left
  IN  (seen * Divider[timer]) \div Divider[capture]

\* The first pulse after a start ends a part of a period.  The half in which
\* the signal is low is always in it, the rest must be long enough for the duty
\* cycle, otherwise the reading is refused.
LargestPart(speed) == IF speed < SlowDuty THEN (3 * speed) \div 2 ELSE (6 * speed) \div 5

ValidReading(speed) == 0 < speed /\ speed <= MaxSpeed

\* What a pulse is accepted as; nothing, if it is not.
Accepted(speed) ==
  {reading \in (IF restarted THEN {Measured(speed), LargestPart(Measured(speed))}
                ELSE {Measured(speed)}) : ValidReading(reading)}

\* set_prescaler: the driver has noted the new prescaler, now the timer is
\* stopped and starts with it.
Reprogram ==
  /\ cycleAt = "reprogram"
  /\ timer' = capture /\ restarted' = TRUE
  /\ cycleAt' = "output"
  /\ UNCHANGED <<ringVars, shown, capture, ran, pulses, car>>
-----------------------------------------------------------------------------
(* pwm_input_capture_callback *)

\* MUTANT of Next1: the index does not wrap.
BugNext1(p) == p + 1

Next1(p) == (p + 1) % Slots

Reading(speed) == [speed |-> speed, age |-> 0]

\* The steps of Cyc100ms that a pulse can interrupt with an effect of its own take some
\* microseconds of every tick.  A car that keeps its speed does not hit them any more.
PulsesBetween == IF car = Unsettled THEN Speeds ELSE {}
PulsesNow     == IF cycleAt = "reprogram" THEN PulsesBetween
                 ELSE IF car = Unsettled THEN Speeds ELSE {car} \cap Speeds

\* Readings of a settled car are counted, up to as many as the ring has room for.
PulseSeen(readings) ==
  /\ restarted' = FALSE
  /\ pulses' = IF car = Unsettled THEN 0 ELSE Min({pulses + readings, Slots})

Store(reading) ==
  /\ ring' = [ring EXCEPT ![position] = Reading(reading)]
  /\ position' = Next1(position)

\* A pulse that is read.
Capture ==
  /\ \E speed \in PulsesNow : \E reading \in Accepted(speed) : Store(reading)
  /\ PulseSeen(1)
  /\ UNCHANGED <<shown, capture, timer, cycleAt, ran, car>>

\* A pulse that is refused, for its speed or, after a start, for its duty cycle.
Refuse ==
  /\ \E speed \in PulsesNow : restarted \/ Accepted(speed) = {}
  /\ PulseSeen(0)
  /\ UNCHANGED <<ringVars, shown, capture, timer, cycleAt, ran, car>>
-----------------------------------------------------------------------------
(* cycle() *)

Recent(slots) == {i \in Indices : slots[i].age <= Validity}

\* The newest reading first; those without a time last, in the order of the ring.
Newer(slots, next, i, j) ==
  LET recency(k) == (next - 1 - k) % Slots
  IN  IF slots[i].age = Never THEN slots[j].age = Never /\ i < j
      ELSE slots[j].age = Never \/ recency(i) < recency(j)

Newest(slots, next, S) == CHOOSE i \in S : \A j \in S : ~ Newer(slots, next, j, i)

NumberToTake(speed) == speed \div SpeedPerReading + 1

\* The processor divides by zero without a trap, and gets zero.
SearchPeriod(speed) ==
  IF speed = 0 THEN 0
  ELSE Min({((NumberToTake(speed) + 1) * PulseTime) \div speed, Validity})

\* The readings that are taken into account, where next is the ring's position:
\* the number and the age allowed depend on the newest.  They are taken one by one,
\* from the newest on.
Taken(slots, next) ==
  LET speed  == slots[Newest(slots, next, Recent(slots))].speed
      within == {i \in Recent(slots) : slots[i].age <= SearchPeriod(speed)}
      left[k \in 0 .. Cardinality(within)] ==
        IF k = 0 THEN within ELSE left[k - 1] \ {Newest(slots, next, left[k - 1])}
      number == Min({NumberToTake(speed), Cardinality(within)})
  IN  IF Recent(slots) = {} THEN << >>
      ELSE [k \in 1 .. number |-> slots[Newest(slots, next, left[k - 1])].speed]

\* The speed they stand for: none if they are too different.
Displayed(readings) ==
  LET filtered == FilterOutliers(readings, MinReadings, AllowedGap)
      speed    == IF filtered.gap > WrongGap THEN 0 ELSE filtered.average
  IN  IF readings = << >> \/ speed < SmallSpeed THEN 0 ELSE speed

\* MUTANT of CaptureMode: without hysteresis.
BugCaptureMode(mode, speed) ==
  IF mode = "high" /\ speed < HighFrom THEN "low"
  ELSE IF mode = "low" /\ speed > LowBelow THEN "high"
  ELSE mode

\* process_pwm_ic_state_machine: the capture mode for a speed.
CaptureMode(mode, speed) ==
  IF mode = "high" /\ speed < LowBelow THEN "low"
  ELSE IF mode = "low" /\ speed > HighFrom THEN "high"
  ELSE mode

ClearedRing == [i \in Indices |-> Cleared]

\* MUTANT of Process: without readings, the display is left alone.
BugProcess(readings) ==
  /\ cycleAt = "idle" /\ ~ran
  /\ shown' = IF readings = << >> THEN shown ELSE Displayed(readings)
  /\ capture' = CaptureMode(capture, shown')
  /\ cycleAt' = IF capture' # capture THEN "reprogram" ELSE "output"
  /\ ran' = TRUE
  /\ UNCHANGED <<timer, car>>

\* From the readings on.  The displayed speed has just been set to 0 (line 350), which
\* is why the minimum difference (lines 439-443) never holds an update back.
Process(readings) ==
  /\ cycleAt = "idle" /\ ~ran
  /\ shown' = Displayed(readings)
  /\ capture' = CaptureMode(capture, shown')
  /\ cycleAt' = IF capture' # capture THEN "reprogram" ELSE "output"
  /\ ran' = TRUE
  /\ UNCHANGED <<timer, car>>

\* clear_measured_data, if there are none.
Cycle ==
  LET readings == Taken(ring, position)
  IN  /\ Process(readings)
      /\ ring' = IF readings = << >> THEN ClearedRing ELSE ring
      /\ UNCHANGED <<position, restarted, pulses>>

\* A pulse interrupts the copying of the ring in the middle of the reading that it
\* replaces: the copy has the old speed with the new time.
TornCopy ==
  /\ Process(Taken([ring EXCEPT ![position].age = 0], Next1(position)))
  /\ \E speed \in PulsesBetween : \E reading \in Accepted(speed) : Store(reading)
  /\ PulseSeen(1)

\* A pulse interrupts the clearing of the ring in the middle of the reading that it
\* replaces: its speed stays, its time is overwritten.
TornClear ==
  /\ Taken(ring, position) = << >> /\ Process(<< >>)
  /\ \E speed \in PulsesBetween : \E reading \in Accepted(speed) :
       ring' = [ClearedRing EXCEPT ![position] = [Cleared EXCEPT !.speed = reading]]
  /\ position' = Next1(position)
  /\ PulseSeen(1)

-----------------------------------------------------------------------------
(* The car *)

\* A tick passes; a car that keeps its speed has given the readings of a tick.
Older(age) == IF age = Never THEN Never ELSE Min({age + 1, TooOld})

PulsesAreDue == car \in Speeds /\ pulses < Min({car \div PulseTime, Slots})

SensorElapse ==
  /\ ran /\ ~PulsesAreDue
  /\ ring' = [i \in Indices |-> [ring[i] EXCEPT !.age = Older(@)]]
  /\ ran' = FALSE /\ pulses' = 0
  /\ UNCHANGED <<position, shown, timerVars, cycleAt, car>>

\* From here on it keeps a speed, or stands.
SensorSettle ==
  /\ car = Unsettled
  /\ car' \in Speeds \cup {0}
  /\ UNCHANGED <<ringVars, shown, timerVars, cycleAt, ran, pulses>>
=============================================================================
