--------------------------- MODULE SpeedConverter ---------------------------
(***************************************************************************)
(* The speed signal from the sensor to the cluster: every cycle of the     *)
(* sensor ends with a speed being sent out, which is that of the sensor, a *)
(* value set by hand, or that of a curve which is replayed                 *)
(* (speed_sensor_converter.cpp, replay_curve.cpp).                         *)
(*                                                                         *)
(* The commands come from the main thread, whose priority is higher: each  *)
(* is one step, which may fall between any two steps of Cyc100ms.          *)
(***************************************************************************)
EXTENDS SpeedSensor

CONSTANTS
  ManualSpeed, \* what the command "speed manual" sets, in km/h
  ReplayData   \* the curve that is replayed: tick -> km/h

ASSUME ConverterAssumption ==
  /\ ManualSpeed \subseteq Nat
  /\ ReplayData \in Seq([x : Nat, y : Nat]) /\ ReplayData # << >>

VARIABLES
  mode,      \* m_en_current_speed_output_mode
  manual,    \* m_i32_manual_speed
  replay,    \* m_o_replay_curve: bo_playing, bo_paused, and in ticks
             \* m_o_current_duration and the time since m_o_last_time_point
  sending,   \* the local variables of Cyc100ms
  output,    \* the speed whose frequency the PWM was last set to
  overtaken, \* history: a command came since Cyc100ms chose the speed it sent last
  attended   \* environment: the console is used and the car stands, or the car
             \* drives and the console is not used

outVars == <<mode, manual, replay, sending, output, overtaken>>
vars    == <<sensorVars, outVars, attended>>

Modes == {"conversion", "manual", "replay"}

\* A reading of the sensor in km/h.
Kmph(speed) == speed \div 1000

End == ReplayData[Len(ReplayData)].x

\* The flags of the replay have no initial value, nor has its position.
Init ==
  /\ SensorInit
  /\ mode = "conversion" /\ manual = 0
  /\ attended \in BOOLEAN
  /\ \E playing, paused \in (IF attended THEN BOOLEAN ELSE {FALSE}) :
       replay = [playing |-> playing, paused |-> paused, at |-> 0, since |-> 0]
  /\ sending = 0 /\ output = 0 /\ overtaken = FALSE
-----------------------------------------------------------------------------
(* replay_curve.cpp *)

Stopped(r) == IF r.playing THEN [r EXCEPT !.playing = FALSE, !.paused = FALSE] ELSE r

Played(r) ==
  IF ~r.playing THEN [r EXCEPT !.playing = TRUE, !.at = 0, !.since = 0]
  ELSE IF r.paused THEN [r EXCEPT !.paused = FALSE, !.since = 0]
  ELSE r

Advances(r) == r.playing /\ ~r.paused

\* MUTANT of Position: the replay stays at the end of the curve.
BugPosition(r) == Min({r.at + r.since, End})

\* The position after the curve has been played for the time that has passed.
Position(r) == IF r.at + r.since > End THEN 0 ELSE r.at + r.since
-----------------------------------------------------------------------------
(* The commands *)

Command ==
  /\ attended
  /\ overtaken' = TRUE
  /\ UNCHANGED <<sensorVars, sending, output, attended>>

\* set_speed_output_mode
SetMode ==
  /\ Command
  /\ mode' \in Modes
  /\ replay' = IF mode' = "replay" THEN Played(Stopped(replay)) ELSE Stopped(replay)
  /\ UNCHANGED manual

\* set_manual_speed
SetManual ==
  /\ Command
  /\ manual' \in ManualSpeed
  /\ UNCHANGED <<mode, replay>>
-----------------------------------------------------------------------------
(* Cyc100ms, the second half of cycle() *)

\* The speed of the sensor or the one set by hand is chosen...
Choose ==
  /\ cycleAt = "output" /\ mode # "replay"
  /\ sending' = IF mode = "manual" THEN manual ELSE Kmph(shown)
  /\ overtaken' = FALSE
  /\ cycleAt' = "send"
  /\ UNCHANGED <<ringVars, shown, timerVars, ran, pulses, car, mode, manual, replay,
                 output, attended>>

\* ...or the curve is played: its new position is computed...
ChooseReplay ==
  /\ cycleAt = "output" /\ mode = "replay"
  /\ sending' = Position(replay)
  /\ overtaken' = FALSE
  /\ cycleAt' = IF Advances(replay) THEN "replay" ELSE "look"
  /\ UNCHANGED <<ringVars, shown, timerVars, ran, pulses, car, mode, manual, replay,
                 output, attended>>

\* ...stored...
Advance ==
  /\ cycleAt = "replay"
  /\ replay' = [replay EXCEPT !.at = sending, !.since = 0]
  /\ cycleAt' = "look"
  /\ UNCHANGED <<ringVars, shown, timerVars, ran, pulses, car, mode, manual, sending,
                 output, overtaken, attended>>

\* ...and looked up.
LookUp ==
  /\ cycleAt = "look"
  /\ sending' = GetY(ReplayData, replay.at)
  /\ cycleAt' = "send"
  /\ UNCHANGED <<ringVars, shown, timerVars, ran, pulses, car, mode, manual, replay,
                 output, overtaken, attended>>

\* MUTANT of Send: standstill is not sent.
BugSend ==
  /\ cycleAt = "send"
  /\ output' = IF sending = 0 THEN output ELSE sending
  /\ cycleAt' = "idle" /\ sending' = 0
  /\ UNCHANGED <<ringVars, shown, timerVars, ran, pulses, car, mode, manual, replay,
                 overtaken, attended>>

\* All of these speeds are valid.
Send ==
  /\ cycleAt = "send"
  /\ output' = sending
  /\ cycleAt' = "idle" /\ sending' = 0
  /\ UNCHANGED <<ringVars, shown, timerVars, ran, pulses, car, mode, manual, replay,
                 overtaken, attended>>

Output == Choose \/ ChooseReplay \/ Advance \/ LookUp \/ Send
-----------------------------------------------------------------------------
Pulse == ~attended /\ (Capture \/ Refuse) /\ UNCHANGED <<outVars, attended>>

RunCycle ==
  /\ Cycle \/ (~attended /\ (TornCopy \/ TornClear))
  /\ UNCHANGED <<outVars, attended>>

Switch == Reprogram /\ UNCHANGED <<outVars, attended>>

\* Time passes while Cyc100ms waits; longer than the curve is as good as its end.
Elapse ==
  /\ cycleAt = "idle"
  /\ SensorElapse
  /\ replay' = IF Advances(replay) THEN [replay EXCEPT !.since = Min({@ + 1, End + 1})]
               ELSE replay
  /\ UNCHANGED <<mode, manual, sending, output, overtaken, attended>>

\* No command comes any more either.
Settle ==
  /\ SensorSettle
  /\ attended => car' = 0
  /\ attended' = FALSE
  /\ UNCHANGED outVars

Next == Pulse \/ RunCycle \/ Switch \/ Output \/ SetMode \/ SetManual \/ Elapse \/ Settle

\* The ticks never stop.  In each of them a cycle runs to its end, and a car that keeps its
\* speed gives a pulse.  (Implied by fairness of the steps, and stated without ENABLED.)
Fairness == []<><<Elapse>>_vars

Spec == Init /\ [][Next]_vars /\ Fairness
-----------------------------------------------------------------------------
(* Properties *)

TypeOK ==
  /\ ring \in [Indices -> [speed : 0 .. MaxSpeed, age : Never .. TooOld]]
  /\ position \in Indices
  /\ shown \in 0 .. MaxSpeed
  /\ capture \in CaptureModes /\ timer \in CaptureModes /\ restarted \in BOOLEAN
  /\ cycleAt \in {"idle", "reprogram", "output", "replay", "look", "send"}
  /\ ran \in BOOLEAN /\ pulses \in 0 .. Slots
  /\ car \in Speeds \cup {0, Unsettled}
  /\ mode \in Modes /\ manual \in ManualSpeed \cup {0}
  /\ replay \in [playing : BOOLEAN, paused : BOOLEAN, at : 0 .. End, since : 0 .. End + 1]
  /\ sending \in Nat /\ output \in Nat
  /\ overtaken \in BOOLEAN /\ attended \in BOOLEAN

\* A reading whose time was overwritten when a pulse interrupted the clearing of the ring.
Phantom == \E i \in Indices : ring[i].age = Never /\ ring[i].speed # 0

\* When the sensor has not given a reading for the time that readings are valid, standstill
\* is displayed (speed_sensor_converter.cpp:286-290, 444-450), but for a phantom.
Silent == \A i \in Indices : ring[i].age \in {Never, TooOld}
StandstillIsShown == ran /\ Silent /\ ~Phantom => shown = 0

\* Between two cycles the PWM has the speed that mode, manual speed, curve and sensor
\* call for, unless a command came since the last cycle chose it
\* (speed_sensor_converter.cpp:464-492).
Called ==
  IF mode = "manual" THEN manual
  ELSE IF mode = "replay" THEN GetY(ReplayData, replay.at) ELSE Kmph(shown)
OutputIsCurrent == cycleAt = "idle" => overtaken \/ output = Called

\* A car that keeps its speed, or stands, ends up with this speed on display and on the PWM,
\* from every state of ring, timer and capture mode, for which the prescaler must not be
\* switched to and fro (speed_sensor_converter.cpp:22-40, 505-542).
AtCarSpeed == shown = car /\ (mode = "conversion" => output = Kmph(car))
Converges == <>(car # Unsettled) => <>[](car # Unsettled /\ (AtCarSpeed \/ Phantom))

\* Without further commands, the curve is replayed from end to end, again and again, unless
\* it was paused to begin with (replay_curve.cpp:45-61).
Replaying == car # Unsettled /\ mode = "replay" /\ ~replay.paused
Replays == \A x \in 0 .. End : []<>(Replaying => output = GetY(ReplayData, x))
=============================================================================
