-------------------------- MODULE MCSpeedConverter --------------------------
(***************************************************************************)
(* SpeedConverter.                                                         *)
(***************************************************************************)
EXTENDS SpeedConverter

MCDivider   == [m \in CaptureModes |-> IF m = "low" THEN 16 ELSE 1]
MCWrapSpeed == [m \in CaptureModes |-> IF m = "low" THEN 770 ELSE 12300]

MCReplayData == <<[x |-> 0, y |-> 0], [x |-> 1, y |-> 180], [x |-> 2, y |-> 150]>>
=============================================================================
