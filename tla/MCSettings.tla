----------------------------- MODULE MCSettings -----------------------------
(***************************************************************************)
(* Settings with three versions of the firmware.                           *)
(***************************************************************************)
EXTENDS Settings, TLC

MCCurveBytes == (0 :> 0) @@ (1 :> 76) @@ (2 :> 84) @@ (3 :> 92)
=============================================================================
