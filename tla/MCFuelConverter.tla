--------------------------- MODULE MCFuelConverter ---------------------------
(***************************************************************************)
(* FuelConverter with a sensor that is read as full (3), below empty (-3)  *)
(* or not at all (a broken wire, full scale at the ADC, which reads as     *)
(* empty).  Two readings make an average, two averages a calibration, four *)
(* errors a recalibration, two slightly lower averages a step.             *)
(***************************************************************************)
EXTENDS FuelConverter

MCInputCurve == <<[x |-> -3, y |-> 40], [x |-> 3, y |-> 0]>>

MCOutputCurve == <<[x |-> -3, y |-> 10], [x |-> 0, y |-> 10], [x |-> 3, y |-> 7]>>
=============================================================================
