------------------------------ MODULE MCTerminal ------------------------------
(***************************************************************************)
(* Terminal with the four threads of the program and their priorities.     *)
(***************************************************************************)
EXTENDS Terminal, TLC

CONSTANTS main, low, tracer, cyc

MCBasePriority ==
  [t \in Tasks |-> CASE t = main -> 3 [] t = cyc -> 2 [] OTHER -> 1]
=============================================================================
