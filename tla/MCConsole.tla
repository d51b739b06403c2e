------------------------------- MODULE MCConsole -------------------------------
(***************************************************************************)
(* Console with the two threads and their priorities.                      *)
(***************************************************************************)
EXTENDS Console, TLC

CONSTANTS main, low

MCBasePriority == [t \in Tasks |-> IF t = main THEN 3 ELSE 1]
=============================================================================
