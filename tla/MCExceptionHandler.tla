------------------------- MODULE MCExceptionHandler -------------------------
(***************************************************************************)
(* ExceptionHandler with a list of at most three exceptions, of which two  *)
(* fit into the section to its last byte (ten and four in the code, with   *)
(* twelve bytes left), so that the list both outgrows the section and is   *)
(* full.  All exceptions but readFailed are alike.                         *)
(***************************************************************************)
EXTENDS ExceptionHandler, TLC

CONSTANTS readFailed, e1, e2, e3

MCException == {readFailed, e1, e2, e3}

Alike == Permutations({e1, e2, e3})
=============================================================================
