----------------------------- MODULE MCNvStore -----------------------------
(***************************************************************************)
(* NvStore with a header word and three sections of two values: enough for *)
(* a write behind the checksum to hit a section that is already programmed *)
(* and one that is not, and for a reset to hit each of the words.          *)
(***************************************************************************)
EXTENDS NvStore
=============================================================================
