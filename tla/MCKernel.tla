------------------------------- MODULE MCKernel -------------------------------
(***************************************************************************)
(* Kernel with three tasks of three priorities, two mutexes and a binary   *)
(* semaphore: enough for nested mutexes, a waiter that itself holds one,   *)
(* and a task of medium priority beside them.                              *)
(***************************************************************************)
EXTENDS Kernel, TLC

CONSTANTS low, medium, high

MCBasePriority ==
  [t \in Tasks |-> CASE t = low -> 1 [] t = medium -> 2 [] OTHER -> 3]
=============================================================================
