SPECIFICATION KernelSpec
CONSTANTS
  low = low
  medium = medium
  high = high
  Tasks = {low, medium, high}
  Locks = {"outer", "inner", "list"}
  Mutexes = {"outer", "inner"}
  BasePriority <- MCBasePriority
  Nobody = Nobody
INVARIANTS
  RaisedByMutexOnly
  InversionIsBounded
  NoLostWakeup
  SleepsForAReason
CHECK_DEADLOCK FALSE
