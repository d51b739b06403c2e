SPECIFICATION FairSpec
CONSTANTS
  PageWords = 4
  Erased = Erased
  Value = {v0, v1}
  Blank = v0
  None = None
  MaxWrites = 3
  MaxResets = 2
  MaxFaults = 1
INVARIANTS
  TypeOK
  IdlePageIsLoadable
PROPERTIES
  KeepsPromise
  EventuallyDurable
  EventuallyQuiet
CHECK_DEADLOCK TRUE
