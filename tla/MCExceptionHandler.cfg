SPECIFICATION Spec
CONSTANTS
  readFailed = readFailed
  e1 = e1
  e2 = e2
  e3 = e3
  Exception <- MCException
  ReadFailed = readFailed
  MaxExceptions = 3
  SectionBytes = 160
  Unwritten = Unwritten
  Nothing = Nothing
  MaxRaises = 4
  MaxRestarts = 2
INVARIANTS
  TypeOK
  ListIsBounded
  NoDuplicates
  SectionIsCurrent
PROPERTIES
  RestartRestores
  MainCriticalSurvives
SYMMETRY Alike
CHECK_DEADLOCK FALSE
