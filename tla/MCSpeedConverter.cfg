SPECIFICATION Spec
CONSTANTS
  Slots = 3
  Speeds = {45000}
  MaxSpeed = 250999
  Validity = 2
  PulseTime = 5000
  SpeedPerReading = 5000
  MinReadings = 1
  AllowedGap = 1000
  WrongGap = 5000
  SmallSpeed = 1000
  HighFrom = 50000
  LowBelow = 40000
  Divider <- MCDivider
  WrapSpeed <- MCWrapSpeed
  SlowDuty = 20000
  Unsettled = Unsettled
  ManualSpeed = {100}
  ReplayData <- MCReplayData
INVARIANTS
  TypeOK
  StandstillIsShown
  OutputIsCurrent
PROPERTIES
 Converges
 Replays
