SPECIFICATION Spec
CONSTANTS
  AdcValue = {0, 3, 4}
  AdcMax = 4
  Supply = 4
  Resistor = 12
  InputCurve <- MCInputCurve
  NoReading = NoReading
  AveragingSize = 2
  MinimumReadings = 1
  MaxDistance = 2
  InvalidDistance = 3
  FullRange = 10
  NumAverages = 3
  Calibration = 2
  ThresholdUp = 3
  ThresholdDown = 3
  UpdateThreshold = 1
  ErrorThreshold = 3
  LowerThreshold = 1
  CounterRange = 16
  OutputCurve <- MCOutputCurve
  AmplifyingFactor = 1000
  ManualLevel = {2}
  Unsettled = Unsettled
INVARIANTS
  TypeOK
  OutputIsCurrent
PROPERTIES
  Converges

  NormalOnlyLowers
  CalibrationIsExact
CHECK_DEADLOCK FALSE
