SPECIFICATION Spec
CONSTANTS
  Firmware = {1, 2, 3}
  CurveBytes <- MCCurveBytes
  Licence = {speed, fuel}
  Serial = {s1, s2}
  NoSerial = NoSerial
  Blank = Blank
  Nothing = Nothing
INVARIANTS
  EolIsForLife
  DatasetIsWhole
