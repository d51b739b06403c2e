SPECIFICATION Spec
CONSTANTS
  eol = eol
  excp = excp
  dset = dset
  extra = extra
  Name = {eol, excp, dset, extra}
  NoName = NoName
  Word = {0, 1}
  Zero = 0
  HeaderSize = 4
  TableSize = 20
  EntrySize = 4
  InternalEntrySize = 5
  FlashSize = 40
  PositionRange = 256
  Firmware <- MCFirmware
  Size <- MCSize
  NoImage = NoImage
  MaxCalls = 4
PROPERTY
  ResizeRelocates
CHECK_DEADLOCK FALSE
