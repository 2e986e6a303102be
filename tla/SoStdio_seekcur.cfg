CONSTANTS
  BufSize = 2
  Byte = {0, 1}
  Modes = {"r", "r+", "w", "a+"}
  InitialFile <- File2
  MaxFile = 3
  MaxTell = 3
  MaxItems = 2
  Sizes = {1}
  SeekOffsets <- Offsets
  ShortIO = FALSE
  Faults = {}
SPECIFICATION Spec
PROPERTY SeekCurIsRelative
CHECK_DEADLOCK FALSE
