CONSTANTS
  BufSize = 2
  Byte = {0, 1}
  Modes = {"r", "r+", "w+", "a", "a+", "other"}
  InitialFile <- File2
  MaxFile = 3
  MaxTell = 3
  MaxItems = 1
  Sizes = {0, 2}
  SeekOffsets <- Offsets
  ShortIO = TRUE
  Faults = {"open", "malloc", "read", "write"}
SPECIFICATION Spec
INVARIANT TypeOK
PROPERTIES FilePreserved CrashOnlyOnMisuse
CHECK_DEADLOCK FALSE
