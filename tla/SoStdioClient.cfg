CONSTANTS
  BufSize = 2
  Byte = {0, 200}
  Modes = {"r", "r+", "w", "w+"}
  InitialFile <- File3
  MaxFile = 4
  MaxTell = 4
  MaxItems = 2
  Sizes = {1}
  SeekOffsets <- Offsets
  ShortIO = FALSE
  Faults = {"open", "malloc", "read", "write", "close"}
SPECIFICATION CSpec
INVARIANTS TellAgrees ReadAheadIsFile
PROPERTY ImplementsByteStream
CHECK_DEADLOCK FALSE
