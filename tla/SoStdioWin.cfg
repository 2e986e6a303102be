CONSTANTS
  BufSize = 2
  Byte = {0, 200}
  Modes = {"r", "r+", "w", "w+", "a", "a+", "other"}
  InitialFile <- File2
  MaxFile = 4
  MaxTell = 4
  MaxItems = 2
  SeekOffsets <- Offsets
  JunkSeek = FALSE
  Faults = {"open", "malloc", "write"}
SPECIFICATION CSpec
INVARIANTS TypeOK TellAgrees
PROPERTIES FilePreserved ImplementsByteStream
CHECK_DEADLOCK FALSE
