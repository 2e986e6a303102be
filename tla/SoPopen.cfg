CONSTANTS N = 2  PipeSize = 1  MaxPut = 2  Output = 2  CallsFail = TRUE
SPECIFICATION FairSpec
INVARIANTS ClosedIsDelivered HeldOnlyByLater
PROPERTY PcloseReturns
CHECK_DEADLOCK FALSE
