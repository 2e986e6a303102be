CONSTANTS CLIENT_COUNT = 5  Half = 16  MaskSize = 8
SPECIFICATION FairSpec
INVARIANTS TypeOK ExitsNeverMerge ExitsAccounted CountIsClosed
PROPERTY ServerExits
CHECK_DEADLOCK FALSE
