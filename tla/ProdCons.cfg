CONSTANTS BUFFER_SIZE = 3  NR_ITERATIONS = 10  Rounds = 3
SPECIFICATION FairSpec
INVARIANTS TypeOK MutualExclusion ItemsConserved NoLostWakeup
PROPERTY AllRoundsEnd
CHECK_DEADLOCK FALSE
