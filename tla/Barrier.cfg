CONSTANTS Threads = {t1, t2, t3, t4, t5}  dwThreshold = 5  Rounds = 2
SPECIFICATION Spec
INVARIANT NobodyLeavesEarly
PROPERTY OnlyMissedPulses
CHECK_DEADLOCK FALSE
