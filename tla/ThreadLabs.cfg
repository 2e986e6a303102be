CONSTANTS
  NUM_THREADS = 3
  Labs <- MCLabs
SPECIFICATION Spec
INVARIANTS OneHolder RaceFree OnlyKnownDeadlocks Outcomes
CHECK_DEADLOCK FALSE
