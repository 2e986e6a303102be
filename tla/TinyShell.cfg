CONSTANTS
  MAX_CMD_WORDS = 3
  PIPE_SIZE = 1
  MaxProcesses = 8
  Systems = {"linux", "windows"}
  Stdins = {"terminal", "pipe"}
  Inputs <- MCInputs
SPECIFICATION Spec
INVARIANTS OneReader RepeatBound RedirectionsExplained
PROPERTIES Answers
CHECK_DEADLOCK FALSE
