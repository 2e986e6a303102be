CONSTANTS Inputs <- MCInputs  MaxDepth = 4
SPECIFICATION Spec
INVARIANTS OutputIsCpp IncludesSpliced
CHECK_DEADLOCK FALSE
