CONSTANTS
  MaxProc = 2
  MaxRuns = 2
  ExitStatus = {0}
  NULL = NULL
SPECIFICATION Spec
INVARIANTS NoneUsedAfterFree
CHECK_DEADLOCK FALSE
