CONSTANTS
  MaxProc = 3
  MaxRuns = 1
  ExitStatus = {0}
  NULL = NULL
SPECIFICATION Spec
CHECK_DEADLOCK FALSE
INVARIANTS ReapedAfterExit FamilyExact
PROPERTIES WaitedOnce WaitReturns
