CONSTANTS
  Thread = {main, t1, t2, t3}
  Main = main
  Idle = idle
  MaxPriority = 2
  TimeSlice = 2
SPECIFICATION ThreadsSpec
INVARIANTS ReadyListExact HighestPriorityRuns
PROPERTIES FifoAmongEquals NoStarvationAtTop
CHECK_DEADLOCK FALSE
