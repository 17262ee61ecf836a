CONSTANTS
  Thread = {main, t1, t2}
  Main = main
  Idle = idle
  MaxPriority = 1
  TimeSlice = 2
SPECIFICATION ThreadsSpec
PROPERTIES UnblockKeepsCurrent
CHECK_DEADLOCK FALSE
