CONSTANTS
  t1 = t1
  Thread = {main, t1, t2}
  Main = main
  Idle = idle
  MaxPriority = 2
  TimeSlice = 2
  MaxTicks = 4
  MaxSleep = 2
  StartPriority <- Falling
SPECIFICATION ClockSpec
INVARIANTS NoPanic
CHECK_DEADLOCK FALSE
