CONSTANTS
  t1 = t1
  Thread = {main, t1, t2}
  Main = main
  Idle = idle
  MaxPriority = 2
  TimeSlice = 2
  MaxTicks = 3
  MaxSleep = 2
  StartPriority <- Equal
SPECIFICATION ClockSpec
INVARIANTS SleepListExact
PROPERTIES Refines SleepersWake
CHECK_DEADLOCK FALSE
