CONSTANTS
  Thread = {main, t1}
  Main = main
  Idle = idle
  Sema = {channel_lock, completion_wait}
  Lock = {channel_lock}
  channel_lock = channel_lock
  completion_wait = completion_wait
  TimeSlice = 1
  Sectors = 1
  Data = {a, b}
  Faults = {"error"}
  NULL = NULL
SPECIFICATION Spec
INVARIANTS StockExact CompletionMine
PROPERTIES DiskIsAtomic CommandEnds
CHECK_DEADLOCK FALSE
