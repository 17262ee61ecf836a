CONSTANTS
  t1 = t1
  t2 = t2
  l1 = l1
  w0 = w0
  w1 = w1
  w2 = w2
  Main = main
  Idle = idle
  NULL = NULL
  Thread = {main, t1, t2}
  MaxPriority = 2
  TimeSlice = 1
  Lock = {l1, tid_lock}
  TidLock = tid_lock
  MonitorLock = l1
  Sema = {w0, w1, w2}
  WaiterSema <- OneEach
  MaxValue = 1
  Client <- RankedClients
SPECIFICATION MonitorSpec
CHECK_DEADLOCK FALSE
PROPERTIES CondOrder
