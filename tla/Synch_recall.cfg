CONSTANTS
  t1 = t1
  t2 = t2
  l1 = l1
  l2 = l2
  Main = main
  Idle = idle
  NULL = NULL
  Thread = {main, t1, t2}
  MaxPriority = 2
  TimeSlice = 1
  Lock = {l1, l2, tid_lock}
  TidLock = tid_lock
  Sema = {s}
  MaxValue = 1
  Client <- OneLockClients
SPECIFICATION Spec
INVARIANTS DonationRecalled
CHECK_DEADLOCK FALSE
