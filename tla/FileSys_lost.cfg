CONSTANTS
  Name = {n1, n2, long}
  LongName = long
  File = {f1, f2}
  Sectors = 4
  DirEntries = 2
  MaxSize = 2
  Data = {zeros, text}
  Zeros = zeros
  LowMemory = FALSE
  NULL = NULL
SPECIFICATION UninterruptedSpec
INVARIANTS NothingLost
CHECK_DEADLOCK FALSE
