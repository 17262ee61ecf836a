CONSTANTS
  Name = {n1, n2, long}
  LongName = long
  File = {f1, f2}
  Sectors = 4
  DirEntries = 2
  MaxSize = 2
  Data = {zeros, text}
  Zeros = zeros
  LowMemory = TRUE
  NULL = NULL
SPECIFICATION Spec
INVARIANTS DiskConsistent OpenFilesExact
PROPERTIES DeniedUnchanged
SYMMETRY Alike
CHECK_DEADLOCK FALSE
