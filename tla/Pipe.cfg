CONSTANTS
  Proc = {p1, p2}
  Makers = {p1}
  MAX_PIPES = 1
  PIPE_BUFFER_SIZE = 2
  Char = {a, b}
  MaxIO = 2
  BadPointers = TRUE
  NULL = NULL
SPECIFICATION Spec
INVARIANTS RingExact
PROPERTIES PipeImplementsFifo LockComesBack
CHECK_DEADLOCK FALSE
