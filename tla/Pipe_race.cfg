CONSTANTS
  Proc = {p1, p2}
  Makers = {p1, p2}
  MAX_PIPES = 1
  PIPE_BUFFER_SIZE = 2
  Char = {a, b}
  MaxIO = 1
  BadPointers = FALSE
  NULL = NULL
SPECIFICATION Spec
PROPERTIES StoredInEmptyPlace
CHECK_DEADLOCK FALSE
