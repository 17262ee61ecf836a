CONSTANTS
  Proc = {p1, p2}
  First = p1
  Main = main
  Fds = 2
  Files = 5
  Inodes = 4
  Name = {ls, sh}
  Alone = {}
  NULL = NULL
SPECIFICATION Spec

INVARIANTS FilesExact
CHECK_DEADLOCK FALSE
