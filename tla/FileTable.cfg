CONSTANTS
  Proc = {p1, p2}
  First = p1
  Main = main
  Fds = 1
  Files = 6
  Inodes = 4
  Name = {ls, sh}
  Alone = {"exec", "exit"}
  NULL = NULL
SPECIFICATION Spec
INVARIANTS FilesExact
PROPERTIES NoWritePasses
SYMMETRY NamesAlike
CHECK_DEADLOCK FALSE
