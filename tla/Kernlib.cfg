\* The lists, the hash table, the allocators, the routines of the library, and
\* the segments and partitions. 
CONSTANTS
  List = {1, 2}
  Keys = 4
  Equal = 3
  Key = {0, 1, 2, 3}
  Copies = 2
  FEWEST = 1
  BEST_ELEMS_PER_BUCKET = 1
  Thread = {t1, t2}
  Pages = 3
  PGSIZE = 12
  Header = 4
  Smallest = 4
  SizeWord = 64
  Requests = {3, 18, 60}
  Holds = 2
  NULL = NULL
  W = 4
  BUF = 12
  StackTop = 64
  Highest = 255
  Frequencies = {0, 18, 19, 20, 100, 1000, 596590, 596591, 795453, 795454, 1193180, 1193181}
  Numbers = {0, 1, 7, 8, 15, 16, 999, 1000, 12345}
  Letters = {32, 97, 98}
  MaxString = 4
  MaxLine = 6
  WORD = 48
  PageSize = 4
  UserPages = 8
  Vaddrs = {0, 3, 5, 8, 26, 28, 31, 47}
  Offsets = {0, 1, 3, 5, 7, 10, 40}
  Sizes = {0, 1, 6, 9, 24, 45}
  Lengths = {9}
  Devices = {0, 1, 5, 6, 20, 43, 47}
SPECIFICATION Spec
INVARIANTS HeapExact NullOnlyIfNone TableExact ListsExact SequencesKept RoutinesExact WithinBounds ImageExact
PROPERTIES TableIsMap
SYMMETRY ThreadsAlike
