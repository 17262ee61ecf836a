CONSTANTS
  Proc = {p1, p2}
  Byte = {a, b}
  Typed = {a}
  Received = {a}
  Printed = {a}
  Reported = {b}
  INTQ_BUFSIZE = 3
  NULL = NULL
SPECIFICATION Spec
INVARIANTS QueuesExact
PROPERTIES StreamsKeepOrder WaitersServed
CHECK_DEADLOCK FALSE
