SPECIFICATION FairSpec
CONSTANTS
  Conn = {c1, c2}
  Worker = {w1}
  Fd = {f1, f2}
  MaxQueueTime = 5
  MaxTime = 3
  NULL = NULL
PROPERTIES
  Decided
  Released
