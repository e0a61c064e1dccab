SPECIFICATION Spec
CONSTANTS
  Data = {r1, r2}
  Node = {n1, n2, n3, n4}
  NULL = NULL
INVARIANTS
  ListOK
PROPERTIES
  ImplementsFifo
CHECK_DEADLOCK FALSE
