SPECIFICATION Spec
CONSTANTS
  Call = {c1, c2}
  Name = {a}
  Kind = {"NX"}
  Workers = 2
  NULL = NULL
  UNDEF = UNDEF
INVARIANTS
  OneNxWins
CHECK_DEADLOCK FALSE
