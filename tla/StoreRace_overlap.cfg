SPECIFICATION Spec
CONSTANTS
  Call = {c1, c2, c3, c4}
  Name = {a, b}
  Kind = {"SET", "NX", "GET"}
  Workers = 2
  NULL = NULL
  UNDEF = UNDEF
SYMMETRY Symmetry
INVARIANTS
  SafeWithoutOverlap
  NothingNewBehindHole
CHECK_DEADLOCK FALSE
