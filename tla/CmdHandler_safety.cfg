SPECIFICATION Spec
CONSTANTS
  Name = {k1, k2}
  Value = {v1, v2}
  Id = {i1, i2, i3}
  Numeral = {1, 15, 16}
  UintSize = 16
  TicksPerSec = 2
  Digits = 8
  Ulps = {1, 2, 4, 8, 16, 32, 64, 128}
  Kilo = 3
  MaxTime = 52
  Clock = {0, 2, 11, 52}
  NULL = NULL
  UNDEF = UNDEF
VIEW View
SYMMETRY Symmetry
INVARIANTS
  StoreOwnsNodes
PROPERTIES
  LeakOnlyThere
  ImplementsKeyspace
  StaysExpired
CHECK_DEADLOCK FALSE
