SPECIFICATION Spec
CONSTANTS
  Conn = {c1, c2, c3}
  Worker = {w1, w2}
  Fd = {f1, f2}
  MaxQueueTime = 5
  MaxTime = 3
  NULL = NULL
SYMMETRY Symmetry
INVARIANTS
  TypeOK
  MutualExclusion
  OneOwner
  HeapExact
  FdBinding
  ServedOrDenied
  NoLostWakeup
  ExcdTokens
  TimeOrder
  PassComplete
  DeniedWaited
PROPERTIES
  ImplementsAdmission
