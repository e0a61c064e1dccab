CONSTANTS
  Request <- MCRequest
  MatchedBy <- MCMatchedBy
  Deep = {2, 3, 256, 257}
  ARRAY = ARRAY
  UcharSize = 256
  NULL = NULL
  UNDEF = UNDEF
SPECIFICATION CmdSpec
INVARIANTS
  Dispatched
  ConfGetCorrect
  EchoCorrect
PROPERTIES
  Returns
