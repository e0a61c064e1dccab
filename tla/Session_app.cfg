CONSTANTS
  MaxRequests = 3
  n_retries = 1
  max_retries = 2
  UcharSize = 4
SPECIFICATION Spec
INVARIANTS
  RetriesBounded
  Accounted
  SigpipeHasCause
PROPERTIES
  Progress
