SPECIFICATION FairSpec
CONSTANTS
  Text = {"word"}
  Numeral = {"12"}
  Nested = {"*array"}
  OptToken = {"NX", "XX", "GET", "EX", "PXAT", "12", "word", "*array"}
  MaxOpts = 5
  Inputs <- MCInputs
INVARIANTS
  AcceptsGrammar
  SlotsOK
PROPERTIES
  Terminates
CHECK_DEADLOCK FALSE
