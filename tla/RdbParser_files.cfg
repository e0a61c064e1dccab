SPECIFICATION RdbSpec
CONSTANTS
  MaxItems = 5
INVARIANTS
  AuxFields
PROPERTIES
  ReturnsOrSpins
