CONSTANTS
  Byte <- MCByte
  MAX_ARRAY_SIZE = 2
  PROTO_MAX_BULK_SIZE = 1
  UintSize = 12
  MaxDepth = 2
  MaxRead = 17
SPECIFICATION LexSpec
INVARIANTS
  AgreesWithGrammar
  OnlyArrayStructsLeak
  PlainNeverFaults
