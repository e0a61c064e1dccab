SPECIFICATION Spec
CONSTANTS
  Name = {a, b, c}
  Tag = {t1, t2}
  Value = {v1, v2}
  KeyNode <- MCKeyNode
  NULL = NULL
  UNDEF = UNDEF
INVARIANTS
  MapOK
PROPERTIES
  ImplementsDictionary
