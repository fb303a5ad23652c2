SPECIFICATION Spec
CONSTANTS
  v1 = v1
  v2 = v2
  v3 = v3
  Values = {v1, v2, v3}
  Default = none
  Backups = 2
INVARIANTS
  Inv
PROPERTIES
  KeepsContract
CHECK_DEADLOCK FALSE
