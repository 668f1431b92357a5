CONSTANTS
  NULL = NULL
  a1 = a1
  a2 = a2
  a3 = a3
  s1 = s1
  s2 = s2
  Slot = {0, 1, 2}
  Kind <- MCKind
  Address <- MCAddress
  Serial <- MCSerial
  MaxChanges = 2
SPECIFICATION Spec
SYMMETRY Symmetry
CHECK_DEADLOCK FALSE
INVARIANT
  NullMeansFailure
