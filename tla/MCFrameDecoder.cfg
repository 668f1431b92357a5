SPECIFICATION MCSpec
CHECK_DEADLOCK FALSE
INVARIANTS
  NumberIsTruncatedReading
  EveryValueIsPrintable
