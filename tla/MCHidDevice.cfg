CONSTANTS
  NULL = NULL
  Encodings <- MCEncodings
  Kernels <- MCKernels
  Texts <- MCTexts
  MAX_STR = 3
  ReportSize = 3
SPECIFICATION DeviceSpec
CHECK_DEADLOCK FALSE
INVARIANTS
  WalkStaysOnItems
  NumberedIsExact
  StringsAreTheDevices
  ReadGivesTheReport
