CONSTANTS
  Byte <- FrameByte
  CR = 13
  LF = 10
  FrameSize = 4
  MaxFrames = 4
  MaxLost = 5
  MaxOffset = 3
  ProcessFrame <- BytesOfFrame
  MeterFrames <- PlainFrames
SPECIFICATION MCSpec
CHECK_DEADLOCK FALSE
INVARIANTS
  IntactFrameIsShown
  SilentLossIsWholeFrames
  BufferIsBounded
