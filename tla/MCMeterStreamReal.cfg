CONSTANTS
  Byte <- FrameByte
  CR = 13
  LF = 10
  FrameSize = 17
  MaxFrames = 4
  MaxLost = 0
  MaxOffset = 16
  ProcessFrame <- processFrame
  MeterFrames <- RealFrames
SPECIFICATION MCSpec
CHECK_DEADLOCK FALSE
INVARIANTS
  IntactFrameIsShown
  NoFalseReading
  IntactReadingIsShown
