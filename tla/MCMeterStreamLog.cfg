CONSTANTS
  Byte <- FrameByte
  CR = 13
  LF = 10
  FrameSize = 5
  MaxFrames = 3
  MaxLost = 0
  MaxOffset = 0
  ProcessFrame <- BytesOfFrame
  MeterFrames <- CRLFFrames
SPECIFICATION MCFairSpec
CHECK_DEADLOCK FALSE
PROPERTY
  LogIsTheFrames
