CONSTANTS
  Byte = {"0d", "0a", "00", "xx"}
  CR = "0d"
  LF = "0a"
  FrameSize = 3
  MaxBytes = 9
  MaxOverrun = 3
  ProcessFrame <- MCProcessFrame
SPECIFICATION MCSpec
CHECK_DEADLOCK FALSE
INVARIANTS
  TypeOK
  BufferIsUnframedTail
  FramesEndAtFirstTerminator
  LinesMatchTheStream
  ReplayedRowsAreLiveRows
  OnlyTheLastRowIsMissing
