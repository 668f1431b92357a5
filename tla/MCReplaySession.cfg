CONSTANTS
  Byte = {"0d", "0a", "00", "xx"}
  CR = "0d"
  LF = "0a"
  FrameSize = 3
  MaxBytes = 8
  MaxOverrun = 3
  ProcessFrame <- MCProcessFrame
SPECIFICATION MCSpec
CHECK_DEADLOCK FALSE
INVARIANT
  ReplayShowsTheSession
