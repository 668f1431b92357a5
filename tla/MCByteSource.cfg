CONSTANTS
  MaxWords = 2
  MaxBytes = 3
  ReportSize = 2
  MaxLength = 3
  QueueSize = 2
SPECIFICATION Spec
CHECK_DEADLOCK FALSE
INVARIANTS
  TypeOK
  SinksAgree
  ForwardedExactly
  UartIsOffAtTheEnd
  CommandLineIsObeyed
  ReturnsAfterCtrlC
  DumpIsComplete
PROPERTIES
  CtrlCEndsTheProgram
  CtrlCIsHeeded
  SinksAreServed
