SPECIFICATION ClockSpec
CONSTANTS
  NI = 2
  NT = 2
  MaxTxns = 2
  FifoDepth = 16
  Wiring = "bus"
  ExactOrder = TRUE
  TxnsPerPass = 16
  EndRspDelay = 7
  IniKinds <- Selects
  NDebug = FALSE
  Kind <- Kinds1
  Period = 20
  AcceptDelay = 10
  ReadDelay = 50
  WriteDelay = 30
  MemorySize = 40
INVARIANTS EveryIterationSends ReadsOwnPass LoggedTimes EndsClean
