SPECIFICATION Spec
CONSTANTS
  NI = 2
  NT = 1
  MaxTxns = 2
  FifoDepth = 16
  Wiring = "bus"
  ExactOrder = FALSE
  TxnsPerPass = 3
  EndRspDelay = 45
  IniKinds <- Selects
  NDebug = FALSE
  Kind <- Kinds1
  Period = 2
  AcceptDelay = 10
  ReadDelay = 50
  WriteDelay = 30
  MemorySize = 10
INVARIANTS RefCounts FreeIsUnreferenced RequestExclusion
