SPECIFICATION Spec
CONSTANTS
  NI = 3
  NT = 3
  MaxTxns = 3
  FifoDepth = 1
  Wiring = "direct"
  ExactOrder = FALSE
  TxnsPerPass = 3
  EndRspDelay = 17
  IniKinds <- AnyInitiators
  NDebug = FALSE
  Kind <- Kinds124
  Period = 2
  AcceptDelay = 10
  ReadDelay = 50
  WriteDelay = 30
  MemorySize = 14
INVARIANTS ResponseExclusion
PROPERTIES ImplementsMemory AllComplete
