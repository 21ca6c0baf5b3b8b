SPECIFICATION Spec
CONSTANTS
  NI = 2
  NT = 2
  MaxTxns = 2
  FifoDepth = 16
  Wiring = "bus"
  ExactOrder = FALSE
  TxnsPerPass = 2
  EndRspDelay = 7
  IniKinds <- AnyInitiators
  NDebug = FALSE
  Kind <- Kinds14
  Period = 2
  AcceptDelay = 10
  ReadDelay = 15
  WriteDelay = 15
  MemorySize = 8
INVARIANTS TypeOK NoFatal TrackingAgrees ResponseEnded PeqArmed
PROPERTIES ImplementsMemory AllComplete
