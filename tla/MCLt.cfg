SPECIFICATION Spec
CONSTANTS
  NI = 2
  NT = 2
  MaxTxns = 2
  FifoDepth = 1
  Wiring = "blocking"
  ExactOrder = FALSE
  TxnsPerPass = 3
  Span = 16
  AddressSpace = 1024
  MemorySize = 10
  AcceptDelay = 2
  ReadDelay = 5
  WriteDelay = 3
  StartDmiDelay = 9
  DmiDuration = 30
  Quantum = 12
  Platforms <- AllPlatforms
INVARIANTS TypeOK KeepsToQuantum TimingPreserved
PROPERTIES ImplementsMemory AllComplete
