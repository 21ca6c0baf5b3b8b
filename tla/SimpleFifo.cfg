SPECIFICATION Spec
CONSTANTS
  Size = 3
  MaxBurst = 4
  Total = 7
  WritePause = 3
  ReadPause = 1
INVARIANTS TypeOK InOrder NoLostWakeup StatsMeaningful
PROPERTIES AllDelivered ImplementsQueue
CHECK_DEADLOCK FALSE
