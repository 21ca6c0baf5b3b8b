\* The rounds and pauses of the source.  60 reads in place of 40, so that the rounds
\* start again; data of 5 bits, so that they wrap; two more edges in reset.
SPECIFICATION Spec
CONSTANTS
  BufSize = 10
  Reads = 60
  PauseEvery = 6
  Width = 32
  Resets = 3
  MaxItems = 80
INVARIANTS TypeOK TakesNext SameEdge
PROPERTIES ImplementsRvd AllConsumed
CHECK_DEADLOCK FALSE
