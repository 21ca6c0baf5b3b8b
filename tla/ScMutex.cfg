SPECIFICATION Spec
CONSTANTS
  Process = {p1, p2, p3, p4}
  NoOne = NoOne
INVARIANTS TypeOK MutualExclusion NoSleeperLeftBehind
PROPERTIES EverySleeperWoken
