SPECIFICATION PolicySpec
CONSTANTS
  Process = {p1, p2, p3}
  NoOne = NoOne
INVARIANTS OneHolder
