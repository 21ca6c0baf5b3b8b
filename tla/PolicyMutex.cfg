SPECIFICATION PolicySpec
CONSTANTS
  Process = {p1, p2, p3, p4}
  NoOne = NoOne
INVARIANTS ListIsTheSleepers ChainUnbroken
PROPERTIES NoStarvation
