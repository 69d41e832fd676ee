SPECIFICATION Spec
CONSTANTS
  Agent = {a1, a2}
  Program = {p1, p2}
  Retries = 2
  KeyFile = "none"
  Hasty = TRUE
  NoAgent = NoAgent  NoSock = NoSock  Stale = Stale  NoOne = NoOne
SYMMETRY Symmetry
INVARIANTS TypeOK ServingIsReachable OneStarts
CHECK_DEADLOCK FALSE
