SPECIFICATION Spec
CONSTANTS
  Agent = {a1, a2}
  Program = {p1, p2}
  Retries = 2
  KeyFile = "none"
  Hasty = FALSE
  NoAgent = NoAgent  NoSock = NoSock  Stale = Stale  NoOne = NoOne
INVARIANT OneListener
CHECK_DEADLOCK FALSE
