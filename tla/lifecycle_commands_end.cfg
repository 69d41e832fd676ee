SPECIFICATION FairSpec
CONSTANTS
  Agent = {a1}
  Program = {p1, p2}
  Retries = 2
  KeyFile = "with"
  Hasty = TRUE
  NoAgent = NoAgent  NoSock = NoSock  Stale = Stale  NoOne = NoOne
PROPERTY CommandsEnd
CHECK_DEADLOCK FALSE
