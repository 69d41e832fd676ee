SPECIFICATION Spec
CONSTANTS
  p1 = p1
  Manager = {m1, m2}
  Path = {p1}
  Config <- OneFile
  Segment <- Segments
  Request <- OneAddress
  Val = {v1, v2}
  Pw = {right, wrong}
  NoPw = NoPw
  Retries = 2
  NoPath = NoPath  NoVal = NoVal  NoCred = NoCred  NoFile = NoFile  Torn = Torn  NoDb = NoDb
  ReconfigureUnlocked = FALSE
  SingleWriter = TRUE
INVARIANTS TypeOK PlaintextOnlyWhileUnlocked AckedSetsSurvive SessionMatchesFile
PROPERTIES VaultNeverDestroyed ImplementsSession
CHECK_DEADLOCK FALSE
