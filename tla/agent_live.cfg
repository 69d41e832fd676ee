SPECIFICATION FairSpec
CONSTANTS
  Conn = {c1, c2}
  Val = {v1}
  Right = Right  Wrong = Wrong  NoAns = NoAns
  KeyFile = "none"  ReadOnly = FALSE
  Missing = Missing  Malformed = Malformed
  Idle = 1
  Request <- LiveRequests
  ClientsWait = TRUE
  NoConn = NoConn  NoReq = NoReq  NoResp = NoResp  None = None
PROPERTIES RequestsEnd IdleAgentExits
CHECK_DEADLOCK FALSE
