SPECIFICATION Spec
CONSTANTS
  Conn = {c1, c2}
  Val = {v1, v2}
  Right = Right  Wrong = Wrong  NoAns = NoAns
  KeyFile = "with"  ReadOnly = FALSE
  Missing = Missing  Malformed = Malformed
  Idle = 1
  Request <- ServerRequests
  ClientsWait = FALSE
  NoConn = NoConn  NoReq = NoReq  NoResp = NoResp  None = None
INVARIANTS TypeOK AnswersStayWithTheirRequest
PROPERTY ImplementsService
SYMMETRY Symmetry
CHECK_DEADLOCK FALSE
