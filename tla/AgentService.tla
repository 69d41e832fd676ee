---------------------------- MODULE AgentService ----------------------------
(***************************************************************************)
(* What an agent promises its clients: one vault behind atomic requests.   *)
(* A request takes effect at one moment between being sent and being       *)
(* answered, whatever the other clients do; only its own right answer      *)
(* makes an unlock succeed; the vault may lock itself at any time; a       *)
(* connection may break, and then nothing is known of its request.         *)
(***************************************************************************)
CONSTANTS
  Conn, Request,
  Key,                 \* the answer that opens the vault
  ReadOnly,            \* is every set refused?
  Missing, Malformed,  \* addresses that have no value
  NoReq, NoResp, None

VARIABLES
  open,   \* is the vault unlocked?
  disk,   \* the stored value
  value,  \* the value the unlocked session serves
  req,    \* the request outstanding on each connection, or NoReq
  resp    \* its response once it has taken effect, or NoResp

service == <<open, disk, value, req, resp>>

ServiceInit ==
  /\ open = FALSE
  /\ value = None
  /\ req  = [c \in Conn |-> NoReq]
  /\ resp = [c \in Conn |-> NoResp]

Send(c, r) ==
  /\ req[c] = NoReq
  /\ req' = [req EXCEPT ![c] = r]
  /\ UNCHANGED <<open, disk, value, resp>>

Pending(c, op) == req[c] # NoReq /\ req[c].op = op /\ resp[c] = NoResp

Answer(c, code, val) ==
  /\ resp' = [resp EXCEPT ![c] = [code |-> code, val |-> val]]
  /\ UNCHANGED req

(* The right answer may fail to open the vault, no other one opens it. *)
ServeUnlock(c) ==
  /\ Pending(c, "unlock")
  /\ \/ /\ open \/ req[c].arg = Key
        /\ open' = TRUE
        /\ value' = IF open THEN value ELSE disk
        /\ Answer(c, "ok", None)
     \/ /\ ~open
        /\ \E code \in {"auth", "other"} : Answer(c, code, None)
        /\ UNCHANGED <<open, value>>
  /\ UNCHANGED disk

Refusal(r) ==
  IF ~open THEN "locked"
  ELSE IF r.arg = Malformed THEN "other"
  ELSE IF r.op = "set" /\ ReadOnly THEN "readonly"
  ELSE IF r.arg = Missing THEN "notfound" ELSE "none"

ServeGet(c) ==
  /\ Pending(c, "get")
  /\ IF Refusal(req[c]) = "none" THEN Answer(c, "ok", value)
                                 ELSE Answer(c, Refusal(req[c]), None)
  /\ UNCHANGED <<open, disk, value>>

(* A set that cannot be stored is served by this session all the same. *)
ServeSet(c) ==
  /\ Pending(c, "set")
  /\ \/ /\ Refusal(req[c]) = "none"
        /\ value' = req[c].arg
        /\ \/ disk' = req[c].arg /\ Answer(c, "ok", None)
           \/ UNCHANGED disk /\ Answer(c, "other", None)
     \/ /\ Refusal(req[c]) # "none" /\ Answer(c, Refusal(req[c]), None)
        /\ UNCHANGED <<disk, value>>
  /\ UNCHANGED open

ServeStatus(c) ==
  /\ Pending(c, "status")
  /\ Answer(c, "ok", IF open THEN "unlocked" ELSE None)
  /\ UNCHANGED <<open, disk, value>>

ServeLock(c) ==
  /\ Pending(c, "lock")
  /\ open' = FALSE /\ value' = None
  /\ Answer(c, "ok", None)
  /\ UNCHANGED disk

(* Responses are received, or connections break; the agent may lock. *)
Close(S) ==
  /\ req'  = [c \in Conn |-> IF c \in S THEN NoReq ELSE req[c]]
  /\ resp' = [c \in Conn |-> IF c \in S THEN NoResp ELSE resp[c]]
  /\ UNCHANGED disk
  /\ \/ UNCHANGED <<open, value>>
     \/ open' = FALSE /\ value' = None

ServiceNext ==
  \/ \E c \in Conn :
       \/ \E r \in Request : Send(c, r)
       \/ ServeUnlock(c) \/ ServeGet(c) \/ ServeSet(c) \/ ServeStatus(c) \/ ServeLock(c)
  \/ \E S \in SUBSET Conn : Close(S)

ServiceSpec == ServiceInit /\ [][ServiceNext]_service
=============================================================================
