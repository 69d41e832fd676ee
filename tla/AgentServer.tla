---------------------------- MODULE AgentServer -----------------------------
(***************************************************************************)
(* One agent process, from the bound socket to its exit: the accept loop,  *)
(* a goroutine per connection, the request mutex, the Manager's mutex, the *)
(* replay prompter, the idle timer, the signal goroutine and the deferred  *)
(* cleanup.  Clients connect, send one request at a time and read the      *)
(* response, or hang up.  Peers are of the agent's own user.               *)
(*                                                                         *)
(* The vault holds one address; VaultManager has the driver's detail.      *)
(***************************************************************************)
EXTENDS Integers, FiniteSets

CONSTANTS
  Conn,         \* connections that may be open at the same time
  Val,          \* secret values
  Right, Wrong, \* forwarded answers: the vault's, others
  NoAns,        \* no answer: the client believed the agent unlocked, or left it out
  KeyFile,      \* "none", or "with" a password, or enough "alone"
  ReadOnly,     \* the driver's read_only setting
  Missing, Malformed,  \* addresses without an entry, and without two segments
  Idle,         \* the idle timeout in ticks; negative: never
  Request,      \* the requests clients make
  ClientsWait,  \* does every client stay until its response is there?
  NoConn, NoReq, NoResp, None

ASSUME IdleAssumption == Idle \in Int
ASSUME ServerSentinels ==
  /\ NoConn \notin Conn
  /\ None \notin Val
  /\ Right # Wrong /\ NoAns \notin {Right, Wrong}
  /\ KeyFile \in {"none", "with", "alone"} /\ ReadOnly \in BOOLEAN
  /\ {Missing, Malformed} \cap (Val \cup {None}) = {} /\ Missing # Malformed
  /\ ClientsWait \in BOOLEAN

(* A get names the one address of the vault (None) or another one.  The    *)
(* wire codes are those of errorCode that this driver's errors have;       *)
(* "other" is the empty code of all the rest: prompts, files, addresses.   *)
AnyRequest ==
  [op : {"unlock"}, arg : {Right, Wrong, NoAns}] \cup [op : {"set"}, arg : Val \cup {Malformed}]
    \cup [op : {"get"}, arg : {None, Missing, Malformed}] \cup [op : {"status", "lock"}, arg : {None}]
Code     == {"ok", "locked", "notfound", "readonly", "auth", "other"}
Response == [code : Code, val : Val \cup {None, "unlocked"}]

ASSUME WireAssumption ==
  /\ Request \subseteq AnyRequest
  /\ NoReq \notin Request /\ NoResp \notin Response

VARIABLES
  client,    \* "away", "idle" or "waiting": the client's end of a connection
  handler,   \* where the connection's goroutine is; "none" when there is none
  req, resp, \* the outstanding request and what handle made of it
  reqMu,     \* who is inside handle, or NoConn
  mgrMu,     \* who is inside the Manager across steps, or NoConn
  replay,    \* replayPrompter.answers
  unlocked,  \* Manager.unlocked
  mem, disk, \* the value in the decrypted database, and in the vault file
  timer,     \* ticks until the idle timer fires; -1 when it is not armed
  firing,    \* the AfterFunc goroutine has started and not yet run shutdown
  done,      \* s.done is closed, and with it the listener
  main       \* "accepting", "cleanup", "removing" or "exited"

vault  == <<unlocked, mem, disk>>
clock  == <<timer, firing>>
server == <<handler, resp, reqMu, mgrMu, replay, vault, clock, done, main>>
vars   == <<client, req, server>>

Init ==
  /\ client  = [c \in Conn |-> "away"]
  /\ handler = [c \in Conn |-> "none"]
  /\ req  = [c \in Conn |-> NoReq]
  /\ resp = [c \in Conn |-> NoResp]
  /\ reqMu = NoConn /\ mgrMu = NoConn
  /\ replay = NoAns
  /\ unlocked = FALSE /\ mem = None /\ disk \in Val
  /\ timer = (IF Idle < 0 THEN -1 ELSE Idle)
  /\ firing = FALSE /\ done = FALSE
  /\ main = "accepting"

Alive == main # "exited"

(* credentials and Decode: the answer that opens the vault.  The prompt is *)
(* optional when there is a key file.                                      *)
Key == IF KeyFile = "alone" THEN NoAns ELSE Right
Optional == KeyFile # "none"

-----------------------------------------------------------------------------
(* Clients.  The listener is open until shutdown; after an accept error of *)
(* its own kind it is still there while the cleanup runs.                  *)
Dial(c) ==
  /\ client[c] = "away" /\ handler[c] = "none"
  /\ ~done /\ Alive
  /\ client'  = [client EXCEPT ![c] = "idle"]
  /\ handler' = [handler EXCEPT ![c] = "backlog"]
  /\ UNCHANGED <<req, resp, reqMu, mgrMu, replay, vault, clock, done, main>>

Send(c, r) ==
  /\ client[c] = "idle" /\ handler[c] # "none"
  /\ client' = [client EXCEPT ![c] = "waiting"]
  /\ req' = [req EXCEPT ![c] = r]
  /\ UNCHANGED server

(* A response is in the socket once its handler has moved on. *)
Written(c) == resp[c] # NoResp /\ handler[c] \in {"reading", "shutting", "none"}

Forget(c) ==
  /\ req'  = [req EXCEPT ![c] = NoReq]
  /\ resp' = [resp EXCEPT ![c] = NoResp]

Receive(c) ==
  /\ client[c] = "waiting" /\ Written(c)
  /\ client' = [client EXCEPT ![c] = "idle"]
  /\ Forget(c)
  /\ UNCHANGED <<handler, reqMu, mgrMu, replay, vault, clock, done, main>>

(* The client reads end of file. *)
Broken(c) ==
  /\ client[c] # "away" /\ handler[c] = "none" /\ ~Written(c)
  /\ client' = [client EXCEPT ![c] = "away"]
  /\ Forget(c)
  /\ UNCHANGED <<handler, reqMu, mgrMu, replay, vault, clock, done, main>>

(* The client closes its end or dies.  A request it sent may still be read. *)
HangUp(c) ==
  /\ client[c] = "idle" \/ (client[c] = "waiting" /\ ~ClientsWait)
  /\ client' = [client EXCEPT ![c] = "away"]
  /\ IF Written(c) THEN Forget(c) ELSE UNCHANGED <<req, resp>>
  /\ UNCHANGED <<handler, reqMu, mgrMu, replay, vault, clock, done, main>>

-----------------------------------------------------------------------------
(* shutdown: once, done and the listener are closed; connections nobody    *)
(* accepted are reset.  The caller's goroutine c ends with it, if it is a  *)
(* handler's.                                                              *)
Shutdown(c) ==
  /\ done' = TRUE
  /\ handler' = [d \in Conn |-> IF d = c \/ (~done /\ handler[d] = "backlog")
                                  THEN "none" ELSE handler[d]]

ResetIdleAdds == timer' = IF Idle < 0 THEN -1 ELSE timer + Idle

(* resetIdle stops the timer and arms a new one; a function that has       *)
(* already been started is not stopped by Stop.                            *)
ResetIdle == timer' = IF Idle < 0 THEN -1 ELSE Idle

Tick ==
  /\ Alive /\ timer > 0
  /\ timer' = timer - 1
  /\ UNCHANGED <<client, req, handler, resp, reqMu, mgrMu, replay, vault, firing, done, main>>

Expire ==
  /\ Alive /\ timer = 0
  /\ timer' = -1 /\ firing' = TRUE
  /\ UNCHANGED <<client, req, handler, resp, reqMu, mgrMu, replay, vault, done, main>>

IdleShutdown ==
  /\ Alive /\ firing
  /\ firing' = FALSE
  /\ Shutdown(NoConn)
  /\ UNCHANGED <<client, req, resp, reqMu, mgrMu, replay, vault, timer, main>>

(* SIGTERM or SIGINT, while the signal goroutine still waits. *)
SignalShutdown ==
  /\ Alive /\ ~done
  /\ Shutdown(NoConn)
  /\ UNCHANGED <<client, req, resp, reqMu, mgrMu, replay, vault, clock, main>>

-----------------------------------------------------------------------------
(* The accept loop and what serveManager defers. *)
Accept(c) ==
  /\ main = "accepting" /\ handler[c] = "backlog"
  /\ handler' = [handler EXCEPT ![c] = "reading"]
  /\ UNCHANGED <<client, req, resp, reqMu, mgrMu, replay, vault, clock, done, main>>

(* Accept fails once the listener is closed, or for a reason of its own. *)
AcceptFails ==
  /\ main = "accepting"
  /\ main' = "cleanup"
  /\ UNCHANGED <<client, req, handler, resp, reqMu, mgrMu, replay, vault, clock, done>>

CleanupLock ==
  /\ main = "cleanup" /\ mgrMu = NoConn
  /\ unlocked' = FALSE /\ mem' = None
  /\ main' = "removing"
  /\ UNCHANGED <<client, req, handler, resp, reqMu, mgrMu, replay, disk, clock, done>>

(* The socket and the PID file are removed and the process ends, with all  *)
(* its goroutines, wherever they are.                                      *)
Exit ==
  /\ main = "removing"
  /\ main' = "exited"
  /\ handler' = [c \in Conn |-> "none"]
  /\ req'  = [c \in Conn |-> IF Written(c) THEN req[c] ELSE NoReq]
  /\ resp' = [c \in Conn |-> IF Written(c) THEN resp[c] ELSE NoResp]
  /\ reqMu' = NoConn /\ mgrMu' = NoConn /\ replay' = NoAns
  /\ timer' = -1 /\ firing' = FALSE
  /\ UNCHANGED <<client, vault, done>>

-----------------------------------------------------------------------------
(* handleConn: read a frame, or drop the connection at end of file. *)
Read(c) ==
  /\ handler[c] = "reading"
  /\ \/ /\ req[c] # NoReq /\ resp[c] = NoResp
        /\ handler' = [handler EXCEPT ![c] = "queued"]
     \/ /\ req[c] = NoReq /\ client[c] = "away"
        /\ handler' = [handler EXCEPT ![c] = "none"]
  /\ UNCHANGED <<client, req, resp, reqMu, mgrMu, replay, vault, clock, done, main>>

BeginUnserialized(c) ==
  /\ handler[c] = "queued"
  /\ reqMu' = c
  /\ handler' = [handler EXCEPT ![c] = "begun"]
  /\ IF req[c].op = "status" THEN UNCHANGED timer ELSE ResetIdle
  /\ UNCHANGED <<client, req, resp, mgrMu, replay, vault, firing, done, main>>

BeginAlwaysResets(c) ==
  /\ handler[c] = "queued" /\ reqMu = NoConn
  /\ reqMu' = c
  /\ handler' = [handler EXCEPT ![c] = "begun"]
  /\ ResetIdle
  /\ UNCHANGED <<client, req, resp, mgrMu, replay, vault, firing, done, main>>

(* handle: reqMu is taken, and every request but status resets the timer. *)
Begin(c) ==
  /\ handler[c] = "queued" /\ reqMu = NoConn
  /\ reqMu' = c
  /\ handler' = [handler EXCEPT ![c] = "begun"]
  /\ IF req[c].op = "status" THEN UNCHANGED timer ELSE ResetIdle
  /\ UNCHANGED <<client, req, resp, mgrMu, replay, vault, firing, done, main>>

Goto(c, next) ==
  /\ handler' = [handler EXCEPT ![c] = next]
  /\ UNCHANGED <<client, req, clock, done, main>>

Respond(c, code, val) ==
  resp' = [resp EXCEPT ![c] = [code |-> code, val |-> val]]

(* The handler is inside handle with this request, and m.mu can be taken. *)
Handling(c, op) ==
  handler[c] = "begun" /\ req[c].op = op /\ mgrMu = NoConn

(* handle returns: reqMu is released. *)
Leave(c) ==
  /\ reqMu' = NoConn
  /\ Goto(c, "replying")
  /\ UNCHANGED mgrMu

(* unlock: nothing to do, or the answers are handed to the prompter. *)
CheckUnlocked(c) ==
  /\ Handling(c, "unlock")
  /\ IF unlocked
       THEN /\ Respond(c, "ok", None) /\ Leave(c)
            /\ UNCHANGED replay
       ELSE /\ replay' = req[c].arg /\ Goto(c, "replaying")
            /\ UNCHANGED <<resp, reqMu, mgrMu>>
  /\ UNCHANGED vault

(* Manager.Unlock takes m.mu, and Dispatch reads the answers then there; a *)
(* required one that is missing is an error, an optional one is left out.  *)
Dispatch(c) ==
  /\ handler[c] = "replaying" /\ mgrMu = NoConn
  /\ IF replay = NoAns /\ ~Optional
       THEN Respond(c, "other", None) /\ Goto(c, "clearing") /\ UNCHANGED mgrMu
       ELSE /\ mgrMu' = c /\ UNCHANGED resp
            /\ Goto(c, IF replay = Key THEN "opening" ELSE "refusing")
  /\ UNCHANGED <<reqMu, replay, vault>>

(* The database in memory is set last: an error leaves the vault locked. *)
OpensVault(c) ==
  /\ handler[c] = "opening"
  /\ unlocked' = TRUE /\ mem' = disk
  /\ Respond(c, "ok", None)

(* ErrAuth, which a file that was replaced gives to right answers, too; or *)
(* a vault file or a key file that cannot be read, decoded or decrypted.   *)
FailsToOpen(c) ==
  /\ \E code \in {"auth", "other"} : Respond(c, code, None)
  /\ UNCHANGED <<unlocked, mem>>

DriverUnlockKeepsMutex(c) ==
  /\ handler[c] \in {"opening", "refusing"}
  /\ \/ OpensVault(c) /\ mgrMu' = NoConn
     \/ FailsToOpen(c) /\ UNCHANGED mgrMu
  /\ Goto(c, "clearing")
  /\ UNCHANGED <<reqMu, replay, disk>>

(* The driver opens the vault with the answers, or does not. *)
DriverUnlock(c) ==
  /\ handler[c] \in {"opening", "refusing"}
  /\ OpensVault(c) \/ FailsToOpen(c)
  /\ mgrMu' = NoConn
  /\ Goto(c, "clearing")
  /\ UNCHANGED <<reqMu, replay, disk>>

ClearForgotten(c) ==
  /\ handler[c] = "clearing"
  /\ Leave(c)
  /\ UNCHANGED <<resp, replay, vault>>

Clear(c) ==
  /\ handler[c] = "clearing"
  /\ replay' = NoAns
  /\ Leave(c)
  /\ UNCHANGED <<resp, vault>>

(* What the Manager and the driver say to a request's address: guard,      *)
(* ParseAddress, read_only, and whether there is an entry, in this order.  *)
Verdict(r) ==
  IF ~unlocked THEN "locked"
  ELSE IF r.arg = Malformed THEN "other"
  ELSE IF r.op = "set" /\ ReadOnly THEN "readonly"
  ELSE IF r.arg = Missing THEN "notfound" ELSE "ok"

(* get and list. *)
Get(c) ==
  LET code == Verdict(req[c])
  IN  /\ Handling(c, "get")
      /\ Respond(c, code, IF code = "ok" THEN mem ELSE None)
      /\ Leave(c)
      /\ UNCHANGED <<replay, vault>>

(* set: m.mu is held while the database is changed and then saved. *)
Set(c) ==
  /\ Handling(c, "set")
  /\ IF Verdict(req[c]) = "ok"
       THEN mgrMu' = c /\ Goto(c, "saving") /\ UNCHANGED <<resp, reqMu>>
       ELSE Respond(c, Verdict(req[c]), None) /\ Leave(c)
  /\ UNCHANGED <<replay, vault>>

Save(c) ==
  /\ handler[c] = "saving"
  /\ mem' = req[c].arg
  /\ \/ disk' = mem' /\ Respond(c, "ok", None)
     \/ UNCHANGED disk /\ Respond(c, "other", None)
  /\ reqMu' = NoConn /\ mgrMu' = NoConn
  /\ Goto(c, "replying")
  /\ UNCHANGED <<replay, unlocked>>

Status(c) ==
  /\ Handling(c, "status")
  /\ Respond(c, "ok", IF unlocked THEN "unlocked" ELSE None)
  /\ Leave(c)
  /\ UNCHANGED <<replay, vault>>

Lock(c) ==
  /\ Handling(c, "lock")
  /\ unlocked' = FALSE /\ mem' = None
  /\ Respond(c, "ok", None)
  /\ Leave(c)
  /\ UNCHANGED <<replay, disk>>

(* The response is written; a client that is gone makes that fail, and the *)
(* connection is dropped there and then.                                   *)
Reply(c) ==
  /\ handler[c] = "replying"
  /\ IF client[c] = "waiting"
       THEN /\ handler' = [handler EXCEPT ![c] =
                             IF req[c].op = "lock" THEN "shutting" ELSE "reading"]
            /\ UNCHANGED <<req, resp>>
       ELSE /\ handler' = [handler EXCEPT ![c] = "none"]
            /\ Forget(c)
  /\ UNCHANGED <<client, reqMu, mgrMu, replay, vault, clock, done, main>>

LockShutdown(c) ==
  /\ handler[c] = "shutting"
  /\ Shutdown(c)
  /\ UNCHANGED <<client, req, resp, reqMu, mgrMu, replay, vault, clock, main>>

-----------------------------------------------------------------------------
Client(c) ==
  Dial(c) \/ (\E r \in Request : Send(c, r)) \/ Receive(c) \/ Broken(c) \/ HangUp(c)

(* Steps that wait for one of the two mutexes, and the handler's others. *)
Waiting(c) ==
  \/ Begin(c) \/ CheckUnlocked(c) \/ Dispatch(c)
  \/ Get(c) \/ Set(c) \/ Status(c) \/ Lock(c)
Running(c) ==
  \/ Read(c) \/ DriverUnlock(c) \/ Clear(c) \/ Save(c) \/ Reply(c) \/ LockShutdown(c)

Next ==
  \/ \E c \in Conn : Client(c) \/ Accept(c) \/ Waiting(c) \/ Running(c)
  \/ AcceptFails \/ CleanupLock \/ Exit
  \/ Tick \/ Expire \/ IdleShutdown \/ SignalShutdown

Spec == Init /\ [][Next]_vars

(* Go's mutexes do not starve a waiter, goroutines that can run do, time   *)
(* passes, and a client reads what it waits for.  No client has to send or *)
(* close anything, and no signal has to come.                              *)
FairSpec ==
  /\ Spec
  /\ WF_vars(done /\ AcceptFails) /\ SF_vars(CleanupLock) /\ WF_vars(Exit)
  /\ WF_vars(Tick \/ Expire) /\ WF_vars(IdleShutdown)
  /\ \A c \in Conn : /\ WF_vars(Accept(c)) /\ SF_vars(Waiting(c)) /\ WF_vars(Running(c))
                     /\ WF_vars(Receive(c) \/ Broken(c))
-----------------------------------------------------------------------------
(* Every variable has its type. *)
TypeOK ==
  /\ client \in [Conn -> {"away", "idle", "waiting"}]
  /\ handler \in [Conn -> {"none", "backlog", "reading", "queued", "begun", "replaying",
                           "opening", "refusing", "clearing", "saving", "replying", "shutting"}]
  /\ req \in [Conn -> Request \cup {NoReq}]
  /\ resp \in [Conn -> Response \cup {NoResp}]
  /\ {reqMu, mgrMu} \subseteq Conn \cup {NoConn}
  /\ replay \in {Right, Wrong, NoAns}
  /\ {unlocked, firing, done} \subseteq BOOLEAN
  /\ mem \in Val \cup {None} /\ disk \in Val
  /\ timer \in -1 .. (IF Idle < 0 THEN 0 ELSE Idle)
  /\ main \in {"accepting", "cleanup", "removing", "exited"}

(* The answers replayed to the Manager are those of the one connection     *)
(* whose unlock is being handled, and are gone when its handle returns.    *)
AnswersStayWithTheirRequest ==
  replay # NoAns =>
    /\ reqMu # NoConn
    /\ req[reqMu].op = "unlock" /\ req[reqMu].arg = replay
    /\ handler[reqMu] \in {"replaying", "opening", "refusing", "clearing"}

(* To its clients the agent is one vault with atomic requests, whatever    *)
(* the interleaving of handlers, timer, signals and cleanup.               *)
Service == INSTANCE AgentService WITH open <- unlocked /\ Alive, value <- IF Alive THEN mem ELSE None

ImplementsService == Service!ServiceSpec

(* Nobody waits for ever: a client that sent a request reads a response or *)
(* the end of the connection, shutdowns and cleanup included.              *)
RequestsEnd == \A c \in Conn : client[c] = "waiting" ~> client[c] # "waiting"

(* An agent that is only asked for its status, however often, locks its    *)
(* vault and exits: only other requests keep it alive.                     *)
Working(c) == req[c] # NoReq /\ req[c].op # "status"
IdleAgentExits == (<>[]\A c \in Conn : ~Working(c)) => <>~Alive
=============================================================================
