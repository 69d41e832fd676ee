-------------------------- MODULE AgentServerProofs --------------------------
(***************************************************************************)
(* Theorems about AgentServer, for any number of connections, any values,  *)
(* any idle timeout and clients that hang up whenever they like: types,    *)
(* mutual exclusion, forwarded answers that stay with their request, and   *)
(* that the agent implements AgentService.                                 *)
(***************************************************************************)
EXTENDS AgentServer, TLAPS

(* Where a handler is inside handle, where it holds the Manager's mutex,   *)
(* and where the replay prompter has its answers.                          *)
InHandle    == {"begun", "replaying", "opening", "refusing", "clearing", "saving"}
InManager   == {"opening", "refusing", "saving"}
WithAnswers == {"replaying", "opening", "refusing", "clearing"}

Mutexes ==
  \A c \in Conn :
    /\ reqMu = c <=> handler[c] \in InHandle
    /\ mgrMu = c <=> handler[c] \in InManager

(* A connection has a request from Send until its response is received, or *)
(* the connection ends; the response is there once handle has decided it.  *)
Requests ==
  \A c \in Conn :
    /\ client[c] = "idle" => req[c] = NoReq
    /\ req[c] = NoReq => resp[c] = NoResp
    /\ handler[c] \in InHandle \cup {"queued", "replying"} => req[c] # NoReq
    /\ handler[c] \in (InHandle \ {"clearing"}) \cup {"backlog", "queued"} => resp[c] = NoResp
    /\ handler[c] = "none" /\ ~done /\ main # "exited" => client[c] = "away" /\ req[c] = NoReq

(* What a handler between two steps knows about its request and the vault. *)
Sessions ==
  /\ \A c \in Conn :
       /\ handler[c] \in WithAnswers => req[c].op = "unlock" /\ req[c].arg = replay
       /\ handler[c] \in {"replaying", "opening", "refusing"} => ~unlocked
       /\ handler[c] = "opening" => req[c].arg = Key
       /\ handler[c] = "saving" => req[c].op = "set" /\ unlocked /\ req[c].arg \in Val /\ ~ReadOnly
  /\ replay # NoAns => \E c \in Conn : handler[c] \in WithAnswers

ExitEndsHandlers == main = "exited" => \A c \in Conn : handler[c] = "none"

Inv == TypeOK /\ Mutexes /\ Requests /\ Sessions /\ ExitEndsHandlers

-----------------------------------------------------------------------------
LEMMA RequestType ==
  ASSUME NEW r \in Request
  PROVE  /\ r # NoReq
         /\ r.op = "unlock" => r.arg \in {Right, Wrong, NoAns}
         /\ r.op = "set" => r.arg \in Val \cup {Malformed}
BY WireAssumption DEF AnyRequest

LEMMA ResponseType ==
  ASSUME NEW code \in Code, NEW val \in Val \cup {None, "unlocked"}
  PROVE  [code |-> code, val |-> val] \in Response /\ [code |-> code, val |-> val] # NoResp
BY WireAssumption DEF Response

LEMMA VerdictIs ==
  ASSUME NEW r \in Request
  PROVE  /\ Verdict(r) \in Code
         /\ Verdict(r) = "ok" => unlocked /\ r.arg \notin {Malformed, Missing}
         /\ Verdict(r) = "ok" /\ r.op = "set" => ~ReadOnly
BY ServerSentinels DEF Verdict, Code

LEMMA InvInit == Init => Inv
<1> SUFFICES ASSUME Init PROVE Inv
  OBVIOUS
<1> USE DEF Init
<1>1. TypeOK
  <2>1. timer \in -1 .. (IF Idle < 0 THEN 0 ELSE Idle)
    BY IdleAssumption
  <2>2. /\ client \in [Conn -> {"away", "idle", "waiting"}]
        /\ req \in [Conn -> Request \cup {NoReq}] /\ resp \in [Conn -> Response \cup {NoResp}]
    OBVIOUS
  <2>3. handler \in [Conn -> {"none", "backlog", "reading", "queued", "begun", "replaying",
                           "opening", "refusing", "clearing", "saving", "replying", "shutting"}]
    OBVIOUS
  <2> QED BY <2>1, <2>2, <2>3 DEF TypeOK
<1>2. Mutexes
  BY ServerSentinels DEF Mutexes, InHandle, InManager
<1>3. Requests /\ Sessions /\ ExitEndsHandlers
  BY DEF Requests, Sessions, ExitEndsHandlers, InHandle, WithAnswers
<1> QED BY <1>1, <1>2, <1>3 DEF Inv

LEMMA InvStep == Inv /\ [Next]_vars => Inv'
<1> SUFFICES ASSUME Inv, [Next]_vars PROVE Inv'
  OBVIOUS
<1> USE IdleAssumption, ServerSentinels, WireAssumption DEF Inv, TypeOK, Mutexes, Requests, Sessions, ExitEndsHandlers, InHandle, InManager, WithAnswers, vault, clock, Alive
<1>1. ASSUME NEW c \in Conn, Dial(c) PROVE Inv'
  BY <1>1 DEF Dial
<1>2. ASSUME NEW c \in Conn, NEW r \in Request, Send(c, r) PROVE Inv'
  BY <1>2 DEF Send, server
<1>3. ASSUME NEW c \in Conn, Receive(c) PROVE Inv'
  BY <1>3 DEF Receive, Written, Forget
<1>4. ASSUME NEW c \in Conn, Broken(c) PROVE Inv'
  BY <1>4 DEF Broken, Written, Forget
<1>5. ASSUME NEW c \in Conn, HangUp(c) PROVE Inv'
  BY <1>5 DEF HangUp, Written, Forget
<1>6. CASE Tick
  BY <1>6 DEF Tick
<1>7. CASE Expire
  BY <1>7 DEF Expire
<1>8. CASE IdleShutdown
  BY <1>8 DEF IdleShutdown, Shutdown
<1>9. CASE SignalShutdown
  BY <1>9 DEF SignalShutdown, Shutdown
<1>10. ASSUME NEW c \in Conn, Accept(c) PROVE Inv'
  BY <1>10 DEF Accept
<1>11. CASE AcceptFails
  BY <1>11 DEF AcceptFails
<1>12. CASE CleanupLock
  BY <1>12 DEF CleanupLock
<1>13. CASE Exit
  <2> USE <1>13 DEF Exit, Written
  <2>1. TypeOK'
    <3>1. timer' \in -1 .. (IF Idle < 0 THEN 0 ELSE Idle)
      BY IdleAssumption
    <3>2. req' \in [Conn -> Request \cup {NoReq}] /\ resp' \in [Conn -> Response \cup {NoResp}]
      OBVIOUS
    <3> QED BY <3>1, <3>2
  <2>2. Requests'
    BY DEF Requests
  <2>3. Mutexes' /\ Sessions' /\ ExitEndsHandlers'
    OBVIOUS
  <2> QED BY <2>1, <2>2, <2>3
<1>14. ASSUME NEW c \in Conn, Read(c) PROVE Inv'
  BY <1>14 DEF Read
<1>15. ASSUME NEW c \in Conn, Begin(c) PROVE Inv'
  BY <1>15 DEF Begin, ResetIdle
<1>16. ASSUME NEW c \in Conn, CheckUnlocked(c) PROVE Inv'
  BY <1>16, RequestType, ResponseType DEF CheckUnlocked, Handling, Respond, Leave, Goto, Code
<1>17. ASSUME NEW c \in Conn, Dispatch(c) PROVE Inv'
  BY <1>17, RequestType, ResponseType DEF Dispatch, Respond, Goto, Code
<1>18. ASSUME NEW c \in Conn, DriverUnlock(c) PROVE Inv'
  <2> USE <1>18, ResponseType DEF DriverUnlock, OpensVault, FailsToOpen, Respond, Goto, Code
  <2>1. TypeOK'
    <3>1. resp' \in [Conn -> Response \cup {NoResp}]
      OBVIOUS
    <3>2. handler' = [handler EXCEPT ![c] = "clearing"] /\ mem' \in Val \cup {None} /\ unlocked' \in BOOLEAN
      OBVIOUS
    <3> QED BY <3>1, <3>2
  <2>2. Mutexes'
    OBVIOUS
  <2>3. Requests'
    OBVIOUS
  <2>4. Sessions'
    OBVIOUS
  <2>5. ExitEndsHandlers'
    OBVIOUS
  <2> QED BY <2>1, <2>2, <2>3, <2>4, <2>5
<1>19. ASSUME NEW c \in Conn, Clear(c) PROVE Inv'
  BY <1>19 DEF Clear, Leave, Goto
<1>20. ASSUME NEW c \in Conn, Get(c) PROVE Inv'
  BY <1>20, VerdictIs, ResponseType DEF Get, Handling, Respond, Leave, Goto
<1>21. ASSUME NEW c \in Conn, Set(c) PROVE Inv'
  BY <1>21, RequestType, VerdictIs, ResponseType DEF Set, Handling, Respond, Leave, Goto
<1>22. ASSUME NEW c \in Conn, Save(c) PROVE Inv'
  BY <1>22, RequestType, ResponseType DEF Save, Respond, Goto, Code
<1>23. ASSUME NEW c \in Conn, Status(c) PROVE Inv'
  BY <1>23, ResponseType DEF Status, Handling, Respond, Leave, Goto, Code
<1>24. ASSUME NEW c \in Conn, Lock(c) PROVE Inv'
  <2> USE <1>24, ResponseType DEF Lock, Handling, Respond, Leave, Goto, Code
  <2>1. TypeOK'
    OBVIOUS
  <2>2. Mutexes'
    OBVIOUS
  <2>3. Requests'
    OBVIOUS
  <2>4. Sessions'
    OBVIOUS
  <2>5. ExitEndsHandlers'
    OBVIOUS
  <2> QED BY <2>1, <2>2, <2>3, <2>4, <2>5
<1>25. ASSUME NEW c \in Conn, Reply(c) PROVE Inv'
  BY <1>25 DEF Reply, Forget
<1>26. ASSUME NEW c \in Conn, LockShutdown(c) PROVE Inv'
  BY <1>26 DEF LockShutdown, Shutdown
<1>27. CASE UNCHANGED vars
  BY <1>27 DEF vars, server
<1> QED BY <1>1, <1>2, <1>3, <1>4, <1>5, <1>6, <1>7, <1>8, <1>9, <1>10, <1>11, <1>12, <1>13,
   <1>14, <1>15, <1>16, <1>17, <1>18, <1>19, <1>20, <1>21, <1>22, <1>23, <1>24, <1>25, <1>26, <1>27
   DEF Next, Client, Waiting, Running

(* server.go: every variable keeps its type, with handlers, the timer, the *)
(* signal goroutine and the cleanup interleaved in any way.                *)
THEOREM TypeCorrect == Spec => []TypeOK
<1>1. Inv => TypeOK
  BY DEF Inv
<1> QED BY InvInit, InvStep, <1>1, PTL DEF Spec

(* reqMu and the Manager's mutex: one handler at a time is inside handle,  *)
(* and one at a time has the Manager's database half changed.              *)
MutualExclusion ==
  \A c, d \in Conn :
    c # d => /\ ~(handler[c] \in InHandle /\ handler[d] \in InHandle)
             /\ ~(handler[c] \in InManager /\ handler[d] \in InManager)

(* server.go:126, "requests are processed one at a time", whatever clients *)
(* do, and through shutdown and cleanup.                                   *)
THEOREM RequestsAreSerialized == Spec => []MutualExclusion
<1>1. Inv => MutualExclusion
  BY DEF Inv, Mutexes, MutualExclusion
<1> QED BY InvInit, InvStep, <1>1, PTL DEF Spec

(* prompter.go: the answers that the replay prompter has are those of the  *)
(* one unlock request that is inside handle; no other request sees them.   *)
THEOREM AnswersAreNotMixed == Spec => []AnswersStayWithTheirRequest
<1>1. Inv => AnswersStayWithTheirRequest
  BY ServerSentinels DEF Inv, Mutexes, Sessions, AnswersStayWithTheirRequest, WithAnswers, InHandle
<1> QED BY InvInit, InvStep, <1>1, PTL DEF Spec

-----------------------------------------------------------------------------
(* AgentServer implements AgentService.  A request takes effect when its   *)
(* response is decided; all other steps are the client's, the end of some  *)
(* connections, or no steps of the service.                                *)
LEMMA NoServiceStep ==
  ASSUME UNCHANGED <<req, resp, unlocked, mem, disk>>, Alive' <=> Alive
  PROVE  UNCHANGED Service!service
BY DEF Service!service

LEMMA ServiceCloses ==
  ASSUME NEW S \in SUBSET Conn,
         req'  = [c \in Conn |-> IF c \in S THEN NoReq ELSE req[c]],
         resp' = [c \in Conn |-> IF c \in S THEN NoResp ELSE resp[c]],
         UNCHANGED disk,
         \/ UNCHANGED <<unlocked, mem>> /\ (Alive' <=> Alive)
         \/ ~(unlocked /\ Alive)' /\ (Alive' => mem' = None)
  PROVE  Service!ServiceNext
<1>1. Service!Close(S)
  BY DEF Service!Close
<1> QED BY <1>1 DEF Service!ServiceNext

LEMMA ForgetCloses ==
  ASSUME Inv, NEW c \in Conn, Forget(c), UNCHANGED <<vault, main>>
  PROVE  Service!ServiceNext
<1>1. /\ req'  = [d \in Conn |-> IF d \in {c} THEN NoReq ELSE req[d]]
      /\ resp' = [d \in Conn |-> IF d \in {c} THEN NoResp ELSE resp[d]]
  BY DEF Forget, Inv, TypeOK
<1> QED BY <1>1, ServiceCloses DEF vault, Alive

(* A response decided in handle, while the agent runs. *)
LEMMA InHandleRuns ==
  ASSUME Inv, NEW c \in Conn, handler[c] \in InHandle, UNCHANGED main
  PROVE  /\ Alive /\ Alive'
         /\ req[c] # NoReq
         /\ handler[c] # "clearing" => resp[c] = NoResp
BY DEF Inv, ExitEndsHandlers, Requests, InHandle, Alive

LEMMA ServiceStep == Inv /\ [Next]_vars => [Service!ServiceNext]_(Service!service)
<1> SUFFICES ASSUME Inv, [Next]_vars
             PROVE  Service!ServiceNext \/ UNCHANGED Service!service
  OBVIOUS
<1> USE DEF Service!ServiceNext, Service!Answer, Service!Pending
<1>1. ASSUME NEW c \in Conn, NEW r \in Request, Send(c, r) PROVE Service!ServiceNext
  <2>1. req[c] = NoReq
    BY <1>1 DEF Send, Inv, Requests
  <2>2. Service!Send(c, r)
    BY <1>1, <2>1 DEF Send, Service!Send, server, vault, Alive
  <2> QED BY <2>2
<1>2. ASSUME NEW c \in Conn, Receive(c) \/ Broken(c) PROVE Service!ServiceNext
  BY <1>2, ForgetCloses DEF Receive, Broken
<1>3. ASSUME NEW c \in Conn, HangUp(c) \/ Reply(c)
      PROVE  Service!ServiceNext \/ UNCHANGED Service!service
  BY <1>3, ForgetCloses, NoServiceStep DEF HangUp, Reply, vault, Alive
<1>4. CASE CleanupLock
  <2> DEFINE S == {c \in Conn : FALSE}
  <2>1. /\ req'  = [d \in Conn |-> IF d \in S THEN NoReq ELSE req[d]]
        /\ resp' = [d \in Conn |-> IF d \in S THEN NoResp ELSE resp[d]]
    BY <1>4 DEF CleanupLock, Inv, TypeOK
  <2>2. UNCHANGED disk /\ ~(unlocked /\ Alive)' /\ mem' = None
    BY <1>4 DEF CleanupLock
  <2> QED BY <2>1, <2>2, ServiceCloses
<1>5. CASE Exit
  <2> DEFINE S == {c \in Conn : ~Written(c)}
  <2>1. /\ req'  = [d \in Conn |-> IF d \in S THEN NoReq ELSE req[d]]
        /\ resp' = [d \in Conn |-> IF d \in S THEN NoResp ELSE resp[d]]
    BY <1>5 DEF Exit
  <2> QED BY <1>5, <2>1, ServiceCloses DEF Exit, Alive, vault
<1>6. ASSUME NEW c \in Conn, CheckUnlocked(c)
      PROVE  Service!ServiceNext \/ UNCHANGED Service!service
  <2>1. CASE unlocked
    <3>1. Service!ServeUnlock(c)
      BY <1>6, <2>1, InHandleRuns
      DEF CheckUnlocked, Handling, Respond, Leave, Goto, vault, InHandle, Service!ServeUnlock
    <3> QED BY <3>1
  <2>2. CASE ~unlocked
    BY <1>6, <2>2, NoServiceStep DEF CheckUnlocked, Goto, vault, Alive
  <2> QED BY <2>1, <2>2
<1>7. ASSUME NEW c \in Conn, Dispatch(c)
      PROVE  Service!ServiceNext \/ UNCHANGED Service!service
  <2>1. CASE replay = NoAns
    <3>1. ~unlocked /\ req[c].op = "unlock"
      BY <1>7, <2>1, ServerSentinels DEF Dispatch, Inv, Sessions, WithAnswers
    <3>2. CASE Optional
      BY <1>7, <2>1, <3>2, NoServiceStep DEF Dispatch, Goto, vault, Alive
    <3>3. CASE ~Optional
      <4>1. Service!ServeUnlock(c)
        BY <1>7, <2>1, <3>1, <3>3, InHandleRuns
        DEF Dispatch, Respond, Goto, vault, InHandle, Service!ServeUnlock
      <4> QED BY <4>1
    <3> QED BY <3>2, <3>3
  <2>2. CASE replay # NoAns
    BY <1>7, <2>2, NoServiceStep DEF Dispatch, Goto, vault, Alive
  <2> QED BY <2>1, <2>2
<1>8. ASSUME NEW c \in Conn, DriverUnlock(c) PROVE Service!ServiceNext
  <2>1. /\ ~unlocked /\ req[c].op = "unlock"
        /\ handler[c] = "opening" => req[c].arg = Key
    BY <1>8 DEF DriverUnlock, Inv, Sessions, WithAnswers
  <2>2. Service!ServeUnlock(c)
    BY <1>8, <2>1, InHandleRuns
    DEF DriverUnlock, OpensVault, FailsToOpen, Respond, Goto, InHandle, Service!ServeUnlock
  <2> QED BY <2>2
<1>0. ASSUME NEW c \in Conn, Alive, req[c] # NoReq
      PROVE  /\ Verdict(req[c]) = "ok" <=> Service!Refusal(req[c]) = "none"
             /\ Verdict(req[c]) # "ok" => Verdict(req[c]) = Service!Refusal(req[c])
  BY <1>0 DEF Verdict, Service!Refusal
<1>9. ASSUME NEW c \in Conn, Get(c) PROVE Service!ServiceNext
  <2>1. Service!ServeGet(c)
    BY <1>9, <1>0, InHandleRuns DEF Get, Handling, Respond, Leave, Goto, vault, InHandle, Service!ServeGet
  <2> QED BY <2>1
<1>10. ASSUME NEW c \in Conn, Set(c)
       PROVE  Service!ServiceNext \/ UNCHANGED Service!service
  <2>1. CASE Verdict(req[c]) = "ok"
    BY <1>10, <2>1, NoServiceStep DEF Set, Goto, vault, Alive
  <2>2. CASE Verdict(req[c]) # "ok"
    <3>1. Service!ServeSet(c)
      BY <1>10, <1>0, <2>2, InHandleRuns DEF Set, Handling, Respond, Leave, Goto, vault, InHandle, Service!ServeSet
    <3> QED BY <3>1
  <2> QED BY <2>1, <2>2
<1>11. ASSUME NEW c \in Conn, Save(c) PROVE Service!ServiceNext
  <2>1. req[c].op = "set" /\ unlocked /\ req[c].arg \in Val /\ ~ReadOnly
    BY <1>11 DEF Save, Inv, Sessions
  <2>2. Alive /\ req[c].arg \notin {Missing, Malformed}
    BY <1>11, <2>1, InHandleRuns, ServerSentinels DEF Save, Goto, InHandle
  <2>3. Service!Refusal(req[c]) = "none"
    BY <2>1, <2>2 DEF Service!Refusal
  <2>4. Service!ServeSet(c)
    BY <1>11, <2>1, <2>2, <2>3, InHandleRuns DEF Save, Respond, Goto, InHandle, Service!ServeSet
  <2> QED BY <2>4
<1>12. ASSUME NEW c \in Conn, Status(c) PROVE Service!ServiceNext
  <2>1. Service!ServeStatus(c)
    BY <1>12, InHandleRuns DEF Status, Handling, Respond, Leave, Goto, vault, InHandle, Service!ServeStatus
  <2> QED BY <2>1
<1>13. ASSUME NEW c \in Conn, Lock(c) PROVE Service!ServiceNext
  <2>1. Service!ServeLock(c)
    BY <1>13, InHandleRuns DEF Lock, Handling, Respond, Leave, Goto, InHandle, Service!ServeLock
  <2> QED BY <2>1
<1>14. ASSUME NEW c \in Conn, Dial(c) \/ Accept(c) \/ Read(c) \/ Begin(c) \/ Clear(c) \/ LockShutdown(c)
       PROVE  UNCHANGED Service!service
  BY <1>14, NoServiceStep DEF Dial, Accept, Read, Begin, Clear, Leave, Goto, LockShutdown, vault, Alive
<1>15. CASE AcceptFails \/ Tick \/ Expire \/ IdleShutdown \/ SignalShutdown \/ UNCHANGED vars
  BY <1>15, NoServiceStep
  DEF AcceptFails, Tick, Expire, IdleShutdown, SignalShutdown, vars, server, vault, Alive
<1> QED BY <1>1, <1>2, <1>3, <1>4, <1>5, <1>6, <1>7, <1>8, <1>9, <1>10, <1>11, <1>12, <1>13,
           <1>14, <1>15 DEF Next, Client, Waiting, Running

(* To its clients the agent is one vault with atomic requests: handlers,   *)
(* the timer, signals, shutdown and cleanup implement AgentService.        *)
THEOREM AgentImplementsService == Spec => ImplementsService
<1>1. Init => Service!ServiceInit
  BY DEF Init, Service!ServiceInit
<1> QED BY InvInit, InvStep, <1>1, ServiceStep, PTL DEF Spec, ImplementsService, Service!ServiceSpec
=============================================================================
