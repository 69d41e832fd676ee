--------------------------- MODULE AgentLifecycle ---------------------------
(***************************************************************************)
(* The processes around one VaultID: programs (the CLI's commands and the  *)
(* proxy driver of an application) that find, spawn, unlock, use and lock  *)
(* an agent, and the agents that bind the socket, serve and go away.  They *)
(* share a socket path, a spawn lock and an error file.                    *)
(*                                                                         *)
(* A served request is one step here: AgentServer shows that it may be.    *)
(* Requests of an unlocked session change nothing of this state, and the   *)
(* exit of an agent whose Accept fails by itself is left to AgentServer.   *)
(***************************************************************************)
EXTENDS Integers, FiniteSets

CONSTANTS
  Agent,     \* agent processes that may exist at the same time
  Program,   \* programs
  Retries,   \* unlock attempts of a Manager over the proxy
  KeyFile,   \* the vault's: "none", or "with" a password, or enough "alone"
  Hasty,     \* may a spawner give up, or be killed, with its agent on its way?
  NoAgent, NoSock, Stale, NoOne

ASSUME LifecycleAssumption ==
  /\ Retries \in Nat \ {0}
  /\ KeyFile \in {"none", "with", "alone"} /\ Hasty \in BOOLEAN
  /\ NoAgent \notin Agent /\ NoOne \notin Program
  /\ {NoSock, Stale} \cap Agent = {} /\ NoSock # Stale

VARIABLES
  agent,     \* where each agent process is; "none" when there is none
  unlocked,  \* does its Manager hold the vault unlocked?
  sock,      \* the socket path: the listening agent, a dead socket, or nothing
  robbed,    \* agents whose socket another one has unlinked
  hurried,   \* has a spawner left one on its way, while any still is?
  err,       \* is there an error file?
  flock,     \* who holds the spawn lock
  pc,        \* where each program is in its command; "idle" between commands
  loads,     \* is that an application's Load, or a command of the CLI?
  conn,      \* the agent its connection leads to, or NoAgent
  asked,     \* did Credentials declare anything for the command's prompts?
  answer,    \* the answers the last Dispatch of the command returned
  attempt,   \* the loop variable of unlockLocked
  child      \* the agent the program spawned in this command

agents   == <<agent, unlocked, sock, robbed, hurried>>
locals   == <<asked, answer, attempt, child>>
command  == <<loads, locals>>
vars     == <<agents, err, flock, pc, conn, command>>

Init ==
  /\ agent = [a \in Agent |-> "none"]
  /\ unlocked = [a \in Agent |-> FALSE]
  /\ sock \in {NoSock, Stale} /\ robbed = {} /\ hurried = FALSE
  /\ err \in BOOLEAN
  /\ flock = NoOne
  /\ pc = [p \in Program |-> "idle"] /\ loads = [p \in Program |-> FALSE]
  /\ conn = [p \in Program |-> NoAgent]
  /\ asked = [p \in Program |-> FALSE]
  /\ answer = [p \in Program |-> "none"]
  /\ attempt = [p \in Program |-> 0]
  /\ child = [p \in Program |-> NoAgent]

(* Running, and Dial: somebody listens at the path. *)
Running == sock \in Agent

(* The answer that opens the vault, and whether it may be left out. *)
Key == IF KeyFile = "alone" THEN "none" ELSE "right"
Optional == KeyFile # "none"

-----------------------------------------------------------------------------
(* Agents. *)
Starting == {"stat", "dial", "remove", "listen"}
Leaving  == {"closing", "locked"}
Serving  == {"serving"} \cup Leaving

(* The process is gone; so are its connections and what its socket was.    *)
Gone(a) ==
  /\ agent' = [agent EXCEPT ![a] = "none"]
  /\ unlocked' = [unlocked EXCEPT ![a] = FALSE]
  /\ conn' = [p \in Program |-> IF conn[p] = a THEN NoAgent ELSE conn[p]]
  /\ child' = [p \in Program |-> IF child[p] = a THEN NoAgent ELSE child[p]]

Vanish(a) == Gone(a) /\ robbed' = robbed \ {a}

programs == <<pc, loads, asked, answer, attempt, flock>>

(* robbed and hurried are history: spawners that give up or are killed     *)
(* upset the order of starts until all that are under way have ended.      *)
OnItsWay(a) == agent[a] \in Starting
Settles == hurried' = (hurried /\ \E b \in Agent : agent'[b] \in Starting)

StartupFails(a) ==
  /\ err' = TRUE
  /\ Vanish(a) /\ Settles
  /\ UNCHANGED <<sock, programs>>

Step(a, next) ==
  /\ agent' = [agent EXCEPT ![a] = next] /\ Settles
  /\ UNCHANGED <<unlocked, err, conn, child, programs>>

(* Serve reads the registry and builds its Manager, then serveManager      *)
(* looks at the path.  The registry may have become unreadable.            *)
Stat(a) ==
  /\ agent[a] = "stat"
  /\ \/ StartupFails(a)
     \/ /\ Step(a, IF sock = NoSock THEN "listen" ELSE "dial")
        /\ UNCHANGED <<sock, robbed>>

(* Only a socket nobody answers at is taken for stale. *)
DialOwner(a) ==
  /\ agent[a] = "dial"
  /\ IF Running THEN StartupFails(a) ELSE Step(a, "remove") /\ UNCHANGED <<sock, robbed>>

(* Whose socket goes when an agent removes the path, whatever is there. *)
Unlinked(a) == {sock} \cap (Agent \ {a})

RemoveStale(a) ==
  /\ agent[a] = "remove"
  /\ sock' = NoSock
  /\ robbed' = IF hurried THEN robbed \cup Unlinked(a) ELSE robbed
  /\ Step(a, "listen")

Listen(a) ==
  /\ agent[a] = "listen"
  /\ IF sock # NoSock THEN StartupFails(a)
                      ELSE sock' = a /\ Step(a, "serving") /\ UNCHANGED robbed

(* Idle timeout, signal, or a lock request that was answered: listener     *)
(* Close unlinks the path.                                                 *)
CloseListener(a) ==
  /\ agent[a] = "serving"
  /\ sock' = NoSock /\ robbed' = robbed \cup Unlinked(a)
  /\ Step(a, "closing")

CleanupLock(a) ==
  /\ agent[a] = "closing"
  /\ agent' = [agent EXCEPT ![a] = "locked"]
  /\ unlocked' = [unlocked EXCEPT ![a] = FALSE]
  /\ UNCHANGED <<sock, robbed, hurried, err, conn, child, programs>>

(* cleanup removes the path once more, and the process ends. *)
CleanupRemove(a) ==
  /\ agent[a] = "locked"
  /\ sock' = NoSock /\ robbed' = (robbed \ {a}) \cup Unlinked(a)
  /\ Gone(a)
  /\ UNCHANGED <<hurried, err, programs>>

(* SIGKILL, out of memory, power: a bound socket stays behind. *)
AgentDies(a) ==
  /\ agent[a] # "none"
  /\ sock' = IF sock = a THEN Stale ELSE sock
  /\ Vanish(a) /\ Settles
  /\ UNCHANGED <<err, programs>>

-----------------------------------------------------------------------------
(* Programs. *)
GotoFrom(p, next) ==
  /\ pc' = [pc EXCEPT ![p] = next]
  /\ UNCHANGED <<sock, agent, robbed>>

Goto(p, next) == GotoFrom(p, next) /\ UNCHANGED hurried

(* What a command keeps while it unlocks is gone when it has. *)
Forget(p) ==
  /\ loads' = [loads EXCEPT ![p] = FALSE]
  /\ asked' = [asked EXCEPT ![p] = FALSE]
  /\ answer' = [answer EXCEPT ![p] = "none"]
  /\ attempt' = [attempt EXCEPT ![p] = 0]
  /\ child' = [child EXCEPT ![p] = NoAgent]

QuitKeepsFlock(p) ==
  /\ GotoFrom(p, "idle")
  /\ conn' = [conn EXCEPT ![p] = NoAgent]
  /\ Forget(p)
  /\ UNCHANGED flock

(* The command ends, or its process is killed: the kernel closes its       *)
(* connection and gives its lock back.  An agent it started stays.         *)
Quit(p) ==
  /\ GotoFrom(p, "idle")
  /\ conn' = [conn EXCEPT ![p] = NoAgent]
  /\ Forget(p)
  /\ flock' = IF flock = p THEN NoOne ELSE flock

Finish(p) == Quit(p) /\ UNCHANGED hurried

(* So it does when it waits no longer for the agent it has started. *)
Expects(p) == pc[p] = "wait" /\ child[p] # NoAgent /\ OnItsWay(child[p])
Leaves(p) == hurried' = (hurried \/ Expects(p)) /\ (Expects(p) => Hasty)

(* secret unlock: "already unlocked" if an agent is running. *)
UnlockCommand(p) ==
  /\ pc[p] = "idle"
  /\ \E force \in BOOLEAN :
       Goto(p, IF ~Running THEN "declare" ELSE IF force THEN "force" ELSE "told")
  /\ UNCHANGED <<unlocked, err, flock, conn, command>>

LockAgent(a) == unlocked' = [unlocked EXCEPT ![a] = FALSE]

(* unlock --force locks the agent it can dial; errors are ignored. *)
ForceLock(p) ==
  /\ pc[p] = "force"
  /\ Goto(p, "declare")
  /\ IF Running THEN LockAgent(sock) ELSE UNCHANGED unlocked
  /\ UNCHANGED <<err, flock, conn, command>>

(* secret lock; the agent closes its listener after it has answered. *)
LockCommand(p) ==
  /\ pc[p] = "idle" /\ Running
  /\ LockAgent(sock)
  /\ UNCHANGED <<agent, sock, robbed, hurried, err, flock, pc, conn, command>>

(* secret get, set and list: withAgent dials the agent there is, or        *)
(* unlocks one.                                                            *)
Access(p) ==
  /\ pc[p] = "idle"
  /\ IF Running THEN Goto(p, "ready") /\ conn' = [conn EXCEPT ![p] = sock]
                ELSE Goto(p, "declare") /\ UNCHANGED conn
  /\ UNCHANGED <<unlocked, err, flock, command>>

(* An application's Load that needs the vault: a Manager over the proxy,   *)
(* whose Unlock is called whether or not there is an agent.                *)
Load(p) ==
  /\ pc[p] = "idle"
  /\ Goto(p, "declare") /\ loads' = [loads EXCEPT ![p] = TRUE]
  /\ UNCHANGED <<unlocked, err, flock, conn, locals>>

(* NewProxy reads the registry, and Manager.Unlock over the proxy asks     *)
(* once what to prompt for.                                                *)
Declare(p) ==
  /\ pc[p] = "declare"
  /\ UNCHANGED <<unlocked, err>>
  /\ \/ /\ asked' = [asked EXCEPT ![p] = ~Running]
        /\ Goto(p, "prompt")
        /\ UNCHANGED <<flock, conn, loads, answer, attempt, child>>
     \/ Finish(p)

Dispatch(p) ==
  /\ pc[p] = "prompt"
  /\ \E ans \in {"right", "wrong", "none"} :
       /\ IF asked[p] THEN ans = "none" => Optional ELSE ans = "none"
       /\ answer' = [answer EXCEPT ![p] = ans]
  /\ Goto(p, "check")
  /\ UNCHANGED <<unlocked, err, flock, conn, loads, asked, attempt, child>>

Cancel(p) ==
  /\ pc[p] = "prompt" /\ asked[p]
  /\ Finish(p)
  /\ UNCHANGED <<unlocked, err>>

(* ProxyDriver.Unlock: without an agent it spawns one, unless the program  *)
(* is not wired for that or the lock file cannot be opened.                *)
Check(p) ==
  /\ pc[p] = "check"
  /\ UNCHANGED <<unlocked, err>>
  /\ \/ Goto(p, IF Running THEN "dial" ELSE "flock") /\ UNCHANGED <<flock, conn, command>>
     \/ ~Running /\ Finish(p)

TakeFlockShared(p) ==
  /\ pc[p] = "flock"
  /\ flock' = p
  /\ Goto(p, "spawn")
  /\ UNCHANGED <<unlocked, err, conn, command>>

TakeFlock(p) ==
  /\ pc[p] = "flock" /\ flock = NoOne
  /\ flock' = p
  /\ Goto(p, "spawn")
  /\ UNCHANGED <<unlocked, err, conn, command>>

ReleaseFlock == flock' = NoOne

(* cmd.Start: the process begins with its way to the socket. *)
StartAgent(p) ==
  /\ \E a \in Agent :
       /\ agent[a] = "none"
       /\ agent' = [agent EXCEPT ![a] = "stat"]
       /\ child' = [child EXCEPT ![p] = a]
  /\ pc' = [pc EXCEPT ![p] = "wait"]
  /\ UNCHANGED <<sock, robbed, hurried, flock, conn, loads, asked, answer, attempt>>

SpawnKeepsError(p) ==
  /\ pc[p] = "spawn"
  /\ UNCHANGED unlocked
  /\ \/ Running /\ Goto(p, "dial") /\ ReleaseFlock /\ UNCHANGED <<err, conn, command>>
     \/ ~Running /\ UNCHANGED err /\ (StartAgent(p) \/ Finish(p))

(* Under the lock: somebody else's agent will do; otherwise the old error  *)
(* file is removed and a new agent started, if that is possible.           *)
Spawn(p) ==
  /\ pc[p] = "spawn"
  /\ UNCHANGED unlocked
  /\ \/ Running /\ Goto(p, "dial") /\ ReleaseFlock /\ UNCHANGED <<err, conn, command>>
     \/ ~Running /\ err' = FALSE /\ (StartAgent(p) \/ Finish(p))

(* The wait for the socket: it answers, or an error file is there. *)
Poll(p) ==
  /\ pc[p] = "wait"
  /\ UNCHANGED <<unlocked, err>>
  /\ \/ Running /\ Goto(p, "dial") /\ ReleaseFlock /\ UNCHANGED <<conn, command>>
     \/ ~Running /\ err /\ Finish(p)

(* The wait is bounded, the way of an agent to its socket is not. *)
Timeout(p) ==
  /\ pc[p] = "wait"
  /\ Quit(p) /\ Leaves(p)
  /\ UNCHANGED <<unlocked, err>>

Dial(p) ==
  /\ pc[p] = "dial"
  /\ UNCHANGED <<unlocked, err>>
  /\ \/ /\ Running
        /\ conn' = [conn EXCEPT ![p] = sock]
        /\ Goto(p, "send")
        /\ UNCHANGED <<flock, command>>
     \/ ~Running /\ Finish(p)

RetryOnceMore(p) ==
  /\ answer[p] = "none" => Optional
  /\ attempt[p] < Retries
  /\ attempt' = [attempt EXCEPT ![p] = @ + 1]
  /\ conn' = [conn EXCEPT ![p] = NoAgent]
  /\ Goto(p, "prompt")

(* ErrAuth: the vault does not open with the answers there are.  A prompt  *)
(* that is required and was not answered is another error.                 *)
Retry(p) ==
  /\ answer[p] = "none" => Optional
  /\ attempt[p] + 1 < Retries
  /\ attempt' = [attempt EXCEPT ![p] = @ + 1]
  /\ conn' = [conn EXCEPT ![p] = NoAgent]
  /\ Goto(p, "prompt")

(* What follows an unlock: an application keeps the connection; unlock     *)
(* says that it is done, and withAgent dials once more.  Which command of  *)
(* the CLI it was makes no difference before.                              *)
Unlocked(p) ==
  /\ IF loads[p] THEN Goto(p, "ready") /\ UNCHANGED conn
                 ELSE /\ \E next \in {"told", "redial"} : Goto(p, next)
                      /\ conn' = [conn EXCEPT ![p] = NoAgent]
  /\ Forget(p)
  /\ UNCHANGED flock

(* The unlock request: an unlocked agent says ok to anything; ErrAuth is   *)
(* retried with the prompts that were declared; other errors, of the vault *)
(* file or of the connection, end it.                                      *)
SendUnlock(p) ==
  LET a == conn[p]
  IN  /\ pc[p] = "send"
      /\ UNCHANGED err
      /\ \/ /\ a # NoAgent /\ (unlocked[a] \/ answer[p] = Key)
            /\ unlocked' = [unlocked EXCEPT ![a] = TRUE]
            /\ Unlocked(p)
         \/ /\ a # NoAgent /\ ~unlocked[a]
            /\ Retry(p)
            /\ UNCHANGED <<unlocked, flock, loads, asked, answer, child>>
         \/ /\ a # NoAgent => ~unlocked[a] \/ agent[a] \in Leaving
            /\ Finish(p)
            /\ UNCHANGED unlocked

Redial(p) ==
  /\ pc[p] = "redial"
  /\ UNCHANGED <<unlocked, err>>
  /\ \/ /\ Running
        /\ conn' = [conn EXCEPT ![p] = sock]
        /\ Goto(p, "ready")
        /\ UNCHANGED <<flock, command>>
     \/ ~Running /\ Finish(p)

Return(p) ==
  /\ pc[p] \in {"ready", "told"}
  /\ Finish(p)
  /\ UNCHANGED <<unlocked, err>>

ProgramDies(p) ==
  /\ pc[p] # "idle"
  /\ Quit(p) /\ Leaves(p)
  /\ UNCHANGED <<unlocked, err>>

-----------------------------------------------------------------------------
Agents(a) ==
  \/ Stat(a) \/ DialOwner(a) \/ RemoveStale(a) \/ Listen(a)
  \/ CleanupLock(a) \/ CleanupRemove(a)

Command(p) ==
  \/ UnlockCommand(p) \/ LockCommand(p) \/ Access(p) \/ Load(p)

Progress(p) ==
  \/ ForceLock(p) \/ Declare(p) \/ Dispatch(p) \/ Cancel(p) \/ Check(p)
  \/ Spawn(p) \/ Poll(p) \/ Timeout(p) \/ Dial(p) \/ SendUnlock(p) \/ Redial(p)

Next ==
  \/ \E a \in Agent : Agents(a) \/ CloseListener(a) \/ AgentDies(a)
  \/ \E p \in Program :
       Command(p) \/ Progress(p) \/ TakeFlock(p) \/ Return(p) \/ ProgramDies(p)

Spec == Init /\ [][Next]_vars

(* Processes run, users answer or cancel their prompts, and the kernel     *)
(* hands the lock to every waiter in turn.  Nothing else has to happen.    *)
FairSpec ==
  /\ Spec
  /\ \A a \in Agent : WF_vars(Agents(a))
  /\ \A p \in Program : WF_vars(Progress(p)) /\ SF_vars(TakeFlock(p))
-----------------------------------------------------------------------------
(* Every variable has its type. *)
TypeOK ==
  /\ agent \in [Agent -> {"none"} \cup Starting \cup Serving]
  /\ unlocked \in [Agent -> BOOLEAN]
  /\ sock \in Agent \cup {NoSock, Stale} /\ robbed \subseteq Agent /\ hurried \in BOOLEAN
  /\ err \in BOOLEAN
  /\ flock \in Program \cup {NoOne}
  /\ pc \in [Program -> {"idle", "told", "force", "declare", "prompt", "check", "flock",
                         "spawn", "wait", "dial", "send", "redial", "ready"}]
  /\ loads \in [Program -> BOOLEAN]
  /\ conn \in [Program -> Agent \cup {NoAgent}]
  /\ asked \in [Program -> BOOLEAN]
  /\ answer \in [Program -> {"none", "right", "wrong"}]
  /\ attempt \in [Program -> 0 .. Retries - 1]
  /\ child \in [Program -> Agent \cup {NoAgent}]

(* Agents start one at a time: whoever looks at the path, finds a dead     *)
(* socket and removes it can rely on nobody having bound the path in       *)
(* between.  A spawner that gives up, or is killed, upsets that, but only  *)
(* until the starts that are then under way have ended.                    *)
OneStarts ==
  ~hurried => \A a, b \in Agent : OnItsWay(a) /\ OnItsWay(b) => a = b

(* A serving agent is the one the socket path leads to, so that lock finds *)
(* it and nobody starts a second one, unless its socket was unlinked by a  *)
(* predecessor's exit, or by one that started beside it after a spawner    *)
(* had given up.  Other crashes, dead sockets and races do not do that.    *)
ServingIsReachable ==
  \A a \in Agent : agent[a] = "serving" => sock = a \/ a \in robbed

(* Every command ends or comes to have its vault, whatever dies: nobody    *)
(* keeps the spawn lock, or waits for a socket, for ever.                  *)
AtRest == {"idle", "told", "ready"}
CommandsEnd == \A p \in Program : pc[p] \notin AtRest ~> pc[p] \in AtRest

(* What cli.md says, and the code does not ensure:                         *)
(* "A second agent for the same VaultID MUST fail to bind and exit."       *)
OneListener == \A a, b \in Agent : agent[a] = "serving" /\ agent[b] = "serving" => a = b
=============================================================================
