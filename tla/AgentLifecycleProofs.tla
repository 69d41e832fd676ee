------------------------ MODULE AgentLifecycleProofs ------------------------
(***************************************************************************)
(* Theorems about AgentLifecycle, for any number of agents and programs,   *)
(* any retries, and programs that may give up or be killed at any point.   *)
(***************************************************************************)
EXTENDS AgentLifecycle, TLAPS

LEMMA Constants ==
  /\ Retries \in Nat /\ Retries >= 1
  /\ NoAgent \notin Agent /\ NoOne \notin Program
  /\ NoSock \notin Agent /\ Stale \notin Agent /\ NoSock # Stale
BY LifecycleAssumption

-----------------------------------------------------------------------------
LEMMA TypeInit == Init => TypeOK
<1>1. Init => hurried \in BOOLEAN
  BY Zenon DEF Init
<1> QED BY <1>1, Constants DEF Init, TypeOK

LEMMA GoneType ==
  ASSUME TypeOK, NEW a \in Agent, Gone(a)
  PROVE  /\ agent' \in [Agent -> {"none"} \cup Starting \cup Serving]
         /\ unlocked' \in [Agent -> BOOLEAN]
         /\ conn' \in [Program -> Agent \cup {NoAgent}]
         /\ child' \in [Program -> Agent \cup {NoAgent}]
BY DEF Gone, TypeOK

(* Every agent step. *)
LEMMA AgentType ==
  ASSUME TypeOK, NEW a \in Agent, Agents(a) \/ CloseListener(a) \/ AgentDies(a)
  PROVE  TypeOK'
<1> USE DEF TypeOK
<1>1. ASSUME StartupFails(a) PROVE TypeOK'
  BY <1>1, GoneType DEF StartupFails, Vanish, programs, Settles
<1>2. ASSUME NEW next \in Starting \cup Serving, Step(a, next), sock' \in {sock, a, NoSock},
             robbed' \in {robbed, robbed \cup Unlinked(a)}
      PROVE  TypeOK'
  BY <1>2 DEF Step, programs, Unlinked, Settles
<1>3. CASE Stat(a)
  BY <1>3, <1>1, <1>2 DEF Stat, Starting
<1>4. CASE DialOwner(a)
  BY <1>4, <1>1, <1>2 DEF DialOwner, Starting
<1>5. CASE RemoveStale(a)
  BY <1>5, <1>2 DEF RemoveStale, Starting
<1>6. CASE Listen(a)
  BY <1>6, <1>1, <1>2 DEF Listen, Serving
<1>7. CASE CloseListener(a)
  BY <1>7, <1>2 DEF CloseListener, Serving, Leaving
<1>8. CASE CleanupLock(a)
  BY <1>8 DEF CleanupLock, programs, Serving, Leaving
<1>9. CASE CleanupRemove(a)
  BY <1>9, GoneType DEF CleanupRemove, Unlinked, programs
<1>10. CASE AgentDies(a)
  BY <1>10, GoneType DEF AgentDies, Vanish, programs, Settles
<1> QED BY <1>3, <1>4, <1>5, <1>6, <1>7, <1>8, <1>9, <1>10 DEF Agents

(* A command that ends. *)
LEMMA QuitType ==
  ASSUME TypeOK, NEW p \in Program, Quit(p), hurried' \in BOOLEAN, UNCHANGED <<unlocked, err>>
  PROVE  TypeOK'
BY Constants DEF TypeOK, Quit, Forget, GotoFrom

LEMMA FinishType ==
  ASSUME TypeOK, NEW p \in Program, Finish(p), UNCHANGED <<unlocked, err>>
  PROVE  TypeOK'
BY QuitType DEF TypeOK, Finish

LEMMA ProgramType ==
  ASSUME TypeOK, NEW p \in Program,
         Command(p) \/ Progress(p) \/ TakeFlock(p) \/ Return(p) \/ ProgramDies(p)
  PROVE  TypeOK'
<1> USE DEF TypeOK, Goto, GotoFrom, Running, command, locals
<1>1. CASE UnlockCommand(p)
  BY <1>1 DEF UnlockCommand
<1>2. CASE LockCommand(p)
  BY <1>2 DEF LockCommand, LockAgent
<1>3. CASE Access(p) \/ Load(p)
  BY <1>3 DEF Access, Load
<1>4. CASE ForceLock(p)
  BY <1>4 DEF ForceLock, LockAgent
<1>5. CASE Declare(p)
  BY <1>5, FinishType DEF Declare
<1>6. CASE Dispatch(p)
  BY <1>6 DEF Dispatch
<1>7. CASE Check(p)
  BY <1>7, FinishType DEF Check
<1>8. CASE Spawn(p)
  <2>1. CASE Running
    BY <1>8, <2>1 DEF Spawn, ReleaseFlock
  <2>2. CASE StartAgent(p)
    <3>1. PICK a \in Agent : agent' = [agent EXCEPT ![a] = "stat"] /\ child' = [child EXCEPT ![p] = a]
      BY <2>2 DEF StartAgent
    <3> QED BY <1>8, <2>2, <3>1 DEF Spawn, StartAgent, Starting
  <2>3. CASE ~Running /\ Finish(p)
    <3>1. attempt' \in [Program -> 0 .. Retries - 1]
      BY <2>3, Constants DEF Finish, Quit, Forget
    <3>2. /\ flock' \in Program \cup {NoOne} /\ err' \in BOOLEAN
          /\ UNCHANGED <<unlocked, agent, sock, robbed, hurried>>
      BY <1>8, <2>3 DEF Spawn, Finish, Quit
    <3> QED BY <2>3, <3>1, <3>2, Constants DEF Finish, Quit, Forget
  <2> QED BY <1>8, <2>1, <2>2, <2>3 DEF Spawn
<1>9. CASE Poll(p)
  BY <1>9, FinishType DEF Poll, ReleaseFlock
<1>10. CASE Dial(p) \/ Redial(p)
  BY <1>10, FinishType DEF Dial, Redial
<1>11. CASE SendUnlock(p)
  <2>1. CASE Finish(p) /\ UNCHANGED unlocked
    BY <1>11, <2>1, FinishType DEF SendUnlock
  <2>2. CASE Retry(p) /\ UNCHANGED <<unlocked, flock, loads, asked, answer, child>>
    <3>1. attempt[p] + 1 \in 0 .. Retries - 1
      BY <2>2, Constants DEF Retry
    <3> QED BY <1>11, <2>2, <3>1 DEF SendUnlock, Retry
  <2>3. CASE Unlocked(p) /\ conn[p] # NoAgent /\ unlocked' = [unlocked EXCEPT ![conn[p]] = TRUE]
    <3>1. attempt' \in [Program -> 0 .. Retries - 1]
      BY <2>3, Constants DEF Unlocked, Forget
    <3> QED BY <1>11, <2>3, <3>1 DEF SendUnlock, Unlocked, Forget
  <2> QED BY <1>11, <2>1, <2>2, <2>3 DEF SendUnlock
<1>12. CASE TakeFlock(p)
  BY <1>12 DEF TakeFlock
<1>13. CASE Cancel(p) \/ Return(p)
  BY <1>13, FinishType DEF Cancel, Return
<1>14. CASE Timeout(p) \/ ProgramDies(p)
  BY <1>14, QuitType DEF Timeout, ProgramDies, Leaves
<1> QED BY <1>1, <1>2, <1>3, <1>4, <1>5, <1>6, <1>7, <1>8, <1>9, <1>10, <1>11, <1>12, <1>13, <1>14
        DEF Command, Progress

LEMMA TypeStep == TypeOK /\ [Next]_vars => TypeOK'
<1>1. TypeOK /\ UNCHANGED vars => TypeOK'
  BY DEF TypeOK, vars, agents, command, locals
<1> QED BY <1>1, AgentType, ProgramType DEF Next

(* Agents, programs and what they share keep their types through crashes,  *)
(* races for the socket and killed programs, without assumptions.          *)
THEOREM TypeCorrect == Spec => []TypeOK
BY TypeInit, TypeStep, PTL DEF Spec

-----------------------------------------------------------------------------
(* Only serving agents answer at the path, and whoever spawns holds the    *)
(* lock.  Unless a spawner has left its agent on its way there, an agent   *)
(* that is has nobody beside it, finds nobody at the path, and has its     *)
(* spawner waiting, who finds no error file of an earlier start.           *)
OwnerServes == \A a \in Agent : sock = a => agent[a] = "serving"

SpawnersHoldTheLock == \A p \in Program : pc[p] \in {"spawn", "wait"} => flock = p

Calm ==
  \A a \in Agent : OnItsWay(a) =>
    /\ \A b \in Agent : OnItsWay(b) => a = b
    /\ ~Running
    /\ ~err /\ \E p \in Program : pc[p] = "wait" /\ child[p] = a

Orderly == OwnerServes /\ ServingIsReachable /\ SpawnersHoldTheLock /\ (hurried \/ Calm)

LEMMA OrderlyInit == Init => Orderly
BY Constants DEF Init, Orderly, OwnerServes, ServingIsReachable, SpawnersHoldTheLock, Calm, OnItsWay,
  Starting

(* A calm that nothing disturbs: no agent starts, those on their way find  *)
(* nobody at the path, and their spawners wait on.                         *)
LEMMA StillCalm ==
  ASSUME Calm, UNCHANGED pc,
         \A a \in Agent : OnItsWay(a)' =>
           OnItsWay(a) /\ ~Running' /\ ~err' /\ \A p \in Program : child[p] = a => child'[p] = a
  PROVE  Calm'
BY DEF Calm

(* When nobody is left on the way, the order of starts is restored. *)
LEMMA Settled ==
  ASSUME Settles, Orderly, Calm => Calm'
  PROVE  hurried' \/ Calm'
BY DEF Settles, Orderly, Calm, OnItsWay

(* An agent on its way to the socket takes a step on it, or gives up. *)
LEMMA StarterOrderly ==
  ASSUME TypeOK, Orderly, NEW a \in Agent, OnItsWay(a), Agents(a)
  PROVE  Orderly'
<1> USE DEF OnItsWay
<1>0. sock # a /\ agent[a] # "serving"
  BY DEF Orderly, OwnerServes, Starting
<1>1. CASE StartupFails(a)
  <2>1. /\ \A b \in Agent : agent'[b] = IF b = a THEN "none" ELSE agent[b]
        /\ sock' = sock /\ robbed' = robbed \ {a} /\ UNCHANGED programs /\ Settles
        /\ \A p \in Program : child'[p] = IF child[p] = a THEN NoAgent ELSE child[p]
    BY <1>1 DEF StartupFails, Vanish, Gone, TypeOK
  <2>2. OwnerServes' /\ ServingIsReachable'
    BY <1>0, <2>1 DEF Orderly, OwnerServes, ServingIsReachable
  <2>3. ASSUME Calm PROVE Calm'
    <3>1. \A b \in Agent : ~OnItsWay(b)'
      BY <2>1, <2>3 DEF Calm, Starting
    <3> QED BY <3>1 DEF Calm
  <2>4. SpawnersHoldTheLock'
    BY <2>1 DEF Orderly, SpawnersHoldTheLock, programs
  <2> QED BY <2>1, <2>2, <2>3, <2>4, Settled DEF Orderly
<1>2. CASE \E next \in Starting : Step(a, next) /\ sock' \in {sock, NoSock}
                                 /\ robbed' = IF hurried THEN robbed \cup ({sock, sock'} \cap (Agent \ {sock', a})) ELSE robbed
  <2>1. PICK next \in Starting : Step(a, next)
    BY <1>2
  <2>2. /\ \A b \in Agent : agent'[b] = IF b = a THEN next ELSE agent[b]
        /\ UNCHANGED <<programs, err, child>> /\ Settles
    BY <2>1 DEF Step, TypeOK
  <2>3. OwnerServes'
    BY <1>0, <1>2, <2>2, Constants DEF Orderly, OwnerServes
  <2>4. ASSUME NEW b \in Agent, agent'[b] = "serving" PROVE sock' = b \/ b \in robbed'
    <3>1. b # a /\ agent[b] = "serving"
      BY <2>1, <2>2, <2>4 DEF Starting
    <3>2. sock = b \/ b \in robbed
      BY <3>1 DEF Orderly, ServingIsReachable
    <3>3. CASE hurried
      BY <1>2, <3>1, <3>2, <3>3
    <3>4. CASE ~hurried
      <4>1. ~Running
        BY <3>4 DEF Orderly, Calm
      <4> QED BY <1>2, <3>2, <3>4, <4>1 DEF Running
    <3> QED BY <3>3, <3>4
  <2>5. ASSUME Calm PROVE Calm'
    BY <1>2, <2>1, <2>2, <2>5, StillCalm, Constants DEF Calm, Running, programs
  <2>6. SpawnersHoldTheLock'
    BY <2>2 DEF Orderly, SpawnersHoldTheLock, programs
  <2> QED BY <2>2, <2>3, <2>4, <2>5, <2>6, Settled DEF Orderly, ServingIsReachable
<1>3. CASE Step(a, "serving") /\ sock' = a /\ sock = NoSock /\ UNCHANGED robbed
  <2>1. /\ \A b \in Agent : agent'[b] = IF b = a THEN "serving" ELSE agent[b]
        /\ UNCHANGED programs /\ Settles
    BY <1>3 DEF Step, TypeOK
  <2>2. OwnerServes' /\ ServingIsReachable'
    BY <1>3, <2>1, Constants DEF Orderly, OwnerServes, ServingIsReachable
  <2>3. ASSUME Calm PROVE Calm'
    <3>1. \A b \in Agent : ~OnItsWay(b)'
      BY <2>1, <2>3 DEF Calm, Starting
    <3> QED BY <3>1 DEF Calm
  <2>4. SpawnersHoldTheLock'
    BY <2>1 DEF Orderly, SpawnersHoldTheLock, programs
  <2> QED BY <2>1, <2>2, <2>3, <2>4, Settled DEF Orderly
<1>4. CASE Stat(a) \/ DialOwner(a)
  BY <1>1, <1>2, <1>4 DEF Stat, DialOwner, Starting
<1>5. CASE RemoveStale(a)
  <2>1. {sock, NoSock} \cap (Agent \ {NoSock, a}) = Unlinked(a)
    BY Constants DEF Unlinked
  <2> QED BY <1>2, <1>5, <2>1 DEF RemoveStale, Starting
<1>6. CASE Listen(a)
  BY <1>1, <1>3, <1>6 DEF Listen
<1> QED
  BY <1>4, <1>5, <1>6 DEF Agents, CleanupLock, CleanupRemove, Starting

(* An agent goes away, and takes the path with it, whosever it is. *)
LEMMA LeaverOrderly ==
  ASSUME TypeOK, Orderly, NEW a \in Agent,
         \/ CloseListener(a) \/ CleanupLock(a) \/ CleanupRemove(a) \/ AgentDies(a)
  PROVE  Orderly'
<1>1. /\ \A b \in Agent \ {a} : agent'[b] = agent[b]
      /\ agent'[a] \in {"none"} \cup Leaving
  BY DEF CloseListener, CleanupLock, CleanupRemove, AgentDies, Vanish, Gone, Step, TypeOK, Leaving
<1>2. /\ UNCHANGED <<programs, err>>
      /\ \A p \in Program : child'[p] = child[p] \/ (child[p] = a /\ agent'[a] = "none")
      /\ hurried' = hurried \/ Settles
  BY <1>1 DEF CloseListener, CleanupLock, CleanupRemove, AgentDies, Vanish, Gone, Step, TypeOK
<1>3. /\ sock' \in {sock, NoSock, Stale} /\ sock' # a
      /\ \A b \in Agent \ {a} : b \in robbed => b \in robbed'
      /\ \A b \in Agent \ {a} : sock = b => sock' = b \/ b \in robbed'
  BY Constants
  DEF CloseListener, CleanupLock, CleanupRemove, AgentDies, Vanish, Gone, Unlinked, TypeOK,
      Orderly, OwnerServes
<1>4. OwnerServes' /\ ServingIsReachable'
  BY <1>1, <1>3, Constants DEF Orderly, ServingIsReachable, OwnerServes, Leaving
<1>5. SpawnersHoldTheLock'
  BY <1>2 DEF Orderly, SpawnersHoldTheLock, programs
<1>6. ASSUME Calm PROVE Calm'
  <2>1. ASSUME NEW b \in Agent, OnItsWay(b)'
        PROVE  OnItsWay(b) /\ ~Running' /\ ~err' /\ \A p \in Program : child[p] = b => child'[p] = b
    <3>1. b # a /\ OnItsWay(b)
      BY <1>1, <2>1 DEF OnItsWay, Starting, Leaving
    <3> QED BY <1>2, <1>3, <1>6, <3>1, Constants DEF Calm, Running
  <2> QED BY <1>2, <1>6, <2>1, StillCalm DEF programs
<1>7. hurried' \/ Calm'
  BY <1>2, <1>6, Settled DEF Orderly
<1> QED BY <1>4, <1>5, <1>7 DEF Orderly

LEMMA AgentOrderly ==
  ASSUME TypeOK, Orderly, NEW a \in Agent, Agents(a) \/ CloseListener(a) \/ AgentDies(a)
  PROVE  Orderly'
<1>1. CASE Stat(a) \/ DialOwner(a) \/ RemoveStale(a) \/ Listen(a)
  <2>1. OnItsWay(a) /\ Agents(a)
    BY <1>1 DEF Agents, Stat, DialOwner, RemoveStale, Listen, OnItsWay, Starting
  <2> QED BY <2>1, StarterOrderly
<1> QED BY <1>1, LeaverOrderly DEF Agents

-----------------------------------------------------------------------------
(* Steps of a program that start no agent.  Only one that waits for an     *)
(* agent on its way has to stay where it is, or upsets the order.          *)
NobodyOnTheWay == \A a \in Agent : ~OnItsWay(a)

LEMMA ProgramOrderly ==
  ASSUME TypeOK, Orderly, UNCHANGED <<agent, sock, robbed>>, NEW p \in Program,
         \A q \in Program \ {p} : pc'[q] = pc[q] /\ child'[q] = child[q],
         pc'[p] \in {"spawn", "wait"} => flock' = p,
         \A q \in Program \ {p} : flock = q => flock' = q,
         hurried' \/ (~hurried /\ (pc[p] = "wait" => NobodyOnTheWay)),
         err' => err
  PROVE  Orderly'
<1>1. OwnerServes' /\ ServingIsReachable'
  BY DEF Orderly, ServingIsReachable, OwnerServes
<1>2. SpawnersHoldTheLock'
  BY DEF Orderly, SpawnersHoldTheLock
<1>3. hurried' \/ Calm'
  BY DEF Orderly, Calm, NobodyOnTheWay, OnItsWay, Running
<1> QED BY <1>1, <1>2, <1>3 DEF Orderly

LEMMA QuitOrderly ==
  ASSUME TypeOK, Orderly, NEW p \in Program, Quit(p), err' => err,
         hurried' \/ (~hurried /\ (pc[p] = "wait" => NobodyOnTheWay))
  PROVE  Orderly'
BY ProgramOrderly DEF Quit, Forget, GotoFrom, TypeOK

LEMMA FinishOrderly ==
  ASSUME TypeOK, Orderly, NEW p \in Program, Finish(p), err' => err,
         hurried \/ (pc[p] = "wait" => NobodyOnTheWay)
  PROVE  Orderly'
BY QuitOrderly DEF Finish

(* Nobody is on the way to the socket when somebody answers there, or when *)
(* the one who holds the lock is not waiting for it.                       *)
LEMMA NobodyStarts ==
  ASSUME TypeOK, Orderly, ~hurried, Running \/ \E p \in Program : pc[p] = "spawn"
  PROVE  NobodyOnTheWay
<1> SUFFICES ASSUME NEW a \in Agent, OnItsWay(a) PROVE FALSE
  BY DEF NobodyOnTheWay
<1>1. PICK p \in Program : pc[p] = "spawn"
  BY DEF Orderly, Calm
<1>2. PICK q \in Program : pc[q] = "wait"
  BY DEF Orderly, Calm
<1> QED BY <1>1, <1>2 DEF Orderly, SpawnersHoldTheLock

LEMMA SpawnOrderly ==
  ASSUME TypeOK, Orderly, NEW p \in Program, Spawn(p)
  PROVE  Orderly'
<1>0. pc[p] = "spawn" /\ flock = p
  BY DEF Spawn, Orderly, SpawnersHoldTheLock
<1>1. CASE Running
  BY <1>0, <1>1, ProgramOrderly DEF Spawn, ReleaseFlock, Goto, GotoFrom, command, locals, TypeOK
<1>2. CASE ~Running /\ Finish(p)
  BY <1>0, <1>2, FinishOrderly DEF Spawn
<1>3. CASE ~Running /\ StartAgent(p)
  <2>1. PICK a \in Agent : agent' = [agent EXCEPT ![a] = "stat"] /\ child' = [child EXCEPT ![p] = a]
                           /\ agent[a] = "none"
    BY <1>3 DEF StartAgent
  <2>2. /\ ~err' /\ pc' = [pc EXCEPT ![p] = "wait"]
        /\ UNCHANGED <<flock, sock, robbed, hurried>>
    BY <1>3 DEF Spawn, StartAgent
  <2>3. \A b \in Agent : agent'[b] = IF b = a THEN "stat" ELSE agent[b]
    BY <2>1 DEF TypeOK
  <2>4. OwnerServes' /\ ServingIsReachable'
    BY <2>1, <2>2, <2>3 DEF Orderly, ServingIsReachable, OwnerServes
  <2>5. SpawnersHoldTheLock'
    BY <1>0, <2>2 DEF Orderly, SpawnersHoldTheLock, TypeOK
  <2>6. pc'[p] = "wait" /\ child'[p] = a
    BY <2>1, <2>2 DEF TypeOK
  <2>7. ASSUME ~hurried PROVE Calm'
    <3>1. NobodyOnTheWay
      BY <1>0, <2>7, NobodyStarts
    <3> QED BY <1>3, <2>2, <2>3, <2>6, <3>1 DEF Calm, NobodyOnTheWay, OnItsWay, Running
  <2> QED BY <2>2, <2>4, <2>5, <2>7 DEF Orderly
<1> QED BY <1>1, <1>2, <1>3 DEF Spawn

(* The wait ends with an agent that answers, or with an error file, which  *)
(* is that of the agent it was for.                                        *)
LEMMA PollOrderly ==
  ASSUME TypeOK, Orderly, NEW p \in Program, Poll(p)
  PROVE  Orderly'
<1>1. CASE Running
  BY <1>1, NobodyStarts, ProgramOrderly
  DEF Poll, Goto, GotoFrom, Finish, ReleaseFlock, command, locals, TypeOK, Orderly, SpawnersHoldTheLock
<1>2. CASE ~Running
  <2>1. Finish(p) /\ err /\ UNCHANGED err
    BY <1>2 DEF Poll
  <2>2. hurried \/ NobodyOnTheWay
    BY <2>1 DEF Orderly, Calm, NobodyOnTheWay
  <2> QED BY <2>1, <2>2, FinishOrderly
<1> QED BY <1>1, <1>2

(* A program that goes without its agent having come or gone upsets the    *)
(* order; any other may go.                                                *)
LEMMA LeaveOrderly ==
  ASSUME TypeOK, Orderly, NEW p \in Program, Quit(p), Leaves(p), UNCHANGED err
  PROVE  Orderly'
<1>1. CASE hurried \/ Expects(p)
  BY <1>1, QuitOrderly DEF Leaves
<1>2. CASE ~hurried /\ ~Expects(p)
  <2>1. ASSUME pc[p] = "wait", NEW a \in Agent, OnItsWay(a) PROVE FALSE
    <3>1. PICK q \in Program : pc[q] = "wait" /\ child[q] = a
      BY <1>2, <2>1 DEF Orderly, Calm
    <3>2. q = p
      BY <2>1, <3>1 DEF Orderly, SpawnersHoldTheLock
    <3> QED BY <1>2, <2>1, <3>1, <3>2, Constants DEF Expects
  <2>2. hurried' = hurried
    BY <1>2 DEF Leaves, TypeOK
  <2> QED BY <1>2, <2>1, <2>2, QuitOrderly DEF NobodyOnTheWay
<1> QED BY <1>1, <1>2

LEMMA ProgramsOrderly ==
  ASSUME TypeOK, Orderly, NEW p \in Program,
         Command(p) \/ Progress(p) \/ TakeFlock(p) \/ Return(p) \/ ProgramDies(p)
  PROVE  Orderly'
<1> USE DEF TypeOK, Goto, GotoFrom, command, locals
<1>1. CASE UnlockCommand(p)
  BY <1>1, ProgramOrderly DEF UnlockCommand
<1>2. CASE LockCommand(p)
  BY <1>2, ProgramOrderly DEF LockCommand, Orderly, SpawnersHoldTheLock
<1>3. CASE Access(p) \/ Load(p)
  BY <1>3, ProgramOrderly DEF Access, Load
<1>4. CASE ForceLock(p) \/ Dispatch(p)
  BY <1>4, ProgramOrderly DEF ForceLock, Dispatch
<1>5. CASE Declare(p) \/ Check(p)
  BY <1>5, ProgramOrderly, FinishOrderly DEF Declare, Check
<1>6. CASE TakeFlock(p)
  BY <1>6, ProgramOrderly, Constants DEF TakeFlock
<1>7. CASE Dial(p) \/ Redial(p)
  BY <1>7, ProgramOrderly, FinishOrderly DEF Dial, Redial
<1>8. CASE Cancel(p) \/ Return(p)
  BY <1>8, FinishOrderly DEF Cancel, Return
<1>9. CASE Timeout(p) \/ ProgramDies(p)
  BY <1>9, LeaveOrderly DEF Timeout, ProgramDies
<1>10. CASE SendUnlock(p)
  <2>0. pc[p] = "send" /\ UNCHANGED err
    BY <1>10 DEF SendUnlock
  <2>1. CASE Finish(p)
    BY <2>0, <2>1, FinishOrderly
  <2>2. CASE Retry(p) /\ UNCHANGED <<flock, child>>
    BY <2>0, <2>2, ProgramOrderly DEF Retry
  <2>3. CASE Unlocked(p)
    BY <2>0, <2>3, ProgramOrderly DEF Unlocked, Forget
  <2> QED BY <1>10, <2>1, <2>2, <2>3 DEF SendUnlock
<1> QED BY <1>1, <1>2, <1>3, <1>4, <1>5, <1>6, <1>7, <1>8, <1>9, <1>10,
           SpawnOrderly, PollOrderly DEF Command, Progress

LEMMA OrderlyStep == TypeOK /\ Orderly /\ [Next]_vars => Orderly'
<1>1. Orderly /\ UNCHANGED vars => Orderly'
  BY DEF vars, agents, command, locals, Orderly, ServingIsReachable, OwnerServes,
         SpawnersHoldTheLock, Calm, OnItsWay, Running
<1> QED BY <1>1, AgentOrderly, ProgramsOrderly DEF Next

(* The spawn lock, the removal of the old error file and the wait keep     *)
(* agents from starting side by side, whatever dies and exits meanwhile;   *)
(* and after a spawner has left its agent on its way, they do so again     *)
(* once nobody is on it any more.                                          *)
THEOREM AgentsStartAlone == Spec => []OneStarts
<1>1. Orderly => OneStarts
  BY DEF Orderly, Calm, OneStarts
<1> QED BY TypeInit, TypeStep, OrderlyInit, OrderlyStep, <1>1, PTL DEF Spec

(* An agent that serves is the one that the socket path leads to, unless   *)
(* another one has unlinked its socket: on its own way out, or because it  *)
(* started beside it.  No dead socket, no crash and no other start takes   *)
(* the path from a live agent.                                             *)
THEOREM LiveAgentsAreFound == Spec => []ServingIsReachable
<1>1. Orderly => ServingIsReachable
  BY DEF Orderly
<1> QED BY TypeInit, TypeStep, OrderlyInit, OrderlyStep, <1>1, PTL DEF Spec
=============================================================================
