--------------------------- MODULE SecretResolver ---------------------------
(***************************************************************************)
(* From a secret: reference, or a secret get, to the value: programs read  *)
(* the registry, keep managers in their Loader, and reach the agent of the *)
(* vault's identity or start one, which reads the registry once more.      *)
(* Registry files are edited and agents go away at any time.               *)
(*                                                                         *)
(* Calls of one program share its Loader (With makes copies that do) and   *)
(* its standard input; commands are calls that use no Loader.  Sockets,    *)
(* spawn locks and late starts are AgentLifecycle's; requests to an agent  *)
(* are single steps, as AgentServer shows.                                 *)
(***************************************************************************)
EXTENDS VaultRegistry, Prompters

CONSTANTS
  Program, Call,
  Of,          \* the program of each call
  Cwd, Env,    \* each program's directory and FLEXCONF_VAULTS
  Modes,       \* what its calls are: Loads with either policy, or commands
  Wired,       \* programs that call RunAgentIfRequested
  Override,    \* each program's Options.VaultID, or Nothing
  Prompters,   \* what each program passes to SetPrompter, or in Options: CLI prompters
               \* over a terminal or a pipe, a map or nothing
  Known,       \* what a map prompter is given
  Typed,       \* what a user may enter at a terminal
  Piped,       \* what a program's standard input holds to begin with
  Loads,       \* the references of the configurations a call may load, in order
  Asked,       \* the names that commands are given, or NoName
  Contents,    \* what is in the registry files at some time
  Edited,      \* those that are edited while programs run
  VaultFile,   \* where there is a vault; "right" opens it
  Retries, MaxEdits,
  EditsDuringUnlock,  \* may the registry change between its reads for one unlock?
  NoCall, Nothing

ASSUME ResolverAssumption ==
  /\ Of \in [Call -> Program] /\ NoCall \notin Call
  /\ \A p \in Program :
       /\ Modes[p] \subseteq {"agent", "inprocess", "command"}
       /\ Prompters[p] \subseteq {"terminal", "pipe", "map", "none"}
       /\ Env[p] = Unset \/ Env[p] \in Seq((Dir \cup {Tilde, Here}) \X Base)
       /\ \A i \in DOMAIN FileList(Env[p]) : Located(FileList(Env[p])[i], Cwd[p]) \in DOMAIN Contents
  /\ \A f \in DOMAIN Contents : \A content \in Contents[f] : IsFile(content)
  /\ Edited \subseteq DOMAIN Contents
  /\ {Retries, MaxEdits} \subseteq Nat /\ Retries > 0
  /\ EditsDuringUnlock \in BOOLEAN

VARIABLES
  files,    \* the registry files
  edits,    \* how often they were edited
  agents,   \* the running agents: VaultID -> its definition, its file, is it open
  mutex,    \* each Loader's secrets.mu: the call that holds it
  kept,     \* each Loader's managers: of some names -> the file, over which agent,
            \* and whether the connection to it stands
  stdin,    \* the lines left in each program's standard input
  pc,       \* where each call is
  job,      \* its local variables
  value,    \* what the last step returned: the program, the name and the file
  meant     \* history: the files that a program's registry gave a name

calls == <<pc, job>>
vars  == <<files, edits, agents, mutex, kept, stdin, calls, value, meant>>

Blank == [mode |-> "none", todo |-> <<>>, vault |-> NoName, conf |-> Nothing, dial |-> Nothing,
          link |-> Nothing, reqs |-> <<>>, answers |-> <<>>, tries |-> 0]

RegistryOf(p) == Registry(files, Env[p], Cwd[p])

(* What the registries of the programs say now. *)
Meaning ==
  UNION {LET reg == RegistryOf(p)
         IN  {<<p, n, Located(Conf(reg, n).path, Cwd[p])>> :
                n \in {m \in DOMAIN reg.vaults : reg.ok /\ Conf(reg, m).path # NoPath}} : p \in Program}

Init ==
  /\ files \in [DOMAIN Contents -> UNION {Contents[f] : f \in DOMAIN Contents}]
  /\ \A f \in DOMAIN Contents : files[f] \in Contents[f]
  /\ edits = 0
  /\ agents = <<>>
  /\ mutex = [p \in Program |-> NoCall]
  /\ kept = [p \in Program |-> <<>>]
  /\ stdin = Piped
  /\ pc = [c \in Call |-> "idle"]
  /\ job = [c \in Call |-> Blank]
  /\ value = Nothing
  /\ meant = Meaning

Running(id) == id \in DOMAIN agents

(* The identity that the proxy of a call derived. *)
Id(c) == VaultID(job[c].vault, job[c].conf)

-----------------------------------------------------------------------------
(* The world around the programs. *)
Unlocking(c) == pc[c] \in {"proxy", "declare", "prompt", "ensure", "unlock", "redial"}

Edit(f, content) ==
  /\ edits < MaxEdits /\ files[f] # content
  /\ EditsDuringUnlock \/ \A c \in Call : ~Unlocking(c)
  /\ files' = [files EXCEPT ![f] = content]
  /\ edits' = edits + 1
  /\ meant' = meant \cup Meaning'
  /\ value' = Nothing
  /\ UNCHANGED <<agents, mutex, kept, stdin, calls>>

(* Idle timeout, secret lock, a signal or a crash: its connections break.  *)
AgentLeaves(id) ==
  /\ agents' = [i \in DOMAIN agents \ {id} |-> agents[i]]
  /\ kept' = [p \in Program |-> [n \in DOMAIN kept[p] |->
       IF kept[p][n].id = id THEN [kept[p][n] EXCEPT !.up = FALSE] ELSE kept[p][n]]]
  /\ job' = [c \in Call |->
       IF job[c].link = id THEN [job[c] EXCEPT !.link = Nothing] ELSE job[c]]
  /\ value' = Nothing
  /\ UNCHANGED <<files, edits, mutex, stdin, pc, meant>>

-----------------------------------------------------------------------------
(* Calls. *)
world == <<files, edits, meant>>

Step(c, next, record) ==
  /\ pc' = [pc EXCEPT ![c] = next]
  /\ job' = [job EXCEPT ![c] = record]

ReleaseAtTheEnd(c) ==
  mutex' = [mutex EXCEPT ![Of[c]] = IF @ = c /\ Len(job[c].todo) = 1 THEN NoCall ELSE @]

Release(c) == mutex' = [mutex EXCEPT ![Of[c]] = IF @ = c THEN NoCall ELSE @]

Continue(c, next, record) == Step(c, next, record) /\ value' = Nothing /\ UNCHANGED mutex

(* An error ends the call; the deferred Unlock runs. *)
Fail(c) == Step(c, "idle", Blank) /\ value' = Nothing /\ Release(c)

Start(c) ==
  /\ pc[c] = "idle"
  /\ \/ \E refs \in Loads[c], mode \in Modes[Of[c]] \ {"command"} :
          Step(c, "token", [Blank EXCEPT !.mode = mode, !.todo = refs])
     \/ /\ "command" \in Modes[Of[c]]
        /\ \E name \in Asked :
             Step(c, "select", [Blank EXCEPT !.mode = "command", !.vault = name])
  /\ value' = Nothing
  /\ UNCHANGED <<world, agents, mutex, kept, stdin>>

(* The next $(secret:...) of a Load. *)
Acquire(c) ==
  /\ pc[c] = "token"
  /\ LET ref == ParseRef(Head(job[c].todo))
     IN  \/ ~ref.ok /\ Fail(c)
         \/ /\ ref.ok /\ mutex[Of[c]] = NoCall
            /\ mutex' = [mutex EXCEPT ![Of[c]] = c]
            /\ Step(c, "resolve", [job[c] EXCEPT !.vault = ref.vault])
            /\ value' = Nothing
  /\ UNCHANGED <<world, agents, kept, stdin>>

(* The driver's declaration: the password, unless a key file may do. *)
Credentials(conf) ==
  <<[id |-> "password", secret |-> TRUE, optional |-> "keyfile" \in conf.rest,
     confirm |-> FALSE, default |-> NoDefault]>>

HasAsWritten(c, name) == job[c].vault \in DOMAIN kept[Of[c]]

Has(c, name) == name \in DOMAIN kept[Of[c]]

(* The first reading of the registry: the key to the managers is the name  *)
(* that is meant.                                                          *)
Resolve(c) ==
  /\ pc[c] = "resolve"
  /\ LET reg   == RegistryOf(Of[c])
         name  == EffectiveName(reg, job[c].vault)
         conf  == Conf(reg, name)
         named == [job[c] EXCEPT !.vault = name]
     IN  IF ~Resolves(reg, name) THEN Fail(c)
         ELSE IF Has(c, name) THEN Continue(c, "get", named)
         ELSE IF job[c].mode = "agent" THEN Continue(c, "proxy", named)
         ELSE IF ~BuildsDriver(conf) THEN Fail(c)
         ELSE Continue(c, "prompt", [named EXCEPT !.conf = conf, !.reqs = Credentials(conf)])
  /\ UNCHANGED <<world, agents, kept, stdin>>

(* NewProxy: the second reading gives the definition and the identity. *)
Proxy(c) ==
  /\ pc[c] = "proxy"
  /\ LET reg == RegistryOf(Of[c])
     IN  IF Resolves(reg, job[c].vault) /\ BuildsDriver(Conf(reg, job[c].vault))
           THEN Continue(c, "declare", [job[c] EXCEPT !.conf = Conf(reg, job[c].vault)])
           ELSE Fail(c)
  /\ UNCHANGED <<world, agents, kept, stdin>>

(* A vault with an agent needs no answers. *)
Declare(c) ==
  /\ pc[c] = "declare"
  /\ Continue(c, "prompt", [job[c] EXCEPT
       !.reqs = IF Running(Id(c)) THEN <<>> ELSE Credentials(job[c].conf)])
  /\ UNCHANGED <<world, agents, kept, stdin>>

(* What a Dispatch may return.  Each finds the prompter that SetPrompter    *)
(* installed last; at a terminal, its user types.                          *)
Dispatched(p, reqs) ==
  UNION {CASE by = "terminal" -> {[DispatchCLI(reqs, typed) EXCEPT !.lines = stdin[p]] : typed \in Typed}
           [] by = "pipe"     -> {[DispatchCLI(reqs, stdin[p]) EXCEPT !.lines = LeftInInput(stdin[p], @)]}
           [] by = "map"      -> {DispatchValues(Known, reqs, stdin[p])}
           [] by = "none"     -> {DispatchNone(reqs, stdin[p])} : by \in Prompters[p]}

Prompt(c) ==
  /\ pc[c] = "prompt"
  /\ \E result \in Dispatched(Of[c], job[c].reqs) :
       /\ IF result.err # "none" THEN Fail(c)
          ELSE Continue(c, IF job[c].mode = "inprocess" THEN "open" ELSE "ensure",
                        [job[c] EXCEPT !.answers = result.answers])
       /\ stdin' = [stdin EXCEPT ![Of[c]] = result.lines]
  /\ UNCHANGED <<world, agents, kept>>

(* driver.Unlock.  A vault whose definition has a key file needs only that. *)
OpenOutcome(conf, file, answers) ==
  IF file \notin VaultFile THEN "failed"
  ELSE IF IF "keyfile" \in conf.rest THEN answers = <<>>
          ELSE answers # <<>> /\ answers["password"] = "right" THEN "ok"
  ELSE "auth"

RetryOnceMore(c) ==
  IF job[c].tries < Retries
    THEN Continue(c, "prompt", [job[c] EXCEPT !.tries = @ + 1, !.answers = <<>>])
    ELSE Fail(c)

(* Only ErrAuth is tried again, with the requests of the first time. *)
Retry(c) ==
  IF job[c].tries + 1 < Retries
    THEN Continue(c, "prompt", [job[c] EXCEPT !.tries = @ + 1, !.answers = <<>>])
    ELSE Fail(c)

(* What is left of a call whose vault is unlocked: the answers are wiped. *)
Unlocked(c) == [job[c] EXCEPT !.conf = Nothing, !.reqs = <<>>, !.answers = <<>>, !.tries = 0]

Keep(c, id, file) ==
  /\ kept' = [kept EXCEPT ![Of[c]] = With(@, job[c].vault, [id |-> id, up |-> TRUE, file |-> file])]
  /\ Continue(c, "get", Unlocked(c))

(* PolicyInProcess: the manager around the real driver unlocks. *)
Open(c) ==
  /\ pc[c] = "open"
  /\ LET file    == Located(job[c].conf.path, Cwd[Of[c]])
         outcome == OpenOutcome(job[c].conf, file, job[c].answers)
     IN  \/ outcome = "ok"     /\ Keep(c, Nothing, file)
         \/ outcome = "auth"   /\ Retry(c) /\ UNCHANGED kept
         \/ outcome = "failed" /\ Fail(c)  /\ UNCHANGED kept
  /\ UNCHANGED <<world, agents, stdin>>

(* An agent that has started: its driver is configured and it is locked.   *)
Served(p, conf) == [conf |-> conf, file |-> Located(conf.path, Cwd[p]), open |-> FALSE]

(* ProxyDriver.Unlock begins: without an agent, Spawn and Serve.  The new  *)
(* process, with the program's environment and directory, reads the        *)
(* registry for itself and serves the identity it was given, unless it     *)
(* fails or is late.                                                       *)
Ensure(c) ==
  /\ pc[c] = "ensure"
  /\ LET reg  == RegistryOf(Of[c])
         conf == Conf(reg, job[c].vault)
         hosts == job[c].mode = "command" \/ Of[c] \in Wired
     IN  \/ Running(Id(c)) /\ Continue(c, "unlock", job[c]) /\ UNCHANGED agents
         \/ /\ ~Running(Id(c)) /\ hosts /\ Resolves(reg, job[c].vault) /\ BuildsDriver(conf)
            /\ agents' = With(agents, Id(c), Served(Of[c], conf))
            /\ Continue(c, "unlock", job[c])
         \/ ~Running(Id(c)) /\ Fail(c) /\ UNCHANGED agents
  /\ UNCHANGED <<world, kept, stdin>>

(* Dial, and an unlock request with the answers: an open vault needs none, *)
(* and one that has to be asked for is an error that is not tried again.   *)
Unlock(c) ==
  /\ pc[c] = "unlock"
  /\ LET id      == Id(c)
         a       == agents[id]
         outcome == IF ~Running(id) THEN "gone"
                    ELSE IF a.open THEN "ok"
                    ELSE IF ~(Required(Credentials(a.conf)) \subseteq DOMAIN job[c].answers) THEN "missing"
                    ELSE OpenOutcome(a.conf, a.file, job[c].answers)
     IN  \/ /\ outcome = "ok"
            /\ agents' = [agents EXCEPT ![id].open = TRUE]
            /\ \/ job[c].mode = "agent" /\ Keep(c, id, a.file)
               \/ /\ job[c].mode = "command"
                  /\ Continue(c, "redial", [Unlocked(c) EXCEPT !.link = id])
                  /\ UNCHANGED kept
         \/ outcome = "auth" /\ Retry(c) /\ UNCHANGED <<agents, kept>>
         \/ outcome \in {"gone", "missing", "failed"} /\ Fail(c) /\ UNCHANGED <<agents, kept>>
  /\ UNCHANGED <<world, stdin>>

(* The value, or an error: a broken connection, an address, a missing key. *)
Get(c) ==
  /\ pc[c] = "get"
  /\ LET entry == kept[Of[c]][job[c].vault]
         rest  == Tail(job[c].todo)
     IN  \/ Fail(c)
         \/ /\ entry.up /\ IsAddress(ParseRef(Head(job[c].todo)).addr)
            /\ value' = <<Of[c], job[c].vault, entry.file>>
            /\ Release(c)
            /\ IF rest = <<>> THEN Step(c, "idle", Blank)
               ELSE Step(c, "token", [Blank EXCEPT !.mode = job[c].mode, !.todo = rest])
  /\ UNCHANGED <<world, agents, kept, stdin>>

(* Loader.Close waits for the mutex, like a token. *)
Close(p) ==
  /\ mutex[p] = NoCall
  /\ kept' = [kept EXCEPT ![p] = <<>>]
  /\ value' = Nothing
  /\ UNCHANGED <<world, agents, mutex, stdin, calls>>

-----------------------------------------------------------------------------
Target(p, name, conf) == IF Override[p] = Nothing THEN VaultID(name, conf) ELSE Override[p]

(* secret get, and set and list, with an address that was checked.  The     *)
(* user, or a flag, may refuse to unlock.                                  *)
Select(c) ==
  /\ pc[c] = "select"
  /\ LET reg  == RegistryOf(Of[c])
         name == EffectiveName(reg, job[c].vault)
         id   == Target(Of[c], name, Conf(reg, name))
         there == [job[c] EXCEPT !.vault = name, !.dial = id]
     IN  IF ~Resolves(reg, name) THEN Fail(c)
         ELSE IF Running(id) THEN Continue(c, "read", [there EXCEPT !.link = id])
         ELSE Fail(c) \/ Continue(c, "proxy", there)
  /\ UNCHANGED <<world, agents, kept, stdin>>

Redial(c) ==
  /\ pc[c] = "redial"
  /\ IF Running(job[c].dial) THEN Continue(c, "read", [job[c] EXCEPT !.link = job[c].dial]) ELSE Fail(c)
  /\ UNCHANGED <<world, agents, kept, stdin>>

Read(c) ==
  /\ pc[c] = "read"
  /\ \/ Fail(c)
     \/ /\ job[c].link # Nothing /\ agents[job[c].link].open
        /\ value' = <<Of[c], job[c].vault, agents[job[c].link].file>>
        /\ Step(c, "idle", Blank)
        /\ UNCHANGED mutex
  /\ UNCHANGED <<world, agents, kept, stdin>>

-----------------------------------------------------------------------------
Proceed(c) ==
  \/ Resolve(c) \/ Proxy(c) \/ Declare(c) \/ Prompt(c) \/ Open(c)
  \/ Ensure(c) \/ Unlock(c) \/ Get(c) \/ Select(c) \/ Redial(c) \/ Read(c)

Next ==
  \/ \E f \in Edited : \E content \in Contents[f] : Edit(f, content)
  \/ \E id \in DOMAIN agents : AgentLeaves(id)
  \/ \E p \in Program : Close(p)
  \/ \E c \in Call : Start(c) \/ Acquire(c) \/ Proceed(c)

(* Programs run, users answer, and a sync.Mutex starves nobody. *)
Fairness == \A c \in Call : WF_vars(Proceed(c)) /\ SF_vars(Acquire(c))

Spec == Init /\ [][Next]_vars
FairSpec == Spec /\ Fairness

-----------------------------------------------------------------------------
(* Type invariant. *)
TypeOK ==
  /\ \A f \in DOMAIN Contents : files[f] \in Contents[f]
  /\ edits \in 0 .. MaxEdits
  /\ \A id \in DOMAIN agents : id.name \in Name /\ agents[id].open \in BOOLEAN
  /\ mutex \in [Program -> Call \cup {NoCall}]
  /\ \A p \in Program : \A n \in DOMAIN kept[p] :
       n \in Name /\ kept[p][n].up \in BOOLEAN /\ kept[p][n].file \in VaultFile
  /\ \A c \in Call : job[c].tries \in 0 .. Retries - 1

(* Every value comes from a vault file that the registry of the program    *)
(* that asked gave to the name it asked for, at one time or another: what  *)
(* is read twice by the program and once more by the agent, cached in a    *)
(* Loader and looked up by identity never leads to another vault.          *)
OwnVaultOnly == value # Nothing => value \in meant

(* secret.go:67: a Loader reaches for vaults in one call at a time, and a  *)
(* call that has ended, however it ended, does not keep the others out.    *)
InLoader(c) == pc[c] \in {"resolve", "proxy", "declare", "prompt", "open", "ensure", "unlock", "get"}
               /\ job[c].mode # "command"

OneUnlockAtATime ==
  \A p \in Program, c \in Call : mutex[p] = c <=> Of[c] = p /\ InLoader(c)

(* secret.go:51, one prompt per vault: no call of a Loader asks for the    *)
(* credentials of a vault that the Loader keeps open, whatever the calls   *)
(* of its copies did since this one looked.                                *)
NeverAsksForAKeptVault ==
  [][\A c \in Call : pc[c] = "prompt" /\ pc'[c] # "prompt" /\ job[c].mode # "command" =>
       job[c].vault \notin DOMAIN kept[Of[c]]]_vars

(* The answers that go to a driver or an agent are all those required and  *)
(* no others (prompt.go:23).                                               *)
AnswersKeepContract ==
  \A c \in Call : pc[c] \in {"open", "ensure", "unlock"} =>
    KeepsContract(job[c].reqs, [err |-> "none", answers |-> job[c].answers])

(* The registry is what its last files say: a name is defined as a whole   *)
(* by the last one that has it, with paths relative to that file.          *)
LastFileWins ==
  \A p \in Program :
    LET list    == FileList(Env[p])
        At(i)   == files[Located(list[i], Cwd[p])]
        Present == {i \in DOMAIN list : At(i) \notin {NoFile, Broken}}
        Last(S) == CHOOSE i \in S : \A j \in S : j <= i
        Where(n) == {i \in Present : n \in DOMAIN At(i).vaults}
        Defaults == {i \in Present : At(i).default # NoName}
        reg     == RegistryOf(p)
    IN  /\ reg.ok <=> /\ \A i \in DOMAIN list : At(i) # Broken
                      /\ \A i \in Present : \A n \in DOMAIN At(i).vaults : ~Rejected(At(i).vaults[n])
        /\ reg.ok => /\ DOMAIN reg.vaults = {n \in Name : Where(n) # {}}
                     /\ \A n \in DOMAIN reg.vaults :
                          LET def == At(Last(Where(n))).vaults[n]
                          IN  reg.vaults[n] = [def EXCEPT !.path = NormalizePath(@, list[Last(Where(n))])]
                     /\ reg.default = IF Defaults = {} THEN NoName ELSE At(Last(Defaults)).default

(* A manager that a Load is about to use has a connection that stands.     *)
KeptConnectionsLive ==
  [][\A c \in Call : pc[c] = "resolve" /\ pc'[c] = "get" => kept[Of[c]][job'[c].vault].up]_vars

(* No call waits for ever: for the Loader's mutex, a user or an agent.     *)
CallsEnd == \A c \in Call : pc[c] # "idle" ~> pc[c] = "idle"
=============================================================================
