# go-flexconf: a verification project

TLA+ models of go-flexconf, a Go library and command line tool that loads
layered YAML configuration into Go structs and resolves secrets from KeePass
vaults, which a background agent keeps unlocked. Every definition is translated
from the source; `PROJECT.json` maps each one to the lines it stands for, lists
the runs, the mutants that show what each property is sensitive to, the
disagreements between the code and its documents, the hazards and the theorems.

## 1. The system

| Part | Code | State | Operations |
|---|---|---|---|
| Manager and KeePass driver | `flexvault/manager.go`, `driver/keepass` | `configured`, `unlocked`, the decrypted database, the vault file | Configure, Unlock, Create, Get, Set, List, Lock |
| Prompters | `flexprompt` | the process-wide prompter; what is left of standard input | SetPrompter, Dispatch |
| Agent server | `internal/agent/server.go`, `prompter.go`, `protocol.go` | connections, `reqMu`, replayed answers, idle timer, `done`, a Manager | unlock, get, set, list, status, lock; idle, signal, cleanup |
| Agent clients | `internal/agent/client.go`, `proxy.go`, `spawn.go`; `flexcli/secret.go` | socket path, spawn lock, error file, connections | find, spawn, unlock, use, lock |
| Loader: tree | `flexconf/loader.go`, `include.go`, `merge.go`, `template.go`, `resolvers.go` | none per Load | read layers, include, merge, resolve tokens |
| Loader: binding | `flexconf/bind.go`, `variants.go`, `internal/variant` | the destination and its copy; a registry of instances per family, shared by all Loads | Load's last phase, AddInstance, TruncateInstances, Resolve |
| Loader: secrets | `flexconf/secret.go` | cached Managers by vault name | resolveSecret, Close |
| Vault registry | `internal/vaultreg`, `flexvault/registry.go` | none: its files are merged anew by each Load | Resolve, VaultID, ParseRef |
| Decoder, paths, cobra wiring | `flexvault/decoder.go`, `agent/paths.go`, `flexcli/app.go`, `cmd/` | none | pure conversions and wiring |

**How they interact.** A Load resolves `$(secret:…)` tokens through a cached
Manager. Its driver is the proxy of an agent (or, in-process, the KeePass
driver). The proxy finds the agent at a socket path named after the VaultID; if
nobody answers, it takes a file lock, starts one and waits for the socket. The
agent prompts nobody: the program collects the answers and forwards them with
the unlock request, and the agent replays them to its own Manager and driver. On
the way to one value the registry files are read three times: for the name, for
the definition and its identity, and by the agent that is started. Processes
share the socket path, the lock file, the error file, the registry files and the
vault file. Inside the agent, goroutines share the Manager and the replay
prompter.

**What is hard.** Processes race to start, stop and replace an agent, and leave
stale sockets when they die. Handlers run on while the listener closes and the
cleanup locks the vault. The idle timer races the request that resets it. One
prompter object replays the answers of all connections. A save writes the whole
database from memory and may fail half way. Init looks for a file and creates it
later. Registry files change between the readings that belong to one unlock,
copies of a Loader resolve at the same time, and agents leave while a Loader
keeps a connection to them. A Load that fails must take back what it put into
registries that other Loads use, and must not have touched the caller's struct.

**What makes each part correct**

- *Manager*: decrypted material is in memory only while unlocked; an
  acknowledged Set is in the file whatever crashes or fails later; a vault file
  is never destroyed or re-keyed; a session answers from the file.
- *Agent server*: clients see one vault with atomic requests; forwarded answers
  stay with their request; no request hangs; an unused agent goes away; key
  material is cleared before exit.
- *Agent clients*: agents start one at a time; a serving agent is found, unless
  another one has unlinked its socket; no command waits for ever.
- *Binding*: a Load changes struct and registries entirely or not at all;
  instances can be told apart.
- *Tree*: a layer's includes expand exactly where the rules allow it; every key
  path ends with what the last layer that provides it says there; what layers of
  fitting shape merge to fits the struct.
- *Secrets, vault registry, prompters*: a name leads to one file, the same in
  the program and in the agent that serves it; a Loader reaches for vaults in
  one call at a time and asks once for each; a kept Manager is usable or
  replaced; the answers of a prompter are those required or an error.

## 2. Modules

| Module | Models | Shape |
|---|---|---|
| `VaultSession` | what a Manager promises | abstract: files of vaults, sessions that view them |
| `VaultManager` | `manager.go` over `keepass.go` | one action per step that a prompt, another process or a crash can separate |
| `VaultManagerProofs` | | inductive invariants and theorems about `VaultManager` |
| `AgentService` | what an agent promises | abstract: one vault, atomic requests |
| `AgentServer` | `server.go`, `prompter.go`, `protocol.go` | one action per step of a handler, the accept loop, the timer, a signal, the cleanup |
| `AgentServerProofs` | | inductive invariant, theorems and refinement of `AgentServer` |
| `AgentLifecycle` | `spawn.go`, `client.go`, `proxy.go`, `secret.go` and the start and end of `server.go` | agents and programs over a socket path, a lock and an error file |
| `AgentLifecycleProofs` | | inductive invariant and theorems about `AgentLifecycle` |
| `VaultRegistry` | `vaultreg/registry.go`, with `flexvault/registry.go` and the part of `decoder.go` that refuses keys | operators on registry files |
| `Prompters` | `flexprompt` | operators: what a Dispatch returns and leaves in standard input |
| `SecretResolver` | `flexconf/secret.go`, `proxy.go`, the selection and the redial of `flexcli/secret.go` | calls of programs over registry files, kept managers and agents; extends the two above |
| `SecretResolverProofs` | | theorems about the calls of `SecretResolver`: its mutex and prompts |
| `SecretVaultsProofs` | | what a registry of any list of files says and a prompter answers to any list of requests; theorems about what the calls read: registries, answers, values; extends the one above |
| `ConfigTree` | `include.go`, `merge.go`, `template.go`, `node.go`, `schema.go`, start of `loader.go` | one action per phase of a Load, over recursive functions on trees |
| `ConfigTreeProofs` | | lemmas about trees of any height and chains of includes, inductive invariants and theorems about `ConfigTree` |
| `ConfigPathsProofs` | | what a Load binds at each key path; extends the one above |
| `ConfigBinding` | `bind.go`, `variants.go`, `variant.go`, end of `loader.go` | one action per field bound and per registry lock taken |
| `ConfigBindingProofs` | | inductive invariants and theorems about `ConfigBinding` |
| `MC…` | | small instances |

**How they compose.** `VaultManager`'s theorem about acknowledged Sets needs its
callers to open a file in one process at a time (`SingleWriter`). Agents are how
go-flexconf gets there, and `AgentLifecycle` shows how far it goes: agents start
one at a time and are found while they serve, but one whose socket a predecessor
has unlinked gets a second owner beside it (`lifecycle_second_agent`). That
vaults are never destroyed, and the refinement of `VaultSession`, need no such
rule. `AgentLifecycle` makes a served request one step; `AgentServer`'s
`ImplementsService` is what allows this. `AgentServer` keeps one address and
lets a save succeed or fail at once; `VaultManager` has the detail.
`SecretResolver` starts agents in one step and takes a request for one:
`AgentLifecycle` has the sockets and the spawn lock, `AgentServer` the requests.
In return it has what those two fix: which vault, which identity, which program.
`ConfigTree` ends in the phase "bind" with the tree that a Load of
`ConfigBinding` starts from; no state is shared before that, so the phases
before it need no interleaving.

**State and code.** In `VaultManager`, `configured`, `unlocked`, `cfg` and `db`
are the fields of Manager and driver; `phase` says where the call that holds
`m.mu` is; `file` is the disk. `acked` and `tried` are history. In
`AgentServer`, `reqMu` and `mgrMu` name the connection that holds the mutex,
`replay` is `replayPrompter.answers`, `timer` and `firing` are the idle timer
before and after its function has been started, `main` is `serveManager` after
it has bound. In `AgentLifecycle`, `sock` is the path: nothing, a dead socket,
or the agent that listens there; `pc` is where a command is, and `loads` whether
it is an application's Load. `robbed` (agents whose socket another one has
unlinked) and `hurried` (a spawner has left an agent on its way, and some still
are) are history. In `SecretResolver`, `agents` is what listens under each
identity, `mutex` is `secrets.mu`, `kept` is `secrets.managers` with the
connection of each proxy, `job` holds the local variables of a call; `value` is
what the last step returned, and `meant` is history: the file each name had in
each program's registry. A path is its anchor and the rest, so that relative
paths (`Here`) and working directories can be told apart; an identity is a name
with the definition that is fingerprinted. In `ConfigBinding`, `temp` is the
copy that is bound, `dst` what the caller sees of its struct with pointers
followed, `before` is `touchedRegs`; `passed`, and `by` in an instance, are
history. In `ConfigTree`, a node is `node` with `children` and `items` as one
function `kids` on all keys and indices, `Nil` where there is none, as a missing
child is in `mergeNode`; `schemes` is what the Loader has resolvers for; a
scalar is the list of segments `scanTokens` cuts it into, and each scalar keeps
`file`, which its relative paths start from; `chain` is the include path.

## 3. Runs

| Run | Checks | Shows |
|---|---|---|
| `vault_manager` | TypeOK, PlaintextOnlyWhileUnlocked, AckedSetsSurvive, SessionMatchesFile, VaultNeverDestroyed, ImplementsSession | two processes over one file: configurations writable, read-only, with key file and without a path; right and wrong passwords; failing saves; crashes anywhere |
| `agent_server` | TypeOK, AnswersStayWithTheirRequest, ImplementsService | two connections, every request, a vault file that may be missing, damaged or replaced, clients that hang up, accept errors, timer, signals, cleanup |
| `agent_live` | RequestsEnd, IdleAgentExits | under fairness nobody waits for ever, and polling for the status does not keep an agent alive |
| `lifecycle` | TypeOK, ServingIsReachable, OneStarts | two programs and two agents; both are killed anywhere, agents fail to start, start more slowly than their spawner waits, close late and leave stale sockets |
| `lifecycle_commands_end` | CommandsEnd | two programs that die holding the lock and agents slower than the spawner waits |
| `config_binding` | TypeOK, Distinguishable, FailuresReachOnlyShared, LoadsAreAtomic | Loads one after another over a plain, a pointer and three variant fields in two families, failing at any point, fields in any order, the pointer passed filled in or not |
| `config_tree` | TypeOK, ExpandsAsAllowed, MergedFits, LoadedByPath | three layers, present or not, of maps, lists and scalars; includes that nest, come back, escape, are missing, malformed, embedded or misnamed; three destination types; Loaders with all, some or no resolvers |
| `secret_resolver` | TypeOK, OwnVaultOnly, OneUnlockAtATime, AnswersKeepContract, LastFileWins, NeverAsksForAKeptVault | two calls of one Loader with PolicyAgent, and a program whose calls are commands and in-process Loads; three registry files (one edited, one broken or not, one missing), a default, a key file, bad references; users who mistype, a pipe with one password, no prompter; agents that leave at any time |

Four runs show the code disagreeing with what it or its documents say:

| Run | Property | What happens |
|---|---|---|
| `lifecycle_second_agent` | OneListener | cleanup unlinks by name the socket its successor has bound; the next command starts a second agent, which binds (`cli.md:438`) |
| `config_concurrent` | LoadsAreAtomic | of two Loads at a time the failing one truncates the other's instance and leaves its own (`loader.go:23`) |
| `vault_identity` | OwnVaultOnly | a relative entry in `FLEXCONF_VAULTS` leaves relative vault paths relative to the working directory: two programs derive one identity for two files, and one is served the other's (`vault-registry.md:112`, `:232`; `cli.md:289` shows such an entry) |
| `secret_lost_agent` | KeptConnectionsLive | a Load uses the kept manager of an agent that has gone and fails, until Close; a new agent does not help (`resolvers.md:205`) |

Met while modelling, and without a run of their own (the steps are in the
models, but for those of `set` and `vaults`, and where a property would be false
because of one, its comment says what it does not claim):

- A failed Load has written through a pointer that the caller had filled in,
  where `loader.go:80` says that on any error dst is left exactly as passed.
  FailuresReachOnlyShared states what is left of that promise.
- The layer's own file counts towards `maxIncludeDepth`, so 15 includes nest,
  where `templating.md:160` lets "includes nest up to" 16. An absolute include
  path is taken as it is spelled, also with `..` in it, where
  `templating.md:155` asks for `fs.ValidPath`. ExpandsAsAllowed claims nothing
  on these two points.
- A spawner that gives up after five seconds lets go of the lock with its agent
  on its way; the next one starts a second agent beside it, and of the two one
  may remove the socket the other has bound. `spawn.go:38` calls this race-safe.
  OneStarts and ServingIsReachable except what follows (`hurried`).
- After the exit of an agent has unlinked its successor's socket, two programs
  may have sessions with two unlocked agents of one vault, where
  `vault-drivers.md:588` has every Set funnel through one owner.
- After failed attempts the spawned agent stays, locked. Loads and commands that
  find it collect no credentials (`proxy.go:79` says "agent already unlocked")
  and fail, and `unlock` reports success without asking (`secret.go:115`;
  `cli.md:205` makes it a no-op only "while an agent already holds the vault").
  Cancelling the prompt after a wrong password leaves the agent, too
  (`cli.md:207`). `unlock --force` that finds the old agent still listening
  declares no prompts and sends no answers (`cli.md:206`).
- With `Options.VaultID` set, `get` dials that identity but unlocks the derived
  one, so the redial never finds it (`cli.md:454`; `Override` in the model).
- A registry edited between the readings of one unlock can leave an agent that
  serves the new definition under the old identity (`vault-registry.md:232`;
  `EditsDuringUnlock` in the model). A Loader keeps serving a vault whose
  definition has changed, until Close.
- Configure on an unlocked Manager leaves the old database open and `IsUnlocked`
  true, and the next Set writes it over the file configured now, where
  `vault-drivers.md:380` wants ErrLocked; so does Create, where `manager.go:119`
  says "It does NOT leave the vault unlocked" (`ReconfigureUnlocked`).
- An unlock in flight takes `m.mu` after the cleanup has locked the vault, and
  the process exits unlocked, where `cli.md:531` wants key material cleared.
- A lock whose client has gone when the response is written does not stop the
  agent (`server.go:195` returns before `server.go:198`). A request that re-arms
  the idle timer just after its function has started is followed by the shutdown
  (`server.go:159` ignores what Stop returns).
- A CLI prompter over a pipe reads ahead, so the second Dispatch finds nothing
  (`prompters.go:101`); `set`, which reads all of standard input first, can
  never be asked.
- `secret vaults --format yaml` returns before `--validate` is looked at
  (`secret.go:346`).

**Bounds, and why they are enough.** Two managers are enough for every race over
a file, since a step involves at most the file and one other session; two values
tell an old content from a new one; `Retries` 2 has a first, a last and a
refused attempt. Two connections are enough for one handler inside a mutex and
one waiting for it; one tick of idle time separates an armed, an expired and a
reset timer. `Val` shrinks to one in `agent_live`, whose properties do not read
it, and its requests are unlock (which holds both mutexes), status (which alone
does not reset the timer) and lock (which shuts down from a handler). Two agents
in `lifecycle` allow one to leave, or to start late, while the other starts or
serves, and two programs are a spawner and its rival. `lifecycle_commands_end`
keeps one agent slot, which is used again and again, because what a command
waits for is the lock and its own child; that a second agent starts beside a
slow one is in `lifecycle`. `config_binding` has two variant fields in one
family (duplicates, a registry touched twice) and one in another (a rollback of
two registries); its Loads are calls of one goroutine. `config_tree` has three
layers, because a later layer can undo or re-create what the middle one
replaced; its include cap is 3 instead of 16, which cycles, chains at the cap
and chains below it all reach; maps and lists nest 2 deep in a file (`Height`),
so 8 deep with includes; three more files per layer (one in a subdirectory, so
that relative paths differ) hold what is included; one layer's directory is
given with a `..` in it, as `New` accepts them. LoadedByPath looks at all key
paths of at most 3 keys; no tree that this instance binds is deeper.
`secret_resolver` has two calls in one Loader (one inside the mutex, one
waiting) and one in another program, which is enough for every pair of rivals
over an agent; one edit separates two tokens, two Loads or two calls (not the
readings of one unlock, see `EditsDuringUnlock`); two names and two definitions
of one of them give identities that agree, that differ by name and that differ
by definition; two attempts as above; `vault_identity` and `secret_lost_agent`
shrink this to what they ask for. Every run explores its whole state space;
nothing is cut by a constraint. Symmetry is used only on safety runs, over
connections, values, agents and programs that the models never tell apart.

**Deadlock** is not checked where the system may stop: an agent exits for good.
The binding run and the manager run can always go on; the life cycle's bounded
agent slots are given back.

**Assumptions that are constants.** `SingleWriter`: callers keep one open
session per file. `ReconfigureUnlocked`: callers Configure or Create on an
unlocked Manager; not in the run, as `driver.go:27` asks ("Called once, before
Credentials/Unlock"). `KeyFile`: whether the vault is opened by a password, by
that and a key file, or by the key file alone (in `lifecycle_commands_end` a
password may be left out, in `lifecycle` it may not); `ReadOnly` in
`AgentServer`: whether it is configured so. `Hasty`: whether a spawner may give
up, or be killed, with its agent on its way; it may in both passing runs and in
the theorems, and `lifecycle_second_agent` does without to show that an agent's
ordinary exit is enough for its violation. `ClientsWait`: clients do not hang
up, for `agent_live`. `Concurrent`: whether Loads overlap. `Defaults`: what
fields held by value have before a Load (one value in the runs).
`EditsDuringUnlock`: whether the registry changes between the readings that one
unlock makes; the runs take it not to, and nothing in the code ensures it.
`Override`: Options.VaultID, not set in the runs. `Env` has absolute files in
`secret_resolver` and a relative one in `vault_identity`. `SchemeSets`: what
Loaders may have resolvers for. `TreeAssumption`: there is a layer, the name of
a configuration is not `..`, files hold trees of some finite height, in which a
path with the extension of YAML ends in a name, resolvers return strings.
`TypesAssumption`: the types that a type is made of are types too.
`SelectorAssumption`: of two instances of one family that agree on every key
both have, neither has a key with an empty value that the other lacks; such
instances are of one variant (`variants.go` gives each its own discriminator),
so they have the same tagged fields, and `namingKey` never answers with an empty
name.

**Fairness.** `AgentServer`: goroutines that can run do (weak fairness); a
goroutine waiting for a `sync.Mutex` gets it if it is released again and again
(strong fairness: Go's mutex hands over to a starved waiter); time passes; a
client reads the response it waits for. Clients need not send or close, and no
signal has to come. An accept error is owed only once the listener is closed.
`AgentLifecycle`: agents and programs run, users answer or cancel their prompts,
and the kernel's file lock goes to its waiters (strong fairness of TakeFlock).
No agent has to die or to be locked. `SecretResolver`: programs run, users
answer, and the Loader's mutex starves nobody; `secret_lost_agent` states it, so
that its counterexample is one of a system that goes on.

## 4. Proofs

`VaultManagerProofs` proves, for any number of managers, files, values,
addresses and retries:

- `TypeCorrect`: types, and decrypted material is in memory exactly while the
  manager says unlocked. No assumption on the callers.
- `VaultsAreNeverDestroyed`: no step turns a readable vault into anything else
  or changes its key, without `ReconfigureUnlocked`. Managers in any number may
  run Init and have sessions on one file at once. With such callers it is false:
  the next Set saves the open database over another vault.
- `ManagerImplementsSession`: every step of `VaultManager` is a step of
  `VaultSession` or a stutter, under the same condition.
- `AckedSetsAreDurable`: AckedSetsSurvive and SessionMatchesFile, under that
  condition and with `SingleWriter`: a second session would overwrite what the
  first has saved.

**The argument.** A manager that prompts is locked (PromptsLocked), and the file
of a session is a vault under its key (SessionsKeyed): `KeyInv`, together with
the types, carries the two theorems without `SingleWriter`. AckedSetsSurvive is
not inductive either: that a failed or overtaken save does no harm depends on
what the session that is saving has in memory. `IInv` adds what the code keeps
between steps: at most one manager is open or opening per file (OneSession); a
manager that is saving is unlocked, with the pending value in its database
(SavingOK); nothing is acknowledged before it was tried and there is a file
(NothingAckedEarly); a session's database agrees with its file except where a
Set was tried (SessionsOK). Steps that touch neither files nor sessions share
one lemma, `QuietStep`; the others have a step each. The type invariant is
proved first (`TypeInit`, `TypeStep`) and used by everything else.

`SecretResolverProofs` proves, for any programs, calls, registry files, vaults
and retries:

- `LoaderMutex`: OneUnlockAtATime. The mutex of a Loader is held by exactly the
  call that reaches for a vault, and every way out of a call gives it back.
- `OnePromptPerVault`: NeverAsksForAKeptVault.

**The argument.** `Inv` adds to OneUnlockAtATime what kind of call can be where
(Places: only Loads get to a token or a kept manager, only commands to a redial)
and that the vault a call reaches for is not kept yet (NotKeptYet). The latter
holds because a call looks under the mutex, and the only step that keeps a
manager is taken by the call that has it (`KeepKeepsInv`). Calls move by a few
kinds of steps, which have a lemma each (`GoesOn`, `LetsGo`, `MovesOn`,
`ComesNearer`); the lemma of an action says of which kind it is.

`AgentServerProofs` proves, for any number of connections, any values and idle
time, and clients that hang up at any point:

- `TypeCorrect`, and `RequestsAreSerialized`, which is what `server.go:126` says
  of `reqMu`: at most one connection is inside a request.
- `AnswersAreNotMixed`: AnswersStayWithTheirRequest.
- `AgentImplementsService`: every step of the handlers, the accept loop, the
  timer, the signal goroutine and the cleanup is a step of `AgentService` or a
  stutter. A request takes effect when its outcome is decided under the
  Manager's mutex, which may be after the cleanup has locked the vault.

**The argument.** The refinement is not a matter of one step: that a handler may
open the vault or save where the service does depends on what the handler found
earlier. `Inv` says who holds the two mutexes (Mutexes), what a connection's
request and response are while its handler is at each place (Requests), what a
handler between two steps still knows of the vault and of the answers that are
replayed (Sessions), and that no handler outlives the process.

`AgentLifecycleProofs` proves, for any programs, agents, retries and vaults, and
whoever dies, gives up or starts slowly:

- `TypeCorrect`.
- `AgentsStartAlone`: OneStarts.
- `LiveAgentsAreFound`: ServingIsReachable.

**The argument.** `Orderly` is the spawn protocol. Who starts an agent holds the
lock (SpawnersHoldTheLock), and only an agent that serves owns the path
(OwnerServes). While no spawner has left an agent on its way, `Calm` holds: if
an agent is on its way, it is the only one, nobody answers at the path, and its
spawner waits for it. So the socket it removes as stale belongs to nobody, and
the exits and the hurried starts, which `robbed` records, are the only ways to
lose a socket. A spawner that leaves an agent on its way makes the state
`hurried`; when the last start under way has ended, `Calm` holds again
(`Settled`), and in between nothing is claimed of starts. `StillCalm` is the
lemma for the steps that leave agents on their way as they are.

`ConfigBindingProofs` proves, for any fields, families, values and Loads:

- `TypeCorrect`, and `InstancesAreDistinguishable`: Distinguishable, also while
  Loads overlap and roll back. It needs `SelectorAssumption` only.
- `FailuresLeaveTheStruct`: FailuresReachOnlyShared, overlapping Loads included:
  a Load that fails has changed nothing but what a pointer leads to that was
  passed filled in.
- `LoadsRegisterAllOrNothing`: LoadsAreAtomic without `Concurrent`
  (`config_concurrent` is what happens with it).

**The argument.** For the struct, the copy that is bound points to the same
places as the caller's (PointersAsPassed), and until the swap only what is
behind them has been written (OnlySharedWritten). For atomicity, `Attempts` says
of the one Load under way that its instances come last in each registry it has
touched, from the count that it noted there on, in the order it added them
(Attempt); so that truncating to the counts takes back its own and no other. A
count noted by a Load is at most the registry's length only when Loads do not
overlap, which is why `TypeOK` states that bound for lone Loads. `Apart` carries
Distinguishable through appends and truncations.

`SecretVaultsProofs` proves, for any programs, calls, registry files, prompters
and users:

- `TypeCorrect`; `RegistryIsWhatTheLastFilesSay`: LastFileWins;
  `DriversGetAnswers`: AnswersKeepContract. No assumptions.
- `ValuesComeFromTheRightVault`: OwnVaultOnly, assuming `Undisturbed` and
  `Absolute`: no list of registry files has a relative one. `Undisturbed` is
  that no program has its own `Options.VaultID` and that the registry is not
  edited between its readings for one unlock. None of these can be dropped: with
  a relative list two programs have one identity for two files
  (`vault_identity`); with an edit between the readings of one unlock, the agent
  serves the new file under the old identity and a program with a longer list is
  given it; with `Options.VaultID` a program asks for another vault's agent.

**The argument.** What is meant once stays known (MeantInv); with absolute
lists, what an identity names does not depend on the directory of who looks
(`AbsolutePaths`), so an agent serves the file that its identity names
(AgentFilesInv), and a manager is kept for a file its name meant (KeptMeant). A
call carries its vault, identity and connection from step to step (`Own`).
Registries and Dispatch are recursive functions over lists of any length. The
library's induction rules take an operator and cannot be used here, so the
module argues by the least counterexample: the naturals are well-founded, hence
a list of files for which the claim fails has a first position where it fails
(`LeastNumber`), and one step of the recursion refutes it. `LoadingExists` and
`AskingExists` show that the recursive functions are those that their equations
say, `RegistrySays` and `CLIKeepsContract` are the results.

`ConfigTreeProofs` proves, for any layers, files, includes, types and resolvers:

- `TypeCorrect`: every layer read is a map, whatever its includes splice in, and
  so is what layers merge and resolve to. That the second look at the kind of a
  layer's root (`loader.go:157`) never fails is part of it.
- `WhatIsBoundFits`: MergedFits, which is what the comment in `mergeNode`
  promises (`merge.go:21`).

**The argument.** On the level of states there is little to it: `Inv` says that
layers are maps, and that what has passed the validation fits the type, each
layer first, then their merge, then what it resolves to. The work is below, in
what the recursive functions on trees return, for trees of any height. A claim
about all trees is one about the least height at which it would fail
(`Induction`), and its children are one lower. `WalkExists`, `MergeExists`,
`FitsExists`, `CleanExists` and `ExpandExists` show that each recursive function
is the one its equation says; for includes the induction is over how much longer
a chain of files may become, which is where the cap is needed. `WalkReturns` and
`WalkFits` then serve the three walks (reading, expanding, resolving),
`MergeReturns` and `MergeFits` the merge, and `ExpandReturns` bounds the height
of what includes nest to.

- `ExpandsExactlyIfAllowed`: a layer expands exactly if every file that its
  includes can reach may be read, is in the layer's directory and well formed,
  and none is `MaxIncludeDepth` includes away (ExpandsExactly). The code decides
  it while it expands, from the chain of paths as they are spelled; the theorem
  says it of the files that can be reached, which have clean paths, and of how
  far they are.
- `ExpandsByTheRules`: ExpandsAsAllowed, what follows from it for the rules of
  `templating.md`, which let includes nest once more.

**The argument.** Neither what is read nor what it includes depends on how a
path is spelled (`SpellingDoesNotMatter`; `CleanBySteps` and the lemmas after it
say what cleaning does to any path). If no file is `MaxIncludeDepth` includes
away, then no chain of includes comes to a file twice: what is on a cycle can be
reached by walks of every length (`Cycling`, `NothingComesTwice`). So the code's
own tests, for a path in the chain and for a long chain, never fail on a layer
that may expand. The other way round, an expansion that succeeds has followed a
chain to every file that can be reached, of every length, and found it in order.
Both are inductions over how much longer a chain may become. `LayersWereAllowed`
carries the result through the reading of the layers.

`ConfigPathsProofs` proves, under the same assumptions,

- `LoadsByPath`: LoadedByPath, for any number of layers, includes of any depth
  and key paths of any length.

**The argument.** It has three parts. A walk over a tree is a walk over what the
tree has at each path (`WalkAlongPaths`). Merging two trees keeps, at a path,
the override's node, or the base's if nothing above it was replaced
(`MergeAlongPaths`); layer by layer, the result has what the last layer left
there (`LastWins`, with `Wins` for any sequence of trees). And a layer provides
at a path what following its files finds there: a reader that stands on a node
of a file reads what that node expands to (`Reads`), stays so when it follows an
include, which makes the chain one file longer (`FollowReads`), or goes down by
a key (`BelowReads`), and comes to rest on what is not an include because chains
are no longer than the cap (`FollowedReads`, `FindReads`). `LoadedSoFar` says of
every state that what has been read merges to what the layers looked at provide,
and so what is bound is their merge, resolved.

All inductive invariants were checked by TLC as invariants of the corresponding
run before they were proved.

Only model-checked: liveness (RequestsEnd, IdleAgentExits, CommandsEnd), which
is out of the proof system's reach.

## 5. Not modelled

The conversion of driver settings to field types (`decoder.go`), file names and
permissions, cobra wiring, exit codes and output are conversions and wiring
without state. Cancelled contexts end a Dispatch as a cancelled prompt does. The
provenance of registry entries is output only; fingerprints are taken to be
unique. List reads like Get; Capabilities and `vaults` only report. The user's
home directory is taken to be known (`registry.go:199` leaves a `~` as it is
otherwise), and what is in a pipe to fit the 4096 bytes that a reader takes at
once (`prompters.go:101`). An agent that exits because Accept fails is in
`AgentServer`, not in `AgentLifecycle`. The peer's UID always matches. Frames
are whole messages. Cryptography is equality of keys. In `ConfigBinding` structs
are flat and variants are not nested; families and their factories are
registered at start-up. In `ConfigTree` the resolvers that the options scope,
replace or register are one set of schemes with one function of scheme and path;
strings, tags and the redaction flag of a scalar belong to the binding;
`WithFS`, which serves includes and file tokens but not the layers' own files
(`loader.go:135`), is the same file system as theirs.

## 6. Plan

1. `VaultManager`, its session and its proofs: done.
2. `AgentServer` and `AgentService`: done.
3. `AgentLifecycle`: done.
4. `ConfigBinding`: done for flat structs.
5. `ConfigTree`: done; its scalars could carry the type that the binding infers.
6. `VaultRegistry`, `Prompters` and `SecretResolver`, which composes them with
   kept managers and agents: done; the commands `lock` and `unlock --force`
   could be added to it from `AgentLifecycle`.
7. Proofs: every safety property that a passing run checks is a theorem. Without
   conditions on callers: all of `AgentServer`, `AgentLifecycle`, `ConfigTree`
   and `SecretResolver` but OwnVaultOnly, and of `ConfigBinding` but
   LoadsAreAtomic. With conditions, named above: OwnVaultOnly (`Undisturbed`,
   `Absolute`), LoadsAreAtomic (not `Concurrent`), VaultNeverDestroyed and
   ImplementsSession (not `ReconfigureUnlocked`), AckedSetsSurvive and
   SessionMatchesFile (also `SingleWriter`). Liveness stays with TLC.
