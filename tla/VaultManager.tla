---------------------------- MODULE VaultManager ----------------------------
(***************************************************************************)
(* flexvault.Manager driving the KeePass driver.                           *)
(*                                                                         *)
(* Every exported method of a Manager runs with m.mu held, so at most one  *)
(* call per manager is in flight; phase[m] says where it is.  Steps of one *)
(* call that another process, a prompt or a crash can separate are steps   *)
(* of their own: the prompt, opening the file, stat, exclusive creation,   *)
(* encoding, and the rename that ends a save.  Managers live in different  *)
(* processes and share nothing but the files.                              *)
(***************************************************************************)
EXTENDS Integers, Sequences, FiniteSets

CONSTANTS
  Manager,      \* managers, each in a process of its own
  Path,         \* vault files
  Config,       \* configurations a caller may pass to Configure and Create
  Segment,      \* the parts of an address between slashes; "" is the empty one
  Request,      \* addresses a caller may pass: sequences of segments
  Val,          \* secret values
  Pw,           \* master passwords a prompt may return
  NoPw,         \* the empty (or omitted optional) answer
  Retries,      \* WithUnlockRetries
  NoPath, NoVal, NoCred, NoFile, Torn, NoDb,
  ReconfigureUnlocked,  \* may callers run Configure or Create on an unlocked manager?
  SingleWriter          \* do callers keep to one open session per file?

(* "namespace/key": exactly two non-empty segments. *)
IsAddress(r) == Len(r) = 2 /\ r[1] # "" /\ r[2] # ""

Addr    == {r \in Request : IsAddress(r)}
Content == [Addr -> Val \cup {NoVal}]

(* The composite key of an answer and a configured key file. *)
Cred  == {c \in (Pw \cup {NoPw}) \X BOOLEAN : c # <<NoPw, FALSE>>}
Image == [key : Cred, content : Content]

Credentials(c, answer) ==
  IF answer = NoPw /\ ~c.keyfile THEN NoCred ELSE <<answer, c.keyfile>>

ASSUME ConfigAssumption ==
  /\ Config \subseteq [path : Path \cup {NoPath}, keyfile : BOOLEAN, readonly : BOOLEAN]
  /\ NoPath \notin Path
ASSUME RequestAssumption == Request \subseteq Seq(Segment)
ASSUME SentinelAssumption ==
  /\ NoVal \notin Val
  /\ NoPw \notin Pw
  /\ NoCred \notin Cred
  /\ {NoFile, Torn, NoDb} \cap Image = {}
  /\ NoDb \notin [path : Path, key : Cred, content : Content]
  /\ NoFile # Torn
ASSUME RetriesAssumption == Retries \in Int
ASSUME CallerAssumption == {ReconfigureUnlocked, SingleWriter} \subseteq BOOLEAN

VARIABLES
  file,        \* [Path -> {NoFile, Torn} or an image]: the disk
  configured,  \* Manager.configured (and driver.configured)
  unlocked,    \* Manager.unlocked
  cfg,         \* driver.cfg
  db,          \* driver.db: the decrypted image, NoDb when nil
  phase,       \* where the call holding m.mu is; "idle" when m.mu is free
  attempt,     \* the loop variable of unlockLocked
  answer,      \* the answers of the last Dispatch
  pending,     \* the address and value of the Set in flight
  acked,       \* history: the last value of each address whose Set returned nil
  tried        \* history: values of Sets since then that did not return nil

callVars == <<phase, attempt, answer, pending>>
history  == <<acked, tried>>
vars == <<file, configured, unlocked, cfg, db, callVars, history>>

NoCfg   == [path |-> NoPath, keyfile |-> FALSE, readonly |-> FALSE]
Nothing == [req |-> <<>>, val |-> NoVal]

Attempts == IF Retries < 1 THEN 1 ELSE Retries

Init ==
  /\ file \in [Path -> {NoFile} \cup {[key |-> k, content |-> [a \in Addr |-> NoVal]] : k \in Cred}]
  /\ configured = [m \in Manager |-> FALSE]
  /\ unlocked   = [m \in Manager |-> FALSE]
  /\ cfg        = [m \in Manager |-> NoCfg]
  /\ db         = [m \in Manager |-> NoDb]
  /\ phase      = [m \in Manager |-> "idle"]
  /\ attempt    = [m \in Manager |-> 0]
  /\ answer     = [m \in Manager |-> NoPw]
  /\ pending    = [m \in Manager |-> Nothing]
  /\ acked      = [p \in Path |-> [a \in Addr |-> NoVal]]
  /\ tried      = [p \in Path |-> [a \in Addr |-> {}]]

-----------------------------------------------------------------------------
(* The call returns: m.mu is free, answers are cleared.  Calls that return *)
(* an error before they change anything are not steps.                     *)
Return(m) ==
  /\ phase'   = [phase EXCEPT ![m] = "idle"]
  /\ attempt' = [attempt EXCEPT ![m] = 0]
  /\ answer'  = [answer EXCEPT ![m] = NoPw]
  /\ pending' = [pending EXCEPT ![m] = Nothing]

(* The call goes on to another step, still holding m.mu. *)
Continue(m, next) ==
  /\ phase' = [phase EXCEPT ![m] = next]
  /\ UNCHANGED pending

(* Manager.guard: the error of an access method called out of order. *)
Guard(m) ==
  CASE ~configured[m] -> "notconfigured"
    [] ~unlocked[m] /\ configured[m] -> "locked"
    [] OTHER -> "ok"

MayConfigure(m) == ReconfigureUnlocked \/ ~unlocked[m]

(* The driver takes over a decoded configuration; without a path it does   *)
(* not, and keeps the one it has.                                          *)
DriverConfigure(m, c) ==
  /\ c.path # NoPath
  /\ cfg' = [cfg EXCEPT ![m] = c]
  /\ configured' = [configured EXCEPT ![m] = TRUE]

Configure(m, c) ==
  /\ phase[m] = "idle" /\ MayConfigure(m)
  /\ DriverConfigure(m, c)
  /\ UNCHANGED <<file, unlocked, db, callVars, history>>

-----------------------------------------------------------------------------
(* The callers' discipline of the single-writer model. *)
NoOtherSession(m) ==
  \A n \in Manager \ {m} :
    cfg[n].path = cfg[m].path => db[n] = NoDb /\ phase[n] \notin {"asking", "opening"}

(* Unlock: Credentials, then Dispatch and driver.Unlock in a bounded loop. *)
(* An unlocked manager returns at once, without a prompt.                  *)
Unlock(m) ==
  /\ phase[m] = "idle"
  /\ configured[m] /\ ~unlocked[m]
  /\ SingleWriter => NoOtherSession(m)
  /\ attempt' = [attempt EXCEPT ![m] = 0]
  /\ Continue(m, "asking")
  /\ UNCHANGED <<file, configured, unlocked, cfg, db, answer, history>>

(* The prompter answers; "" and an omitted optional answer are both NoPw. *)
Dispatch(m, pw) ==
  /\ phase[m] \in {"asking", "newpw"}
  /\ answer' = [answer EXCEPT ![m] = pw]
  /\ Continue(m, IF phase[m] = "asking" THEN "opening" ELSE "stat")
  /\ UNCHANGED <<file, configured, unlocked, cfg, db, attempt, history>>

(* The prompter fails (cancelled, unavailable): terminal, never retried. *)
DispatchFails(m) ==
  /\ phase[m] \in {"asking", "newpw"}
  /\ Return(m)
  /\ UNCHANGED <<file, configured, unlocked, cfg, db, history>>

(* What driver.Unlock makes of the file and the answers. *)
OpenOutcome(m) ==
  LET f == file[cfg[m].path]
      k == Credentials(cfg[m], answer[m])
  IN  IF f = NoFile THEN "io"
      ELSE IF k = NoCred THEN "auth"
      ELSE IF f = Torn THEN "io"
      ELSE IF f.key # k THEN "auth" ELSE "ok"

(* ErrAuth is the only error that asks again, while attempts are left. *)
RetryOnceMore(m) ==
  /\ attempt[m] < Attempts
  /\ attempt' = [attempt EXCEPT ![m] = @ + 1]
  /\ answer' = [answer EXCEPT ![m] = NoPw]
  /\ Continue(m, "asking")

Retry(m) ==
  /\ attempt[m] + 1 < Attempts
  /\ attempt' = [attempt EXCEPT ![m] = @ + 1]
  /\ answer' = [answer EXCEPT ![m] = NoPw]
  /\ Continue(m, "asking")

DriverUnlock(m) ==
  /\ phase[m] = "opening"
  /\ \/ /\ OpenOutcome(m) = "ok"
        /\ db' = [db EXCEPT ![m] = file[cfg[m].path]]
        /\ unlocked' = [unlocked EXCEPT ![m] = TRUE]
        /\ Return(m)
     \/ /\ OpenOutcome(m) = "auth"
        /\ Retry(m)
        /\ UNCHANGED <<db, unlocked>>
     \/ /\ OpenOutcome(m) = "io" \/ (OpenOutcome(m) = "auth" /\ attempt[m] + 1 >= Attempts)
        /\ Return(m)
        /\ UNCHANGED <<db, unlocked>>
  /\ UNCHANGED <<file, configured, cfg, history>>

-----------------------------------------------------------------------------
(* Create: Configure, ask for a new password, and Init an empty file. *)
Create(m, c) ==
  /\ phase[m] = "idle" /\ MayConfigure(m)
  /\ DriverConfigure(m, c)
  /\ Continue(m, "newpw")
  /\ UNCHANGED <<file, unlocked, db, attempt, answer, history>>

(* Stat, then the credentials: an existing file or none at all ends it. *)
InitStat(m) ==
  /\ phase[m] = "stat"
  /\ IF file[cfg[m].path] = NoFile /\ Credentials(cfg[m], answer[m]) # NoCred
       THEN Continue(m, "creating") /\ UNCHANGED <<attempt, answer>>
       ELSE Return(m)
  /\ UNCHANGED <<file, configured, unlocked, cfg, db, history>>

InitCreateTruncates(m) ==
  /\ phase[m] = "creating"
  /\ file' = [file EXCEPT ![cfg[m].path] = Torn]
  /\ Continue(m, "encoding")
  /\ UNCHANGED <<configured, unlocked, cfg, db, attempt, answer, history>>

(* OpenFile with O_CREATE|O_EXCL: the file exists, empty, from here on. *)
InitCreate(m) ==
  /\ phase[m] = "creating"
  /\ \/ /\ file[cfg[m].path] = NoFile
        /\ file' = [file EXCEPT ![cfg[m].path] = Torn]
        /\ Continue(m, "encoding")
        /\ UNCHANGED <<attempt, answer>>
     \/ /\ file[cfg[m].path] # NoFile
        /\ Return(m)
        /\ UNCHANGED file
  /\ UNCHANGED <<configured, unlocked, cfg, db, history>>

(* The empty database is encoded into the new file, or that fails half     *)
(* way.  A file renamed over the new one meanwhile is not written to.      *)
InitEncode(m) ==
  /\ phase[m] = "encoding"
  /\ \/ /\ file' = [file EXCEPT ![cfg[m].path] =
                      IF @ # Torn THEN @
                      ELSE [key |-> Credentials(cfg[m], answer[m]),
                            content |-> [a \in Addr |-> NoVal]]]
        /\ Return(m)
     \/ Return(m) /\ UNCHANGED file
  /\ UNCHANGED <<configured, unlocked, cfg, db, history>>

-----------------------------------------------------------------------------
(* Access.  Get and List read the decrypted database; Set changes it first *)
(* and then saves all of it to a temporary file renamed over the vault.    *)
GetResult(m, r) ==
  IF Guard(m) # "ok" THEN [err |-> Guard(m), val |-> NoVal]
  ELSE IF ~IsAddress(r) THEN [err |-> "badaddr", val |-> NoVal]
  ELSE LET v == db[m].content[r]
       IN  [err |-> IF v = NoVal THEN "notfound" ELSE "ok", val |-> v]

Set(m, r, v) ==
  /\ phase[m] = "idle"
  /\ Guard(m) = "ok" /\ IsAddress(r) /\ ~cfg[m].readonly
  /\ db' = [db EXCEPT ![m].content[r] = v]
  /\ phase' = [phase EXCEPT ![m] = "saving"]
  /\ pending' = [pending EXCEPT ![m] = [req |-> r, val |-> v]]
  /\ tried' = [tried EXCEPT ![cfg[m].path][r] = @ \cup {v}]
  /\ UNCHANGED <<file, configured, unlocked, cfg, attempt, answer, acked>>

SaveFailsSilently(m) ==
  /\ phase[m] = "saving"
  /\ Continue(m, "saved")
  /\ UNCHANGED <<file, configured, unlocked, cfg, db, attempt, answer, history>>

SaveFailsHalfWay(m) ==
  /\ phase[m] = "saving"
  /\ file' = [file EXCEPT ![cfg[m].path] = Torn]
  /\ Return(m)
  /\ UNCHANGED <<configured, unlocked, cfg, db, history>>

(* CreateTemp, Encode, Close or Rename fails: the vault file is untouched, *)
(* the in-memory change stays.                                             *)
SaveFails(m) ==
  /\ phase[m] = "saving"
  /\ Return(m)
  /\ UNCHANGED <<file, configured, unlocked, cfg, db, history>>

SaveRename(m) ==
  /\ phase[m] = "saving"
  /\ file' = [file EXCEPT ![cfg[m].path] = db[m]]
  /\ Continue(m, "saved")
  /\ UNCHANGED <<configured, unlocked, cfg, db, attempt, answer, history>>

SetReturns(m) ==
  /\ phase[m] = "saved"
  /\ LET a == pending[m].req
     IN  /\ acked' = [acked EXCEPT ![cfg[m].path][a] = pending[m].val]
         /\ tried' = [tried EXCEPT ![cfg[m].path][a] = {}]
  /\ Return(m)
  /\ UNCHANGED <<file, configured, unlocked, cfg, db>>

LockKeepsDatabase(m) ==
  /\ phase[m] = "idle"
  /\ unlocked' = [unlocked EXCEPT ![m] = FALSE]
  /\ Return(m)
  /\ UNCHANGED <<file, configured, cfg, db, history>>

Lock(m) ==
  /\ phase[m] = "idle"
  /\ unlocked' = [unlocked EXCEPT ![m] = FALSE]
  /\ db' = [db EXCEPT ![m] = NoDb]
  /\ Return(m)
  /\ UNCHANGED <<file, configured, cfg, history>>

(* The process is killed, at any point of any call, and started again. *)
Crash(m) ==
  /\ configured[m]
  /\ configured' = [configured EXCEPT ![m] = FALSE]
  /\ unlocked' = [unlocked EXCEPT ![m] = FALSE]
  /\ cfg' = [cfg EXCEPT ![m] = NoCfg]
  /\ db' = [db EXCEPT ![m] = NoDb]
  /\ Return(m)
  /\ UNCHANGED <<file, history>>

-----------------------------------------------------------------------------
(* Steps of a call in flight; they need no new request from a caller. *)
Progress(m) ==
  \/ \E pw \in Pw \cup {NoPw} : Dispatch(m, pw)
  \/ DispatchFails(m) \/ DriverUnlock(m)
  \/ InitStat(m) \/ InitCreate(m) \/ InitEncode(m)
  \/ SaveFails(m) \/ SaveRename(m) \/ SetReturns(m)

Call(m) ==
  \/ \E c \in Config : Configure(m, c) \/ Create(m, c)
  \/ Unlock(m) \/ Lock(m)
  \/ \E r \in Request, v \in Val : Set(m, r, v)

Next == \E m \in Manager : Call(m) \/ Progress(m) \/ Crash(m)

Spec == Init /\ [][Next]_vars
-----------------------------------------------------------------------------
Phase == {"idle", "asking", "opening", "newpw", "stat", "creating", "encoding",
          "saving", "saved"}

(* Every variable has its type. *)
TypeOK ==
  /\ file \in [Path -> {NoFile, Torn} \cup Image]
  /\ configured \in [Manager -> BOOLEAN]
  /\ unlocked \in [Manager -> BOOLEAN]
  /\ cfg \in [Manager -> Config \cup {NoCfg}]
  /\ db \in [Manager -> {NoDb} \cup Image]
  /\ phase \in [Manager -> Phase]
  /\ attempt \in [Manager -> 0 .. Attempts - 1]
  /\ answer \in [Manager -> Pw \cup {NoPw}]
  /\ pending \in [Manager -> [req : Addr, val : Val] \cup {Nothing}]
  /\ acked \in [Path -> [Addr -> Val \cup {NoVal}]]
  /\ tried \in [Path -> [Addr -> SUBSET Val]]

IsVault(f) == f \notin {NoFile, Torn}

(* Decrypted material is in memory exactly while the manager reports the   *)
(* vault unlocked, in the middle of every call too (vault-drivers.md,      *)
(* "Lock drops the decrypted database").                                   *)
PlaintextOnlyWhileUnlocked == \A m \in Manager : unlocked[m] <=> db[m] # NoDb

(* What a Set that returned nil wrote is what the file holds, through      *)
(* crashes, failed saves and sessions of other managers, until another Set *)
(* of that address is at least attempted: the rename in keepass.save.      *)
AckedSetsSurvive ==
  \A p \in Path : IsVault(file[p]) =>
    \A a \in Addr : file[p].content[a] \in {acked[p][a]} \cup tried[p][a]

(* Get serves from memory; what it answers is what the file holds, except  *)
(* where a Set did not return nil, and the file is still the one, under    *)
(* the same key, that the session was opened on.                           *)
SessionMatchesFile ==
  \A m \in Manager : unlocked[m] =>
    LET f == file[cfg[m].path]
    IN  /\ IsVault(f)
        /\ f.key = db[m].key
        /\ \A a \in Addr : \/ GetResult(m, a).val = f.content[a]
                           \/ GetResult(m, a).val \in tried[cfg[m].path][a]

(* A readable vault file stays a readable vault file under the same key:   *)
(* Init never overwrites one, whoever else runs Init at the same time, and *)
(* no failure or crash of a save leaves half of one.                       *)
VaultNeverDestroyed ==
  [][\A p \in Path : IsVault(file[p]) => IsVault(file'[p]) /\ file'[p].key = file[p].key]_file

(* The promise of VaultSession, with the database and configuration of an  *)
(* unlocked manager as its session view.                                   *)
NoView == NoDb
SessionView ==
  [m \in Manager |->
     IF db[m] = NoDb THEN NoView
     ELSE [path |-> cfg[m].path, key |-> db[m].key, content |-> db[m].content]]

Session == INSTANCE VaultSession WITH store <- file, view <- SessionView

ImplementsSession == Session!SessionSpec
=============================================================================
