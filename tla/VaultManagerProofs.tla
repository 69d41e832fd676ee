------------------------- MODULE VaultManagerProofs -------------------------
(***************************************************************************)
(* Theorems about VaultManager, for every value of its constants.          *)
(*                                                                         *)
(* First part: types, and that plaintext is in memory exactly while a      *)
(* manager is unlocked, whatever its callers do.  Second part: for callers *)
(* that do not configure an unlocked manager, and with any number of       *)
(* sessions on one file, no vault is destroyed, and each manager is a      *)
(* session.  Third part: with one session per file as well, acknowledged   *)
(* Sets survive and sessions agree with their file.                        *)
(***************************************************************************)
EXTENDS VaultManager, TLAPS

USE DEF callVars, history

(* The sentinels are told apart from data, and a loop has an attempt. *)
LEMMA Constants ==
  /\ NoDb \notin Image /\ NoFile \notin Image /\ Torn \notin Image
  /\ NoFile # Torn
  /\ Attempts \in Int /\ Attempts >= 1
  /\ \A c \in Config : c.path # NoPath => c.path \in Path
  /\ NoCfg.path = NoPath /\ NoPath \notin Path
BY ConfigAssumption, SentinelAssumption, RetriesAssumption DEF Attempts, NoCfg

(* What driver.credentials returns: a composite key, or none at all. *)
LEMMA CredentialsType ==
  ASSUME NEW c \in Config \cup {NoCfg}, NEW pw \in Pw \cup {NoPw}
  PROVE  Credentials(c, pw) \in Cred \cup {NoCred}
<1>1. c.keyfile \in BOOLEAN
  <2>1. CASE c \in Config
    <3>1. c \in [path : Path \cup {NoPath}, keyfile : BOOLEAN, readonly : BOOLEAN]
      BY <2>1, ConfigAssumption
    <3> QED BY <3>1
  <2>2. CASE c = NoCfg
    BY <2>2 DEF NoCfg
  <2> QED BY <2>1, <2>2
<1> QED BY <1>1, SentinelAssumption DEF Credentials, Cred

-----------------------------------------------------------------------------
(* What the phase of a call, and the flags, say about the configuration. *)
PhaseOK ==
  \A m \in Manager :
    /\ configured[m] <=> cfg[m].path \in Path
    /\ unlocked[m] => configured[m]
    /\ phase[m] # "idle" => configured[m]
    /\ phase[m] \in {"saving", "saved"} => unlocked[m] /\ pending[m] \in [req : Addr, val : Val]
    /\ phase[m] = "encoding" => Credentials(cfg[m], answer[m]) \in Cred
    /\ phase[m] = "creating" => Credentials(cfg[m], answer[m]) \in Cred

TypeInv == TypeOK /\ PhaseOK /\ PlaintextOnlyWhileUnlocked

(* A manager just built: no configuration, no session, no call. *)
LEMMA TypeInit == Init => TypeInv
<1> SUFFICES ASSUME Init PROVE TypeInv
  OBVIOUS
<1> USE Constants DEF Init
<1>1. TypeOK
  BY DEF TypeOK, Image, Content, Nothing, Phase
<1>2. PhaseOK
  BY DEF PhaseOK
<1>3. PlaintextOnlyWhileUnlocked
  BY DEF PlaintextOnlyWhileUnlocked
<1> QED BY <1>1, <1>2, <1>3 DEF TypeInv

(* No step of Configure, Unlock, Create, Set, Lock or a crash leaves the   *)
(* types, or separates the unlocked flag from the decrypted database.      *)
LEMMA TypeStep == TypeInv /\ [Next]_vars => TypeInv'
<1> SUFFICES ASSUME TypeInv, [Next]_vars PROVE TypeInv'
  OBVIOUS
<1> USE Constants DEF TypeInv, TypeOK, PhaseOK, PlaintextOnlyWhileUnlocked, Phase
<1>1. ASSUME NEW m \in Manager, NEW c \in Config, Configure(m, c) PROVE TypeInv'
  BY <1>1 DEF Configure, DriverConfigure, MayConfigure
<1>2. ASSUME NEW m \in Manager, NEW c \in Config, Create(m, c) PROVE TypeInv'
  BY <1>2 DEF Create, DriverConfigure, MayConfigure, Continue
<1>3. ASSUME NEW m \in Manager, Unlock(m) PROVE TypeInv'
  BY <1>3 DEF Unlock, Continue
<1>4. ASSUME NEW m \in Manager, Lock(m) PROVE TypeInv'
  BY <1>4 DEF Lock, Return
<1>5. ASSUME NEW m \in Manager, NEW r \in Request, NEW v \in Val, Set(m, r, v) PROVE TypeInv'
  <2>1. /\ r \in Addr /\ unlocked[m] /\ configured[m] /\ db[m] \in Image
        /\ cfg[m].path \in Path
    BY <1>5 DEF Set, Guard, Addr
  <2>2. [db[m] EXCEPT !.content[r] = v] \in Image
    BY <2>1 DEF Image, Content
  <2>3. db' = [db EXCEPT ![m] = [db[m] EXCEPT !.content[r] = v]]
    BY <1>5 DEF Set
  <2>4. tried' \in [Path -> [Addr -> SUBSET Val]]
    BY <1>5, <2>1 DEF Set
  <2>5. TypeOK'
    BY <1>5, <2>1, <2>2, <2>3, <2>4 DEF Set
  <2>6. PhaseOK'
    <3>1. \A n \in Manager : Credentials(cfg[n], answer[n])' = Credentials(cfg[n], answer[n])
      BY <1>5 DEF Set, Credentials
    <3> QED BY <1>5, <2>1, <3>1 DEF Set
  <2>7. PlaintextOnlyWhileUnlocked'
    <3>1. db' \in [Manager -> {NoDb} \cup Image] /\ db'[m] # NoDb
      BY <2>1, <2>2, <2>3
    <3>2. \A n \in Manager \ {m} : db'[n] = db[n]
      BY <2>3
    <3>3. unlocked' = unlocked
      BY <1>5 DEF Set
    <3> QED BY <2>1, <3>1, <3>2, <3>3
  <2> QED BY <2>5, <2>6, <2>7
<1>6. ASSUME NEW m \in Manager, NEW pw \in Pw \cup {NoPw}, Dispatch(m, pw) PROVE TypeInv'
  BY <1>6 DEF Dispatch, Continue
<1>7. ASSUME NEW m \in Manager, DispatchFails(m) PROVE TypeInv'
  BY <1>7 DEF DispatchFails, Return
<1>8. ASSUME NEW m \in Manager, DriverUnlock(m) PROVE TypeInv'
  <2>1. CASE OpenOutcome(m) = "ok"
    <3>1. file[cfg[m].path] \in Image
      BY <1>8, <2>1 DEF DriverUnlock, Retry, OpenOutcome
    <3>2. /\ db' = [db EXCEPT ![m] = file[cfg[m].path]]
          /\ unlocked' = [unlocked EXCEPT ![m] = TRUE]
          /\ Return(m) /\ phase[m] = "opening"
          /\ UNCHANGED <<file, configured, cfg, history>>
      BY <1>8, <2>1 DEF DriverUnlock, Retry
    <3> QED BY <3>1, <3>2 DEF Return
  <2>2. CASE OpenOutcome(m) # "ok"
    <3>1. /\ UNCHANGED <<file, configured, cfg, history, db, unlocked>>
          /\ phase[m] = "opening"
          /\ \/ Return(m)
             \/ /\ attempt[m] + 1 < Attempts
                /\ attempt' = [attempt EXCEPT ![m] = @ + 1]
                /\ answer' = [answer EXCEPT ![m] = NoPw]
                /\ Continue(m, "asking")
      BY <1>8, <2>2 DEF DriverUnlock, Retry
    <3>2. CASE Return(m)
      BY <3>1, <3>2 DEF Return
    <3>3. CASE /\ attempt[m] + 1 < Attempts
               /\ attempt' = [attempt EXCEPT ![m] = @ + 1]
               /\ answer' = [answer EXCEPT ![m] = NoPw]
               /\ Continue(m, "asking")
      <4>1. attempt' \in [Manager -> 0 .. Attempts - 1]
        BY <3>3
      <4> QED BY <3>1, <3>3, <4>1 DEF Continue
    <3> QED BY <3>1, <3>2, <3>3
  <2> QED BY <2>1, <2>2
<1>9. ASSUME NEW m \in Manager, InitStat(m) PROVE TypeInv'
  <2>1. Credentials(cfg[m], answer[m]) \in Cred \cup {NoCred}
    BY CredentialsType
  <2>2. CASE Return(m)
    BY <1>9, <2>2 DEF InitStat, Return
  <2>3. CASE /\ Continue(m, "creating") /\ UNCHANGED <<attempt, answer>>
             /\ Credentials(cfg[m], answer[m]) # NoCred
    BY <1>9, <2>1, <2>3 DEF InitStat, Continue
  <2> QED BY <1>9, <2>2, <2>3 DEF InitStat
<1>10. ASSUME NEW m \in Manager, InitCreate(m) PROVE TypeInv'
  <2>1. CASE Return(m) /\ UNCHANGED <<file, configured, unlocked, cfg, db, history>>
    BY <2>1 DEF Return
  <2>2. CASE Continue(m, "encoding") /\ UNCHANGED <<attempt, answer>>
    <3>1. Credentials(cfg[m], answer[m]) \in Cred /\ configured[m]
      BY <1>10 DEF InitCreate
    <3>2. \A n \in Manager : Credentials(cfg[n], answer[n])' = Credentials(cfg[n], answer[n])
      BY <1>10, <2>2 DEF InitCreate, Credentials
    <3>3. TypeOK'
      BY <1>10, <2>2 DEF InitCreate, Continue
    <3>4. PhaseOK'
      BY <1>10, <2>2, <3>1, <3>2 DEF InitCreate, Continue
    <3>5. PlaintextOnlyWhileUnlocked'
      BY <1>10 DEF InitCreate
    <3> QED BY <3>3, <3>4, <3>5
  <2> QED BY <1>10, <2>1, <2>2 DEF InitCreate
<1>11. ASSUME NEW m \in Manager, InitEncode(m) PROVE TypeInv'
  <2>1. [key |-> Credentials(cfg[m], answer[m]), content |-> [a \in Addr |-> NoVal]] \in Image
    BY <1>11 DEF InitEncode, Image, Content
  <2>2. file' \in [Path -> {NoFile, Torn} \cup Image]
    <3>1. \A x \in {NoFile, Torn} \cup Image :
            [file EXCEPT ![cfg[m].path] = x] \in [Path -> {NoFile, Torn} \cup Image]
      OBVIOUS
    <3>2. file[cfg[m].path] \in {NoFile, Torn} \cup Image
      BY <1>11 DEF InitEncode
    <3>3. CASE file' = file
      BY <3>3
    <3>4. CASE file' = [file EXCEPT ![cfg[m].path] =
                          [key |-> Credentials(cfg[m], answer[m]),
                           content |-> [a \in Addr |-> NoVal]]]
      BY <2>1, <3>1, <3>4
    <3>5. CASE file' = [file EXCEPT ![cfg[m].path] = file[cfg[m].path]]
      BY <3>1, <3>2, <3>5
    <3> QED BY <1>11, <3>3, <3>4, <3>5 DEF InitEncode
  <2>3. Return(m) /\ UNCHANGED <<configured, unlocked, cfg, db, history>>
    BY <1>11 DEF InitEncode
  <2> QED BY <2>2, <2>3 DEF Return
<1>12. ASSUME NEW m \in Manager, SaveFails(m) PROVE TypeInv'
  BY <1>12 DEF SaveFails, Return
<1>13. ASSUME NEW m \in Manager, SaveRename(m) PROVE TypeInv'
  BY <1>13 DEF SaveRename, Continue
<1>14. ASSUME NEW m \in Manager, SetReturns(m) PROVE TypeInv'
  BY <1>14 DEF SetReturns, Return
<1>15. ASSUME NEW m \in Manager, Crash(m) PROVE TypeInv'
  BY <1>15 DEF Crash, Return
<1>16. CASE UNCHANGED vars
  BY <1>16 DEF vars
<1> QED
  BY <1>1, <1>2, <1>3, <1>4, <1>5, <1>6, <1>7, <1>8, <1>9, <1>10, <1>11, <1>12, <1>13,
     <1>14, <1>15, <1>16 DEF Next, Call, Progress

(* Every reachable state of every manager is type-correct, and decrypted   *)
(* material is in memory exactly while IsUnlocked: with any callers.       *)
THEOREM TypeCorrect == Spec => [](TypeOK /\ PlaintextOnlyWhileUnlocked)
<1>1. TypeInv => TypeOK /\ PlaintextOnlyWhileUnlocked
  BY DEF TypeInv
<1> QED BY TypeInit, TypeStep, <1>1, PTL DEF Spec

-----------------------------------------------------------------------------
(* From here on callers leave the configuration of an unlocked manager     *)
(* alone, as driver.go asks ("Called once, before Credentials/Unlock").    *)

(* A prompt or a creation is only in flight on a locked manager. *)
PromptsLocked ==
  \A m \in Manager :
    phase[m] \in {"asking", "opening", "newpw", "stat", "creating", "encoding"} => ~unlocked[m]

(* The file a session was opened on is still a vault under its key. *)
SessionsKeyed ==
  \A m \in Manager : unlocked[m] =>
    IsVault(file[cfg[m].path]) /\ file[cfg[m].path].key = db[m].key

KeyInv == PromptsLocked /\ SessionsKeyed

(* Nothing is open or in flight in the beginning. *)
LEMMA KeyInit == Init => KeyInv
BY DEF Init, KeyInv, PromptsLocked, SessionsKeyed

(* A session reads its key from its file; saving it back keeps the key for *)
(* whoever else has the file open, and Init leaves a vault alone.          *)
LEMMA KeyStep ==
  ASSUME ~ReconfigureUnlocked, TypeInv, TypeInv', KeyInv, [Next]_vars
  PROVE  KeyInv'
<1> USE Constants DEF KeyInv
<1>1. ASSUME UNCHANGED <<file, db, unlocked>>,
             NEW m \in Manager,
             \A n \in Manager \ {m} : phase'[n] = phase[n] /\ cfg'[n] = cfg[n],
             unlocked[m] => cfg'[m] = cfg[m] /\ phase'[m] \in {"idle", "saving", "saved"}
      PROVE  KeyInv'
  BY <1>1 DEF PromptsLocked, SessionsKeyed, IsVault
<1>2. ASSUME NEW m \in Manager, NEW c \in Config, Configure(m, c) \/ Create(m, c) PROVE KeyInv'
  BY <1>1, <1>2 DEF Configure, Create, DriverConfigure, MayConfigure, Continue, TypeInv, TypeOK
<1>3. ASSUME NEW m \in Manager,
             \/ Unlock(m) \/ DispatchFails(m) \/ InitStat(m) \/ SaveFails(m) \/ SetReturns(m)
             \/ \E pw \in Pw \cup {NoPw} : Dispatch(m, pw)
      PROVE  KeyInv'
  BY <1>1, <1>3 DEF Unlock, DispatchFails, InitStat, SaveFails, SetReturns, Dispatch,
                    Return, Continue, TypeInv, TypeOK, PromptsLocked
<1>4. ASSUME NEW m \in Manager, Lock(m) \/ Crash(m) PROVE KeyInv'
  <2>1. /\ unlocked' = [unlocked EXCEPT ![m] = FALSE] /\ UNCHANGED file
        /\ phase' = [phase EXCEPT ![m] = "idle"]
        /\ \A n \in Manager \ {m} : cfg'[n] = cfg[n] /\ db'[n] = db[n]
    BY <1>4 DEF Lock, Crash, Return, TypeInv, TypeOK
  <2> QED BY <2>1 DEF TypeInv, TypeOK, PromptsLocked, SessionsKeyed, IsVault
<1>5. ASSUME NEW m \in Manager, DriverUnlock(m) PROVE KeyInv'
  <2>1. CASE OpenOutcome(m) = "ok"
    <3>1. /\ db' = [db EXCEPT ![m] = file[cfg[m].path]]
          /\ unlocked' = [unlocked EXCEPT ![m] = TRUE]
          /\ phase' = [phase EXCEPT ![m] = "idle"]
          /\ UNCHANGED <<file, cfg>>
          /\ IsVault(file[cfg[m].path])
      BY <1>5, <2>1 DEF DriverUnlock, Retry, Return, OpenOutcome, IsVault
    <3> QED BY <3>1 DEF TypeInv, TypeOK, PromptsLocked, SessionsKeyed, IsVault
  <2>2. CASE OpenOutcome(m) # "ok"
    BY <1>1, <1>5, <2>2 DEF DriverUnlock, Retry, Return, Continue, TypeInv, TypeOK, PromptsLocked
  <2> QED BY <2>1, <2>2
<1>6. ASSUME NEW m \in Manager, InitCreate(m) PROVE KeyInv'
  <2>1. CASE file' = file
    BY <1>1, <1>6, <2>1 DEF InitCreate, Return, Continue, TypeInv, TypeOK, PromptsLocked
  <2>2. CASE file' # file
    <3>1. /\ file[cfg[m].path] = NoFile /\ file' = [file EXCEPT ![cfg[m].path] = Torn]
          /\ phase' = [phase EXCEPT ![m] = "encoding"] /\ phase[m] = "creating"
          /\ UNCHANGED <<unlocked, cfg, db>>
      BY <1>6, <2>2 DEF InitCreate, Continue
    <3> QED BY <3>1 DEF TypeInv, TypeOK, PromptsLocked, SessionsKeyed, IsVault
  <2> QED BY <2>1, <2>2
<1>7. ASSUME NEW m \in Manager, InitEncode(m) PROVE KeyInv'
  <2>1. /\ phase' = [phase EXCEPT ![m] = "idle"] /\ UNCHANGED <<unlocked, cfg, db>>
    BY <1>7 DEF InitEncode, Return
  <2>2. ASSUME NEW q \in Path, IsVault(file[q]) PROVE file'[q] = file[q]
    BY <1>7, <2>2 DEF InitEncode, IsVault, TypeInv, TypeOK
  <2> QED BY <2>1, <2>2 DEF TypeInv, TypeOK, PhaseOK, PromptsLocked, SessionsKeyed
<1>8. ASSUME NEW m \in Manager, NEW r \in Request, NEW v \in Val, Set(m, r, v) PROVE KeyInv'
  <2>1. /\ unlocked[m] /\ db[m] \in Image
        /\ phase' = [phase EXCEPT ![m] = "saving"] /\ UNCHANGED <<file, unlocked, cfg>>
        /\ db' = [db EXCEPT ![m] = [db[m] EXCEPT !.content =
                                     [db[m].content EXCEPT ![r] = v]]]
    BY <1>8 DEF Set, Guard, TypeInv, TypeOK, PlaintextOnlyWhileUnlocked
  <2>2. \A n \in Manager : unlocked[n] => db'[n].key = db[n].key
    BY <2>1 DEF TypeInv, TypeOK, Image
  <2> QED BY <2>1, <2>2 DEF TypeInv, TypeOK, PromptsLocked, SessionsKeyed, IsVault
<1>9. ASSUME NEW m \in Manager, SaveRename(m) PROVE KeyInv'
  <2>1. /\ unlocked[m] /\ db[m] \in Image /\ cfg[m].path \in Path
        /\ file' = [file EXCEPT ![cfg[m].path] = db[m]]
        /\ phase' = [phase EXCEPT ![m] = "saved"] /\ UNCHANGED <<unlocked, cfg, db>>
    BY <1>9 DEF SaveRename, Continue, TypeInv, TypeOK, PhaseOK, PlaintextOnlyWhileUnlocked
  <2>2. IsVault(db[m]) /\ file[cfg[m].path].key = db[m].key
    BY <2>1 DEF IsVault, SessionsKeyed
  <2> QED BY <2>1, <2>2 DEF TypeInv, TypeOK, PromptsLocked, SessionsKeyed, IsVault
<1>10. CASE UNCHANGED vars
  BY <1>10 DEF vars, callVars, PromptsLocked, SessionsKeyed, IsVault
<1> QED
  BY <1>2, <1>3, <1>4, <1>5, <1>6, <1>7, <1>8, <1>9, <1>10 DEF Next, Call, Progress

(* No step of any manager destroys a vault file or re-keys it. *)
LEMMA NoStepDestroys ==
  ASSUME TypeInv, SessionsKeyed, [Next]_vars, NEW p \in Path, IsVault(file[p])
  PROVE  IsVault(file'[p]) /\ file'[p].key = file[p].key
<1> USE Constants
<1>1. CASE file' = file
  BY <1>1
<1>2. ASSUME NEW m \in Manager, InitCreate(m) \/ InitEncode(m) PROVE file'[p] = file[p]
  BY <1>2 DEF InitCreate, InitEncode, IsVault, TypeInv, TypeOK
<1>3. ASSUME NEW m \in Manager, SaveRename(m)
      PROVE  IsVault(file'[p]) /\ file'[p].key = file[p].key
  <2>1. /\ file[cfg[m].path].key = db[m].key /\ db[m] \in Image
        /\ file' = [file EXCEPT ![cfg[m].path] = db[m]]
    BY <1>3 DEF SaveRename, TypeInv, TypeOK, PhaseOK, PlaintextOnlyWhileUnlocked, SessionsKeyed
  <2> QED BY <2>1 DEF IsVault, TypeInv, TypeOK
<1>4. ASSUME NEW m \in Manager, Call(m) \/ Crash(m) PROVE file' = file
  BY <1>4 DEF Call, Configure, Create, Unlock, Lock, Set, Crash
<1>5. ASSUME NEW m \in Manager, Progress(m)
      PROVE  file' = file \/ InitCreate(m) \/ InitEncode(m) \/ SaveRename(m)
  BY <1>5 DEF Progress, Dispatch, DispatchFails, DriverUnlock, Retry, InitStat, SaveFails, SetReturns
<1> QED BY <1>1, <1>2, <1>3, <1>4, <1>5 DEF Next, vars

(* If no caller configures an unlocked manager, a vault file is never      *)
(* overwritten by Init, torn by a save, or re-keyed, however many sessions *)
(* write it at a time.                                                     *)
THEOREM VaultsAreNeverDestroyed ==
  ASSUME ~ReconfigureUnlocked
  PROVE  Spec => VaultNeverDestroyed
<1> DEFINE Inv == TypeInv /\ KeyInv
<1>1. Init => Inv
  BY TypeInit, KeyInit
<1>2. Inv /\ [Next]_vars => Inv'
  BY TypeStep, KeyStep
<1>3. Inv /\ [Next]_vars =>
        [\A p \in Path : IsVault(file[p]) => IsVault(file'[p]) /\ file'[p].key = file[p].key]_file
  BY NoStepDestroys DEF KeyInv
<1> QED BY <1>1, <1>2, <1>3, PTL DEF Spec, VaultNeverDestroyed

-----------------------------------------------------------------------------
(* VaultManager implements VaultSession. *)
(* Steps that leave configuration and database alone are no session steps. *)
LEMMA ViewUnchanged ==
  ASSUME UNCHANGED db, \A m \in Manager : db[m] # NoDb => cfg'[m] = cfg[m]
  PROVE  SessionView' = SessionView
BY DEF SessionView, NoView

(* A manager that replaces its database changes its own session only. *)
LEMMA OtherViews ==
  ASSUME UNCHANGED cfg, NEW m \in Manager, NEW x, db' = [db EXCEPT ![m] = x], TypeOK
  PROVE  SessionView' = [SessionView EXCEPT ![m] =
           IF x = NoDb THEN NoView
           ELSE [path |-> cfg[m].path, key |-> x.key, content |-> x.content]]
BY DEF SessionView, NoView, TypeOK

(* Each step of a manager is a step of VaultSession or a stutter of it. *)
LEMMA SessionStep ==
  ASSUME ~ReconfigureUnlocked, TypeInv, TypeInv', KeyInv, [Next]_vars
  PROVE  [Session!SessionNext]_(Session!svars)
<1> USE Constants DEF Session!svars
<1>1. ASSUME UNCHANGED <<file, db>>, \A m \in Manager : db[m] # NoDb => cfg'[m] = cfg[m]
      PROVE  UNCHANGED Session!svars
  BY <1>1, ViewUnchanged
<1>2. ASSUME NEW m \in Manager, NEW c \in Config, Configure(m, c) \/ Create(m, c)
      PROVE  UNCHANGED Session!svars
  BY <1>2, <1>1 DEF Configure, Create, DriverConfigure, MayConfigure, TypeInv, TypeOK,
                    PlaintextOnlyWhileUnlocked
<1>3. ASSUME NEW m \in Manager,
             \/ Unlock(m) \/ DispatchFails(m) \/ InitStat(m) \/ SaveFails(m) \/ SetReturns(m)
             \/ \E pw \in Pw \cup {NoPw} : Dispatch(m, pw)
      PROVE  UNCHANGED Session!svars
  BY <1>3, <1>1 DEF Unlock, DispatchFails, InitStat, SaveFails, SetReturns, Dispatch
<1>4. ASSUME NEW m \in Manager, Lock(m) PROVE Session!CloseSession(m)
  BY <1>4, OtherViews DEF Lock, Session!CloseSession, TypeInv
<1>5. ASSUME NEW m \in Manager, Crash(m) PROVE Session!CloseSession(m)
  <2>1. /\ db' = [db EXCEPT ![m] = NoDb] /\ file' = file
        /\ \A n \in Manager \ {m} : cfg'[n] = cfg[n]
    BY <1>5 DEF Crash, TypeInv, TypeOK
  <2>2. ASSUME NEW n \in Manager
        PROVE  SessionView'[n] = IF n = m THEN NoView ELSE SessionView[n]
    BY <2>1 DEF SessionView, NoView, TypeInv, TypeOK
  <2>3. SessionView' = [SessionView EXCEPT ![m] = NoView]
    BY <2>2 DEF SessionView
  <2> QED BY <2>1, <2>3 DEF Session!CloseSession
<1>6. ASSUME NEW m \in Manager, DriverUnlock(m)
      PROVE  UNCHANGED Session!svars \/ Session!OpenSession(m, cfg[m].path)
  <2>1. CASE OpenOutcome(m) = "ok"
    <3>1. /\ db' = [db EXCEPT ![m] = file[cfg[m].path]]
          /\ UNCHANGED <<file, cfg>> /\ phase[m] = "opening"
          /\ file[cfg[m].path] \notin {NoFile, Torn}
      BY <1>6, <2>1 DEF DriverUnlock, Retry, OpenOutcome
    <3>2. db[m] = NoDb /\ file[cfg[m].path] # NoDb
      BY <3>1 DEF KeyInv, PromptsLocked, TypeInv, TypeOK, PhaseOK, PlaintextOnlyWhileUnlocked
    <3> QED BY <3>1, <3>2, OtherViews DEF Session!OpenSession, SessionView, NoView, TypeInv
  <2>2. CASE OpenOutcome(m) # "ok"
    BY <1>6, <2>2, <1>1 DEF DriverUnlock, Retry
  <2> QED BY <2>1, <2>2
<1>7. ASSUME NEW m \in Manager, InitCreate(m)
      PROVE  UNCHANGED Session!svars \/ Session!Reserve(cfg[m].path)
  BY <1>7, ViewUnchanged DEF InitCreate, Session!Reserve
<1>8. ASSUME NEW m \in Manager, InitEncode(m)
      PROVE  \/ UNCHANGED Session!svars
             \/ Session!Format(cfg[m].path, Credentials(cfg[m], answer[m]))
  BY <1>8, ViewUnchanged DEF InitEncode, Session!Format, TypeInv, TypeOK
<1>9. ASSUME NEW m \in Manager, NEW r \in Request, NEW v \in Val, Set(m, r, v)
      PROVE  r \in Addr /\ Session!Write(m, r, v)
  <2>1. /\ r \in Addr /\ db[m] \in Image /\ UNCHANGED <<file, cfg>>
        /\ db' = [db EXCEPT ![m] = [db[m] EXCEPT !.content = [db[m].content EXCEPT ![r] = v]]]
        /\ db'[m] \in Image
    BY <1>9 DEF Set, Guard, Addr, TypeInv, TypeOK, PlaintextOnlyWhileUnlocked
  <2> DEFINE c == [db[m].content EXCEPT ![r] = v]
             x == [db[m] EXCEPT !.content = c]
  <2>2. x.key = db[m].key /\ x.content = c
    BY <2>1 DEF Image
  <2>3. x \in Image /\ x # NoDb
    BY <2>1 DEF TypeInv, TypeOK
  <2>4. /\ SessionView[m] = [path |-> cfg[m].path, key |-> db[m].key, content |-> db[m].content]
        /\ SessionView[m] # NoView
    <3>1. cfg[m].path \in Path /\ db[m].key \in Cred /\ db[m].content \in Content
      BY <1>9, <2>1 DEF Set, Guard, Image, TypeInv, PhaseOK
    <3> QED BY <2>1, <3>1, SentinelAssumption DEF SessionView, NoView
  <2> HIDE DEF c, x
  <2>5. [SessionView[m] EXCEPT !.content = c] = [path |-> cfg[m].path, key |-> x.key, content |-> x.content]
    BY <2>2, <2>4
  <2>6. [SessionView EXCEPT ![m].content[r] = v] =
        [SessionView EXCEPT ![m] = [path |-> cfg[m].path, key |-> x.key, content |-> x.content]]
    <3>1. SessionView[m].content = db[m].content
      BY <2>4
    <3>2. [SessionView EXCEPT ![m].content[r] = v] =
          [SessionView EXCEPT ![m] = [SessionView[m] EXCEPT !.content = c]]
      BY <3>1 DEF c
    <3> QED BY <2>5, <3>2
  <2>7. SessionView' = [SessionView EXCEPT ![m].content[r] = v]
    BY <2>1, <2>3, <2>6, OtherViews DEF c, x, TypeInv
  <2> QED BY <2>1, <2>4, <2>7 DEF Session!Write
<1>10. ASSUME NEW m \in Manager, SaveRename(m) PROVE Session!Persist(m)
  <2>1. /\ db[m] \in Image /\ UNCHANGED <<db, cfg>>
        /\ file' = [file EXCEPT ![cfg[m].path] = db[m]]
    BY <1>10 DEF SaveRename, TypeInv, TypeOK, PhaseOK, PlaintextOnlyWhileUnlocked
  <2>2. db[m] = [key |-> db[m].key, content |-> db[m].content]
    BY <2>1 DEF Image
  <2>3. /\ SessionView[m] = [path |-> cfg[m].path, key |-> db[m].key, content |-> db[m].content]
        /\ SessionView[m] # NoView
    <3>1. cfg[m].path \in Path /\ db[m].key \in Cred /\ db[m].content \in Content
      BY <1>10, <2>1 DEF SaveRename, Image, TypeInv, PhaseOK
    <3> QED BY <2>1, <3>1, SentinelAssumption DEF SessionView, NoView
  <2>4. SessionView' = SessionView
    BY <2>1, ViewUnchanged
  <2>5. file' = [file EXCEPT ![SessionView[m].path] =
                   [key |-> SessionView[m].key, content |-> SessionView[m].content]]
    <3>1. /\ SessionView[m].path = cfg[m].path
          /\ SessionView[m].key = db[m].key
          /\ SessionView[m].content = db[m].content
      BY <2>3
    <3> HIDE <2>3
    <3> QED BY <2>1, <2>2, <3>1
  <2> QED BY <2>3, <2>4, <2>5 DEF Session!Persist
<1>11. CASE UNCHANGED vars
  BY <1>11, <1>1 DEF vars
<1>12. ASSUME NEW m \in Manager PROVE cfg[m].path \in Path \/ phase[m] = "idle"
  BY DEF TypeInv, TypeOK, PhaseOK
<1> QED
  <2>1. ASSUME NEW m \in Manager, Call(m) \/ Crash(m)
        PROVE  UNCHANGED Session!svars \/ Session!SessionNext
    BY <2>1, <1>2, <1>3, <1>4, <1>5, <1>9 DEF Call, Session!SessionNext
  <2>2. ASSUME NEW m \in Manager, Progress(m)
        PROVE  UNCHANGED Session!svars \/ Session!SessionNext
    <3>1. CASE DriverUnlock(m)
      BY <3>1, <1>6, <1>12 DEF DriverUnlock, Retry, Session!SessionNext
    <3>2. CASE InitCreate(m)
      BY <3>2, <1>7, <1>12 DEF InitCreate, Session!SessionNext
    <3>3. CASE InitEncode(m)
      <4>1. Credentials(cfg[m], answer[m]) \in Cred /\ cfg[m].path \in Path
        BY <3>3 DEF InitEncode, TypeInv, TypeOK, PhaseOK
      <4> QED BY <3>3, <4>1, <1>8 DEF Session!SessionNext
    <3>4. CASE SaveRename(m)
      BY <3>4, <1>10 DEF Session!SessionNext
    <3> QED BY <2>2, <3>1, <3>2, <3>3, <3>4, <1>3 DEF Progress
  <2> QED BY <2>1, <2>2, <1>11 DEF Next

(* The manager, its prompts, retries, failing saves and crashes implement  *)
(* sessions that replace a vault file as a whole, under its own key, if    *)
(* no caller configures an unlocked manager.                               *)
THEOREM ManagerImplementsSession ==
  ASSUME ~ReconfigureUnlocked
  PROVE  Spec => ImplementsSession
<1> DEFINE Inv == TypeInv /\ KeyInv
<1>1. Init => Inv
  BY TypeInit, KeyInit
<1>2. Inv /\ [Next]_vars => Inv'
  BY TypeStep, KeyStep
<1>3. Init => Session!SessionInit
  <2> SUFFICES ASSUME Init PROVE Session!SessionInit
    OBVIOUS
  <2>1. file \in [Path -> {NoFile} \cup Image]
    BY DEF Init, Image, Content
  <2>2. SessionView = [m \in Manager |-> NoView]
    BY DEF Init, SessionView
  <2> QED BY <2>1, <2>2 DEF Session!SessionInit, Session!Image, Session!Content, Image, Content
<1>4. Inv /\ Inv' /\ [Next]_vars => [Session!SessionNext]_(Session!svars)
  BY SessionStep
<1> QED BY <1>1, <1>2, <1>3, <1>4, PTL DEF Spec, ImplementsSession, Session!SessionSpec
-----------------------------------------------------------------------------
(* From here on callers also keep to one open session per file, the        *)
(* single-writer model of vault-drivers.md.                                *)
Active(m) == unlocked[m] \/ phase[m] \in {"asking", "opening"}

(* One session, or one unlock in flight, per file. *)
OneSession ==
  \A m, n \in Manager : m # n /\ Active(m) /\ Active(n) => cfg[m].path # cfg[n].path

(* The Set in flight is already in memory and among the tried values; once *)
(* renamed, the file is the database.                                      *)
SavingOK ==
  \A m \in Manager : phase[m] \in {"saving", "saved"} =>
    /\ db[m].content[pending[m].req] = pending[m].val
    /\ pending[m].val \in tried[cfg[m].path][pending[m].req]
    /\ phase[m] = "saved" => file[cfg[m].path] = db[m]

(* Nothing was ever acknowledged on a file that is not a vault yet. *)
NothingAckedEarly ==
  \A p \in Path : ~IsVault(file[p]) => \A a \in Addr : acked[p][a] = NoVal

(* A session reads its file, up to values whose Set did not return nil. *)
SessionOK(m) ==
  LET f == file[cfg[m].path]
  IN  /\ IsVault(f)
      /\ f.key = db[m].key
      /\ \A a \in Addr : \/ db[m].content[a] = f.content[a]
                         \/ db[m].content[a] \in tried[cfg[m].path][a]

SessionsOK == \A m \in Manager : unlocked[m] => SessionOK(m)

IInv == /\ OneSession /\ PromptsLocked /\ SavingOK /\ NothingAckedEarly
        /\ AckedSetsSurvive /\ SessionsOK

(* Nothing is open, in flight or acknowledged in the beginning. *)
LEMMA DisciplineInit == Init => IInv
<1> SUFFICES ASSUME Init PROVE IInv
  OBVIOUS
<1> USE Constants DEF Init
<1>1. OneSession /\ PromptsLocked /\ SavingOK /\ SessionsOK
  BY DEF OneSession, Active, PromptsLocked, SavingOK, SessionsOK
<1>2. NothingAckedEarly
  BY DEF NothingAckedEarly
<1>3. AckedSetsSurvive
  BY DEF AckedSetsSurvive, IsVault
<1> QED BY <1>1, <1>2, <1>3 DEF IInv

(* A step that leaves the files, the sessions and the history alone only   *)
(* has to keep phases in order.                                            *)
LEMMA QuietStep ==
  ASSUME TypeInv, IInv, UNCHANGED <<file, db, unlocked, history>>, NEW m \in Manager,
         \A n \in Manager \ {m} : /\ phase'[n] = phase[n] /\ cfg'[n] = cfg[n]
                                  /\ pending'[n] = pending[n],
         unlocked[m] => cfg'[m] = cfg[m],
         phase'[m] \notin {"saving", "saved"},
         phase'[m] \notin {"idle"} => ~unlocked[m],
         phase'[m] \in {"asking", "opening"} =>
           /\ cfg'[m] = cfg[m]
           /\ \/ phase[m] \in {"asking", "opening"}
              \/ \A n \in Manager \ {m} : Active(n) => cfg[n].path # cfg[m].path
  PROVE  IInv'
<1>1. OneSession'
  BY DEF IInv, OneSession, Active
<1>2. PromptsLocked'
  BY DEF IInv, PromptsLocked
<1>3. SavingOK'
  BY DEF IInv, SavingOK
<1>4. NothingAckedEarly' /\ AckedSetsSurvive'
  BY DEF IInv, NothingAckedEarly, AckedSetsSurvive, IsVault
<1>5. SessionsOK'
  BY DEF IInv, SessionsOK, SessionOK, IsVault
<1> QED BY <1>1, <1>2, <1>3, <1>4, <1>5 DEF IInv

(* The discipline of the callers is kept by each of their calls, and under *)
(* it each step of the manager keeps what is acknowledged in the file.     *)
LEMMA DisciplineStep ==
  ASSUME ~ReconfigureUnlocked, SingleWriter, TypeInv, TypeInv', IInv, [Next]_vars
  PROVE  IInv'
<1> USE Constants
<1>1. ASSUME NEW m \in Manager, NEW c \in Config, Configure(m, c) PROVE IInv'
  BY <1>1, QuietStep DEF Configure, DriverConfigure, MayConfigure
<1>2. ASSUME NEW m \in Manager, NEW c \in Config, Create(m, c) PROVE IInv'
  BY <1>2, QuietStep DEF Create, DriverConfigure, MayConfigure, Continue, TypeInv, TypeOK
<1>3. ASSUME NEW m \in Manager, Unlock(m) PROVE IInv'
  <2>1. \A n \in Manager \ {m} : Active(n) => cfg[n].path # cfg[m].path
    BY <1>3 DEF Unlock, NoOtherSession, Active, TypeInv, PlaintextOnlyWhileUnlocked
  <2> QED BY <1>3, <2>1, QuietStep DEF Unlock, Continue, TypeInv, TypeOK
<1>4. ASSUME NEW m \in Manager, Lock(m) PROVE IInv'
  <2> USE <1>4 DEF Lock, Return, TypeInv, TypeOK
  <2>1. OneSession' /\ PromptsLocked' /\ SavingOK'
    BY DEF IInv, OneSession, Active, PromptsLocked, SavingOK
  <2>2. NothingAckedEarly' /\ AckedSetsSurvive'
    BY DEF IInv, NothingAckedEarly, AckedSetsSurvive, IsVault
  <2>3. SessionsOK'
    BY DEF IInv, SessionsOK, SessionOK, IsVault
  <2> QED BY <2>1, <2>2, <2>3 DEF IInv
<1>5. ASSUME NEW m \in Manager, Crash(m) PROVE IInv'
  <2> USE <1>5 DEF Crash, Return, TypeInv, TypeOK
  <2>1. OneSession' /\ PromptsLocked' /\ SavingOK'
    BY DEF IInv, OneSession, Active, PromptsLocked, SavingOK
  <2>2. NothingAckedEarly' /\ AckedSetsSurvive'
    BY DEF IInv, NothingAckedEarly, AckedSetsSurvive, IsVault
  <2>3. SessionsOK'
    BY DEF IInv, SessionsOK, SessionOK, IsVault
  <2> QED BY <2>1, <2>2, <2>3 DEF IInv
<1>6. ASSUME NEW m \in Manager, NEW pw \in Pw \cup {NoPw}, Dispatch(m, pw) PROVE IInv'
  BY <1>6, QuietStep DEF Dispatch, Continue, TypeInv, TypeOK, IInv, PromptsLocked
<1>7. ASSUME NEW m \in Manager, DispatchFails(m) PROVE IInv'
  BY <1>7, QuietStep DEF DispatchFails, Return, TypeInv, TypeOK
<1>8. ASSUME NEW m \in Manager, DriverUnlock(m) PROVE IInv'
  <2>1. CASE OpenOutcome(m) = "ok"
    <3>1. /\ db' = [db EXCEPT ![m] = file[cfg[m].path]]
          /\ unlocked' = [unlocked EXCEPT ![m] = TRUE]
          /\ Return(m) /\ phase[m] = "opening"
          /\ UNCHANGED <<file, configured, cfg, history>>
          /\ IsVault(file[cfg[m].path])
      BY <1>8, <2>1 DEF DriverUnlock, Retry, OpenOutcome, IsVault
    <3>2. OneSession' /\ PromptsLocked' /\ SavingOK'
      <4>1. OneSession'
        BY <3>1 DEF Return, TypeInv, TypeOK, IInv, OneSession, Active
      <4>2. PromptsLocked'
        BY <3>1 DEF Return, TypeInv, TypeOK, IInv, PromptsLocked
      <4>3. SavingOK'
        BY <3>1 DEF Return, TypeInv, TypeOK, IInv, SavingOK
      <4> QED BY <4>1, <4>2, <4>3
    <3>3. NothingAckedEarly' /\ AckedSetsSurvive'
      BY <3>1 DEF IInv, NothingAckedEarly, AckedSetsSurvive, IsVault
    <3>4. SessionsOK'
      BY <3>1 DEF TypeInv, TypeOK, IInv, SessionsOK, SessionOK, IsVault
    <3> QED BY <3>2, <3>3, <3>4 DEF IInv
  <2>2. CASE OpenOutcome(m) # "ok"
    BY <1>8, <2>2, QuietStep
       DEF DriverUnlock, Retry, Return, Continue, TypeInv, TypeOK, IInv, PromptsLocked
  <2> QED BY <2>1, <2>2
<1>9. ASSUME NEW m \in Manager, InitStat(m) PROVE IInv'
  BY <1>9, QuietStep DEF InitStat, Return, Continue, TypeInv, TypeOK, IInv, PromptsLocked
<1>10. ASSUME NEW m \in Manager, InitCreate(m) PROVE IInv'
  <2>1. CASE file' = file /\ Return(m)
    BY <1>10, <2>1, QuietStep DEF InitCreate, Return, TypeInv, TypeOK
  <2>2. CASE /\ file[cfg[m].path] = NoFile
             /\ file' = [file EXCEPT ![cfg[m].path] = Torn]
             /\ Continue(m, "encoding")
    <3> USE <1>10, <2>2 DEF InitCreate, Continue, TypeInv, TypeOK, PhaseOK
    <3>1. OneSession' /\ PromptsLocked' /\ SavingOK'
      BY DEF IInv, OneSession, Active, PromptsLocked, SavingOK, SessionsOK, SessionOK, IsVault
    <3>2. NothingAckedEarly' /\ AckedSetsSurvive'
      BY DEF IInv, NothingAckedEarly, AckedSetsSurvive, IsVault
    <3>3. SessionsOK'
      BY DEF IInv, SessionsOK, SessionOK, IsVault
    <3> QED BY <3>1, <3>2, <3>3 DEF IInv
  <2> QED BY <1>10, <2>1, <2>2 DEF InitCreate
<1>11. ASSUME NEW m \in Manager, InitEncode(m) PROVE IInv'
  <2>1. CASE file' = file
    <3>1. Return(m) /\ UNCHANGED <<file, configured, unlocked, cfg, db, history>>
      BY <1>11, <2>1 DEF InitEncode
    <3> QED BY <3>1, QuietStep DEF Return, TypeInv, TypeOK
  <2>2. CASE file' # file
    <3> DEFINE new == [key |-> Credentials(cfg[m], answer[m]),
                       content |-> [a \in Addr |-> NoVal]]
    <3>1. /\ file[cfg[m].path] = Torn /\ file' = [file EXCEPT ![cfg[m].path] = new]
          /\ Return(m) /\ phase[m] = "encoding"
          /\ UNCHANGED <<configured, unlocked, cfg, db, history>>
      BY <1>11, <2>2 DEF InitEncode, TypeInv, TypeOK
    <3>2. new.content = [a \in Addr |-> NoVal]
      OBVIOUS
    <3> HIDE DEF new
    <3> USE <3>1 DEF Return, TypeInv, TypeOK, PhaseOK
    <3>3. OneSession' /\ PromptsLocked' /\ SavingOK'
      BY DEF IInv, OneSession, Active, PromptsLocked, SavingOK, SessionsOK, SessionOK, IsVault
    <3>4. NothingAckedEarly' /\ AckedSetsSurvive'
      BY <3>2 DEF IInv, NothingAckedEarly, AckedSetsSurvive, IsVault
    <3>5. SessionsOK'
      BY DEF IInv, SessionsOK, SessionOK, IsVault
    <3> QED BY <3>3, <3>4, <3>5 DEF IInv
  <2> QED BY <2>1, <2>2
<1>12. ASSUME NEW m \in Manager, NEW r \in Request, NEW v \in Val, Set(m, r, v) PROVE IInv'
  <2>1. /\ r \in Addr /\ unlocked[m] /\ phase[m] = "idle" /\ cfg[m].path \in Path
        /\ db[m] \in Image
    BY <1>12 DEF Set, Guard, Addr, TypeInv, TypeOK, PhaseOK, PlaintextOnlyWhileUnlocked
  <2> DEFINE p == cfg[m].path
  <2>2. /\ tried' = [tried EXCEPT ![p] = [tried[p] EXCEPT ![r] = @ \cup {v}]]
        /\ UNCHANGED <<file, configured, unlocked, cfg, acked>>
        /\ phase' = [phase EXCEPT ![m] = "saving"]
        /\ pending' = [pending EXCEPT ![m] = [req |-> r, val |-> v]]
        /\ db' = [db EXCEPT ![m] = [db[m] EXCEPT !.content =
                                     [db[m].content EXCEPT ![r] = v]]]
    BY <1>12 DEF Set
  <2>3. \A q \in Path, a \in Addr : tried[q][a] \subseteq tried'[q][a]
    BY <2>1, <2>2 DEF TypeInv, TypeOK
  <2>4. v \in tried'[p][r]
    BY <2>1, <2>2 DEF TypeInv, TypeOK
  <2>5. /\ db'[m].key = db[m].key
        /\ db'[m].content[r] = v
        /\ \A a \in Addr \ {r} : db'[m].content[a] = db[m].content[a]
        /\ \A n \in Manager \ {m} : db'[n] = db[n]
    BY <2>1, <2>2 DEF TypeInv, TypeOK, Image, Content
  <2> HIDE DEF p
  <2>6. OneSession' /\ PromptsLocked'
    BY <2>1, <2>2 DEF TypeInv, TypeOK, IInv, OneSession, Active, PromptsLocked
  <2>7. SavingOK'
    <3>1. /\ db'[m].content[pending'[m].req] = pending'[m].val
          /\ pending'[m].val \in tried'[cfg'[m].path][pending'[m].req]
          /\ phase'[m] = "saving"
      BY <2>1, <2>2, <2>4, <2>5 DEF p, TypeInv, TypeOK
    <3>2. ASSUME NEW n \in Manager \ {m}, phase'[n] \in {"saving", "saved"}
          PROVE  /\ db'[n].content[pending'[n].req] = pending'[n].val
                 /\ pending'[n].val \in tried'[cfg'[n].path][pending'[n].req]
                 /\ phase'[n] = "saved" => file'[cfg'[n].path] = db'[n]
      <4>1. /\ phase'[n] = phase[n] /\ pending'[n] = pending[n] /\ db'[n] = db[n]
            /\ pending[n].req \in Addr /\ cfg[n].path \in Path
        BY <2>2, <2>5, <3>2 DEF TypeInv, TypeOK, PhaseOK
      <4> QED BY <2>2, <2>3, <3>2, <4>1 DEF IInv, SavingOK
    <3> QED BY <3>1, <3>2 DEF SavingOK
  <2>8. NothingAckedEarly'
    BY <2>2 DEF IInv, NothingAckedEarly, IsVault
  <2>9. AckedSetsSurvive'
    BY <2>2, <2>3 DEF IInv, AckedSetsSurvive, IsVault
  <2>10. SessionsOK'
    BY <2>1, <2>2, <2>3, <2>4, <2>5 DEF p, TypeInv, PhaseOK, IInv, SessionsOK, SessionOK, IsVault
  <2> QED BY <2>6, <2>7, <2>8, <2>9, <2>10 DEF IInv
<1>13. ASSUME NEW m \in Manager, SaveFails(m) PROVE IInv'
  BY <1>13, QuietStep DEF SaveFails, Return, TypeInv, TypeOK
<1>14. ASSUME NEW m \in Manager, SaveRename(m) PROVE IInv'
  <2>1. /\ unlocked[m] /\ phase[m] = "saving" /\ cfg[m].path \in Path /\ db[m] \in Image
        /\ file' = [file EXCEPT ![cfg[m].path] = db[m]]
        /\ phase' = [phase EXCEPT ![m] = "saved"]
        /\ UNCHANGED <<configured, unlocked, cfg, db, attempt, answer, history, pending>>
    BY <1>14 DEF SaveRename, Continue, TypeInv, TypeOK, PhaseOK, PlaintextOnlyWhileUnlocked
  <2>2. file'[cfg[m].path] = db[m] /\ IsVault(db[m])
    BY <2>1 DEF TypeInv, TypeOK, IsVault
  <2>3. \A q \in Path : q # cfg[m].path => file'[q] = file[q]
    BY <2>1 DEF TypeInv, TypeOK
  <2>4. OneSession' /\ PromptsLocked'
    BY <2>1 DEF TypeInv, TypeOK, IInv, OneSession, Active, PromptsLocked
  <2>5. SavingOK'
    BY <2>1, <2>2, <2>3
       DEF TypeInv, TypeOK, PhaseOK, IInv, SavingOK, OneSession, Active
  <2>6. NothingAckedEarly'
    BY <2>1, <2>2, <2>3 DEF IInv, NothingAckedEarly, IsVault
  <2>7. AckedSetsSurvive'
    BY <2>1, <2>2, <2>3, SMTT(30) DEF IInv, AckedSetsSurvive, SessionsOK, SessionOK, IsVault
  <2>8. SessionsOK'
    BY <2>1, <2>2, <2>3 DEF TypeInv, PhaseOK, IInv, OneSession, Active, SessionsOK, SessionOK, IsVault
  <2> QED BY <2>4, <2>5, <2>6, <2>7, <2>8 DEF IInv
<1>15. ASSUME NEW m \in Manager, SetReturns(m) PROVE IInv'
  <2> DEFINE p == cfg[m].path
             r == pending[m].req
  <2>1. /\ unlocked[m] /\ phase[m] = "saved" /\ p \in Path /\ r \in Addr
        /\ db[m] = file[p] /\ db[m].content[r] = pending[m].val
    BY <1>15 DEF SetReturns, TypeInv, PhaseOK, IInv, SavingOK
  <2>2. /\ acked' = [acked EXCEPT ![p] = [acked[p] EXCEPT ![r] = pending[m].val]]
        /\ tried' = [tried EXCEPT ![p] = [tried[p] EXCEPT ![r] = {}]]
        /\ Return(m)
        /\ UNCHANGED <<file, configured, unlocked, cfg, db>>
    BY <1>15 DEF SetReturns
  <2>3. /\ acked'[p][r] = pending[m].val
        /\ \A q \in Path, a \in Addr : ~(q = p /\ a = r) =>
              acked'[q][a] = acked[q][a] /\ tried'[q][a] = tried[q][a]
    BY <2>1, <2>2 DEF TypeInv, TypeOK
  <2>4. IsVault(file[p])
    BY <2>1 DEF IInv, SessionsOK, SessionOK
  <2>5. \A n \in Manager \ {m} : Active(n) => cfg[n].path # p
    BY <2>1 DEF IInv, OneSession, Active
  <2> HIDE DEF p, r
  <2>6. OneSession' /\ PromptsLocked'
    BY <2>2 DEF Return, TypeInv, TypeOK, IInv, OneSession, Active, PromptsLocked
  <2>7. SavingOK'
    BY <2>1, <2>2, <2>3, <2>5
       DEF Return, TypeInv, TypeOK, PhaseOK, IInv, SavingOK, Active
  <2>8. NothingAckedEarly'
    BY <2>2, <2>3, <2>4 DEF IInv, NothingAckedEarly, IsVault
  <2>9. AckedSetsSurvive'
    BY <2>1, <2>2, <2>3 DEF IInv, AckedSetsSurvive, IsVault
  <2>10. SessionsOK'
    <3> SUFFICES ASSUME NEW n \in Manager, unlocked[n] PROVE SessionOK(n)'
      BY <2>2 DEF SessionsOK
    <3>1. CASE n = m
      BY <2>1, <2>2, <2>4, <3>1 DEF p, SessionOK, IsVault
    <3>2. CASE n # m
      BY <2>2, <2>3, <2>5, <3>2 DEF TypeInv, PhaseOK, Active, IInv, SessionsOK, SessionOK, IsVault
    <3> QED BY <3>1, <3>2
  <2> QED BY <2>6, <2>7, <2>8, <2>9, <2>10 DEF IInv
<1>16. CASE UNCHANGED vars
  BY <1>16 DEF vars, IInv, OneSession, Active, PromptsLocked, SavingOK, NothingAckedEarly,
               AckedSetsSurvive, SessionsOK, SessionOK, IsVault
<1> QED
  BY <1>1, <1>2, <1>3, <1>4, <1>5, <1>6, <1>7, <1>8, <1>9, <1>10, <1>11, <1>12, <1>13,
     <1>14, <1>15, <1>16 DEF Next, Call, Progress

(* What Get answers from memory is in the file, or was tried since. *)
LEMMA SessionServesFile == TypeInv /\ IInv => SessionMatchesFile
<1> SUFFICES ASSUME TypeInv, IInv PROVE SessionMatchesFile
  OBVIOUS
<1>1. \A m \in Manager : unlocked[m] => SessionOK(m)
  BY DEF IInv, SessionsOK
<1>2. ASSUME NEW m \in Manager, unlocked[m], NEW a \in Addr
      PROVE  GetResult(m, a).val = db[m].content[a]
  <2>1. Guard(m) = "ok" /\ IsAddress(a)
    BY <1>2 DEF Guard, TypeInv, PhaseOK, Addr
  <2> QED BY <2>1 DEF GetResult
<1> QED BY <1>1, <1>2 DEF SessionMatchesFile, SessionOK

(* The values of acknowledged Sets are in the file, and a session answers  *)
(* from the file, for any number of managers, files and addresses, through *)
(* crashes and failing saves, if callers keep the documented discipline.   *)
THEOREM AckedSetsAreDurable ==
  ASSUME ~ReconfigureUnlocked, SingleWriter
  PROVE  Spec => [](AckedSetsSurvive /\ SessionMatchesFile)
<1> DEFINE Inv == TypeInv /\ IInv
<1>1. Init => Inv
  BY TypeInit, DisciplineInit
<1>2. Inv /\ [Next]_vars => Inv'
  BY TypeStep, DisciplineStep
<1>3. Inv => AckedSetsSurvive /\ SessionMatchesFile
  BY SessionServesFile DEF IInv
<1> QED BY <1>1, <1>2, <1>3, PTL DEF Spec
=============================================================================
