------------------------ MODULE SecretResolverProofs ------------------------
(***************************************************************************)
(* Theorems about SecretResolver, for any programs, calls, registry files  *)
(* and vaults: the Loader's mutex and one prompt per vault.                *)
(***************************************************************************)
EXTENDS SecretResolver, TLAPS

(* Where a call that has no manager yet is on its way to one. *)
Reaching == {"proxy", "declare", "prompt", "open", "ensure", "unlock"}

Shape ==
  /\ DOMAIN mutex = Program /\ DOMAIN kept = Program
  /\ DOMAIN pc = Call /\ DOMAIN job = Call
  /\ \A c \in Call : DOMAIN job[c] = DOMAIN Blank

(* Places that only a Load, or only a command, gets to. *)
Places ==
  \A c \in Call :
    /\ pc[c] \in {"token", "resolve", "open", "get"} => job[c].mode # "command"
    /\ pc[c] \in {"select", "redial", "read"} => job[c].mode = "command"

(* A call that holds the mutex finds the managers as Resolve saw them. *)
NotKeptYet ==
  \A c \in Call : pc[c] \in Reaching /\ job[c].mode # "command" =>
    job[c].vault \notin DOMAIN kept[Of[c]]

Inv == Shape /\ Places /\ OneUnlockAtATime /\ NotKeptYet

LEMMA BlankFields ==
  /\ DOMAIN Blank = {"mode", "todo", "vault", "conf", "dial", "link", "reqs", "answers", "tries"}
  /\ Blank.mode = "none"
BY DEF Blank

LEMMA CallsOfPrograms == \A c \in Call : Of[c] \in Program /\ c # NoCall
BY ResolverAssumption

(* What Step changes. *)
LEMMA StepChanges ==
  ASSUME Shape, NEW c \in Call, NEW next, NEW record, Step(c, next, record)
  PROVE  /\ DOMAIN pc' = Call /\ DOMAIN job' = Call
         /\ pc'[c] = next /\ job'[c] = record
         /\ \A d \in Call \ {c} : pc'[d] = pc[d] /\ job'[d] = job[d]
BY DEF Shape, Step

(* A call that goes on keeps what it holds. *)
LEMMA GoesOn ==
  ASSUME Inv, NEW c \in Call, NEW next, NEW record, Step(c, next, record),
         UNCHANGED mutex, UNCHANGED kept,
         DOMAIN record = DOMAIN Blank,
         next \in {"token", "resolve", "open", "get"} => record.mode # "command",
         next \in {"select", "redial", "read"} => record.mode = "command",
         InLoader(c)' <=> InLoader(c),
         next \in Reaching /\ record.mode # "command" => record.vault \notin DOMAIN kept[Of[c]]
  PROVE  Inv'
<1>1. /\ DOMAIN pc' = Call /\ DOMAIN job' = Call
      /\ pc'[c] = next /\ job'[c] = record
      /\ \A d \in Call \ {c} : pc'[d] = pc[d] /\ job'[d] = job[d]
  BY StepChanges DEF Inv
<1>2. Shape'
  BY <1>1 DEF Inv, Shape, Blank
<1>3. Places'
  BY <1>1 DEF Inv, Places
<1>4. OneUnlockAtATime'
  BY <1>1 DEF Inv, OneUnlockAtATime, InLoader
<1>5. NotKeptYet'
  BY <1>1 DEF Inv, NotKeptYet
<1> QED BY <1>2, <1>3, <1>4, <1>5 DEF Inv

(* A call that ends, or turns to its next reference, gives the mutex back. *)
LEMMA LetsGo ==
  ASSUME Inv, NEW c \in Call, NEW next \in {"idle", "token"}, NEW record,
         Step(c, next, record), Release(c), UNCHANGED kept,
         DOMAIN record = DOMAIN Blank, next = "token" => record.mode # "command"
  PROVE  Inv'
<1>1. /\ DOMAIN pc' = Call /\ DOMAIN job' = Call
      /\ pc'[c] = next /\ job'[c] = record
      /\ \A d \in Call \ {c} : pc'[d] = pc[d] /\ job'[d] = job[d]
  BY StepChanges DEF Inv
<1>2. /\ DOMAIN mutex' = Program
      /\ \A p \in Program : mutex'[p] = IF p = Of[c] /\ mutex[p] = c THEN NoCall ELSE mutex[p]
  BY CallsOfPrograms DEF Inv, Shape, Release
<1>3. Shape'
  BY <1>1, <1>2 DEF Inv, Shape, Blank
<1>4. Places'
  BY <1>1 DEF Inv, Places
<1>5. OneUnlockAtATime'
  <2> SUFFICES ASSUME NEW p \in Program, NEW d \in Call
               PROVE  mutex'[p] = d <=> Of[d] = p /\ InLoader(d)'
    BY DEF OneUnlockAtATime
  <2>1. CASE d = c
    BY <2>1, <1>1, <1>2, CallsOfPrograms DEF Inv, OneUnlockAtATime, InLoader
  <2>2. CASE d # c
    BY <2>2, <1>1, <1>2, CallsOfPrograms DEF Inv, OneUnlockAtATime, InLoader
  <2> QED BY <2>1, <2>2
<1>6. NotKeptYet'
  BY <1>1 DEF Inv, NotKeptYet, Reaching
<1> QED BY <1>3, <1>4, <1>5, <1>6 DEF Inv

LEMMA FailLetsGo ==
  ASSUME Inv, NEW c \in Call, Fail(c), UNCHANGED kept
  PROVE  Inv'
BY LetsGo, BlankFields DEF Fail

(* A retry prompts again, for the same vault. *)
LEMMA RetryKeepsInv ==
  ASSUME Inv, NEW c \in Call, pc[c] \in {"open", "unlock"}, Retry(c), UNCHANGED kept
  PROVE  Inv'
<1>1. CASE job[c].tries + 1 < Retries
  <2> DEFINE again == [job[c] EXCEPT !.tries = @ + 1, !.answers = <<>>]
  <2>1. Step(c, "prompt", again) /\ UNCHANGED mutex
    BY <1>1 DEF Retry, Continue
  <2>2. DOMAIN again = DOMAIN Blank /\ again.mode = job[c].mode /\ again.vault = job[c].vault
    BY BlankFields DEF Inv, Shape
  <2>3. InLoader(c)' <=> InLoader(c)
    <3> HIDE DEF again
    <3>1. pc'[c] = "prompt" /\ job'[c] = again
      BY <2>1, StepChanges DEF Inv
    <3> QED BY <2>2, <3>1 DEF InLoader
  <2>4. again.mode # "command" => again.vault \notin DOMAIN kept[Of[c]]
    BY <2>2 DEF Inv, NotKeptYet, Reaching
  <2> HIDE DEF again
  <2> QED BY <2>1, <2>2, <2>3, <2>4, GoesOn
<1>2. CASE ~(job[c].tries + 1 < Retries)
  BY <1>2, FailLetsGo DEF Retry
<1> QED BY <1>1, <1>2

(* Keep ends the reaching for a vault.  The mutex keeps other calls of the *)
(* Loader from reaching for the same one meanwhile.                        *)
LEMMA KeepKeepsInv ==
  ASSUME Inv, NEW c \in Call, pc[c] \in {"open", "unlock"}, job[c].mode # "command",
         NEW id, NEW file, Keep(c, id, file)
  PROVE  Inv'
<1> DEFINE record == Unlocked(c)
<1>1. Step(c, "get", record) /\ UNCHANGED mutex
  BY DEF Keep, Continue
<1>2. DOMAIN record = DOMAIN Blank /\ record.mode = job[c].mode
  BY BlankFields DEF Inv, Shape, Unlocked
<1> HIDE DEF record
<1>3. /\ DOMAIN pc' = Call /\ DOMAIN job' = Call
      /\ pc'[c] = "get" /\ job'[c] = record
      /\ \A d \in Call \ {c} : pc'[d] = pc[d] /\ job'[d] = job[d]
  BY <1>1, StepChanges DEF Inv
<1>4. /\ DOMAIN kept' = Program
      /\ \A p \in Program : p # Of[c] => kept'[p] = kept[p]
  BY DEF Keep, Inv, Shape
<1>5. Shape'
  BY <1>1, <1>2, <1>3, <1>4 DEF Inv, Shape, Blank
<1>6. Places'
  BY <1>2, <1>3 DEF Inv, Places
<1>7. OneUnlockAtATime'
  BY <1>1, <1>2, <1>3 DEF Inv, OneUnlockAtATime, InLoader
<1>8. NotKeptYet'
  <2> SUFFICES ASSUME NEW d \in Call, pc'[d] \in Reaching, job'[d].mode # "command"
               PROVE  job'[d].vault \notin DOMAIN kept'[Of[d]]
    BY DEF NotKeptYet
  <2>1. d # c
    BY <1>3 DEF Reaching
  <2>2. pc[d] \in Reaching /\ job'[d] = job[d]
    BY <2>1, <1>3
  <2>3. InLoader(d) /\ InLoader(c)
    BY <2>2 DEF InLoader, Reaching
  <2>4. Of[d] # Of[c]
    BY <2>1, <2>3, CallsOfPrograms DEF Inv, OneUnlockAtATime
  <2> QED BY <2>2, <2>4, <1>4, CallsOfPrograms DEF Inv, NotKeptYet
<1> QED BY <1>5, <1>6, <1>7, <1>8 DEF Inv

-----------------------------------------------------------------------------
(* The steps of the world. *)
LEMMA WorldKeepsInv ==
  ASSUME Inv, UNCHANGED <<mutex, pc>>, DOMAIN kept' = Program, DOMAIN job' = Call,
         \A c \in Call : /\ DOMAIN job'[c] = DOMAIN Blank
                        /\ job'[c].mode = job[c].mode /\ job'[c].vault = job[c].vault,
         \A p \in Program : DOMAIN kept'[p] \subseteq DOMAIN kept[p]
  PROVE  Inv'
<1>1. Shape'
  BY DEF Inv, Shape, Blank
<1>2. Places'
  BY DEF Inv, Places
<1>3. OneUnlockAtATime'
  BY DEF Inv, OneUnlockAtATime, InLoader
<1>4. NotKeptYet'
  BY CallsOfPrograms DEF Inv, NotKeptYet
<1> QED BY <1>1, <1>2, <1>3, <1>4 DEF Inv

LEMMA EditKeepsInv ==
  ASSUME Inv, NEW f, NEW content, Edit(f, content)
  PROVE  Inv'
BY WorldKeepsInv DEF Edit, calls, Inv, Shape

LEMMA AgentLeavesKeepsInv ==
  ASSUME Inv, NEW id, AgentLeaves(id)
  PROVE  Inv'
<1>1. DOMAIN kept' = Program /\ \A p \in Program : DOMAIN kept'[p] = DOMAIN kept[p]
  BY DEF AgentLeaves
<1>2. /\ DOMAIN job' = Call
      /\ \A c \in Call : /\ DOMAIN job'[c] = DOMAIN Blank
                        /\ job'[c].mode = job[c].mode /\ job'[c].vault = job[c].vault
  BY BlankFields DEF AgentLeaves, Inv, Shape
<1>3. UNCHANGED <<mutex, pc>>
  BY DEF AgentLeaves
<1> QED BY <1>1, <1>2, <1>3, WorldKeepsInv

LEMMA CloseKeepsInv ==
  ASSUME Inv, NEW p \in Program, Close(p)
  PROVE  Inv'
<1>1. DOMAIN kept' = Program /\ \A q \in Program : DOMAIN kept'[q] \subseteq DOMAIN kept[q]
  BY DEF Close, Inv, Shape
<1>2. UNCHANGED <<mutex, pc, job>>
  BY DEF Close, calls
<1> QED BY <1>1, <1>2, WorldKeepsInv DEF Inv, Shape

(* Nothing that the invariant speaks of. *)
LEMMA StutterKeepsInv ==
  ASSUME Inv, UNCHANGED vars
  PROVE  Inv'
BY WorldKeepsInv DEF vars, calls, Inv, Shape

-----------------------------------------------------------------------------
(* The steps of a call. *)
LEMMA StartKeepsInv ==
  ASSUME Inv, NEW c \in Call, Start(c)
  PROVE  Inv'
<1>1. UNCHANGED <<mutex, kept>> /\ pc[c] = "idle" /\ ~InLoader(c)
  BY DEF Start, InLoader
<1>2. ASSUME NEW refs \in Loads[c], NEW mode \in Modes[Of[c]] \ {"command"},
             Step(c, "token", [Blank EXCEPT !.mode = mode, !.todo = refs])
      PROVE  Inv'
  <2> DEFINE record == [Blank EXCEPT !.mode = mode, !.todo = refs]
  <2>1. DOMAIN record = DOMAIN Blank /\ record.mode # "command"
    BY <1>2, BlankFields
  <2> HIDE DEF record
  <2>2. Step(c, "token", record)
    BY <1>2 DEF record
  <2>3. ~InLoader(c)'
    BY <2>2, StepChanges DEF Inv, InLoader
  <2> QED BY <1>1, <2>1, <2>2, <2>3, GoesOn DEF Reaching
<1>3. ASSUME NEW name, Step(c, "select", [Blank EXCEPT !.mode = "command", !.vault = name])
      PROVE  Inv'
  <2> DEFINE record == [Blank EXCEPT !.mode = "command", !.vault = name]
  <2>1. DOMAIN record = DOMAIN Blank /\ record.mode = "command"
    BY BlankFields
  <2> HIDE DEF record
  <2>2. Step(c, "select", record)
    BY <1>3 DEF record
  <2>3. ~InLoader(c)'
    BY <2>2, StepChanges DEF Inv, InLoader
  <2> QED BY <1>1, <2>1, <2>2, <2>3, GoesOn DEF Reaching
<1> QED BY <1>2, <1>3 DEF Start

LEMMA AcquireKeepsInv ==
  ASSUME Inv, NEW c \in Call, Acquire(c)
  PROVE  Inv'
<1> DEFINE ref == ParseRef(Head(job[c].todo))
           record == [job[c] EXCEPT !.vault = ref.vault]
<1>1. UNCHANGED kept /\ pc[c] = "token" /\ job[c].mode # "command"
  BY DEF Acquire, Inv, Places
<1>2. CASE Fail(c)
  BY <1>1, <1>2, FailLetsGo
<1>3. CASE /\ mutex[Of[c]] = NoCall
           /\ mutex' = [mutex EXCEPT ![Of[c]] = c]
           /\ Step(c, "resolve", record)
  <2>1. DOMAIN record = DOMAIN Blank /\ record.mode = job[c].mode
    BY BlankFields DEF Inv, Shape
  <2> HIDE DEF record
  <2>2. /\ DOMAIN pc' = Call /\ DOMAIN job' = Call
        /\ pc'[c] = "resolve" /\ job'[c] = record
        /\ \A d \in Call \ {c} : pc'[d] = pc[d] /\ job'[d] = job[d]
    BY <1>3, StepChanges DEF Inv
  <2>3. Shape'
    BY <1>1, <1>3, <2>1, <2>2 DEF Inv, Shape, Blank
  <2>4. Places'
    BY <1>1, <2>1, <2>2 DEF Inv, Places
  <2>5. OneUnlockAtATime'
    <3>1. \A d \in Call : Of[d] = Of[c] => ~InLoader(d)
      BY <1>3, CallsOfPrograms DEF Inv, OneUnlockAtATime
    <3>2. \A d \in Call : InLoader(d)' <=> d = c \/ InLoader(d)
      BY <1>1, <2>1, <2>2 DEF InLoader
    <3>3. \A p \in Program : mutex'[p] = IF p = Of[c] THEN c ELSE mutex[p]
      BY <1>3 DEF Inv, Shape
    <3> QED BY <3>1, <3>2, <3>3, <1>3, CallsOfPrograms DEF Inv, OneUnlockAtATime
  <2>6. NotKeptYet'
    BY <1>1, <2>2 DEF Inv, NotKeptYet, Reaching
  <2> QED BY <2>3, <2>4, <2>5, <2>6 DEF Inv
<1> QED BY <1>2, <1>3 DEF Acquire

(* A call that moves on where no one but it looks at the Loader. *)
LEMMA MovesOn ==
  ASSUME Inv, NEW c \in Call, NEW next, NEW record, Continue(c, next, record), UNCHANGED kept,
         DOMAIN record = DOMAIN job[c],
         record.mode = job[c].mode,
         job[c].mode # "command" =>
           \/ pc[c] = "resolve" /\ next = "get"
           \/ /\ pc[c] \in Reaching \cup {"resolve"} /\ next \in Reaching
              /\ record.vault \notin DOMAIN kept[Of[c]],
         job[c].mode = "command" => next \notin {"token", "resolve", "open", "get"}
  PROVE  Inv'
<1>1. Step(c, next, record) /\ UNCHANGED mutex /\ DOMAIN record = DOMAIN Blank
  BY DEF Continue, Inv, Shape
<1>2. pc'[c] = next /\ job'[c] = record
  BY <1>1, StepChanges DEF Inv
<1>3. InLoader(c)' <=> InLoader(c)
  BY <1>2 DEF InLoader, Reaching
<1> QED BY <1>1, <1>3, GoesOn DEF Reaching

LEMMA ResolveKeepsInv ==
  ASSUME Inv, NEW c \in Call, Resolve(c)
  PROVE  Inv'
<1> DEFINE reg   == RegistryOf(Of[c])
           name  == EffectiveName(reg, job[c].vault)
           conf  == Conf(reg, name)
           named == [job[c] EXCEPT !.vault = name]
           asked == [named EXCEPT !.conf = conf, !.reqs = Credentials(conf)]
<1>1. UNCHANGED kept /\ pc[c] = "resolve" /\ job[c].mode # "command"
  BY DEF Resolve, Inv, Places
<1>2. /\ DOMAIN named = DOMAIN job[c] /\ named.mode = job[c].mode /\ named.vault = name
      /\ DOMAIN asked = DOMAIN job[c] /\ asked.mode = job[c].mode /\ asked.vault = name
  BY BlankFields DEF Inv, Shape
<1>3. \/ Fail(c)
      \/ name \in DOMAIN kept[Of[c]] /\ Continue(c, "get", named)
      \/ name \notin DOMAIN kept[Of[c]] /\ Continue(c, "proxy", named)
      \/ name \notin DOMAIN kept[Of[c]] /\ Continue(c, "prompt", asked)
  BY DEF Resolve, Has
<1> HIDE DEF reg, name, conf, named, asked
<1>4. CASE Fail(c)
  BY <1>1, <1>4, FailLetsGo
<1>5. CASE Continue(c, "get", named)
  BY <1>1, <1>2, <1>5, MovesOn
<1>6. CASE name \notin DOMAIN kept[Of[c]] /\ Continue(c, "proxy", named)
  BY <1>1, <1>2, <1>6, MovesOn DEF Reaching
<1>7. CASE name \notin DOMAIN kept[Of[c]] /\ Continue(c, "prompt", asked)
  BY <1>1, <1>2, <1>7, MovesOn DEF Reaching
<1> QED BY <1>3, <1>4, <1>5, <1>6, <1>7

(* One step of the way to a manager, with the same vault. *)
LEMMA ComesNearer ==
  ASSUME Inv, NEW c \in Call, pc[c] \in Reaching, NEW next \in Reaching, NEW record,
         Continue(c, next, record), UNCHANGED kept,
         DOMAIN record = DOMAIN job[c], record.mode = job[c].mode, record.vault = job[c].vault,
         next = "open" => job[c].mode # "command"
  PROVE  Inv'
<1>1. job[c].mode # "command" => record.vault \notin DOMAIN kept[Of[c]]
  BY DEF Inv, NotKeptYet
<1>2. job[c].mode = "command" => next \notin {"token", "resolve", "open", "get"}
  BY DEF Reaching
<1> QED BY <1>1, <1>2, MovesOn

LEMMA ProxyKeepsInv ==
  ASSUME Inv, NEW c \in Call, Proxy(c)
  PROVE  Inv'
<1> DEFINE record == [job[c] EXCEPT !.conf = Conf(RegistryOf(Of[c]), job[c].vault)]
<1>1. UNCHANGED kept /\ pc[c] = "proxy" /\ (Fail(c) \/ Continue(c, "declare", record))
  BY DEF Proxy
<1>2. DOMAIN record = DOMAIN job[c] /\ record.mode = job[c].mode /\ record.vault = job[c].vault
  BY BlankFields DEF Inv, Shape
<1> HIDE DEF record
<1> QED BY <1>1, <1>2, FailLetsGo, ComesNearer DEF Reaching

LEMMA DeclareKeepsInv ==
  ASSUME Inv, NEW c \in Call, Declare(c)
  PROVE  Inv'
<1> DEFINE record == [job[c] EXCEPT !.reqs = IF Running(Id(c)) THEN <<>> ELSE Credentials(job[c].conf)]
<1>1. UNCHANGED kept /\ pc[c] = "declare" /\ Continue(c, "prompt", record)
  BY DEF Declare
<1>2. DOMAIN record = DOMAIN job[c] /\ record.mode = job[c].mode /\ record.vault = job[c].vault
  BY BlankFields DEF Inv, Shape
<1> HIDE DEF record
<1> QED BY <1>1, <1>2, ComesNearer DEF Reaching

LEMMA PromptKeepsInv ==
  ASSUME Inv, NEW c \in Call, Prompt(c)
  PROVE  Inv'
<1>1. PICK result \in Dispatched(Of[c], job[c].reqs) :
        IF result.err # "none" THEN Fail(c)
        ELSE Continue(c, IF job[c].mode = "inprocess" THEN "open" ELSE "ensure",
                      [job[c] EXCEPT !.answers = result.answers])
  BY DEF Prompt
<1>2. UNCHANGED kept /\ pc[c] = "prompt"
  BY DEF Prompt
<1> DEFINE record == [job[c] EXCEPT !.answers = result.answers]
           next == IF job[c].mode = "inprocess" THEN "open" ELSE "ensure"
<1>3. DOMAIN record = DOMAIN job[c] /\ record.mode = job[c].mode /\ record.vault = job[c].vault
  BY BlankFields DEF Inv, Shape
<1>4. next \in Reaching /\ (next = "open" => job[c].mode # "command")
  BY DEF Reaching
<1>5. Fail(c) \/ Continue(c, next, record)
  BY <1>1
<1>6. pc[c] \in Reaching
  BY <1>2 DEF Reaching
<1> HIDE DEF record, next
<1> QED BY <1>2, <1>3, <1>4, <1>5, <1>6, FailLetsGo, ComesNearer

LEMMA OpenKeepsInv ==
  ASSUME Inv, NEW c \in Call, Open(c)
  PROVE  Inv'
<1>1. pc[c] = "open" /\ job[c].mode # "command"
  BY DEF Open, Inv, Places
<1>2. \/ \E file : Keep(c, Nothing, file)
      \/ Retry(c) /\ UNCHANGED kept
      \/ Fail(c) /\ UNCHANGED kept
  BY DEF Open
<1> QED BY <1>1, <1>2, KeepKeepsInv, RetryKeepsInv, FailLetsGo

LEMMA EnsureKeepsInv ==
  ASSUME Inv, NEW c \in Call, Ensure(c)
  PROVE  Inv'
<1>1. UNCHANGED kept /\ pc[c] = "ensure" /\ (Fail(c) \/ Continue(c, "unlock", job[c]))
  BY DEF Ensure
<1> QED BY <1>1, FailLetsGo, ComesNearer DEF Reaching

LEMMA UnlockKeepsInv ==
  ASSUME Inv, NEW c \in Call, Unlock(c)
  PROVE  Inv'
<1> DEFINE record == [Unlocked(c) EXCEPT !.link = Id(c)]
<1>1. pc[c] = "unlock"
  BY DEF Unlock
<1>2. \/ job[c].mode = "agent" /\ \E file : Keep(c, Id(c), file)
      \/ job[c].mode = "command" /\ Continue(c, "redial", record) /\ UNCHANGED kept
      \/ Retry(c) /\ UNCHANGED kept
      \/ Fail(c) /\ UNCHANGED kept
  BY DEF Unlock
<1>3. DOMAIN record = DOMAIN job[c] /\ record.mode = job[c].mode
  BY BlankFields DEF Unlocked, Inv, Shape
<1> HIDE DEF record
<1>4. CASE job[c].mode = "command" /\ Continue(c, "redial", record) /\ UNCHANGED kept
  BY <1>3, <1>4, MovesOn
<1>5. CASE job[c].mode = "agent" /\ \E file : Keep(c, Id(c), file)
  BY <1>1, <1>5, KeepKeepsInv
<1> QED BY <1>1, <1>2, <1>4, <1>5, RetryKeepsInv, FailLetsGo

LEMMA GetKeepsInv ==
  ASSUME Inv, NEW c \in Call, Get(c)
  PROVE  Inv'
<1> DEFINE record == [Blank EXCEPT !.mode = job[c].mode, !.todo = Tail(job[c].todo)]
<1>1. UNCHANGED kept /\ pc[c] = "get" /\ job[c].mode # "command"
  BY DEF Get, Inv, Places
<1>2. \/ Fail(c)
      \/ Release(c) /\ (Step(c, "idle", Blank) \/ Step(c, "token", record))
  BY DEF Get
<1>3. DOMAIN record = DOMAIN Blank /\ record.mode = job[c].mode
  BY BlankFields
<1> HIDE DEF record
<1> QED BY <1>1, <1>2, <1>3, FailLetsGo, LetsGo

LEMMA SelectKeepsInv ==
  ASSUME Inv, NEW c \in Call, Select(c)
  PROVE  Inv'
<1> DEFINE name  == EffectiveName(RegistryOf(Of[c]), job[c].vault)
           id    == Target(Of[c], name, Conf(RegistryOf(Of[c]), name))
           there == [job[c] EXCEPT !.vault = name, !.dial = id]
           found == [there EXCEPT !.link = id]
<1>1. UNCHANGED kept /\ pc[c] = "select" /\ job[c].mode = "command"
  BY DEF Select, Inv, Places
<1>2. Fail(c) \/ Continue(c, "read", found) \/ Continue(c, "proxy", there)
  BY DEF Select
<1>3. /\ DOMAIN there = DOMAIN job[c] /\ there.mode = job[c].mode
      /\ DOMAIN found = DOMAIN job[c] /\ found.mode = job[c].mode
  BY BlankFields DEF Inv, Shape
<1> HIDE DEF there, found
<1> QED BY <1>1, <1>2, <1>3, FailLetsGo, MovesOn

LEMMA RedialKeepsInv ==
  ASSUME Inv, NEW c \in Call, Redial(c)
  PROVE  Inv'
<1> DEFINE record == [job[c] EXCEPT !.link = job[c].dial]
<1>1. UNCHANGED kept /\ pc[c] = "redial" /\ job[c].mode = "command"
  BY DEF Redial, Inv, Places
<1>2. Fail(c) \/ Continue(c, "read", record)
  BY DEF Redial
<1>3. DOMAIN record = DOMAIN job[c] /\ record.mode = job[c].mode
  BY BlankFields DEF Inv, Shape
<1> HIDE DEF record
<1> QED BY <1>1, <1>2, <1>3, FailLetsGo, MovesOn

LEMMA ReadKeepsInv ==
  ASSUME Inv, NEW c \in Call, Read(c)
  PROVE  Inv'
<1>1. UNCHANGED kept /\ pc[c] = "read" /\ job[c].mode = "command"
  BY DEF Read, Inv, Places
<1>2. CASE Fail(c)
  BY <1>1, <1>2, FailLetsGo
<1>3. CASE Step(c, "idle", Blank) /\ UNCHANGED mutex
  <2>1. ~InLoader(c) /\ ~InLoader(c)'
    BY <1>1, <1>3, StepChanges DEF Inv, InLoader
  <2> QED BY <1>1, <1>3, <2>1, GoesOn DEF Reaching
<1> QED BY <1>2, <1>3 DEF Read

-----------------------------------------------------------------------------
LEMMA InvInit == Init => Inv
<1> SUFFICES ASSUME Init PROVE Inv
  OBVIOUS
<1>1. Shape
  BY DEF Init, Shape
<1>2. Places
  BY DEF Init, Places
<1>3. OneUnlockAtATime
  BY CallsOfPrograms DEF Init, OneUnlockAtATime, InLoader
<1>4. NotKeptYet
  BY DEF Init, NotKeptYet, Reaching
<1> QED BY <1>1, <1>2, <1>3, <1>4 DEF Inv

LEMMA InvStep == Inv /\ [Next]_vars => Inv'
<1> SUFFICES ASSUME Inv, [Next]_vars PROVE Inv'
  OBVIOUS
<1>1. ASSUME NEW c \in Call, Proceed(c) PROVE Inv'
  BY <1>1, ResolveKeepsInv, ProxyKeepsInv, DeclareKeepsInv, PromptKeepsInv, OpenKeepsInv,
     EnsureKeepsInv, UnlockKeepsInv, GetKeepsInv, SelectKeepsInv, RedialKeepsInv, ReadKeepsInv
  DEF Proceed
<1> QED BY <1>1, EditKeepsInv, AgentLeavesKeepsInv, CloseKeepsInv, StartKeepsInv,
           AcquireKeepsInv, StutterKeepsInv DEF Next

(* secret.go:67: a Loader's mutex is held by exactly the call that reaches *)
(* for a vault, and every way out of a call gives it back, for any number  *)
(* of programs, Loads, commands, vaults, retries and edits.                *)
THEOREM LoaderMutex == Spec => []OneUnlockAtATime
<1>1. Inv => OneUnlockAtATime
  BY DEF Inv
<1> QED BY InvInit, InvStep, <1>1, PTL DEF Spec

(* secret.go:51: no call of a Loader prompts for a vault that the Loader   *)
(* keeps open, whatever the calls beside it do.                            *)
THEOREM OnePromptPerVault == Spec => NeverAsksForAKeptVault
<1>1. Inv /\ [Next]_vars =>
        [\A c \in Call : pc[c] = "prompt" /\ pc'[c] # "prompt" /\ job[c].mode # "command" =>
           job[c].vault \notin DOMAIN kept[Of[c]]]_vars
  BY DEF Inv, NotKeptYet, Reaching
<1> QED BY InvInit, InvStep, <1>1, PTL DEF Spec, NeverAsksForAKeptVault
=============================================================================
