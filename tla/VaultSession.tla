---------------------------- MODULE VaultSession ----------------------------
(***************************************************************************)
(* What a vault backend promises, with no lifecycle, prompts, phases or    *)
(* configuration: a vault file is created once, under one key, and from    *)
(* then on is only ever replaced, as a whole, by the view of a session     *)
(* that was opened on that very file.  VaultManager implements this.       *)
(***************************************************************************)
CONSTANTS Manager, Path, Addr, Val, Cred, NoVal, NoFile, Torn, NoView

VARIABLES
  store,    \* [Path -> image]: what is on disk
  view      \* [Manager -> session view]: what an open session reads

svars == <<store, view>>

Content == [Addr -> Val \cup {NoVal}]
Image   == [key : Cred, content : Content]
View    == [path : Path, key : Cred, content : Content]

SessionInit ==
  /\ store \in [Path -> {NoFile} \cup Image]
  /\ view = [m \in Manager |-> NoView]

(* The file appears under its name before it can be read. *)
Reserve(p) ==
  /\ store[p] = NoFile
  /\ store' = [store EXCEPT ![p] = Torn]
  /\ UNCHANGED view

(* The empty vault is written once, under the key of its creator. *)
Format(p, k) ==
  /\ store[p] = Torn
  /\ store' = [store EXCEPT ![p] = [key |-> k, content |-> [a \in Addr |-> NoVal]]]
  /\ UNCHANGED view

OpenSession(m, p) ==
  /\ view[m] = NoView
  /\ store[p] \notin {NoFile, Torn}
  /\ view' = [view EXCEPT ![m] =
                [path |-> p, key |-> store[p].key, content |-> store[p].content]]
  /\ UNCHANGED store

Write(m, a, v) ==
  /\ view[m] # NoView
  /\ view' = [view EXCEPT ![m].content[a] = v]
  /\ UNCHANGED store

Persist(m) ==
  /\ view[m] # NoView
  /\ store' = [store EXCEPT ![view[m].path] =
                 [key |-> view[m].key, content |-> view[m].content]]
  /\ UNCHANGED view

CloseSession(m) ==
  /\ view' = [view EXCEPT ![m] = NoView]
  /\ UNCHANGED store

SessionNext ==
  \/ \E p \in Path : Reserve(p) \/ \E k \in Cred : Format(p, k)
  \/ \E m \in Manager :
       \/ \E p \in Path : OpenSession(m, p)
       \/ \E a \in Addr, v \in Val : Write(m, a, v)
       \/ Persist(m)
       \/ CloseSession(m)

SessionSpec == SessionInit /\ [][SessionNext]_svars
=============================================================================
