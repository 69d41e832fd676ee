--------------------------- MODULE MCAgentServer ----------------------------
(* Small instances of AgentServer. *)
EXTENDS AgentServer, TLC

(* Every request, the address without an entry standing for the malformed  *)
(* one: both get their error where the value would be read.                *)
ServerRequests == {r \in AnyRequest : r.arg # Malformed}

(* unlock holds both mutexes, status alone leaves the timer, lock shuts    *)
(* down; forwarded answers open the vault, fail to, or are missing.        *)
LiveRequests == {r \in AnyRequest : r.op \in {"unlock", "status", "lock"} /\ r.arg # Wrong}

Symmetry == Permutations(Conn) \cup Permutations(Val)
=============================================================================
