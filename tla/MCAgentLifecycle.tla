-------------------------- MODULE MCAgentLifecycle --------------------------
(* Small instances of AgentLifecycle. *)
EXTENDS AgentLifecycle, TLC

Symmetry == Permutations(Agent) \cup Permutations(Program)
=============================================================================
