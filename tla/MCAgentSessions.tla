-------------------------- MODULE MCAgentSessions --------------------------
(* A small instance of AgentSessions: two calls at once. *)
EXTENDS AgentSessions, TLC

CallSymmetry == Permutations(Calls)
=============================================================================
