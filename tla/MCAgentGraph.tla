---------------------------- MODULE MCAgentGraph ----------------------------
(* AgentGraph on small instances. *)
EXTENDS AgentGraph, TLC

\* Fresh identities are interchangeable.
AgentSymmetry == Permutations(Agent)
=============================================================================
