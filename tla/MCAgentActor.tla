---------------------------- MODULE MCAgentActor ----------------------------
(* Model-checking instances of AgentActor. *)
EXTENDS AgentActor, TLC

CallerSymmetry == Permutations(Callers)
=============================================================================
