---------------------------- MODULE MCAgentService ----------------------------
(* Model checking AgentService: the clients differ in nothing.             *)
EXTENDS AgentService, TLC

Symmetry == Permutations(Clients)
=============================================================================
