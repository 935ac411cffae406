-------------------------- MODULE MCAgentResidency --------------------------
(***************************************************************************)
(* Instances of AgentResidency for TLC.  The calls differ in nothing and   *)
(* neither do the agents: an instance in which only invariants are checked *)
(* may take them as interchangeable.                                       *)
(***************************************************************************)
EXTENDS AgentResidency, TLC

CallAndAgentSymmetry == Permutations(ToolCalls) \cup Permutations(SubAgents)
=============================================================================
