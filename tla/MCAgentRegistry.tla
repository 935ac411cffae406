--------------------------- MODULE MCAgentRegistry ---------------------------
(***************************************************************************)
(* TLC instance of AgentRegistry: a limit, one path and resume_agent.  The *)
(* callers differ in nothing, so they are interchangeable.                 *)
(***************************************************************************)
EXTENDS AgentRegistry, TLC

CallerSymmetry == Permutations(Callers)
=============================================================================
