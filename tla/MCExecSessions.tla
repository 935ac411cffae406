--------------------------- MODULE MCExecSessions ---------------------------
(***************************************************************************)
(* A TLC instance of ExecSessions.                                         *)
(***************************************************************************)
EXTENDS ExecSessions
=============================================================================
