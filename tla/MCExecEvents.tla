---------------------------- MODULE MCExecEvents ----------------------------
(***************************************************************************)
(* A TLC instance of ExecEvents.                                           *)
(***************************************************************************)
EXTENDS ExecEvents
=============================================================================
