--------------------------- MODULE MCRolloutWriter ---------------------------
(***************************************************************************)
(* A TLC instance of RolloutWriter.                                        *)
(***************************************************************************)
EXTENDS RolloutWriter
=============================================================================
