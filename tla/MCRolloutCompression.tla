------------------------- MODULE MCRolloutCompression -------------------------
(***************************************************************************)
(* A TLC instance of RolloutCompression.                                   *)
(***************************************************************************)
EXTENDS RolloutCompression
=============================================================================
