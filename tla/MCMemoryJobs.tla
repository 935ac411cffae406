---------------------------- MODULE MCMemoryJobs ----------------------------
(***************************************************************************)
(* TLC instance of MemoryJobs: two processes that start again and again.   *)
(***************************************************************************)
EXTENDS MemoryJobs

(* Bound: in a behaviour with a reset nothing else disturbs the pipelines. *)
ResetAlone == resets > 0 => events <= 1
=============================================================================
