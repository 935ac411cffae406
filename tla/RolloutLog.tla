------------------------------ MODULE RolloutLog ------------------------------
(***************************************************************************)
(* What a rollout recorder promises its callers (RolloutRecorder in        *)
(* codex-rs/rollout/src/recorder.rs), without the channel, the buffer and  *)
(* the retries of the writer task that keeps the promise.                  *)
(*                                                                         *)
(* recorded is what callers handed over, the session meta first; log is    *)
(* what is in the file.  Items reach the log in order, once each.  A       *)
(* barrier that returns Ok found everything recorded before it in the log. *)
(* A write may stop half way and leave a fragment without its newline; the *)
(* line written next runs into it and cannot be read back.                 *)
(***************************************************************************)
EXTENDS Naturals, Sequences

CONSTANTS Callers, Items, Meta

VARIABLES
    recorded,  \* items handed over and not lost
    log,       \* lines of the file: an item, and whether it can be read back
    torn,      \* whether the file ends in a fragment
    barrier,   \* barriers that wait: how much of recorded they promise
    acked      \* the longest prefix of the log a barrier has promised

vars == <<recorded, log, torn, barrier, acked>>

NoBarrier == {}

Init ==
    /\ recorded = <<Meta>>
    /\ log = <<>>
    /\ torn = FALSE
    /\ barrier = [c \in Callers |-> NoBarrier]
    /\ acked = 0

Record(i) ==
    /\ recorded' = Append(recorded, i)
    /\ UNCHANGED <<log, torn, barrier, acked>>

\* persist() promises the meta as well; flush() and shutdown() create no file
\* that would hold nothing else.
Call(c, op) ==
    /\ barrier[c] = NoBarrier
    /\ barrier' = [barrier EXCEPT ![c] =
          {IF op # "persist" /\ Len(recorded) = 1 THEN 0 ELSE Len(recorded)}]
    /\ UNCHANGED <<recorded, log, torn, acked>>

Commit ==
    /\ Len(log) < Len(recorded)
    /\ log' = Append(log, [item |-> recorded[Len(log) + 1], ok |-> ~torn])
    /\ torn' = FALSE
    /\ UNCHANGED <<recorded, barrier, acked>>

Tear ==
    /\ torn' = TRUE
    /\ UNCHANGED <<recorded, log, barrier, acked>>

Acknowledge(c) ==
    /\ \E n \in barrier[c] : n <= Len(log) /\ acked' = IF n > acked THEN n ELSE acked
    /\ barrier' = [barrier EXCEPT ![c] = NoBarrier]
    /\ UNCHANGED <<recorded, log, torn>>

Refuse(c) ==
    /\ barrier[c] # NoBarrier
    /\ barrier' = [barrier EXCEPT ![c] = NoBarrier]
    /\ UNCHANGED <<recorded, log, torn, acked>>

\* The writer stops or the process dies: what is not in the log is gone, and
\* nobody waits any more.
Stop ==
    /\ recorded' = SubSeq(recorded, 1, Len(log))
    /\ barrier' = [c \in Callers |-> NoBarrier]
    /\ UNCHANGED <<log, torn, acked>>

Next ==
    \/ \E i \in Items : Record(i)
    \/ \E c \in Callers, op \in {"persist", "flush", "shutdown"} : Call(c, op)
    \/ Commit \/ Tear \/ Stop
    \/ \E c \in Callers : Acknowledge(c) \/ Refuse(c)

Spec == Init /\ [][Next]_vars
=============================================================================
