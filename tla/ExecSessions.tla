----------------------------- MODULE ExecSessions -----------------------------
(***************************************************************************)
(* The exec-server's sessions (codex-rs/exec-server/src: server/           *)
(* session_registry.rs, handler.rs and processor.rs, local_process.rs, and *)
(* Session::write of client.rs).                                           *)
(*                                                                         *)
(* A session owns the processes started in it and outlives its connection: *)
(* when the connection ends the session is detached, and it goes when its  *)
(* grace period is over, unless another connection has resumed it.  Each   *)
(* detached connection leaves a timer behind, which looks at the session   *)
(* again when it fires.                                                    *)
(*                                                                         *)
(* A connection handles one request at a time; when its transport is down  *)
(* the handler of the current request is dropped at whatever await it has  *)
(* reached.  The client retries a write it has no answer to under the same *)
(* id on the next connection.  One process id per session is modelled.     *)
(***************************************************************************)
EXTENDS Naturals, Sequences, SequencesExt

CONSTANTS
    Conns,      \* connections, each used once
    Sessions,   \* session ids, each used once
    NULL,
    MaxWrites,  \* bound: writes of a session's client
    Retained    \* RETAINED_STDIN_WRITE_IDS_PER_PROCESS

ASSUME SessionConstants ==
    /\ NULL \notin Conns \cup Sessions
    /\ MaxWrites \in Nat /\ Retained \in Nat \ {0}

VARIABLES
    sessions,  \* SessionRegistry.sessions
    used,      \* session ids given out
    att,       \* AttachmentState; due: the deadline has passed
    sender,    \* LocalProcess.inner.notifications
    timers,    \* spawned expire_if_detached tasks
    conn,      \* connections: ExecServerHandler and where run_connection is
    proc,      \* LocalProcess.processes: the process, its accepted write ids, its stdin
    next       \* the write the client of the session is at

registry == <<sessions, used, att, sender, timers>>
vars == <<registry, conn, proc, next>>

Writes == 1 .. MaxWrites

TypeOK ==
    /\ sessions \subseteq used /\ used \subseteq Sessions
    /\ att \in [Sessions -> [current : Conns \cup {NULL}, detached : Conns \cup {NULL}, due : BOOLEAN]]
    /\ \A s \in Sessions : att[s].current = NULL \/ (att[s].detached = NULL /\ ~att[s].due)
    /\ sender \in [Sessions -> Conns \cup {NULL}]
    /\ timers \subseteq Sessions \X Conns
    /\ conn \in [Conns -> [pc : {"new", "ready", "expired", "starting", "reserving", "ended"},
                           up : BOOLEAN, session : Sessions \cup {NULL}, about : Sessions \cup {NULL},
                           initialized : BOOLEAN, ack : Writes \cup {0}]]
    /\ \A s \in Sessions :
          /\ proc[s].st \in {"none", "starting", "running", "exited"}
          /\ proc[s].by \in Conns \cup {NULL}
          /\ proc[s].ids \in Seq(Writes) /\ Len(proc[s].ids) <= Retained
          /\ proc[s].stdin \in Seq(Writes)
    /\ next \in [Sessions -> 1 .. MaxWrites + 1]

NoProcess == [st |-> "none", by |-> NULL, ids |-> <<>>, stdin |-> <<>>]

Init ==
    /\ sessions = {} /\ used = {} /\ timers = {}
    /\ att = [s \in Sessions |-> [current |-> NULL, detached |-> NULL, due |-> FALSE]]
    /\ sender = [s \in Sessions |-> NULL]
    /\ conn = [c \in Conns |-> [pc |-> "new", up |-> FALSE, session |-> NULL, about |-> NULL,
                                initialized |-> FALSE, ack |-> 0]]
    /\ proc = [s \in Sessions |-> NoProcess]
    /\ next = [s \in Sessions |-> 1]

-----------------------------------------------------------------------------
(* Connections and sessions.                                               *)

Goes(c, pc) == conn' = [conn EXCEPT ![c].pc = pc]
Ready(c) == conn[c].pc = "ready"

open(c) ==
    /\ conn[c].pc = "new"
    /\ conn' = [conn EXCEPT ![c].pc = "ready", ![c].up = TRUE]
    /\ UNCHANGED <<registry, proc, next>>

attach(s, c) ==
    /\ att' = [att EXCEPT ![s] = [current |-> c, detached |-> NULL, due |-> FALSE]]
    /\ sender' = [sender EXCEPT ![s] = c]
    /\ conn' = [conn EXCEPT ![c].session = s]

\* initialize without a session to resume.
initialize_new(c) ==
    /\ Ready(c) /\ conn[c].session = NULL
    /\ \E s \in Sessions \ used :
          /\ used' = used \cup {s} /\ sessions' = sessions \cup {s}
          /\ attach(s, c)
    /\ UNCHANGED <<timers, proc, next>>

is_expired(s) == att[s].due
has_active_connection(s) == att[s].current # NULL

\* Mutant: a session that has a connection is resumed all the same.
initialize_resumeSteals(c) ==
    /\ Ready(c) /\ conn[c].session = NULL
    /\ \E s \in sessions :
          \/ /\ is_expired(s)
             /\ sessions' = sessions \ {s}
             /\ conn' = [conn EXCEPT ![c].pc = "expired", ![c].about = s]
             /\ UNCHANGED <<att, sender>>
          \/ /\ ~is_expired(s)
             /\ attach(s, c)
             /\ UNCHANGED sessions
    /\ UNCHANGED <<used, timers, proc, next>>

\* initialize with a session to resume; a session that is unknown or has a
\* connection is refused without effect.
initialize_resume(c) ==
    /\ Ready(c) /\ conn[c].session = NULL
    /\ \E s \in sessions :
          \/ /\ is_expired(s)
             /\ sessions' = sessions \ {s}
             /\ conn' = [conn EXCEPT ![c].pc = "expired", ![c].about = s]
             /\ UNCHANGED <<att, sender>>
          \/ /\ ~is_expired(s) /\ ~has_active_connection(s)
             /\ attach(s, c)
             /\ UNCHANGED sessions
    /\ UNCHANGED <<used, timers, proc, next>>

\* LocalProcess::shutdown in the Expired branch of attach.
expired_shutdown(c) ==
    /\ conn[c].pc = "expired"
    /\ proc' = [proc EXCEPT ![conn[c].about] = NoProcess]
    /\ conn' = [conn EXCEPT ![c].pc = "ready", ![c].about = NULL]
    /\ UNCHANGED <<registry, next>>

initialized(c) ==
    /\ Ready(c) /\ conn[c].session # NULL /\ ~conn[c].initialized
    /\ conn' = [conn EXCEPT ![c].initialized = TRUE]
    /\ UNCHANGED <<registry, proc, next>>

\* The transport fails, or the client closes it, or the server does after a
\* protocol error.  An answer that the client has not read is lost.
disconnect(c) ==
    /\ conn[c].up
    /\ conn' = [conn EXCEPT ![c].up = FALSE, ![c].ack = 0]
    /\ UNCHANGED <<registry, proc, next>>

\* Mutant: no timer is left behind.
detachForgets(c) ==
    /\ ~conn[c].up /\ conn[c].pc \notin {"new", "ended"}
    /\ Goes(c, "ended")
    /\ LET s == conn[c].session IN
       IF s # NULL /\ att[s].current = c
       THEN /\ att' = [att EXCEPT ![s] = [current |-> NULL, detached |-> c, due |-> FALSE]]
            /\ sender' = [sender EXCEPT ![s] = NULL]
       ELSE UNCHANGED <<att, sender>>
    /\ UNCHANGED <<sessions, used, timers, proc, next>>

\* run_connection ends and drops the handler of the current request;
\* ExecServerHandler::shutdown, SessionHandle::detach.
detach(c) ==
    /\ ~conn[c].up /\ conn[c].pc \notin {"new", "ended"}
    /\ Goes(c, "ended")
    /\ LET s == conn[c].session IN
       IF s # NULL /\ att[s].current = c
       THEN /\ att' = [att EXCEPT ![s] = [current |-> NULL, detached |-> c, due |-> FALSE]]
            /\ sender' = [sender EXCEPT ![s] = NULL]
            /\ timers' = timers \cup {<<s, c>>}
       ELSE UNCHANGED <<att, sender, timers>>
    /\ UNCHANGED <<sessions, used, proc, next>>

\* detached_expires_at passes.
grace_ends(s) ==
    /\ s \in sessions
    /\ att[s].detached # NULL /\ ~att[s].due
    /\ att' = [att EXCEPT ![s].due = TRUE]
    /\ UNCHANGED <<sessions, used, sender, timers, conn, proc, next>>

is_detached_connection_expired(s, c) ==
    att[s].current = NULL /\ att[s].detached = c /\ att[s].due

\* Mutant: any detached session goes, whoever detached it and when.
expire_if_detachedAny(s, c) ==
    /\ <<s, c>> \in timers
    /\ att[s].detached = c => att[s].due
    /\ timers' = timers \ {<<s, c>>}
    /\ IF s \in sessions /\ att[s].current = NULL
       THEN sessions' = sessions \ {s} /\ proc' = [proc EXCEPT ![s] = NoProcess]
       ELSE UNCHANGED <<sessions, proc>>
    /\ UNCHANGED <<used, att, sender, conn, next>>

\* The timer of c fires.  It slept for the whole grace period, so the
\* deadline of its own detachment has passed.
expire_if_detached(s, c) ==
    /\ <<s, c>> \in timers
    /\ att[s].detached = c => att[s].due
    /\ timers' = timers \ {<<s, c>>}
    /\ IF s \in sessions /\ is_detached_connection_expired(s, c)
       THEN sessions' = sessions \ {s} /\ proc' = [proc EXCEPT ![s] = NoProcess]
       ELSE UNCHANGED <<sessions, proc>>
    /\ UNCHANGED <<used, att, sender, conn, next>>

-----------------------------------------------------------------------------
(* Requests about the process.                                             *)

\* require_initialized_for
Serves(c, s) ==
    /\ Ready(c)
    /\ conn[c].session = s /\ s # NULL
    /\ att[s].current = c
    /\ conn[c].initialized

\* start_process up to the lock it takes after the spawn; a process id that
\* is in use is refused.
start_process(c) ==
    \E s \in Sessions :
        /\ Serves(c, s)
        /\ proc[s].st = "none"
        /\ proc' = [proc EXCEPT ![s] = [NoProcess EXCEPT !.st = "starting", !.by = c]]
        /\ Goes(c, "starting")
        /\ UNCHANGED <<registry, next>>

\* The rest of it: the process is entered, or could not be spawned, or its
\* start was cancelled and it is terminated.  The client numbers the writes
\* of a new process from the start.
process_started(c) ==
    /\ conn[c].pc = "starting"
    /\ LET s == conn[c].session IN
       IF proc[s].st = "starting" /\ proc[s].by = c
       THEN \/ proc' = [proc EXCEPT ![s].st = "running"] /\ next' = [next EXCEPT ![s] = 1]
            \/ proc' = [proc EXCEPT ![s] = NoProcess] /\ UNCHANGED next
       ELSE UNCHANGED <<proc, next>>
    /\ Goes(c, "ready")
    /\ UNCHANGED registry

\* terminate_process: a running process ends in its own time.
terminate_process(c) ==
    \E s \in Sessions :
        /\ Serves(c, s)
        /\ proc[s].st = "starting"
        /\ proc' = [proc EXCEPT ![s] = NoProcess]
        /\ UNCHANGED <<registry, conn, next>>

process_exits(s) ==
    /\ proc[s].st = "running"
    /\ proc' = [proc EXCEPT ![s].st = "exited"]
    /\ UNCHANGED <<registry, conn, next>>

\* EXITED_PROCESS_RETENTION is over.
remove_closed(s) ==
    /\ proc[s].st = "exited"
    /\ proc' = [proc EXCEPT ![s] = NoProcess]
    /\ UNCHANGED <<registry, conn, next>>

Accepted(c, w) == conn' = [conn EXCEPT ![c].pc = "ready", ![c].ack = w]

\* The client has given up on its write or heard that it was accepted.
Moves(s) == next' = [next EXCEPT ![s] = @ + 1]

\* exec_write up to the permit.  The client sends its current write, unless
\* the answer to it is on its way.
exec_write(c) ==
    \E s \in Sessions :
        /\ Serves(c, s)
        /\ next[s] \in Writes /\ conn[c].ack = 0
        /\ \/ /\ proc[s].st \in {"none", "starting"}
              /\ Moves(s) /\ UNCHANGED conn
           \/ /\ proc[s].st \in {"running", "exited"}
              /\ IF Contains(proc[s].ids, next[s]) THEN Accepted(c, next[s]) ELSE Goes(c, "reserving")
              /\ UNCHANGED next
        /\ UNCHANGED <<registry, proc>>

\* AcceptedStdinWriteIds::remember
remember(ids, w) ==
    LET all == Append(ids, w)
    IN  IF Len(all) > Retained THEN Tail(all) ELSE all

\* Mutant: the handler may be dropped between the send and the record of the id.
exec_write_sendsFirst(c) ==
    /\ conn[c].pc = "reserving"
    /\ LET s == conn[c].session
           w == next[s]
       IN  \/ /\ proc[s].st \in {"running", "exited"}
              /\ \/ proc' = [proc EXCEPT ![s].stdin = Append(@, w)] /\ UNCHANGED conn
                 \/ /\ proc' = [proc EXCEPT ![s].stdin = Append(@, w), ![s].ids = remember(@, w)]
                    /\ Accepted(c, w)
              /\ UNCHANGED next
           \/ /\ proc[s].st # "running"
              /\ Goes(c, "ready") /\ Moves(s) /\ UNCHANGED proc
    /\ UNCHANGED registry

\* exec_write from the permit on: the bytes are sent and the id recorded
\* without an await in between.  The channel of a process that has ended may
\* be closed.
exec_write_sends(c) ==
    /\ conn[c].pc = "reserving"
    /\ LET s == conn[c].session
           w == next[s]
       IN  \/ /\ proc[s].st \in {"running", "exited"}
              /\ proc' = IF Contains(proc[s].ids, w) THEN proc
                         ELSE [proc EXCEPT ![s].stdin = Append(@, w), ![s].ids = remember(@, w)]
              /\ Accepted(c, w) /\ UNCHANGED next
           \/ /\ proc[s].st # "running"
              /\ Goes(c, "ready") /\ Moves(s) /\ UNCHANGED proc
    /\ UNCHANGED registry

\* Session::write reads the answer.
write_returns(c) ==
    /\ conn[c].up /\ conn[c].ack # 0
    /\ conn' = [conn EXCEPT ![c].ack = 0]
    /\ Moves(conn[c].session)
    /\ UNCHANGED <<registry, proc>>

-----------------------------------------------------------------------------

Next ==
    \/ \E c \in Conns :
          \/ open(c) \/ initialize_new(c) \/ initialize_resume(c) \/ expired_shutdown(c)
          \/ initialized(c) \/ disconnect(c) \/ detach(c)
          \/ start_process(c) \/ process_started(c) \/ terminate_process(c)
          \/ exec_write(c) \/ exec_write_sends(c) \/ write_returns(c)
          \/ \E s \in Sessions : expire_if_detached(s, c)
    \/ \E s \in Sessions : grace_ends(s) \/ process_exits(s) \/ remove_closed(s)

\* Time passes, and a timer that is due runs.
Spec ==
    /\ Init /\ [][Next]_vars
    /\ \A s \in Sessions : WF_vars(grace_ends(s))
    /\ \A s \in Sessions, c \in Conns : WF_vars(expire_if_detached(s, c))

-----------------------------------------------------------------------------
(* Properties.                                                             *)

\* A connection that has initialized keeps its session until it ends: no
\* timer of an earlier connection and no other connection takes the session,
\* or its notifications, away from it (SessionRegistry::attach, detach,
\* expire_if_detached).
AttachedIsKept ==
    \A c \in Conns : LET s == conn[c].session IN
        s # NULL /\ conn[c].pc # "ended" =>
            s \in sessions /\ att[s].current = c /\ sender[s] = c

\* A session goes only when it has no connection and the grace period of its
\* last detachment is over; the timer of an earlier one does not cut it short.
GraceIsKept ==
    [][\A s \in sessions : s \notin sessions' => att[s].current = NULL /\ att[s].due]_vars

\* The bytes of a write reach the process once and in order, whatever
\* connections are lost between a write and its answer (exec_write: "record the
\* write id before any further await").
WrittenOnce ==
    \A s \in Sessions : \A i, j \in 1 .. Len(proc[s].stdin) :
        i < j => proc[s].stdin[i] < proc[s].stdin[j]

\* A session nobody resumes is removed.
DetachedGoes ==
    \A s \in Sessions :
        (s \in sessions /\ att[s].current = NULL) ~> (s \notin sessions \/ att[s].current # NULL)
=============================================================================
