------------------------------ MODULE ExecEvents ------------------------------
(***************************************************************************)
(* A process on a remote exec-server, and the client that follows it       *)
(* through disconnects (codex-rs/exec-server/src: local_process.rs on the  *)
(* server, client.rs, client_recovery.rs and rpc.rs on the client).        *)
(*                                                                         *)
(* Two output tasks and an exit task of the server number the events of    *)
(* the process under the lock of the process map and send each as a        *)
(* notification after they have released it, so that notifications are     *)
(* out of order; a detached session has no connection to send them to.     *)
(* The client publishes events in the order of their numbers.  When its    *)
(* connection dies it opens another one, resumes the session and asks for  *)
(* the events it misses, of which the server retains only a window.        *)
(*                                                                         *)
(* One client, one session, one process.  A connection may go down at any  *)
(* time; what is sent on it from then on is lost, and either side notices  *)
(* in its own time: the client by its reader task (notice), the server by  *)
(* the end of run_connection (detach), which drops the handler of the      *)
(* request that it was at, the start of the process among them.            *)
(***************************************************************************)
EXTENDS Naturals, Sequences, FiniteSets

CONSTANTS
    Streams,    \* output streams of the process (stdout and stderr in the code)
    NConns,     \* bound: connections the client opens in all
    MaxOutput,  \* bound: chunks of output
    MaxEarly,   \* bound: chunks of output when the start is followed, too
    Retained    \* chunks the server retains (a number of bytes in the code)

ASSUME ExecConstants ==
    /\ IsFiniteSet(Streams) /\ "exit" \notin Streams
    /\ NConns \in Nat \ {0} /\ MaxOutput \in Nat /\ MaxEarly \in 0 .. MaxOutput /\ Retained \in Nat

Conns == 1 .. NConns
NULL == 0
Tasks == Streams \cup {"exit"}
Kinds == {"output", "exited", "closed"}

VARIABLES
    entry,    \* the process in LocalProcess.processes
    log,      \* the kinds of the events numbered so far; next_seq - 1 is its length
    output,   \* RunningProcess.output, the numbers of the retained chunks
    proc,     \* .exit_code.is_some(), .closed, .open_streams; whether the operating
              \* system has started it, and whether it was killed
    left,     \* chunks the process still writes
    task,     \* where each server task is, and the event it has to send
    sender,   \* the connection the session is attached to
    gone,     \* the session has expired
    up,       \* connections that are up
    dead,     \* connections whose client has read their end
    notes,    \* notifications a connection carries
    req,      \* the request it carries, or how far the handler of exec is
    reply,    \* the reply it carries
    opened,   \* connections opened so far
    readers,  \* connections whose reader task runs
    status,   \* ConnectionStatus
    conn,     \* the installed RpcClient
    ev,       \* OrderedSessionEvents
    published,\* ExecProcessEventLog: the kinds of the events published
    routed,   \* the session is in Inner.sessions
    start,    \* the task that starts the process
    asked,    \* the connection on which it has called terminate
    rec       \* the recovery task and its candidate connection

server == <<entry, log, output, proc, left, task, sender, gone>>
net == <<up, dead, notes, req, reply, opened, readers>>
session == <<ev, published, routed>>
starting == <<start, asked>>
client == <<status, conn, session, starting, rec>>
vars == <<server, net, client>>

Numbers == 1 .. MaxOutput + 2
Request(op) == [op |-> op]
Read(after) == [op |-> "read", after |-> after]
Reply(st) == [st |-> st]
Requests ==
    {Request(op) : op \in {"none", "exec", "spawned", "not spawned", "initialize", "terminate"}}
        \cup {Read(n) : n \in Numbers \cup {0}}
Replies ==
    {Reply(st) : st \in {"none", "ok", "failed", "unknown session", "attached", "unknown process"}}
        \cup [st : {"read"}, chunks : SUBSET Numbers, next_seq : 1 .. MaxOutput + 3,
              exited : BOOLEAN, closed : BOOLEAN]

TypeOK ==
    /\ entry \in {"none", "starting", "running", "removed"}
    /\ log \in Seq(Kinds) /\ Len(log) <= MaxOutput + 2
    /\ output \subseteq Numbers
    /\ proc \in [exited : BOOLEAN, closed : BOOLEAN, open_streams : 0 .. Cardinality(Streams),
                 spawned : BOOLEAN, killed : BOOLEAN]
    /\ left \in 0 .. MaxOutput
    /\ task \in [Tasks -> [pc : {"idle", "run", "notify", "closing", "done"},
                           seq : Numbers \cup {NULL}]]
    /\ sender \in Conns \cup {NULL} /\ gone \in BOOLEAN
    /\ up \subseteq Conns /\ readers \subseteq Conns /\ dead \subseteq 1 .. opened \ up
    /\ \A c \in Conns :
          /\ \A i \in 1 .. Len(notes[c]) : notes[c][i] \in Numbers
          /\ req[c] \in Requests /\ reply[c] \in Replies
    /\ opened \in Conns
    /\ status \in {"connected", "recovering", "failed"} /\ conn \in Conns
    /\ ev.last = Len(published)
    /\ \A n \in DOMAIN ev.pending : n > ev.last /\ n <= Len(log)
    /\ {ev.exit, ev.closed, ev.failed, routed} \subseteq BOOLEAN
    /\ start \in {"calling", "done", "cleanup", "terminating", "over"}
    /\ asked \in Conns \cup {NULL} /\ (start = "terminating" <=> asked # NULL)
    /\ rec \in [pc : {"idle", "starts", "connect", "initialize", "read", "terminate", "install"},
                conn : Conns \cup {NULL}]

\* The client has initialized its session on the first connection.  Either it
\* has sent the request that starts the process, or the process runs.
Init ==
    /\ \/ /\ start = "calling" /\ entry = "none" /\ left = MaxEarly
          /\ task = [t \in Tasks |-> [pc |-> "idle", seq |-> NULL]]
          /\ req = [c \in Conns |-> Request(IF c = 1 THEN "exec" ELSE "none")]
       \/ /\ start = "done" /\ entry = "running" /\ left = MaxOutput
          /\ task = [t \in Tasks |-> [pc |-> "run", seq |-> NULL]]
          /\ req = [c \in Conns |-> Request("none")]
    /\ log = <<>> /\ output = {}
    /\ proc = [exited |-> FALSE, closed |-> FALSE, open_streams |-> Cardinality(Streams),
               spawned |-> start = "done", killed |-> FALSE]
    /\ sender = 1 /\ gone = FALSE
    /\ up = {1} /\ dead = {} /\ notes = [c \in Conns |-> <<>>]
    /\ reply = [c \in Conns |-> Reply("none")]
    /\ opened = 1 /\ readers = {1}
    /\ status = "connected" /\ conn = 1
    /\ ev = [last |-> 0, exit |-> FALSE, closed |-> FALSE, pending |-> <<>>, failed |-> FALSE]
    /\ published = <<>> /\ routed = TRUE /\ asked = NULL
    /\ rec = [pc |-> "idle", conn |-> NULL]

-----------------------------------------------------------------------------
(* The server: the tasks of the process.                                   *)

Running == entry = "running"
next_seq == Len(log) + 1
At(t, pc) == task[t].pc = pc
Go(t, pc, seq) == task' = [task EXCEPT ![t] = [pc |-> pc, seq |-> seq]]

\* The retained chunks after one more: the oldest go.
Retain(chunks) ==
    {n \in chunks : Cardinality({m \in chunks : m >= n}) <= Retained}

stream_output(t) ==
    /\ At(t, "run") /\ Running
    /\ left > 0 /\ left' = left - 1
    /\ log' = Append(log, "output")
    /\ output' = Retain(output \cup {next_seq})
    /\ Go(t, "notify", next_seq)
    /\ UNCHANGED <<entry, proc, sender, gone, net, client>>

\* The stream ends, or its next chunk finds the process removed.
finish_output_stream(t) ==
    /\ At(t, "run")
    /\ proc' = IF Running THEN [proc EXCEPT !.open_streams = @ - 1] ELSE proc
    /\ Go(t, IF Running THEN "closing" ELSE "done", NULL)
    /\ UNCHANGED <<entry, log, output, sender, left, gone, net, client>>

watch_exit ==
    /\ At("exit", "run")
    /\ IF Running
       THEN /\ log' = Append(log, "exited")
            /\ proc' = [proc EXCEPT !.exited = TRUE]
            /\ Go("exit", "notify", next_seq)
       ELSE Go("exit", "done", NULL) /\ UNCHANGED <<log, proc>>
    /\ UNCHANGED <<entry, output, sender, left, gone, net, client>>

maybe_emit_closed(t) ==
    /\ At(t, "closing")
    /\ IF Running /\ ~proc.closed /\ proc.open_streams = 0 /\ proc.exited
       THEN /\ log' = Append(log, "closed")
            /\ proc' = [proc EXCEPT !.closed = TRUE]
            /\ Go(t, "notify", next_seq)
       ELSE Go(t, "done", NULL) /\ UNCHANGED <<log, proc>>
    /\ UNCHANGED <<entry, output, sender, left, gone, net, client>>

\* The tail of each of these tasks: read the sender, then send.
notify(t) ==
    /\ At(t, "notify")
    /\ notes' = IF sender \in up THEN [notes EXCEPT ![sender] = Append(@, task[t].seq)] ELSE notes
    /\ Go(t, CASE log[task[t].seq] = "output" -> "run"
               [] log[task[t].seq] = "exited" -> "closing"
               [] log[task[t].seq] = "closed" -> "done", NULL)
    /\ UNCHANGED <<entry, log, output, proc, sender, left, gone>>
    /\ UNCHANGED <<up, dead, req, reply, opened, readers, client>>

\* The task spawned by maybe_emit_closed: EXITED_PROCESS_RETENTION is over.
remove_closed ==
    /\ Running /\ proc.closed
    /\ entry' = "removed" /\ output' = {}
    /\ UNCHANGED <<log, proc, task, sender, left, gone, net, client>>

-----------------------------------------------------------------------------
(* The server: requests and the end of a connection.                       *)

exec_read(after) ==
    IF Running
    THEN [st |-> "read", chunks |-> {n \in output : n > after}, next_seq |-> next_seq,
          exited |-> proc.exited, closed |-> proc.closed]
    ELSE Reply("unknown process")

\* run_connection takes the next request; a reply goes nowhere when the
\* connection is down.
Answer(c, r) ==
    /\ req' = [req EXCEPT ![c] = Request("none")]
    /\ reply' = [reply EXCEPT ![c] = IF c \in up THEN r ELSE @]
    /\ UNCHANGED <<up, dead, notes, opened, readers, client>>

\* start_process up to the await after the spawn: the request is refused, or
\* the entry is Starting and the operating system starts the process or not.
exec(c) ==
    /\ req[c].op = "exec"
    /\ \/ /\ Answer(c, Reply("failed"))              \* it cannot be prepared
          /\ UNCHANGED <<entry, proc>>
       \/ \E started \in BOOLEAN :
             /\ entry' = "starting"
             /\ proc' = [proc EXCEPT !.spawned = started]
             /\ req' = [req EXCEPT ![c] = Request(IF started THEN "spawned" ELSE "not spawned")]
             /\ UNCHANGED <<up, dead, notes, reply, opened, readers, client>>
    /\ UNCHANGED <<log, output, task, sender, left, gone>>

\* The rest of it.  The entry is still the one it left: a connection handles
\* one request after the other, and no other one has the session before this
\* handler is gone.
start_process(c) ==
    /\ \/ /\ req[c].op = "spawned"
          /\ entry' = "running"
          /\ task' = [t \in Tasks |-> [pc |-> "run", seq |-> NULL]]
          /\ Answer(c, Reply("ok"))
       \/ /\ req[c].op = "not spawned"
          /\ entry' = "removed"
          /\ Answer(c, Reply("failed"))
          /\ UNCHANGED task
    /\ UNCHANGED <<log, output, proc, sender, left, gone>>

\* SessionRegistry::attach with a session to resume.
attach(c) ==
    /\ req[c].op = "initialize"
    /\ Answer(c, Reply(CASE gone -> "unknown session"
                           [] ~gone /\ sender # NULL -> "attached"
                           [] OTHER -> "ok"))
    /\ sender' = IF ~gone /\ sender = NULL THEN c ELSE sender
    /\ UNCHANGED <<entry, log, output, proc, task, left, gone>>

read(c) ==
    /\ req[c].op = "read"
    /\ Answer(c, exec_read(req[c].after))
    /\ UNCHANGED server

terminate_process(c) ==
    /\ req[c].op = "terminate"
    /\ proc' = [proc EXCEPT !.killed = @ \/ (Running /\ ~proc.exited)]
    /\ entry' = IF entry = "starting" THEN "removed" ELSE entry
    /\ Answer(c, Reply("ok"))
    /\ UNCHANGED <<log, output, task, sender, left, gone>>

\* The connection goes down: what is sent from here on is lost.
disconnect(c) ==
    /\ c \in up
    /\ up' = up \ {c}
    /\ UNCHANGED <<server, dead, notes, req, reply, opened, readers, client>>

\* The server's run_connection ends, without handling a request it has not
\* taken or whose handler the disconnect interrupts: ExecServerHandler::shutdown.
\* A handler that has spawned the process drops the handle, which kills it, and
\* leaves the entry Starting.
detach(c) ==
    /\ c \notin up
    /\ req[c].op # "none" \/ sender = c
    /\ req' = [req EXCEPT ![c] = Request("none")]
    /\ sender' = IF sender = c THEN NULL ELSE sender
    /\ proc' = [proc EXCEPT !.killed = @ \/ req[c].op = "spawned"]
    /\ UNCHANGED <<entry, log, output, task, left, gone>>
    /\ UNCHANGED <<up, dead, notes, reply, opened, readers, client>>

\* expire_if_detached: the session goes, and LocalProcess::shutdown drains its
\* processes and ends those that run.
expire ==
    /\ sender = NULL /\ ~gone
    /\ gone' = TRUE
    /\ entry' = "removed" /\ output' = {}
    /\ proc' = [proc EXCEPT !.killed = @ \/ Running]
    /\ UNCHANGED <<log, left, task, sender, net, client>>

-----------------------------------------------------------------------------
(* The client: OrderedSessionEvents.                                       *)

\* The longest run of pending events that starts after the last published one.
Ready(e) ==
    {n \in DOMAIN e.pending : n > e.last /\ \A m \in e.last + 1 .. n : m \in DOMAIN e.pending}

Without(f, gone_keys) == [n \in DOMAIN f \ gone_keys |-> f[n]]
With(f, n, kind) == IF n \in DOMAIN f THEN f ELSE [m \in DOMAIN f \cup {n} |-> IF m = n THEN kind ELSE f[m]]

publish_ready(e) ==
    [e EXCEPT !.last = @ + Cardinality(Ready(e)),
              !.exit = @ \/ \E n \in Ready(e) : e.pending[n] = "exited",
              !.closed = @ \/ \E n \in Ready(e) : e.pending[n] = "closed",
              !.pending = Without(@, Ready(e))]

\* What publish_ready(e) publishes.
Publishes(e) == [i \in 1 .. Cardinality(Ready(e)) |-> e.pending[e.last + i]]

\* Events e with their ready prefix published; the session loses its route
\* once Closed is out (remove_session_if).
Publish(e) ==
    /\ ev' = publish_ready(e)
    /\ published' = published \o Publishes(e)
    /\ routed' = (routed /\ ~ev'.closed)

set_failure(e) ==
    IF e.failed \/ e.closed THEN e ELSE [e EXCEPT !.failed = TRUE, !.pending = <<>>]

\* handle_server_notification and publish_ordered_event, in the reader of c.
handle_server_notification(c) ==
    /\ c \in readers
    /\ notes[c] # <<>>
    /\ notes' = [notes EXCEPT ![c] = Tail(@)]
    /\ LET n == Head(notes[c]) IN
       IF routed /\ ~ev.failed /\ ~ev.closed /\ n > ev.last
       THEN Publish([ev EXCEPT !.pending = With(@, n, log[n])])
       ELSE UNCHANGED session
    /\ UNCHANGED <<server, up, dead, req, reply, opened, readers>>
    /\ UNCHANGED <<status, conn, starting, rec>>

-----------------------------------------------------------------------------
(* The client: connections.                                                *)

\* The task of RpcClient::new reads the end of the connection: from here on
\* is_disconnected is true, and the calls that have no reply fail.  A candidate
\* that was dropped has no such task any more.
notice(c) ==
    /\ c \in readers \ (up \cup dead)
    /\ dead' = dead \cup {c}
    /\ UNCHANGED <<server, up, notes, req, reply, opened, readers, client>>

\* spawn_rpc_reader: the Disconnected event comes after all notifications;
\* request_recovery.
reader_ends(c) ==
    /\ c \in readers \cap dead
    /\ notes[c] = <<>>
    /\ readers' = readers \ {c}
    /\ IF status = "connected" /\ conn = c
       THEN status' = "recovering" /\ rec' = [pc |-> "starts", conn |-> NULL]
       ELSE UNCHANGED <<status, rec>>
    /\ UNCHANGED <<server, up, dead, notes, req, reply, opened>>
    /\ UNCHANGED <<conn, session, starting>>

Replied(c) == reply[c].st # "none"
Failed(c) == c \in dead /\ ~Replied(c)        \* the call returns Closed
Ask(c, r) ==
    /\ req' = [req EXCEPT ![c] = IF c \in up THEN r ELSE @]
    /\ reply' = [reply EXCEPT ![c] = Reply("none")]

\* The call that starts the process.  Its caller may have gone away.
start_process_returns ==
    /\ start = "calling"
    /\ \/ /\ reply[1].st = "ok"
          /\ start' \in {"done", "cleanup"}
          /\ UNCHANGED routed
       \/ /\ reply[1].st = "failed"
          /\ start' = "over" /\ routed' = FALSE
       \/ /\ Failed(1)
          /\ start' = "cleanup"
          /\ UNCHANGED routed
    /\ reply' = [reply EXCEPT ![1] = Reply("none")]
    /\ UNCHANGED <<server, up, dead, notes, req, opened, readers>>
    /\ UNCHANGED <<status, conn, ev, published, asked, rec>>

\* cleanup_process_start: terminate, through whatever connection is
\* installed, until it is answered or the client has failed.
cleanup_calls ==
    /\ start = "cleanup"
    /\ \/ /\ status = "connected" /\ conn \notin dead
          /\ Ask(conn, Request("terminate"))
          /\ start' = "terminating" /\ asked' = conn
          /\ UNCHANGED routed
       \/ /\ status = "failed"
          /\ start' = "over" /\ routed' = FALSE
          /\ UNCHANGED <<req, reply, asked>>
    /\ UNCHANGED <<server, up, dead, notes, opened, readers>>
    /\ UNCHANGED <<status, conn, ev, published, rec>>

\* Mutant: a call that fails ends the cleanup.
cleanup_returnsOnce ==
    /\ start = "terminating"
    /\ Replied(asked) \/ Failed(asked)
    /\ start' = "over" /\ routed' = FALSE
    /\ reply' = [reply EXCEPT ![asked] = Reply("none")] /\ asked' = NULL
    /\ UNCHANGED <<server, up, dead, notes, req, opened, readers>>
    /\ UNCHANGED <<status, conn, ev, published, rec>>

cleanup_returns ==
    /\ start = "terminating"
    /\ \/ Replied(asked) /\ start' = "over" /\ routed' = FALSE
       \/ Failed(asked) /\ start' = "cleanup" /\ UNCHANGED routed
    /\ reply' = [reply EXCEPT ![asked] = Reply("none")] /\ asked' = NULL
    /\ UNCHANGED <<server, up, dead, notes, req, opened, readers>>
    /\ UNCHANGED <<status, conn, ev, published, rec>>

-----------------------------------------------------------------------------
(* The client: recovery.                                                   *)

RecGo(pc, c) == rec' = [pc |-> pc, conn |-> c]

wait_for_process_starts ==
    /\ rec.pc = "starts"
    /\ start # "calling"
    /\ RecGo("connect", NULL)
    /\ UNCHANGED <<server, net, status, conn, session, starting>>

\* resume_once opens a connection and sends initialize.
resume_once ==
    /\ rec.pc = "connect"
    /\ opened < NConns
    /\ LET c == opened + 1 IN
       /\ opened' = c
       /\ up' = up \cup {c} /\ readers' = readers \cup {c}
       /\ req' = [req EXCEPT ![c] = Request("initialize")]
       /\ RecGo("initialize", c)
    /\ UNCHANGED <<server, dead, notes, reply, status, conn, session, starting>>

\* The candidate is dropped: its transport, its reader and what it carried.
Drop(c) ==
    /\ up' = up \ {c} /\ readers' = readers \ {c}
    /\ notes' = [notes EXCEPT ![c] = <<>>]
    /\ reply' = [reply EXCEPT ![c] = Reply("none")]
    /\ UNCHANGED <<dead, opened>>

\* A transport error or "already attached": the recovery loop tries again.
recovery_retries ==
    /\ rec.pc \in {"initialize", "read", "terminate", "install"}
    /\ \/ rec.pc # "install" /\ Failed(rec.conn)
       \/ rec.pc = "install" /\ rec.conn \in dead
       \/ rec.pc = "initialize" /\ reply[rec.conn].st = "attached"
    /\ Drop(rec.conn)
    /\ RecGo("connect", NULL)
    /\ UNCHANGED <<server, req, status, conn, session, starting>>

\* SessionState.recoverable: the call that starts the process has returned.
recoverable == start = "done"

\* recover_processes: nothing to recover, or the read for the session.
recover_processes ==
    /\ rec.pc = "initialize" /\ reply[rec.conn].st = "ok"
    /\ IF routed /\ recoverable
       THEN Ask(rec.conn, Read(ev.last)) /\ RecGo("read", rec.conn)
       ELSE /\ RecGo("install", rec.conn)
            /\ reply' = [reply EXCEPT ![rec.conn] = Reply("none")]
            /\ UNCHANGED req
    /\ UNCHANGED <<server, up, dead, notes, opened, readers>>
    /\ UNCHANGED <<status, conn, session, starting>>

\* The events of e with those of response r, up to target_seq.
Merge(e, r) ==
    LET target == r.next_seq - 1
        chunks == {n \in r.chunks : n > e.last}
        keys == DOMAIN e.pending \cup chunks \cup (IF r.closed THEN {target} ELSE {})
    IN  [e EXCEPT !.pending = [n \in keys |->
            IF n \in DOMAIN e.pending THEN e.pending[n]
            ELSE IF n \in chunks THEN "output" ELSE "closed"]]

Missing(e, target) == {n \in e.last + 1 .. target : n \notin DOMAIN e.pending}
first_missing_seq(e, target) ==
    CHOOSE n \in Missing(e, target) : \A m \in Missing(e, target) : n <= m

\* Mutant: the exit event is taken to be the one before the last.
recover_eventsGuess(e, r) ==
    LET target == r.next_seq - 1
        m == Merge(e, r)
        exit_known == m.exit \/ \E n \in DOMAIN m.pending : n <= target /\ m.pending[n] = "exited"
        missing == Missing(m, target)
    IN  IF e.failed \/ e.closed \/ target <= e.last THEN e
        ELSE IF r.exited /\ ~exit_known /\ missing # {}
        THEN [m EXCEPT !.pending = With(@, first_missing_seq(m, target), "exited")]
        ELSE IF missing = {} THEN m ELSE [gap |-> TRUE]

\* SessionState::recover_events: the events to publish, or an error.  The
\* exit event is not in the response: it is the one that is missing.
recover_events(e, r) ==
    LET target == r.next_seq - 1
        m == Merge(e, r)
        exit_known == m.exit \/ \E n \in DOMAIN m.pending : n <= target /\ m.pending[n] = "exited"
        missing == Missing(m, target)
    IN  IF e.failed \/ e.closed \/ target <= e.last THEN e
        ELSE IF r.exited /\ ~exit_known /\ Cardinality(missing) = 1
        THEN [m EXCEPT !.pending = With(@, first_missing_seq(m, target), "exited")]
        ELSE IF ~(r.exited /\ ~exit_known) /\ missing = {} THEN m
        ELSE [gap |-> TRUE]

\* The read returns; an error makes the client terminate the process.  By then
\* recover_events has merged what the response held.
recover_processes_reads ==
    /\ rec.pc = "read" /\ Replied(rec.conn)
    /\ LET r == reply[rec.conn]
           e == IF r.st # "read" THEN [gap |-> TRUE] ELSE recover_events(ev, r)
       IN  IF "gap" \in DOMAIN e
           THEN /\ Ask(rec.conn, Request("terminate")) /\ RecGo("terminate", rec.conn)
                /\ ev' = IF r.st = "read" THEN Merge(ev, r) ELSE ev
                /\ UNCHANGED <<published, routed>>
           ELSE /\ Publish(e)
                /\ RecGo("install", rec.conn)
                /\ reply' = [reply EXCEPT ![rec.conn] = Reply("none")]
                /\ UNCHANGED req
    /\ UNCHANGED <<server, up, dead, notes, opened, readers>>
    /\ UNCHANGED <<status, conn, starting>>

recover_processes_fails ==
    /\ rec.pc = "terminate" /\ Replied(rec.conn)
    /\ ev' = set_failure(ev) /\ routed' = FALSE
    /\ RecGo("install", rec.conn)
    /\ reply' = [reply EXCEPT ![rec.conn] = Reply("none")]
    /\ UNCHANGED <<server, up, dead, notes, req, opened, readers>>
    /\ UNCHANGED <<status, conn, published, starting>>

\* Mutant: the candidate is installed without asking whether it is still up.
install_recovered_clientBlind ==
    /\ rec.pc = "install"
    /\ status' = "connected" /\ conn' = rec.conn
    /\ RecGo("idle", NULL)
    /\ UNCHANGED <<server, net, session, starting>>

install_recovered_client ==
    /\ rec.pc = "install" /\ rec.conn \notin dead
    /\ status' = "connected" /\ conn' = rec.conn
    /\ RecGo("idle", NULL)
    /\ UNCHANGED <<server, net, session, starting>>

\* The deadline of the recovery, or an error that is not retried: fail,
\* fail_all_sessions.
fail ==
    /\ rec.pc # "idle"
    /\ status' = "failed"
    /\ IF routed THEN ev' = set_failure(ev) ELSE UNCHANGED ev
    /\ routed' = FALSE
    /\ RecGo("idle", NULL)
    /\ IF rec.conn = NULL THEN UNCHANGED net ELSE Drop(rec.conn) /\ UNCHANGED req
    /\ UNCHANGED <<server, conn, published, starting>>

-----------------------------------------------------------------------------

ServerStep ==
    \/ \E t \in Streams : stream_output(t) \/ finish_output_stream(t)
    \/ watch_exit
    \/ \E t \in Tasks : maybe_emit_closed(t) \/ notify(t)
    \/ \E c \in Conns : exec(c) \/ start_process(c) \/ attach(c) \/ read(c) \/ terminate_process(c) \/ detach(c)

ClientStep ==
    \/ \E c \in Conns : handle_server_notification(c) \/ notice(c) \/ reader_ends(c)
    \/ start_process_returns \/ cleanup_calls \/ cleanup_returns
    \/ wait_for_process_starts \/ resume_once \/ recovery_retries
    \/ recover_processes \/ recover_processes_reads \/ recover_processes_fails
    \/ install_recovered_client \/ fail

Next ==
    \/ ServerStep \/ ClientStep
    \/ remove_closed \/ expire
    \/ \E c \in Conns : disconnect(c)

\* The tasks that have a notification to send and the readers of the
\* connections do run, and a recovery that does not end meets its deadline.
\* Nothing else is assumed: not that connections last, that requests are
\* answered, that sessions expire or that the process ends.
Spec ==
    /\ Init /\ [][Next]_vars
    /\ \A t \in Tasks : WF_vars(notify(t))
    /\ \A c \in Conns : /\ WF_vars(handle_server_notification(c))
                        /\ WF_vars(notice(c)) /\ WF_vars(reader_ends(c))
    /\ WF_vars(fail)

-----------------------------------------------------------------------------
(* Properties.                                                             *)

\* What the client publishes is what happened, event by event from the first:
\* no reordering, no gap, no duplicate, and an exit event inferred from a
\* recovery read is at its true place (SessionState::publish_ordered_event,
\* recover_events).
PublishedIsLog ==
    /\ Len(published) <= Len(log)
    /\ \A i \in 1 .. Len(published) : published[i] = log[i]

\* A start that was given up leaves no process behind, also when the
\* connection died with the answer to the request or in the middle of the
\* spawn: as long as the client works, the operating system never started the
\* process and will not, or the process was killed or is over
\* (cleanup_process_start, start_process).
AbandonedIsKilled ==
    start = "over" /\ status # "failed" =>
        proc.killed \/ proc.exited \/ (~proc.spawned /\ \A c \in Conns : req[c].op # "exec")

\* Whoever follows a process hears of its end: once it has closed on the
\* server the client publishes Closed or reports a failure, whatever
\* connections were lost (recover, install_recovered_client).
EndIsHeard == (start = "done" /\ proc.closed) ~> (ev.closed \/ ev.failed)
=============================================================================
