------------------------- MODULE RequestSerialization -------------------------
(***************************************************************************)
(* How the app server runs the handlers of initialized JSON-RPC requests:  *)
(* the per-key queues of request_serialization.rs, the per-connection gate *)
(* of connection_rpc_gate.rs, the cleanup of a closed connection and the   *)
(* end of the processor loop (lib.rs, message_processor.rs).               *)
(*                                                                         *)
(* One processor loop dispatches requests.  A request with a serialization *)
(* scope is queued under its key; the enqueue that finds no queue for the  *)
(* key spawns the key's drain task.  A drain task is named here by the     *)
(* request whose enqueue spawned it, so that "at most one live drain task  *)
(* per key" is a claim and not a consequence of the representation.        *)
(***************************************************************************)
EXTENDS Naturals, Sequences, FiniteSets

CONSTANTS
    Requests,   \* the requests clients may send
    Conns,      \* the connections
    ConnOf,     \* the connection of a request
    ScopeOf,    \* its serialization scope, or NoScope
    NoScope,    \* serialization_scope() = None
    Starts,     \* requests whose handler inserts a connection-owned session
    Panics      \* requests whose handler panics

ScopeKinds == {"Global", "GlobalSharedRead", "Thread", "ThreadPath",
               "CommandExecProcess", "Process", "FuzzyFileSearchSession",
               "FsWatch", "McpOauth"}

ASSUME ConstantsAssumption ==
    /\ ConnOf \in [Requests -> Conns]
    /\ \A r \in Requests :
          ScopeOf[r] # NoScope => ScopeOf[r].kind \in ScopeKinds
    /\ Starts \subseteq Requests
    /\ Panics \subseteq Requests

Scoped == {r \in Requests : ScopeOf[r] # NoScope}

\* The key a scope maps to: three kinds are private to the connection, and
\* the two global scopes share a key.
from_scope(c, scope) ==
    CASE scope.kind \in {"CommandExecProcess", "Process", "FsWatch"} ->
            <<scope.kind, scope.name, {c}>>
      [] scope.kind = "GlobalSharedRead" -> <<"Global", scope.name, {}>>
      [] OTHER -> <<scope.kind, scope.name, {}>>

Key(r) == from_scope(ConnOf[r], ScopeOf[r])

Keys == {Key(r) : r \in Scoped}

SharedRead(r) == ScopeOf[r].kind = "GlobalSharedRead"

VARIABLES
    status,     \* where each request is
    hasQueue,   \* the keys present in the queues' map
    queue,      \* the requests waiting under each key
    drainer,    \* the drain task each request's enqueue spawned
    batch,      \* the requests a drain task has popped and is joining
    accepting,  \* each gate's accepting flag
    conn,       \* each connection, as the processor loop sees it
    timedOut,   \* connections whose drain timed out
    sessions,   \* connection-owned sessions, by the request that started them
    server,     \* the processor loop
    arrival     \* history: requests in the order they were dispatched

vars == <<status, hasQueue, queue, drainer, batch, accepting, conn, timedOut,
          sessions, server, arrival>>

Finished == {"done", "skipped", "dropped"}
LiveDrainer == {"loop", "join"}

TypeOK ==
    /\ status \in [Requests -> {"new", "queued", "popped", "running"} \cup Finished]
    /\ hasQueue \subseteq Keys
    /\ queue \in [Keys -> Seq(Requests)]
    /\ drainer \in [Requests -> {"none", "exited", "panicked"} \cup LiveDrainer]
    /\ batch \in [Requests -> SUBSET Requests]
    /\ accepting \in [Conns -> BOOLEAN]
    /\ conn \in [Conns -> {"open", "closing", "cleaned", "aborted"}]
    /\ timedOut \subseteq Conns
    /\ sessions \subseteq Starts
    /\ server \in {"serving", "draining", "stopped"}
    /\ arrival \in Seq(Requests)

Init ==
    /\ status = [r \in Requests |-> "new"]
    /\ hasQueue = {}
    /\ queue = [k \in Keys |-> <<>>]
    /\ drainer = [r \in Requests |-> "none"]
    /\ batch = [r \in Requests |-> {}]
    /\ accepting = [c \in Conns |-> TRUE]
    /\ conn = [c \in Conns |-> "open"]
    /\ timedOut = {}
    /\ sessions = {}
    /\ server = "serving"
    /\ arrival = <<>>

-----------------------------------------------------------------------------
(* The processor loop.                                                     *)

\* Mutant: a new request jumps the queue.
enqueueAtFront(r) ==
    LET k == Key(r) IN
    /\ status' = [status EXCEPT ![r] = "queued"]
    /\ queue' = [queue EXCEPT ![k] =
                    IF k \in hasQueue THEN <<r>> \o @ ELSE <<r>>]
    /\ hasQueue' = hasQueue \cup {k}
    /\ drainer' = [drainer EXCEPT ![r] =
                      IF k \in hasQueue THEN "none" ELSE "loop"]

\* RequestSerializationQueues::enqueue: push under the key, and spawn the
\* drain task when the key had no queue.
enqueue(r) ==
    LET k == Key(r) IN
    /\ status' = [status EXCEPT ![r] = "queued"]
    /\ queue' = [queue EXCEPT ![k] =
                    IF k \in hasQueue THEN Append(@, r) ELSE <<r>>]
    /\ hasQueue' = hasQueue \cup {k}
    /\ drainer' = [drainer EXCEPT ![r] =
                      IF k \in hasQueue THEN "none" ELSE "loop"]

\* dispatch_initialized_client_request, for a request of a connection the
\* loop still knows: queue it under its scope's key, or spawn it at once.
dispatch(r) ==
    /\ server = "serving"
    /\ conn[ConnOf[r]] = "open"
    /\ status[r] = "new"
    /\ arrival' = Append(arrival, r)
    /\ \/ /\ r \in Scoped
          /\ enqueue(r)
       \/ /\ r \notin Scoped
          /\ status' = [status EXCEPT ![r] = "popped"]
          /\ UNCHANGED <<hasQueue, queue, drainer>>
    /\ UNCHANGED <<batch, accepting, conn, timedOut, sessions, server>>

\* Mutant: the loop forgets the connection but leaves its gate open.
ConnectionClosedGateOpen(c) ==
    /\ server = "serving"
    /\ conn[c] = "open"
    /\ conn' = [conn EXCEPT ![c] = "closing"]
    /\ UNCHANGED <<status, hasQueue, queue, drainer, batch, accepting,
                   timedOut, sessions, server, arrival>>

\* TransportEvent::ConnectionClosed: forget the connection, close its gate
\* and spawn its cleanup task.
ConnectionClosed(c) ==
    /\ server = "serving"
    /\ conn[c] = "open"
    /\ conn' = [conn EXCEPT ![c] = "closing"]
    /\ accepting' = [accepting EXCEPT ![c] = FALSE]
    /\ UNCHANGED <<status, hasQueue, queue, drainer, batch, timedOut,
                   sessions, server, arrival>>

\* The loop ends in good order: every gate still in the table is shut down.
LoopEnds ==
    /\ server = "serving"
    /\ server' = "draining"
    /\ accepting' = [c \in Conns |-> FALSE]
    /\ UNCHANGED <<status, hasQueue, queue, drainer, batch, conn, timedOut,
                   sessions, arrival>>

\* A forced shutdown waits for nothing and aborts the cleanup tasks.
LoopForced ==
    /\ server = "serving"
    /\ server' = "stopped"
    /\ conn' = [c \in Conns |-> IF conn[c] = "closing" THEN "aborted" ELSE conn[c]]
    /\ UNCHANGED <<status, hasQueue, queue, drainer, batch, accepting,
                   timedOut, sessions, arrival>>

\* TaskTracker::wait: no handler of the connection still holds a token.
NoTokens(c) == \A r \in Requests : ConnOf[r] = c => status[r] # "running"

\* Mutant: the last wait is for the queues to empty, not for the tokens.
LoopDrainedQueues ==
    /\ server = "draining"
    /\ hasQueue = {}
    /\ server' = "stopped"
    /\ UNCHANGED <<status, hasQueue, queue, drainer, batch, accepting, conn,
                   timedOut, sessions, arrival>>

\* The last lines of the processor task: the open connections' gates are
\* drained, with no timeout, and then the cleanup tasks are joined.
LoopDrained ==
    /\ server = "draining"
    /\ \A c \in Conns : conn[c] = "open" => NoTokens(c)
    /\ \A c \in Conns : conn[c] # "closing"
    /\ server' = "stopped"
    /\ UNCHANGED <<status, hasQueue, queue, drainer, batch, accepting, conn,
                   timedOut, sessions, arrival>>

-----------------------------------------------------------------------------
(* A closed connection's cleanup task.                                     *)

\* connection_closed: after the drain, or CONNECTION_RPC_DRAIN_TIMEOUT, the
\* processors drop what the connection owns.
connection_closed(c) ==
    /\ conn[c] = "closing"
    /\ timedOut' = IF NoTokens(c) THEN timedOut ELSE timedOut \cup {c}
    /\ sessions' = {r \in sessions : ConnOf[r] # c}
    /\ conn' = [conn EXCEPT ![c] = "cleaned"]
    /\ UNCHANGED <<status, hasQueue, queue, drainer, batch, accepting,
                   server, arrival>>

-----------------------------------------------------------------------------
(* A drain task.                                                           *)

\* Mutant: a shared read takes everything behind it along.
IsBatchAnyTail(q, n) ==
    /\ n \in 1..Len(q)
    /\ IF SharedRead(q[1]) THEN n = Len(q) ELSE n = 1

\* n is the length of the batch popped from q: one exclusive request, or
\* the longest run of shared reads at its front.
IsBatch(q, n) ==
    /\ n \in 1..Len(q)
    /\ \/ ~SharedRead(q[1]) /\ n = 1
       \/ /\ \A i \in 1..n : SharedRead(q[i])
          /\ n < Len(q) => ~SharedRead(q[n + 1])

Front(q, n) == {q[i] : i \in 1..n}

\* One turn of drain's loop that finds requests: pop a batch, start joining.
drain(d) ==
    LET k == Key(d) IN
    /\ drainer[d] = "loop"
    /\ k \in hasQueue
    /\ \E n \in 1..Len(queue[k]) :
          /\ IsBatch(queue[k], n)
          /\ batch' = [batch EXCEPT ![d] = Front(queue[k], n)]
          /\ queue' = [queue EXCEPT ![k] = SubSeq(@, n + 1, Len(@))]
          /\ status' = [r \in Requests |->
                IF r \in Front(queue[k], n) THEN "popped" ELSE status[r]]
    /\ drainer' = [drainer EXCEPT ![d] = "join"]
    /\ UNCHANGED <<hasQueue, accepting, conn, timedOut, sessions, server, arrival>>

\* Mutant: the drain task returns and leaves the empty queue in the map.
drainExitKeepsKey(d) ==
    LET k == Key(d) IN
    /\ drainer[d] = "loop"
    /\ k \notin hasQueue \/ queue[k] = <<>>
    /\ drainer' = [drainer EXCEPT ![d] = "exited"]
    /\ UNCHANGED <<status, hasQueue, queue, batch, accepting, conn, timedOut,
                   sessions, server, arrival>>

\* The turn that finds the queue empty removes the key and returns.
drainExit(d) ==
    LET k == Key(d) IN
    /\ drainer[d] = "loop"
    /\ k \notin hasQueue \/ queue[k] = <<>>
    /\ hasQueue' = hasQueue \ {k}
    /\ drainer' = [drainer EXCEPT ![d] = "exited"]
    /\ UNCHANGED <<status, queue, batch, accepting, conn, timedOut, sessions,
                   server, arrival>>

\* join_all resolves when every member of the batch has.
joined(d) ==
    /\ drainer[d] = "join"
    /\ \A r \in batch[d] : status[r] \in Finished
    /\ drainer' = [drainer EXCEPT ![d] = "loop"]
    /\ batch' = [batch EXCEPT ![d] = {}]
    /\ UNCHANGED <<status, hasQueue, queue, accepting, conn, timedOut,
                   sessions, server, arrival>>

-----------------------------------------------------------------------------
(* A request's handler, behind its connection's gate.                      *)

\* Mutant: a handler that meets a closed gate waits for it to open.
runWaits(r) ==
    /\ status[r] = "popped"
    /\ accepting[ConnOf[r]]
    /\ status' = [status EXCEPT ![r] = "running"]
    /\ UNCHANGED <<hasQueue, queue, drainer, batch, accepting, conn, timedOut,
                   sessions, server, arrival>>

\* ConnectionRpcGate::run: a token is taken under the accepting lock, or
\* the handler never starts.
run(r) ==
    /\ status[r] = "popped"
    /\ status' = [status EXCEPT ![r] =
                     IF accepting[ConnOf[r]] THEN "running" ELSE "skipped"]
    /\ UNCHANGED <<hasQueue, queue, drainer, batch, accepting, conn, timedOut,
                   sessions, server, arrival>>

\* CommandExecManager::start inserts the session of a process it starts.
start(r) ==
    /\ status[r] = "running"
    /\ r \in Starts \ sessions
    /\ sessions' = sessions \cup {r}
    /\ UNCHANGED <<status, hasQueue, queue, drainer, batch, accepting, conn,
                   timedOut, server, arrival>>

\* The handler returns and drops its token.
finish(r) ==
    /\ status[r] = "running"
    /\ status' = [status EXCEPT ![r] = "done"]
    /\ UNCHANGED <<hasQueue, queue, drainer, batch, accepting, conn, timedOut,
                   sessions, server, arrival>>

\* A panic unwinds the task that polls the handler.  For a queued request
\* that is the drain task: its whole batch is dropped and the key stays in
\* the map with nobody to drain it.
panic(r) ==
    /\ r \in Panics
    /\ status[r] = "running"
    /\ \/ /\ r \notin Scoped
          /\ status' = [status EXCEPT ![r] = "dropped"]
          /\ UNCHANGED <<drainer, batch>>
       \/ \E d \in Requests :
             /\ drainer[d] = "join"
             /\ r \in batch[d]
             /\ status' = [s \in Requests |->
                   IF s \in batch[d] /\ status[s] \notin Finished
                   THEN "dropped" ELSE status[s]]
             /\ drainer' = [drainer EXCEPT ![d] = "panicked"]
             /\ batch' = [batch EXCEPT ![d] = {}]
    /\ UNCHANGED <<hasQueue, queue, accepting, conn, timedOut, sessions,
                   server, arrival>>

\* The task that runs a started process removes its session when it exits.
processExit(r) ==
    /\ r \in sessions
    /\ sessions' = sessions \ {r}
    /\ UNCHANGED <<status, hasQueue, queue, drainer, batch, accepting, conn,
                   timedOut, server, arrival>>

\* The processor task has exited and nothing is left to run.
Stopped ==
    /\ server = "stopped"
    /\ UNCHANGED vars

Next ==
    \/ \E r \in Requests :
          \/ dispatch(r) \/ run(r) \/ start(r) \/ finish(r) \/ panic(r)
          \/ drain(r) \/ drainExit(r) \/ joined(r) \/ processExit(r)
    \/ \E c \in Conns : ConnectionClosed(c) \/ connection_closed(c)
    \/ LoopEnds \/ LoopForced \/ LoopDrained \/ Stopped

\* Tokio polls every ready task.  Handlers are taken to return; nothing is
\* assumed of clients, of processes, of the loop's end or of panics.
Fairness ==
    /\ \A r \in Requests :
          /\ WF_vars(drain(r)) /\ WF_vars(drainExit(r)) /\ WF_vars(joined(r))
          /\ WF_vars(run(r)) /\ WF_vars(finish(r))
    /\ \A c \in Conns : WF_vars(connection_closed(c))
    /\ WF_vars(LoopDrained)

Spec == Init /\ [][Next]_vars

FairSpec == Spec /\ Fairness

-----------------------------------------------------------------------------
(* Properties.                                                             *)

Conflict(r, s) == Key(r) = Key(s) /\ ~(SharedRead(r) /\ SharedRead(s))

\* Two handlers whose requests have the same key run at the same time only
\* if both are shared reads: what request_serialization.rs is for.
ExclusiveAccess ==
    \A r, s \in Scoped :
        r # s /\ status[r] = "running" /\ status[s] = "running"
            => ~Conflict(r, s)

\* Conflicting requests take effect in the order the loop dispatched them: a
\* request has started, or been refused, only after every conflicting
\* request that arrived before it is finished (drain pops from the front and
\* joins the batch before it pops again).
FifoPerKey ==
    \A i, j \in DOMAIN arrival :
        LET r == arrival[i]
            s == arrival[j]
        IN  ( /\ i < j
              /\ r \in Scoped /\ s \in Scoped
              /\ Conflict(r, s)
              /\ status[s] \in {"popped", "running"} \cup Finished )
            => status[r] \in Finished

\* A key with waiting requests has a drain task that will look at it again
\* (enqueue spawns one only for a key that is not in the map), unless a
\* handler's panic took the task down.
NoStrandedQueue ==
    \A k \in Keys :
        queue[k] # <<>> =>
            \E d \in Scoped : Key(d) = k /\ drainer[d] \in LiveDrainer \cup {"panicked"}

\* Once a connection's cleanup has run without timing out, no handler of
\* that connection runs and no session it started is left (the gate's token
\* is taken under the same lock that closes it).
CleanupIsFinal ==
    \A c \in Conns :
        conn[c] = "cleaned" /\ c \notin timedOut =>
            /\ NoTokens(c)
            /\ \A r \in sessions : ConnOf[r] # c

\* Every queued request is finished in the end (run, refused by its closed
\* gate, or dropped), unless a panic killed the drain task of its key.
QueuedIsServed ==
    \A r \in Scoped :
        status[r] = "queued" ~>
            \/ status[r] \in Finished
            \/ \E d \in Scoped : Key(d) = Key(r) /\ drainer[d] = "panicked"

\* The processor task's last wait ends: the gates refuse new handlers, so
\* the tokens run out even while requests are still queued.
LoopStops == server = "draining" ~> server = "stopped"
=============================================================================
