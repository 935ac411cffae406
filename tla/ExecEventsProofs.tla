--------------------------- MODULE ExecEventsProofs ---------------------------
(***************************************************************************)
(* ExecEvents holds for any number of streams, connections and chunks of   *)
(* output and any retention.                                               *)
(*                                                                         *)
(* That the client publishes the log rests on what is on its way to it:    *)
(* every notification is the number of a logged event, every retained      *)
(* chunk is an output event, and a reply to a read describes a beginning   *)
(* of the log that ends with Closed when it says so.  Closed ends the log  *)
(* because open_streams counts at least the streams that may still write.  *)
(* recover_events then cannot place the exit event wrongly: it is logged,  *)
(* not published and not pending, so it is the one event that is missing.  *)
(*                                                                         *)
(* That an abandoned start leaves no process rests on the connections:     *)
(* only the first ever carries the request that starts one, and a later    *)
(* connection is installed only after the server has let go of the first.  *)
(* A handler dropped in the middle of the spawn has killed the process it  *)
(* had, so a process that was spawned is running, killed or over once no   *)
(* start is at work.  As a client learns of the end of its connection late *)
(* it may use one that is down; it does not use one whose call has failed. *)
(***************************************************************************)
EXTENDS ExecEvents, Integers, FiniteSetTheorems, SequenceTheorems, WellFoundedInduction, TLAPS

\* The states, without the bounds of the instances.
ProcState == [exited : BOOLEAN, closed : BOOLEAN, open_streams : Nat,
              spawned : BOOLEAN, killed : BOOLEAN]
TaskState == [pc : {"idle", "run", "notify", "closing", "done"}, seq : Nat]
AnyRequest ==
    {Request(op) : op \in {"none", "exec", "spawned", "not spawned", "initialize", "terminate"}}
        \cup {Read(n) : n \in Nat}
ReadReply ==
    [st : {"read"}, chunks : SUBSET Nat, next_seq : Nat, exited : BOOLEAN, closed : BOOLEAN]
AnyReply ==
    {Reply(st) : st \in {"none", "ok", "failed", "unknown session", "attached", "unknown process"}}
        \cup ReadReply
Events == UNION {[D -> Kinds] : D \in SUBSET Nat}
EventState == [last : Nat, exit : BOOLEAN, closed : BOOLEAN, pending : Events, failed : BOOLEAN]
RecoveryState ==
    {r \in [pc : {"idle", "starts", "connect", "initialize", "read", "terminate", "install"},
            conn : Conns \cup {NULL}] :
        r.conn # NULL <=> r.pc \in {"initialize", "read", "terminate", "install"}}

ServerTypes ==
    /\ entry \in {"none", "starting", "running", "removed"} /\ log \in Seq(Kinds) /\ output \subseteq Nat
    /\ proc \in ProcState /\ task \in [Tasks -> TaskState]
    /\ sender \in Conns \cup {NULL}

NetTypes ==
    /\ notes \in [Conns -> Seq(Nat)]
    /\ req \in [Conns -> AnyRequest] /\ reply \in [Conns -> AnyReply]
    /\ opened \in Conns

ClientTypes ==
    /\ status \in {"connected", "recovering", "failed"} /\ conn \in Conns
    /\ ev \in EventState /\ published \in Seq(Kinds)
    /\ start \in {"calling", "done", "cleanup", "terminating", "over"}
    /\ asked \in Conns \cup {NULL} /\ (start = "terminating" <=> asked # NULL)
    /\ rec \in RecoveryState

-----------------------------------------------------------------------------
(* What the events rest on.                                                *)

\* A stream that may still write: it has not been started, runs, or sends the
\* notification of its last chunk before it runs on.
Writes(r, lg) == r.pc \in {"idle", "run"} \/ (r.pc = "notify" /\ lg[r.seq] = "output")
Writing == {t \in Streams : Writes(task[t], log)}

TasksFollow ==
    /\ \A t \in Tasks : task[t].pc = "notify" => task[t].seq \in 1 .. Len(log)
    /\ task["exit"].pc = "notify" => log[task["exit"].seq] # "output"
    /\ proc.exited => task["exit"].pc \notin {"idle", "run"}
    /\ Cardinality(Writing) <= proc.open_streams

\* Closed is the last event of a process, as no stream writes any more.
EndIsLogged ==
    /\ proc.exited => \E n \in 1 .. Len(log) : log[n] = "exited"
    /\ proc.closed => /\ proc.exited /\ proc.open_streams = 0
                      /\ Len(log) # 0 /\ log[Len(log)] = "closed"

Logged(S, kind, lg) == \A n \in S : n \in 1 .. Len(lg) /\ lg[n] = kind

\* A reply to a read tells what the log held then.
ReadIsLogged(r, lg) ==
    /\ r.next_seq \in 1 .. Len(lg) + 1
    /\ \A n \in r.chunks : n \in 1 .. r.next_seq - 1 /\ lg[n] = "output"
    /\ r.closed => r.next_seq > 1 /\ lg[r.next_seq - 1] = "closed"
    /\ r.exited => \E n \in 1 .. r.next_seq - 1 : lg[n] = "exited"

\* The events e of a client that has published p are events of the log.
EventsAreLogged(e, p, lg) ==
    /\ e.last = Len(p) /\ Len(p) <= Len(lg)
    /\ \A i \in 1 .. Len(p) : p[i] = lg[i]
    /\ ~e.exit => \A i \in 1 .. Len(p) : p[i] # "exited"
    /\ \A n \in DOMAIN e.pending :
          n > e.last /\ n <= Len(lg) /\ e.pending[n] = lg[n]

TransportLogged ==
    /\ Logged(output, "output", log)
    /\ \A c \in Conns : \A i \in 1 .. Len(notes[c]) : notes[c][i] \in 1 .. Len(log)
    /\ \A c \in Conns : reply[c].st = "read" => ReadIsLogged(reply[c], log)

-----------------------------------------------------------------------------
(* What the start of the process rests on.                                 *)

\* The start of a process at work: its request, and its handler.
Starts == {"exec", "spawned", "not spawned"}

\* Nothing has happened to a process that is still to be started.
ExecIsFirst ==
    \A c \in Conns : req[c].op \in Starts =>
        /\ c = 1 /\ sender = 1 /\ log = <<>>
        /\ entry = IF req[c].op = "exec" THEN "none" ELSE "starting"
        /\ proc.spawned <=> req[c].op = "spawned"
        /\ ~proc.exited /\ ~proc.closed /\ proc.open_streams = Cardinality(Streams)
        /\ \A t \in Tasks : task[t].pc = "idle"

NoExec == \A c \in Conns : req[c].op \notin Starts

\* A process that was spawned runs, unless its handler or its session went.
SpawnFollows == NoExec /\ proc.spawned /\ ~Running => proc.killed \/ proc.exited

\* The process is over, or there will never be one.
Stopped == proc.killed \/ proc.exited \/ (~proc.spawned /\ NoExec)

\* A reply is the end of a request; the call that starts the process returns
\* once its request is answered or the end of its connection is known, and
\* terminate is sent after it has returned.
CallsFollow ==
    /\ \A c \in Conns : reply[c].st # "none" => req[c].op = "none"
    /\ \A c \in Conns : req[c].op = "terminate" => NoExec
    /\ start # "calling" => NoExec \/ 1 \in dead
    /\ status = "connected" => req[conn].op \notin {"initialize", "read"}
    /\ rec.pc = "install" => req[rec.conn].op = "none"

\* A connection that is not the first is used for anything but initialize only
\* after the session was detached from the first, whose requests died with it.
ConnsFollow ==
    /\ \A c \in Conns : c > opened => req[c].op = "none" /\ reply[c].st = "none"
    /\ conn <= opened /\ rec.conn <= opened
    /\ conn # 1 => NoExec
    /\ status = "recovering" <=> rec.pc # "idle"
    /\ rec.conn # NULL => rec.conn # conn /\ rec.conn # 1
    /\ rec.pc \in {"read", "terminate", "install"} => NoExec
    /\ rec.pc = "initialize" =>
          /\ req[rec.conn].op \in {"none", "initialize"}
          /\ reply[rec.conn].st = "ok" => NoExec

StartFollows ==
    /\ \A c \in Conns : reply[c].st = "failed" => ~proc.spawned /\ NoExec
    /\ start = "terminating" =>
          /\ asked <= opened /\ asked # rec.conn
          /\ req[asked].op \in {"none", "terminate"}
          /\ NoExec
          /\ reply[asked].st # "none" => Stopped
    /\ start = "over" /\ status # "failed" => Stopped

ExecInv ==
    /\ ServerTypes /\ NetTypes /\ ClientTypes
    /\ TasksFollow /\ EndIsLogged /\ TransportLogged
    /\ EventsAreLogged(ev, published, log)
    /\ ExecIsFirst /\ SpawnFollows /\ CallsFollow /\ ConnsFollow /\ StartFollows

USE ExecConstants

-----------------------------------------------------------------------------
(* OrderedSessionEvents.                                                   *)

\* A set of numbers has a least one.
LEMMA LeastNumber ==
    ASSUME NEW S \in SUBSET Nat, S # {}
    PROVE  \E m \in S : \A k \in S : m <= k
<1> DEFINE R == OpToRel(<, Nat)
<1>1. IsWellFoundedOn(R, Nat)
  BY NatLessThanWellFounded
<1>2. \A x, y \in Nat : <<x, y>> \in R <=> x < y
  BY DEF OpToRel
<1> HIDE DEF R
<1>3. PICK x \in S : \A y \in S : ~ (<<y, x>> \in R)
  BY <1>1, WFMin
<1>4. ASSUME NEW k \in S PROVE x <= k
  <2>1. x \in Nat /\ k \in Nat /\ ~(k < x)
    BY <1>2, <1>3
  <2> QED BY <2>1
<1> QED BY <1>4

\* Pending events are a function from numbers to kinds.
LEMMA EventsFacts ==
    ASSUME NEW f
    PROVE  f \in Events <=> DOMAIN f \subseteq Nat /\ f \in [DOMAIN f -> Kinds]
<1>1. ASSUME f \in Events PROVE DOMAIN f \subseteq Nat /\ f \in [DOMAIN f -> Kinds]
  <2>1. PICK D \in SUBSET Nat : f \in [D -> Kinds]
    BY <1>1 DEF Events
  <2> QED BY <2>1
<1>2. ASSUME DOMAIN f \subseteq Nat, f \in [DOMAIN f -> Kinds] PROVE f \in Events
  BY <1>2 DEF Events
<1> QED BY <1>1, <1>2

LEMMA EventStateFacts ==
    ASSUME NEW e \in EventState
    PROVE  /\ e.last \in Nat /\ e.exit \in BOOLEAN /\ e.closed \in BOOLEAN /\ e.failed \in BOOLEAN
           /\ e.pending \in Events
           /\ DOMAIN e.pending \subseteq Nat /\ e.pending \in [DOMAIN e.pending -> Kinds]
<1>1. /\ e.last \in Nat /\ e.exit \in BOOLEAN /\ e.closed \in BOOLEAN /\ e.failed \in BOOLEAN
      /\ e.pending \in Events
  BY DEF EventState
<1> QED BY <1>1, EventsFacts

\* The events that are ready are those with the next numbers.
LEMMA ReadyInterval ==
    ASSUME NEW e \in EventState, NEW h \in Nat, \A n \in DOMAIN e.pending : n <= h
    PROVE  \E k \in Nat : /\ Ready(e) = e.last + 1 .. e.last + k
                          /\ Cardinality(Ready(e)) = k
<1> DEFINE D == DOMAIN e.pending
           S == {n \in Nat : n > e.last /\ n \notin Ready(e)}
<1>1. e.last \in Nat /\ D \subseteq Nat
  BY EventStateFacts
<1>2. Ready(e) = {n \in D : n > e.last /\ \A m \in e.last + 1 .. n : m \in D}
  BY DEF Ready
<1> HIDE DEF D
<1>3. e.last + h + 1 \in S
  <2>1. e.last + h + 1 \notin D
    BY <1>1 DEF D
  <2> QED BY <1>1, <1>2, <2>1
<1>4. PICK b \in S : \A k \in S : b <= k
  <2>1. S \in SUBSET Nat /\ S # {}
    BY <1>3
  <2> HIDE DEF S
  <2> QED BY <2>1, LeastNumber
<1>5. b \in Nat /\ b > e.last /\ b \notin Ready(e)
  BY <1>4
<1> DEFINE k == b - 1 - e.last
<1>6. k \in Nat /\ e.last + k = b - 1
  BY <1>1, <1>5
<1>7. e.last + 1 .. b - 1 \subseteq Ready(e)
  <2> SUFFICES ASSUME NEW n \in e.last + 1 .. b - 1, n \notin Ready(e) PROVE FALSE
    OBVIOUS
  <2>1. n \in S
    BY <1>1
  <2> QED BY <1>1, <1>4, <1>5, <2>1
<1>8. Ready(e) \subseteq e.last + 1 .. b - 1
  <2>0. \A n \in Ready(e) : n \in Nat /\ n > e.last
    BY <1>1, <1>2
  <2> SUFFICES ASSUME NEW n \in Ready(e), n >= b PROVE FALSE
    BY <1>1, <1>5, <2>0
  <2>1. /\ n \in D /\ n > e.last /\ n \in Nat /\ \A m \in e.last + 1 .. n : m \in D
    BY <1>1, <1>2
  <2>2. b \in D /\ \A m \in e.last + 1 .. b : m \in D
    BY <1>1, <1>5, <2>1
  <2> QED BY <1>2, <1>5, <2>2
<1>9. Ready(e) = e.last + 1 .. e.last + k
  BY <1>6, <1>7, <1>8
<1>10. Cardinality(Ready(e)) = k
  <2> HIDE DEF k
  <2>1. e.last + 1 \in Int /\ e.last + k \in Int
    BY <1>1, <1>6
  <2>2. Cardinality(e.last + 1 .. e.last + k) =
           IF e.last + 1 > e.last + k THEN 0 ELSE (e.last + k) - (e.last + 1) + 1
    BY <2>1, FS_Interval
  <2> QED BY <1>1, <1>6, <1>9, <2>2
<1> QED BY <1>6, <1>9, <1>10

\* publish_ready keeps what is published and what is pending true to the log.
LEMMA PublishFacts ==
    ASSUME NEW e \in EventState, NEW p \in Seq(Kinds), NEW lg \in Seq(Kinds),
           EventsAreLogged(e, p, lg)
    PROVE  /\ publish_ready(e) \in EventState
           /\ p \o Publishes(e) \in Seq(Kinds)
           /\ EventsAreLogged(publish_ready(e), p \o Publishes(e), lg)
<1> DEFINE D == DOMAIN e.pending
           q == p \o Publishes(e)
           f == publish_ready(e)
<1>1. /\ e.last \in Nat /\ D \subseteq Nat /\ e.pending \in [D -> Kinds]
      /\ e.exit \in BOOLEAN /\ e.closed \in BOOLEAN /\ e.failed \in BOOLEAN
  BY EventStateFacts
<1>2. Len(lg) \in Nat /\ Len(p) = e.last
  BY DEF EventsAreLogged
<1>3. \A n \in D : n > e.last /\ n <= Len(lg) /\ e.pending[n] = lg[n]
  BY DEF EventsAreLogged
<1>4. PICK k \in Nat : Ready(e) = e.last + 1 .. e.last + k /\ Cardinality(Ready(e)) = k
  BY <1>2, <1>3, ReadyInterval
<1>5. Ready(e) \subseteq D
  BY DEF Ready
<1>6. Publishes(e) = [i \in 1 .. k |-> e.pending[e.last + i]]
  BY <1>4 DEF Publishes
<1>7. \A i \in 1 .. k : e.last + i \in D /\ e.last + i \in Ready(e)
  BY <1>1, <1>4, <1>5
<1>8. /\ Publishes(e) \in Seq(Kinds) /\ Len(Publishes(e)) = k
      /\ \A i \in 1 .. k : Publishes(e)[i] = e.pending[e.last + i]
  <2>1. \A i \in 1 .. k : e.pending[e.last + i] \in Kinds
    BY <1>1, <1>7
  <2> QED BY <1>6, <2>1
<1>9. /\ q \in Seq(Kinds) /\ Len(q) = e.last + k
      /\ \A i \in 1 .. e.last + k : q[i] = IF i <= e.last THEN p[i] ELSE e.pending[i]
  <2> DEFINE r == Publishes(e)
  <2> HIDE DEF r
  <2>0. r \in Seq(Kinds) /\ Len(r) = k /\ q = p \o r
    BY <1>8 DEF r
  <2>1. /\ q \in Seq(Kinds) /\ Len(q) = e.last + k
        /\ \A i \in 1 .. e.last + k : q[i] = IF i <= e.last THEN p[i] ELSE r[i - e.last]
    <3> HIDE DEF q
    <3> QED BY <1>2, <2>0, ConcatProperties
  <2>2. ASSUME NEW i \in 1 .. e.last + k, i <= e.last PROVE q[i] = p[i]
    BY <2>1, <2>2
  <2>3. ASSUME NEW i \in 1 .. e.last + k, ~(i <= e.last) PROVE q[i] = e.pending[i]
    <3>1. i - e.last \in 1 .. k /\ e.last + (i - e.last) = i
      BY <1>1, <2>3
    <3>2. q[i] = Publishes(e)[i - e.last]
      BY <2>1, <2>3 DEF r
    <3> QED BY <1>8, <3>1, <3>2
  <2> QED BY <2>1, <2>2, <2>3
<1>10. /\ f \in EventState /\ f.last = e.last + k
       /\ f.exit = (e.exit \/ \E n \in Ready(e) : e.pending[n] = "exited")
       /\ f.pending = [n \in D \ Ready(e) |-> e.pending[n]]
  <2> DEFINE w == Without(e.pending, Ready(e))
             x == (e.exit \/ \E n \in Ready(e) : e.pending[n] = "exited")
             y == (e.closed \/ \E n \in Ready(e) : e.pending[n] = "closed")
  <2>1. w = [n \in D \ Ready(e) |-> e.pending[n]]
    BY DEF Without
  <2>2. w \in Events
    BY <1>1, <2>1, EventsFacts
  <2>3. x \in BOOLEAN /\ y \in BOOLEAN
    OBVIOUS
  <2>4. f = [e EXCEPT !.last = e.last + k, !.exit = x, !.closed = y, !.pending = w]
    BY <1>4 DEF publish_ready
  <2> HIDE DEF w, x, y, f
  <2>5. e.last + k \in Nat
    BY <1>1
  <2>6. f \in EventState /\ f.last = e.last + k /\ f.exit = x /\ f.pending = w
    BY <2>2, <2>3, <2>4, <2>5 DEF EventState
  <2> QED BY <2>1, <2>6 DEF x
<1> HIDE DEF q, f
<1>11. e.last + k <= Len(lg)
  <2>1. CASE k = 0
    BY <1>1, <1>2, <2>1 DEF EventsAreLogged
  <2>2. CASE k # 0
    BY <1>1, <1>3, <1>7, <2>2
  <2> QED BY <2>1, <2>2
<1>12. \A i \in 1 .. e.last : p[i] = lg[i]
  BY <1>2 DEF EventsAreLogged
<1>13. \A i \in 1 .. e.last + k : i > e.last => i \in Ready(e) /\ i \in D
  BY <1>1, <1>4, <1>5
<1>14. \A i \in 1 .. Len(q) : q[i] = lg[i]
  BY <1>1, <1>3, <1>9, <1>12, <1>13
<1>15. ASSUME ~f.exit, NEW i \in 1 .. Len(q) PROVE q[i] # "exited"
  <2>1. ~e.exit /\ \A n \in Ready(e) : e.pending[n] # "exited"
    BY <1>10, <1>15
  <2>2. \A j \in 1 .. e.last : p[j] # "exited"
    BY <1>2, <2>1 DEF EventsAreLogged
  <2>3. i \in 1 .. e.last + k
    BY <1>9
  <2>4. CASE i <= e.last
    BY <1>1, <1>9, <2>2, <2>3, <2>4
  <2>5. CASE i > e.last
    BY <1>1, <1>9, <1>13, <2>1, <2>3, <2>5
  <2> QED BY <1>1, <2>3, <2>4, <2>5
<1>16. \A n \in DOMAIN f.pending : n > f.last /\ n <= Len(lg) /\ f.pending[n] = lg[n]
  <2> SUFFICES ASSUME NEW n \in DOMAIN f.pending
               PROVE  n > f.last /\ n <= Len(lg) /\ f.pending[n] = lg[n]
    OBVIOUS
  <2>1. n \in D /\ n \notin Ready(e) /\ f.pending[n] = e.pending[n] /\ n \in Nat
    BY <1>1, <1>10
  <2> QED BY <1>1, <1>3, <1>4, <1>10, <2>1
<1>17. EventsAreLogged(f, q, lg)
  BY <1>9, <1>10, <1>11, <1>14, <1>15, <1>16 DEF EventsAreLogged
<1> QED BY <1>9, <1>10, <1>17 DEF q, f

\* One more event of the log is pending.
LEMMA PendingFacts ==
    ASSUME NEW e \in EventState, NEW p \in Seq(Kinds), NEW lg \in Seq(Kinds),
           EventsAreLogged(e, p, lg), NEW n \in 1 .. Len(lg), n > e.last,
           NEW kind, kind = lg[n]
    PROVE  LET x == [e EXCEPT !.pending = With(@, n, kind)]
           IN  x \in EventState /\ EventsAreLogged(x, p, lg)
<1> DEFINE f == e.pending
           w == With(f, n, kind)
           x == [e EXCEPT !.pending = w]
<1>1. /\ f \in Events /\ DOMAIN f \subseteq Nat /\ f \in [DOMAIN f -> Kinds] /\ e.last \in Nat
  BY EventStateFacts
<1>2. kind \in Kinds /\ n \in Nat
  OBVIOUS
<1>3. /\ DOMAIN w = DOMAIN f \cup {n} /\ w \in [DOMAIN f \cup {n} -> Kinds]
      /\ \A m \in DOMAIN f \cup {n} : w[m] = IF m \in DOMAIN f THEN f[m] ELSE kind
  <2>1. CASE n \in DOMAIN f
    <3>1. w = f /\ DOMAIN f \cup {n} = DOMAIN f
      BY <2>1 DEF With
    <3> QED BY <1>1, <3>1
  <2>2. CASE n \notin DOMAIN f
    <3>1. w = [m \in DOMAIN f \cup {n} |-> IF m = n THEN kind ELSE f[m]]
      BY <2>2 DEF With
    <3> QED BY <1>1, <1>2, <2>2, <3>1
  <2> QED BY <2>1, <2>2
<1>4. w \in Events
  BY <1>1, <1>2, <1>3, EventsFacts
<1> HIDE DEF w
<1>5. /\ x \in EventState /\ x.pending = w /\ x.last = e.last /\ x.exit = e.exit
  BY <1>4 DEF EventState
<1>6. \A m \in DOMAIN f : m > e.last /\ m <= Len(lg) /\ f[m] = lg[m]
  BY DEF EventsAreLogged
<1> HIDE DEF f, x
<1>7. \A m \in DOMAIN w : m > e.last /\ m <= Len(lg) /\ w[m] = lg[m]
  BY <1>3, <1>6
<1>8. EventsAreLogged(x, p, lg)
  BY <1>5, <1>7 DEF EventsAreLogged
<1> QED BY <1>5, <1>8 DEF x, w, f

\* The chunks of a response, and Closed in its place, are events of the log.
LEMMA MergeFacts ==
    ASSUME NEW e \in EventState, NEW p \in Seq(Kinds), NEW lg \in Seq(Kinds),
           EventsAreLogged(e, p, lg), NEW r \in ReadReply, ReadIsLogged(r, lg),
           r.next_seq - 1 > e.last
    PROVE  /\ Merge(e, r) \in EventState /\ EventsAreLogged(Merge(e, r), p, lg)
           /\ Merge(e, r).exit = e.exit /\ Merge(e, r).last = e.last
<1> DEFINE f == e.pending
           target == r.next_seq - 1
           chunks == {n \in r.chunks : n > e.last}
           keys == DOMAIN f \cup chunks \cup (IF r.closed THEN {target} ELSE {})
           w == [n \in keys |-> IF n \in DOMAIN f THEN f[n]
                                ELSE IF n \in chunks THEN "output" ELSE "closed"]
           x == [e EXCEPT !.pending = w]
<1>1. Merge(e, r) = x
  BY DEF Merge
<1>2. /\ f \in Events /\ DOMAIN f \subseteq Nat /\ f \in [DOMAIN f -> Kinds] /\ e.last \in Nat
  BY EventStateFacts
<1>3. /\ r.chunks \subseteq Nat /\ r.next_seq \in Nat /\ Len(lg) \in Nat
  BY DEF ReadReply
<1>4. \A n \in DOMAIN f : n > e.last /\ n <= Len(lg) /\ f[n] = lg[n]
  BY DEF EventsAreLogged
<1>5. \A n \in chunks : n \in Nat /\ n > e.last /\ n <= Len(lg) /\ lg[n] = "output"
  BY <1>3 DEF ReadIsLogged
<1>6. target \in Nat /\ target > e.last /\ target <= Len(lg) /\ (r.closed => lg[target] = "closed")
  BY <1>2, <1>3 DEF ReadIsLogged
<1>7. keys \subseteq Nat
  BY <1>2, <1>5, <1>6
<1>8. w \in [keys -> Kinds]
  BY <1>2 DEF Kinds
<1>9. ASSUME NEW n \in keys PROVE n > e.last /\ n <= Len(lg) /\ w[n] = lg[n]
  BY <1>4, <1>5, <1>6
<1> HIDE DEF keys
<1>10. DOMAIN w = keys
  OBVIOUS
<1> HIDE DEF w
<1>11. w \in Events
  BY <1>7, <1>8, <1>10, EventsFacts
<1>12. /\ x \in EventState /\ x.pending = w /\ x.last = e.last /\ x.exit = e.exit
  BY <1>11 DEF EventState
<1> HIDE DEF x
<1>13. EventsAreLogged(x, p, lg)
  BY <1>9, <1>10, <1>12 DEF EventsAreLogged
<1> QED BY <1>1, <1>12, <1>13

\* recover_events: the event that is missing is the exit event.
LEMMA RecoverFacts ==
    ASSUME NEW e \in EventState, NEW p \in Seq(Kinds), NEW lg \in Seq(Kinds),
           EventsAreLogged(e, p, lg), NEW r \in ReadReply, ReadIsLogged(r, lg),
           "gap" \notin DOMAIN recover_events(e, r)
    PROVE  recover_events(e, r) \in EventState /\ EventsAreLogged(recover_events(e, r), p, lg)
<1> DEFINE target == r.next_seq - 1
           m == Merge(e, r)
           exit_known == m.exit \/ \E n \in DOMAIN m.pending : n <= target /\ m.pending[n] = "exited"
           missing == Missing(m, target)
           x == recover_events(e, r)
           g == [gap |-> TRUE]
<1>1. "gap" \in DOMAIN g
  OBVIOUS
<1>2. x = IF e.failed \/ e.closed \/ target <= e.last THEN e
          ELSE IF r.exited /\ ~exit_known /\ Cardinality(missing) = 1
          THEN [m EXCEPT !.pending = With(@, first_missing_seq(m, target), "exited")]
          ELSE IF ~(r.exited /\ ~exit_known) /\ missing = {} THEN m
          ELSE g
  BY DEF recover_events
<1>3. e.last \in Nat /\ r.next_seq \in Nat /\ r.exited \in BOOLEAN /\ Len(lg) \in Nat
  BY EventStateFacts DEF ReadReply
<1>4. CASE target <= e.last \/ e.failed \/ e.closed
  BY <1>2, <1>4
<1>5. CASE ~(target <= e.last) /\ ~e.failed /\ ~e.closed
  <2>1. /\ m \in EventState /\ EventsAreLogged(m, p, lg) /\ m.exit = e.exit /\ m.last = e.last
    BY <1>3, <1>5, MergeFacts
  <2>2. \/ /\ r.exited /\ ~exit_known /\ Cardinality(missing) = 1
           /\ x = [m EXCEPT !.pending = With(@, first_missing_seq(m, target), "exited")]
        \/ x = m
    BY <1>1, <1>2, <1>5
  <2>3. CASE x = m
    BY <2>1, <2>3
  <2>4. CASE /\ r.exited /\ ~exit_known /\ Cardinality(missing) = 1
             /\ x = [m EXCEPT !.pending = With(@, first_missing_seq(m, target), "exited")]
    <3> HIDE DEF m, x
    <3>1. PICK n1 \in 1 .. target : lg[n1] = "exited"
      BY <2>4 DEF ReadIsLogged
    <3>2. target <= Len(lg) /\ target \in Nat
      BY <1>3, <1>5 DEF ReadIsLogged
    <3>3. n1 > e.last
      <4>1. ~m.exit /\ Len(p) = e.last
        BY <2>1, <2>4 DEF EventsAreLogged
      <4>2. \A i \in 1 .. Len(p) : p[i] # "exited" /\ p[i] = lg[i]
        BY <2>1, <4>1 DEF EventsAreLogged
      <4> QED BY <1>3, <3>1, <3>2, <4>1, <4>2
    <3>4. n1 \notin DOMAIN m.pending
      <4> SUFFICES ASSUME n1 \in DOMAIN m.pending PROVE FALSE
        OBVIOUS
      <4>1. m.pending[n1] = "exited" /\ n1 <= target
        BY <2>1, <3>1, <3>2 DEF EventsAreLogged
      <4> QED BY <2>4, <4>1
    <3>5. n1 \in missing
      BY <1>3, <2>1, <3>1, <3>2, <3>3, <3>4 DEF Missing
    <3>6. missing = {n1}
      <4>1. IsFiniteSet(missing)
        <5>1. missing \subseteq m.last + 1 .. target
          BY DEF Missing
        <5>2. m.last + 1 \in Int /\ target \in Int
          BY <1>3, <2>1
        <5> HIDE DEF missing, target
        <5> QED BY <5>1, <5>2, FS_Interval, FS_Subset
      <4> HIDE DEF missing
      <4>2. \E y : missing = {y}
        BY <2>4, <4>1, FS_Singleton
      <4> QED BY <3>5, <4>2
    <3>7. first_missing_seq(m, target) = n1
      <4>1. n1 <= n1
        BY <3>1
      <4> QED BY <3>6, <4>1 DEF first_missing_seq
    <3>8. n1 \in 1 .. Len(lg) /\ n1 > m.last /\ "exited" = lg[n1]
      BY <1>3, <2>1, <3>1, <3>2, <3>3
    <3>9. x = [m EXCEPT !.pending = With(@, n1, "exited")]
      BY <2>4, <3>7
    <3> QED BY <2>1, <3>8, <3>9, PendingFacts DEF x
  <2> QED BY <2>2, <2>3, <2>4
<1> QED BY <1>4, <1>5

-----------------------------------------------------------------------------
(* The log grows.                                                          *)

\* What is known of an event stays true when there is one more.
LEMMA LogGrows ==
    ASSUME NEW lg \in Seq(Kinds), NEW kind \in Kinds
    PROVE  LET more == Append(lg, kind)
           IN  /\ more \in Seq(Kinds) /\ Len(more) = Len(lg) + 1 /\ Len(lg) \in Nat
               /\ \A n \in 1 .. Len(lg) : more[n] = lg[n]
               /\ more[Len(lg) + 1] = kind
BY AppendProperties

\* lg is a beginning of more.
Begins(lg, more) ==
    /\ Len(lg) \in Nat /\ Len(more) \in Nat /\ Len(lg) <= Len(more)
    /\ \A n \in 1 .. Len(lg) : more[n] = lg[n]

LEMMA EventsStayLogged ==
    ASSUME NEW e, NEW p, NEW lg, NEW more, Begins(lg, more), Len(p) \in Nat,
           e.last \in Nat, DOMAIN e.pending \subseteq Nat,
           EventsAreLogged(e, p, lg)
    PROVE  EventsAreLogged(e, p, more)
BY DEF Begins, EventsAreLogged

LEMMA ReadStaysLogged ==
    ASSUME NEW r \in ReadReply, NEW lg, NEW more, Begins(lg, more), ReadIsLogged(r, lg)
    PROVE  ReadIsLogged(r, more)
<1>1. r.next_seq \in Nat
  BY DEF ReadReply
<1>2. r.next_seq - 1 <= Len(lg)
  BY <1>1 DEF ReadIsLogged, Begins
<1>3. \A n \in 1 .. r.next_seq - 1 : more[n] = lg[n]
  BY <1>1, <1>2 DEF Begins
<1>4. r.next_seq \in 1 .. Len(more) + 1
  BY <1>1, <1>2 DEF Begins, ReadIsLogged
<1>5. r.closed => r.next_seq > 1 /\ more[r.next_seq - 1] = "closed"
  BY <1>1, <1>3 DEF ReadIsLogged
<1>6. r.exited => \E n \in 1 .. r.next_seq - 1 : more[n] = "exited"
  BY <1>3 DEF ReadIsLogged
<1>7. \A n \in r.chunks : n \in 1 .. r.next_seq - 1 /\ more[n] = "output"
  BY <1>3 DEF ReadIsLogged
<1> QED BY <1>4, <1>5, <1>6, <1>7 DEF ReadIsLogged

-----------------------------------------------------------------------------
(* Steps of the server's tasks.                                            *)

\* The facts that the steps use of the types.
LEMMA TypeFacts ==
    ASSUME ExecInv
    PROVE  /\ log \in Seq(Kinds) /\ Len(log) \in Nat /\ output \subseteq Nat
           /\ proc \in ProcState /\ task \in [Tasks -> TaskState]
           /\ \A t \in Tasks : task[t] \in TaskState /\ task[t].seq \in Nat
           /\ notes \in [Conns -> Seq(Nat)]
           /\ req \in [Conns -> AnyRequest] /\ reply \in [Conns -> AnyReply]
           /\ ev \in EventState /\ published \in Seq(Kinds) /\ Len(published) \in Nat
           /\ ev.last \in Nat /\ DOMAIN ev.pending \subseteq Nat
           /\ proc.exited \in BOOLEAN /\ proc.closed \in BOOLEAN /\ proc.killed \in BOOLEAN
           /\ proc.spawned \in BOOLEAN
           /\ proc.open_streams \in Nat
           /\ IsFiniteSet(Writing) /\ Cardinality(Writing) \in Nat
<1>1. /\ log \in Seq(Kinds) /\ output \subseteq Nat
      /\ proc \in ProcState /\ task \in [Tasks -> TaskState]
      /\ notes \in [Conns -> Seq(Nat)]
      /\ req \in [Conns -> AnyRequest] /\ reply \in [Conns -> AnyReply]
      /\ ev \in EventState /\ published \in Seq(Kinds)
  BY DEF ExecInv, ServerTypes, NetTypes, ClientTypes
<1>2. \A t \in Tasks : task[t] \in TaskState
  BY <1>1
<1>3. \A t \in Tasks : task[t].seq \in Nat
  BY <1>2 DEF TaskState
<1>4. Len(log) \in Nat /\ Len(published) \in Nat
  BY <1>1
<1>5. ev.last \in Nat /\ DOMAIN ev.pending \subseteq Nat
  BY <1>1, EventStateFacts
<1>6. /\ proc.exited \in BOOLEAN /\ proc.closed \in BOOLEAN /\ proc.killed \in BOOLEAN
      /\ proc.spawned \in BOOLEAN
      /\ proc.open_streams \in Nat
  BY <1>1 DEF ProcState
<1>7. IsFiniteSet(Writing) /\ Cardinality(Writing) \in Nat
  BY FS_Subset, FS_CardinalityType DEF Writing
<1> QED BY <1>1, <1>2, <1>3, <1>4, <1>5, <1>6, <1>7

\* What the messages are.
LEMMA RequestFacts ==
    /\ \A op \in {"none", "exec", "spawned", "not spawned", "initialize", "terminate"} :
          Request(op) \in AnyRequest /\ Request(op).op = op
    /\ \A n \in Nat : Read(n) \in AnyRequest /\ Read(n).op = "read"
BY DEF AnyRequest, Request, Read

LEMMA ReplyFacts ==
    \A st \in {"none", "ok", "failed", "unknown session", "attached", "unknown process"} :
        Reply(st) \in AnyReply /\ Reply(st).st = st
BY DEF AnyReply, Reply

LEMMA ReadReplyFacts ==
    ASSUME NEW r \in AnyReply, r.st = "read"
    PROVE  r \in ReadReply
<1>1. ASSUME NEW st \in {"none", "ok", "failed", "unknown session", "attached", "unknown process"},
             r = Reply(st)
      PROVE  FALSE
  BY <1>1 DEF Reply
<1> QED BY <1>1 DEF AnyReply

\* A task that is at work has a process that was started.
LEMMA TaskStartStep ==
    ASSUME ExecInv, NEW t \in Tasks, task[t].pc # "idle",
           UNCHANGED <<entry, sender, dead, req, reply, opened, status, conn, start, asked, rec>>,
           proc'.spawned = proc.spawned, proc.killed => proc'.killed, proc.exited => proc'.exited
    PROVE  ExecIsFirst' /\ SpawnFollows' /\ CallsFollow' /\ ConnsFollow' /\ StartFollows'
<1>1. NoExec
  BY DEF ExecInv, ExecIsFirst, NoExec
<1>2. ExecIsFirst' /\ NoExec'
  BY <1>1 DEF NoExec, ExecIsFirst
<1>3. ConnsFollow' /\ CallsFollow'
  BY <1>1, <1>2 DEF ExecInv, ConnsFollow, CallsFollow
<1>4. (Stopped => Stopped') /\ SpawnFollows'
  BY <1>1, <1>2 DEF ExecInv, Stopped, SpawnFollows, Running
<1>5. StartFollows'
  BY <1>2, <1>4 DEF ExecInv, StartFollows
<1> QED BY <1>2, <1>3, <1>4, <1>5

\* One more event.
LEMMA GrowStep ==
    ASSUME ExecInv, NEW kind \in Kinds, log' = Append(log, kind),
           UNCHANGED <<notes, reply, ev, published>>, Logged(output', "output", log')
    PROVE  /\ TransportLogged' /\ EventsAreLogged(ev', published', log')
           /\ Begins(log, log') /\ log' \in Seq(Kinds)
           /\ Len(log') = Len(log) + 1 /\ log'[Len(log')] = kind
<1>1. /\ log' \in Seq(Kinds) /\ Len(log') = Len(log) + 1 /\ Len(log) \in Nat
      /\ \A n \in 1 .. Len(log) : log'[n] = log[n]
      /\ log'[Len(log) + 1] = kind
  BY TypeFacts, LogGrows
<1>2. Begins(log, log')
  BY <1>1 DEF Begins
<1>3. EventsAreLogged(ev', published', log')
  BY <1>2, TypeFacts, EventsStayLogged DEF ExecInv
<1>4. \A c \in Conns : reply[c].st = "read" => ReadIsLogged(reply[c], log')
  <2> SUFFICES ASSUME NEW c \in Conns, reply[c].st = "read" PROVE ReadIsLogged(reply[c], log')
    OBVIOUS
  <2>1. reply[c] \in AnyReply
    BY TypeFacts
  <2>2. reply[c] \in ReadReply
    BY <2>1, ReadReplyFacts
  <2>3. ReadIsLogged(reply[c], log)
    BY DEF ExecInv, TransportLogged
  <2> QED BY <1>2, <2>2, <2>3, ReadStaysLogged
<1>5. \A c \in Conns : \A i \in 1 .. Len(notes[c]) : notes[c][i] \in 1 .. Len(log')
  BY <1>1 DEF ExecInv, TransportLogged
<1>6. TransportLogged'
  BY <1>4, <1>5 DEF TransportLogged
<1> QED BY <1>1, <1>2, <1>3, <1>6

\* Whether a stream writes does not depend on what is logged later.
LEMMA WritesStable ==
    ASSUME NEW r, NEW lg, NEW more, Begins(lg, more), r.pc = "notify" => r.seq \in 1 .. Len(lg)
    PROVE  Writes(r, more) <=> Writes(r, lg)
BY DEF Begins, Writes

\* A task goes on: who writes, and that what it has to send is in the log.
LEMMA TaskStep ==
    ASSUME ExecInv, NEW t \in Tasks, NEW r \in TaskState, task' = [task EXCEPT ![t] = r],
           Begins(log, log') \/ log' = log,
           r.pc = "notify" => r.seq \in 1 .. Len(log'),
           t = "exit" /\ r.pc = "notify" => log'[r.seq] # "output",
           t # "exit" => proc'.exited = proc.exited,
           t = "exit" => r.pc \notin {"idle", "run"}
    PROVE  /\ task' \in [Tasks -> TaskState]
           /\ \A u \in Tasks : task'[u].pc = "notify" => task'[u].seq \in 1 .. Len(log')
           /\ task'["exit"].pc = "notify" => log'[task'["exit"].seq] # "output"
           /\ proc'.exited => task'["exit"].pc \notin {"idle", "run"}
           /\ t \in Streams => Writing' = {u \in Streams \ {t} : Writes(task[u], log)}
                                          \cup (IF Writes(r, log') THEN {t} ELSE {})
           /\ t = "exit" => Writing' = Writing
<1>0. "exit" \in Tasks /\ Len(log) \in Nat
  BY TypeFacts DEF Tasks
<1>1. Begins(log, log')
  BY <1>0 DEF Begins
<1>2. \A u \in Tasks : task'[u] = IF u = t THEN r ELSE task[u]
  BY TypeFacts
<1>3. \A u \in Tasks : task[u].pc = "notify" => task[u].seq \in 1 .. Len(log)
  BY DEF ExecInv, TasksFollow
<1>4. \A u \in Tasks : task'[u].pc = "notify" => task'[u].seq \in 1 .. Len(log')
  BY <1>0, <1>1, <1>2, <1>3 DEF Begins
<1>5. task'["exit"].pc = "notify" => log'[task'["exit"].seq] # "output"
  <2>1. CASE t = "exit"
    BY <1>0, <1>2, <2>1
  <2>2. CASE t # "exit"
    BY <1>0, <1>1, <1>2, <1>3, <2>2 DEF Begins, ExecInv, TasksFollow
  <2> QED BY <2>1, <2>2
<1>6. proc'.exited => task'["exit"].pc \notin {"idle", "run"}
  BY <1>0, <1>2 DEF ExecInv, TasksFollow
<1>7. \A u \in Tasks : Writes(task[u], log') <=> Writes(task[u], log)
  BY <1>1, <1>3, WritesStable
<1>8. \A u \in Streams : u \in Tasks /\ u # "exit"
  BY DEF Tasks
<1>9. t \in Streams => Writing' = {u \in Streams \ {t} : Writes(task[u], log)}
                                     \cup (IF Writes(r, log') THEN {t} ELSE {})
  BY <1>2, <1>7, <1>8 DEF Writing
<1>10. t = "exit" => Writing' = Writing
  BY <1>2, <1>7, <1>8 DEF Writing
<1>11. task' \in [Tasks -> TaskState]
  BY TypeFacts
<1> QED BY <1>4, <1>5, <1>6, <1>9, <1>10, <1>11

\* A stream that writes as before.
LEMMA SameWriting ==
    ASSUME NEW t \in Streams, NEW w, w <=> Writes(task[t], log)
    PROVE  {u \in Streams \ {t} : Writes(task[u], log)} \cup (IF w THEN {t} ELSE {}) = Writing
BY DEF Writing

\* Where the process has closed no stream writes and the exit is logged.
LEMMA NobodyWrites ==
    ASSUME ExecInv, proc.open_streams = 0
    PROVE  \A t \in Streams : ~Writes(task[t], log)
<1>1. IsFiniteSet(Writing) /\ Cardinality(Writing) = 0
  BY TypeFacts DEF ExecInv, TasksFollow
<1>2. Writing = {}
  BY <1>1, FS_EmptySet
<1> QED BY <1>2 DEF Writing

LEMMA OutputStep ==
    ASSUME ExecInv, NEW t \in Streams, stream_output(t)
    PROVE  ExecInv'
<1> DEFINE r == [pc |-> "notify", seq |-> next_seq]
<1>1. /\ task[t].pc = "run" /\ log' = Append(log, "output")
      /\ output' = Retain(output \cup {next_seq}) /\ task' = [task EXCEPT ![t] = r]
      /\ UNCHANGED <<entry, proc, sender, dead, notes, req, reply, opened,
                     status, conn, ev, published, start, asked, rec>>
  BY DEF stream_output, At, Go, net, client, session, starting
<1>2. t \in Tasks /\ t # "exit" /\ "output" \in Kinds
  BY DEF Tasks, Kinds
<1>3. /\ log' \in Seq(Kinds) /\ Len(log') = Len(log) + 1 /\ Len(log) \in Nat
      /\ \A n \in 1 .. Len(log) : log'[n] = log[n]
      /\ log'[Len(log) + 1] = "output"
  BY <1>1, <1>2, TypeFacts, LogGrows
<1>4. Logged(output', "output", log') /\ output' \subseteq Nat
  <2>1. output' \subseteq output \cup {Len(log) + 1}
    BY <1>1 DEF Retain, next_seq
  <2>2. \A n \in output : n \in 1 .. Len(log) /\ log[n] = "output"
    BY DEF ExecInv, TransportLogged, Logged
  <2>3. ASSUME NEW n \in output' PROVE n \in 1 .. Len(log') /\ log'[n] = "output"
    <3>1. CASE n \in output
      BY <1>3, <2>2, <3>1
    <3>2. CASE n = Len(log) + 1
      BY <1>3, <3>2
    <3> QED BY <2>1, <2>3, <3>1, <3>2
  <2>4. output' \subseteq Nat
    BY <1>3, <2>3
  <2> QED BY <2>3, <2>4 DEF Logged
<1>5. /\ TransportLogged' /\ EventsAreLogged(ev', published', log') /\ Begins(log, log')
  BY <1>1, <1>2, <1>4, GrowStep
<1>6. r \in TaskState /\ r.pc = "notify" /\ r.seq = Len(log) + 1
  BY <1>3 DEF TaskState, next_seq
<1> HIDE DEF r
<1>7. r.seq \in 1 .. Len(log') /\ (Writes(r, log') <=> Writes(task[t], log))
  BY <1>1, <1>3, <1>6 DEF Writes
<1>8. /\ task' \in [Tasks -> TaskState]
      /\ \A u \in Tasks : task'[u].pc = "notify" => task'[u].seq \in 1 .. Len(log')
      /\ task'["exit"].pc = "notify" => log'[task'["exit"].seq] # "output"
      /\ proc'.exited => task'["exit"].pc \notin {"idle", "run"}
      /\ Writing' = {u \in Streams \ {t} : Writes(task[u], log)}
                        \cup (IF Writes(r, log') THEN {t} ELSE {})
  BY <1>1, <1>2, <1>5, <1>6, <1>7, TaskStep
<1>9. Writing' = Writing
  BY <1>7, <1>8, SameWriting
<1>10. TasksFollow'
  BY <1>1, <1>8, <1>9 DEF ExecInv, TasksFollow
<1>11. EndIsLogged'
  <2>1. ~proc.closed
    <3> SUFFICES ASSUME proc.closed PROVE FALSE
      OBVIOUS
    <3>1. proc.open_streams = 0
      BY DEF ExecInv, EndIsLogged
    <3> QED BY <1>1, <3>1, NobodyWrites DEF Writes
  <2>2. proc.exited => \E n \in 1 .. Len(log') : log'[n] = "exited"
    BY <1>3 DEF ExecInv, EndIsLogged
  <2> QED BY <1>1, <2>1, <2>2 DEF EndIsLogged
<1>12. ExecIsFirst' /\ SpawnFollows' /\ CallsFollow' /\ ConnsFollow' /\ StartFollows'
  BY <1>1, <1>2, TaskStartStep
<1>13. ServerTypes' /\ NetTypes' /\ ClientTypes'
  BY <1>1, <1>3, <1>4, <1>8 DEF ExecInv, ServerTypes, NetTypes, ClientTypes
<1> QED BY <1>5, <1>10, <1>11, <1>12, <1>13 DEF ExecInv

LEMMA FinishStep ==
    ASSUME ExecInv, NEW t \in Streams, finish_output_stream(t)
    PROVE  ExecInv'
<1>1. PICK p \in {"closing", "done"} :
        /\ task[t].pc = "run" /\ task' = [task EXCEPT ![t] = [pc |-> p, seq |-> NULL]]
        /\ proc' \in {proc, [proc EXCEPT !.open_streams = @ - 1]}
        /\ UNCHANGED <<entry, log, output, sender, dead, notes, req, reply, opened,
                       status, conn, ev, published, start, asked, rec>>
  BY DEF finish_output_stream, At, Go, net, client, session, starting
<1> DEFINE r == [pc |-> p, seq |-> NULL]
<1>2. t \in Tasks /\ t # "exit"
  BY DEF Tasks
<1>3. r \in TaskState /\ r.pc = p /\ ~Writes(r, log) /\ Writes(task[t], log)
  BY <1>1 DEF TaskState, Writes, NULL
<1> HIDE DEF r
<1>4. Writing # {} /\ t \in Writing
  BY <1>3 DEF Writing
<1>5. Cardinality(Writing) # 0
  BY <1>4, TypeFacts, FS_EmptySet
<1>6. proc.open_streams - 1 \in Nat /\ Cardinality(Writing) <= proc.open_streams
  BY <1>5, TypeFacts DEF ExecInv, TasksFollow
<1>7. /\ proc' \in ProcState /\ proc'.exited = proc.exited /\ proc'.closed = proc.closed
      /\ proc'.killed = proc.killed /\ proc'.spawned = proc.spawned /\ proc'.open_streams >= proc.open_streams - 1
      /\ proc'.open_streams \in Nat
  <2>1. CASE proc' = proc
    BY <1>6, <2>1, TypeFacts
  <2>2. CASE proc' = [proc EXCEPT !.open_streams = @ - 1]
    <3>1. proc \in ProcState
      BY TypeFacts
    <3> QED BY <1>6, <2>2, <3>1 DEF ProcState
  <2> QED BY <1>1, <2>1, <2>2
<1>8. /\ task' \in [Tasks -> TaskState]
      /\ \A u \in Tasks : task'[u].pc = "notify" => task'[u].seq \in 1 .. Len(log')
      /\ task'["exit"].pc = "notify" => log'[task'["exit"].seq] # "output"
      /\ proc'.exited => task'["exit"].pc \notin {"idle", "run"}
      /\ Writing' = {u \in Streams \ {t} : Writes(task[u], log)}
                        \cup (IF Writes(r, log') THEN {t} ELSE {})
  <2>1. task' = [task EXCEPT ![t] = r] /\ log' = log
    BY <1>1 DEF r
  <2>2. r.pc # "notify"
    BY <1>3
  <2> QED BY <1>2, <1>3, <1>7, <2>1, <2>2, TaskStep
<1>9. Writing' = Writing \ {t}
  BY <1>1, <1>3, <1>8 DEF Writing
<1>10. Cardinality(Writing') = Cardinality(Writing) - 1
  BY <1>4, <1>9, TypeFacts, FS_RemoveElement
<1>11. Cardinality(Writing') <= proc'.open_streams
  BY <1>6, <1>7, <1>10, TypeFacts
<1>12. TasksFollow'
  BY <1>8, <1>11 DEF TasksFollow
<1>13. EndIsLogged'
  <2>1. ~proc.closed
    BY <1>5, <1>6, TypeFacts DEF ExecInv, EndIsLogged
  <2> QED BY <1>1, <1>7, <2>1 DEF ExecInv, EndIsLogged
<1>14. ExecIsFirst' /\ SpawnFollows' /\ CallsFollow' /\ ConnsFollow' /\ StartFollows'
  <2>1. task[t].pc # "idle"
    BY <1>1
  <2> QED BY <1>1, <1>2, <1>7, <2>1, TaskStartStep
<1>15. ServerTypes' /\ NetTypes' /\ ClientTypes'
  BY <1>1, <1>7, <1>8 DEF ExecInv, ServerTypes, NetTypes, ClientTypes
<1>16. TransportLogged' /\ EventsAreLogged(ev', published', log')
  BY <1>1 DEF ExecInv, TransportLogged
<1> QED BY <1>12, <1>13, <1>14, <1>15, <1>16 DEF ExecInv

\* The exit of the process and the end of all its output are one event each.
LEMMA EndStep ==
    ASSUME ExecInv, NEW t \in Tasks, (watch_exit /\ t = "exit") \/ maybe_emit_closed(t)
    PROVE  ExecInv'
<1>1. PICK kind \in {"exited", "closed"}, r \in TaskState :
        /\ kind = "exited" => t = "exit" /\ task[t].pc = "run"
        /\ kind = "closed" => task[t].pc = "closing"
        /\ task' = [task EXCEPT ![t] = r]
        /\ UNCHANGED <<entry, output, sender, dead, notes, req, reply, opened,
                       status, conn, ev, published, start, asked, rec>>
        /\ \/ r.pc = "done" /\ log' = log /\ proc' = proc
           \/ /\ r.pc = "notify" /\ r.seq = next_seq
              /\ log' = Append(log, kind)
              /\ \/ kind = "exited" /\ proc' = [proc EXCEPT !.exited = TRUE]
                 \/ /\ kind = "closed" /\ proc' = [proc EXCEPT !.closed = TRUE]
                    /\ proc.open_streams = 0 /\ proc.exited
  <2> DEFINE done == [pc |-> "done", seq |-> NULL]
             tell == [pc |-> "notify", seq |-> next_seq]
  <2>1. done \in TaskState /\ tell \in TaskState
    BY TypeFacts DEF TaskState, NULL, next_seq
  <2>2. CASE watch_exit /\ t = "exit"
    <3>1. /\ "exited" \in {"exited", "closed"} /\ task[t].pc = "run"
          /\ UNCHANGED <<entry, output, sender, dead, notes, req, reply, opened,
                         status, conn, ev, published, start, asked, rec>>
          /\ \/ task' = [task EXCEPT ![t] = done] /\ log' = log /\ proc' = proc
             \/ /\ task' = [task EXCEPT ![t] = tell] /\ log' = Append(log, "exited")
                /\ proc' = [proc EXCEPT !.exited = TRUE]
      BY <2>2 DEF watch_exit, At, Go, net, client, session, starting
    <3> QED BY <2>1, <2>2, <3>1
  <2>3. CASE maybe_emit_closed(t)
    <3>1. /\ "closed" \in {"exited", "closed"} /\ task[t].pc = "closing"
          /\ UNCHANGED <<entry, output, sender, dead, notes, req, reply, opened,
                         status, conn, ev, published, start, asked, rec>>
          /\ \/ task' = [task EXCEPT ![t] = done] /\ log' = log /\ proc' = proc
             \/ /\ task' = [task EXCEPT ![t] = tell] /\ log' = Append(log, "closed")
                /\ proc' = [proc EXCEPT !.closed = TRUE]
                /\ proc.open_streams = 0 /\ proc.exited
      BY <2>3 DEF maybe_emit_closed, At, Go, net, client, session, starting
    <3> QED BY <2>1, <3>1
  <2> QED BY <2>2, <2>3
<1>2. kind \in Kinds /\ kind # "output" /\ Len(log) \in Nat /\ (t \in Streams <=> t # "exit")
  BY TypeFacts DEF Kinds, Tasks
<1>3. CASE r.pc = "done" /\ log' = log /\ proc' = proc
  <2>1. /\ task' \in [Tasks -> TaskState]
        /\ \A u \in Tasks : task'[u].pc = "notify" => task'[u].seq \in 1 .. Len(log')
        /\ task'["exit"].pc = "notify" => log'[task'["exit"].seq] # "output"
        /\ proc'.exited => task'["exit"].pc \notin {"idle", "run"}
        /\ t \in Streams => Writing' = {u \in Streams \ {t} : Writes(task[u], log)}
                                          \cup (IF Writes(r, log') THEN {t} ELSE {})
        /\ t = "exit" => Writing' = Writing
    BY <1>1, <1>3, TaskStep
  <2>2. Writing' = Writing
    <3>1. t \in Streams => ~Writes(r, log') /\ ~Writes(task[t], log)
      BY <1>1, <1>2, <1>3 DEF Writes
    <3>2. CASE t \in Streams
      BY <2>1, <3>1, <3>2, SameWriting
    <3> QED BY <1>2, <2>1, <3>2
  <2>3. TasksFollow' /\ EndIsLogged' /\ TransportLogged' /\ EventsAreLogged(ev', published', log')
    BY <1>1, <1>3, <2>1, <2>2 DEF ExecInv, TasksFollow, EndIsLogged, TransportLogged
  <2>4. ExecIsFirst' /\ SpawnFollows' /\ CallsFollow' /\ ConnsFollow' /\ StartFollows'
    <3>1. task[t].pc # "idle"
      BY <1>1
    <3> QED BY <1>1, <1>3, <3>1, TaskStartStep
  <2>5. ServerTypes' /\ NetTypes' /\ ClientTypes'
    BY <1>1, <1>3, <2>1 DEF ExecInv, ServerTypes, NetTypes, ClientTypes
  <2> QED BY <2>3, <2>4, <2>5 DEF ExecInv
<1>4. CASE /\ r.pc = "notify" /\ r.seq = next_seq
           /\ log' = Append(log, kind)
           /\ \/ kind = "exited" /\ proc' = [proc EXCEPT !.exited = TRUE]
              \/ /\ kind = "closed" /\ proc' = [proc EXCEPT !.closed = TRUE]
                 /\ proc.open_streams = 0 /\ proc.exited
  <2>1. /\ log' \in Seq(Kinds) /\ Len(log') = Len(log) + 1
        /\ \A n \in 1 .. Len(log) : log'[n] = log[n]
        /\ log'[Len(log) + 1] = kind
    BY <1>2, <1>4, TypeFacts, LogGrows
  <2>2. Logged(output', "output", log') /\ output' \subseteq Nat
    <3>1. \A n \in output : n \in 1 .. Len(log) /\ log[n] = "output"
      BY DEF ExecInv, TransportLogged, Logged
    <3>2. \A n \in output : n \in 1 .. Len(log') /\ log'[n] = "output"
      BY <1>2, <2>1, <3>1
    <3> QED BY <1>1, <3>2, TypeFacts DEF Logged
  <2>3. TransportLogged' /\ EventsAreLogged(ev', published', log') /\ Begins(log, log')
    BY <1>1, <1>2, <1>4, <2>2, GrowStep
  <2>4. /\ proc' \in ProcState /\ proc'.killed = proc.killed /\ proc'.spawned = proc.spawned /\ (proc.exited => proc'.exited)
        /\ proc'.open_streams = proc.open_streams
        /\ kind = "exited" => proc'.exited /\ proc'.closed = proc.closed
        /\ kind = "closed" => proc'.exited = proc.exited /\ proc'.closed
    <3>1. proc \in ProcState
      BY TypeFacts
    <3> QED BY <1>4, <3>1 DEF ProcState
  <2>5. r.seq \in 1 .. Len(log') /\ log'[r.seq] = kind
    BY <1>2, <1>4, <2>1 DEF next_seq
  <2>6. /\ task' \in [Tasks -> TaskState]
        /\ \A u \in Tasks : task'[u].pc = "notify" => task'[u].seq \in 1 .. Len(log')
        /\ task'["exit"].pc = "notify" => log'[task'["exit"].seq] # "output"
        /\ proc'.exited => task'["exit"].pc \notin {"idle", "run"}
        /\ t \in Streams => Writing' = {u \in Streams \ {t} : Writes(task[u], log)}
                                          \cup (IF Writes(r, log') THEN {t} ELSE {})
        /\ t = "exit" => Writing' = Writing
    <3>1. t # "exit" => proc'.exited = proc.exited
      BY <1>1, <1>2, <2>4
    <3>2. r.pc \notin {"idle", "run"} /\ log'[r.seq] # "output"
      BY <1>2, <1>4, <2>5
    <3> QED BY <1>1, <2>3, <2>5, <3>1, <3>2, TaskStep
  <2>7. Writing' = Writing
    <3>1. t \in Streams => ~Writes(r, log') /\ ~Writes(task[t], log)
      BY <1>1, <1>2, <1>4, <2>5 DEF Writes
    <3>2. CASE t \in Streams
      BY <2>6, <3>1, <3>2, SameWriting
    <3> QED BY <1>2, <2>6, <3>2
  <2>8. TasksFollow'
    BY <2>4, <2>6, <2>7 DEF ExecInv, TasksFollow
  <2>9. EndIsLogged'
    <3>1. proc'.exited => \E n \in 1 .. Len(log') : log'[n] = "exited"
      <4>1. CASE proc.exited
        BY <1>2, <2>1, <4>1 DEF ExecInv, EndIsLogged
      <4>2. CASE ~proc.exited
        <5>1. proc'.exited => kind = "exited"
          BY <1>1, <2>4, <4>2
        <5> QED BY <2>5, <1>4, <5>1
      <4> QED BY <4>1, <4>2
    <3>2. proc'.closed => kind = "closed"
      <4> SUFFICES ASSUME proc'.closed, kind = "exited" PROVE FALSE
        BY <1>1
      <4>1. proc.closed /\ t = "exit" /\ task[t].pc = "run"
        BY <1>1, <2>4
      <4>2. proc.exited
        BY <4>1 DEF ExecInv, EndIsLogged
      <4> QED BY <4>1, <4>2 DEF ExecInv, TasksFollow
    <3> QED BY <1>2, <1>4, <2>1, <2>4, <3>1, <3>2 DEF EndIsLogged
  <2>10. ExecIsFirst' /\ SpawnFollows' /\ CallsFollow' /\ ConnsFollow' /\ StartFollows'
    <3>1. task[t].pc # "idle"
      BY <1>1
    <3> QED BY <1>1, <2>4, <3>1, TaskStartStep
  <2>11. ServerTypes' /\ NetTypes' /\ ClientTypes'
    BY <1>1, <2>1, <2>2, <2>4, <2>6 DEF ExecInv, ServerTypes, NetTypes, ClientTypes
  <2> QED BY <2>3, <2>8, <2>9, <2>10, <2>11 DEF ExecInv
<1> QED BY <1>1, <1>3, <1>4

LEMMA NotifyStep ==
    ASSUME ExecInv, NEW t \in Tasks, notify(t)
    PROVE  ExecInv'
<1> DEFINE n == task[t].seq
           p == CASE log[n] = "output" -> "run"
                  [] log[n] = "exited" -> "closing"
                  [] log[n] = "closed" -> "done"
           r == [pc |-> p, seq |-> NULL]
<1>1. /\ task[t].pc = "notify" /\ task' = [task EXCEPT ![t] = r]
      /\ notes' = IF sender \in up THEN [notes EXCEPT ![sender] = Append(@, n)] ELSE notes
      /\ UNCHANGED <<entry, log, output, proc, sender, dead, req, reply, opened,
                     status, conn, ev, published, start, asked, rec>>
  BY DEF notify, At, Go, client, session, starting
<1>2. n \in 1 .. Len(log) /\ n \in Nat /\ log[n] \in Kinds
  BY <1>1, TypeFacts DEF ExecInv, TasksFollow
<1>3. /\ p \in {"run", "closing", "done"} /\ (p = "run" <=> log[n] = "output")
      /\ r.pc = p /\ r \in TaskState
  BY <1>2 DEF Kinds, TaskState, NULL
<1>4. t = "exit" => p # "run"
  BY <1>1, <1>3 DEF ExecInv, TasksFollow
<1> HIDE DEF r
<1>5. Writes(r, log) <=> Writes(task[t], log)
  BY <1>1, <1>3 DEF Writes
<1> HIDE DEF p
<1>6. /\ task' \in [Tasks -> TaskState]
      /\ \A u \in Tasks : task'[u].pc = "notify" => task'[u].seq \in 1 .. Len(log')
      /\ task'["exit"].pc = "notify" => log'[task'["exit"].seq] # "output"
      /\ proc'.exited => task'["exit"].pc \notin {"idle", "run"}
      /\ t \in Streams => Writing' = {u \in Streams \ {t} : Writes(task[u], log)}
                                        \cup (IF Writes(r, log') THEN {t} ELSE {})
      /\ t = "exit" => Writing' = Writing
  <2>1. log' = log /\ r.pc # "notify" /\ (t # "exit" => proc'.exited = proc.exited)
        /\ (t = "exit" => r.pc \notin {"idle", "run"})
    BY <1>1, <1>3, <1>4
  <2> QED BY <1>1, <1>3, <2>1, TaskStep
<1>7. Writing' = Writing
  <2>1. CASE t \in Streams
    BY <1>1, <1>5, <1>6, <2>1, SameWriting
  <2>2. CASE t = "exit"
    BY <1>6, <2>2
  <2> QED BY <2>1, <2>2 DEF Tasks
<1>8. /\ notes' \in [Conns -> Seq(Nat)]
      /\ \A c \in Conns : \A i \in 1 .. Len(notes'[c]) : notes'[c][i] \in 1 .. Len(log)
  <2>1. \A c \in Conns : \A i \in 1 .. Len(notes[c]) : notes[c][i] \in 1 .. Len(log)
    BY DEF ExecInv, TransportLogged
  <2>2. CASE notes' = notes
    BY <2>1, <2>2, TypeFacts
  <2>3. CASE notes' = [notes EXCEPT ![sender] = Append(@, n)] /\ sender \in Conns
    <3>1. notes \in [Conns -> Seq(Nat)]
      BY TypeFacts
    <3>2. notes[sender] \in Seq(Nat)
      BY <2>3, <3>1
    <3> DEFINE q == Append(notes[sender], n)
    <3>3. /\ q \in Seq(Nat) /\ Len(q) = Len(notes[sender]) + 1 /\ Len(notes[sender]) \in Nat
          /\ \A i \in 1 .. Len(notes[sender]) : q[i] = notes[sender][i]
          /\ q[Len(notes[sender]) + 1] = n
      BY <1>2, <3>2, AppendProperties
    <3> HIDE DEF q, n
    <3>4. notes' = [notes EXCEPT ![sender] = q]
      BY <2>3 DEF q
    <3>5. notes' \in [Conns -> Seq(Nat)] /\ \A c \in Conns : notes'[c] = IF c = sender THEN q ELSE notes[c]
      BY <2>3, <3>1, <3>3, <3>4
    <3>6. \A i \in 1 .. Len(q) : q[i] \in 1 .. Len(log)
      <4> SUFFICES ASSUME NEW i \in 1 .. Len(q) PROVE q[i] \in 1 .. Len(log)
        OBVIOUS
      <4>1. CASE i <= Len(notes[sender])
        <5>1. i \in 1 .. Len(notes[sender])
          BY <3>3, <4>1
        <5> QED BY <2>1, <2>3, <3>3, <5>1
      <4>2. CASE i = Len(notes[sender]) + 1
        BY <1>2, <3>3, <4>2
      <4> QED BY <3>3, <4>1, <4>2
    <3> QED BY <2>1, <3>5, <3>6
  <2>4. notes' = notes \/ (notes' = [notes EXCEPT ![sender] = Append(@, n)] /\ sender \in Conns)
    <3>1. CASE sender \notin Conns
      <4>1. [notes EXCEPT ![sender] = Append(@, n)] = notes
        BY <3>1, TypeFacts
      <4> QED BY <1>1, <4>1
    <3> QED BY <1>1, <3>1
  <2> QED BY <2>2, <2>3, <2>4
<1>9. TasksFollow' /\ EndIsLogged' /\ EventsAreLogged(ev', published', log')
  BY <1>1, <1>6, <1>7 DEF ExecInv, TasksFollow, EndIsLogged
<1>10. TransportLogged'
  BY <1>1, <1>8 DEF ExecInv, TransportLogged
<1>11. ExecIsFirst' /\ SpawnFollows' /\ CallsFollow' /\ ConnsFollow' /\ StartFollows'
  <2>1. task[t].pc # "idle"
    BY <1>1
  <2> QED BY <1>1, <2>1, TaskStartStep
<1>12. ServerTypes' /\ NetTypes' /\ ClientTypes'
  BY <1>1, <1>6, <1>8 DEF ExecInv, ServerTypes, NetTypes, ClientTypes
<1> QED BY <1>9, <1>10, <1>11, <1>12 DEF ExecInv

-----------------------------------------------------------------------------
(* What a step leaves of the parts it does not touch.                      *)

\* No task steps.
LEMMA TasksRest ==
    ASSUME ExecInv, UNCHANGED <<log, task>>, proc'.exited = proc.exited,
           proc'.closed = proc.closed, proc'.open_streams = proc.open_streams
    PROVE  TasksFollow' /\ EndIsLogged'
<1>1. Writing' = Writing
  BY DEF Writing
<1>2. TasksFollow'
  BY <1>1 DEF ExecInv, TasksFollow
<1>3. EndIsLogged'
  BY DEF ExecInv, EndIsLogged
<1> QED BY <1>2, <1>3

\* The connections that are in use.
LEMMA ConnFacts ==
    ASSUME ExecInv
    PROVE  /\ Conns \subseteq Nat /\ 1 \in Conns /\ NULL \notin Conns /\ NULL = 0
           /\ opened \in Conns /\ conn \in Conns /\ conn <= opened
           /\ rec.pc \in {"initialize", "read", "terminate", "install"} =>
                 rec.conn \in Conns /\ rec.conn # conn /\ rec.conn # 1 /\ rec.conn <= opened
           /\ rec.pc \in {"idle", "starts", "connect"} => rec.conn = NULL
           /\ rec.conn # NULL => rec.pc \in {"initialize", "read", "terminate", "install"}
           /\ start = "terminating" => asked \in Conns /\ asked <= opened /\ asked # rec.conn
           /\ start # "terminating" => asked = NULL
           /\ \A c \in Conns : req[c].op # "none" \/ reply[c].st # "none" => c <= opened
<1>1. Conns \subseteq Nat /\ 1 \in Conns /\ NULL \notin Conns /\ NULL = 0
  BY DEF Conns, NULL
<1>2. opened \in Conns /\ conn \in Conns /\ conn <= opened
  BY DEF ExecInv, NetTypes, ClientTypes, ConnsFollow
<1>3. /\ rec.pc \in {"idle", "starts", "connect", "initialize", "read", "terminate", "install"}
      /\ rec.conn \in Conns \cup {NULL}
      /\ rec.conn # NULL <=> rec.pc \in {"initialize", "read", "terminate", "install"}
  BY DEF ExecInv, ClientTypes, RecoveryState
<1>4. rec.conn # NULL => rec.conn # conn /\ rec.conn # 1 /\ rec.conn <= opened
  BY DEF ExecInv, ConnsFollow
<1>5. /\ start = "terminating" => asked \in Conns /\ asked <= opened /\ asked # rec.conn
      /\ start # "terminating" => asked = NULL
  BY DEF ExecInv, ClientTypes, StartFollows
<1>6. \A c \in Conns : req[c].op # "none" \/ reply[c].st # "none" => c <= opened
  <2>1. \A c \in Conns : c > opened => req[c].op = "none" /\ reply[c].st = "none"
    BY DEF ExecInv, ConnsFollow
  <2> QED BY <1>1, <1>2, <2>1
<1> QED BY <1>1, <1>2, <1>3, <1>4, <1>5, <1>6

\* A connection carries another request, but not one that starts a process.
LEMMA RequestStep ==
    ASSUME ExecInv, NEW c \in Conns, NEW r \in AnyRequest, r.op \notin Starts,
           req' = [req EXCEPT ![c] = r] \/ req' = req
    PROVE  /\ req' \in [Conns -> AnyRequest]
           /\ \A d \in Conns : d # c => req'[d] = req[d]
           /\ req'[c] \in {r, req[c]}
           /\ \A d \in Conns : req'[d].op \in Starts => req'[d] = req[d]
           /\ NoExec => NoExec'
           /\ req[c].op \notin Starts => (NoExec' => NoExec)
<1>1. req \in [Conns -> AnyRequest]
  BY TypeFacts
<1>2. req' \in [Conns -> AnyRequest] /\ \A d \in Conns : d # c => req'[d] = req[d]
  BY <1>1
<1>3. req'[c] \in {r, req[c]}
  BY <1>1
<1>4. \A d \in Conns : req'[d].op \in Starts => req'[d] = req[d]
  BY <1>2, <1>3
<1> QED BY <1>2, <1>3, <1>4 DEF NoExec

\* A connection carries another reply, or loses what it carried.
LEMMA ReplyStep ==
    ASSUME ExecInv, NEW c \in Conns, NEW r \in AnyReply, r.st = "read" => ReadIsLogged(r, log),
           reply' = [reply EXCEPT ![c] = r] \/ reply' = reply,
           notes' = [notes EXCEPT ![c] = <<>>] \/ notes' = notes,
           log' = log, output' \subseteq output
    PROVE  /\ reply' \in [Conns -> AnyReply]
           /\ notes' \in [Conns -> Seq(Nat)]
           /\ \A d \in Conns : d # c => reply'[d] = reply[d]
           /\ reply'[c] \in {r, reply[c]}
           /\ TransportLogged'
<1>1. reply \in [Conns -> AnyReply] /\ notes \in [Conns -> Seq(Nat)]
  BY TypeFacts
<1>2. reply' \in [Conns -> AnyReply] /\ \A d \in Conns : d # c => reply'[d] = reply[d]
  BY <1>1
<1>3. reply'[c] \in {r, reply[c]}
  BY <1>1
<1>4. notes' \in [Conns -> Seq(Nat)] /\ \A d \in Conns : notes'[d] \in {<<>>, notes[d]}
  <2>1. CASE notes' = notes
    BY <1>1, <2>1
  <2>2. CASE notes' = [notes EXCEPT ![c] = <<>>]
    <3> DEFINE z == <<>>
    <3>1. z \in Seq(Nat)
      OBVIOUS
    <3> HIDE DEF z
    <3>2. notes' = [notes EXCEPT ![c] = z]
      BY <2>2 DEF z
    <3>3. notes' \in [Conns -> Seq(Nat)] /\ \A d \in Conns : notes'[d] \in {z, notes[d]}
      BY <1>1, <3>1, <3>2
    <3> QED BY <3>3 DEF z
  <2> QED BY <2>1, <2>2
<1>5. \A d \in Conns : \A i \in 1 .. Len(notes'[d]) : notes'[d][i] \in 1 .. Len(log)
  <2> SUFFICES ASSUME NEW d \in Conns, NEW i \in 1 .. Len(notes'[d])
               PROVE  notes'[d][i] \in 1 .. Len(log)
    OBVIOUS
  <2>1. CASE notes'[d] = <<>>
    <3>1. Len(notes'[d]) = 0
      BY <2>1
    <3> QED BY <3>1
  <2>2. CASE notes'[d] = notes[d]
    BY <2>2 DEF ExecInv, TransportLogged
  <2> QED BY <1>4, <2>1, <2>2
<1>6. \A d \in Conns : reply'[d].st = "read" => ReadIsLogged(reply'[d], log)
  BY <1>2, <1>3 DEF ExecInv, TransportLogged
<1>7. Logged(output', "output", log)
  BY DEF ExecInv, TransportLogged, Logged
<1>8. TransportLogged'
  BY <1>5, <1>6, <1>7 DEF TransportLogged
<1> QED BY <1>2, <1>3, <1>4, <1>8

\* run_connection has answered a request.
LEMMA AnswerStep ==
    ASSUME ExecInv, NEW c \in Conns, NEW r \in AnyReply, r.st = "read" => ReadIsLogged(r, log),
           Answer(c, r), log' = log, output' = output
    PROVE  /\ NetTypes' /\ TransportLogged'
           /\ ClientTypes' /\ EventsAreLogged(ev', published', log')
           /\ \A d \in Conns : d # c => req'[d] = req[d] /\ reply'[d] = reply[d]
           /\ req'[c].op = "none" /\ reply'[c] \in {r, reply[c]}
           /\ NoExec => NoExec'
           /\ req[c].op \notin Starts => (NoExec' => NoExec)
           /\ CallsFollow'
           /\ UNCHANGED <<dead, opened, status, conn, start, asked, rec>>
<1> DEFINE q == Request("none")
           s == IF c \in up THEN r ELSE reply[c]
<1>1. /\ req' = [req EXCEPT ![c] = q] /\ reply' = [reply EXCEPT ![c] = s]
      /\ UNCHANGED <<dead, notes, opened, status, conn, ev, published, start, asked, rec>>
  BY DEF Answer, client, session, starting
<1>2. q \in AnyRequest /\ q.op = "none" /\ q.op \notin Starts
  BY RequestFacts DEF Starts
<1>3. reply \in [Conns -> AnyReply] /\ req \in [Conns -> AnyRequest]
  BY TypeFacts
<1>4. reply' = [reply EXCEPT ![c] = r] \/ reply' = reply
  BY <1>1, <1>3
<1> HIDE DEF q, s
<1>5. /\ req' \in [Conns -> AnyRequest]
      /\ \A d \in Conns : d # c => req'[d] = req[d]
      /\ NoExec => NoExec'
      /\ req[c].op \notin Starts => (NoExec' => NoExec)
  BY <1>1, <1>2, RequestStep
<1>6. req'[c].op = "none"
  BY <1>1, <1>2, <1>3
<1>7. /\ reply' \in [Conns -> AnyReply] /\ notes' \in [Conns -> Seq(Nat)]
      /\ \A d \in Conns : d # c => reply'[d] = reply[d]
      /\ reply'[c] \in {r, reply[c]} /\ TransportLogged'
  BY <1>1, <1>4, ReplyStep
<1>8. NetTypes' /\ ClientTypes' /\ EventsAreLogged(ev', published', log')
  BY <1>1, <1>5, <1>7 DEF ExecInv, NetTypes, ClientTypes
<1>9. CallsFollow'
  <2>1. \A d \in Conns : req'[d].op \in {"none", req[d].op}
    BY <1>5, <1>6
  <2>2. \A d \in Conns : reply'[d].st # "none" => req'[d].op = "none"
    BY <1>5, <1>6, <1>7 DEF ExecInv, CallsFollow
  <2> QED BY <1>1, <1>5, <2>1, <2>2, ConnFacts DEF ExecInv, CallsFollow
<1> QED BY <1>1, <1>5, <1>6, <1>7, <1>8, <1>9

-----------------------------------------------------------------------------
(* Steps of the server's connections.                                      *)

LEMMA RemoveStep ==
    ASSUME ExecInv, remove_closed
    PROVE  ExecInv'
<1>1. /\ proc.closed /\ entry' = "removed" /\ output' = {}
      /\ UNCHANGED <<log, proc, task, sender, dead, notes, req, reply, opened,
                     status, conn, ev, published, start, asked, rec>>
  BY DEF remove_closed, net, client, session, starting
<1>2. NoExec /\ NoExec'
  BY <1>1 DEF ExecInv, ExecIsFirst, NoExec
<1>3. TasksFollow' /\ EndIsLogged'
  BY <1>1, TasksRest
<1>4. TransportLogged' /\ EventsAreLogged(ev', published', log')
  BY <1>1 DEF ExecInv, TransportLogged, Logged
<1>5. ServerTypes' /\ NetTypes' /\ ClientTypes'
  BY <1>1 DEF ExecInv, ServerTypes, NetTypes, ClientTypes
<1>6. ExecIsFirst' /\ ConnsFollow' /\ CallsFollow'
  BY <1>1, <1>2 DEF ExecInv, ExecIsFirst, ConnsFollow, CallsFollow, NoExec
<1>7. Stopped' /\ SpawnFollows'
  BY <1>1 DEF ExecInv, EndIsLogged, Stopped, SpawnFollows
<1>8. StartFollows'
  BY <1>1, <1>2, <1>7 DEF ExecInv, StartFollows
<1> QED BY <1>3, <1>4, <1>5, <1>6, <1>7, <1>8 DEF ExecInv

\* The handler of the request is done with it: it leaves the process started,
\* with all its streams open, or none.
LEMMA StartAnswered ==
    ASSUME ExecInv, NEW c \in Conns, req[c].op \in Starts, NEW r \in {Reply("ok"), Reply("failed")},
           Answer(c, r), UNCHANGED <<log, output, proc, sender>>,
           entry' \in {"none", "running", "removed"},
           task' \in {task, [t \in Tasks |-> [pc |-> "run", seq |-> NULL]]},
           proc.spawned => entry' = "running" /\ r # Reply("failed")
    PROVE  ExecInv'
<1>1. /\ c = 1 /\ sender = 1 /\ log = <<>>
      /\ ~proc.exited /\ ~proc.closed /\ proc.open_streams = Cardinality(Streams)
      /\ \A t \in Tasks : task[t].pc = "idle"
      /\ \A d \in Conns : d # c => req[d].op \notin Starts
  BY DEF ExecInv, ExecIsFirst
<1>2. r \in AnyReply /\ r.st # "read" /\ r.st # "none" /\ (r.st = "failed" => r = Reply("failed"))
  BY ReplyFacts
<1>3. /\ NetTypes' /\ TransportLogged'
      /\ ClientTypes' /\ EventsAreLogged(ev', published', log')
      /\ \A d \in Conns : d # c => req'[d] = req[d] /\ reply'[d] = reply[d]
      /\ req'[c].op = "none" /\ reply'[c] \in {r, reply[c]}
      /\ CallsFollow'
      /\ UNCHANGED <<dead, opened, status, conn, start, asked, rec>>
  BY <1>2, AnswerStep
<1>4. NoExec' /\ ~NoExec
  BY <1>1, <1>3 DEF NoExec, Starts
<1>5. /\ task' \in [Tasks -> TaskState] /\ \A t \in Tasks : task'[t].pc \in {"idle", "run"}
  <2>1. CASE task' = task
    BY <1>1, <2>1, TypeFacts
  <2>2. CASE task' = [t \in Tasks |-> [pc |-> "run", seq |-> NULL]]
    BY <2>2 DEF TaskState, NULL
  <2> QED BY <2>1, <2>2
<1>6. TasksFollow'
  <2>1. Writing' = Streams
    BY <1>5 DEF Writing, Writes, Tasks
  <2>2. Cardinality(Streams) \in Nat
    BY FS_CardinalityType
  <2>3. "exit" \in Tasks
    BY DEF Tasks
  <2> QED BY <1>1, <1>5, <2>1, <2>2, <2>3 DEF TasksFollow
<1>7. EndIsLogged'
  BY <1>1 DEF EndIsLogged
<1>8. ServerTypes'
  BY <1>5 DEF ExecInv, ServerTypes
<1>9. ExecIsFirst' /\ SpawnFollows'
  BY <1>4 DEF ExecIsFirst, SpawnFollows, Running, NoExec
<1>10. ConnsFollow'
  <2>1. \A d \in Conns : d > opened => d # c
    BY DEF ExecInv, ConnsFollow, Starts
  <2>2. \A d \in Conns : d > opened' => req'[d].op = "none" /\ reply'[d].st = "none"
    BY <1>3, <2>1 DEF ExecInv, ConnsFollow
  <2>3. rec.conn # NULL => rec.conn # conn /\ rec.conn # c /\ rec.conn \in Conns
    BY <1>1 DEF ExecInv, ConnsFollow, ClientTypes, RecoveryState
  <2>4. rec.pc = "initialize" => rec.conn # NULL
    BY DEF ExecInv, ClientTypes, RecoveryState
  <2>5. rec'.pc = "initialize" =>
          /\ req'[rec'.conn].op \in {"none", "initialize"}
          /\ reply'[rec'.conn].st = "ok" => NoExec'
    BY <1>3, <1>4, <2>3, <2>4 DEF ExecInv, ConnsFollow
  <2> QED BY <1>1, <1>3, <1>4, <2>2, <2>5 DEF ExecInv, ConnsFollow
<1>11. StartFollows'
  <2>1. start # "terminating" /\ (start = "over" /\ status # "failed" => proc.killed)
    BY <1>1, <1>4 DEF ExecInv, StartFollows, Stopped
  <2>2. \A d \in Conns : reply[d].st # "failed"
    BY <1>4 DEF ExecInv, StartFollows
  <2>3. \A d \in Conns : reply'[d].st = "failed" => ~proc'.spawned /\ NoExec'
    BY <1>2, <1>3, <1>4, <2>2
  <2> QED BY <1>3, <2>1, <2>3 DEF StartFollows, Stopped
<1> QED BY <1>3, <1>6, <1>7, <1>8, <1>9, <1>10, <1>11 DEF ExecInv

LEMMA ExecStep ==
    ASSUME ExecInv, NEW c \in Conns, exec(c)
    PROVE  ExecInv'
<1>1. req[c].op = "exec" /\ req[c].op \in Starts
  BY DEF exec, Starts
<1>2. /\ c = 1 /\ sender = 1 /\ entry = "none" /\ log = <<>> /\ ~proc.spawned
      /\ ~proc.exited /\ ~proc.closed /\ proc.open_streams = Cardinality(Streams)
      /\ \A t \in Tasks : task[t].pc = "idle"
      /\ \A d \in Conns : d # c => req[d].op \notin Starts
  BY <1>1 DEF ExecInv, ExecIsFirst
<1>3. CASE Answer(c, Reply("failed")) /\ UNCHANGED <<entry, proc>>
  <2>1. UNCHANGED <<log, output, proc, task, sender>>
    BY <1>3 DEF exec
  <2> QED BY <1>1, <1>2, <1>3, <2>1, StartAnswered
<1>4. ASSUME NEW b \in BOOLEAN, entry' = "starting", proc' = [proc EXCEPT !.spawned = b],
             req' = [req EXCEPT ![c] = Request(IF b THEN "spawned" ELSE "not spawned")],
             UNCHANGED <<dead, notes, reply, opened, client>>
      PROVE  ExecInv'
  <2> DEFINE q == Request(IF b THEN "spawned" ELSE "not spawned")
  <2>1. /\ q \in AnyRequest /\ q.op \in {"spawned", "not spawned"} /\ q.op \in Starts
        /\ q.op = "spawned" <=> b
    BY RequestFacts DEF Starts
  <2>2. req' = [req EXCEPT ![c] = q]
    BY <1>4
  <2> HIDE DEF q
  <2>3. UNCHANGED <<log, output, task, sender, dead, notes, reply, opened,
                    status, conn, ev, published, start, asked, rec>>
    BY <1>4 DEF exec, client, session, starting
  <2>4. /\ req' \in [Conns -> AnyRequest] /\ req'[c] = q
        /\ \A d \in Conns : d # c => req'[d] = req[d]
    BY <2>1, <2>2, TypeFacts
  <2>5. proc \in ProcState
    BY TypeFacts
  <2>6. /\ proc' \in ProcState /\ proc'.exited = proc.exited /\ proc'.closed = proc.closed
        /\ proc'.open_streams = proc.open_streams /\ proc'.killed = proc.killed
        /\ proc'.spawned = b
    BY <1>4, <2>5 DEF ProcState
  <2>7. ~NoExec /\ ~NoExec'
    BY <1>1, <2>1, <2>4 DEF NoExec
  <2>8. ServerTypes' /\ NetTypes' /\ ClientTypes'
    BY <1>4, <2>3, <2>4, <2>6 DEF ExecInv, ServerTypes, NetTypes, ClientTypes
  <2>9. TasksFollow' /\ EndIsLogged'
    BY <2>3, <2>6, TasksRest
  <2>10. TransportLogged' /\ EventsAreLogged(ev', published', log')
    BY <2>3 DEF ExecInv, TransportLogged
  <2>11. ExecIsFirst'
    <3> SUFFICES ASSUME NEW d \in Conns, req'[d].op \in Starts
                 PROVE  /\ d = 1 /\ sender' = 1 /\ log' = <<>>
                        /\ entry' = IF req'[d].op = "exec" THEN "none" ELSE "starting"
                        /\ proc'.spawned <=> req'[d].op = "spawned"
                        /\ ~proc'.exited /\ ~proc'.closed
                        /\ proc'.open_streams = Cardinality(Streams)
                        /\ \A t \in Tasks : task'[t].pc = "idle"
      BY DEF ExecIsFirst
    <3>1. d = c /\ req'[d].op = q.op
      BY <1>2, <2>4
    <3> QED BY <1>2, <1>4, <2>1, <2>3, <2>6, <3>1
  <2>12. SpawnFollows'
    BY <2>7 DEF SpawnFollows
  <2>13. /\ reply[c].st = "none" /\ c <= opened /\ opened \in Nat /\ c \in Nat
         /\ rec.pc \in {"initialize", "read", "terminate", "install"} => rec.conn # c /\ rec.conn \in Conns
    BY <1>1, <1>2, ConnFacts DEF ExecInv, CallsFollow
  <2>14. CallsFollow'
    <3>1. \A d \in Conns : reply'[d].st # "none" => req'[d].op = "none"
      BY <2>3, <2>4, <2>13 DEF ExecInv, CallsFollow
    <3>2. status = "connected" => req'[conn].op \notin {"initialize", "read"}
      BY <2>1, <2>4, ConnFacts DEF ExecInv, CallsFollow
    <3>3. \A d \in Conns : req'[d].op # "terminate"
      BY <2>1, <2>4, <2>7 DEF ExecInv, CallsFollow
    <3> QED BY <2>3, <2>4, <2>7, <2>13, <3>1, <3>2, <3>3 DEF ExecInv, CallsFollow
  <2>15. ConnsFollow'
    <3>1. \A d \in Conns : d > opened => d # c
      BY <2>13
    <3>2. \A d \in Conns : d > opened' => req'[d].op = "none" /\ reply'[d].st = "none"
      BY <2>3, <2>4, <3>1 DEF ExecInv, ConnsFollow
    <3>3. rec.pc = "initialize" =>
             req'[rec.conn].op \in {"none", "initialize"} /\ reply[rec.conn].st # "ok"
      BY <2>4, <2>7, <2>13 DEF ExecInv, ConnsFollow
    <3> QED BY <2>3, <2>7, <3>2, <3>3 DEF ExecInv, ConnsFollow
  <2>16. StartFollows'
    <3>1. /\ start # "terminating" /\ (start = "over" /\ status # "failed" => proc.killed)
          /\ \A d \in Conns : reply[d].st # "failed"
      BY <1>2, <2>7 DEF ExecInv, StartFollows, Stopped
    <3> QED BY <2>3, <2>6, <3>1 DEF StartFollows, Stopped
  <2> QED BY <2>8, <2>9, <2>10, <2>11, <2>12, <2>14, <2>15, <2>16 DEF ExecInv
<1> QED BY <1>3, <1>4 DEF exec

LEMMA StartProcessStep ==
    ASSUME ExecInv, NEW c \in Conns, start_process(c)
    PROVE  ExecInv'
<1>1. /\ req[c].op \in Starts /\ UNCHANGED <<log, output, proc, sender>>
      /\ \/ /\ req[c].op = "spawned" /\ entry' = "running"
            /\ task' = [t \in Tasks |-> [pc |-> "run", seq |-> NULL]]
            /\ Answer(c, Reply("ok"))
         \/ /\ req[c].op = "not spawned" /\ entry' = "removed" /\ task' = task
            /\ Answer(c, Reply("failed"))
  BY DEF start_process, Starts
<1>2. proc.spawned <=> req[c].op = "spawned"
  BY <1>1 DEF ExecInv, ExecIsFirst
<1>3. Reply("ok") # Reply("failed")
  BY ReplyFacts
<1> QED BY <1>1, <1>2, <1>3, StartAnswered

LEMMA AttachStep ==
    ASSUME ExecInv, NEW c \in Conns, attach(c)
    PROVE  ExecInv'
<1> DEFINE st == CASE gone -> "unknown session"
                   [] ~gone /\ sender # NULL -> "attached"
                   [] OTHER -> "ok"
           r == Reply(st)
<1>1. /\ req[c].op = "initialize" /\ Answer(c, r)
      /\ sender' \in {sender, c} /\ (sender # NULL => sender' = sender)
      /\ UNCHANGED <<entry, log, output, proc, task>>
  BY DEF attach
<1>2. st \in {"unknown session", "attached", "ok"} /\ (st = "ok" => sender = NULL)
  OBVIOUS
<1>3. r \in AnyReply /\ r.st = st
  BY <1>2, ReplyFacts
<1> HIDE DEF st, r
<1>4. /\ NetTypes' /\ TransportLogged'
      /\ ClientTypes' /\ EventsAreLogged(ev', published', log')
      /\ \A d \in Conns : d # c => req'[d] = req[d] /\ reply'[d] = reply[d]
      /\ req'[c].op = "none" /\ reply'[c] \in {r, reply[c]}
      /\ NoExec => NoExec'
      /\ req[c].op \notin Starts => (NoExec' => NoExec)
      /\ CallsFollow'
      /\ UNCHANGED <<dead, opened, status, conn, start, asked, rec>>
  BY <1>1, <1>2, <1>3, AnswerStep
<1>5. sender = NULL => NoExec /\ NoExec'
  <2>1. sender = NULL => sender # 1
    BY DEF NULL
  <2> QED BY <1>4, <2>1 DEF ExecInv, ExecIsFirst, NoExec
<1>6. ServerTypes'
  BY <1>1 DEF ExecInv, ServerTypes
<1>7. TasksFollow' /\ EndIsLogged'
  BY <1>1, TasksRest
<1>8. ExecIsFirst'
  <2>1. CASE sender = NULL
    BY <1>5, <2>1 DEF ExecIsFirst, NoExec
  <2>2. CASE sender # NULL
    <3>1. \A d \in Conns : req'[d].op \in Starts => req'[d] = req[d]
      BY <1>4 DEF Starts
    <3> QED BY <1>1, <2>2, <3>1 DEF ExecInv, ExecIsFirst
  <2> QED BY <2>1, <2>2
<1>9. ConnsFollow'
  <2>1. \A d \in Conns : d > opened => d # c
    BY <1>1 DEF ExecInv, ConnsFollow
  <2>2. \A d \in Conns : d > opened' => req'[d].op = "none" /\ reply'[d].st = "none"
    BY <1>4, <2>1 DEF ExecInv, ConnsFollow
  <2>3. rec.pc = "initialize" =>
          /\ req'[rec.conn].op \in {"none", "initialize"}
          /\ reply'[rec.conn].st = "ok" => NoExec'
    <3> SUFFICES ASSUME rec.pc = "initialize"
                 PROVE  /\ req'[rec.conn].op \in {"none", "initialize"}
                        /\ reply'[rec.conn].st = "ok" => NoExec'
      OBVIOUS
    <3>1. rec.conn \in Conns
      BY ConnFacts
    <3>2. req[rec.conn].op \in {"none", "initialize"} /\ (reply[rec.conn].st = "ok" => NoExec)
      BY DEF ExecInv, ConnsFollow
    <3>3. reply'[rec.conn] = reply[rec.conn] \/ reply'[rec.conn] = r
      BY <1>4, <3>1
    <3> QED BY <1>2, <1>3, <1>4, <1>5, <3>1, <3>2, <3>3
  <2> QED BY <1>4, <2>2, <2>3 DEF ExecInv, ConnsFollow
<1>10. StartFollows'
  <2>1. Stopped => Stopped'
    BY <1>1, <1>4 DEF Stopped
  <2>2. \A d \in Conns : reply'[d].st = "failed" => reply[d].st = "failed"
    BY <1>2, <1>3, <1>4
  <2>3. start = "terminating" =>
           asked \in Conns /\ asked # c /\ req'[asked] = req[asked] /\ reply'[asked] = reply[asked]
    BY <1>1, <1>4, ConnFacts DEF ExecInv, StartFollows
  <2> QED BY <1>1, <1>4, <2>1, <2>2, <2>3 DEF ExecInv, StartFollows
<1>11. SpawnFollows'
  BY <1>1, <1>4 DEF ExecInv, SpawnFollows, Running, Starts
<1> QED BY <1>4, <1>6, <1>7, <1>8, <1>9, <1>10, <1>11 DEF ExecInv

\* A request that does not start a process or a session is answered.
LEMMA HandleStep ==
    ASSUME ExecInv, NEW c \in Conns, NEW r \in AnyReply, r.st = "read" => ReadIsLogged(r, log),
           r.st # "failed", req[c].op \in {"read", "terminate"}, Answer(c, r),
           UNCHANGED <<log, output, task, sender>>,
           entry' = entry \/ (entry = "starting" /\ NoExec /\ entry' = "removed"),
           proc' \in ProcState, proc'.exited = proc.exited, proc'.closed = proc.closed,
           proc'.open_streams = proc.open_streams, proc'.spawned = proc.spawned,
           proc.killed => proc'.killed,
           req[c].op = "terminate" /\ NoExec => Stopped'
    PROVE  ExecInv'
<1>4. /\ NetTypes' /\ TransportLogged'
      /\ ClientTypes' /\ EventsAreLogged(ev', published', log')
      /\ \A d \in Conns : d # c => req'[d] = req[d] /\ reply'[d] = reply[d]
      /\ req'[c].op = "none" /\ reply'[c] \in {r, reply[c]}
      /\ NoExec => NoExec'
      /\ req[c].op \notin Starts => (NoExec' => NoExec)
      /\ CallsFollow'
      /\ UNCHANGED <<dead, opened, status, conn, start, asked, rec>>
  BY AnswerStep
<1>6. ServerTypes'
  BY DEF ExecInv, ServerTypes
<1>7. TasksFollow' /\ EndIsLogged'
  BY TasksRest
<1>8. ExecIsFirst'
  <2>1. \A d \in Conns : req'[d].op \in Starts => req'[d] = req[d]
    BY <1>4 DEF Starts
  <2>2. CASE entry' = entry
    BY <2>1, <2>2 DEF ExecInv, ExecIsFirst
  <2>3. CASE NoExec
    BY <1>4, <2>3 DEF ExecIsFirst, NoExec
  <2> QED BY <2>2, <2>3
<1>9. ConnsFollow'
  <2>1. \A d \in Conns : d > opened => d # c
    BY DEF ExecInv, ConnsFollow
  <2>2. \A d \in Conns : d > opened' => req'[d].op = "none" /\ reply'[d].st = "none"
    BY <1>4, <2>1 DEF ExecInv, ConnsFollow
  <2>3. rec.pc = "initialize" =>
          /\ req'[rec.conn].op \in {"none", "initialize"}
          /\ reply'[rec.conn].st = "ok" => NoExec'
    BY <1>4, ConnFacts DEF ExecInv, ConnsFollow
  <2> QED BY <1>4, <2>2, <2>3 DEF ExecInv, ConnsFollow
<1>10. StartFollows'
  <2>1. Stopped => Stopped'
    BY <1>4 DEF Stopped
  <2>2. \A d \in Conns : reply'[d].st = "failed" => reply[d].st = "failed"
    BY <1>4
  <2>3. \A d \in Conns : reply'[d].st = "failed" => ~proc'.spawned /\ NoExec'
    BY <1>4, <2>2 DEF ExecInv, StartFollows
  <2>4. start = "terminating" =>
           /\ req'[asked].op \in {"none", "terminate"}
           /\ reply'[asked].st # "none" => Stopped'
    <3> SUFFICES ASSUME start = "terminating"
                 PROVE  /\ req'[asked].op \in {"none", "terminate"}
                        /\ reply'[asked].st # "none" => Stopped'
      OBVIOUS
    <3>1. /\ asked \in Conns /\ req[asked].op \in {"none", "terminate"} /\ NoExec
          /\ reply[asked].st # "none" => Stopped
      BY ConnFacts DEF ExecInv, StartFollows
    <3>2. CASE asked = c
      BY <1>4, <3>1, <3>2
    <3>3. CASE asked # c
      BY <1>4, <2>1, <3>1, <3>3
    <3> QED BY <3>2, <3>3
  <2> QED BY <1>4, <2>1, <2>3, <2>4 DEF ExecInv, StartFollows
<1>11. SpawnFollows'
  BY <1>4 DEF ExecInv, SpawnFollows, Running, Starts
<1> QED BY <1>4, <1>6, <1>7, <1>8, <1>9, <1>10, <1>11 DEF ExecInv

LEMMA ReadStep ==
    ASSUME ExecInv, NEW c \in Conns, read(c)
    PROVE  ExecInv'
<1> DEFINE a == req[c].after
           chunks == {n \in output : n > a}
           x == [st |-> "read", chunks |-> chunks, next_seq |-> next_seq,
                 exited |-> proc.exited, closed |-> proc.closed]
           r == exec_read(a)
<1>1. /\ req[c].op = "read" /\ Answer(c, r)
      /\ UNCHANGED <<entry, log, output, proc, task, sender>>
  BY DEF read, server
<1>2. r = x \/ r = Reply("unknown process")
  BY DEF exec_read
<1>3. chunks \in SUBSET Nat /\ next_seq \in Nat /\ next_seq = Len(log) + 1 /\ Len(log) \in Nat
      /\ proc.exited \in BOOLEAN /\ proc.closed \in BOOLEAN
  BY TypeFacts DEF next_seq
<1> HIDE DEF r
<1>4. \A n \in chunks : n \in 1 .. Len(log) /\ log[n] = "output"
  BY DEF ExecInv, TransportLogged, Logged
<1> HIDE DEF a, chunks
<1>5. x \in ReadReply /\ x.st = "read" /\ x.chunks = chunks /\ x.next_seq = Len(log) + 1
      /\ x.exited = proc.exited /\ x.closed = proc.closed
  BY <1>3 DEF ReadReply
<1> HIDE DEF x
<1>6. ReadIsLogged(x, log)
  <2>1. x.next_seq - 1 = Len(log) /\ x.next_seq \in 1 .. Len(log) + 1
    BY <1>3, <1>5
  <2>2. x.closed => x.next_seq > 1 /\ log[x.next_seq - 1] = "closed"
    BY <1>3, <1>5, <2>1 DEF ExecInv, EndIsLogged
  <2>3. x.exited => \E n \in 1 .. x.next_seq - 1 : log[n] = "exited"
    BY <1>5, <2>1 DEF ExecInv, EndIsLogged
  <2> QED BY <1>4, <1>5, <2>1, <2>2, <2>3 DEF ReadIsLogged
<1>7. r \in AnyReply /\ r.st # "failed" /\ (r.st = "read" => ReadIsLogged(r, log))
  <2>1. CASE r = x
    BY <1>5, <1>6, <2>1 DEF AnyReply
  <2>2. CASE r = Reply("unknown process")
    BY <2>2, ReplyFacts
  <2> QED BY <1>2, <2>1, <2>2
<1>8. proc' \in ProcState
  BY <1>1, TypeFacts
<1> QED BY <1>1, <1>7, <1>8, HandleStep

LEMMA TerminateStep ==
    ASSUME ExecInv, NEW c \in Conns, terminate_process(c)
    PROVE  ExecInv'
<1> DEFINE k == proc.killed \/ (Running /\ ~proc.exited)
           r == Reply("ok")
<1>1. /\ req[c].op = "terminate" /\ Answer(c, r) /\ proc' = [proc EXCEPT !.killed = k]
      /\ entry' = IF entry = "starting" THEN "removed" ELSE entry
      /\ UNCHANGED <<log, output, task, sender>>
  BY DEF terminate_process
<1>2. r \in AnyReply /\ r.st = "ok"
  BY ReplyFacts
<1>3. proc \in ProcState /\ k \in BOOLEAN
  BY TypeFacts
<1> HIDE DEF k, r
<1>4. /\ proc' \in ProcState /\ proc'.exited = proc.exited /\ proc'.closed = proc.closed
      /\ proc'.open_streams = proc.open_streams /\ proc'.spawned = proc.spawned
      /\ proc'.killed = k
  BY <1>1, <1>3 DEF ProcState
<1>5. NoExec
  BY <1>1 DEF ExecInv, CallsFollow
<1>6. Stopped'
  <2>1. CASE k
    BY <1>4, <2>1 DEF Stopped
  <2>2. CASE ~k
    <3>1. proc.exited \/ ~Running
      BY <2>2 DEF k
    <3>2. NoExec'
      BY <1>1, <1>2, <1>5, AnswerStep
    <3>3. proc.exited \/ ~proc.spawned
      BY <1>5, <2>2, <3>1 DEF ExecInv, SpawnFollows, k
    <3> QED BY <1>4, <3>2, <3>3 DEF Stopped
  <2> QED BY <2>1, <2>2
<1>7. proc.killed => proc'.killed
  BY <1>4 DEF k
<1> QED BY <1>1, <1>2, <1>4, <1>5, <1>6, <1>7, HandleStep

LEMMA DetachStep ==
    ASSUME ExecInv, NEW c \in Conns, detach(c)
    PROVE  ExecInv'
<1> DEFINE q == Request("none")
           k == proc.killed \/ req[c].op = "spawned"
<1>1. /\ req' = [req EXCEPT ![c] = q] /\ sender' = IF sender = c THEN NULL ELSE sender
      /\ proc' = [proc EXCEPT !.killed = k]
      /\ UNCHANGED <<entry, log, output, task, dead, notes, reply, opened,
                     status, conn, ev, published, start, asked, rec>>
  BY DEF detach, client, session, starting
<1>2. q \in AnyRequest /\ q.op = "none" /\ q.op \notin Starts
  BY RequestFacts DEF Starts
<1> HIDE DEF q
<1>3. req'[c].op = "none"
  BY <1>1, <1>2, TypeFacts
<1>4. /\ req' \in [Conns -> AnyRequest]
      /\ \A d \in Conns : d # c => req'[d] = req[d]
      /\ NoExec => NoExec'
      /\ req[c].op \notin Starts => (NoExec' => NoExec)
  BY <1>1, <1>2, RequestStep
<1>5. \A d \in Conns : req'[d].op \in {"none", req[d].op}
  BY <1>3, <1>4
<1>6. /\ proc' \in ProcState /\ proc'.exited = proc.exited /\ proc'.closed = proc.closed
      /\ proc'.open_streams = proc.open_streams /\ proc'.spawned = proc.spawned
      /\ proc'.killed = k
  <2>1. proc \in ProcState /\ k \in BOOLEAN
    BY TypeFacts
  <2> HIDE DEF k
  <2> QED BY <1>1, <2>1 DEF ProcState
<1>7. ServerTypes' /\ NetTypes' /\ ClientTypes'
  BY <1>1, <1>4, <1>6 DEF ExecInv, ServerTypes, NetTypes, ClientTypes
<1>8. TasksFollow' /\ EndIsLogged'
  BY <1>1, <1>6, TasksRest
<1>9. TransportLogged' /\ EventsAreLogged(ev', published', log')
  BY <1>1 DEF ExecInv, TransportLogged
<1>10. ExecIsFirst'
  <2> SUFFICES ASSUME NEW d \in Conns, req'[d].op \in Starts
               PROVE  /\ d = 1 /\ sender' = 1 /\ log' = <<>>
                      /\ entry' = IF req'[d].op = "exec" THEN "none" ELSE "starting"
                      /\ proc'.spawned <=> req'[d].op = "spawned"
                      /\ ~proc'.exited /\ ~proc'.closed /\ proc'.open_streams = Cardinality(Streams)
                      /\ \A t \in Tasks : task'[t].pc = "idle"
    BY DEF ExecIsFirst
  <2>1. d # c /\ req'[d] = req[d] /\ req[d].op \in Starts
    BY <1>3, <1>4 DEF Starts
  <2>2. d = 1 /\ sender = 1
    BY <2>1 DEF ExecInv, ExecIsFirst
  <2> QED BY <1>1, <1>6, <2>1, <2>2 DEF ExecInv, ExecIsFirst
<1>11. SpawnFollows'
  <2> SUFFICES ASSUME NoExec', proc.spawned, ~Running PROVE k \/ proc.exited
    BY <1>1, <1>6 DEF SpawnFollows, Running
  <2>1. CASE req[c].op \in Starts
    BY <2>1 DEF ExecInv, ExecIsFirst, k
  <2>2. CASE req[c].op \notin Starts
    BY <1>4, <2>2 DEF ExecInv, SpawnFollows, k
  <2> QED BY <2>1, <2>2
<1>12. ConnsFollow'
  BY <1>1, <1>4, <1>5, ConnFacts DEF ExecInv, ConnsFollow
<1>13. CallsFollow'
  <2>1. \A d \in Conns : reply'[d].st # "none" => req'[d].op = "none"
    BY <1>1, <1>5 DEF ExecInv, CallsFollow
  <2> QED BY <1>1, <1>4, <1>5, <2>1, ConnFacts DEF ExecInv, CallsFollow
<1>14. StartFollows'
  <2>1. Stopped => Stopped'
    BY <1>4, <1>6 DEF Stopped, k
  <2>2. start = "terminating" => req'[asked].op \in {"none", "terminate"}
    BY <1>5, ConnFacts DEF ExecInv, StartFollows
  <2> QED BY <1>1, <1>4, <1>6, <2>1, <2>2 DEF ExecInv, StartFollows
<1> QED BY <1>7, <1>8, <1>9, <1>10, <1>11, <1>12, <1>13, <1>14 DEF ExecInv

LEMMA ExpireStep ==
    ASSUME ExecInv, expire
    PROVE  ExecInv'
<1>1. /\ sender = NULL /\ entry' = "removed" /\ output' = {}
      /\ proc' = [proc EXCEPT !.killed = @ \/ Running]
      /\ UNCHANGED <<log, task, sender, dead, notes, req, reply, opened,
                     status, conn, ev, published, start, asked, rec>>
  BY DEF expire, net, client, session, starting
<1>2. proc \in ProcState
  BY TypeFacts
<1>3. /\ proc' \in ProcState /\ proc'.exited = proc.exited /\ proc'.closed = proc.closed
      /\ proc'.open_streams = proc.open_streams /\ proc'.spawned = proc.spawned
      /\ proc'.killed = (proc.killed \/ Running)
  <2> DEFINE k == proc.killed \/ Running
  <2>1. proc' = [proc EXCEPT !.killed = k] /\ k \in BOOLEAN
    BY <1>1, <1>2 DEF ProcState
  <2> HIDE DEF k
  <2>2. /\ proc' \in ProcState /\ proc'.exited = proc.exited /\ proc'.closed = proc.closed
        /\ proc'.open_streams = proc.open_streams /\ proc'.spawned = proc.spawned
        /\ proc'.killed = k
    BY <1>2, <2>1 DEF ProcState
  <2> QED BY <2>2 DEF k
<1>4. NoExec /\ NoExec'
  <2>1. sender # 1
    BY <1>1 DEF NULL
  <2> QED BY <1>1, <2>1 DEF ExecInv, ExecIsFirst, NoExec
<1>5. ServerTypes' /\ NetTypes' /\ ClientTypes'
  BY <1>1, <1>3 DEF ExecInv, ServerTypes, NetTypes, ClientTypes
<1>6. TasksFollow' /\ EndIsLogged'
  BY <1>1, <1>3, TasksRest
<1>7. TransportLogged' /\ EventsAreLogged(ev', published', log')
  BY <1>1 DEF ExecInv, TransportLogged, Logged
<1>8. ExecIsFirst' /\ ConnsFollow' /\ CallsFollow'
  BY <1>1, <1>4 DEF ExecInv, ExecIsFirst, ConnsFollow, CallsFollow, NoExec
<1>9. (Stopped => Stopped') /\ SpawnFollows'
  BY <1>3, <1>4 DEF ExecInv, SpawnFollows, Stopped
<1>10. StartFollows'
  BY <1>1, <1>3, <1>4, <1>9 DEF ExecInv, StartFollows
<1> QED BY <1>5, <1>6, <1>7, <1>8, <1>9, <1>10 DEF ExecInv

-----------------------------------------------------------------------------
(* Steps of the client.                                                    *)

\* The server does nothing.
LEMMA ServerRests ==
    ASSUME ExecInv, UNCHANGED server
    PROVE  /\ ServerTypes' /\ TasksFollow' /\ EndIsLogged'
           /\ UNCHANGED <<entry, log, output, proc, task, sender>>
           /\ (NoExec => NoExec') => (Stopped => Stopped')
           /\ (NoExec' => NoExec) => SpawnFollows'
           /\ (\A c \in Conns : req'[c].op \in Starts => req'[c] = req[c]) => ExecIsFirst'
<1>1. UNCHANGED <<entry, log, output, proc, task, sender>>
  BY DEF server
<1>2. TasksFollow' /\ EndIsLogged'
  BY <1>1, TasksRest
<1>3. ServerTypes'
  BY <1>1 DEF ExecInv, ServerTypes
<1>4. (NoExec => NoExec') => (Stopped => Stopped')
  BY <1>1 DEF Stopped
<1>5. (NoExec' => NoExec) => SpawnFollows'
  BY <1>1 DEF ExecInv, SpawnFollows, Running
<1>6. (\A c \in Conns : req'[c].op \in Starts => req'[c] = req[c]) => ExecIsFirst'
  BY <1>1 DEF ExecInv, ExecIsFirst
<1> QED BY <1>1, <1>2, <1>3, <1>4, <1>5, <1>6

\* The connections carry what they did, but for notifications.
LEMMA ConnsRest ==
    ASSUME ExecInv, UNCHANGED server, dead \subseteq dead',
           UNCHANGED <<req, reply, opened, status, conn, start, asked, rec>>
    PROVE  ExecIsFirst' /\ SpawnFollows' /\ CallsFollow' /\ ConnsFollow' /\ StartFollows'
<1>1. NoExec' <=> NoExec
  BY DEF NoExec
<1>2. ExecIsFirst' /\ SpawnFollows' /\ (Stopped => Stopped') /\ proc' = proc
  BY <1>1, ServerRests
<1>3. ConnsFollow' /\ CallsFollow'
  BY <1>1 DEF ExecInv, ConnsFollow, CallsFollow
<1>4. StartFollows'
  BY <1>1, <1>2 DEF ExecInv, StartFollows
<1> QED BY <1>2, <1>3, <1>4

LEMMA DisconnectStep ==
    ASSUME ExecInv, NEW c \in Conns, disconnect(c)
    PROVE  ExecInv'
<1>1. UNCHANGED <<server, dead, notes, req, reply, opened, status, conn, ev, published, start, asked, rec>>
  BY DEF disconnect, client, session, starting
<1>2. ServerTypes' /\ TasksFollow' /\ EndIsLogged' /\ UNCHANGED <<log, output>>
  BY <1>1, ServerRests
<1>3. ExecIsFirst' /\ SpawnFollows' /\ CallsFollow' /\ ConnsFollow' /\ StartFollows'
  BY <1>1, ConnsRest
<1>4. NetTypes' /\ ClientTypes' /\ TransportLogged' /\ EventsAreLogged(ev', published', log')
  BY <1>1, <1>2 DEF ExecInv, NetTypes, ClientTypes, TransportLogged
<1> QED BY <1>2, <1>3, <1>4 DEF ExecInv

LEMMA NoticeStep ==
    ASSUME ExecInv, NEW c \in Conns, notice(c)
    PROVE  ExecInv'
<1>1. /\ UNCHANGED <<server, notes, req, reply, opened, status, conn, ev, published, start, asked, rec>>
      /\ dead \subseteq dead'
  BY DEF notice, client, session, starting
<1>2. ServerTypes' /\ TasksFollow' /\ EndIsLogged' /\ UNCHANGED <<log, output>>
  BY <1>1, ServerRests
<1>3. ExecIsFirst' /\ SpawnFollows' /\ CallsFollow' /\ ConnsFollow' /\ StartFollows'
  BY <1>1, ConnsRest
<1>4. NetTypes' /\ ClientTypes' /\ TransportLogged' /\ EventsAreLogged(ev', published', log')
  BY <1>1, <1>2 DEF ExecInv, NetTypes, ClientTypes, TransportLogged
<1> QED BY <1>2, <1>3, <1>4 DEF ExecInv

\* A notification is of an event that is logged, and is published in order.
LEMMA NotificationStep ==
    ASSUME ExecInv, NEW c \in Conns, handle_server_notification(c)
    PROVE  ExecInv'
<1> DEFINE n == Head(notes[c])
           w == [ev EXCEPT !.pending = With(@, n, log[n])]
<1>1. /\ notes[c] # <<>> /\ notes' = [notes EXCEPT ![c] = Tail(@)]
      /\ UNCHANGED <<server, dead, req, reply, opened, status, conn, start, asked, rec>>
      /\ \/ n > ev.last /\ Publish(w)
         \/ UNCHANGED <<ev, published>>
  BY DEF handle_server_notification, session, starting
<1>2. ServerTypes' /\ TasksFollow' /\ EndIsLogged' /\ UNCHANGED <<log, output>>
  BY <1>1, ServerRests
<1>3. ExecIsFirst' /\ SpawnFollows' /\ CallsFollow' /\ ConnsFollow' /\ StartFollows'
  BY <1>1, ConnsRest
<1>4. notes[c] \in Seq(Nat) /\ notes \in [Conns -> Seq(Nat)]
  BY TypeFacts
<1>5. \A d \in Conns : \A i \in 1 .. Len(notes[d]) : notes[d][i] \in 1 .. Len(log)
  BY DEF ExecInv, TransportLogged
<1> DEFINE s == notes[c]
<1>6. /\ Tail(s) \in Seq(Nat) /\ Len(s) \in Nat \ {0} /\ Len(Tail(s)) = Len(s) - 1
      /\ \A i \in 1 .. Len(s) - 1 : Tail(s)[i] = s[i + 1]
      /\ Head(s) = s[1]
  BY <1>1, <1>4, HeadTailProperties, EmptySeq
<1>7. n \in 1 .. Len(log)
  BY <1>5, <1>6
<1>8. \A i \in 1 .. Len(Tail(s)) : Tail(s)[i] \in 1 .. Len(log)
  <2> SUFFICES ASSUME NEW i \in 1 .. Len(Tail(s)) PROVE Tail(s)[i] \in 1 .. Len(log)
    OBVIOUS
  <2>1. i \in 1 .. Len(s) - 1 /\ i + 1 \in 1 .. Len(s)
    BY <1>6
  <2> QED BY <1>5, <1>6, <2>1
<1> DEFINE q == Tail(s)
<1>9. notes' = [notes EXCEPT ![c] = q] /\ q \in Seq(Nat)
  BY <1>1, <1>6
<1> HIDE DEF q
<1>10. notes' \in [Conns -> Seq(Nat)] /\ \A d \in Conns : notes'[d] = IF d = c THEN q ELSE notes[d]
  BY <1>4, <1>9
<1>11. \A d \in Conns : \A i \in 1 .. Len(notes'[d]) : notes'[d][i] \in 1 .. Len(log)
  BY <1>5, <1>8, <1>10 DEF q
<1>12. TransportLogged' /\ NetTypes'
  BY <1>1, <1>2, <1>10, <1>11 DEF ExecInv, TransportLogged, NetTypes
<1>13. ev' \in EventState /\ published' \in Seq(Kinds) /\ EventsAreLogged(ev', published', log')
  <2>1. CASE UNCHANGED <<ev, published>>
    BY <1>2, <2>1, TypeFacts DEF ExecInv
  <2>2. CASE n > ev.last /\ Publish(w)
    <3>1. /\ ev \in EventState /\ published \in Seq(Kinds) /\ log \in Seq(Kinds)
          /\ EventsAreLogged(ev, published, log)
      BY TypeFacts DEF ExecInv
    <3>2. w \in EventState /\ EventsAreLogged(w, published, log)
      <4> HIDE DEF n
      <4> QED BY <1>7, <2>2, <3>1, PendingFacts
    <3> HIDE DEF w
    <3>3. ev' = publish_ready(w) /\ published' = published \o Publishes(w)
      BY <2>2 DEF Publish
    <3> QED BY <1>2, <3>1, <3>2, <3>3, PublishFacts
  <2> QED BY <1>1, <2>1, <2>2
<1>14. ClientTypes'
  BY <1>1, <1>13 DEF ExecInv, ClientTypes
<1> QED BY <1>2, <1>3, <1>12, <1>13, <1>14 DEF ExecInv

LEMMA ReaderStep ==
    ASSUME ExecInv, NEW c \in Conns, reader_ends(c)
    PROVE  ExecInv'
<1>1. /\ UNCHANGED <<server, dead, notes, req, reply, opened, conn, ev, published, start, asked>>
      /\ \/ /\ status = "connected" /\ status' = "recovering"
            /\ rec' = [pc |-> "starts", conn |-> NULL]
         \/ UNCHANGED <<status, rec>>
  BY DEF reader_ends, session, starting
<1>2. ServerTypes' /\ TasksFollow' /\ EndIsLogged' /\ UNCHANGED <<entry, log, output>>
  BY <1>1, ServerRests
<1>3. NetTypes' /\ TransportLogged' /\ EventsAreLogged(ev', published', log')
  BY <1>1, <1>2 DEF ExecInv, NetTypes, TransportLogged
<1>4. CASE UNCHANGED <<status, rec>>
  <2>1. ExecIsFirst' /\ SpawnFollows' /\ CallsFollow' /\ ConnsFollow' /\ StartFollows'
    BY <1>1, <1>4, ConnsRest
  <2>2. ClientTypes'
    BY <1>1, <1>4 DEF ExecInv, ClientTypes
  <2> QED BY <1>2, <1>3, <2>1, <2>2 DEF ExecInv
<1>5. CASE /\ status = "connected" /\ status' = "recovering"
           /\ rec' = [pc |-> "starts", conn |-> NULL]
  <2>1. rec'.pc = "starts" /\ rec'.conn = NULL /\ rec' \in RecoveryState
    BY <1>5 DEF RecoveryState
  <2>2. (NoExec' <=> NoExec) /\ ExecIsFirst' /\ SpawnFollows' /\ (Stopped => Stopped')
        /\ proc' = proc
    BY <1>1, ServerRests DEF NoExec
  <2>3. ClientTypes'
    BY <1>1, <1>5, <2>1 DEF ExecInv, ClientTypes
  <2>4. ConnsFollow' /\ CallsFollow'
    BY <1>1, <1>5, <2>1, <2>2, ConnFacts DEF ExecInv, ConnsFollow, CallsFollow
  <2>5. StartFollows'
    BY <1>1, <1>2, <1>5, <2>1, <2>2, ConnFacts DEF ExecInv, StartFollows
  <2> QED BY <1>2, <1>3, <2>2, <2>3, <2>4, <2>5 DEF ExecInv
<1> QED BY <1>1, <1>4, <1>5

\* A reply is taken from its connection, which may carry another request now.
LEMMA TakeStep ==
    ASSUME ExecInv, UNCHANGED server, NEW c \in Conns, NEW q \in AnyRequest, q.op \notin Starts,
           reply' = [reply EXCEPT ![c] = Reply("none")] \/ reply' = reply,
           notes' = [notes EXCEPT ![c] = <<>>] \/ notes' = notes,
           req' = [req EXCEPT ![c] = q] \/ req' = req,
           NoExec \/ req' = req, opened' = opened
    PROVE  /\ ServerTypes' /\ TasksFollow' /\ EndIsLogged' /\ NetTypes' /\ TransportLogged'
           /\ ExecIsFirst' /\ SpawnFollows'
           /\ \A d \in Conns : d # c => req'[d] = req[d] /\ reply'[d] = reply[d]
           /\ req'[c] \in {q, req[c]}
           /\ \A d \in Conns : reply'[d].st \in {"none", reply[d].st}
           /\ reply' = [reply EXCEPT ![c] = Reply("none")] => reply'[c].st = "none"
           /\ NoExec => NoExec'
           /\ Stopped => Stopped'
           /\ \A d \in Conns : reply'[d].st = "failed" => ~proc'.spawned /\ NoExec'
           /\ \A d \in Conns : reply'[d].st # "none" /\ d # c => req'[d].op = "none"
           /\ log' = log
<1> DEFINE r == Reply("none")
<1>1. r \in AnyReply /\ r.st = "none"
  BY ReplyFacts
<1>2. reply \in [Conns -> AnyReply]
  BY TypeFacts
<1>3. /\ req' \in [Conns -> AnyRequest]
      /\ \A d \in Conns : d # c => req'[d] = req[d]
      /\ req'[c] \in {q, req[c]}
      /\ \A d \in Conns : req'[d].op \in Starts => req'[d] = req[d]
      /\ NoExec => NoExec'
      /\ NoExec' => NoExec
  <2>1. NoExec' => NoExec
    BY DEF NoExec
  <2> QED BY <2>1, RequestStep
<1>4. /\ ServerTypes' /\ TasksFollow' /\ EndIsLogged' /\ ExecIsFirst' /\ SpawnFollows' /\ (Stopped => Stopped')
      /\ UNCHANGED <<log, output, proc>>
  BY <1>3, ServerRests
<1> HIDE DEF r
<1>5. /\ reply' \in [Conns -> AnyReply] /\ notes' \in [Conns -> Seq(Nat)]
      /\ \A d \in Conns : d # c => reply'[d] = reply[d]
      /\ reply'[c] \in {r, reply[c]} /\ TransportLogged'
  <2>1. reply' = [reply EXCEPT ![c] = r] \/ reply' = reply
    BY DEF r
  <2> QED BY <1>1, <1>4, <2>1, ReplyStep
<1>6. \A d \in Conns : reply'[d].st \in {"none", reply[d].st}
  BY <1>1, <1>5
<1>7. reply' = [reply EXCEPT ![c] = Reply("none")] => reply'[c].st = "none"
  BY <1>1, <1>2 DEF r
<1>8. NetTypes'
  BY <1>3, <1>5 DEF ExecInv, NetTypes
<1>9. \A d \in Conns : reply'[d].st = "failed" => ~proc'.spawned /\ NoExec'
  BY <1>3, <1>4, <1>6 DEF ExecInv, StartFollows
<1>10. \A d \in Conns : reply'[d].st # "none" /\ d # c => req'[d].op = "none"
  BY <1>3, <1>5 DEF ExecInv, CallsFollow
<1> QED BY <1>3, <1>4, <1>5, <1>6, <1>7, <1>8, <1>9, <1>10

LEMMA NoneIsRequest ==
    Request("none") \in AnyRequest /\ Request("none").op \notin Starts
BY RequestFacts DEF Starts

LEMMA StartStep ==
    ASSUME ExecInv, start_process_returns
    PROVE  ExecInv'
<1>1. /\ start = "calling" /\ start' \in {"done", "cleanup", "over"}
      /\ start' = "over" => reply[1].st = "failed"
      /\ reply[1].st # "none" \/ 1 \in dead
      /\ reply' = [reply EXCEPT ![1] = Reply("none")]
      /\ UNCHANGED server /\ UNCHANGED <<dead, notes, req, opened, status, conn, ev, published, asked, rec>>
  BY DEF start_process_returns, Failed
<1>2. 1 \in Conns /\ asked = NULL
  BY <1>1, ConnFacts
<1>3. /\ ServerTypes' /\ TasksFollow' /\ EndIsLogged' /\ NetTypes' /\ TransportLogged'
      /\ ExecIsFirst' /\ SpawnFollows' /\ (NoExec => NoExec')
      /\ \A d \in Conns : reply'[d].st \in {"none", reply[d].st}
      /\ Stopped => Stopped'
      /\ \A d \in Conns : reply'[d].st = "failed" => ~proc'.spawned /\ NoExec'
      /\ log' = log
  BY <1>1, <1>2, NoneIsRequest, TakeStep
<1>4. ClientTypes' /\ EventsAreLogged(ev', published', log')
  BY <1>1, <1>2, <1>3 DEF ExecInv, ClientTypes
<1>5. ConnsFollow'
  BY <1>1, <1>3, ConnFacts DEF ExecInv, ConnsFollow
<1>6. StartFollows'
  <2>1. start' = "over" => Stopped
    BY <1>1, <1>2 DEF ExecInv, StartFollows, Stopped
  <2> QED BY <1>1, <1>3, <2>1 DEF StartFollows
<1>7. CallsFollow'
  <2>1. NoExec \/ 1 \in dead
    BY <1>1, <1>2 DEF ExecInv, ExecIsFirst, CallsFollow, NoExec, Starts
  <2>2. \A d \in Conns : reply'[d].st # "none" => req[d].op = "none"
    BY <1>3 DEF ExecInv, CallsFollow
  <2> QED BY <1>1, <1>3, <2>1, <2>2 DEF ExecInv, CallsFollow
<1> QED BY <1>3, <1>4, <1>5, <1>6, <1>7 DEF ExecInv

\* cleanup_process_start asks for the end of the process on the connection
\* that carried the request to start it, or on a later one.
LEMMA CleanupCallStep ==
    ASSUME ExecInv, cleanup_calls
    PROVE  ExecInv'
<1>1. /\ start = "cleanup" /\ UNCHANGED server
      /\ UNCHANGED <<dead, notes, opened, status, conn, ev, published, rec>>
      /\ \/ /\ status = "connected" /\ conn \notin dead /\ Ask(conn, Request("terminate"))
            /\ start' = "terminating" /\ asked' = conn
         \/ status = "failed" /\ start' = "over" /\ UNCHANGED <<req, reply, asked>>
  BY DEF cleanup_calls
<1>2. asked = NULL /\ conn \in Conns /\ 1 \in Conns /\ NULL \notin Conns
  BY <1>1, ConnFacts
<1> DEFINE q == Request("terminate")
<1>3. q \in AnyRequest /\ q.op = "terminate"
  BY RequestFacts
<1>4. CASE status = "failed" /\ start' = "over" /\ UNCHANGED <<req, reply, asked>>
  <2>1. /\ ServerTypes' /\ TasksFollow' /\ EndIsLogged' /\ NetTypes' /\ TransportLogged'
        /\ ExecIsFirst' /\ SpawnFollows' /\ (NoExec => NoExec')
        /\ \A d \in Conns : reply'[d].st = "failed" => ~proc'.spawned /\ NoExec'
        /\ log' = log
    BY <1>1, <1>2, <1>4, NoneIsRequest, TakeStep
  <2>2. ClientTypes' /\ EventsAreLogged(ev', published', log')
    BY <1>1, <1>2, <1>4, <2>1 DEF ExecInv, ClientTypes
  <2>3. ConnsFollow'
    BY <1>1, <1>4, <2>1 DEF ExecInv, ConnsFollow
  <2>4. StartFollows'
    BY <1>1, <1>4, <2>1 DEF StartFollows
  <2>5. CallsFollow'
    BY <1>1, <1>4, <2>1 DEF ExecInv, CallsFollow
  <2> QED BY <2>1, <2>2, <2>3, <2>4, <2>5 DEF ExecInv
<1>5. CASE /\ status = "connected" /\ conn \notin dead /\ Ask(conn, q)
           /\ start' = "terminating" /\ asked' = conn
  <2>1. NoExec
    <3>1. CASE conn # 1
      BY <3>1 DEF ExecInv, ConnsFollow
    <3>2. CASE conn = 1
      BY <1>1, <1>5, <3>2 DEF ExecInv, CallsFollow
    <3> QED BY <3>1, <3>2
  <2>2. /\ req' = [req EXCEPT ![conn] = q] \/ req' = req
        /\ reply' = [reply EXCEPT ![conn] = Reply("none")]
    BY <1>2, <1>5, TypeFacts DEF Ask
  <2> HIDE DEF q
  <2>3. /\ ServerTypes' /\ TasksFollow' /\ EndIsLogged' /\ NetTypes' /\ TransportLogged'
        /\ ExecIsFirst' /\ SpawnFollows' /\ NoExec'
        /\ \A d \in Conns : d # conn => req'[d] = req[d] /\ reply'[d] = reply[d]
        /\ req'[conn] \in {q, req[conn]}
        /\ reply'[conn].st = "none"
        /\ \A d \in Conns : reply'[d].st = "failed" => ~proc'.spawned /\ NoExec'
        /\ \A d \in Conns : reply'[d].st # "none" /\ d # conn => req'[d].op = "none"
        /\ log' = log
    <3>1. q.op \notin Starts
      BY <1>3 DEF Starts
    <3> QED BY <1>1, <1>2, <1>3, <2>1, <2>2, <3>1, TakeStep
  <2>4. req'[conn].op \in {"none", "terminate"}
    <3>1. req[conn].op \in {"none", "terminate"}
      <4>1. req[conn] \in AnyRequest
        BY <1>2, TypeFacts
      <4>2. req[conn].op \in {"none", "exec", "spawned", "not spawned", "initialize", "terminate", "read"}
        <5> DEFINE z == req[conn]
        <5>1. z \in AnyRequest
          BY <4>1
        <5> HIDE DEF z
        <5>2. z.op \in {"none", "exec", "spawned", "not spawned", "initialize", "terminate", "read"}
          <6>1. \/ \E op \in {"none", "exec", "spawned", "not spawned", "initialize", "terminate"} :
                     z = Request(op)
                \/ \E n \in Nat : z = Read(n)
            BY <5>1 DEF AnyRequest
          <6> QED BY <6>1, RequestFacts
        <5> QED BY <5>2 DEF z
      <4>3. req[conn].op \notin {"initialize", "read"}
        BY <1>5 DEF ExecInv, CallsFollow
      <4> QED BY <1>2, <2>1, <4>2, <4>3 DEF NoExec, Starts
    <3> QED BY <1>3, <2>3, <3>1
  <2>5. rec.pc = "idle" /\ rec.conn = NULL
    BY <1>5, ConnFacts DEF ExecInv, ConnsFollow
  <2>6. ClientTypes' /\ EventsAreLogged(ev', published', log')
    BY <1>1, <1>2, <1>5, <2>3 DEF ExecInv, ClientTypes
  <2>7. ConnsFollow'
    <3>1. \A d \in Conns : d > opened => d # conn
      BY ConnFacts
    <3>2. \A d \in Conns : d > opened' => req'[d].op = "none" /\ reply'[d].st = "none"
      BY <1>1, <2>3, <3>1 DEF ExecInv, ConnsFollow
    <3> QED BY <1>1, <2>3, <2>5, <3>2 DEF ExecInv, ConnsFollow
  <2>8. StartFollows'
    <3>1. asked' <= opened' /\ asked' # rec'.conn
      BY <1>1, <1>2, <1>5, <2>5, ConnFacts
    <3> QED BY <1>5, <2>3, <2>4, <3>1 DEF StartFollows
  <2>9. CallsFollow'
    <3>1. \A d \in Conns : reply'[d].st # "none" => req'[d].op = "none"
      BY <2>3
    <3> QED BY <1>1, <2>3, <2>4, <2>5, <3>1 DEF CallsFollow
  <2> QED BY <2>3, <2>6, <2>7, <2>8, <2>9 DEF ExecInv
<1> QED BY <1>1, <1>4, <1>5

LEMMA CleanupReturnStep ==
    ASSUME ExecInv, cleanup_returns
    PROVE  ExecInv'
<1>1. /\ start = "terminating" /\ start' \in {"over", "cleanup"}
      /\ start' = "over" => reply[asked].st # "none"
      /\ reply' = [reply EXCEPT ![asked] = Reply("none")] /\ asked' = NULL
      /\ UNCHANGED server /\ UNCHANGED <<dead, notes, req, opened, status, conn, ev, published, rec>>
  BY DEF cleanup_returns, Replied
<1>2. asked \in Conns
  BY <1>1, ConnFacts
<1>3. /\ ServerTypes' /\ TasksFollow' /\ EndIsLogged' /\ NetTypes' /\ TransportLogged'
      /\ ExecIsFirst' /\ SpawnFollows' /\ (NoExec => NoExec')
      /\ \A d \in Conns : reply'[d].st \in {"none", reply[d].st}
      /\ Stopped => Stopped'
      /\ \A d \in Conns : reply'[d].st = "failed" => ~proc'.spawned /\ NoExec'
      /\ log' = log
  BY <1>1, <1>2, NoneIsRequest, TakeStep
<1>4. ClientTypes' /\ EventsAreLogged(ev', published', log')
  BY <1>1, <1>3 DEF ExecInv, ClientTypes
<1>5. ConnsFollow'
  BY <1>1, <1>3, ConnFacts DEF ExecInv, ConnsFollow
<1>6. StartFollows'
  <2>1. start' = "over" => Stopped'
    BY <1>1, <1>3 DEF ExecInv, StartFollows
  <2> QED BY <1>1, <1>3, <2>1 DEF StartFollows
<1>7. CallsFollow'
  <2>1. \A d \in Conns : reply'[d].st # "none" => req[d].op = "none"
    BY <1>3 DEF ExecInv, CallsFollow
  <2> QED BY <1>1, <1>3, <2>1 DEF ExecInv, CallsFollow
<1> QED BY <1>3, <1>4, <1>5, <1>6, <1>7 DEF ExecInv

\* The recovery moves between states in which it has no candidate.
LEMMA WaitStep ==
    ASSUME ExecInv, wait_for_process_starts
    PROVE  ExecInv'
<1>1. /\ rec.pc = "starts" /\ rec' = [pc |-> "connect", conn |-> NULL] /\ UNCHANGED server
      /\ UNCHANGED <<dead, notes, req, reply, opened, status, conn, ev, published, start, asked>>
  BY DEF wait_for_process_starts, RecGo, net, session, starting
<1>2. /\ ServerTypes' /\ TasksFollow' /\ EndIsLogged' /\ NetTypes' /\ TransportLogged'
      /\ ExecIsFirst' /\ SpawnFollows' /\ (NoExec => NoExec') /\ (Stopped => Stopped')
      /\ \A d \in Conns : reply'[d].st = "failed" => ~proc'.spawned /\ NoExec'
      /\ log' = log
  BY <1>1, NoneIsRequest, ConnFacts, TakeStep
<1>3. rec'.pc = "connect" /\ rec'.conn = NULL /\ rec' \in RecoveryState
  BY <1>1 DEF RecoveryState
<1>4. ClientTypes' /\ EventsAreLogged(ev', published', log')
  BY <1>1, <1>2, <1>3 DEF ExecInv, ClientTypes
<1>5. ConnsFollow'
  BY <1>1, <1>2, <1>3, ConnFacts DEF ExecInv, ConnsFollow
<1>6. StartFollows'
  BY <1>1, <1>2, <1>3, ConnFacts DEF ExecInv, StartFollows
<1>7. CallsFollow'
  BY <1>1, <1>2, <1>3 DEF ExecInv, CallsFollow
<1> QED BY <1>2, <1>4, <1>5, <1>6, <1>7 DEF ExecInv

\* A candidate connection is opened: nothing was sent on it before.
LEMMA ResumeStep ==
    ASSUME ExecInv, resume_once
    PROVE  ExecInv'
<1> DEFINE c == opened + 1
           q == Request("initialize")
<1>1. /\ rec.pc = "connect" /\ opened < NConns /\ opened' = c
      /\ req' = [req EXCEPT ![c] = q] /\ rec' = [pc |-> "initialize", conn |-> c]
      /\ UNCHANGED server
      /\ UNCHANGED <<dead, notes, reply, status, conn, ev, published, start, asked>>
  BY DEF resume_once, RecGo, session, starting
<1>2. opened \in Nat /\ opened >= 1 /\ c \in Conns /\ c \in Nat /\ c > opened
  BY <1>1, ConnFacts DEF Conns
<1> HIDE DEF c
<1>3. q \in AnyRequest /\ q.op = "initialize" /\ q.op \notin Starts
  BY RequestFacts DEF Starts
<1> HIDE DEF q
<1>4. /\ req' \in [Conns -> AnyRequest]
      /\ \A d \in Conns : d # c => req'[d] = req[d]
      /\ \A d \in Conns : req'[d].op \in Starts => req'[d] = req[d]
      /\ (NoExec => NoExec') /\ (NoExec' => NoExec)
  <2>1. req[c].op \notin Starts
    BY <1>2 DEF ExecInv, ConnsFollow, Starts
  <2> QED BY <1>1, <1>2, <1>3, <2>1, RequestStep
<1>5. req'[c].op = "initialize"
  BY <1>1, <1>2, <1>3, TypeFacts
<1>6. /\ ServerTypes' /\ TasksFollow' /\ EndIsLogged' /\ ExecIsFirst' /\ SpawnFollows' /\ (Stopped => Stopped')
      /\ UNCHANGED <<log, output, proc>>
  BY <1>1, <1>4, ServerRests
<1>7. NetTypes' /\ TransportLogged' /\ EventsAreLogged(ev', published', log')
  BY <1>1, <1>2, <1>4, <1>6 DEF ExecInv, NetTypes, TransportLogged
<1>8. rec'.pc = "initialize" /\ rec'.conn = c /\ rec' \in RecoveryState
  <2>1. c # NULL
    BY <1>2, ConnFacts
  <2> QED BY <1>1, <1>2, <2>1 DEF RecoveryState
<1>9. ClientTypes'
  BY <1>1, <1>8 DEF ExecInv, ClientTypes
<1>10. reply[c].st = "none" /\ conn # c /\ c # 1 /\ conn <= c
  <2>1. reply[c].st = "none"
    BY <1>2 DEF ExecInv, ConnsFollow
  <2>2. conn \in Nat /\ conn <= opened
    BY ConnFacts
  <2> QED BY <1>2, <2>1, <2>2
<1>11. ConnsFollow'
  <2>1. \A d \in Conns : d > opened' => req'[d].op = "none" /\ reply'[d].st = "none"
    <3> SUFFICES ASSUME NEW d \in Conns, d > c PROVE req'[d].op = "none" /\ reply'[d].st = "none"
      BY <1>1
    <3>1. d > opened /\ d # c
      BY <1>2, ConnFacts
    <3> QED BY <1>1, <1>4, <3>1 DEF ExecInv, ConnsFollow
  <2>2. c <= c
    BY <1>2
  <2> QED BY <1>1, <1>4, <1>5, <1>8, <1>10, <2>1, <2>2 DEF ExecInv, ConnsFollow
<1>12. StartFollows'
  <2>1. start = "terminating" =>
           asked \in Conns /\ asked # c /\ asked <= c /\ req'[asked] = req[asked]
    <3>1. start = "terminating" => asked \in Conns /\ asked \in Nat /\ asked <= opened
      BY ConnFacts
    <3> QED BY <1>2, <1>4, <3>1
  <2> QED BY <1>1, <1>4, <1>6, <1>8, <2>1 DEF ExecInv, StartFollows
<1>13. CallsFollow'
  <2>1. \A d \in Conns : reply[d].st # "none" => d # c
    BY <1>10
  <2>2. \A d \in Conns : reply'[d].st # "none" => req'[d].op = "none"
    BY <1>1, <1>4, <2>1 DEF ExecInv, CallsFollow
  <2>3. req'[conn] = req[conn]
    BY <1>4, <1>10, ConnFacts
  <2>4. \A d \in Conns : req'[d].op = "terminate" => NoExec'
    BY <1>4, <1>5 DEF ExecInv, CallsFollow
  <2> QED BY <1>1, <1>4, <1>8, <2>2, <2>3, <2>4 DEF ExecInv, CallsFollow
<1> QED BY <1>6, <1>7, <1>9, <1>11, <1>12, <1>13 DEF ExecInv

LEMMA RetryStep ==
    ASSUME ExecInv, recovery_retries
    PROVE  ExecInv'
<1> DEFINE c == rec.conn
<1>1. /\ rec.pc \in {"initialize", "read", "terminate", "install"}
      /\ notes' = [notes EXCEPT ![c] = <<>>] /\ reply' = [reply EXCEPT ![c] = Reply("none")]
      /\ rec' = [pc |-> "connect", conn |-> NULL] /\ UNCHANGED server
      /\ UNCHANGED <<dead, req, opened, status, conn, ev, published, start, asked>>
  BY DEF recovery_retries, RecGo, Drop, session, starting
<1>2. c \in Conns
  BY <1>1, ConnFacts
<1>3. /\ ServerTypes' /\ TasksFollow' /\ EndIsLogged' /\ NetTypes' /\ TransportLogged'
      /\ ExecIsFirst' /\ SpawnFollows' /\ (NoExec => NoExec') /\ (Stopped => Stopped')
      /\ \A d \in Conns : reply'[d].st \in {"none", reply[d].st}
      /\ \A d \in Conns : reply'[d].st = "failed" => ~proc'.spawned /\ NoExec'
      /\ log' = log
  BY <1>1, <1>2, NoneIsRequest, TakeStep
<1>4. rec'.pc = "connect" /\ rec'.conn = NULL /\ rec' \in RecoveryState
  BY <1>1 DEF RecoveryState
<1>5. ClientTypes' /\ EventsAreLogged(ev', published', log')
  BY <1>1, <1>3, <1>4 DEF ExecInv, ClientTypes
<1>6. ConnsFollow'
  BY <1>1, <1>3, <1>4, ConnFacts DEF ExecInv, ConnsFollow
<1>7. StartFollows'
  BY <1>1, <1>3, <1>4, ConnFacts DEF ExecInv, StartFollows
<1>8. CallsFollow'
  <2>1. \A d \in Conns : reply'[d].st # "none" => req[d].op = "none"
    BY <1>3 DEF ExecInv, CallsFollow
  <2> QED BY <1>1, <1>3, <1>4, <2>1 DEF ExecInv, CallsFollow
<1> QED BY <1>3, <1>5, <1>6, <1>7, <1>8 DEF ExecInv

\* The recovery goes on with its candidate, once the session has left the
\* connection that carried the request to start the process.
LEMMA CandidateStep ==
    ASSUME ExecInv, NoExec, UNCHANGED server, NEW q \in AnyRequest, q.op \notin Starts,
           rec.pc \in {"initialize", "read", "terminate"},
           reply' = [reply EXCEPT ![rec.conn] = Reply("none")],
           req' = [req EXCEPT ![rec.conn] = q] \/ req' = req,
           NEW pc \in {"read", "terminate", "install"}, rec' = [pc |-> pc, conn |-> rec.conn],
           pc = "install" => req' = req /\ reply[rec.conn].st # "none",
           ev' \in EventState, published' \in Seq(Kinds), EventsAreLogged(ev', published', log),
           UNCHANGED <<dead, notes, opened, status, conn, start, asked>>
    PROVE  ExecInv'
<1> DEFINE c == rec.conn
<1>1. c \in Conns /\ c <= opened /\ c # conn /\ c # 1 /\ c # NULL
  BY ConnFacts
<1>2. /\ ServerTypes' /\ TasksFollow' /\ EndIsLogged' /\ NetTypes' /\ TransportLogged'
      /\ ExecIsFirst' /\ SpawnFollows' /\ NoExec' /\ (Stopped => Stopped')
      /\ \A d \in Conns : d # c => req'[d] = req[d] /\ reply'[d] = reply[d]
      /\ \A d \in Conns : reply'[d].st \in {"none", reply[d].st}
      /\ \A d \in Conns : reply'[d].st = "failed" => ~proc'.spawned /\ NoExec'
      /\ \A d \in Conns : reply'[d].st # "none" /\ d # c => req'[d].op = "none"
      /\ reply'[c].st = "none"
      /\ log' = log
  BY <1>1, TakeStep
<1>3. rec'.pc = pc /\ rec'.conn = c /\ rec' \in RecoveryState
  BY <1>1 DEF RecoveryState
<1> HIDE DEF c
<1>4. ClientTypes' /\ EventsAreLogged(ev', published', log')
  BY <1>2, <1>3 DEF ExecInv, ClientTypes
<1>5. ConnsFollow'
  <2>1. \A d \in Conns : d > opened => d # c
    BY <1>1, ConnFacts
  <2>2. \A d \in Conns : d > opened' => req'[d].op = "none" /\ reply'[d].st = "none"
    BY <1>2, <2>1 DEF ExecInv, ConnsFollow
  <2> QED BY <1>1, <1>2, <1>3, <2>2 DEF ExecInv, ConnsFollow
<1>6. StartFollows'
  <2>1. start = "terminating" =>
           asked \in Conns /\ asked # c /\ req'[asked] = req[asked] /\ reply'[asked] = reply[asked]
    BY <1>2, ConnFacts DEF c
  <2> QED BY <1>2, <1>3, <2>1 DEF ExecInv, StartFollows
<1>7. CallsFollow'
  <2>1. pc = "install" => req'[c].op = "none"
    BY <1>1 DEF ExecInv, CallsFollow, c
  <2>2. req'[conn] = req[conn]
    BY <1>1, <1>2, ConnFacts
  <2>3. \A d \in Conns : reply'[d].st # "none" => req'[d].op = "none"
    BY <1>2
  <2> QED BY <1>2, <1>3, <2>1, <2>2, <2>3 DEF ExecInv, CallsFollow
<1> QED BY <1>2, <1>4, <1>5, <1>6, <1>7 DEF ExecInv

LEMMA RecoverStep ==
    ASSUME ExecInv, recover_processes
    PROVE  ExecInv'
<1> DEFINE c == rec.conn
           x == Read(ev.last)
<1>1. x \in AnyRequest /\ x.op = "read" /\ x.op \notin Starts
  BY TypeFacts, RequestFacts DEF Starts
<1> HIDE DEF x
<1>2. /\ rec.pc = "initialize" /\ reply[c].st = "ok" /\ UNCHANGED server
      /\ UNCHANGED <<dead, notes, opened, status, conn, ev, published, start, asked>>
      /\ reply' = [reply EXCEPT ![c] = Reply("none")]
      /\ \/ /\ req' = [req EXCEPT ![c] = IF c \in up THEN x ELSE @]
            /\ rec' = [pc |-> "read", conn |-> c]
         \/ req' = req /\ rec' = [pc |-> "install", conn |-> c]
  BY DEF recover_processes, Ask, RecGo, session, starting, x
<1>3. NoExec /\ c \in Conns
  BY <1>2, ConnFacts DEF ExecInv, ConnsFollow
<1>4. req' = [req EXCEPT ![c] = x] \/ req' = req
  BY <1>2, <1>3, TypeFacts
<1>5. ev' \in EventState /\ published' \in Seq(Kinds) /\ EventsAreLogged(ev', published', log)
  BY <1>2, TypeFacts DEF ExecInv
<1>6. PICK pc \in {"read", "terminate", "install"} :
         /\ rec' = [pc |-> pc, conn |-> c]
         /\ pc = "install" => req' = req /\ reply[c].st # "none"
  BY <1>2
<1> QED BY <1>1, <1>2, <1>3, <1>4, <1>5, <1>6, CandidateStep

\* The events of the response to the recovery's read are events of the log.
LEMMA RecoverReadStep ==
    ASSUME ExecInv, recover_processes_reads
    PROVE  ExecInv'
<1> DEFINE c == rec.conn
           r == reply[c]
           e == IF r.st # "read" THEN [gap |-> TRUE] ELSE recover_events(ev, r)
           x == Request("terminate")
<1>1. x \in AnyRequest /\ x.op = "terminate" /\ x.op \notin Starts
  BY RequestFacts DEF Starts
<1>2. /\ rec.pc = "read" /\ reply[c].st # "none" /\ UNCHANGED server
      /\ UNCHANGED <<dead, notes, opened, status, conn, start, asked>>
      /\ IF "gap" \in DOMAIN e
         THEN /\ Ask(c, x) /\ RecGo("terminate", c)
              /\ ev' = IF r.st = "read" THEN Merge(ev, r) ELSE ev
              /\ UNCHANGED published
         ELSE /\ Publish(e) /\ RecGo("install", c)
              /\ reply' = [reply EXCEPT ![c] = Reply("none")] /\ UNCHANGED req
  BY DEF recover_processes_reads, Replied, starting
<1>3. NoExec /\ c \in Conns
  BY <1>2, ConnFacts DEF ExecInv, ConnsFollow
<1>4. /\ ev \in EventState /\ published \in Seq(Kinds) /\ log \in Seq(Kinds)
      /\ EventsAreLogged(ev, published, log)
  BY TypeFacts DEF ExecInv
<1>5. r.st = "read" => r \in ReadReply /\ ReadIsLogged(r, log)
  <2>1. r \in AnyReply
    BY <1>3, TypeFacts
  <2>2. r.st = "read" => ReadIsLogged(r, log)
    BY <1>3 DEF ExecInv, TransportLogged
  <2> HIDE DEF r
  <2> QED BY <2>1, <2>2, ReadReplyFacts
<1>6. CASE "gap" \in DOMAIN e
  <2>1. /\ req' = [req EXCEPT ![c] = IF c \in up THEN x ELSE @]
        /\ reply' = [reply EXCEPT ![c] = Reply("none")]
        /\ rec' = [pc |-> "terminate", conn |-> c]
        /\ ev' = IF r.st = "read" THEN Merge(ev, r) ELSE ev
        /\ published' = published
    BY <1>2, <1>6 DEF Ask, RecGo
  <2> HIDE DEF x
  <2>2. req' = [req EXCEPT ![c] = x] \/ req' = req
    BY <1>3, <2>1, TypeFacts
  <2>3. PICK pc \in {"read", "terminate", "install"} :
           rec' = [pc |-> pc, conn |-> c] /\ pc # "install"
    BY <2>1
  <2>4. ev' \in EventState /\ EventsAreLogged(ev', published', log)
    <3>1. CASE r.st # "read"
      BY <1>4, <2>1, <3>1
    <3>2. CASE r.st = "read"
      <4>1. ~(r.next_seq - 1 <= ev.last)
        <5> SUFFICES ASSUME r.next_seq - 1 <= ev.last PROVE FALSE
          OBVIOUS
        <5>1. e = ev
          BY <3>2 DEF recover_events
        <5>2. DOMAIN ev = {"last", "exit", "closed", "pending", "failed"}
          BY <1>4 DEF EventState
        <5> HIDE DEF e
        <5> QED BY <1>6, <5>1, <5>2
      <4>2. r \in ReadReply /\ r.next_seq \in Nat /\ ev.last \in Nat /\ ReadIsLogged(r, log)
        BY <1>5, <3>2, TypeFacts DEF ReadReply
      <4> HIDE DEF r
      <4>3. r.next_seq - 1 > ev.last
        BY <4>1, <4>2
      <4> QED BY <1>4, <2>1, <3>2, <4>2, <4>3, MergeFacts
    <3> QED BY <3>1, <3>2
  <2> HIDE DEF e
  <2> QED BY <1>1, <1>2, <1>3, <1>4, <2>1, <2>2, <2>3, <2>4, CandidateStep
<1>7. CASE "gap" \notin DOMAIN e
  <2>1. r.st = "read" /\ e = recover_events(ev, r)
    <3>1. "gap" \in DOMAIN [gap |-> TRUE]
      OBVIOUS
    <3> QED BY <1>7, <3>1
  <2>2. r \in ReadReply /\ ReadIsLogged(r, log)
    BY <1>5, <2>1
  <2>3. /\ Publish(e) /\ rec' = [pc |-> "install", conn |-> c]
        /\ reply' = [reply EXCEPT ![c] = Reply("none")] /\ req' = req
    BY <1>2, <1>7 DEF RecGo
  <2> HIDE DEF r, e
  <2>4. e \in EventState /\ EventsAreLogged(e, published, log)
    BY <1>4, <1>7, <2>1, <2>2, RecoverFacts
  <2>5. ev' = publish_ready(e) /\ published' = published \o Publishes(e)
    BY <2>3 DEF Publish
  <2>6. ev' \in EventState /\ published' \in Seq(Kinds) /\ EventsAreLogged(ev', published', log)
    BY <1>4, <2>4, <2>5, PublishFacts
  <2>7. PICK pc \in {"read", "terminate", "install"} :
           /\ rec' = [pc |-> pc, conn |-> c]
           /\ pc = "install" => req' = req /\ reply[c].st # "none"
    BY <1>2, <2>3
  <2> HIDE DEF x
  <2> QED BY <1>1, <1>2, <1>3, <2>3, <2>6, <2>7, CandidateStep
<1> QED BY <1>6, <1>7

\* A session that has failed publishes nothing more.
LEMMA FailureFacts ==
    ASSUME NEW e \in EventState, NEW p, NEW lg, EventsAreLogged(e, p, lg)
    PROVE  set_failure(e) \in EventState /\ EventsAreLogged(set_failure(e), p, lg)
<1> DEFINE none == <<>>
           x == [e EXCEPT !.failed = TRUE, !.pending = none]
<1>1. set_failure(e) = e \/ set_failure(e) = x
  BY DEF set_failure
<1>2. DOMAIN none = {} /\ none \in [{} -> Kinds]
  OBVIOUS
<1> HIDE DEF none
<1>3. none \in Events
  BY <1>2, EventsFacts
<1>4. x \in EventState /\ x.last = e.last /\ x.exit = e.exit /\ x.pending = none
  BY <1>3 DEF EventState
<1> HIDE DEF x
<1>5. EventsAreLogged(x, p, lg)
  BY <1>2, <1>4 DEF EventsAreLogged
<1> QED BY <1>1, <1>4, <1>5

LEMMA RecoverFailStep ==
    ASSUME ExecInv, recover_processes_fails
    PROVE  ExecInv'
<1>1. /\ rec.pc = "terminate" /\ UNCHANGED server
      /\ UNCHANGED <<dead, notes, req, opened, status, conn, published, start, asked>>
      /\ reply[rec.conn].st # "none" /\ reply' = [reply EXCEPT ![rec.conn] = Reply("none")]
      /\ ev' = set_failure(ev) /\ rec' = [pc |-> "install", conn |-> rec.conn]
  BY DEF recover_processes_fails, Replied, RecGo, starting
<1>2. NoExec
  BY <1>1 DEF ExecInv, ConnsFollow
<1>3. ev' \in EventState /\ published' \in Seq(Kinds) /\ EventsAreLogged(ev', published', log)
  BY <1>1, TypeFacts, FailureFacts DEF ExecInv
<1>4. PICK pc \in {"read", "terminate", "install"} :
         /\ rec' = [pc |-> pc, conn |-> rec.conn]
         /\ pc = "install" => req' = req /\ reply[rec.conn].st # "none"
  BY <1>1
<1> QED BY <1>1, <1>2, <1>3, <1>4, NoneIsRequest, CandidateStep

LEMMA InstallStep ==
    ASSUME ExecInv, install_recovered_client
    PROVE  ExecInv'
<1>1. /\ rec.pc = "install" /\ UNCHANGED server
      /\ status' = "connected" /\ conn' = rec.conn /\ rec' = [pc |-> "idle", conn |-> NULL]
      /\ UNCHANGED <<dead, notes, req, reply, opened, ev, published, start, asked>>
  BY DEF install_recovered_client, RecGo, net, session, starting
<1>2. /\ ServerTypes' /\ TasksFollow' /\ EndIsLogged' /\ NetTypes' /\ TransportLogged'
      /\ ExecIsFirst' /\ SpawnFollows' /\ (NoExec => NoExec') /\ (Stopped => Stopped')
      /\ \A d \in Conns : reply'[d].st = "failed" => ~proc'.spawned /\ NoExec'
      /\ log' = log
  BY <1>1, NoneIsRequest, ConnFacts, TakeStep
<1>3. NoExec /\ status = "recovering" /\ rec.conn \in Conns /\ rec.conn <= opened
  BY <1>1, ConnFacts DEF ExecInv, ConnsFollow
<1>4. rec'.pc = "idle" /\ rec'.conn = NULL /\ rec' \in RecoveryState
  BY <1>1 DEF RecoveryState
<1>5. ClientTypes' /\ EventsAreLogged(ev', published', log')
  BY <1>1, <1>2, <1>3, <1>4 DEF ExecInv, ClientTypes
<1>6. ConnsFollow'
  BY <1>1, <1>2, <1>3, <1>4, ConnFacts DEF ExecInv, ConnsFollow
<1>7. StartFollows'
  BY <1>1, <1>2, <1>3, <1>4, ConnFacts DEF ExecInv, StartFollows
<1>8. CallsFollow'
  BY <1>1, <1>2, <1>3, <1>4 DEF ExecInv, CallsFollow
<1> QED BY <1>2, <1>5, <1>6, <1>7, <1>8 DEF ExecInv

LEMMA FailStep ==
    ASSUME ExecInv, fail
    PROVE  ExecInv'
<1>1. /\ status' = "failed" /\ ev' \in {ev, set_failure(ev)}
      /\ rec' = [pc |-> "idle", conn |-> NULL] /\ UNCHANGED server
      /\ UNCHANGED <<dead, req, opened, conn, published, start, asked>>
      /\ \/ UNCHANGED <<notes, reply>>
         \/ /\ rec.conn # NULL /\ notes' = [notes EXCEPT ![rec.conn] = <<>>]
            /\ reply' = [reply EXCEPT ![rec.conn] = Reply("none")]
  BY DEF fail, RecGo, Drop, net, starting
<1>2. PICK c \in Conns :
         /\ reply' = [reply EXCEPT ![c] = Reply("none")] \/ reply' = reply
         /\ notes' = [notes EXCEPT ![c] = <<>>] \/ notes' = notes
  <2>1. CASE UNCHANGED <<notes, reply>>
    BY <2>1, ConnFacts
  <2>2. CASE /\ rec.conn # NULL /\ notes' = [notes EXCEPT ![rec.conn] = <<>>]
             /\ reply' = [reply EXCEPT ![rec.conn] = Reply("none")]
    <3>1. rec.conn \in Conns
      BY <2>2, ConnFacts
    <3> QED BY <2>2, <3>1
  <2> QED BY <1>1, <2>1, <2>2
<1>3. /\ ServerTypes' /\ TasksFollow' /\ EndIsLogged' /\ NetTypes' /\ TransportLogged'
      /\ ExecIsFirst' /\ SpawnFollows' /\ (NoExec => NoExec') /\ (Stopped => Stopped')
      /\ \A d \in Conns : reply'[d].st \in {"none", reply[d].st}
      /\ \A d \in Conns : reply'[d].st = "failed" => ~proc'.spawned /\ NoExec'
      /\ log' = log
  BY <1>1, <1>2, NoneIsRequest, TakeStep
<1>4. rec'.pc = "idle" /\ rec'.conn = NULL /\ rec' \in RecoveryState
  BY <1>1 DEF RecoveryState
<1>5. ev' \in EventState /\ EventsAreLogged(ev', published', log')
  BY <1>1, <1>3, TypeFacts, FailureFacts DEF ExecInv
<1>6. ClientTypes'
  BY <1>1, <1>4, <1>5 DEF ExecInv, ClientTypes
<1>7. ConnsFollow'
  BY <1>1, <1>3, <1>4, ConnFacts DEF ExecInv, ConnsFollow
<1>8. StartFollows'
  BY <1>1, <1>3, <1>4, ConnFacts DEF ExecInv, StartFollows
<1>9. CallsFollow'
  <2>1. \A d \in Conns : reply'[d].st # "none" => req[d].op = "none"
    BY <1>3 DEF ExecInv, CallsFollow
  <2> QED BY <1>1, <1>3, <1>4, <2>1 DEF ExecInv, CallsFollow
<1> QED BY <1>3, <1>5, <1>6, <1>7, <1>8, <1>9 DEF ExecInv

-----------------------------------------------------------------------------
(* The theorems.                                                           *)

LEMMA ExecInitially ==
    ASSUME Init
    PROVE  ExecInv
<1>1. /\ log = <<>> /\ output = {} /\ sender = 1 /\ opened = 1 /\ status = "connected" /\ conn = 1
      /\ proc = [exited |-> FALSE, closed |-> FALSE, open_streams |-> Cardinality(Streams),
                 spawned |-> start = "done", killed |-> FALSE]
      /\ notes = [c \in Conns |-> <<>>] /\ reply = [c \in Conns |-> Reply("none")]
      /\ ev = [last |-> 0, exit |-> FALSE, closed |-> FALSE, pending |-> <<>>, failed |-> FALSE]
      /\ published = <<>> /\ asked = NULL /\ rec = [pc |-> "idle", conn |-> NULL]
      /\ start \in {"calling", "done"}
  BY DEF Init
<1>2. /\ task \in [Tasks -> TaskState] /\ \A t \in Tasks : task[t].pc \in {"idle", "run"}
      /\ entry \in {"none", "running"}
      /\ \A c \in Conns : req[c] \in {Request("none"), Request("exec")}
      /\ req = [c \in Conns |-> req[c]]
      /\ \A c \in Conns : req[c] = Request("exec") =>
            c = 1 /\ entry = "none" /\ start = "calling" /\ \A t \in Tasks : task[t].pc = "idle"
      /\ start = "done" => Running /\ \A c \in Conns : req[c] = Request("none")
  <2>0. Request("none") # Request("exec")
    BY RequestFacts
  <2>1. CASE /\ start = "calling" /\ entry = "none"
             /\ task = [t \in Tasks |-> [pc |-> "idle", seq |-> NULL]]
             /\ req = [c \in Conns |-> Request(IF c = 1 THEN "exec" ELSE "none")]
    <3>1. task \in [Tasks -> TaskState] /\ \A t \in Tasks : task[t].pc = "idle"
      BY <2>1 DEF TaskState, NULL
    <3>2. \A c \in Conns : req[c] = IF c = 1 THEN Request("exec") ELSE Request("none")
      BY <2>1
    <3>3. req = [c \in Conns |-> req[c]]
      BY <2>1
    <3> QED BY <2>0, <2>1, <3>1, <3>2, <3>3
  <2>2. CASE /\ start = "done" /\ entry = "running"
             /\ task = [t \in Tasks |-> [pc |-> "run", seq |-> NULL]]
             /\ req = [c \in Conns |-> Request("none")]
    <3>1. task \in [Tasks -> TaskState] /\ \A t \in Tasks : task[t].pc = "run"
      BY <2>2 DEF TaskState, NULL
    <3> QED BY <2>0, <2>2, <3>1 DEF Running
  <2> QED BY <2>1, <2>2 DEF Init
<1>3. Conns \subseteq Nat /\ 1 \in Conns /\ NULL = 0
  BY DEF Conns, NULL
<1>4. Cardinality(Streams) \in Nat
  BY FS_CardinalityType
<1>5. /\ proc \in ProcState /\ ~proc.exited /\ ~proc.closed /\ proc.open_streams = Cardinality(Streams)
      /\ proc.spawned <=> start = "done"
  <2> DEFINE b == start = "done"
  <2>1. b \in BOOLEAN
    OBVIOUS
  <2>2. proc = [exited |-> FALSE, closed |-> FALSE, open_streams |-> Cardinality(Streams),
                spawned |-> b, killed |-> FALSE]
    BY <1>1
  <2> HIDE DEF b
  <2>3. /\ proc \in ProcState /\ ~proc.exited /\ ~proc.closed /\ proc.spawned = b
        /\ proc.open_streams = Cardinality(Streams)
    BY <1>4, <2>1, <2>2 DEF ProcState
  <2> QED BY <2>3 DEF b
<1>6. ServerTypes
  BY <1>1, <1>2, <1>3, <1>5 DEF ServerTypes
<1>7. \A c \in Conns : notes[c] = <<>> /\ Len(notes[c]) = 0 /\ reply[c].st = "none"
  BY <1>1, ReplyFacts
<1>8. NetTypes
  <2>1. req \in [Conns -> AnyRequest]
    BY <1>2, RequestFacts
  <2>2. reply \in [Conns -> AnyReply]
    BY <1>1, ReplyFacts
  <2>3. notes \in [Conns -> Seq(Nat)]
    BY <1>1
  <2> QED BY <1>1, <1>3, <2>1, <2>2, <2>3 DEF NetTypes
<1>9. ev \in EventState /\ ev.last = 0 /\ DOMAIN ev.pending = {}
  <2> DEFINE none == <<>>
  <2>1. DOMAIN none = {} /\ none \in [{} -> Kinds]
    OBVIOUS
  <2>2. ev = [last |-> 0, exit |-> FALSE, closed |-> FALSE, pending |-> none, failed |-> FALSE]
    BY <1>1
  <2> HIDE DEF none
  <2>3. none \in Events
    BY <2>1, EventsFacts
  <2> QED BY <2>1, <2>2, <2>3 DEF EventState
<1>10. ClientTypes
  <2>1. rec \in RecoveryState
    BY <1>1 DEF RecoveryState
  <2> QED BY <1>1, <1>3, <1>9, <2>1 DEF ClientTypes
<1>11. TasksFollow
  <2>1. Writing = Streams
    BY <1>2 DEF Writing, Writes, Tasks
  <2>2. "exit" \in Tasks
    BY DEF Tasks
  <2> QED BY <1>2, <1>4, <1>5, <2>1, <2>2 DEF TasksFollow
<1>12. EndIsLogged
  BY <1>5 DEF EndIsLogged
<1>13. TransportLogged
  BY <1>1, <1>7 DEF TransportLogged, Logged
<1>14. EventsAreLogged(ev, published, log)
  <2>1. Len(published) = 0 /\ Len(log) = 0
    BY <1>1
  <2> QED BY <1>9, <2>1 DEF EventsAreLogged
<1>15. \A c \in Conns : req[c].op \in {"none", "exec"} /\ (req[c].op = "exec" => req[c] = Request("exec"))
  BY <1>2, RequestFacts
<1>16. ExecIsFirst
  BY <1>1, <1>2, <1>5, <1>15 DEF ExecIsFirst, Starts
<1>17. ConnsFollow
  <2>1. \A c \in Conns : c > opened => req[c].op = "none" /\ reply[c].st = "none"
    BY <1>1, <1>2, <1>3, <1>7, <1>15
  <2> QED BY <1>1, <1>3, <2>1 DEF ConnsFollow
<1>18. StartFollows
  BY <1>1, <1>7 DEF StartFollows
<1>19. start = "done" => Running /\ NoExec
  BY <1>2, <1>15, RequestFacts DEF NoExec, Starts
<1>20. SpawnFollows /\ CallsFollow
  BY <1>1, <1>3, <1>5, <1>7, <1>15, <1>19 DEF SpawnFollows, CallsFollow
<1> QED BY <1>6, <1>8, <1>10, <1>11, <1>12, <1>13, <1>14, <1>16, <1>17, <1>18, <1>20 DEF ExecInv

LEMMA ExecStutters ==
    ASSUME ExecInv, UNCHANGED vars
    PROVE  ExecInv'
<1>1. UNCHANGED <<server, dead, notes, req, reply, opened, status, conn, ev, published, start, asked, rec>>
  BY DEF vars, net, client, session, starting
<1>2. ServerTypes' /\ TasksFollow' /\ EndIsLogged' /\ UNCHANGED <<log, output>>
  BY <1>1, ServerRests
<1>3. ExecIsFirst' /\ SpawnFollows' /\ CallsFollow' /\ ConnsFollow' /\ StartFollows'
  BY <1>1, ConnsRest
<1>4. NetTypes' /\ ClientTypes' /\ TransportLogged' /\ EventsAreLogged(ev', published', log')
  BY <1>1, <1>2 DEF ExecInv, NetTypes, ClientTypes, TransportLogged
<1> QED BY <1>2, <1>3, <1>4 DEF ExecInv

\* Every step keeps the inductive invariant.
LEMMA ExecPreserved ==
    ASSUME ExecInv, [Next]_vars
    PROVE  ExecInv'
<1>1. ASSUME NEW t \in Streams, stream_output(t) PROVE ExecInv'
  BY <1>1, OutputStep
<1>2. ASSUME NEW t \in Streams, finish_output_stream(t) PROVE ExecInv'
  BY <1>2, FinishStep
<1>3. ASSUME watch_exit PROVE ExecInv'
  <2>1. "exit" \in Tasks
    BY DEF Tasks
  <2> QED BY <1>3, <2>1, EndStep
<1>4. ASSUME NEW t \in Tasks, maybe_emit_closed(t) PROVE ExecInv'
  BY <1>4, EndStep
<1>5. ASSUME NEW t \in Tasks, notify(t) PROVE ExecInv'
  BY <1>5, NotifyStep
<1>6. ASSUME NEW c \in Conns, exec(c) PROVE ExecInv'
  BY <1>6, ExecStep
<1>7. ASSUME NEW c \in Conns, attach(c) PROVE ExecInv'
  BY <1>7, AttachStep
<1>8. ASSUME NEW c \in Conns, read(c) PROVE ExecInv'
  BY <1>8, ReadStep
<1>9. ASSUME NEW c \in Conns, terminate_process(c) PROVE ExecInv'
  BY <1>9, TerminateStep
<1>10. ASSUME NEW c \in Conns, detach(c) PROVE ExecInv'
  BY <1>10, DetachStep
<1>11. ASSUME NEW c \in Conns, disconnect(c) PROVE ExecInv'
  BY <1>11, DisconnectStep
<1>12. ASSUME NEW c \in Conns, handle_server_notification(c) PROVE ExecInv'
  BY <1>12, NotificationStep
<1>13. ASSUME NEW c \in Conns, reader_ends(c) PROVE ExecInv'
  BY <1>13, ReaderStep
<1>14. ASSUME NEW c \in Conns, start_process(c) PROVE ExecInv'
  BY <1>14, StartProcessStep
<1>15. ASSUME NEW c \in Conns, notice(c) PROVE ExecInv'
  BY <1>15, NoticeStep
<1>16. ServerStep => ExecInv'
  BY <1>1, <1>2, <1>3, <1>4, <1>5, <1>6, <1>7, <1>8, <1>9, <1>10, <1>14 DEF ServerStep
<1>17. ClientStep => ExecInv'
  BY <1>12, <1>13, <1>15, StartStep, CleanupCallStep, CleanupReturnStep, WaitStep, ResumeStep, RetryStep,
     RecoverStep, RecoverReadStep, RecoverFailStep, InstallStep, FailStep DEF ClientStep
<1> QED BY <1>11, <1>16, <1>17, RemoveStep, ExpireStep, ExecStutters DEF Next

\* In every behaviour of the server and its client, whatever connections go
\* down and whatever is lost with them: notifications, retained chunks and
\* replies tell of events that are in the log, Closed is the last of them, the
\* client's pending events are events of the log with their own numbers, a
\* request to start a process is carried only by the first connection, and a
\* process that was spawned runs, was killed or is over once no start is at work.
THEOREM ExecInvariant == Spec => []ExecInv
<1>1. Init => ExecInv
  BY ExecInitially
<1>2. ExecInv /\ [Next]_vars => ExecInv'
  BY ExecPreserved
<1> QED BY <1>1, <1>2, PTL DEF Spec

\* What the client publishes is the log, event by event from the first, for
\* any number of streams, connections and chunks and any retention
\* (SessionState::publish_ordered_event, recover_events).
THEOREM PublishedIsLogHolds == Spec => []PublishedIsLog
<1>1. ExecInv => PublishedIsLog
  BY DEF ExecInv, EventsAreLogged, PublishedIsLog
<1> QED BY <1>1, ExecInvariant, PTL

\* A start that was given up leaves no process behind while the client works
\* (cleanup_process_start), whichever connection carried each of its calls and
\* wherever the handler of the request was when its connection went down.
THEOREM AbandonedIsKilledHolds == Spec => []AbandonedIsKilled
<1>1. ExecInv => AbandonedIsKilled
  BY DEF ExecInv, StartFollows, Stopped, NoExec, Starts, AbandonedIsKilled
<1> QED BY <1>1, ExecInvariant, PTL
=============================================================================
