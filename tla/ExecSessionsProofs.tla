-------------------------- MODULE ExecSessionsProofs --------------------------
(***************************************************************************)
(* TLAPS proofs about ExecSessions, for any connections and sessions.      *)
(*                                                                         *)
(* AttachedIsKept is inductive together with the types of the registry and *)
(* one fact about deadlines: a session with a connection has none, since   *)
(* attach clears it.  A session goes only when its deadline has passed, so *)
(* it has no connection then, and a connection that has a session is the   *)
(* one the session is attached to, so that no other can be attached to it. *)
(*                                                                         *)
(* WrittenOnce is about one client that numbers its writes and repeats the *)
(* last one until it is answered: the write that may be repeated is the    *)
(* newest one, and the window of remembered ids always holds that.         *)
(***************************************************************************)
EXTENDS ExecSessions, TLAPS

\* The states of a connection: one that is busy with a process has a session.
\* What the proofs need of the client's writes is only that they are numbers.
Connection ==
    {r \in [pc : {"new", "ready", "expired", "starting", "reserving", "ended"},
            up : BOOLEAN, session : Sessions \cup {NULL}, about : Sessions \cup {NULL},
            initialized : BOOLEAN, ack : Nat] :
        r.pc \in {"starting", "reserving"} => r.session # NULL}

Attachment ==
    [current : Conns \cup {NULL}, detached : Conns \cup {NULL}, due : BOOLEAN]

RegistryTypes ==
    /\ sessions \subseteq used /\ used \subseteq Sessions
    /\ att \in [Sessions -> Attachment]
    /\ sender \in [Sessions -> Conns \cup {NULL}]
    /\ timers \subseteq Sessions \X Conns
    /\ conn \in [Conns -> Connection]
    /\ next \in [Sessions -> Nat]

\* A session that has a connection has no deadline, past or to come.
NoDeadlineWhileAttached ==
    \A s \in Sessions : att[s].current = NULL \/ (att[s].detached = NULL /\ ~att[s].due)

IInv == RegistryTypes /\ NoDeadlineWhileAttached /\ AttachedIsKept

USE SessionConstants

\* The registry is empty and every connection is new.
LEMMA InitIInv == Init => IInv
BY DEF Init, IInv, RegistryTypes, Attachment, Connection, NoDeadlineWhileAttached, AttachedIsKept

\* A step that leaves the registry alone and changes one connection, whose
\* session stays what it is and which does not come back from its end.
LEMMA OneConnection ==
    ASSUME IInv, UNCHANGED registry, next' \in [Sessions -> Nat],
           NEW c \in Conns, NEW r \in Connection, conn' = [conn EXCEPT ![c] = r],
           r.session = conn[c].session, conn[c].pc = "ended" => r.pc = "ended"
    PROVE  IInv'
<1>1. conn' \in [Conns -> Connection]
  BY DEF IInv, RegistryTypes
<1>2. RegistryTypes'
  BY <1>1 DEF IInv, RegistryTypes, registry
<1>3. NoDeadlineWhileAttached'
  BY DEF IInv, NoDeadlineWhileAttached, registry
<1>4. \A d \in Conns : conn'[d].session = conn[d].session
                       /\ (conn[d].pc = "ended" => conn'[d].pc = "ended")
  BY DEF IInv, RegistryTypes
<1>5. AttachedIsKept'
  BY <1>4 DEF IInv, AttachedIsKept, registry
<1> QED BY <1>2, <1>3, <1>5 DEF IInv

\* A step that leaves the registry and the connections alone.
LEMMA NoConnection ==
    ASSUME IInv, UNCHANGED <<registry, conn>>, next' \in [Sessions -> Nat]
    PROVE  IInv'
BY DEF IInv, RegistryTypes, NoDeadlineWhileAttached, AttachedIsKept, registry

\* An attachment to a session that no connection holds.
LEMMA AttachFree ==
    ASSUME IInv, NEW c \in Conns, NEW s \in Sessions, attach(s, c),
           sessions' \subseteq used', used' \subseteq Sessions, sessions \subseteq sessions',
           s \in sessions', timers' = timers, next' = next,
           \A d \in Conns : conn[d].session = s => conn[d].pc = "ended",
           conn[c].pc = "ready", conn[c].session = NULL
    PROVE  IInv'
<1>1. /\ att' = [att EXCEPT ![s] = [current |-> c, detached |-> NULL, due |-> FALSE]]
      /\ sender' = [sender EXCEPT ![s] = c]
      /\ conn' = [conn EXCEPT ![c].session = s]
  BY DEF attach
<1>2. RegistryTypes'
  <2>1. [conn[c] EXCEPT !.session = s] \in Connection
    <3>1. conn[c] \in Connection
      BY DEF IInv, RegistryTypes
    <3> QED BY <3>1 DEF Connection
  <2>2. [current |-> c, detached |-> NULL, due |-> FALSE] \in Attachment
    BY DEF Attachment
  <2> QED BY <1>1, <2>1, <2>2 DEF IInv, RegistryTypes
<1>3. NoDeadlineWhileAttached'
  BY <1>1 DEF IInv, RegistryTypes, Attachment, NoDeadlineWhileAttached
<1>4. AttachedIsKept'
  <2> SUFFICES ASSUME NEW d \in Conns, conn'[d].session # NULL, conn'[d].pc # "ended"
               PROVE  LET t == conn'[d].session IN
                      t \in sessions' /\ att'[t].current = d /\ sender'[t] = d
    BY DEF AttachedIsKept
  <2>1. CASE d = c
    BY <1>1, <2>1 DEF IInv, RegistryTypes, Attachment, Connection
  <2>2. CASE d # c
    <3>1. conn'[d] = conn[d]
      BY <1>1, <2>2 DEF IInv, RegistryTypes
    <3>2. conn[d].session # s /\ conn[d].session \in Sessions
      BY <3>1 DEF IInv, RegistryTypes, Connection
    <3> QED BY <1>1, <3>1, <3>2 DEF IInv, RegistryTypes, AttachedIsKept
  <2> QED BY <2>1, <2>2
<1> QED BY <1>2, <1>3, <1>4 DEF IInv

\* A session without a connection is taken out of the map.
LEMMA RemoveDetached ==
    ASSUME IInv, NEW s \in Sessions, att[s].current = NULL, sessions' = sessions \ {s},
           UNCHANGED <<att, sender>>, RegistryTypes',
           \A c \in Conns : conn'[c].session = conn[c].session
                            /\ (conn[c].pc = "ended" => conn'[c].pc = "ended")
    PROVE  IInv'
BY DEF IInv, RegistryTypes, NoDeadlineWhileAttached, AttachedIsKept

\* Every step keeps the invariant; one case per action.
LEMMA StepIInv == IInv /\ [Next]_vars => IInv'
<1>0. ASSUME IInv, UNCHANGED vars PROVE IInv'
  BY <1>0, NoConnection DEF vars, IInv, RegistryTypes
<1>1. ASSUME IInv, NEW c \in Conns, open(c) PROVE IInv'
  <2> DEFINE r == [conn[c] EXCEPT !.pc = "ready", !.up = TRUE]
  <2>1. conn' = [conn EXCEPT ![c] = r] /\ UNCHANGED registry /\ conn[c].pc # "ended"
    BY <1>1 DEF open
  <2>2. next' \in [Sessions -> Nat]
    BY <1>1 DEF open, IInv, RegistryTypes
  <2>3. r \in Connection /\ r.session = conn[c].session
    <3>1. conn[c] \in Connection
      BY <1>1 DEF IInv, RegistryTypes
    <3> QED BY <3>1 DEF Connection
  <2> QED BY <1>1, <2>1, <2>2, <2>3, OneConnection
<1>2. ASSUME IInv, NEW c \in Conns, initialize_new(c) PROVE IInv'
  <2>1. PICK s \in Sessions \ used :
          used' = used \cup {s} /\ sessions' = sessions \cup {s} /\ attach(s, c)
    BY <1>2 DEF initialize_new
  <2>2. \A d \in Conns : conn[d].session = s => conn[d].pc = "ended"
    BY <1>2, <2>1 DEF IInv, RegistryTypes, AttachedIsKept
  <2> QED BY <1>2, <2>1, <2>2, AttachFree DEF initialize_new, Ready, IInv, RegistryTypes
<1>3. ASSUME IInv, NEW c \in Conns, initialize_resume(c) PROVE IInv'
  <2>1. PICK s \in sessions :
          \/ /\ att[s].due /\ sessions' = sessions \ {s}
             /\ conn' = [conn EXCEPT ![c].pc = "expired", ![c].about = s]
             /\ UNCHANGED <<att, sender>>
          \/ att[s].current = NULL /\ attach(s, c) /\ UNCHANGED sessions
    BY <1>3 DEF initialize_resume, is_expired, has_active_connection
  <2>2. s \in Sessions
    BY <1>3 DEF IInv, RegistryTypes
  <2>3. CASE att[s].current = NULL /\ attach(s, c) /\ UNCHANGED sessions
    <3>1. \A d \in Conns : conn[d].session = s => conn[d].pc = "ended"
      BY <1>3, <2>2, <2>3 DEF IInv, AttachedIsKept
    <3> QED BY <1>3, <2>2, <2>3, <3>1, AttachFree DEF initialize_resume, Ready, IInv, RegistryTypes
  <2>4. CASE /\ att[s].due /\ sessions' = sessions \ {s}
             /\ conn' = [conn EXCEPT ![c].pc = "expired", ![c].about = s]
             /\ UNCHANGED <<att, sender>>
    <3> DEFINE r == [conn[c] EXCEPT !.pc = "expired", !.about = s]
    <3>1. att[s].current = NULL
      BY <1>3, <2>2, <2>4 DEF IInv, NoDeadlineWhileAttached
    <3>2. r \in Connection /\ r.session = conn[c].session
      <4>1. conn[c] \in Connection
        BY <1>3 DEF IInv, RegistryTypes
      <4> QED BY <4>1, <2>2 DEF Connection
    <3>3. conn' = [conn EXCEPT ![c] = r] /\ conn[c].pc # "ended"
      BY <1>3, <2>4 DEF initialize_resume, Ready
    <3>4. RegistryTypes'
      BY <1>3, <2>4, <3>2, <3>3 DEF initialize_resume, IInv, RegistryTypes
    <3>5. \A d \in Conns : conn'[d].session = conn[d].session
                           /\ (conn[d].pc = "ended" => conn'[d].pc = "ended")
      BY <1>3, <3>2, <3>3 DEF IInv, RegistryTypes
    <3> QED BY <1>3, <2>2, <2>4, <3>1, <3>4, <3>5, RemoveDetached
  <2> QED BY <2>1, <2>3, <2>4
<1>4. ASSUME IInv, NEW c \in Conns, expired_shutdown(c) PROVE IInv'
  <2> DEFINE r == [conn[c] EXCEPT !.pc = "ready", !.about = NULL]
  <2>1. conn' = [conn EXCEPT ![c] = r] /\ UNCHANGED registry /\ conn[c].pc # "ended"
    BY <1>4 DEF expired_shutdown
  <2>2. next' \in [Sessions -> Nat]
    BY <1>4 DEF expired_shutdown, IInv, RegistryTypes
  <2>3. r \in Connection /\ r.session = conn[c].session
    <3>1. conn[c] \in Connection
      BY <1>4 DEF IInv, RegistryTypes
    <3> QED BY <3>1 DEF Connection
  <2> QED BY <1>4, <2>1, <2>2, <2>3, OneConnection
<1>5. ASSUME IInv, NEW c \in Conns, initialized(c) PROVE IInv'
  <2> DEFINE r == [conn[c] EXCEPT !.initialized = TRUE]
  <2>1. conn' = [conn EXCEPT ![c] = r] /\ UNCHANGED registry /\ conn[c].pc # "ended"
    BY <1>5 DEF initialized, Ready
  <2>2. next' \in [Sessions -> Nat]
    BY <1>5 DEF initialized, IInv, RegistryTypes
  <2>3. r \in Connection /\ r.session = conn[c].session
    <3>1. conn[c] \in Connection
      BY <1>5 DEF IInv, RegistryTypes
    <3> QED BY <3>1 DEF Connection
  <2> QED BY <1>5, <2>1, <2>2, <2>3, OneConnection
<1>6. ASSUME IInv, NEW c \in Conns, disconnect(c) PROVE IInv'
  <2> DEFINE r == [conn[c] EXCEPT !.up = FALSE, !.ack = 0]
  <2>1. conn' = [conn EXCEPT ![c] = r] /\ UNCHANGED registry
    BY <1>6 DEF disconnect
  <2>2. next' \in [Sessions -> Nat]
    BY <1>6 DEF disconnect, IInv, RegistryTypes
  <2>3. r \in Connection /\ r.session = conn[c].session /\ r.pc = conn[c].pc
    <3>1. conn[c] \in Connection
      BY <1>6 DEF IInv, RegistryTypes
    <3> QED BY <3>1 DEF Connection
  <2> QED BY <1>6, <2>1, <2>2, <2>3, OneConnection
<1>7. ASSUME IInv, NEW c \in Conns, detach(c) PROVE IInv'
  <2> DEFINE s == conn[c].session
             r == [conn[c] EXCEPT !.pc = "ended"]
  <2>1. conn' = [conn EXCEPT ![c] = r] /\ UNCHANGED <<sessions, used, next>>
    BY <1>7 DEF detach, Goes
  <2>2. r \in Connection /\ r.session = s /\ r.pc = "ended" /\ s \in Sessions \cup {NULL}
    <3>1. conn[c] \in Connection
      BY <1>7 DEF IInv, RegistryTypes
    <3> QED BY <3>1 DEF Connection
  <2>3. CASE s # NULL /\ att[s].current = c
    <3>1. /\ att' = [att EXCEPT ![s] = [current |-> NULL, detached |-> c, due |-> FALSE]]
          /\ sender' = [sender EXCEPT ![s] = NULL]
          /\ timers' = timers \cup {<<s, c>>}
          /\ s \in Sessions
      BY <1>7, <2>2, <2>3 DEF detach
    <3>2. RegistryTypes'
      <4>1. [current |-> NULL, detached |-> c, due |-> FALSE] \in Attachment
        BY DEF Attachment
      <4>2. att' \in [Sessions -> Attachment] /\ conn' \in [Conns -> Connection]
        BY <1>7, <2>1, <2>2, <3>1, <4>1 DEF IInv, RegistryTypes
      <4> QED BY <1>7, <2>1, <3>1, <4>2 DEF IInv, RegistryTypes
    <3>3. NoDeadlineWhileAttached'
      BY <1>7, <3>1 DEF IInv, RegistryTypes, NoDeadlineWhileAttached
    <3>4. AttachedIsKept'
      <4> SUFFICES ASSUME NEW d \in Conns, conn'[d].session # NULL, conn'[d].pc # "ended"
                   PROVE  LET t == conn'[d].session IN
                          t \in sessions' /\ att'[t].current = d /\ sender'[t] = d
        BY DEF AttachedIsKept
      <4>1. d # c /\ conn'[d] = conn[d]
        BY <1>7, <2>1, <2>2 DEF IInv, RegistryTypes
      <4>2. conn[d].session # s /\ conn[d].session \in Sessions
        BY <1>7, <2>3, <4>1 DEF IInv, RegistryTypes, Connection, AttachedIsKept
      <4> QED BY <1>7, <2>1, <3>1, <4>1, <4>2 DEF IInv, RegistryTypes, AttachedIsKept
    <3> QED BY <3>2, <3>3, <3>4 DEF IInv
  <2>4. CASE ~(s # NULL /\ att[s].current = c)
    <3>1. UNCHANGED registry
      BY <1>7, <2>1, <2>4 DEF detach, registry
    <3>2. next' \in [Sessions -> Nat]
      BY <1>7, <2>1 DEF IInv, RegistryTypes
    <3> QED BY <1>7, <2>1, <2>2, <3>1, <3>2, OneConnection
  <2> QED BY <2>3, <2>4
<1>8. ASSUME IInv, NEW c \in Conns, start_process(c) PROVE IInv'
  <2> DEFINE r == [conn[c] EXCEPT !.pc = "starting"]
  <2>1. /\ conn' = [conn EXCEPT ![c] = r] /\ UNCHANGED registry /\ conn[c].pc # "ended"
        /\ conn[c].session # NULL
    BY <1>8 DEF start_process, Serves, Ready, Goes
  <2>2. next' \in [Sessions -> Nat]
    BY <1>8 DEF start_process, IInv, RegistryTypes
  <2>3. r \in Connection /\ r.session = conn[c].session
    <3>1. conn[c] \in Connection
      BY <1>8 DEF IInv, RegistryTypes
    <3> QED BY <3>1, <2>1 DEF Connection
  <2> QED BY <1>8, <2>1, <2>2, <2>3, OneConnection
<1>9. ASSUME IInv, NEW c \in Conns, process_started(c) PROVE IInv'
  <2> DEFINE r == [conn[c] EXCEPT !.pc = "ready"]
  <2>1. conn' = [conn EXCEPT ![c] = r] /\ UNCHANGED registry /\ conn[c].pc # "ended"
    BY <1>9 DEF process_started, Goes
  <2>2. next' \in [Sessions -> Nat]
    BY <1>9 DEF process_started, IInv, RegistryTypes
  <2>3. r \in Connection /\ r.session = conn[c].session
    <3>1. conn[c] \in Connection
      BY <1>9 DEF IInv, RegistryTypes
    <3> QED BY <3>1 DEF Connection
  <2> QED BY <1>9, <2>1, <2>2, <2>3, OneConnection
<1>10. ASSUME IInv, NEW c \in Conns, terminate_process(c) PROVE IInv'
  BY <1>10, NoConnection DEF terminate_process, IInv, RegistryTypes
<1>11. ASSUME IInv, NEW c \in Conns, exec_write(c) PROVE IInv'
  <2>1. PICK s \in Sessions :
          /\ Serves(c, s)
          /\ \/ Moves(s) /\ UNCHANGED conn
             \/ Accepted(c, next[s]) /\ UNCHANGED next
             \/ Goes(c, "reserving") /\ UNCHANGED next
          /\ UNCHANGED registry
    BY <1>11 DEF exec_write
  <2>2. conn[c].pc = "ready" /\ conn[c].session # NULL /\ next[s] \in Nat
    BY <1>11, <2>1 DEF Serves, Ready, IInv, RegistryTypes
  <2>3. next' \in [Sessions -> Nat]
    BY <1>11, <2>1 DEF Moves, IInv, RegistryTypes
  <2>4. CASE Moves(s) /\ UNCHANGED conn
    BY <1>11, <2>1, <2>3, <2>4, NoConnection
  <2>5. CASE Accepted(c, next[s])
    <3> DEFINE r == [conn[c] EXCEPT !.pc = "ready", !.ack = next[s]]
    <3>1. conn' = [conn EXCEPT ![c] = r]
      BY <2>5 DEF Accepted
    <3>2. r \in Connection /\ r.session = conn[c].session
      <4>1. conn[c] \in Connection
        BY <1>11 DEF IInv, RegistryTypes
      <4> QED BY <4>1, <2>2 DEF Connection
    <3> QED BY <1>11, <2>1, <2>2, <2>3, <3>1, <3>2, OneConnection
  <2>6. CASE Goes(c, "reserving")
    <3> DEFINE r == [conn[c] EXCEPT !.pc = "reserving"]
    <3>1. conn' = [conn EXCEPT ![c] = r]
      BY <2>6 DEF Goes
    <3>2. r \in Connection /\ r.session = conn[c].session
      <4>1. conn[c] \in Connection
        BY <1>11 DEF IInv, RegistryTypes
      <4> QED BY <4>1, <2>2 DEF Connection
    <3> QED BY <1>11, <2>1, <2>2, <2>3, <3>1, <3>2, OneConnection
  <2> QED BY <2>1, <2>4, <2>5, <2>6
<1>12. ASSUME IInv, NEW c \in Conns, exec_write_sends(c) PROVE IInv'
  <2> DEFINE s == conn[c].session
             w == next[s]
  <2>1. /\ conn[c].pc = "reserving" /\ UNCHANGED registry
        /\ \/ Accepted(c, w) /\ UNCHANGED next
           \/ Goes(c, "ready") /\ Moves(s)
    BY <1>12 DEF exec_write_sends
  <2>2. next' \in [Sessions -> Nat]
    BY <1>12, <2>1 DEF Moves, IInv, RegistryTypes
  <2>3. CASE Accepted(c, w)
    <3> DEFINE r == [conn[c] EXCEPT !.pc = "ready", !.ack = w]
    <3>1. conn' = [conn EXCEPT ![c] = r]
      BY <2>3 DEF Accepted
    <3>2. w \in Nat
      BY <1>12, <2>1 DEF IInv, RegistryTypes, Connection
    <3>3. r \in Connection /\ r.session = conn[c].session
      <4>1. conn[c] \in Connection
        BY <1>12 DEF IInv, RegistryTypes
      <4> QED BY <4>1, <3>2 DEF Connection
    <3> QED BY <1>12, <2>1, <2>2, <3>1, <3>3, OneConnection
  <2>4. CASE Goes(c, "ready")
    <3> DEFINE r == [conn[c] EXCEPT !.pc = "ready"]
    <3>1. conn' = [conn EXCEPT ![c] = r]
      BY <2>4 DEF Goes
    <3>2. r \in Connection /\ r.session = conn[c].session
      <4>1. conn[c] \in Connection
        BY <1>12 DEF IInv, RegistryTypes
      <4> QED BY <4>1 DEF Connection
    <3> QED BY <1>12, <2>1, <2>2, <3>1, <3>2, OneConnection
  <2> QED BY <2>1, <2>3, <2>4
<1>13. ASSUME IInv, NEW c \in Conns, write_returns(c) PROVE IInv'
  <2> DEFINE r == [conn[c] EXCEPT !.ack = 0]
  <2>1. conn' = [conn EXCEPT ![c] = r] /\ UNCHANGED registry
    BY <1>13 DEF write_returns
  <2>2. next' \in [Sessions -> Nat]
    <3> DEFINE k == conn[c].session
    <3>1. next \in [Sessions -> Nat] /\ next' = [next EXCEPT ![k] = next[k] + 1]
      BY <1>13 DEF write_returns, Moves, IInv, RegistryTypes
    <3>2. CASE k \in Sessions
      BY <3>1, <3>2
    <3>3. CASE k \notin Sessions
      <4>1. next' = next
        BY <3>1, <3>3
      <4> QED BY <3>1, <4>1
    <3> QED BY <3>2, <3>3
  <2>3. r \in Connection /\ r.session = conn[c].session /\ r.pc = conn[c].pc
    <3>1. conn[c] \in Connection
      BY <1>13 DEF IInv, RegistryTypes
    <3> QED BY <3>1 DEF Connection
  <2> QED BY <1>13, <2>1, <2>2, <2>3, OneConnection
<1>14. ASSUME IInv, NEW c \in Conns, NEW s \in Sessions, expire_if_detached(s, c) PROVE IInv'
  <2>1. RegistryTypes' /\ UNCHANGED <<att, sender, conn>>
    BY <1>14 DEF expire_if_detached, IInv, RegistryTypes
  <2>2. CASE sessions' = sessions
    BY <1>14, <2>1, <2>2 DEF IInv, NoDeadlineWhileAttached, AttachedIsKept
  <2>3. CASE sessions' = sessions \ {s} /\ att[s].current = NULL
    BY <1>14, <2>1, <2>3, RemoveDetached
  <2> QED BY <1>14, <2>2, <2>3 DEF expire_if_detached, is_detached_connection_expired
<1>15. ASSUME IInv, NEW s \in Sessions, grace_ends(s) PROVE IInv'
  <2> DEFINE a == [att[s] EXCEPT !.due = TRUE]
  <2>1. /\ att' = [att EXCEPT ![s] = a]
        /\ UNCHANGED <<sessions, used, sender, timers, conn, next>>
        /\ att[s].current = NULL
    BY <1>15 DEF grace_ends, IInv, NoDeadlineWhileAttached
  <2>2. a \in Attachment /\ a.current = att[s].current
    <3>1. att[s] \in Attachment
      BY <1>15 DEF IInv, RegistryTypes
    <3> QED BY <3>1 DEF Attachment
  <2>3. \A t \in Sessions : att'[t].current = att[t].current
    BY <1>15, <2>1, <2>2 DEF IInv, RegistryTypes
  <2>4. RegistryTypes'
    BY <1>15, <2>1, <2>2 DEF IInv, RegistryTypes
  <2>5. NoDeadlineWhileAttached'
    BY <1>15, <2>1, <2>2 DEF IInv, RegistryTypes, NoDeadlineWhileAttached
  <2>6. AttachedIsKept'
    BY <1>15, <2>1, <2>3 DEF IInv, RegistryTypes, Connection, AttachedIsKept
  <2> QED BY <2>4, <2>5, <2>6 DEF IInv
<1>16. ASSUME IInv, NEW s \in Sessions, process_exits(s) \/ remove_closed(s) PROVE IInv'
  BY <1>16, NoConnection DEF process_exits, remove_closed, IInv, RegistryTypes
<1> QED
  BY <1>0, <1>1, <1>2, <1>3, <1>4, <1>5, <1>6, <1>7, <1>8, <1>9, <1>10, <1>11, <1>12,
     <1>13, <1>14, <1>15, <1>16 DEF Next

\* The types of the registry and of the connections hold, and a session that has
\* a connection has no deadline, in every reachable state.
THEOREM RegistryInvariant == Spec => []IInv
<1>1. Init => IInv
  BY InitIInv
<1>2. IInv /\ [Next]_vars => IInv'
  BY StepIInv
<1> QED BY <1>1, <1>2, PTL DEF Spec

\* A connection keeps its session until it ends (SessionRegistry::attach, detach,
\* expire_if_detached), for any number of connections, sessions and timers.
THEOREM HolderKeepsSession == Spec => []AttachedIsKept
<1>1. IInv => AttachedIsKept
  BY DEF IInv
<1> QED BY <1>1, RegistryInvariant, PTL

\* The sessions a step takes out of the map have no connection and a deadline
\* that has passed: the resume that finds the session expired, and the timer.
LEMMA StepKeepsGrace ==
    ASSUME IInv, [Next]_vars
    PROVE  [\A s \in sessions : s \notin sessions' => att[s].current = NULL /\ att[s].due]_vars
<1> SUFFICES ASSUME Next, NEW s \in sessions, s \notin sessions'
             PROVE  att[s].current = NULL /\ att[s].due
  BY DEF vars
<1>1. CASE \E c \in Conns : initialize_resume(c)
  <2>1. att[s].due
    BY <1>1 DEF initialize_resume, is_expired
  <2> QED BY <2>1 DEF IInv, RegistryTypes, NoDeadlineWhileAttached
<1>2. CASE \E t \in Sessions, c \in Conns : expire_if_detached(t, c)
  BY <1>2 DEF expire_if_detached, is_detached_connection_expired
<1>3. CASE \E c \in Conns : initialize_new(c)
  BY <1>3 DEF initialize_new
<1>4. CASE \E c \in Conns :
             \/ open(c) \/ expired_shutdown(c) \/ initialized(c) \/ disconnect(c) \/ detach(c)
  BY <1>4 DEF open, expired_shutdown, initialized, disconnect, detach, registry
<1>5. CASE \E c \in Conns :
             \/ start_process(c) \/ process_started(c) \/ terminate_process(c)
             \/ exec_write(c) \/ exec_write_sends(c) \/ write_returns(c)
  BY <1>5 DEF start_process, process_started, terminate_process, exec_write,
              exec_write_sends, write_returns, registry
<1>6. CASE \E t \in Sessions : grace_ends(t) \/ process_exits(t) \/ remove_closed(t)
  BY <1>6 DEF grace_ends, process_exits, remove_closed, registry
<1> QED BY <1>1, <1>2, <1>3, <1>4, <1>5, <1>6 DEF Next

\* A session goes only without a connection and after the grace period of its last
\* detachment: no timer of an earlier connection cuts it short.
THEOREM GraceKept == Spec => GraceIsKept
<1>1. IInv /\ [Next]_vars =>
        [\A s \in sessions : s \notin sessions' => att[s].current = NULL /\ att[s].due]_vars
  BY StepKeepsGrace
<1> QED BY <1>1, RegistryInvariant, PTL DEF Spec, GraceIsKept

-----------------------------------------------------------------------------
(* Writes.                                                                 *)

Process ==
    [st : {"none", "starting", "running", "exited"}, by : Conns \cup {NULL},
     ids : Seq(Nat), stdin : Seq(Nat)]

\* The stdin and the retained ids of a process whose client is at write n: what
\* was written is in order and not ahead of the client, and the newest id is that
\* of the last write, so that the client's current write is either remembered or
\* later than all that was written.
Written(p, n) ==
    /\ p \in Process
    /\ p.st \in {"none", "starting"} => p.stdin = <<>>
    /\ \A i, j \in 1 .. Len(p.stdin) : i < j => p.stdin[i] < p.stdin[j]
    /\ \A i \in 1 .. Len(p.stdin) : p.stdin[i] <= n
    /\ p.stdin # <<>> => p.ids # <<>> /\ p.ids[Len(p.ids)] = p.stdin[Len(p.stdin)]

WriteInv ==
    /\ proc \in [Sessions -> Process]
    /\ \A s \in Sessions : Written(proc[s], next[s])

\* A process that is not there has written nothing.
LEMMA NothingWritten == \A n \in Nat : Written(NoProcess, n)
BY DEF Written, NoProcess, Process

\* A step changes the process of one session and the place of its client.
LEMMA OneProcess ==
    ASSUME IInv, WriteInv, NEW s \in Sessions, NEW p, NEW n \in Nat, Written(p, n),
           proc' = [proc EXCEPT ![s] = p], next' = [next EXCEPT ![s] = n]
    PROVE  WriteInv'
BY DEF IInv, RegistryTypes, WriteInv, Written

\* A client that moves on is not behind what was written.
LEMMA LaterWrite ==
    ASSUME NEW p, NEW n \in Nat, Written(p, n)
    PROVE  Written(p, n + 1)
BY DEF Written, Process

\* remember keeps the newest id, however few are retained.
LEMMA RememberedLast ==
    ASSUME NEW ids \in Seq(Nat), NEW w \in Nat
    PROVE  LET r == remember(ids, w) IN r \in Seq(Nat) /\ r # <<>> /\ r[Len(r)] = w
<1> DEFINE all == Append(ids, w)
<1>1. all \in Seq(Nat) /\ Len(all) = Len(ids) + 1 /\ all[Len(all)] = w
  OBVIOUS
<1>2. CASE Len(all) > Retained
  <2>1. Len(all) >= 2 /\ all # <<>>
    BY <1>1, <1>2
  <2>2. /\ Tail(all) \in Seq(Nat) /\ Len(Tail(all)) = Len(all) - 1
        /\ Tail(all)[Len(all) - 1] = all[Len(all)]
    BY <1>1, <2>1
  <2> QED BY <1>1, <1>2, <2>1, <2>2 DEF remember
<1>3. CASE ~(Len(all) > Retained)
  BY <1>1, <1>3 DEF remember
<1> QED BY <1>2, <1>3

\* A write that is not remembered is later than all that was written, and is
\* then itself the last.
LEMMA WrittenLast ==
    ASSUME NEW p, NEW w \in Nat, Written(p, w), ~Contains(p.ids, w),
           p.st \in {"running", "exited"}
    PROVE  Written([p EXCEPT !.stdin = Append(@, w), !.ids = remember(@, w)], w)
<1> DEFINE q == [p EXCEPT !.stdin = Append(@, w), !.ids = remember(@, w)]
<1>1. p \in Process /\ p.stdin \in Seq(Nat) /\ p.ids \in Seq(Nat)
  BY DEF Written, Process
<1>2. /\ remember(p.ids, w) \in Seq(Nat) /\ remember(p.ids, w) # <<>>
      /\ remember(p.ids, w)[Len(remember(p.ids, w))] = w
  BY <1>1, RememberedLast
<1>3. q.stdin = Append(p.stdin, w) /\ q.ids = remember(p.ids, w) /\ q.st = p.st
  BY <1>1 DEF Process
<1>4. q \in Process
  <2> DEFINE ids == remember(p.ids, w)
             in == Append(p.stdin, w)
  <2>1. ids \in Seq(Nat) /\ in \in Seq(Nat)
    BY <1>1, <1>2
  <2> HIDE DEF ids, in
  <2>2. [p EXCEPT !.stdin = in, !.ids = ids] \in Process
    BY <1>1, <2>1 DEF Process
  <2> QED BY <2>2 DEF ids, in
<1>5. p.stdin # <<>> => p.stdin[Len(p.stdin)] # w
  <2> SUFFICES ASSUME p.stdin # <<>>, p.stdin[Len(p.stdin)] = w PROVE FALSE
    OBVIOUS
  <2>1. p.ids # <<>> /\ p.ids[Len(p.ids)] = w
    BY DEF Written
  <2>2. Len(p.ids) \in 1 .. Len(p.ids)
    BY <1>1, <2>1
  <2> QED BY <2>1, <2>2 DEF Contains
<1>6. \A i \in 1 .. Len(p.stdin) : p.stdin[i] < w
  <2> SUFFICES ASSUME NEW i \in 1 .. Len(p.stdin) PROVE p.stdin[i] < w
    OBVIOUS
  <2>1. p.stdin # <<>> /\ Len(p.stdin) \in 1 .. Len(p.stdin) /\ p.stdin[i] \in Nat
        /\ p.stdin[Len(p.stdin)] \in Nat
    BY <1>1
  <2>2. p.stdin[Len(p.stdin)] < w
    BY <1>5, <2>1 DEF Written
  <2>3. i = Len(p.stdin) \/ p.stdin[i] < p.stdin[Len(p.stdin)]
    BY <1>1, <2>1 DEF Written
  <2> QED BY <2>1, <2>2, <2>3
<1>7. /\ Len(q.stdin) = Len(p.stdin) + 1 /\ q.stdin[Len(q.stdin)] = w
      /\ \A i \in 1 .. Len(p.stdin) : q.stdin[i] = p.stdin[i]
  BY <1>1, <1>3
<1>8. \A i, j \in 1 .. Len(q.stdin) : i < j => q.stdin[i] < q.stdin[j]
  <2> SUFFICES ASSUME NEW i \in 1 .. Len(q.stdin), NEW j \in 1 .. Len(q.stdin), i < j
               PROVE  q.stdin[i] < q.stdin[j]
    OBVIOUS
  <2>1. i \in 1 .. Len(p.stdin)
    BY <1>1, <1>7
  <2>2. CASE j = Len(q.stdin)
    BY <1>6, <1>7, <2>1, <2>2
  <2>3. CASE j # Len(q.stdin)
    <3>1. j \in 1 .. Len(p.stdin)
      BY <1>1, <1>7, <2>3
    <3> QED BY <1>7, <2>1, <3>1 DEF Written
  <2> QED BY <2>2, <2>3
<1>9. \A i \in 1 .. Len(q.stdin) : q.stdin[i] <= w
  <2> SUFFICES ASSUME NEW i \in 1 .. Len(q.stdin) PROVE q.stdin[i] <= w
    OBVIOUS
  <2>1. CASE i = Len(q.stdin)
    BY <1>7, <2>1
  <2>2. CASE i # Len(q.stdin)
    <3>1. i \in 1 .. Len(p.stdin)
      BY <1>1, <1>7, <2>2
    <3>2. p.stdin[i] \in Nat /\ p.stdin[i] < w
      BY <1>1, <1>6, <3>1
    <3> QED BY <1>7, <3>1, <3>2
  <2> QED BY <2>1, <2>2
<1> QED BY <1>2, <1>3, <1>4, <1>7, <1>8, <1>9 DEF Written

\* The actions that leave processes and clients alone.
LEMMA NoWriteStep ==
    ASSUME WriteInv, UNCHANGED <<proc, next>>
    PROVE  WriteInv'
BY DEF WriteInv

\* Only exec_write_sends adds to a stdin; the others end the process, start a
\* fresh one whose client begins again, or let the client move on.
LEMMA StepWriteInv == IInv /\ WriteInv /\ [Next]_vars => WriteInv'
<1> SUFFICES ASSUME IInv, WriteInv, [Next]_vars PROVE WriteInv'
  OBVIOUS
<1>0. next \in [Sessions -> Nat] /\ conn \in [Conns -> Connection]
      /\ proc \in [Sessions -> Process]
  BY DEF IInv, RegistryTypes, WriteInv
<1>00. \A s \in Sessions : Written(proc[s], next[s]) /\ next[s] \in Nat
  BY <1>0 DEF WriteInv
<1> HIDE DEF IInv
<1>gone. ASSUME NEW s \in Sessions, proc' = [proc EXCEPT ![s] = NoProcess], UNCHANGED next
         PROVE  WriteInv'
  <2>1. next' = [next EXCEPT ![s] = next[s]] /\ Written(NoProcess, next[s]) /\ next[s] \in Nat
    BY <1>gone, <1>0, NothingWritten
  <2> QED BY <1>gone, <2>1, OneProcess
<1>moves. ASSUME NEW s \in Sessions, Moves(s), UNCHANGED proc
          PROVE  WriteInv'
  <2>1. Written(proc[s], next[s] + 1) /\ next[s] + 1 \in Nat
    BY <1>00, LaterWrite
  <2>2. next' = [next EXCEPT ![s] = next[s] + 1] /\ proc' = [proc EXCEPT ![s] = proc[s]]
    BY <1>moves, <1>0 DEF Moves
  <2> QED BY <2>1, <2>2, OneProcess
<1>1. CASE UNCHANGED <<proc, next>>
  BY <1>1, NoWriteStep
<1>2. ASSUME NEW c \in Conns,
             \/ open(c) \/ initialize_new(c) \/ initialize_resume(c)
             \/ initialized(c) \/ disconnect(c) \/ detach(c)
      PROVE  WriteInv'
  BY <1>2, NoWriteStep DEF open, initialize_new, initialize_resume, initialized, disconnect, detach
<1>3. ASSUME NEW c \in Conns, expired_shutdown(c) PROVE WriteInv'
  <2>1. CASE conn[c].about \in Sessions
    BY <1>3, <1>gone, <2>1 DEF expired_shutdown
  <2>2. CASE conn[c].about \notin Sessions
    <3>1. proc' = proc /\ next' = next
      BY <1>3, <1>0, <2>2 DEF expired_shutdown
    <3> QED BY <3>1, NoWriteStep
  <2> QED BY <2>1, <2>2
<1>4. ASSUME NEW c \in Conns, start_process(c) PROVE WriteInv'
  <2>1. PICK s \in Sessions :
          /\ proc' = [proc EXCEPT ![s] = [NoProcess EXCEPT !.st = "starting", !.by = c]]
          /\ UNCHANGED next
    BY <1>4 DEF start_process
  <2>2. Written([NoProcess EXCEPT !.st = "starting", !.by = c], next[s])
    <3> DEFINE p == [st |-> "starting", by |-> c, ids |-> <<>>, stdin |-> <<>>]
    <3>1. p = [NoProcess EXCEPT !.st = "starting", !.by = c]
      <4> DEFINE q == [st |-> "starting", by |-> NULL, ids |-> <<>>, stdin |-> <<>>]
      <4>1. [NoProcess EXCEPT !.st = "starting"] = q
        BY DEF NoProcess
      <4>2. [q EXCEPT !.by = c] = p
        OBVIOUS
      <4> HIDE DEF q, p
      <4> QED BY <4>1, <4>2
    <3>2. Written(p, next[s])
      BY DEF Written, Process
    <3> QED BY <3>1, <3>2
  <2>3. next' = [next EXCEPT ![s] = next[s]]
    BY <1>0, <2>1
  <2> QED BY <1>00, <2>1, <2>2, <2>3, OneProcess
<1>5. ASSUME NEW c \in Conns, process_started(c) PROVE WriteInv'
  <2> DEFINE s == conn[c].session
  <2>1. s \in Sessions
    BY <1>0, <1>5 DEF process_started, Connection
  <2>2. CASE proc[s].st = "starting" /\ proc' = [proc EXCEPT ![s].st = "running"]
             /\ next' = [next EXCEPT ![s] = 1]
    <3> DEFINE p == [proc[s] EXCEPT !.st = "running"]
    <3>1. proc' = [proc EXCEPT ![s] = p]
      BY <2>2
    <3>2. proc[s] \in Process /\ proc[s].stdin = <<>>
      BY <1>00, <2>1, <2>2 DEF Written
    <3>3. p \in Process /\ p.stdin = <<>>
      BY <3>2 DEF Process
    <3>4. Written(p, 1)
      BY <3>3 DEF Written
    <3> QED BY <2>1, <2>2, <3>1, <3>4, OneProcess
  <2>3. CASE proc' = [proc EXCEPT ![s] = NoProcess] /\ UNCHANGED next
    BY <1>gone, <2>1, <2>3
  <2> QED BY <1>1, <1>5, <2>2, <2>3 DEF process_started
<1>6. ASSUME NEW c \in Conns, terminate_process(c) PROVE WriteInv'
  BY <1>6, <1>gone DEF terminate_process
<1>7. ASSUME NEW c \in Conns, exec_write(c) PROVE WriteInv'
  BY <1>7, <1>1, <1>moves DEF exec_write
<1>8. ASSUME NEW c \in Conns, exec_write_sends(c) PROVE WriteInv'
  <2> DEFINE s == conn[c].session
             w == next[s]
  <2>1. s \in Sessions
    BY <1>0, <1>8 DEF exec_write_sends, Connection
  <2>2. CASE Moves(s) /\ UNCHANGED proc
    BY <1>moves, <2>1, <2>2
  <2>3. CASE /\ proc[s].st \in {"running", "exited"} /\ ~Contains(proc[s].ids, w)
             /\ proc' = [proc EXCEPT ![s].stdin = Append(@, w), ![s].ids = remember(@, w)]
             /\ UNCHANGED next
    <3> DEFINE p == [proc[s] EXCEPT !.stdin = Append(@, w), !.ids = remember(@, w)]
    <3>1. Written(p, w) /\ w \in Nat
      BY <1>00, <2>1, <2>3, WrittenLast
    <3>2. proc' = [proc EXCEPT ![s] = p]
      <4> DEFINE q == proc[s]
      <4>1. proc' = [proc EXCEPT ![s] = [q EXCEPT !.stdin = Append(q.stdin, w), !.ids = remember(q.ids, w)]]
        BY <2>3, Zenon
      <4> QED BY <4>1
    <3>3. next' = [next EXCEPT ![s] = w]
      BY <1>0, <2>1, <2>3
    <3> HIDE DEF p, w
    <3> QED BY <2>1, <3>1, <3>2, <3>3, OneProcess
  <2> QED BY <1>1, <1>8, <2>2, <2>3 DEF exec_write_sends
<1>9. ASSUME NEW c \in Conns, write_returns(c) PROVE WriteInv'
  <2>1. CASE conn[c].session \in Sessions
    BY <1>9, <1>moves, <2>1 DEF write_returns
  <2>2. CASE conn[c].session \notin Sessions
    <3>1. proc' = proc /\ next' = next
      BY <1>9, <1>0, <2>2 DEF write_returns, Moves
    <3> QED BY <3>1, NoWriteStep
  <2> QED BY <2>1, <2>2
<1>10. ASSUME NEW s \in Sessions, NEW c \in Conns, expire_if_detached(s, c) PROVE WriteInv'
  BY <1>10, <1>1, <1>gone DEF expire_if_detached
<1>11. ASSUME NEW s \in Sessions, grace_ends(s) \/ remove_closed(s) PROVE WriteInv'
  BY <1>11, <1>1, <1>gone DEF grace_ends, remove_closed
<1>12. ASSUME NEW s \in Sessions, process_exits(s) PROVE WriteInv'
  <2> DEFINE p == [proc[s] EXCEPT !.st = "exited"]
  <2>1. proc' = [proc EXCEPT ![s] = p] /\ next' = [next EXCEPT ![s] = next[s]]
        /\ proc[s].st = "running"
    BY <1>12, <1>0 DEF process_exits
  <2>2. proc[s] \in Process
    BY <1>0
  <2>3. p \in Process /\ p.st = "exited" /\ p.stdin = proc[s].stdin /\ p.ids = proc[s].ids
    BY <2>2 DEF Process
  <2>4. Written(p, next[s])
    BY <1>00, <2>3 DEF Written
  <2> QED BY <1>00, <2>1, <2>4, OneProcess
<1> QED
  BY <1>1, <1>2, <1>3, <1>4, <1>5, <1>6, <1>7, <1>8, <1>9, <1>10, <1>11, <1>12 DEF Next, vars

\* What reaches the stdin of a process is written once and in the client's order,
\* for any number of connections, sessions, writes and retained ids (at least
\* one): a retry after a lost answer finds its id, or is later than all before it.
THEOREM WritesInOrder == Spec => []WrittenOnce
<1>1. Init => WriteInv
  BY NothingWritten DEF Init, WriteInv, NoProcess, Process
<1>2. IInv /\ WriteInv /\ [Next]_vars => WriteInv'
  BY StepWriteInv
<1>3. WriteInv => WrittenOnce
  BY DEF WriteInv, Written, WrittenOnce
<1> QED BY <1>1, <1>2, <1>3, RegistryInvariant, PTL DEF Spec
=============================================================================
