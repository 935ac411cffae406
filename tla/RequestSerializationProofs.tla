---------------------- MODULE RequestSerializationProofs ----------------------
(***************************************************************************)
(* TLAPS proofs about RequestSerialization, for any set of requests,       *)
(* connections and scopes.                                                 *)
(*                                                                         *)
(* ExclusiveAccess is not inductive: it says nothing of who popped a       *)
(* request.  The argument goes through the drain tasks: a key in the map   *)
(* has at most one live drain task, every popped or running queued request *)
(* is in the batch of one, and a batch is one request or shared reads.     *)
(*                                                                         *)
(* The same drain task serves a key that is in the map (NoStrandedQueue).  *)
(* The order of arrival carries over from queues to batches to handlers    *)
(* (FifoPerKey).  CleanupIsFinal follows from the gate: a connection that  *)
(* was cleaned has a closed gate and no token, so none of its handlers runs. *)
(***************************************************************************)
EXTENDS RequestSerialization, TLAPS

LEMMA KeyInKeys == ASSUME NEW r \in Scoped PROVE Key(r) \in Keys
BY DEF Keys

LEMMA ScopedRequests == Scoped \subseteq Requests
BY DEF Scoped

\* A suffix of a sequence of requests is one, and its elements are elements
\* of the original (drain's pops).
LEMMA SuffixFacts ==
    ASSUME NEW q \in Seq(Requests), NEW n \in 1..Len(q)
    PROVE  /\ SubSeq(q, n + 1, Len(q)) \in Seq(Requests)
           /\ \A i \in 1..Len(SubSeq(q, n + 1, Len(q))) :
                 \E j \in 1..Len(q) : SubSeq(q, n + 1, Len(q))[i] = q[j]
           /\ Front(q, n) \subseteq Requests
<1> DEFINE sub == SubSeq(q, n + 1, Len(q))
<1>1. Len(q) \in Nat /\ \A i \in 1..Len(q) : q[i] \in Requests
  OBVIOUS
<1>2. sub \in Seq(Requests)
  OBVIOUS
<1>3. ASSUME NEW i \in 1..Len(sub) PROVE \E j \in 1..Len(q) : sub[i] = q[j]
  <2>1. Len(sub) = Len(q) - n /\ sub[i] = q[n + i]
    BY <1>1
  <2>2. n + i \in 1..Len(q)
    BY <1>1, <2>1
  <2> QED BY <2>1, <2>2
<1>4. Front(q, n) \subseteq Requests
  BY <1>1 DEF Front
<1> QED BY <1>2, <1>3, <1>4

\* Only a dispatched request with a scope has a drain task, and only a
\* task that is joining has a batch.
DrainersScoped ==
    \A d \in Requests :
        /\ drainer[d] # "none" => d \in Scoped /\ status[d] # "new"
        /\ batch[d] # {} => drainer[d] = "join"

\* Every request waiting under a key has that key.
QueuesKeyed ==
    \A k \in Keys : \A i \in 1..Len(queue[k]) :
        queue[k][i] \in Scoped /\ Key(queue[k][i]) = k

\* A live drain task's key is in the map, and no other task drains it.
OneDrainerPerKey ==
    \A d \in Requests : drainer[d] \in LiveDrainer =>
        /\ Key(d) \in hasQueue
        /\ \A e \in Requests :
              drainer[e] \in LiveDrainer /\ Key(e) = Key(d) => e = d

\* A batch holds requests of its task's key, and two only if both are reads.
BatchesCompatible ==
    \A d \in Requests : \A r \in batch[d] :
        /\ r \in Scoped
        /\ Key(r) = Key(d)
        /\ \A s \in batch[d] : s # r => SharedRead(r) /\ SharedRead(s)

\* A queued request that was popped and is not finished is in some batch.
PoppedInBatch ==
    \A r \in Scoped : status[r] \in {"popped", "running"} =>
        \E d \in Requests : r \in batch[d]

IInv ==
    /\ TypeOK
    /\ DrainersScoped
    /\ QueuesKeyed
    /\ OneDrainerPerKey
    /\ BatchesCompatible
    /\ PoppedInBatch

-----------------------------------------------------------------------------

LEMMA InitIInv == Init => IInv
<1> SUFFICES ASSUME Init PROVE IInv
  OBVIOUS
<1>1. TypeOK
  BY DEF Init, TypeOK
<1>2. QueuesKeyed
  BY DEF Init, QueuesKeyed
<1>3. DrainersScoped /\ OneDrainerPerKey /\ BatchesCompatible
  BY DEF Init, DrainersScoped, OneDrainerPerKey, BatchesCompatible, LiveDrainer
<1>4. PoppedInBatch
  BY ScopedRequests DEF Init, PoppedInBatch
<1> QED BY <1>1, <1>2, <1>3, <1>4 DEF IInv

LEMMA EnqueueIInv ==
    ASSUME IInv, NEW r \in Requests, dispatch(r)
    PROVE  IInv'
<1> USE DEF LiveDrainer, Finished
<1>t. TypeOK BY DEF IInv
<1>1. CASE r \notin Scoped
  <2>1. TypeOK' BY <1>1, <1>t DEF TypeOK, dispatch
  <2>2. UNCHANGED <<drainer, batch, queue, hasQueue>> BY <1>1 DEF dispatch
  <2>3. \A s \in Scoped : status'[s] = status[s]
    BY <1>1, <1>t DEF dispatch, TypeOK, Scoped
  <2>4. PoppedInBatch' BY <2>2, <2>3 DEF IInv, PoppedInBatch
  <2>5. DrainersScoped'
    <3>1. \A s \in Requests : status'[s] = "new" => status[s] = "new"
      BY <1>1, <1>t DEF dispatch, TypeOK
    <3> QED BY <2>2, <3>1 DEF IInv, DrainersScoped
  <2> QED BY <2>1, <2>2, <2>4, <2>5
     DEF IInv, QueuesKeyed, OneDrainerPerKey, BatchesCompatible
<1>2. CASE r \in Scoped
  <2> DEFINE k == Key(r)
  <2>0. k \in Keys BY <1>2, KeyInKeys
  <2> HIDE DEF k
  <2>1. /\ status' = [status EXCEPT ![r] = "queued"]
        /\ queue' = [queue EXCEPT ![k] = IF k \in hasQueue THEN Append(@, r) ELSE <<r>>]
        /\ hasQueue' = hasQueue \cup {k}
        /\ drainer' = [drainer EXCEPT ![r] = IF k \in hasQueue THEN "none" ELSE "loop"]
        /\ batch' = batch
        /\ status[r] = "new"
    BY <1>2 DEF dispatch, enqueue, k
  <2>2. queue' \in [Keys -> Seq(Requests)]
    BY <2>0, <2>1, <1>t DEF TypeOK
  <2>3. TypeOK'
    BY <2>0, <2>1, <2>2, <1>t DEF TypeOK, dispatch
  <2>4. QueuesKeyed'
    <3> SUFFICES ASSUME NEW j \in Keys, NEW i \in 1..Len(queue'[j])
                 PROVE  queue'[j][i] \in Scoped /\ Key(queue'[j][i]) = j
      BY DEF QueuesKeyed
    <3>0. queue[j] \in Seq(Requests) /\ queue[k] \in Seq(Requests)
      BY <2>0, <1>t DEF TypeOK
    <3>1. CASE j # k
      BY <2>1, <3>1, <1>t DEF TypeOK, IInv, QueuesKeyed
    <3>2. CASE j = k /\ k \in hasQueue
      <4>1. queue'[k] = Append(queue[k], r) BY <2>0, <2>1, <3>2, <1>t DEF TypeOK
      <4>2. CASE i = Len(queue[k]) + 1
        <5>1. queue'[k][i] = r BY <4>1, <4>2, <3>0
        <5> QED BY <5>1, <3>2, <1>2 DEF k
      <4>3. CASE i \in 1..Len(queue[k])
        <5>1. queue'[k][i] = queue[k][i] BY <4>1, <4>3, <3>0
        <5> QED BY <5>1, <4>3, <3>2, <2>0 DEF IInv, QueuesKeyed
      <4>4. i \in 1..(Len(queue[k]) + 1) BY <4>1, <3>0, <3>2
      <4> QED BY <4>2, <4>3, <4>4, <3>0
    <3>3. CASE j = k /\ k \notin hasQueue
      <4>1. queue'[k] = <<r>> BY <2>0, <2>1, <3>3, <1>t DEF TypeOK
      <4>2. <<r>> \in Seq(Scoped) /\ Len(<<r>>) = 1 /\ <<r>>[1] = r
        BY <1>2
      <4>3. i = 1 BY <4>1, <4>2, <3>3
      <4> QED BY <4>1, <4>3, <3>3, <1>2 DEF k
    <3> QED BY <3>1, <3>2, <3>3
  <2>5. \A d \in Requests : drainer'[d] \in LiveDrainer =>
           \/ d # r /\ drainer[d] \in LiveDrainer
           \/ d = r /\ k \notin hasQueue
    BY <2>1, <1>t DEF TypeOK
  <2>6. OneDrainerPerKey'
    <3> SUFFICES ASSUME NEW d \in Requests, drainer'[d] \in LiveDrainer
                 PROVE  /\ Key(d) \in hasQueue'
                        /\ \A e \in Requests :
                              drainer'[e] \in LiveDrainer /\ Key(e) = Key(d) => e = d
      BY DEF OneDrainerPerKey
    <3> HIDE DEF LiveDrainer
    <3>1. Key(d) \in hasQueue' BY <2>1, <2>5 DEF IInv, OneDrainerPerKey, k
    <3>2. ASSUME NEW e \in Requests, drainer'[e] \in LiveDrainer, Key(e) = Key(d)
          PROVE  e = d
      BY <3>2, <2>5 DEF IInv, OneDrainerPerKey, k
    <3> QED BY <3>1, <3>2
  <2>7. DrainersScoped'
    BY <1>2, <2>1, <1>t DEF IInv, DrainersScoped, TypeOK
  <2>8. BatchesCompatible' BY <2>1 DEF IInv, BatchesCompatible
  <2>9. PoppedInBatch' BY <2>1, <1>t DEF IInv, PoppedInBatch, TypeOK, Scoped
  <2> QED BY <2>3, <2>4, <2>6, <2>7, <2>8, <2>9 DEF IInv
<1> QED BY <1>1, <1>2

LEMMA DrainIInv ==
    ASSUME IInv, NEW d \in Requests, drain(d)
    PROVE  IInv'
<1>t. TypeOK BY DEF IInv
<1>0. drainer[d] = "loop" /\ d \in Scoped /\ Key(d) \in Keys
  BY KeyInKeys DEF IInv, DrainersScoped, drain
<1> DEFINE k == Key(d)
           q == queue[k]
<1>q. q \in Seq(Requests) BY <1>0, <1>t DEF TypeOK
<1>1. PICK n \in 1..Len(q) :
        /\ IsBatch(q, n)
        /\ batch' = [batch EXCEPT ![d] = Front(q, n)]
        /\ queue' = [queue EXCEPT ![k] = SubSeq(q, n + 1, Len(q))]
        /\ status' = [r \in Requests |-> IF r \in Front(q, n) THEN "popped" ELSE status[r]]
  BY DEF drain
<1>2. /\ drainer' = [drainer EXCEPT ![d] = "join"]
      /\ hasQueue' = hasQueue
  BY DEF drain
<1>3. /\ SubSeq(q, n + 1, Len(q)) \in Seq(Requests)
      /\ \A i \in 1..Len(SubSeq(q, n + 1, Len(q))) :
            \E j \in 1..Len(q) : SubSeq(q, n + 1, Len(q))[i] = q[j]
      /\ Front(q, n) \subseteq Requests
  BY <1>q, SuffixFacts
<1>4. \A r \in Front(q, n) : r \in Scoped /\ Key(r) = k
  <2>1. \A j \in 1..Len(q) : q[j] \in Scoped /\ Key(q[j]) = k
    BY <1>0 DEF IInv, QueuesKeyed
  <2>2. 1..n \subseteq 1..Len(q) BY <1>q
  <2> QED BY <2>1, <2>2 DEF Front
<1>5. \A r, s \in Front(q, n) : r # s => SharedRead(r) /\ SharedRead(s)
  <2>1. CASE n = 1 BY <2>1 DEF Front
  <2>2. CASE n # 1 BY <1>1, <2>2 DEF Front, IsBatch
  <2> QED BY <2>1, <2>2
<1>6. TypeOK'
  <2>1. queue' \in [Keys -> Seq(Requests)] BY <1>0, <1>1, <1>3, <1>t DEF TypeOK
  <2>2. status' \in [Requests -> {"new", "queued", "popped", "running"} \cup Finished]
    BY <1>1, <1>t DEF TypeOK
  <2>3. batch' \in [Requests -> SUBSET Requests] BY <1>1, <1>3, <1>t DEF TypeOK
  <2>4. drainer' \in [Requests -> {"none", "exited", "panicked"} \cup LiveDrainer]
    BY <1>2, <1>t DEF TypeOK, LiveDrainer
  <2> QED BY <1>t, <2>1, <2>2, <2>3, <2>4 DEF TypeOK, drain
<1>7. QueuesKeyed'
  <2> SUFFICES ASSUME NEW j \in Keys, NEW i \in 1..Len(queue'[j])
               PROVE  queue'[j][i] \in Scoped /\ Key(queue'[j][i]) = j
    BY DEF QueuesKeyed
  <2>1. CASE j # k BY <1>1, <2>1, <1>t DEF TypeOK, IInv, QueuesKeyed
  <2>2. CASE j = k
    <3>1. queue'[k] = SubSeq(q, n + 1, Len(q)) BY <1>0, <1>1, <1>t DEF TypeOK
    <3>2. PICK m \in 1..Len(q) : queue'[k][i] = q[m] BY <3>1, <1>3, <2>2
    <3> QED BY <3>2, <2>2, <1>0 DEF IInv, QueuesKeyed
  <2> QED BY <2>1, <2>2
<1>8. DrainersScoped'
  <2>1. \A e \in Requests : drainer'[e] # "none" => drainer[e] # "none"
    BY <1>0, <1>2, <1>t DEF TypeOK
  <2>2. \A e \in Requests : status'[e] = "new" => status[e] = "new"
    BY <1>1
  <2>3. \A e \in Requests : batch'[e] # {} => drainer'[e] = "join"
    BY <1>1, <1>2, <1>t DEF TypeOK, IInv, DrainersScoped
  <2> QED BY <2>1, <2>2, <2>3 DEF IInv, DrainersScoped
<1>9. OneDrainerPerKey'
  BY <1>0, <1>2, <1>t DEF TypeOK, IInv, OneDrainerPerKey, LiveDrainer
<1>10. BatchesCompatible'
  BY <1>1, <1>4, <1>5, <1>t DEF TypeOK, IInv, BatchesCompatible
<1>11. PoppedInBatch'
  <2>1. batch[d] = {} BY <1>0 DEF IInv, DrainersScoped
  <2>2. SUFFICES ASSUME NEW r \in Scoped, status'[r] \in {"popped", "running"}
                 PROVE  \E e \in Requests : r \in batch'[e]
    BY DEF PoppedInBatch
  <2>3. CASE r \in Front(q, n)
    <3>1. r \in batch'[d] BY <1>1, <2>3, <1>t DEF TypeOK
    <3> QED BY <3>1
  <2>4. CASE r \notin Front(q, n)
    <3>1. status[r] \in {"popped", "running"}
      BY <1>1, <2>2, <2>4, ScopedRequests
    <3>2. PICK e \in Requests : r \in batch[e]
      BY <3>1 DEF IInv, PoppedInBatch
    <3>3. e # d BY <3>2, <2>1
    <3>4. r \in batch'[e] BY <1>1, <3>2, <3>3, <1>t DEF TypeOK
    <3> QED BY <3>4
  <2> QED BY <2>3, <2>4
<1> QED BY <1>6, <1>7, <1>8, <1>9, <1>10, <1>11 DEF IInv

\* Steps that leave the queues, the drain tasks and the batches alone, and
\* only take a request from popped or running to running or finished.
LEMMA HandlerStepIInv ==
    ASSUME IInv, TypeOK', UNCHANGED <<hasQueue, queue, drainer, batch>>,
           \A r \in Requests :
              /\ status'[r] \in {"popped", "running"} => status[r] \in {"popped", "running"}
              /\ status'[r] = "new" => status[r] = "new"
    PROVE  IInv'
<1>1. DrainersScoped' BY DEF IInv, DrainersScoped
<1>2. PoppedInBatch' BY ScopedRequests DEF IInv, PoppedInBatch
<1> QED BY <1>1, <1>2
      DEF IInv, QueuesKeyed, OneDrainerPerKey, BatchesCompatible

LEMMA RunIInv ==
    ASSUME IInv, NEW r \in Requests, run(r) \/ finish(r)
    PROVE  IInv'
<1>t. TypeOK BY DEF IInv
<1>1. TypeOK'
  <2>1. status' \in [Requests -> {"new", "queued", "popped", "running"} \cup Finished]
    BY <1>t DEF run, finish, TypeOK, Finished
  <2> QED BY <1>t, <2>1 DEF run, finish, TypeOK
<1>2. UNCHANGED <<hasQueue, queue, drainer, batch>> BY DEF run, finish
<1>3. \A s \in Requests :
         /\ status'[s] \in {"popped", "running"} => status[s] \in {"popped", "running"}
         /\ status'[s] = "new" => status[s] = "new"
  BY <1>t DEF run, finish, TypeOK
<1> QED BY <1>1, <1>2, <1>3, HandlerStepIInv

\* The steps of the processor loop, of the cleanup tasks and of started
\* processes touch no request, queue or drain task.
LEMMA OtherIInv ==
    ASSUME IInv,
           \/ \E r \in Requests : start(r) \/ processExit(r)
           \/ \E c \in Conns : ConnectionClosed(c) \/ connection_closed(c)
           \/ LoopEnds \/ LoopForced \/ LoopDrained \/ Stopped
           \/ UNCHANGED vars
    PROVE  IInv'
<1>t. TypeOK BY DEF IInv
<1>1. UNCHANGED <<status, hasQueue, queue, drainer, batch>>
  BY DEF start, processExit, ConnectionClosed, connection_closed, LoopEnds,
         LoopForced, LoopDrained, Stopped, vars
<1>2. TypeOK'
  <2>1. CASE \E r \in Requests : start(r) \/ processExit(r)
    BY <1>t, <2>1 DEF start, processExit, TypeOK
  <2>2. CASE \E c \in Conns : ConnectionClosed(c) \/ connection_closed(c)
    BY <1>t, <2>2 DEF ConnectionClosed, connection_closed, TypeOK
  <2>3. CASE LoopEnds \/ LoopForced \/ LoopDrained \/ Stopped \/ UNCHANGED vars
    BY <1>t, <2>3 DEF LoopEnds, LoopForced, LoopDrained, Stopped, vars, TypeOK
  <2> QED BY <2>1, <2>2, <2>3
<1> QED BY <1>1, <1>2, HandlerStepIInv

LEMMA DrainExitIInv ==
    ASSUME IInv, NEW d \in Requests, drainExit(d)
    PROVE  IInv'
<1>t. TypeOK BY DEF IInv
<1>1. /\ drainer[d] = "loop"
      /\ hasQueue' = hasQueue \ {Key(d)}
      /\ drainer' = [drainer EXCEPT ![d] = "exited"]
      /\ UNCHANGED <<status, queue, batch>>
  BY DEF drainExit
<1>2. TypeOK' BY <1>t, <1>1 DEF TypeOK, drainExit
<1>3. DrainersScoped' BY <1>t, <1>1 DEF TypeOK, IInv, DrainersScoped
<1>4. OneDrainerPerKey'
  BY <1>t, <1>1 DEF TypeOK, IInv, OneDrainerPerKey, LiveDrainer
<1> QED BY <1>1, <1>2, <1>3, <1>4
      DEF IInv, QueuesKeyed, BatchesCompatible, PoppedInBatch

LEMMA JoinedIInv ==
    ASSUME IInv, NEW d \in Requests, joined(d)
    PROVE  IInv'
<1>t. TypeOK BY DEF IInv
<1>1. /\ drainer[d] = "join"
      /\ \A r \in batch[d] : status[r] \in Finished
      /\ drainer' = [drainer EXCEPT ![d] = "loop"]
      /\ batch' = [batch EXCEPT ![d] = {}]
      /\ UNCHANGED <<status, hasQueue, queue>>
  BY DEF joined
<1>2. TypeOK' BY <1>t, <1>1 DEF TypeOK, joined, LiveDrainer
<1>3. DrainersScoped' BY <1>t, <1>1 DEF TypeOK, IInv, DrainersScoped
<1>4. OneDrainerPerKey'
  BY <1>t, <1>1 DEF TypeOK, IInv, OneDrainerPerKey, LiveDrainer
<1>5. BatchesCompatible' BY <1>t, <1>1 DEF TypeOK, IInv, BatchesCompatible
<1>6. PoppedInBatch'
  BY <1>t, <1>1 DEF TypeOK, IInv, PoppedInBatch, Finished
<1> QED BY <1>1, <1>2, <1>3, <1>4, <1>5, <1>6 DEF IInv, QueuesKeyed

LEMMA PanicIInv ==
    ASSUME IInv, NEW r \in Requests, panic(r)
    PROVE  IInv'
<1>t. TypeOK BY DEF IInv
<1>1. CASE /\ status' = [status EXCEPT ![r] = "dropped"]
           /\ UNCHANGED <<drainer, batch>>
  <2>1. TypeOK' BY <1>t, <1>1 DEF TypeOK, panic, Finished
  <2>2. UNCHANGED <<hasQueue, queue>> BY DEF panic
  <2> QED BY <1>1, <2>1, <2>2, <1>t, HandlerStepIInv DEF TypeOK
<1>2. CASE \E d \in Requests :
             /\ drainer[d] = "join"
             /\ r \in batch[d]
             /\ status' = [s \in Requests |->
                   IF s \in batch[d] /\ status[s] \notin Finished
                   THEN "dropped" ELSE status[s]]
             /\ drainer' = [drainer EXCEPT ![d] = "panicked"]
             /\ batch' = [batch EXCEPT ![d] = {}]
  <2>1. PICK d \in Requests :
             /\ drainer[d] = "join"
             /\ status' = [s \in Requests |->
                   IF s \in batch[d] /\ status[s] \notin Finished
                   THEN "dropped" ELSE status[s]]
             /\ drainer' = [drainer EXCEPT ![d] = "panicked"]
             /\ batch' = [batch EXCEPT ![d] = {}]
    BY <1>2
  <2>2. UNCHANGED <<hasQueue, queue>> BY DEF panic
  <2>3. TypeOK'
    <3>1. status' \in [Requests -> {"new", "queued", "popped", "running"} \cup Finished]
      BY <1>t, <2>1 DEF TypeOK, Finished
    <3> QED BY <1>t, <2>1, <3>1 DEF TypeOK, panic
  <2>4. DrainersScoped' BY <1>t, <2>1 DEF TypeOK, IInv, DrainersScoped
  <2>5. OneDrainerPerKey'
    BY <1>t, <2>1, <2>2 DEF TypeOK, IInv, OneDrainerPerKey, LiveDrainer
  <2>6. BatchesCompatible' BY <1>t, <2>1 DEF TypeOK, IInv, BatchesCompatible
  <2>7. PoppedInBatch'
    <3> SUFFICES ASSUME NEW s \in Scoped, status'[s] \in {"popped", "running"}
                 PROVE  \E e \in Requests : s \in batch'[e]
      BY DEF PoppedInBatch
    <3>1. s \notin batch[d] /\ status[s] \in {"popped", "running"}
      BY <2>1, ScopedRequests DEF Finished
    <3>2. PICK e \in Requests : s \in batch[e] BY <3>1 DEF IInv, PoppedInBatch
    <3>3. s \in batch'[e] BY <2>1, <3>1, <3>2, <1>t DEF TypeOK
    <3> QED BY <3>3
  <2> QED BY <2>2, <2>3, <2>4, <2>5, <2>6, <2>7 DEF IInv, QueuesKeyed
<1> QED BY <1>1, <1>2 DEF panic

LEMMA NextIInv == IInv /\ [Next]_vars => IInv'
BY EnqueueIInv, DrainIInv, DrainExitIInv, JoinedIInv, RunIInv, PanicIInv,
   OtherIInv DEF Next

\* The inductive invariant holds in every reachable state.
THEOREM Inductive == Spec => []IInv
BY InitIInv, NextIInv, PTL DEF Spec

\* Type correctness of the app server's request queues, gates and drain
\* tasks, for every set of requests and connections.
THEOREM TypeCorrect == Spec => []TypeOK
<1>1. IInv => TypeOK BY DEF IInv
<1> QED BY <1>1, Inductive, PTL

\* Mutual exclusion of request_serialization.rs: handlers of conflicting
\* requests never run together, whatever closes, panics or times out.
THEOREM Exclusion == Spec => []ExclusiveAccess
<1>1. ASSUME IInv PROVE ExclusiveAccess
  <2> SUFFICES ASSUME NEW r \in Scoped, NEW s \in Scoped, r # s,
                      status[r] = "running", status[s] = "running",
                      Key(r) = Key(s)
               PROVE  SharedRead(r) /\ SharedRead(s)
    BY DEF ExclusiveAccess, Conflict
  <2>1. PICK d \in Requests : r \in batch[d] BY <1>1 DEF IInv, PoppedInBatch
  <2>2. PICK e \in Requests : s \in batch[e] BY <1>1 DEF IInv, PoppedInBatch
  <2>3. drainer[d] = "join" /\ drainer[e] = "join"
    BY <1>1, <2>1, <2>2 DEF IInv, DrainersScoped
  <2>4. Key(d) = Key(e) BY <1>1, <2>1, <2>2 DEF IInv, BatchesCompatible
  <2>5. d = e BY <1>1, <2>3, <2>4 DEF IInv, OneDrainerPerKey, LiveDrainer
  <2> QED BY <1>1, <2>1, <2>2, <2>5 DEF IInv, BatchesCompatible
<1> QED BY <1>1, Inductive, PTL

-----------------------------------------------------------------------------
(* Nothing waits under a key that nobody drains.                           *)

DrainedBy(k) == \E d \in Scoped : Key(d) = k /\ drainer[d] \in LiveDrainer \cup {"panicked"}

\* A key in the map has a drain task, or had one that panicked; a key that is
\* not in the map has nothing waiting.
KeysDrained ==
    \A k \in Keys : /\ k \in hasQueue => DrainedBy(k)
                    /\ k \notin hasQueue => queue[k] = <<>>

LEMMA DrainedStays ==
    ASSUME IInv, KeysDrained, UNCHANGED <<hasQueue, queue>>,
           \A d \in Requests : drainer[d] \in LiveDrainer \cup {"panicked"} =>
               drainer'[d] \in LiveDrainer \cup {"panicked"}
    PROVE  KeysDrained'
BY ScopedRequests DEF KeysDrained, DrainedBy

LEMMA NextKeysDrained ==
    ASSUME IInv, KeysDrained, [Next]_vars
    PROVE  KeysDrained'
<1>t. TypeOK BY DEF IInv
<1>1. ASSUME NEW r \in Requests, dispatch(r) PROVE KeysDrained'
  <2>1. CASE r \notin Scoped
    BY <1>1, <2>1, DrainedStays DEF dispatch
  <2>2. CASE r \in Scoped
    <3> DEFINE k == Key(r)
    <3>1. /\ queue' = [queue EXCEPT ![k] = IF k \in hasQueue THEN Append(@, r) ELSE <<r>>]
          /\ hasQueue' = hasQueue \cup {k}
          /\ drainer' = [drainer EXCEPT ![r] = IF k \in hasQueue THEN "none" ELSE "loop"]
          /\ status[r] = "new"
      BY <1>1, <2>2 DEF dispatch, enqueue
    <3>2. k \in Keys /\ drainer[r] = "none"
      BY <2>2, <3>1, KeyInKeys DEF IInv, DrainersScoped
    <3> HIDE DEF k
    <3>3. \A d \in Requests : drainer[d] # "none" => drainer'[d] = drainer[d]
      BY <1>t, <3>1, <3>2 DEF TypeOK
    <3>4. ASSUME NEW j \in Keys, j \in hasQueue PROVE DrainedBy(j)'
      <4>1. PICK d \in Scoped : Key(d) = j /\ drainer[d] \in LiveDrainer \cup {"panicked"}
        BY <3>4 DEF KeysDrained, DrainedBy
      <4>2. drainer'[d] = drainer[d]
        BY <3>3, <4>1, ScopedRequests DEF LiveDrainer
      <4> QED BY <4>1, <4>2 DEF DrainedBy
    <3>5. k \notin hasQueue => DrainedBy(k)'
      <4>1. k \notin hasQueue => drainer'[r] = "loop"
        BY <1>t, <3>1 DEF TypeOK
      <4> QED BY <2>2, <4>1 DEF DrainedBy, LiveDrainer, k
    <3>6. \A j \in Keys : j \notin hasQueue' => queue'[j] = queue[j]
      BY <1>t, <3>1, <3>2 DEF TypeOK
    <3> QED BY <3>1, <3>4, <3>5, <3>6 DEF KeysDrained
  <2> QED BY <2>1, <2>2
<1>2. ASSUME NEW d \in Requests, drain(d) PROVE KeysDrained'
  <2>1. /\ drainer[d] = "loop" /\ Key(d) \in hasQueue /\ hasQueue' = hasQueue
        /\ drainer' = [drainer EXCEPT ![d] = "join"]
        /\ \E q : queue' = [queue EXCEPT ![Key(d)] = q]
    BY <1>2 DEF drain
  <2>2. \A e \in Requests : drainer[e] \in LiveDrainer \cup {"panicked"} =>
            drainer'[e] \in LiveDrainer \cup {"panicked"}
    BY <1>t, <2>1 DEF TypeOK, LiveDrainer
  <2>3. \A k \in Keys : k \notin hasQueue => queue'[k] = queue[k]
    BY <1>t, <2>1 DEF TypeOK
  <2> QED BY <2>1, <2>2, <2>3, ScopedRequests DEF KeysDrained, DrainedBy
<1>3. ASSUME NEW d \in Requests, drainExit(d) PROVE KeysDrained'
  <2>1. /\ drainer[d] = "loop" /\ hasQueue' = hasQueue \ {Key(d)}
        /\ drainer' = [drainer EXCEPT ![d] = "exited"]
        /\ queue' = queue /\ (Key(d) \notin hasQueue \/ queue[Key(d)] = <<>>)
    BY <1>3 DEF drainExit
  <2>2. \A e \in Requests : e # d => drainer'[e] = drainer[e]
    BY <1>t, <2>1 DEF TypeOK
  <2>3. ASSUME NEW k \in Keys, k \in hasQueue' PROVE DrainedBy(k)'
    <3>1. PICK e \in Scoped : Key(e) = k /\ drainer[e] \in LiveDrainer \cup {"panicked"}
      BY <2>1, <2>3 DEF KeysDrained, DrainedBy
    <3>2. e # d
      BY <2>1, <2>3, <3>1
    <3> QED BY <2>2, <3>1, <3>2, ScopedRequests DEF DrainedBy
  <2>4. \A k \in Keys : k \notin hasQueue' => queue'[k] = <<>>
    BY <2>1 DEF KeysDrained
  <2> QED BY <2>3, <2>4 DEF KeysDrained
<1>4. ASSUME NEW r \in Requests, joined(r) \/ panic(r) PROVE KeysDrained'
  <2>1. UNCHANGED <<hasQueue, queue>>
    BY <1>4 DEF joined, panic
  <2>2. \A e \in Requests : drainer[e] \in LiveDrainer \cup {"panicked"} =>
            drainer'[e] \in LiveDrainer \cup {"panicked"}
    BY <1>t, <1>4 DEF joined, panic, TypeOK, LiveDrainer
  <2> QED BY <2>1, <2>2, DrainedStays
<1>5. CASE \/ \E r \in Requests : run(r) \/ start(r) \/ finish(r) \/ processExit(r)
           \/ \E c \in Conns : ConnectionClosed(c) \/ connection_closed(c)
           \/ LoopEnds \/ LoopForced \/ LoopDrained \/ Stopped \/ UNCHANGED vars
  <2>1. UNCHANGED <<hasQueue, queue, drainer>>
    BY <1>5 DEF run, start, finish, processExit, ConnectionClosed, connection_closed, LoopEnds,
           LoopForced, LoopDrained, Stopped, vars
  <2> QED BY <2>1, DrainedStays
<1> QED BY <1>1, <1>2, <1>3, <1>4, <1>5 DEF Next

\* enqueue and drain agree, under the queues' lock, on who drains a key: a
\* request that waits has a drain task that will come back to it, unless a
\* handler's panic took that task down.
THEOREM NothingStranded == Spec => []NoStrandedQueue
<1>1. Init => KeysDrained
  BY DEF Init, KeysDrained
<1>2. KeysDrained => NoStrandedQueue
  BY DEF KeysDrained, DrainedBy, NoStrandedQueue
<1> QED BY <1>1, <1>2, NextKeysDrained, Inductive, PTL DEF Spec

-----------------------------------------------------------------------------
(* A cleaned connection stays clean.                                       *)

\* Only an open connection has an open gate.
GatesClosed == \A c \in Conns : conn[c] # "open" => ~accepting[c]

CleanInv == TypeOK /\ GatesClosed /\ CleanupIsFinal

LEMMA NextClean ==
    ASSUME CleanInv, TypeOK', [Next]_vars
    PROVE  CleanInv'
<1> USE DEF CleanInv, NoTokens
<1>1. ASSUME NEW r \in Requests, run(r) PROVE CleanInv'
  <2>1. /\ UNCHANGED <<conn, accepting, timedOut, sessions>>
        /\ \A s \in Requests : status'[s] = "running" =>
               status[s] = "running" \/ accepting[ConnOf[s]]
    BY <1>1 DEF run, TypeOK
  <2> QED BY <2>1, ConstantsAssumption DEF GatesClosed, CleanupIsFinal
<1>2. ASSUME NEW r \in Requests,
             dispatch(r) \/ finish(r) \/ panic(r) \/ drain(r) \/ drainExit(r) \/ joined(r)
      PROVE  CleanInv'
  <2>1. UNCHANGED <<conn, accepting, timedOut, sessions>>
    BY <1>2 DEF dispatch, finish, panic, drain, drainExit, joined
  <2>2. \A s \in Requests : status'[s] = "running" => status[s] = "running"
    <3>1. CASE dispatch(r)
      BY <3>1 DEF dispatch, enqueue, TypeOK
    <3>2. CASE drain(r)
      <4>1. \E F : status' = [s \in Requests |-> IF s \in F THEN "popped" ELSE status[s]]
        BY <3>2 DEF drain
      <4> QED BY <4>1
    <3>3. CASE finish(r) \/ panic(r) \/ drainExit(r) \/ joined(r)
      BY <3>3 DEF finish, panic, drainExit, joined, TypeOK
    <3> QED BY <1>2, <3>1, <3>2, <3>3
  <2> QED BY <2>1, <2>2 DEF GatesClosed, CleanupIsFinal
<1>3. ASSUME NEW r \in Requests, start(r) \/ processExit(r) PROVE CleanInv'
  <2>1. /\ UNCHANGED <<conn, accepting, timedOut, status>>
        /\ \A s \in sessions' : s \in sessions \/ (s \in Requests /\ status[s] = "running")
    BY <1>3 DEF start, processExit
  <2> QED BY <2>1 DEF GatesClosed, CleanupIsFinal
<1>4. ASSUME NEW c \in Conns, ConnectionClosed(c) PROVE CleanInv'
  BY <1>4 DEF ConnectionClosed, GatesClosed, CleanupIsFinal, TypeOK
<1>5. ASSUME NEW c \in Conns, connection_closed(c) PROVE CleanInv'
  BY <1>5 DEF connection_closed, GatesClosed, CleanupIsFinal, TypeOK
<1>6. CASE LoopEnds \/ LoopForced \/ LoopDrained \/ Stopped \/ UNCHANGED vars
  <2>1. /\ UNCHANGED <<status, timedOut, sessions>>
        /\ \A c \in Conns : /\ accepting'[c] => accepting[c]
                            /\ conn'[c] = "cleaned" => conn[c] = "cleaned"
                            /\ conn'[c] # "open" => conn[c] # "open"
    BY <1>6 DEF LoopEnds, LoopForced, LoopDrained, Stopped, vars
  <2> QED BY <2>1 DEF GatesClosed, CleanupIsFinal
<1> QED BY <1>1, <1>2, <1>3, <1>4, <1>5, <1>6 DEF Next

\* ConnectionRpcGate and connection_closed: once the cleanup of a connection
\* has run after a complete drain, no handler of it runs again and no session
\* it started is left or comes back, with any number of requests in flight.
THEOREM CleanedForGood == Spec => []CleanupIsFinal
<1>1. Init => CleanInv
  BY DEF Init, CleanInv, TypeOK, GatesClosed, CleanupIsFinal
<1>2. CleanInv => CleanupIsFinal
  BY DEF CleanInv
<1> QED BY <1>1, <1>2, NextClean, TypeCorrect, PTL DEF Spec

-----------------------------------------------------------------------------
(* Conflicting requests take effect in the order of their arrival.         *)

\* A request is dispatched once.
ArrivesOnce ==
    /\ \A i, j \in 1..Len(arrival) : arrival[i] = arrival[j] => i = j
    /\ \A i \in 1..Len(arrival) : status[arrival[i]] # "new"

\* r is in the sequence, and before s.
Arrived(seq, r) == \E i \in 1..Len(seq) : seq[i] = r
Before(seq, r, s) == \E i, j \in 1..Len(seq) : i < j /\ seq[i] = r /\ seq[j] = s

\* What waits under a key is what is queued for it, in the order of arrival.
QueuesOrdered ==
    \A k \in Keys :
        /\ \A m \in 1..Len(queue[k]) : Arrived(arrival, queue[k][m]) /\ status[queue[k][m]] = "queued"
        /\ \A m, n \in 1..Len(queue[k]) : m < n => Before(arrival, queue[k][m], queue[k][n])

QueuedWaits ==
    \A r \in Scoped : status[r] = "queued" => \E m \in 1..Len(queue[Key(r)]) : queue[Key(r)][m] = r

Started == {"popped", "running"} \cup Finished

\* FifoPerKey, without the indices.
InOrder ==
    \A r, s \in Scoped :
        Before(arrival, r, s) /\ Conflict(r, s) /\ status[s] \in Started => status[r] \in Finished

\* What a drain task has popped does not wait any more.
BatchesStarted == \A d \in Requests : \A r \in batch[d] : status[r] \in Started

OrderInv == ArrivesOnce /\ QueuesOrdered /\ QueuedWaits /\ BatchesStarted /\ InOrder

LEMMA BeforeFacts ==
    ASSUME TypeOK, ArrivesOnce, NEW r, NEW s, Before(arrival, r, s)
    PROVE  r # s /\ ~Before(arrival, s, r) /\ Arrived(arrival, r) /\ Arrived(arrival, s) /\ status[r] # "new"
<1>1. PICK i \in 1..Len(arrival), j \in 1..Len(arrival) :
          i < j /\ arrival[i] = r /\ arrival[j] = s
  BY DEF Before
<1>2. Len(arrival) \in Nat
  BY DEF TypeOK
<1>3. r # s
  BY <1>1, <1>2 DEF ArrivesOnce
<1>4. ~Before(arrival, s, r)
  BY <1>1, <1>2 DEF ArrivesOnce, Before
<1> QED BY <1>1, <1>3, <1>4 DEF Arrived, ArrivesOnce

\* Steps of the handlers and the drain tasks that pop nothing.
LEMMA HandlersInOrder ==
    ASSUME TypeOK, OrderInv, UNCHANGED <<queue, arrival>>,
           \A r \in Requests :
              /\ status'[r] = "new" <=> status[r] = "new"
              /\ status'[r] = "queued" <=> status[r] = "queued"
              /\ status'[r] \in Started <=> status[r] \in Started
              /\ status[r] \in Finished => status'[r] \in Finished
              /\ batch'[r] \subseteq batch[r]
    PROVE  OrderInv'
<1> USE DEF OrderInv
<1>1. \A r, s : /\ Before(arrival', r, s) <=> Before(arrival, r, s)
                /\ Arrived(arrival', r) <=> Arrived(arrival, r)
  BY DEF Before, Arrived
<1>2. ArrivesOnce'
  BY DEF ArrivesOnce, TypeOK
<1>3. QueuesOrdered'
  BY <1>1 DEF QueuesOrdered, TypeOK
<1>4. QueuedWaits'
  BY ScopedRequests DEF QueuedWaits
<1>5. InOrder'
  BY <1>1, ScopedRequests DEF InOrder
<1>6. BatchesStarted'
  BY DEF BatchesStarted, TypeOK
<1> QED BY <1>2, <1>3, <1>4, <1>5, <1>6

LEMMA DispatchInOrder ==
    ASSUME IInv, KeysDrained, OrderInv, NEW r \in Requests, dispatch(r)
    PROVE  OrderInv'
<1> USE DEF OrderInv
<1>t. TypeOK
  BY DEF IInv
<1>1. /\ status[r] = "new" /\ arrival' = Append(arrival, r)
      /\ status' = [status EXCEPT ![r] = IF r \in Scoped THEN "queued" ELSE "popped"]
  BY DEF dispatch, enqueue
<1>2. /\ arrival \in Seq(Requests) /\ Len(arrival) \in Nat
      /\ Len(arrival') = Len(arrival) + 1 /\ arrival'[Len(arrival) + 1] = r
      /\ \A i \in 1..Len(arrival) : arrival'[i] = arrival[i] /\ arrival[i] \in Requests
  BY <1>1, <1>t DEF TypeOK
<1>3. \A s \in Requests : s # r => status'[s] = status[s]
  BY <1>1, <1>t DEF TypeOK
<1>4. status'[r] # "new" /\ \A i \in 1..Len(arrival) : arrival[i] # r
  BY <1>1, <1>t DEF TypeOK, ArrivesOnce
<1>5. ArrivesOnce'
  <2>1. ASSUME NEW i \in 1..Len(arrival'), NEW j \in 1..Len(arrival'), arrival'[i] = arrival'[j]
        PROVE  i = j
    BY <1>2, <1>4, <2>1 DEF ArrivesOnce
  <2>2. ASSUME NEW i \in 1..Len(arrival') PROVE status'[arrival'[i]] # "new"
    <3>1. CASE i = Len(arrival) + 1
      BY <1>2, <1>4, <3>1
    <3>2. CASE i \in 1..Len(arrival)
      BY <1>2, <1>3, <1>4, <3>2 DEF ArrivesOnce
    <3> QED BY <1>2, <3>1, <3>2
  <2> QED BY <2>1, <2>2 DEF ArrivesOnce
<1>6. ASSUME NEW x, NEW y, Before(arrival', x, y) PROVE Before(arrival, x, y) \/ (y = r /\ x # r)
  <2>1. PICK i \in 1..Len(arrival'), j \in 1..Len(arrival') :
            i < j /\ arrival'[i] = x /\ arrival'[j] = y
    BY <1>6 DEF Before
  <2>2. i \in 1..Len(arrival)
    BY <1>2, <2>1
  <2>3. CASE j = Len(arrival) + 1
    BY <1>2, <1>4, <2>1, <2>2, <2>3
  <2>4. CASE j \in 1..Len(arrival)
    BY <1>2, <2>1, <2>2, <2>4 DEF Before
  <2> QED BY <1>2, <2>3, <2>4
<1>7. ASSUME NEW x, NEW y, Before(arrival, x, y) PROVE Before(arrival', x, y)
  <2>1. PICK i \in 1..Len(arrival), j \in 1..Len(arrival) :
            i < j /\ arrival[i] = x /\ arrival[j] = y
    BY <1>7 DEF Before
  <2>2. i \in 1..Len(arrival') /\ j \in 1..Len(arrival') /\ arrival'[i] = x /\ arrival'[j] = y
    BY <1>2, <2>1
  <2> QED BY <2>1, <2>2 DEF Before
<1>8. ASSUME NEW x, Arrived(arrival, x) PROVE Arrived(arrival', x) /\ Before(arrival', x, r)
  <2>1. PICK i \in 1..Len(arrival) : arrival[i] = x
    BY <1>8 DEF Arrived
  <2>2. i \in 1..Len(arrival') /\ arrival'[i] = x /\ i < Len(arrival) + 1
        /\ Len(arrival) + 1 \in 1..Len(arrival')
    BY <1>2, <2>1
  <2> QED BY <1>2, <2>2 DEF Arrived, Before
<1>9. Arrived(arrival', r)
  <2>1. Len(arrival) + 1 \in 1..Len(arrival')
    BY <1>2
  <2> QED BY <1>2, <2>1 DEF Arrived
<1>10. InOrder'
  <2> SUFFICES ASSUME NEW x \in Scoped, NEW y \in Scoped, Before(arrival', x, y), Conflict(x, y),
                      status'[y] \in Started
               PROVE  status'[x] \in Finished
    BY DEF InOrder, Conflict
  <2>1. y # r
    BY <1>1, <1>t, ScopedRequests DEF TypeOK, Started, Finished
  <2>2. Before(arrival, x, y) /\ status'[y] = status[y]
    BY <1>3, <1>6, <2>1, ScopedRequests
  <2>3. status[x] \in Finished
    BY <2>2 DEF InOrder
  <2>4. x # r
    BY <1>1, <2>3 DEF Finished
  <2> QED BY <1>3, <2>3, <2>4, ScopedRequests
<1>b. BatchesStarted'
  <2>1. batch' = batch
    BY DEF dispatch
  <2> QED BY <1>1, <1>3, <1>t, <2>1 DEF BatchesStarted, TypeOK, Started, Finished
<1>11. CASE r \notin Scoped
  <2>1. queue' = queue
    BY <1>11 DEF dispatch
  <2>2. QueuesOrdered'
    <3> SUFFICES ASSUME NEW k \in Keys
                 PROVE  /\ \A m \in 1..Len(queue[k]) :
                             Arrived(arrival', queue[k][m]) /\ status'[queue[k][m]] = "queued"
                        /\ \A m, n \in 1..Len(queue[k]) : m < n => Before(arrival', queue[k][m], queue[k][n])
      BY <2>1 DEF QueuesOrdered
    <3>1. \A m \in 1..Len(queue[k]) : /\ Arrived(arrival, queue[k][m]) /\ status[queue[k][m]] = "queued"
                                      /\ queue[k][m] \in Requests
      BY <1>t DEF QueuesOrdered, TypeOK
    <3>2. \A m \in 1..Len(queue[k]) : status'[queue[k][m]] = "queued"
      BY <1>1, <1>3, <3>1
    <3> QED BY <1>7, <1>8, <3>1, <3>2 DEF QueuesOrdered
  <2>3. QueuedWaits'
    BY <1>3, <1>11, <2>1, ScopedRequests DEF QueuedWaits
  <2> QED BY <1>5, <1>10, <1>b, <2>2, <2>3
<1>12. CASE r \in Scoped
  <2> DEFINE k == Key(r)
  <2>0. k \in Keys /\ k = Key(r)
    BY <1>12, KeyInKeys
  <2> HIDE DEF k
  <2>1. queue' = [queue EXCEPT ![k] = IF k \in hasQueue THEN Append(@, r) ELSE <<r>>]
    BY <1>12 DEF dispatch, enqueue, k
  <2>2. \A j \in Keys : queue[j] \in Seq(Requests) /\ Len(queue[j]) \in Nat
    BY <1>t DEF TypeOK
  <2>3. \A j \in Keys : j # k => queue'[j] = queue[j]
    BY <1>t, <2>1 DEF TypeOK
  <2>4. /\ Len(queue'[k]) = Len(queue[k]) + 1
        /\ queue'[k][Len(queue[k]) + 1] = r
        /\ \A m \in 1..Len(queue[k]) : queue'[k][m] = queue[k][m]
    <3>1. CASE k \in hasQueue
      <4>1. queue'[k] = Append(queue[k], r)
        BY <1>t, <2>0, <2>1, <3>1 DEF TypeOK
      <4> QED BY <2>0, <2>2, <4>1
    <3>2. CASE k \notin hasQueue
      <4>1. queue'[k] = <<r>> /\ queue[k] = <<>>
        BY <1>t, <2>0, <2>1, <3>2 DEF TypeOK, KeysDrained
      <4>2. Len(<<r>>) = 1 /\ <<r>>[1] = r
        OBVIOUS
      <4> QED BY <4>1, <4>2
    <3> QED BY <3>1, <3>2
  <2>5. \A j \in Keys : \A m \in 1..Len(queue[j]) :
            /\ Arrived(arrival, queue[j][m]) /\ status[queue[j][m]] = "queued"
            /\ queue[j][m] \in Requests
    BY <2>2 DEF QueuesOrdered
  <2>6. \A j \in Keys : \A m \in 1..Len(queue[j]) :
            Arrived(arrival', queue[j][m]) /\ status'[queue[j][m]] = "queued" /\ Before(arrival', queue[j][m], r)
    BY <1>1, <1>3, <1>8, <2>5
  <2>7. \A j \in Keys : \A m, n \in 1..Len(queue[j]) : m < n => Before(arrival', queue[j][m], queue[j][n])
    BY <1>7 DEF QueuesOrdered
  <2>8. ASSUME NEW j \in Keys, NEW m \in 1..Len(queue'[j])
        PROVE  Arrived(arrival', queue'[j][m]) /\ status'[queue'[j][m]] = "queued"
    <3>1. CASE j # k
      BY <2>3, <2>6, <2>8, <3>1
    <3>2. CASE j = k /\ m \in 1..Len(queue[k])
      BY <2>0, <2>4, <2>6, <3>2
    <3>3. CASE j = k /\ m = Len(queue[k]) + 1
      BY <1>1, <1>9, <1>12, <2>4, <3>3, <1>t DEF TypeOK
    <3> QED BY <2>0, <2>2, <2>4, <3>1, <3>2, <3>3
  <2>9. ASSUME NEW j \in Keys, NEW m \in 1..Len(queue'[j]), NEW n \in 1..Len(queue'[j]), m < n
        PROVE  Before(arrival', queue'[j][m], queue'[j][n])
    <3>1. CASE j # k
      BY <2>3, <2>7, <2>9, <3>1
    <3>2. CASE j = k /\ n \in 1..Len(queue[k])
      <4>1. m \in 1..Len(queue[k])
        BY <2>0, <2>2, <2>9, <3>2
      <4> QED BY <2>0, <2>4, <2>7, <2>9, <3>2, <4>1
    <3>3. CASE j = k /\ n = Len(queue[k]) + 1
      <4>1. m \in 1..Len(queue[k])
        BY <2>0, <2>2, <2>9, <3>3
      <4> QED BY <2>0, <2>4, <2>6, <3>3, <4>1
    <3> QED BY <2>0, <2>2, <2>4, <3>1, <3>2, <3>3
  <2>10. QueuesOrdered'
    BY <2>8, <2>9 DEF QueuesOrdered
  <2>11. QueuedWaits'
    <3> SUFFICES ASSUME NEW s \in Scoped, status'[s] = "queued"
                 PROVE  \E m \in 1..Len(queue'[Key(s)]) : queue'[Key(s)][m] = s
      BY DEF QueuedWaits
    <3>1. CASE s = r
      <4>1. Len(queue[k]) + 1 \in 1..Len(queue'[k])
        BY <2>0, <2>2, <2>4
      <4> QED BY <2>0, <2>4, <3>1, <4>1
    <3>2. CASE s # r
      <4>1. PICK m \in 1..Len(queue[Key(s)]) : queue[Key(s)][m] = s
        BY <1>3, <3>2, ScopedRequests DEF QueuedWaits
      <4>2. Key(s) \in Keys
        BY KeyInKeys
      <4>3. CASE Key(s) # k
        BY <2>3, <4>1, <4>2, <4>3
      <4>4. CASE Key(s) = k
        <5>1. m \in 1..Len(queue'[k]) /\ queue'[k][m] = s
          BY <2>0, <2>2, <2>4, <4>1, <4>4
        <5> QED BY <4>4, <5>1
      <4> QED BY <4>3, <4>4
    <3> QED BY <3>1, <3>2
  <2> QED BY <1>5, <1>10, <1>b, <2>10, <2>11
<1> QED BY <1>11, <1>12

\* A batch is popped when nothing of its key is under way; what arrived before
\* a member of it, and conflicts with it, is finished.
LEMMA DrainInOrder ==
    ASSUME IInv, OrderInv, NEW d \in Requests, drain(d)
    PROVE  OrderInv'
<1> USE DEF OrderInv
<1>t. TypeOK
  BY DEF IInv
<1>0. drainer[d] = "loop" /\ d \in Scoped /\ Key(d) \in Keys
  BY KeyInKeys DEF IInv, DrainersScoped, drain
<1> DEFINE k == Key(d)
           q == queue[k]
<1>q. q \in Seq(Requests) /\ Len(q) \in Nat
  BY <1>0, <1>t DEF TypeOK
<1>1. PICK n \in 1..Len(q) :
        /\ IsBatch(q, n)
        /\ batch' = [batch EXCEPT ![d] = Front(q, n)]
        /\ queue' = [queue EXCEPT ![k] = SubSeq(q, n + 1, Len(q))]
        /\ status' = [r \in Requests |-> IF r \in Front(q, n) THEN "popped" ELSE status[r]]
  BY DEF drain
<1>2. arrival' = arrival
  BY DEF drain
<1> DEFINE F == Front(q, n)
<1>b. batch' = [batch EXCEPT ![d] = F]
  BY <1>1
<1>3. /\ \A j \in Keys : j # k => queue'[j] = queue[j]
      /\ queue'[k] = SubSeq(q, n + 1, Len(q))
  BY <1>0, <1>1, <1>t DEF TypeOK
<1>4. /\ Len(queue'[k]) = Len(q) - n
      /\ \A m \in 1..Len(queue'[k]) : queue'[k][m] = q[n + m] /\ n + m \in 1..Len(q)
  BY <1>q, <1>3
<1>5. \A m \in 1..Len(q) : q[m] \in Scoped /\ Key(q[m]) = k /\ status[q[m]] = "queued"
  BY <1>0 DEF IInv, QueuesKeyed, QueuesOrdered
<1>6. \A m, l \in 1..Len(q) : m < l => Before(arrival, q[m], q[l])
  BY <1>0 DEF QueuesOrdered
<1>7. \A m, l \in 1..Len(q) : m < l => q[m] # q[l] /\ ~Before(arrival, q[l], q[m])
  BY <1>6, <1>t, BeforeFacts
<1>8. \A m \in 1..Len(q) : q[m] \in F <=> m <= n
  <2>1. ASSUME NEW m \in 1..Len(q), q[m] \in F PROVE m <= n
    <3>1. PICK l \in 1..n : q[m] = q[l]
      BY <2>1 DEF Front
    <3>2. l \in 1..Len(q)
      BY <1>q, <3>1
    <3>3. ~(l < m)
      BY <1>7, <3>1, <3>2
    <3> QED BY <1>q, <3>1, <3>3
  <2>2. ASSUME NEW m \in 1..Len(q), m <= n PROVE q[m] \in F
    <3>1. m \in 1..n
      BY <1>q, <2>2
    <3> QED BY <3>1 DEF Front
  <2> QED BY <2>1, <2>2
<1>9. \A r \in F : r \in Scoped /\ Key(r) = k /\ status[r] = "queued" /\ status'[r] = "popped"
  <2>1. \A r \in F : \E m \in 1..Len(q) : r = q[m]
    BY <1>q DEF Front
  <2> QED BY <1>1, <1>5, <2>1, ScopedRequests
<1>10. \A r \in Requests : r \notin F => status'[r] = status[r]
  BY <1>1
<1>11. \A r, s \in F : r # s => SharedRead(r) /\ SharedRead(s)
  <2>1. CASE n = 1
    BY <2>1 DEF Front
  <2>2. CASE n # 1
    BY <1>1, <2>2 DEF Front, IsBatch
  <2> QED BY <2>1, <2>2
<1> HIDE DEF F, q, k
<1>12. \A r \in Scoped : Key(r) = k => status[r] \notin {"popped", "running"}
  <2> SUFFICES ASSUME NEW r \in Scoped, Key(r) = k, status[r] \in {"popped", "running"}
               PROVE  FALSE
    OBVIOUS
  <2>1. PICK e \in Requests : r \in batch[e]
    BY DEF IInv, PoppedInBatch
  <2>2. drainer[e] = "join" /\ Key(e) = Key(d)
    BY <2>1 DEF IInv, DrainersScoped, BatchesCompatible, k
  <2> QED BY <1>0, <2>2 DEF IInv, OneDrainerPerKey, LiveDrainer
<1>13. ArrivesOnce'
  <2>1. \A r \in Requests : status'[r] = "new" => status[r] = "new"
    BY <1>1
  <2> QED BY <1>2, <1>t, <2>1 DEF ArrivesOnce, TypeOK
<1>14. QueuesOrdered'
  <2>1. ASSUME NEW j \in Keys, NEW m \in 1..Len(queue'[j])
        PROVE  Arrived(arrival, queue'[j][m]) /\ status'[queue'[j][m]] = "queued"
    <3>1. CASE j = k
      <4>1. queue'[k][m] = q[n + m] /\ n + m \in 1..Len(q) /\ ~(n + m <= n)
        BY <1>4, <1>q, <2>1, <3>1
      <4>2. q[n + m] \notin F
        BY <1>8, <4>1
      <4>3. status'[q[n + m]] = "queued"
        BY <1>5, <1>10, <4>1, <4>2, ScopedRequests
      <4>4. Arrived(arrival, q[n + m])
        BY <1>0, <4>1 DEF QueuesOrdered, q, k
      <4> QED BY <3>1, <4>1, <4>3, <4>4
    <3>2. CASE j # k
      <4>1. queue'[j] = queue[j] /\ status[queue[j][m]] = "queued" /\ Arrived(arrival, queue[j][m])
        BY <1>3, <2>1, <3>2 DEF QueuesOrdered
      <4>2. queue[j][m] \in Scoped /\ Key(queue[j][m]) = j
        BY <2>1, <4>1 DEF IInv, QueuesKeyed
      <4> QED BY <1>9, <1>10, <3>2, <4>1, <4>2, ScopedRequests
    <3> QED BY <3>1, <3>2
  <2>2. ASSUME NEW j \in Keys, NEW m \in 1..Len(queue'[j]), NEW l \in 1..Len(queue'[j]), m < l
        PROVE  Before(arrival, queue'[j][m], queue'[j][l])
    <3>1. CASE j = k
      <4>1. n + m \in 1..Len(q) /\ n + l \in 1..Len(q) /\ n + m < n + l
        BY <1>4, <1>q, <2>2, <3>1
      <4> QED BY <1>4, <1>6, <2>2, <3>1, <4>1
    <3>2. CASE j # k
      BY <1>3, <2>2, <3>2 DEF QueuesOrdered
    <3> QED BY <3>1, <3>2
  <2> QED BY <1>2, <2>1, <2>2 DEF QueuesOrdered
<1>15. QueuedWaits'
  <2> SUFFICES ASSUME NEW s \in Scoped, status'[s] = "queued"
               PROVE  \E m \in 1..Len(queue'[Key(s)]) : queue'[Key(s)][m] = s
    BY DEF QueuedWaits
  <2>1. s \notin F /\ status[s] = "queued"
    BY <1>9, <1>10, ScopedRequests
  <2>2. PICK m \in 1..Len(queue[Key(s)]) : queue[Key(s)][m] = s
    BY <2>1 DEF QueuedWaits
  <2>3. CASE Key(s) # k
    BY <1>3, <2>2, <2>3, KeyInKeys
  <2>4. CASE Key(s) = k
    <3>1. m \in 1..Len(q) /\ q[m] = s
      BY <2>2, <2>4 DEF q
    <3>2. ~(m <= n)
      BY <1>8, <2>1, <3>1
    <3>3. m - n \in 1..Len(queue'[k]) /\ n + (m - n) = m
      BY <1>4, <1>q, <3>1, <3>2
    <3>4. queue'[k][m - n] = s
      BY <1>4, <3>1, <3>3
    <3> QED BY <2>4, <3>3, <3>4
  <2> QED BY <2>3, <2>4
<1>16. InOrder'
  <2> SUFFICES ASSUME NEW r \in Scoped, NEW s \in Scoped, Before(arrival, r, s), Conflict(r, s),
                      status'[s] \in Started
               PROVE  status'[r] \in Finished
    BY <1>2 DEF InOrder, Conflict
  <2>1. r # s /\ ~Before(arrival, s, r) /\ status[r] # "new" /\ r \in Requests
    BY <1>t, BeforeFacts, ScopedRequests
  <2>2. CASE s \notin F
    <3>1. status[r] \in Finished
      BY <1>10, <2>2, ScopedRequests DEF InOrder
    <3>2. r \notin F
      BY <1>9, <3>1 DEF Finished
    <3> QED BY <1>10, <2>1, <3>1, <3>2
  <2>3. CASE s \in F
    <3>1. Key(r) = k /\ ~(SharedRead(r) /\ SharedRead(s))
      BY <1>9, <2>3 DEF Conflict
    <3>2. r \notin F
      BY <1>11, <2>1, <2>3, <3>1
    <3>3. status[r] # "queued"
      <4> SUFFICES ASSUME status[r] = "queued" PROVE FALSE
        OBVIOUS
      <4>1. PICK m \in 1..Len(q) : q[m] = r
        BY <3>1 DEF QueuedWaits, q
      <4>2. ~(m <= n)
        BY <1>8, <3>2, <4>1
      <4>3. PICK l \in 1..n : q[l] = s
        BY <2>3 DEF F, Front
      <4>4. l \in 1..Len(q) /\ l < m
        BY <1>q, <4>1, <4>2, <4>3
      <4> QED BY <1>6, <2>1, <4>1, <4>3, <4>4
    <3>4. status[r] \notin {"popped", "running"}
      BY <1>12, <3>1
    <3>5. status[r] \in Finished
      BY <1>t, <2>1, <3>3, <3>4 DEF TypeOK
    <3> QED BY <1>10, <2>1, <3>2, <3>5
  <2> QED BY <2>2, <2>3
<1>17. BatchesStarted'
  <2> QED BY <1>9, <1>10, <1>b, <1>t DEF BatchesStarted, TypeOK, Started
<1> QED BY <1>13, <1>14, <1>15, <1>16, <1>17

LEMMA NextInOrder ==
    ASSUME IInv, KeysDrained, OrderInv, [Next]_vars
    PROVE  OrderInv'
<1>t. TypeOK
  BY DEF IInv
<1>1. ASSUME NEW r \in Requests, dispatch(r) PROVE OrderInv'
  BY <1>1, DispatchInOrder
<1>2. ASSUME NEW r \in Requests, drain(r) PROVE OrderInv'
  BY <1>2, DrainInOrder
<1>3. ASSUME NEW r \in Requests, run(r) \/ finish(r) PROVE OrderInv'
  <2>1. UNCHANGED <<queue, arrival, batch>>
    BY <1>3 DEF run, finish
  <2>2. \A s \in Requests : s # r => status'[s] = status[s]
    BY <1>3, <1>t DEF run, finish, TypeOK
  <2>3. /\ status[r] \in Started \ Finished /\ status'[r] \in Started
        /\ status[r] \notin {"new", "queued"} /\ status'[r] \notin {"new", "queued"}
    BY <1>3, <1>t DEF run, finish, TypeOK, Started, Finished
  <2> QED BY <1>t, <2>1, <2>2, <2>3, HandlersInOrder
<1>4. ASSUME NEW r \in Requests, panic(r) PROVE OrderInv'
  <2>1. UNCHANGED <<queue, arrival>>
    BY <1>4 DEF panic
  <2>2. \A s \in Requests : \/ status'[s] = status[s]
                            \/ status[s] \in Started \ Finished /\ status'[s] = "dropped"
    <3>1. status[r] \in Started \ Finished
      BY <1>4 DEF panic, Started, Finished
    <3>2. \A d \in Requests : \A s \in batch[d] : status[s] \in Started
      BY DEF OrderInv, BatchesStarted
    <3> QED BY <1>4, <1>t, <3>1, <3>2 DEF panic, TypeOK
  <2>3. \A s \in Requests : batch'[s] \subseteq batch[s]
    BY <1>4, <1>t DEF panic, TypeOK
  <2>4. \A s \in Requests :
            /\ status'[s] = "new" <=> status[s] = "new"
            /\ status'[s] = "queued" <=> status[s] = "queued"
            /\ status'[s] \in Started <=> status[s] \in Started
            /\ status[s] \in Finished => status'[s] \in Finished
    BY <2>2 DEF Started, Finished
  <2> QED BY <1>t, <2>1, <2>3, <2>4, HandlersInOrder
<1>5. CASE \/ \E r \in Requests : start(r) \/ drainExit(r) \/ joined(r) \/ processExit(r)
           \/ \E c \in Conns : ConnectionClosed(c) \/ connection_closed(c)
           \/ LoopEnds \/ LoopForced \/ LoopDrained \/ Stopped \/ UNCHANGED vars
  <2>1. UNCHANGED <<status, queue, arrival>>
    BY <1>5 DEF start, drainExit, joined, processExit, ConnectionClosed, connection_closed,
           LoopEnds, LoopForced, LoopDrained, Stopped, vars
  <2>2. \A s \in Requests : batch'[s] \subseteq batch[s]
    BY <1>5, <1>t DEF start, drainExit, joined, processExit, ConnectionClosed,
           connection_closed, LoopEnds, LoopForced, LoopDrained, Stopped, vars, TypeOK
  <2> QED BY <1>t, <2>1, <2>2, HandlersInOrder
<1> QED BY <1>1, <1>2, <1>3, <1>4, <1>5 DEF Next

\* RequestSerializationQueues: with any number of requests, connections and
\* keys, and whatever handler panics, a request starts, or is refused, only when
\* every conflicting one that the loop dispatched before it is finished.
THEOREM InOrderOfArrival == Spec => []FifoPerKey
<1>1. Init => OrderInv /\ KeysDrained
  <2> SUFFICES ASSUME Init PROVE OrderInv /\ KeysDrained
    OBVIOUS
  <2>1. ArrivesOnce /\ QueuesOrdered /\ KeysDrained
    BY DEF Init, ArrivesOnce, QueuesOrdered, KeysDrained
  <2>2. QueuedWaits /\ BatchesStarted
    BY ScopedRequests DEF Init, QueuedWaits, BatchesStarted
  <2>3. InOrder
    BY ScopedRequests DEF Init, InOrder, Before
  <2> QED BY <2>1, <2>2, <2>3 DEF OrderInv
<1>2. IInv /\ OrderInv /\ KeysDrained /\ [Next]_vars => (OrderInv /\ KeysDrained)'
  BY NextInOrder, NextKeysDrained
<1>3. IInv /\ OrderInv => FifoPerKey
  <2> SUFFICES ASSUME IInv, OrderInv, NEW i \in DOMAIN arrival, NEW j \in DOMAIN arrival, i < j,
                      arrival[i] \in Scoped, arrival[j] \in Scoped,
                      Conflict(arrival[i], arrival[j]),
                      status[arrival[j]] \in {"popped", "running"} \cup Finished
               PROVE  status[arrival[i]] \in Finished
    BY DEF FifoPerKey
  <2>1. DOMAIN arrival = 1..Len(arrival)
    BY DEF IInv, TypeOK
  <2>2. Before(arrival, arrival[i], arrival[j])
    BY <2>1 DEF Before
  <2> QED BY <2>2 DEF OrderInv, InOrder, Started
<1> QED BY <1>1, <1>2, <1>3, Inductive, PTL DEF Spec
=============================================================================
