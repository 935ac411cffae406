-------------------------- MODULE MemoryJobsProofs --------------------------
(***************************************************************************)
(* TLAPS proofs about MemoryJobs, for any number of processes, threads,    *)
(* updates and disturbances.                                               *)
(*                                                                         *)
(* Phase 1: a worker whose token a row has is the one that claimed the     *)
(* version in the row, it claims a thread once, and a running row is ahead *)
(* of what is stored.  A worker that comes late finds another token.       *)
(*                                                                         *)
(* Phase 2: except while its agent runs, a worker between claim and finish *)
(* holds the lease, so the directory belongs to the owner of the row; the  *)
(* baseline, and what is about to become it, was read by an agent.         *)
(***************************************************************************)
EXTENDS MemoryJobs, Integers, TLAPS

-----------------------------------------------------------------------------
(* Phase 1: the memories that are stored.                                  *)

Rows == [status : {"absent", "pending", "running", "done", "error"},
         token : Tokens, live : BOOLEAN, backoff : BOOLEAN,
         retry : Int, input : Nat, success : Nat]

Positive == Nat \ {0}

RowTypes ==
    /\ job \in [Threads -> Rows]
    /\ output \in [Threads -> [v : Nat, e : Nat]]
    /\ updated \in [Threads -> Positive]
    /\ epoch \in [Threads -> Nat]

ClaimTypes ==
    /\ DOMAIN pc = Workers
    /\ items \in [Workers -> SUBSET [t : Threads, v : Positive]]
    /\ claims \in [Workers -> SUBSET [t : Threads, v : Positive, e : Nat]]

\* A startup task that is not running holds no claim, and one that has claimed
\* a thread does not meet it again in its scan.
ClaimsOnce ==
    \A w \in Workers :
        /\ pc[w] = "off" => claims[w] = {}
        /\ \A i \in items[w] :
             /\ \A c \in claims[w] : c.t # i.t
             /\ \A j \in items[w] : j.t = i.t => j = i

\* The row that a worker owns is the one that it has claimed.
OwnedIsClaimed ==
    \A w \in Workers : \A c \in claims[w] : Owned(w, c) =>
        /\ c.v = job[c.t].input
        /\ c.e = epoch[c.t]

\* A job runs for an update that has not been extracted.
RunningIsAhead ==
    \A t \in Threads : job[t].status = "running" => job[t].success < job[t].input

JobInv ==
    /\ RowTypes /\ ClaimTypes
    /\ ClaimsOnce /\ OwnedIsClaimed /\ RunningIsAhead
    /\ StoredIsLatest

LEMMA NoRowIsRow == NoRow \in Rows /\ NoMemory \in [v : Nat, e : Nat]
  BY DEF NoRow, Rows, Tokens, NoMemory

LEMMA InitJobs == Init => JobInv
<1> SUFFICES ASSUME Init PROVE JobInv
  OBVIOUS
<1> USE DEF Init
<1>1. RowTypes
  BY NoRowIsRow DEF RowTypes, Positive
<1>2. ClaimTypes
  BY DEF ClaimTypes
<1>3. ClaimsOnce /\ OwnedIsClaimed
  BY DEF ClaimsOnce, OwnedIsClaimed
<1>4. RunningIsAhead
  BY DEF RunningIsAhead, NoRow
<1>5. StoredIsLatest
  BY DEF StoredIsLatest
<1>6. QED
  BY <1>1, <1>2, <1>3, <1>4, <1>5 DEF JobInv

\* Where the rows and the memories stay as they are, a worker may go on, or
\* end and forget its claims.
LEMMA RowsStay ==
    ASSUME JobInv, UNCHANGED <<job, output, updated, epoch>>,
           \/ /\ UNCHANGED <<items, claims>>
              /\ DOMAIN pc' = Workers
              /\ \A w \in Workers : pc'[w] = "off" => pc[w] = "off"
           \/ \E w \in Workers : Off(w)
    PROVE  JobInv'
<1> USE DEF JobInv
<1>1. (RowTypes /\ RunningIsAhead /\ StoredIsLatest)'
  BY DEF RowTypes, RunningIsAhead, StoredIsLatest
<1>2. CASE \E w \in Workers : Off(w)
  <2>1. PICK w \in Workers : Off(w)
    BY <1>2
  <2>2. ClaimTypes'
    BY <2>1 DEF ClaimTypes, Off
  <2>3. \A x \in Workers : /\ claims'[x] = {} \/ claims'[x] = claims[x]
                           /\ items'[x] = {} \/ items'[x] = items[x]
                           /\ x # w => pc'[x] = pc[x]
                           /\ claims'[w] = {}
    BY <2>1 DEF ClaimTypes, Off
  <2>4. ClaimsOnce'
    BY <2>3 DEF ClaimsOnce
  <2>5. OwnedIsClaimed'
    BY <2>3 DEF OwnedIsClaimed, Owned
  <2>6. QED
    BY <1>1, <2>2, <2>4, <2>5
<1>3. CASE ~ \E w \in Workers : Off(w)
  <2>1. ClaimTypes'
    BY <1>3 DEF ClaimTypes
  <2>2. ClaimsOnce'
    BY <1>3 DEF ClaimsOnce
  <2>3. OwnedIsClaimed'
    BY <1>3 DEF OwnedIsClaimed, Owned
  <2>4. QED
    BY <1>1, <2>1, <2>2, <2>3
<1>4. QED
  BY <1>2, <1>3

\* The retention prunes memories and leaves the rows.
LEMMA PruneStep ==
    ASSUME JobInv, NEW w \in Workers, start_memories_startup_task(w) \/ rate_limited(w)
    PROVE  JobInv'
<1> USE DEF JobInv
<1>1. PICK old \in SUBSET Threads :
          output' = [t \in Threads |-> IF t \in old THEN NoMemory ELSE output[t]]
  BY DEF start_memories_startup_task, rate_limited, prune_stage1_outputs_for_retention
<1>2. UNCHANGED <<job, updated, epoch, claims>> /\ pc[w] = "off" /\ claims[w] = {}
  BY DEF start_memories_startup_task, rate_limited, local, env, ClaimsOnce
<1>3. RowTypes' /\ RunningIsAhead'
  BY <1>1, <1>2, NoRowIsRow DEF RowTypes, RunningIsAhead
<1>4. StoredIsLatest'
  BY <1>1, <1>2 DEF StoredIsLatest
<1>5. OwnedIsClaimed'
  BY <1>2 DEF OwnedIsClaimed, Owned
<1>6. CASE rate_limited(w)
  <2>1. UNCHANGED <<pc, items>>
    BY <1>6 DEF rate_limited, local
  <2>2. ClaimTypes' /\ ClaimsOnce'
    BY <1>2, <2>1 DEF ClaimTypes, ClaimsOnce
  <2>3. QED
    BY <1>3, <1>4, <1>5, <2>2
<1>7. CASE start_memories_startup_task(w)
  <2> DEFINE found == {[t |-> t, v |-> updated[t]] : t \in {u \in Threads : Enabled(u)}}
  <2>1. /\ items' = [items EXCEPT ![w] = found]
        /\ pc' = [pc EXCEPT ![w] = IF found = {} THEN "run" ELSE "scan"]
    BY <1>7 DEF start_memories_startup_task
  <2>2. found \in SUBSET [t : Threads, v : Positive]
    BY DEF RowTypes
  <2>3. ClaimTypes'
    BY <1>2, <2>1, <2>2 DEF ClaimTypes
  <2>4. \A i, j \in found : j.t = i.t => j = i
    OBVIOUS
  <2>5. ClaimsOnce'
    BY <1>2, <2>1, <2>4 DEF ClaimsOnce, ClaimTypes
  <2>6. QED
    BY <1>3, <1>4, <1>5, <2>3, <2>5
<1>8. QED
  BY <1>6, <1>7

\* A claim is for an update that is neither stored nor extracted.
LEMMA ClaimStep ==
    ASSUME JobInv, NEW w \in Workers, try_claim_stage1_job(w)
    PROVE  JobInv'
<1> USE DEF JobInv
<1>1. PICK i \in items[w] :
         /\ \/ /\ Claimable(i.t, i.v)
               /\ job' = [job EXCEPT ![i.t] =
                    [status |-> "running", token |-> w, live |-> TRUE,
                     backoff |-> FALSE,
                     retry |-> IF @.status = "absent" \/ i.v > @.input
                               THEN Retries ELSE @.retry,
                     input |-> i.v, success |-> @.success]]
               /\ claims' = [claims EXCEPT ![w] = @ \cup
                    {[t |-> i.t, v |-> i.v, e |-> epoch[i.t]]}]
            \/ ~Claimable(i.t, i.v) /\ UNCHANGED <<job, claims>>
         /\ LET left == IF Cardinality(claims'[w]) >= MaxClaimed
                        THEN {} ELSE items[w] \ {i}
            IN /\ items' = [items EXCEPT ![w] = left]
               /\ pc' = [pc EXCEPT ![w] = IF left = {} THEN "run" ELSE "scan"]
  BY DEF try_claim_stage1_job
<1>2. UNCHANGED <<output, updated, epoch>>
  BY DEF try_claim_stage1_job, env
<1>3. i \in [t : Threads, v : Positive] /\ i.t \in Threads /\ i.v \in Positive
  BY DEF ClaimTypes
<1>4. /\ pc'[w] # "off" /\ DOMAIN pc' = Workers
      /\ \A x \in Workers \ {w} : pc'[x] = pc[x] /\ items'[x] = items[x]
      /\ items'[w] \subseteq items[w] \ {i}
      /\ items' \in [Workers -> SUBSET [t : Threads, v : Positive]]
  BY <1>1 DEF ClaimTypes
<1>5. CASE UNCHANGED <<job, claims>>
  <2>1. RowTypes' /\ RunningIsAhead' /\ StoredIsLatest' /\ OwnedIsClaimed'
    BY <1>2, <1>5 DEF RowTypes, RunningIsAhead, StoredIsLatest, OwnedIsClaimed, Owned
  <2>2. ClaimTypes' /\ ClaimsOnce'
    BY <1>4, <1>5 DEF ClaimTypes, ClaimsOnce
  <2>3. QED
    BY <2>1, <2>2
<1>6. CASE Claimable(i.t, i.v) /\ ~UNCHANGED <<job, claims>>
  <2> DEFINE new == [t |-> i.t, v |-> i.v, e |-> epoch[i.t]]
             row == [status |-> "running", token |-> w, live |-> TRUE,
                     backoff |-> FALSE,
                     retry |-> IF job[i.t].status = "absent" \/ i.v > job[i.t].input
                               THEN Retries ELSE job[i.t].retry,
                     input |-> i.v, success |-> job[i.t].success]
  <2>1. /\ job' = [job EXCEPT ![i.t] = row]
        /\ claims' = [claims EXCEPT ![w] = @ \cup {new}]
    BY <1>1, <1>6
  <2>2. row \in Rows
    <3>1. job[i.t] \in Rows /\ Retries \in Int
      BY <1>3, MemoryAssumption DEF RowTypes
    <3>2. QED
      BY <1>3, <3>1 DEF Rows, Tokens, Positive
  <2>3. new \in [t : Threads, v : Positive, e : Nat]
    BY <1>3 DEF RowTypes
  <2>4. job[i.t].success < i.v
    <3>1. ~(job[i.t].success >= i.v)
      BY <1>6 DEF Claimable, UpToDate
    <3>2. job[i.t].success \in Nat
      BY <1>3 DEF RowTypes, Rows
    <3>3. QED
      BY <1>3, <3>1, <3>2 DEF Positive
  <2>5. /\ job'[i.t] = row
        /\ \A t \in Threads \ {i.t} : job'[t] = job[t]
        /\ claims'[w] = claims[w] \cup {new}
        /\ \A x \in Workers \ {w} : claims'[x] = claims[x]
    BY <1>3, <2>1 DEF RowTypes, ClaimTypes
  <2> HIDE DEF new, row
  <2>6. RowTypes'
    BY <1>2, <2>1, <2>2 DEF RowTypes
  <2>7. ClaimTypes'
    BY <1>4, <2>1, <2>3 DEF ClaimTypes
  <2>8. new.t = i.t /\ new.v = i.v /\ new.e = epoch[i.t] /\ row.token = w
        /\ row.success = job[i.t].success /\ row.input = i.v
    BY DEF new, row
  <2>9. ClaimsOnce'
    <3>1. ASSUME NEW x \in Workers PROVE pc'[x] = "off" => claims'[x] = {}
      BY <1>4, <2>5 DEF ClaimsOnce
    <3>2. ASSUME NEW x \in Workers, NEW j \in items'[x]
          PROVE  \A k \in items'[x] : k.t = j.t => k = j
      BY <1>4 DEF ClaimsOnce
    <3>3. ASSUME NEW x \in Workers, NEW j \in items'[x], NEW c \in claims'[x]
          PROVE  c.t # j.t
      <4>1. CASE x # w
        BY <1>4, <2>5, <4>1 DEF ClaimsOnce
      <4>2. CASE x = w
        <5>1. j \in items[w] /\ j # i
          BY <1>4, <4>2
        <5>2. c \in claims[w] \/ c = new
          BY <2>5, <4>2
        <5>3. QED
          BY <2>8, <5>1, <5>2 DEF ClaimsOnce
      <4>3. QED
        BY <4>1, <4>2
    <3>4. QED
      BY <3>1, <3>2, <3>3 DEF ClaimsOnce
  <2>10. OwnedIsClaimed'
    <3>1. ASSUME NEW x \in Workers, NEW c \in claims'[x],
                 job'[c.t].status = "running", job'[c.t].token = x
          PROVE  c.v = job'[c.t].input /\ c.e = epoch[c.t]
      <4>1. CASE c.t = i.t
        <5>1. x = w
          BY <2>5, <2>8, <3>1, <4>1
        <5>2. c = new
          BY <2>5, <4>1, <5>1 DEF ClaimsOnce
        <5>3. QED
          BY <2>5, <2>8, <5>2
      <4>2. CASE c.t # i.t
        <5>1. c \in claims[x]
          BY <2>5, <2>8, <4>2
        <5>2. c.t \in Threads /\ job'[c.t] = job[c.t]
          BY <2>5, <4>2, <5>1 DEF ClaimTypes
        <5>3. QED
          BY <3>1, <5>1, <5>2 DEF OwnedIsClaimed, Owned
      <4>3. QED
        BY <4>1, <4>2
    <3>2. QED
      BY <1>2, <3>1 DEF OwnedIsClaimed, Owned
  <2>11. RunningIsAhead'
    BY <2>4, <2>5, <2>8 DEF RunningIsAhead
  <2>12. StoredIsLatest'
    BY <1>2, <2>5, <2>8 DEF StoredIsLatest
  <2>13. QED
    BY <2>6, <2>7, <2>9, <2>10, <2>11, <2>12
<1>7. QED
  BY <1>1, <1>5, <1>6

\* A step that starts no job: the ones that go on are what they were.
LEMMA RowsEnd ==
    ASSUME JobInv, UNCHANGED <<items, pc>>, RowTypes', StoredIsLatest',
           claims' \in [Workers -> SUBSET [t : Threads, v : Positive, e : Nat]],
           \A x \in Workers : claims'[x] \subseteq claims[x],
           \A t \in Threads : job'[t].status = "running" =>
               /\ job[t].status = "running" /\ job'[t].token = job[t].token
               /\ job'[t].input = job[t].input /\ job'[t].success = job[t].success
               /\ epoch'[t] = epoch[t]
    PROVE  JobInv'
<1> USE DEF JobInv
<1>1. ClaimTypes' /\ ClaimsOnce'
  BY DEF ClaimTypes, ClaimsOnce
<1>2. RunningIsAhead'
  BY DEF RunningIsAhead
<1>3. OwnedIsClaimed'
  <2>1. ASSUME NEW w \in Workers, NEW c \in claims'[w],
               job'[c.t].status = "running", job'[c.t].token = w
        PROVE  c.v = job'[c.t].input /\ c.e = epoch'[c.t]
    <3>1. c \in claims[w] /\ c.t \in Threads
      BY DEF ClaimTypes
    <3>2. QED
      BY <2>1, <3>1 DEF OwnedIsClaimed, Owned
  <2>2. QED
    BY <2>1 DEF OwnedIsClaimed, Owned
<1>4. QED
  BY <1>1, <1>2, <1>3

LEMMA DoneRow ==
    ASSUME NEW r \in Rows
    PROVE  Done(r) \in Rows /\ Done(r).status = "done" /\ Done(r).success = r.input
  BY DEF Done, Rows, Tokens

LEMMA FailedRow ==
    ASSUME NEW r \in Rows
    PROVE  Failed(r) \in Rows /\ Failed(r).status = "error" /\ Failed(r).success = r.success
<1>1. ASSUME NEW n \in Int, NEW q,
             q = [r EXCEPT !.status = "error", !.token = "none", !.live = FALSE,
                           !.backoff = TRUE, !.retry = n]
      PROVE  q \in Rows /\ q.status = "error" /\ q.success = r.success
  BY <1>1 DEF Rows, Tokens
<1>2. r.retry - 1 \in Int
  BY DEF Rows
<1>3. QED
  BY <1>1, <1>2 DEF Failed

LEMMA RowElapses ==
    ASSUME NEW r \in Rows, NEW q,
           q = [r EXCEPT !.live = FALSE] \/ q = [r EXCEPT !.backoff = FALSE]
    PROVE  /\ q \in Rows /\ q.status = r.status /\ q.token = r.token
           /\ q.input = r.input /\ q.success = r.success
<1>1. CASE q = [r EXCEPT !.live = FALSE]
  BY <1>1 DEF Rows
<1>2. CASE q = [r EXCEPT !.backoff = FALSE]
  BY <1>2 DEF Rows
<1>3. QED
  BY <1>1, <1>2

\* The end of a job: only the owner stores, and what it has extracted is newer
\* than what is stored.
LEMMA EndStep ==
    ASSUME JobInv, NEW w \in Workers, NEW c \in claims[w],
           \/ mark_stage1_job_succeeded(w, c)
           \/ mark_stage1_job_succeeded_no_output(w, c)
           \/ mark_stage1_job_failed(w, c)
    PROVE  JobInv'
<1> USE DEF JobInv
<1>1. EndJob(w, c)
  BY DEF mark_stage1_job_succeeded, mark_stage1_job_succeeded_no_output, mark_stage1_job_failed
<1>2. /\ UNCHANGED <<items, pc, updated, epoch>>
      /\ claims' = [claims EXCEPT ![w] = @ \ {c}]
  BY <1>1 DEF EndJob, env
<1>3. /\ claims' \in [Workers -> SUBSET [t : Threads, v : Positive, e : Nat]]
      /\ \A x \in Workers : claims'[x] \subseteq claims[x]
  BY <1>2 DEF ClaimTypes
<1>4. c.t \in Threads /\ c.v \in Positive /\ c.e \in Nat
  BY DEF ClaimTypes
<1>5. job[c.t] \in Rows /\ output[c.t] \in [v : Nat, e : Nat]
  BY <1>4 DEF RowTypes
<1>6. CASE UNCHANGED <<job, output>>
  <2>1. RowTypes' /\ StoredIsLatest'
    BY <1>2, <1>6 DEF RowTypes, StoredIsLatest
  <2>2. QED
    BY <1>2, <1>3, <1>6, <2>1, RowsEnd
<1>7. ASSUME Owned(w, c), job' = [job EXCEPT ![c.t] = Done(@)],
             NEW m \in [v : Nat, e : Nat], output' = [output EXCEPT ![c.t] = m],
             m # NoMemory => m.v = c.v /\ m.e = c.e
      PROVE  JobInv'
  <2>1. /\ \A t \in Threads \ {c.t} : job'[t] = job[t] /\ output'[t] = output[t]
        /\ job'[c.t] = Done(job[c.t]) /\ output'[c.t] = m
    BY <1>4, <1>7 DEF RowTypes
  <2>2. c.v = job[c.t].input /\ c.e = epoch[c.t]
    BY <1>7 DEF OwnedIsClaimed
  <2>3. RowTypes'
    BY <1>2, <1>5, <1>7, DoneRow DEF RowTypes
  <2>4. StoredIsLatest'
    BY <1>2, <1>5, <1>7, <2>1, <2>2, DoneRow DEF StoredIsLatest
  <2>5. \A t \in Threads : job'[t].status = "running" => job'[t] = job[t]
    BY <1>5, <2>1, DoneRow
  <2>6. QED
    BY <1>2, <1>3, <2>3, <2>4, <2>5, RowsEnd
<1>8. CASE mark_stage1_job_succeeded(w, c)
  <2>1. CASE ~Owned(w, c)
    BY <1>6, <1>8, <2>1 DEF mark_stage1_job_succeeded
  <2>2. CASE Owned(w, c)
    <3> DEFINE m == [v |-> c.v, e |-> c.e]
    <3>1. c.v = job[c.t].input /\ job[c.t].status = "running"
      BY <2>2 DEF OwnedIsClaimed, Owned
    <3>2. output[c.t].v < c.v \/ output[c.t] = NoMemory
      BY <1>4, <3>1 DEF StoredIsLatest, RunningIsAhead
    <3>3. c.v >= output[c.t].v
      BY <1>4, <1>5, <3>2 DEF Positive, NoMemory
    <3>4. m \in [v : Nat, e : Nat] /\ m.v = c.v /\ m.e = c.e
      BY <1>4 DEF Positive
    <3>5. job' = [job EXCEPT ![c.t] = Done(@)] /\ output' = [output EXCEPT ![c.t] = m]
      BY <1>8, <2>2, <3>3 DEF mark_stage1_job_succeeded
    <3> HIDE DEF m
    <3>6. QED
      BY <1>7, <2>2, <3>4, <3>5
  <2>3. QED
    BY <2>1, <2>2
<1>9. CASE mark_stage1_job_succeeded_no_output(w, c)
  <2>1. CASE ~Owned(w, c)
    BY <1>6, <1>9, <2>1 DEF mark_stage1_job_succeeded_no_output, db
  <2>2. CASE Owned(w, c)
    BY <1>7, <1>9, <2>2, NoRowIsRow DEF mark_stage1_job_succeeded_no_output
  <2>3. QED
    BY <2>1, <2>2
<1>10. CASE mark_stage1_job_failed(w, c)
  <2>1. CASE ~Owned(w, c)
    BY <1>6, <1>10, <2>1 DEF mark_stage1_job_failed
  <2>2. CASE Owned(w, c)
    <3> DEFINE row == Failed(job[c.t])
    <3>1. job' = [job EXCEPT ![c.t] = row] /\ output' = output
      BY <1>10, <2>2 DEF mark_stage1_job_failed
    <3>2. row \in Rows /\ row.status = "error" /\ row.success = job[c.t].success
      BY <1>5, FailedRow
    <3> HIDE DEF row
    <3>3. /\ \A t \in Threads \ {c.t} : job'[t] = job[t]
          /\ job'[c.t] = row
      BY <1>4, <3>1 DEF RowTypes
    <3>4. RowTypes'
      BY <1>2, <3>1, <3>2 DEF RowTypes
    <3>5. StoredIsLatest'
      BY <1>2, <3>1, <3>2, <3>3 DEF StoredIsLatest
    <3>6. \A t \in Threads : job'[t].status = "running" => job'[t] = job[t]
      BY <3>2, <3>3
    <3>7. QED
      BY <1>2, <1>3, <3>4, <3>5, <3>6, RowsEnd
  <2>3. QED
    BY <2>1, <2>2
<1>11. QED
  BY <1>8, <1>9, <1>10

\* What happens to the rows around the pipelines.
LEMMA AroundStep ==
    ASSUME JobInv,
           \/ \E t \in Threads : \/ stage1LeaseExpires(t) \/ stage1BackoffElapses(t)
                                 \/ threadUpdated(t) \/ delete_thread_memory(t)
           \/ clear_memory_data
    PROVE  JobInv'
<1> USE DEF JobInv
<1>1. UNCHANGED <<items, pc, claims>>
  BY DEF stage1LeaseExpires, stage1BackoffElapses, threadUpdated, delete_thread_memory,
         clear_memory_data, local
<1>2. claims' \in [Workers -> SUBSET [t : Threads, v : Positive, e : Nat]]
  BY <1>1 DEF ClaimTypes
<1>3. ASSUME NEW t \in Threads, stage1LeaseExpires(t) \/ stage1BackoffElapses(t)
      PROVE  JobInv'
  <2>1. job[t] \in Rows
    BY DEF RowTypes
  <2>2. PICK row \in Rows :
            /\ job' = [job EXCEPT ![t] = row]
            /\ row.status = job[t].status /\ row.token = job[t].token
            /\ row.input = job[t].input /\ row.success = job[t].success
    <3>1. \/ job' = [job EXCEPT ![t] = [job[t] EXCEPT !.live = FALSE]]
          \/ job' = [job EXCEPT ![t] = [job[t] EXCEPT !.backoff = FALSE]]
      BY <1>3 DEF stage1LeaseExpires, stage1BackoffElapses
    <3>2. QED
      BY <2>1, <3>1, RowElapses
  <2>3. UNCHANGED <<output, updated, epoch>>
    BY <1>3 DEF stage1LeaseExpires, stage1BackoffElapses, env
  <2>4. job'[t] = row /\ \A u \in Threads \ {t} : job'[u] = job[u]
    BY <2>2 DEF RowTypes
  <2>5. RowTypes'
    BY <2>2, <2>3 DEF RowTypes
  <2>6. StoredIsLatest'
    BY <2>2, <2>3, <2>4 DEF StoredIsLatest
  <2>7. QED
    BY <1>1, <1>2, <2>2, <2>3, <2>4, <2>5, <2>6, RowsEnd
<1>4. ASSUME NEW t \in Threads, threadUpdated(t) PROVE JobInv'
  <2>1. UNCHANGED <<job, output, epoch>> /\ \E v \in 1 .. MaxUpdated : updated' = [updated EXCEPT ![t] = v]
    BY <1>4 DEF threadUpdated, db
  <2>2. RowTypes'
    BY <2>1, MemoryAssumption DEF RowTypes, Positive
  <2>3. StoredIsLatest'
    BY <2>1 DEF StoredIsLatest
  <2>4. QED
    BY <1>1, <1>2, <2>1, <2>2, <2>3, RowsEnd
<1>5. ASSUME NEW t \in Threads, delete_thread_memory(t) PROVE JobInv'
  <2>1. /\ job' = [job EXCEPT ![t] = NoRow]
        /\ output' = [output EXCEPT ![t] = NoMemory]
        /\ epoch' = [epoch EXCEPT ![t] = @ + 1]
        /\ UNCHANGED updated
    BY <1>5 DEF delete_thread_memory
  <2>2. /\ job'[t] = NoRow /\ output'[t] = NoMemory
        /\ \A u \in Threads \ {t} : job'[u] = job[u] /\ output'[u] = output[u] /\ epoch'[u] = epoch[u]
    BY <2>1 DEF RowTypes
  <2>3. RowTypes'
    BY <2>1, NoRowIsRow DEF RowTypes
  <2>4. StoredIsLatest'
    BY <2>2 DEF StoredIsLatest
  <2>5. QED
    BY <1>1, <1>2, <2>2, <2>3, <2>4, RowsEnd DEF NoRow
<1>6. CASE clear_memory_data
  <2>1. /\ job' = [t \in Threads |-> NoRow]
        /\ output' = [t \in Threads |-> NoMemory]
        /\ epoch' = [t \in Threads |-> epoch[t] + 1]
        /\ UNCHANGED updated
    BY <1>6 DEF clear_memory_data
  <2>2. RowTypes'
    BY <2>1, NoRowIsRow DEF RowTypes
  <2>3. StoredIsLatest'
    BY <2>1 DEF StoredIsLatest
  <2>4. \A t \in Threads : job'[t].status # "running"
    BY <2>1 DEF NoRow
  <2>5. QED
    BY <1>1, <1>2, <2>2, <2>3, <2>4, RowsEnd
<1>7. QED
  BY <1>3, <1>4, <1>5, <1>6

\* Every step keeps the rows.
LEMMA StepJobs == JobInv /\ [Next]_vars => JobInv'
<1> SUFFICES ASSUME JobInv, [Next]_vars PROVE JobInv'
  OBVIOUS
<1>1. ASSUME NEW w \in Workers, start_memories_startup_task(w) \/ rate_limited(w)
      PROVE  JobInv'
  BY <1>1, PruneStep
<1>2. ASSUME NEW w \in Workers, try_claim_stage1_job(w) PROVE JobInv'
  BY <1>2, ClaimStep
<1>3. ASSUME NEW w \in Workers, EndsJob(w) PROVE JobInv'
  BY <1>3, EndStep DEF EndsJob
<1>4. ASSUME NEW w \in Workers, Phase2Step(w) \/ heartbeat_global_phase2_job(w) \/ crash(w)
      PROVE  JobInv'
  <2>1. DOMAIN pc = Workers
    BY DEF JobInv, ClaimTypes
  <2>2. UNCHANGED <<job, output, updated, epoch>>
    BY <1>4 DEF Phase2Step, try_claim_global_phase2_job, prepare_memory_workspace,
           get_phase2_input_selection, sync_phase2_workspace_inputs, memory_workspace_diff,
           agentCompletes, confirmOwnership, reset_memory_workspace_baseline,
           mark_global_phase2_job_succeeded, mark_global_phase2_job_failed,
           heartbeat_global_phase2_job, crash, db, env
  <2>3. CASE Off(w)
    BY <2>2, <2>3, RowsStay
  <2>4. CASE UNCHANGED local
    BY <2>1, <2>2, <2>4, RowsStay DEF local
  <2>5. CASE \E p \in Phase2 : pc' = [pc EXCEPT ![w] = p] /\ UNCHANGED <<items, claims>>
    <3>1. DOMAIN pc' = Workers /\ \A x \in Workers : pc'[x] = "off" => pc[x] = "off"
      BY <2>1, <2>5 DEF Phase2
    <3>2. QED
      BY <2>2, <2>5, <3>1, RowsStay
  <2>6. QED
    BY <1>4, <2>3, <2>4, <2>5 DEF Phase2Step, try_claim_global_phase2_job, Goto,
           prepare_memory_workspace, get_phase2_input_selection, sync_phase2_workspace_inputs,
           memory_workspace_diff, agentCompletes, confirmOwnership,
           reset_memory_workspace_baseline, mark_global_phase2_job_succeeded,
           mark_global_phase2_job_failed, heartbeat_global_phase2_job, crash, Phase2
<1>5. ASSUME \/ \E t \in Threads : \/ stage1LeaseExpires(t) \/ stage1BackoffElapses(t)
                                   \/ threadUpdated(t) \/ delete_thread_memory(t)
             \/ clear_memory_data
      PROVE  JobInv'
  BY <1>5, AroundStep
<1>6. ASSUME \/ \E t \in Threads : mark_thread_memory_mode_polluted(t) \/ delete_thread(t)
             \/ phase2LeaseExpires \/ phase2BackoffElapses \/ clear_memory_roots_contents
             \/ UNCHANGED vars
      PROVE  JobInv'
  <2>1. UNCHANGED <<job, output, updated, epoch, items, claims, pc>>
    BY <1>6 DEF mark_thread_memory_mode_polluted, pollutedReads, pollutedUpdates, pollutedEnqueues, delete_thread, phase2LeaseExpires,
           phase2BackoffElapses, clear_memory_roots_contents, vars, db, env, local
  <2>2. QED
    BY <2>1, RowsStay DEF JobInv, ClaimTypes
<1>7. QED
  BY <1>1, <1>2, <1>3, <1>4, <1>5, <1>6 DEF Next

\* The rows, the claims and the memories agree, for any number of processes
\* and threads, and whatever crashes, sleeps, updates, deletions and resets
\* come between the transactions of the phase-1 jobs.
THEOREM JobsInvariant == Spec => []JobInv
  BY InitJobs, StepJobs, PTL DEF Spec

\* mark_stage1_job_succeeded, with its check of the ownership token: what is
\* stored for a thread is the last success of its job, extracted after the last
\* reset or deletion of the thread's memory.
THEOREM LatestIsStored == Spec => []StoredIsLatest
<1>1. JobInv => StoredIsLatest
  BY DEF JobInv
<1>2. QED
  BY <1>1, JobsInvariant, PTL

-----------------------------------------------------------------------------
(* Phase 2: the memories that are marked as consolidated, while nobody     *)
(* resets the memories.                                                    *)

Globals == [status : {"absent", "pending", "running", "done", "error"},
            token : Tokens, live : BOOLEAN, backoff : BOOLEAN, cool : BOOLEAN]

GlobalTypes ==
    /\ global \in Globals
    /\ DOMAIN pc = Workers /\ DOMAIN sel = Workers /\ DOMAIN selected = Threads
    /\ repo \in BOOLEAN /\ ~clearing

\* Where a worker does not outlive its lease: all but the agent's run, and the
\* heartbeat after it.
Held == {"claimed", "prepared", "loaded", "synced", "confirmed", "finishing"}

HeldIsLeased == \A w \in Workers : pc[w] \in Held => OwnsGlobal(w) /\ global.live

\* The directory belongs to the owner of the global row.
OwnerHasFiles ==
    \A w \in Workers : OwnsGlobal(w) =>
        /\ pc[w] \in {"synced", "agent", "completed", "confirmed"} => files = sel[w]
        /\ pc[w] \in {"prepared", "loaded", "synced", "agent", "completed", "confirmed"} => repo

\* An agent has read what is about to be marked, and what is in the baseline or
\* would be the next one.
ReadBefore ==
    /\ \A w \in Workers : pc[w] \in {"completed", "confirmed", "finishing"} => sel[w] \subseteq seen
    /\ repo => base \subseteq seen
    /\ ~repo => files \subseteq seen
    /\ \A t \in Threads : selected[t] # NoMemory => <<t, selected[t]>> \in seen

BaseInv == GlobalTypes /\ HeldIsLeased /\ OwnerHasFiles /\ ReadBefore

LEMMA InitBase == Init => BaseInv
<1> SUFFICES ASSUME Init PROVE BaseInv
  OBVIOUS
<1>1. GlobalTypes
  BY DEF Init, GlobalTypes, Globals, Tokens, NoGlobal
<1>2. HeldIsLeased /\ OwnerHasFiles /\ ReadBefore
  BY DEF Init, HeldIsLeased, OwnerHasFiles, ReadBefore, Held
<1>3. QED
  BY <1>1, <1>2 DEF BaseInv

\* Steps outside phase 2 leave a running global row to its owner.
LEMMA RowLeft ==
    ASSUME BaseInv, UNCHANGED <<pc, sel, files, base, repo, seen, clearing>>,
           global' \in Globals,
           global.status = "running" \/ global'.status = "running" =>
               /\ global'.status = global.status /\ global'.token = global.token
               /\ (\E w \in Workers : pc[w] \in Held) => global'.live = global.live,
           DOMAIN selected' = Threads,
           \A t \in Threads : selected'[t] \in {selected[t], NoMemory}
    PROVE  BaseInv'
<1> USE DEF BaseInv
<1>1. GlobalTypes'
  BY DEF GlobalTypes
<1>2. \A w \in Workers : OwnsGlobal(w)' <=> OwnsGlobal(w)
  BY DEF OwnsGlobal
<1>3. HeldIsLeased'
  BY <1>2 DEF HeldIsLeased, OwnsGlobal
<1>4. OwnerHasFiles'
  BY <1>2 DEF OwnerHasFiles
<1>5. ReadBefore'
  BY DEF ReadBefore
<1>6. QED
  BY <1>1, <1>3, <1>4, <1>5

LEMMA EnqueuedRow ==
    ASSUME global \in Globals
    PROVE  /\ Enqueued \in Globals
           /\ global.status = "running" => Enqueued = global
           /\ global.status # "running" => Enqueued.status # "running"
<1>1. ASSUME NEW r \in Globals, NEW q,
             q = [r EXCEPT !.status = "pending", !.backoff = FALSE]
      PROVE  q \in Globals /\ q.status = "pending"
  BY <1>1 DEF Globals
<1>2. QED
  BY <1>1 DEF Enqueued

\* The steps of phase 1, of the clock and of the threads.
LEMMA OutsideStep ==
    ASSUME BaseInv, Stalls \subseteq {"agent", "completed"},
           \/ \E w \in Workers : rate_limited(w) \/ EndsJob(w)
           \/ \E t \in Threads : \/ stage1LeaseExpires(t) \/ stage1BackoffElapses(t)
                                 \/ threadUpdated(t) \/ mark_thread_memory_mode_polluted(t)
                                 \/ delete_thread_memory(t) \/ delete_thread(t)
           \/ phase2LeaseExpires \/ phase2BackoffElapses
           \/ UNCHANGED vars
    PROVE  BaseInv'
<1>1. UNCHANGED <<pc, sel, files, base, repo, seen, clearing>>
  BY DEF rate_limited, EndsJob, EndJob, mark_stage1_job_succeeded,
         mark_stage1_job_succeeded_no_output, mark_stage1_job_failed, stage1LeaseExpires,
         stage1BackoffElapses, threadUpdated, mark_thread_memory_mode_polluted, pollutedReads, pollutedUpdates, pollutedEnqueues,
         delete_thread_memory, delete_thread, phase2LeaseExpires, phase2BackoffElapses,
         vars, disk, local, env
<1>2. DOMAIN selected' = Threads /\ \A t \in Threads : selected'[t] \in {selected[t], NoMemory}
  BY DEF rate_limited, EndsJob, EndJob, mark_stage1_job_succeeded,
         mark_stage1_job_succeeded_no_output, mark_stage1_job_failed, stage1LeaseExpires,
         stage1BackoffElapses, threadUpdated, mark_thread_memory_mode_polluted, pollutedReads, pollutedUpdates, pollutedEnqueues,
         delete_thread_memory, delete_thread, phase2LeaseExpires, phase2BackoffElapses,
         vars, db, BaseInv, GlobalTypes
<1>3. global \in Globals
  BY DEF BaseInv, GlobalTypes
<1>4. CASE global' \in {global, Enqueued}
  BY <1>1, <1>2, <1>3, <1>4, EnqueuedRow, RowLeft
<1>5. CASE phase2LeaseExpires
  <2>1. \A w \in Workers : pc[w] \notin Held
    <3>1. \A w \in Workers : pc[w] \in Held => OwnsGlobal(w)
      BY DEF BaseInv, HeldIsLeased
    <3>2. \A w, x \in Workers : OwnsGlobal(w) /\ OwnsGlobal(x) => w = x
      BY DEF OwnsGlobal
    <3>3. \/ \A w \in Workers : ~OwnsGlobal(w)
          \/ \E w \in Workers : OwnsGlobal(w) /\ pc[w] \notin Held
      BY <1>5 DEF phase2LeaseExpires, Held
    <3>4. QED
      BY <3>1, <3>2, <3>3
  <2>2. ASSUME NEW q, q = [global EXCEPT !.live = FALSE]
        PROVE  q \in Globals /\ q.status = global.status /\ q.token = global.token
    BY <1>3, <2>2 DEF Globals
  <2>3. QED
    BY <1>1, <1>2, <1>5, <2>1, <2>2, RowLeft DEF phase2LeaseExpires
<1>6. CASE phase2BackoffElapses
  <2>1. ASSUME NEW q, q = [global EXCEPT !.backoff = FALSE, !.cool = FALSE]
        PROVE  /\ q \in Globals /\ q.status = global.status /\ q.token = global.token
               /\ q.live = global.live
    BY <1>3, <2>1 DEF Globals
  <2>2. QED
    BY <1>1, <1>2, <1>6, <2>1, RowLeft DEF phase2BackoffElapses
<1>7. QED
  BY <1>4, <1>5, <1>6 DEF rate_limited, EndsJob, EndJob, mark_stage1_job_succeeded,
         mark_stage1_job_succeeded_no_output, mark_stage1_job_failed, stage1LeaseExpires,
         stage1BackoffElapses, threadUpdated, mark_thread_memory_mode_polluted, pollutedReads, pollutedUpdates, pollutedEnqueues,
         delete_thread_memory, delete_thread, vars, db

\* A step of one worker: what it owes to the others, and what to itself.
LEMMA WorkerMoves ==
    ASSUME BaseInv, NEW w \in Workers, GlobalTypes',
           \A x \in Workers \ {w} :
               /\ pc'[x] = pc[x] /\ sel'[x] = sel[x]
               /\ OwnsGlobal(x)' => OwnsGlobal(x) /\ files' = files /\ repo' = repo
               /\ pc[x] \in Held => OwnsGlobal(x)' /\ global'.live,
           seen \subseteq seen',
           pc'[w] \in Held => OwnsGlobal(w)' /\ global'.live,
           OwnsGlobal(w)' =>
               /\ pc'[w] \in {"synced", "agent", "completed", "confirmed"} => files' = sel'[w]
               /\ pc'[w] \in {"prepared", "loaded", "synced", "agent", "completed", "confirmed"} => repo',
           pc'[w] \in {"completed", "confirmed", "finishing"} => sel'[w] \subseteq seen',
           repo' => base' \subseteq seen', ~repo' => files' \subseteq seen',
           \A t \in Threads : selected'[t] # NoMemory => <<t, selected'[t]>> \in seen'
    PROVE  BaseInv'
<1> USE DEF BaseInv
<1>1. HeldIsLeased'
  BY DEF HeldIsLeased
<1>2. OwnerHasFiles'
  BY DEF OwnerHasFiles
<1>3. ReadBefore'
  BY DEF ReadBefore
<1>4. QED
  BY <1>1, <1>2, <1>3

\* A worker that ends, or goes on without the global row.
LEMMA WorkerLeaves ==
    ASSUME BaseInv, NEW w \in Workers, GlobalTypes',
           pc'[w] \notin Phase2,
           \A x \in Workers \ {w} : pc'[x] = pc[x] /\ sel'[x] = sel[x],
           \/ UNCHANGED global
           \/ OwnsGlobal(w) /\ global'.status # "running",
           UNCHANGED <<base, seen>>,
           \/ UNCHANGED <<files, repo>>
           \/ pc[w] = "confirmed" /\ repo' = FALSE /\ UNCHANGED files
           \/ pc[w] = "loaded" /\ UNCHANGED repo,
           \A t \in Threads : selected'[t] # NoMemory => <<t, selected'[t]>> \in seen
    PROVE  BaseInv'
<1> USE DEF BaseInv
<1>1. /\ pc[w] = "confirmed" => OwnsGlobal(w) /\ files \subseteq seen
      /\ pc[w] = "loaded" => OwnsGlobal(w) /\ repo
  BY DEF HeldIsLeased, Held, OwnerHasFiles, ReadBefore
<1>2. ASSUME NEW x \in Workers \ {w}
      PROVE  /\ OwnsGlobal(x)' => OwnsGlobal(x) /\ files' = files /\ repo' = repo
             /\ pc[x] \in Held => OwnsGlobal(x)' /\ global'.live
  <2>1. ~(OwnsGlobal(x) /\ OwnsGlobal(w))
    BY <1>2 DEF OwnsGlobal
  <2>2. CASE UNCHANGED global
    BY <1>1, <2>1, <2>2 DEF OwnsGlobal, HeldIsLeased
  <2>3. CASE OwnsGlobal(w) /\ global'.status # "running"
    BY <2>1, <2>3 DEF OwnsGlobal, HeldIsLeased
  <2>4. QED
    BY <2>2, <2>3
<1>3. (repo' => base \subseteq seen) /\ (~repo' => files' \subseteq seen)
  BY <1>1 DEF ReadBefore, GlobalTypes
<1>4. pc'[w] \notin {"synced", "agent", "completed", "confirmed", "prepared", "loaded", "finishing"}
      /\ pc'[w] \notin Held /\ ~OwnsGlobal(w)'
  BY DEF Phase2, Held, OwnsGlobal
<1>5. QED
  BY <1>2, <1>3, <1>4, WorkerMoves

LEMMA HeartbeatRow ==
    ASSUME NEW r \in Globals, NEW q, q = [r EXCEPT !.live = TRUE]
    PROVE  q \in Globals /\ q.status = r.status /\ q.token = r.token /\ q.live
  BY DEF Globals

\* Where a worker leaves: the end of phase 2, a lost row, an error, a crash.
LEMMA LeaveStep ==
    ASSUME BaseInv, NEW w \in Workers, Off(w),
           \/ try_claim_global_phase2_job(w) \/ heartbeat_global_phase2_job(w)
           \/ confirmOwnership(w) \/ mark_global_phase2_job_succeeded(w)
           \/ mark_global_phase2_job_failed(w) \/ crash(w),
           \A t \in Threads : StillStored(w, t) => <<t, output[t]>> \in sel[w]
    PROVE  BaseInv'
<1> USE DEF BaseInv
<1>1. /\ pc'[w] \notin Phase2 /\ DOMAIN pc' = Workers /\ DOMAIN sel' = Workers
      /\ \A x \in Workers \ {w} : pc'[x] = pc[x] /\ sel'[x] = sel[x]
      /\ pc'[w] = "off"
  BY DEF Off, GlobalTypes, Phase2
<1>2. UNCHANGED <<base, seen, clearing>>
  BY DEF try_claim_global_phase2_job, heartbeat_global_phase2_job, confirmOwnership, LeftBehind,
         mark_global_phase2_job_succeeded, mark_global_phase2_job_failed, crash, disk, env
<1>3. /\ \/ UNCHANGED <<files, repo>>
         \/ pc[w] = "confirmed" /\ repo' = FALSE /\ UNCHANGED files
         \/ pc[w] = "loaded" /\ UNCHANGED repo
      /\ repo' \in BOOLEAN
  <2>1. CASE LeftBehind(w)
    BY <2>1 DEF LeftBehind, GlobalTypes
  <2>2. CASE ~LeftBehind(w)
    BY <2>2 DEF try_claim_global_phase2_job, heartbeat_global_phase2_job, confirmOwnership,
         mark_global_phase2_job_succeeded, mark_global_phase2_job_failed, crash, disk, GlobalTypes
  <2>3. QED
    BY <2>1, <2>2
<1>4. /\ UNCHANGED global \/ (OwnsGlobal(w) /\ global'.status # "running")
      /\ global' \in Globals
  <2>1. global \in Globals
    BY DEF GlobalTypes
  <2>2. CASE mark_global_phase2_job_succeeded(w)
    <3>1. CASE OwnsGlobal(w)
      <4>1. global' = [global EXCEPT !.status = "done", !.token = "none",
                                      !.live = FALSE, !.cool = TRUE]
        BY <2>2, <3>1 DEF mark_global_phase2_job_succeeded
      <4>2. ASSUME NEW r \in Globals, NEW q,
                   q = [r EXCEPT !.status = "done", !.token = "none",
                                 !.live = FALSE, !.cool = TRUE]
            PROVE  q \in Globals /\ q.status = "done"
        BY <4>2 DEF Globals, Tokens
      <4>3. QED
        BY <2>1, <3>1, <4>1, <4>2
    <3>2. QED
      BY <2>1, <2>2, <3>1 DEF mark_global_phase2_job_succeeded
  <2>3. CASE mark_global_phase2_job_failed(w)
    <3>1. CASE OwnsGlobal(w)
      <4>1. global' = [global EXCEPT !.status = "error", !.token = "none",
                                     !.live = FALSE, !.backoff = TRUE]
        BY <2>3, <3>1 DEF mark_global_phase2_job_failed, GlobalFailed
      <4>2. ASSUME NEW r \in Globals, NEW q,
                   q = [r EXCEPT !.status = "error", !.token = "none",
                                 !.live = FALSE, !.backoff = TRUE]
            PROVE  q \in Globals /\ q.status = "error"
        BY <4>2 DEF Globals, Tokens
      <4>3. QED
        BY <2>1, <3>1, <4>1, <4>2
    <3>2. QED
      BY <2>1, <2>3, <3>1 DEF mark_global_phase2_job_failed, GlobalFailed
  <2>4. CASE crash(w)
    BY <2>1, <2>4 DEF crash, db
  <2>5. CASE try_claim_global_phase2_job(w)
    BY <1>1, <2>1, <2>5 DEF try_claim_global_phase2_job, db, GlobalTypes
  <2>6. CASE heartbeat_global_phase2_job(w)
    BY <1>1, <2>1, <2>6 DEF heartbeat_global_phase2_job, local
  <2>7. CASE confirmOwnership(w)
    BY <1>1, <2>1, <2>7 DEF confirmOwnership, Goto, GlobalTypes
  <2>8. QED
    BY <2>2, <2>3, <2>4, <2>5, <2>6, <2>7
<1>5. /\ DOMAIN selected' = Threads
      /\ \A t \in Threads : selected'[t] # NoMemory => <<t, selected'[t]>> \in seen
  <2>1. CASE mark_global_phase2_job_succeeded(w)
    <3>1. sel[w] \subseteq seen
      BY <2>1 DEF mark_global_phase2_job_succeeded, ReadBefore
    <3>2. CASE OwnsGlobal(w)
      <4>1. selected' = [t \in Threads |-> IF StillStored(w, t) THEN output[t] ELSE NoMemory]
        BY <2>1, <3>2 DEF mark_global_phase2_job_succeeded
      <4>2. QED
        BY <3>1, <4>1
    <3>3. CASE ~OwnsGlobal(w)
      BY <2>1, <3>3 DEF mark_global_phase2_job_succeeded, ReadBefore, GlobalTypes
    <3>4. QED
      BY <3>2, <3>3
  <2>2. CASE ~mark_global_phase2_job_succeeded(w)
    <3>1. UNCHANGED selected
      BY <2>2 DEF try_claim_global_phase2_job, heartbeat_global_phase2_job, confirmOwnership,
             mark_global_phase2_job_failed, crash, db
    <3>2. QED
      BY <3>1 DEF ReadBefore, GlobalTypes
  <2>3. QED
    BY <2>1, <2>2
<1>6. GlobalTypes'
  BY <1>1, <1>2, <1>3, <1>4, <1>5 DEF GlobalTypes
<1>7. QED
  BY <1>1, <1>2, <1>3, <1>4, <1>5, <1>6, WorkerLeaves

\* Phase 1 of a worker, before it has claimed the global row.
LEMMA ScanStep ==
    ASSUME BaseInv, NEW w \in Workers,
           start_memories_startup_task(w) \/ try_claim_stage1_job(w)
    PROVE  BaseInv'
<1> USE DEF BaseInv
<1>1. \E p \in {"scan", "run"} : pc' = [pc EXCEPT ![w] = p]
  BY DEF start_memories_startup_task, try_claim_stage1_job
<1>2. UNCHANGED <<sel, selected, global, files, base, repo, seen, clearing>>
  BY DEF start_memories_startup_task, try_claim_stage1_job, disk, env
<1>3. GlobalTypes' /\ \A x \in Workers \ {w} : pc'[x] = pc[x] /\ sel'[x] = sel[x]
  BY <1>1, <1>2 DEF GlobalTypes
<1>4. pc'[w] \notin Phase2
  BY <1>1 DEF Phase2, GlobalTypes
<1>5. QED
  BY <1>2, <1>3, <1>4, WorkerLeaves DEF ReadBefore

\* The steps of phase 2 that go on.
LEMMA GoOnStep ==
    ASSUME BaseInv, NEW w \in Workers, ~Off(w),
           Phase2Step(w) \/ heartbeat_global_phase2_job(w)
    PROVE  BaseInv'
<1> USE DEF BaseInv
<1>0. /\ global \in Globals /\ DOMAIN pc = Workers /\ DOMAIN sel = Workers
      /\ DOMAIN selected = Threads /\ repo \in BOOLEAN /\ ~clearing
  BY DEF GlobalTypes
<1>1. \A x, y \in Workers : OwnsGlobal(x) /\ OwnsGlobal(y) => x = y
  BY DEF OwnsGlobal
<1>2. \A x \in Workers : pc[x] \in Held => OwnsGlobal(x) /\ global.live
  BY DEF HeldIsLeased
<1>3. /\ \A t \in Threads : selected[t] # NoMemory => <<t, selected[t]>> \in seen
      /\ repo => base \subseteq seen
      /\ ~repo => files \subseteq seen
  BY DEF ReadBefore
<1>4. OwnsGlobal(w) =>
          /\ pc[w] \in {"synced", "agent", "completed", "confirmed"} => files = sel[w]
          /\ pc[w] \in {"prepared", "loaded", "synced", "agent", "completed", "confirmed"} => repo
  BY DEF OwnerHasFiles
<1>5. CASE try_claim_global_phase2_job(w)
  <2>1. /\ ~(global.status = "running" /\ global.live)
        /\ global' = [status |-> "running", token |-> w, live |-> TRUE,
                      backoff |-> FALSE, cool |-> FALSE]
        /\ pc' = [pc EXCEPT ![w] = "claimed"]
        /\ UNCHANGED <<sel, selected, files, base, repo, seen, clearing>>
    BY <1>5 DEF try_claim_global_phase2_job, disk, env
  <2>2. global' \in Globals
    BY <2>1 DEF Globals, Tokens
  <2>3. GlobalTypes'
    BY <1>0, <2>1, <2>2 DEF GlobalTypes
  <2>4. \A x \in Workers : pc[x] \notin Held
    BY <1>2, <2>1 DEF OwnsGlobal
  <2>5. pc'[w] = "claimed" /\ OwnsGlobal(w)' /\ global'.live
    BY <1>0, <2>1 DEF OwnsGlobal, Phase2
  <2>6. \A x \in Workers \ {w} : pc'[x] = pc[x] /\ ~OwnsGlobal(x)'
    BY <1>0, <2>1 DEF OwnsGlobal
  <2>7. QED
    BY <1>3, <2>1, <2>3, <2>4, <2>5, <2>6, WorkerMoves
<1>6. ASSUME NEW p \in Held, NEW q \in Phase2, pc[w] = p, pc' = [pc EXCEPT ![w] = q],
             UNCHANGED <<selected, global, clearing>>, DOMAIN sel' = Workers,
             \A x \in Workers \ {w} : sel'[x] = sel[x],
             repo' \in BOOLEAN, seen \subseteq seen',
             repo' => base' \subseteq seen', ~repo' => files' \subseteq seen',
             q \in {"synced", "agent", "completed", "confirmed"} => files' = sel'[w],
             q \in {"prepared", "loaded", "synced", "agent", "completed", "confirmed"} => repo',
             q \in {"completed", "confirmed", "finishing"} => sel'[w] \subseteq seen'
      PROVE  BaseInv'
  <2>1. OwnsGlobal(w) /\ global.live
    BY <1>2, <1>6
  <2>2. GlobalTypes'
    BY <1>0, <1>6 DEF GlobalTypes
  <2>3. pc'[w] = q /\ OwnsGlobal(w)' /\ global'.live
    BY <1>0, <1>6, <2>1 DEF OwnsGlobal
  <2>4. \A x \in Workers \ {w} :
            /\ pc'[x] = pc[x] /\ ~OwnsGlobal(x)'
            /\ pc[x] \notin Held
    BY <1>0, <1>1, <1>2, <1>6, <2>1 DEF OwnsGlobal
  <2>5. QED
    BY <1>3, <1>6, <2>2, <2>3, <2>4, WorkerMoves
<1>7. CASE prepare_memory_workspace(w)
  BY <1>0, <1>3, <1>6, <1>7 DEF prepare_memory_workspace, Goto, Held, Phase2, db, env
<1>8. CASE get_phase2_input_selection(w)
  <2>1. /\ pc[w] = "prepared" /\ pc' = [pc EXCEPT ![w] = "loaded"]
        /\ UNCHANGED <<selected, global, clearing, repo, base, files, seen>>
        /\ DOMAIN sel' = Workers /\ \A x \in Workers \ {w} : sel'[x] = sel[x]
    BY <1>0, <1>8 DEF get_phase2_input_selection, Goto, db, env, disk
  <2>2. OwnsGlobal(w)
    BY <1>2, <2>1 DEF Held
  <2>3. QED
    BY <1>0, <1>3, <1>4, <1>6, <2>1, <2>2 DEF Held, Phase2
<1>9. CASE sync_phase2_workspace_inputs(w)
  <2>1. /\ pc[w] = "loaded" /\ pc' = [pc EXCEPT ![w] = "synced"] /\ files' = sel[w]
        /\ UNCHANGED <<selected, global, clearing, repo, base, seen, sel>>
    BY <1>9 DEF sync_phase2_workspace_inputs, Goto, db, env
  <2>2. OwnsGlobal(w) /\ repo
    BY <1>2, <1>4, <2>1 DEF Held
  <2>3. QED
    BY <1>0, <1>3, <1>6, <2>1, <2>2 DEF Held, Phase2
<1>10. CASE memory_workspace_diff(w)
  <2>1. /\ pc[w] = "synced" /\ repo
        /\ pc' = [pc EXCEPT ![w] = IF files = base THEN "finishing" ELSE "agent"]
        /\ UNCHANGED <<selected, global, clearing, repo, base, files, seen, sel>>
    BY <1>10 DEF memory_workspace_diff, Goto, db, env, disk
  <2>2. OwnsGlobal(w) /\ files = sel[w]
    BY <1>2, <1>4, <2>1 DEF Held
  <2>3. CASE files = base
    BY <1>0, <1>3, <1>6, <2>1, <2>2, <2>3 DEF Held, Phase2
  <2>4. CASE files # base
    BY <1>0, <1>3, <1>6, <2>1, <2>2, <2>4 DEF Held, Phase2
  <2>5. QED
    BY <2>3, <2>4
<1>11. CASE reset_memory_workspace_baseline(w)
  <2>1. /\ pc[w] = "confirmed" /\ pc' = [pc EXCEPT ![w] = "finishing"]
        /\ base' = files /\ repo' = TRUE
        /\ UNCHANGED <<selected, global, clearing, files, seen, sel>>
    BY <1>11 DEF reset_memory_workspace_baseline, Goto, db, env
  <2>2. OwnsGlobal(w) /\ files = sel[w] /\ sel[w] \subseteq seen
    BY <1>2, <1>4, <2>1 DEF Held, ReadBefore
  <2>3. QED
    BY <1>0, <1>3, <1>6, <2>1, <2>2 DEF Held, Phase2
<1>12. CASE agentCompletes(w)
  <2>1. /\ pc[w] = "agent" /\ pc' = [pc EXCEPT ![w] = "completed"]
        /\ seen' = seen \cup sel[w]
        /\ UNCHANGED <<selected, global, clearing, files, base, repo, sel>>
    BY <1>12 DEF agentCompletes, Goto, db, env, disk
  <2>2. GlobalTypes'
    BY <1>0, <2>1 DEF GlobalTypes
  <2>3. pc'[w] = "completed" /\ pc'[w] \notin Held /\ (OwnsGlobal(w)' => OwnsGlobal(w))
    BY <1>0, <2>1 DEF OwnsGlobal, Held, Phase2
  <2>4. \A x \in Workers \ {w} : pc'[x] = pc[x] /\ (OwnsGlobal(x)' <=> OwnsGlobal(x))
    BY <1>0, <2>1 DEF OwnsGlobal
  <2>5. QED
    BY <1>2, <1>3, <1>4, <2>1, <2>2, <2>3, <2>4, WorkerMoves
<1>13. ASSUME NEW p \in {"agent", "confirmed"}, pc[w] \in {"agent", "completed"},
              p = "confirmed" => pc[w] = "completed",
              Heartbeat(w), pc'[w] = p, DOMAIN pc' = Workers,
              \A x \in Workers \ {w} : pc'[x] = pc[x],
              UNCHANGED <<selected, clearing, files, base, repo, sel, seen>>
       PROVE  BaseInv'
  <2>1. OwnsGlobal(w) /\ global' = [global EXCEPT !.live = TRUE]
    BY <1>13 DEF Heartbeat
  <2>2. /\ global' \in Globals /\ global'.status = global.status
        /\ global'.token = global.token /\ global'.live
    BY <1>0, <2>1, HeartbeatRow
  <2>3. GlobalTypes'
    BY <1>0, <1>13, <2>2 DEF GlobalTypes
  <2>4. pc'[w] = p /\ OwnsGlobal(w)'
    BY <1>0, <1>13, <2>1, <2>2 DEF OwnsGlobal, Phase2
  <2>5. \A x \in Workers \ {w} : pc'[x] = pc[x] /\ (OwnsGlobal(x)' <=> OwnsGlobal(x))
    BY <1>0, <1>13, <2>2 DEF OwnsGlobal
  <2>6. p = "confirmed" => sel[w] \subseteq seen
    BY <1>13 DEF ReadBefore
  <2>7. QED
    BY <1>2, <1>3, <1>4, <1>13, <2>1, <2>2, <2>3, <2>4, <2>5, <2>6, WorkerMoves
<1>14. CASE heartbeat_global_phase2_job(w)
  <2>1. /\ pc[w] = "agent" /\ Heartbeat(w) /\ pc' = pc
        /\ UNCHANGED <<selected, clearing, files, base, repo, sel, seen>>
    BY <1>14 DEF heartbeat_global_phase2_job, local, disk, env
  <2>2. QED
    BY <1>0, <1>13, <2>1
<1>15. CASE confirmOwnership(w)
  BY <1>0, <1>13, <1>15 DEF confirmOwnership, Goto, disk, env
<1>16. CASE mark_global_phase2_job_succeeded(w) \/ mark_global_phase2_job_failed(w)
  BY <1>16 DEF mark_global_phase2_job_succeeded, mark_global_phase2_job_failed
<1>17. QED
  BY <1>5, <1>7, <1>8, <1>9, <1>10, <1>11, <1>12, <1>14, <1>15, <1>16 DEF Phase2Step

\* Every step keeps the baseline, until the memories are reset.
LEMMA StepBase ==
    ASSUME Stalls \subseteq {"agent", "completed"}, BaseInv, [Next]_vars, ~clear_memory_data,
           \A w \in Workers : \A t \in Threads :
               StillStored(w, t) => <<t, output[t]>> \in sel[w]
    PROVE  BaseInv'
<1>1. ~clearing
  BY DEF BaseInv, GlobalTypes
<1>2. ~clear_memory_data /\ ~clear_memory_roots_contents
  BY <1>1 DEF clear_memory_roots_contents
<1>3. ASSUME NEW w \in Workers, start_memories_startup_task(w) \/ try_claim_stage1_job(w)
      PROVE  BaseInv'
  BY <1>3, ScanStep
<1>4. ASSUME NEW w \in Workers, Phase2Step(w) \/ heartbeat_global_phase2_job(w) \/ crash(w)
      PROVE  BaseInv'
  <2>1. CASE ~Off(w)
    BY <1>4, <2>1, GoOnStep DEF crash
  <2>2. CASE Off(w)
    <3>1. ASSUME \/ prepare_memory_workspace(w) \/ get_phase2_input_selection(w)
                 \/ sync_phase2_workspace_inputs(w) \/ memory_workspace_diff(w)
                 \/ agentCompletes(w) \/ reset_memory_workspace_baseline(w)
          PROVE  FALSE
      BY <2>2, <3>1 DEF Off, prepare_memory_workspace, get_phase2_input_selection,
             sync_phase2_workspace_inputs, memory_workspace_diff, agentCompletes,
             reset_memory_workspace_baseline, Goto, BaseInv, GlobalTypes
    <3>2. QED
      BY <1>4, <2>2, <3>1, LeaveStep DEF Phase2Step
  <2>3. QED
    BY <2>1, <2>2
<1>5. ASSUME \/ \E w \in Workers : rate_limited(w) \/ EndsJob(w)
             \/ \E t \in Threads : \/ stage1LeaseExpires(t) \/ stage1BackoffElapses(t)
                                   \/ threadUpdated(t) \/ mark_thread_memory_mode_polluted(t)
                                   \/ delete_thread_memory(t) \/ delete_thread(t)
             \/ phase2LeaseExpires \/ phase2BackoffElapses
             \/ UNCHANGED vars
      PROVE  BaseInv'
  BY <1>5, OutsideStep
<1>6. QED
  BY <1>2, <1>3, <1>4, <1>5 DEF Next

\* Only a reset counts.
LEMMA ResetCounts ==
    ASSUME [Next]_vars, ~clear_memory_data
    PROVE  resets' = resets
<1>1. ASSUME NEW w \in Workers, \/ start_memories_startup_task(w) \/ rate_limited(w)
                                \/ try_claim_stage1_job(w) \/ EndsJob(w)
      PROVE  resets' = resets
  BY <1>1 DEF start_memories_startup_task, rate_limited, try_claim_stage1_job, EndsJob, EndJob,
         mark_stage1_job_succeeded, mark_stage1_job_succeeded_no_output, mark_stage1_job_failed, env
<1>2. ASSUME NEW w \in Workers, Phase2Step(w) \/ heartbeat_global_phase2_job(w) \/ crash(w)
      PROVE  resets' = resets
  BY <1>2 DEF Phase2Step, try_claim_global_phase2_job, prepare_memory_workspace,
         get_phase2_input_selection, sync_phase2_workspace_inputs, memory_workspace_diff,
         agentCompletes, confirmOwnership, reset_memory_workspace_baseline,
         mark_global_phase2_job_succeeded, mark_global_phase2_job_failed,
         heartbeat_global_phase2_job, crash, env
<1>3. ASSUME NEW t \in Threads, \/ stage1LeaseExpires(t) \/ stage1BackoffElapses(t)
                                \/ threadUpdated(t) \/ mark_thread_memory_mode_polluted(t)
                                \/ delete_thread_memory(t) \/ delete_thread(t)
      PROVE  resets' = resets
  BY <1>3 DEF stage1LeaseExpires, stage1BackoffElapses, threadUpdated,
         mark_thread_memory_mode_polluted, pollutedReads, pollutedUpdates, pollutedEnqueues,
         delete_thread_memory, delete_thread, env
<1>4. CASE \/ phase2LeaseExpires \/ phase2BackoffElapses
           \/ clear_memory_roots_contents \/ UNCHANGED vars
  BY <1>4 DEF phase2LeaseExpires, phase2BackoffElapses,
         clear_memory_roots_contents, env, vars
<1>5. QED
  BY <1>1, <1>2, <1>3, <1>4 DEF Next

-----------------------------------------------------------------------------
(* Why it is enough to compare versions: while nobody resets the memories, *)
(* a thread whose memory was deleted has no rollout any more, and nothing  *)
(* is stored for it again.  So no version is extracted twice.              *)

FirstStored ==
    /\ DOMAIN mode = Threads
    /\ \A t \in Threads : epoch[t] # 0 => NoRollout(t) /\ output[t] = NoMemory

FirstSelected ==
    /\ DOMAIN sel = Workers
    /\ \A w \in Workers : sel[w] \subseteq Threads \X [v : Nat, e : {0}]

FirstInv == FirstStored /\ FirstSelected

LEMMA InitFirst == Init => FirstInv
  BY DEF Init, FirstInv, FirstStored, FirstSelected

\* The version of a selected memory tells which memory it is.
LEMMA VersionIsMemory ==
    ASSUME JobInv, FirstInv
    PROVE  \A w \in Workers : \A t \in Threads :
               StillStored(w, t) => <<t, output[t]>> \in sel[w]
<1> SUFFICES ASSUME NEW w \in Workers, NEW t \in Threads, StillStored(w, t)
             PROVE  <<t, output[t]>> \in sel[w]
  OBVIOUS
<1>1. PICK m \in Memory : <<t, m>> \in sel[w] /\ output[t].v = m.v
  BY DEF StillStored
<1>2. m \in [v : Nat, e : {0}] /\ m.v # 0
  BY <1>1, MemoryAssumption DEF Memory, FirstInv, FirstSelected
<1>3. output[t] \in [v : Nat, e : Nat]
  BY DEF JobInv, RowTypes
<1>4. output[t] # NoMemory
  BY <1>1, <1>2 DEF NoMemory
<1>5. output[t].e = 0
  BY <1>4 DEF FirstInv, FirstStored, JobInv, StoredIsLatest
<1>6. output[t] = m
  BY <1>1, <1>2, <1>3, <1>5
<1>7. QED
  BY <1>1, <1>6

LEMMA StepFirst ==
    ASSUME JobInv, FirstInv, [Next]_vars, ~clear_memory_data
    PROVE  FirstInv'
<1> USE DEF FirstInv
<1>0. DOMAIN output = Threads /\ DOMAIN mode = Threads /\ epoch \in [Threads -> Nat]
  BY DEF JobInv, RowTypes, FirstStored
<1>1. FirstStored'
  <2>1. ASSUME NEW w \in Workers, start_memories_startup_task(w) \/ rate_limited(w)
        PROVE  FirstStored'
    BY <2>1 DEF start_memories_startup_task, rate_limited, prune_stage1_outputs_for_retention,
           env, FirstStored, NoRollout
  <2>2. ASSUME NEW w \in Workers, EndsJob(w)
        PROVE  FirstStored'
    <3>1. PICK c \in claims[w] : \/ mark_stage1_job_succeeded(w, c)
                                 \/ mark_stage1_job_succeeded_no_output(w, c)
                                 \/ mark_stage1_job_failed(w, c)
      BY <2>2 DEF EndsJob
    <3>2. UNCHANGED <<mode, epoch>>
      BY <3>1 DEF mark_stage1_job_succeeded, mark_stage1_job_succeeded_no_output,
             mark_stage1_job_failed, EndJob, env
    <3>3. \A t \in Threads : output'[t] \in {output[t], NoMemory} \/ ~NoRollout(t)
      BY <1>0, <3>1 DEF mark_stage1_job_succeeded, mark_stage1_job_succeeded_no_output,
             mark_stage1_job_failed, db
    <3>4. QED
      BY <3>2, <3>3 DEF FirstStored, NoRollout
  <2>3. ASSUME NEW w \in Workers, \/ Phase2Step(w) \/ heartbeat_global_phase2_job(w)
                                  \/ crash(w) \/ try_claim_stage1_job(w)
        PROVE  UNCHANGED <<mode, epoch, output>>
    BY <2>3 DEF Phase2Step, try_claim_global_phase2_job, prepare_memory_workspace,
           get_phase2_input_selection, sync_phase2_workspace_inputs, memory_workspace_diff,
           agentCompletes, confirmOwnership, reset_memory_workspace_baseline,
           mark_global_phase2_job_succeeded, mark_global_phase2_job_failed,
           heartbeat_global_phase2_job, crash, try_claim_stage1_job, db, env
  <2>4. ASSUME NEW t \in Threads, mark_thread_memory_mode_polluted(t) \/ delete_thread(t)
        PROVE  FirstStored'
    <3>1. UNCHANGED <<epoch, output>>
      BY <2>4 DEF mark_thread_memory_mode_polluted, pollutedReads, pollutedUpdates,
             pollutedEnqueues, delete_thread, db
    <3>2. CASE UNCHANGED mode
      BY <3>1, <3>2 DEF FirstStored, NoRollout
    <3>3. CASE delete_thread(t)
      BY <1>0, <3>1, <3>3 DEF delete_thread, FirstStored, NoRollout
    <3>4. CASE pollutedUpdates(t)
      <4>1. \E m : mode' = [mode EXCEPT ![t] = m] /\ (NoRollout(t) => m \in {"dropping", mode[t]})
        BY <3>4 DEF pollutedUpdates, NoRollout
      <4>2. QED
        BY <1>0, <3>1, <4>1 DEF FirstStored, NoRollout
    <3>5. QED
      BY <2>4, <3>2, <3>3, <3>4 DEF mark_thread_memory_mode_polluted, pollutedReads,
             pollutedEnqueues
  <2>5. ASSUME NEW t \in Threads, delete_thread_memory(t)
        PROVE  FirstStored'
    <3>1. /\ \A u \in Threads \ {t} : epoch'[u] = epoch[u] /\ output'[u] = output[u]
          /\ output'[t] = NoMemory
      BY <1>0, <2>5 DEF delete_thread_memory
    <3>2. \A u \in Threads : NoRollout(u) => NoRollout(u)'
      BY <1>0, <2>5 DEF delete_thread_memory, NoRollout
    <3>3. NoRollout(t)' /\ DOMAIN mode' = Threads
      BY <1>0, <2>5 DEF delete_thread_memory, NoRollout
    <3>4. QED
      BY <3>1, <3>2, <3>3 DEF FirstStored
  <2>6. CASE \/ \E t \in Threads : \/ stage1LeaseExpires(t) \/ stage1BackoffElapses(t)
                                   \/ threadUpdated(t)
             \/ phase2LeaseExpires \/ phase2BackoffElapses
             \/ clear_memory_roots_contents \/ UNCHANGED vars
    <3>1. UNCHANGED <<mode, epoch, output>>
      BY <2>6 DEF stage1LeaseExpires, stage1BackoffElapses, threadUpdated, phase2LeaseExpires,
             phase2BackoffElapses, clear_memory_roots_contents, vars, db, env
    <3>2. QED
      BY <3>1 DEF FirstStored, NoRollout
  <2>7. CASE UNCHANGED <<mode, epoch, output>>
    BY <2>7 DEF FirstStored, NoRollout
  <2>8. QED
    BY <2>1, <2>2, <2>3, <2>4, <2>5, <2>6, <2>7 DEF Next
<1>2. FirstSelected'
  <2>1. CASE UNCHANGED sel
    BY <2>1 DEF FirstSelected
  <2>2. CASE \E w \in Workers : Off(w)
    BY <2>2 DEF FirstSelected, Off
  <2>3. CASE \E w \in Workers : get_phase2_input_selection(w)
    <3>1. PICK w \in Workers : \E S \in SUBSET Eligible :
              sel' = [sel EXCEPT ![w] = {<<t, output[t]>> : t \in S}]
      BY <2>3 DEF get_phase2_input_selection
    <3>2. \A t \in Eligible : t \in Threads /\ output[t] \in [v : Nat, e : {0}]
      <4>1. ASSUME NEW t \in Eligible PROVE output[t] \in [v : Nat, e : Nat] /\ output[t].e = 0
        BY DEF Eligible, FirstStored, JobInv, RowTypes, StoredIsLatest
      <4>2. QED
        BY <4>1 DEF Eligible
    <3>3. QED
      BY <3>1, <3>2 DEF FirstSelected
  <2>4. QED
    BY <2>1, <2>2, <2>3 DEF Next, Phase2Step, EndsJob, EndJob, start_memories_startup_task,
           rate_limited, try_claim_stage1_job, mark_stage1_job_succeeded,
           mark_stage1_job_succeeded_no_output, mark_stage1_job_failed,
           try_claim_global_phase2_job, prepare_memory_workspace, sync_phase2_workspace_inputs,
           memory_workspace_diff, agentCompletes, confirmOwnership,
           reset_memory_workspace_baseline, mark_global_phase2_job_succeeded,
           mark_global_phase2_job_failed, heartbeat_global_phase2_job, crash, stage1LeaseExpires,
           stage1BackoffElapses, threadUpdated, mark_thread_memory_mode_polluted, pollutedReads,
           pollutedUpdates, pollutedEnqueues, delete_thread_memory, delete_thread,
           phase2LeaseExpires, phase2BackoffElapses, clear_memory_roots_contents, local, vars
<1>3. QED
  BY <1>1, <1>2

\* mark_global_phase2_job_succeeded: while nobody resets the memories, and no
\* process sleeps past its lease but in the run of the agent or before the
\* heartbeat that follows it, a memory is marked as consolidated only when an
\* agent that completed has had it in its inputs, whichever runs crashed or
\* failed in between and whatever they left in the directory.  The mark is by
\* thread and version alone; that no version is extracted again after a
\* deletion is part of what is proved.
THEOREM ConsolidatedIsRead ==
    ASSUME Stalls \subseteq {"agent", "completed"}
    PROVE  Spec => []SelectedIsConsolidated
<1> DEFINE Inv == JobInv /\ resets \in Nat /\ (resets = 0 => BaseInv /\ FirstInv)
<1>1. Init => Inv
  BY InitJobs, InitBase, InitFirst DEF Init
<1>2. Inv /\ [Next]_vars => Inv'
  <2> SUFFICES ASSUME Inv, [Next]_vars PROVE Inv'
    OBVIOUS
  <2>1. JobInv'
    BY StepJobs
  <2>2. CASE clear_memory_data
    BY <2>1, <2>2 DEF clear_memory_data
  <2>3. CASE ~clear_memory_data
    <3>1. resets' = resets
      BY <2>3, ResetCounts
    <3>2. ASSUME resets = 0 PROVE BaseInv' /\ FirstInv'
      BY <2>3, <3>2, VersionIsMemory, StepBase, StepFirst
    <3>3. QED
      BY <2>1, <3>1, <3>2
  <2>4. QED
    BY <2>2, <2>3
<1>3. Inv => SelectedIsConsolidated
  BY DEF SelectedIsConsolidated, BaseInv, ReadBefore
<1>4. QED
  BY <1>1, <1>2, <1>3, PTL DEF Spec
=============================================================================
