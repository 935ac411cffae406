----------------------------- MODULE MemoryJobs -----------------------------
(***************************************************************************)
(* The memory pipeline that every root session runs when it starts, and    *)
(* the job rows of the memories database that keep the pipelines of        *)
(* several processes apart.                                                *)
(*                                                                         *)
(* Phase 1 scans the threads, claims a job row for each stale one, has a   *)
(* model extract a memory and stores it.  Phase 2 claims the one global    *)
(* row, writes the selected memories into the memory directory, lets an    *)
(* agent consolidate what differs from the directory's git baseline, and   *)
(* makes the result the new baseline.  A claim is a lease with a random    *)
(* ownership token; a process may crash or sleep while it holds one.       *)
(*                                                                         *)
(* One action is one database transaction or one operation on the          *)
(* directory.  Left out: usage counts (the ranking of the selection is     *)
(* nondeterministic), the watermarks of the global row (bookkeeping that   *)
(* nothing reads), its retry count (never consulted) and the notes the     *)
(* agent itself writes, which only make more runs differ from the baseline.*)
(***************************************************************************)
EXTENDS Naturals, FiniteSets

CONSTANTS
    Workers,      \* processes whose startup task runs the pipeline
    Threads,      \* threads that are not a worker's own
    MaxUpdated,   \* bound: the last value of threads.updated_at
    MaxClaimed,   \* max_rollouts_per_startup: claims per scan, running jobs
    Retries,      \* DEFAULT_RETRY_REMAINING
    MaxRaw,       \* max_raw_memories_for_consolidation
    MaxEvents,    \* bound: crashes, errors, sleeps, updates, deletions, resets
    Stalls        \* phase-2 steps a process may sleep in past its lease

ASSUME MemoryAssumption ==
    /\ MaxUpdated \in Nat \ {0} /\ MaxClaimed \in Nat \ {0}
    /\ Retries \in Nat \ {0} /\ MaxRaw \in Nat
    /\ MaxEvents \in Nat

VARIABLES
    updated,    \* threads.updated_at
    mode,       \* threads.memory_mode, and how far the thread's deletion is:
                \* "deleting" is still "enabled" there, "dropping" "polluted"
    polluting,  \* mark_thread_memory_mode_polluted: between its statements
    job,        \* the memory_stage1 rows
    output,     \* stage1_outputs: which memory of the thread is stored
    selected,   \* selected_for_phase2 and its source_updated_at
    global,     \* the memory_consolidate_global row
    files,      \* the inputs in the memory directory
    base,       \* the inputs in its git baseline
    repo,       \* whether .git is usable
    pc, items, claims, sel,   \* the local state of a worker
    clearing,   \* a reset has cleared the database and not yet the directory
    epoch, seen,                     \* history: resets and deletions of a
                                     \* thread's memory; what agents have read
    resets, events                   \* resets and disturbances so far

db == <<job, output, selected, global>>
disk == <<files, base, repo>>
local == <<pc, items, claims, sel>>
env == <<updated, mode, polluting, clearing, epoch, resets>>
vars == <<db, disk, local, env, seen, events>>

-----------------------------------------------------------------------------
(* A stored memory is known by the version of the thread it was made from, *)
(* which is all that the code compares, and by the epoch of the thread's   *)
(* memory in which its job was claimed, which tells two extractions of one *)
(* version apart.                                                          *)
NoMemory == [v |-> 0, e |-> 0]
Memory == [v : 1..MaxUpdated, e : 0..MaxEvents]

(* The ownership token is a fresh Uuid for every claim.  A run of the      *)
(* startup task claims a row at most once, and what it held is forgotten   *)
(* when it ends, so the worker's name tells the claims of a row apart.     *)
Tokens == Workers \cup {"none"}

Row == [status : {"absent", "pending", "running", "done", "error"},
        token : Tokens, live : BOOLEAN, backoff : BOOLEAN,
        retry : 0..Retries, input : 0..MaxUpdated, success : 0..MaxUpdated]

NoRow == [status |-> "absent", token |-> "none", live |-> FALSE,
          backoff |-> FALSE, retry |-> 0, input |-> 0, success |-> 0]

NoGlobal == [status |-> "absent", token |-> "none", live |-> FALSE,
             backoff |-> FALSE, cool |-> FALSE]

Claim == [t : Threads, v : 1..MaxUpdated, e : 0..MaxEvents]

Owned(w, c) == job[c.t].status = "running" /\ job[c.t].token = w

(* Where a worker that has claimed the global row can be.                  *)
Phase2 == {"claimed", "prepared", "loaded", "synced", "agent", "completed",
           "confirmed", "finishing"}

OwnsGlobal(w) ==
    global.status = "running" /\ global.token = w /\ pc[w] \in Phase2

(* enabled_thread_metadata and the filter of the scan: the thread's row is *)
(* deleted last, after its memory.                                         *)
Enabled(t) == mode[t] \in {"enabled", "deleting"}

(* thread_delete_response_inner removes the rollout file first, then the   *)
(* memory: a job that was claimed later cannot load what it is to extract. *)
NoRollout(t) == mode[t] \in {"deleting", "dropping", "gone"}

Off(w) ==
    /\ pc' = [pc EXCEPT ![w] = "off"]
    /\ items' = [items EXCEPT ![w] = {}]
    /\ claims' = [claims EXCEPT ![w] = {}]
    /\ sel' = [sel EXCEPT ![w] = {}]

Init ==
    /\ updated = [t \in Threads |-> 1]
    /\ mode = [t \in Threads |-> "enabled"]
    /\ polluting = [t \in Threads |-> "no"]
    /\ job = [t \in Threads |-> NoRow]
    /\ output = [t \in Threads |-> NoMemory]
    /\ selected = [t \in Threads |-> NoMemory]
    /\ global = NoGlobal
    /\ files = {} /\ base = {} /\ repo = FALSE
    /\ pc = [w \in Workers |-> "off"]
    /\ items = [w \in Workers |-> {}]
    /\ claims = [w \in Workers |-> {}]
    /\ sel = [w \in Workers |-> {}]
    /\ clearing = FALSE
    /\ epoch = [t \in Threads |-> 0]
    /\ seen = {} /\ events = 0 /\ resets = 0

(* Something that disturbs the pipelines.                                  *)
Event == events < MaxEvents /\ events' = events + 1

-----------------------------------------------------------------------------
(* Phase 1.                                                                *)

(* enqueue_global_consolidation_with_executor: a running job keeps         *)
(* running, any other becomes pending and loses its backoff.               *)
Enqueued ==
    IF global.status = "running" THEN global
    ELSE [global EXCEPT !.status = "pending", !.backoff = FALSE]

(* A memory that is too old and not part of the last baseline is pruned;   *)
(* the row of its job and the watermark there stay.                        *)
prune_stage1_outputs_for_retention ==
    \E old \in SUBSET {t \in Threads : selected[t] = NoMemory} :
        output' = [t \in Threads |-> IF t \in old THEN NoMemory ELSE output[t]]

(* The startup task prunes and scans the threads.  The age window of the   *)
(* scan is left out: a thread is updated when it enters it.                *)
start_memories_startup_task(w) ==
    /\ pc[w] = "off"
    /\ prune_stage1_outputs_for_retention
    /\ LET found == {[t |-> t, v |-> updated[t]] :
                        t \in {u \in Threads : Enabled(u)}}
       IN /\ items' = [items EXCEPT ![w] = found]
          /\ pc' = [pc EXCEPT ![w] = IF found = {} THEN "run" ELSE "scan"]
    /\ UNCHANGED <<job, selected, global, disk, claims, sel, env, seen, events>>

(* A startup task that finds the rate limit near only prunes.              *)
rate_limited(w) ==
    /\ pc[w] = "off"
    /\ prune_stage1_outputs_for_retention
    /\ UNCHANGED <<job, selected, global, disk, local, env, seen, events>>

Live(t) == job[t].status = "running" /\ job[t].live

UpToDate(t, v) == output[t].v >= v \/ job[t].success >= v

(* Mutant: a lease that ran out does not make a running job claimable.     *)
ClaimableOnce(t, v) ==
    /\ ~UpToDate(t, v)
    /\ Cardinality({u \in Threads \ {t} : Live(u)}) < MaxClaimed
    /\ \/ job[t].status = "absent"
       \/ /\ job[t].status # "running"
          /\ ~job[t].backoff \/ v > job[t].input
          /\ job[t].retry > 0 \/ v > job[t].input

(* The conditions of the upsert in try_claim_stage1_job.                   *)
Claimable(t, v) ==
    /\ ~UpToDate(t, v)
    /\ Cardinality({u \in Threads \ {t} : Live(u)}) < MaxClaimed
    /\ \/ job[t].status = "absent"
       \/ /\ ~Live(t)
          /\ ~job[t].backoff \/ v > job[t].input
          /\ job[t].retry > 0 \/ v > job[t].input

(* The next thread of the scan, by updated_at DESC, is claimed or skipped. *)
try_claim_stage1_job(w) ==
    /\ pc[w] = "scan"
    /\ \E i \in items[w] :
         /\ \A x \in items[w] : x.v <= i.v
         /\ \/ /\ Claimable(i.t, i.v)
               /\ job' = [job EXCEPT ![i.t] =
                    [status |-> "running", token |-> w, live |-> TRUE,
                     backoff |-> FALSE,
                     retry |-> IF @.status = "absent" \/ i.v > @.input
                               THEN Retries ELSE @.retry,
                     input |-> i.v, success |-> @.success]]
               /\ claims' = [claims EXCEPT ![w] = @ \cup
                    {[t |-> i.t, v |-> i.v, e |-> epoch[i.t]]}]
            \/ ~Claimable(i.t, i.v) /\ UNCHANGED <<job, claims>>
         /\ LET left == IF Cardinality(claims'[w]) >= MaxClaimed
                        THEN {} ELSE items[w] \ {i}
            IN /\ items' = [items EXCEPT ![w] = left]
               /\ pc' = [pc EXCEPT ![w] = IF left = {} THEN "run" ELSE "scan"]
    /\ UNCHANGED <<output, selected, global, disk, sel, env, seen, events>>

EndJob(w, c) ==
    /\ pc[w] = "run"
    /\ c \in claims[w]
    /\ claims' = [claims EXCEPT ![w] = @ \ {c}]
    /\ UNCHANGED <<disk, pc, items, sel, env, seen, events>>

Done(row) ==
    [row EXCEPT !.status = "done", !.token = "none", !.live = FALSE,
                !.success = row.input]

Failed(row) ==
    [row EXCEPT !.status = "error", !.token = "none", !.live = FALSE,
                !.backoff = TRUE, !.retry = row.retry - 1]

(* Mutant: any running job of the thread is marked as done.                *)
mark_stage1_job_succeededAny(w, c) ==
    /\ EndJob(w, c)
    /\ \/ /\ job[c.t].status = "running"
          /\ job' = [job EXCEPT ![c.t] = Done(@)]
          /\ output' = [output EXCEPT ![c.t] =
               IF c.v >= @.v THEN [v |-> c.v, e |-> c.e] ELSE @]
          /\ global' = Enqueued
       \/ job[c.t].status # "running" /\ UNCHANGED <<job, output, global>>
    /\ UNCHANGED selected

(* The row is updated only for the running job with this token; without it *)
(* the extracted memory is thrown away.                                    *)
mark_stage1_job_succeeded(w, c) ==
    /\ EndJob(w, c)
    /\ \/ /\ Owned(w, c) /\ ~NoRollout(c.t)
          /\ job' = [job EXCEPT ![c.t] = Done(@)]
          /\ output' = [output EXCEPT ![c.t] =
               IF c.v >= @.v THEN [v |-> c.v, e |-> c.e] ELSE @]
          /\ global' = Enqueued
       \/ ~Owned(w, c) /\ UNCHANGED <<job, output, global>>
    /\ UNCHANGED selected

(* The model found nothing to remember.                                    *)
mark_stage1_job_succeeded_no_output(w, c) ==
    /\ EndJob(w, c)
    /\ \/ /\ Owned(w, c) /\ ~NoRollout(c.t)
          /\ job' = [job EXCEPT ![c.t] = Done(@)]
          /\ output' = [output EXCEPT ![c.t] = NoMemory]
          /\ selected' = [selected EXCEPT ![c.t] = NoMemory]
          /\ global' = IF output[c.t] = NoMemory THEN global ELSE Enqueued
       \/ ~Owned(w, c) /\ UNCHANGED db

mark_stage1_job_failed(w, c) ==
    /\ EndJob(w, c)
    /\ job' = IF ~Owned(w, c) THEN job
              ELSE [job EXCEPT ![c.t] = Failed(@)]
    /\ UNCHANGED <<output, selected, global>>

-----------------------------------------------------------------------------
(* Phase 2.                                                                *)

(* The global row is taken unless it is backing off, running under a live  *)
(* lease, or was finished without an error less than six hours ago.        *)
try_claim_global_phase2_job(w) ==
    /\ pc[w] = "run" /\ claims[w] = {}
    /\ \/ /\ global.backoff \/ global.cool
             \/ (global.status = "running" /\ global.live)
          /\ Off(w)
          /\ UNCHANGED db
       \/ /\ ~global.backoff /\ ~global.cool
          /\ ~(global.status = "running" /\ global.live)
          /\ global' = [status |-> "running", token |-> w, live |-> TRUE,
                        backoff |-> FALSE, cool |-> FALSE]
          /\ pc' = [pc EXCEPT ![w] = "claimed"]
          /\ UNCHANGED <<job, output, selected, items, claims, sel>>
    /\ UNCHANGED <<disk, env, seen, events>>

Goto(w, from, to) ==
    /\ pc[w] = from
    /\ pc' = [pc EXCEPT ![w] = to]
    /\ UNCHANGED <<items, claims>>

(* Mutant: every phase 2 begins with a fresh baseline.                     *)
prepare_memory_workspaceFresh(w) ==
    /\ Goto(w, "claimed", "prepared")
    /\ base' = files
    /\ repo' = TRUE
    /\ UNCHANGED <<db, files, sel, env, seen, events>>

(* A usable baseline is kept; a missing one is made from what is there.    *)
prepare_memory_workspace(w) ==
    /\ Goto(w, "claimed", "prepared")
    /\ base' = IF repo THEN base ELSE files
    /\ repo' = TRUE
    /\ UNCHANGED <<db, files, sel, env, seen, events>>

Eligible == {t \in Threads : output[t] # NoMemory /\ Enabled(t)}

(* The best MaxRaw of the stored memories that are young enough; a row     *)
(* that changes while it is read is skipped.                               *)
get_phase2_input_selection(w) ==
    /\ Goto(w, "prepared", "loaded")
    /\ \E S \in SUBSET Eligible :
         /\ Cardinality(S) <= MaxRaw
         /\ sel' = [sel EXCEPT ![w] = {<<t, output[t]>> : t \in S}]
    /\ UNCHANGED <<db, disk, env, seen, events>>

(* Mutant: inputs are added and replaced, those no longer selected stay.   *)
sync_phase2_workspace_inputsAdds(w) ==
    /\ Goto(w, "loaded", "synced")
    /\ files' = files \cup sel[w]
    /\ UNCHANGED <<db, base, repo, sel, env, seen, events>>

sync_phase2_workspace_inputs(w) ==
    /\ Goto(w, "loaded", "synced")
    /\ files' = sel[w]
    /\ UNCHANGED <<db, base, repo, sel, env, seen, events>>

(* Without a change there is nothing to consolidate: the job succeeds.     *)
memory_workspace_diff(w) ==
    /\ repo
    /\ Goto(w, "synced", IF files = base THEN "finishing" ELSE "agent")
    /\ UNCHANGED <<db, disk, sel, env, seen, events>>

Heartbeat(w) ==
    /\ OwnsGlobal(w)
    /\ global' = [global EXCEPT !.live = TRUE]

(* loop_agent: a heartbeat that finds the lock lost ends the run.          *)
heartbeat_global_phase2_job(w) ==
    /\ pc[w] = "agent"
    /\ \/ /\ Heartbeat(w)
          /\ UNCHANGED local
       \/ /\ ~OwnsGlobal(w)
          /\ Off(w)
          /\ UNCHANGED global
    /\ UNCHANGED <<job, output, selected, disk, env, seen, events>>

(* The agent ends with AgentStatus::Completed.                             *)
agentCompletes(w) ==
    /\ Goto(w, "agent", "completed")
    /\ seen' = seen \cup sel[w]
    /\ UNCHANGED <<db, disk, sel, env, events>>

(* "Do not reset the workspace baseline if we lost the lock."              *)
confirmOwnership(w) ==
    /\ \/ /\ Goto(w, "completed", "confirmed")
          /\ Heartbeat(w)
          /\ UNCHANGED sel
       \/ /\ pc[w] = "completed"
          /\ ~OwnsGlobal(w)
          /\ Off(w)
          /\ UNCHANGED global
    /\ UNCHANGED <<job, output, selected, disk, env, seen, events>>

reset_memory_workspace_baseline(w) ==
    /\ Goto(w, "confirmed", "finishing")
    /\ base' = files
    /\ repo' = TRUE
    /\ UNCHANGED <<db, files, sel, env, seen, events>>

(* WHERE thread_id = ? AND source_updated_at = ?                           *)
StillStored(w, t) == \E m \in Memory : <<t, m>> \in sel[w] /\ output[t].v = m.v

(* Exactly the selected snapshots that are still stored stay marked.       *)
mark_global_phase2_job_succeeded(w) ==
    /\ pc[w] = "finishing"
    /\ \/ /\ OwnsGlobal(w)
          /\ global' = [global EXCEPT !.status = "done", !.token = "none",
                                      !.live = FALSE, !.cool = TRUE]
          /\ selected' = [t \in Threads |->
               IF StillStored(w, t) THEN output[t] ELSE NoMemory]
       \/ ~OwnsGlobal(w) /\ UNCHANGED <<global, selected>>
    /\ Off(w)
    /\ UNCHANGED <<job, output, disk, env, seen, events>>

GlobalFailed(w) ==
    IF ~OwnsGlobal(w) THEN global
    ELSE [global EXCEPT !.status = "error", !.token = "none",
                        !.live = FALSE, !.backoff = TRUE]

(* What a worker that stops leaves behind: some of the old and of the new  *)
(* inputs, where it was writing them (one that is cut off counts as absent,*)
(* nobody takes it for a memory), and maybe no repository, where it was    *)
(* resetting the baseline.                                                 *)
LeftBehind(w) ==
    /\ files' \in IF pc[w] = "loaded" THEN SUBSET (files \cup sel[w]) ELSE {files}
    /\ repo' \in IF pc[w] = "confirmed" THEN {repo, FALSE} ELSE {repo}
    /\ UNCHANGED base

(* An error of a step, or an agent that fails.  A missing repository makes *)
(* the diff fail without a fault of its own.                               *)
mark_global_phase2_job_failed(w) ==
    /\ \/ /\ pc[w] \in Phase2 \ {"finishing"}
          /\ Event
          /\ LeftBehind(w)
       \/ /\ pc[w] = "synced" /\ ~repo
          /\ UNCHANGED <<disk, events>>
    /\ global' = GlobalFailed(w)
    /\ Off(w)
    /\ UNCHANGED <<job, output, selected, env, seen>>

-----------------------------------------------------------------------------
(* What happens around the pipelines.                                      *)

(* The process ends, or a write to the database fails: either leaves the   *)
(* claims as they are.                                                     *)
crash(w) ==
    /\ pc[w] # "off"
    /\ Event
    /\ LeftBehind(w)
    /\ Off(w)
    /\ UNCHANGED <<db, env, seen>>

(* The lease of a claim that no process works on any more runs out, and    *)
(* that of a process that is asleep, or slow in phase 1, too.              *)
stage1LeaseExpires(t) ==
    /\ Live(t)
    /\ job' = [job EXCEPT ![t] = [@ EXCEPT !.live = FALSE]]
    /\ IF \E w \in Workers : \E c \in claims[w] : c.t = t /\ Owned(w, c)
       THEN Event ELSE UNCHANGED events
    /\ UNCHANGED <<output, selected, global, disk, local, env, seen>>

phase2LeaseExpires ==
    /\ global.status = "running" /\ global.live
    /\ global' = [global EXCEPT !.live = FALSE]
    /\ \/ (\A w \in Workers : ~OwnsGlobal(w)) /\ UNCHANGED events
       \/ (\E w \in Workers : OwnsGlobal(w) /\ pc[w] \in Stalls) /\ Event
    /\ UNCHANGED <<job, output, selected, disk, local, env, seen>>

(* retry_at and the six-hour cooldown pass.                                *)
stage1BackoffElapses(t) ==
    /\ job[t].backoff
    /\ job' = [job EXCEPT ![t] = [@ EXCEPT !.backoff = FALSE]]
    /\ UNCHANGED <<output, selected, global, disk, local, env, seen, events>>

phase2BackoffElapses ==
    /\ global.backoff \/ global.cool
    /\ global' = [global EXCEPT !.backoff = FALSE, !.cool = FALSE]
    /\ UNCHANGED <<job, output, selected, disk, local, env, seen, events>>

threadUpdated(t) ==
    /\ mode[t] = "enabled"
    /\ Event
    /\ \E v \in 1..MaxUpdated :
         /\ v > updated[t]
         /\ updated' = [updated EXCEPT ![t] = v]
    /\ UNCHANGED <<db, disk, local, mode, polluting, clearing, epoch, resets, seen>>

(* mark_thread_memory_mode_polluted: SELECT selected_for_phase2, UPDATE    *)
(* threads in the other database, and enqueue by what was selected.  The   *)
(* process, or the call, may end after each of the three.                  *)
pollutedReads(t) ==
    /\ polluting[t] = "no"
    /\ Event
    /\ polluting' = [polluting EXCEPT ![t] =
         IF selected[t] = NoMemory THEN "unselected" ELSE "selected"]
    /\ UNCHANGED <<db, disk, local, updated, mode, clearing, epoch, resets, seen>>

pollutedUpdates(t) ==
    /\ polluting[t] \in {"unselected", "selected"}
    /\ mode' = [mode EXCEPT ![t] = CASE @ = "enabled" -> "polluted"
                                   [] @ = "deleting" -> "dropping"
                                   [] OTHER -> @]
    /\ polluting' = [polluting EXCEPT ![t] =
         IF @ = "selected" THEN "updated" ELSE "no"]
    /\ UNCHANGED <<db, disk, local, updated, clearing, epoch, resets, seen, events>>

pollutedEnqueues(t) ==
    /\ polluting[t] = "updated"
    /\ polluting' = [polluting EXCEPT ![t] = "no"]
    /\ global' = Enqueued
    /\ UNCHANGED <<job, output, selected, disk, local, updated, mode, clearing,
                   epoch, resets, seen, events>>

mark_thread_memory_mode_polluted(t) ==
    pollutedReads(t) \/ pollutedUpdates(t) \/ pollutedEnqueues(t)

(* delete_threads_strict deletes the memory first, the thread's row last.  *)
delete_thread_memory(t) ==
    /\ mode[t] \in {"enabled", "polluted"}
    /\ Event
    /\ mode' = [mode EXCEPT ![t] = IF @ = "enabled" THEN "deleting" ELSE "dropping"]
    /\ job' = [job EXCEPT ![t] = NoRow]
    /\ output' = [output EXCEPT ![t] = NoMemory]
    /\ selected' = [selected EXCEPT ![t] = NoMemory]
    /\ global' = IF selected[t] = NoMemory THEN global ELSE Enqueued
    /\ epoch' = [epoch EXCEPT ![t] = @ + 1]
    /\ UNCHANGED <<disk, local, updated, polluting, clearing, resets, seen>>

delete_thread(t) ==
    /\ mode[t] \in {"deleting", "dropping"}
    /\ mode' = [mode EXCEPT ![t] = "gone"]
    /\ UNCHANGED <<db, disk, local, updated, polluting, clearing, epoch, resets,
                   seen, events>>

(* memory_reset_response_inner: first the database, then the directory.    *)
clear_memory_data ==
    /\ ~clearing
    /\ Event
    /\ resets' = resets + 1
    /\ clearing' = TRUE
    /\ job' = [t \in Threads |-> NoRow]
    /\ output' = [t \in Threads |-> NoMemory]
    /\ selected' = [t \in Threads |-> NoMemory]
    /\ global' = NoGlobal
    /\ epoch' = [t \in Threads |-> epoch[t] + 1]
    /\ UNCHANGED <<disk, local, updated, mode, polluting, seen>>

clear_memory_roots_contents ==
    /\ clearing
    /\ clearing' = FALSE
    /\ files' = {} /\ base' = {} /\ repo' = FALSE
    /\ UNCHANGED <<db, local, updated, mode, polluting, epoch, resets, seen, events>>

-----------------------------------------------------------------------------
EndsJob(w) ==
    \E c \in claims[w] :
        \/ mark_stage1_job_succeeded(w, c)
        \/ mark_stage1_job_succeeded_no_output(w, c)
        \/ mark_stage1_job_failed(w, c)

Phase2Step(w) ==
    \/ try_claim_global_phase2_job(w)
    \/ prepare_memory_workspace(w)
    \/ get_phase2_input_selection(w)
    \/ sync_phase2_workspace_inputs(w)
    \/ memory_workspace_diff(w)
    \/ agentCompletes(w)
    \/ confirmOwnership(w)
    \/ reset_memory_workspace_baseline(w)
    \/ mark_global_phase2_job_succeeded(w)
    \/ mark_global_phase2_job_failed(w)

Next ==
    \/ \E w \in Workers :
         \/ start_memories_startup_task(w) \/ rate_limited(w)
         \/ try_claim_stage1_job(w)
         \/ EndsJob(w) \/ Phase2Step(w)
         \/ heartbeat_global_phase2_job(w) \/ crash(w)
    \/ \E t \in Threads :
         \/ stage1LeaseExpires(t) \/ stage1BackoffElapses(t)
         \/ threadUpdated(t)
         \/ mark_thread_memory_mode_polluted(t)
         \/ delete_thread_memory(t) \/ delete_thread(t)
    \/ phase2LeaseExpires \/ phase2BackoffElapses
    \/ clear_memory_data \/ clear_memory_roots_contents

Spec == Init /\ [][Next]_vars

(* Sessions keep being started, a startup task is polled to its end, time  *)
(* passes, and a reset that was begun is finished.                         *)
Fairness ==
    /\ \A w \in Workers :
         /\ WF_vars(start_memories_startup_task(w))
         /\ WF_vars(try_claim_stage1_job(w))
         /\ WF_vars(EndsJob(w))
         /\ WF_vars(Phase2Step(w))
    /\ \A t \in Threads :
         WF_vars(stage1LeaseExpires(t)) /\ WF_vars(stage1BackoffElapses(t))
    /\ WF_vars(phase2LeaseExpires) /\ WF_vars(phase2BackoffElapses)
    /\ WF_vars(clear_memory_roots_contents)

FairSpec == Spec /\ Fairness

-----------------------------------------------------------------------------
(* The types of the rows, of the directory and of the workers.             *)
TypeOK ==
    /\ updated \in [Threads -> 1..MaxUpdated]
    /\ mode \in [Threads -> {"enabled", "polluted", "deleting", "dropping", "gone"}]
    /\ polluting \in [Threads -> {"no", "unselected", "selected", "updated"}]
    /\ job \in [Threads -> Row]
    /\ output \in [Threads -> Memory \cup {NoMemory}]
    /\ selected \in [Threads -> Memory \cup {NoMemory}]
    /\ global \in [status : {"absent", "pending", "running", "done", "error"},
                   token : Tokens, live : BOOLEAN, backoff : BOOLEAN,
                   cool : BOOLEAN]
    /\ files \subseteq Threads \X Memory /\ base \subseteq Threads \X Memory
    /\ repo \in BOOLEAN /\ clearing \in BOOLEAN
    /\ \A w \in Workers :
         /\ items[w] \subseteq [t : Threads, v : 1..MaxUpdated]
         /\ claims[w] \subseteq Claim
         /\ sel[w] \subseteq Threads \X Memory

(* mark_stage1_job_succeeded: whatever processes sleep past their leases,  *)
(* crash, or finish late, a stored memory is the last success of its       *)
(* thread's job, and was claimed after the thread's memory was last reset  *)
(* or deleted: an extraction that was under way then never comes back.     *)
StoredIsLatest ==
    \A t \in Threads : output[t] # NoMemory =>
        /\ output[t].v = job[t].success
        /\ output[t].e = epoch[t]

(* mark_global_phase2_job_succeeded: a memory is marked as part of the     *)
(* consolidated baseline only after an agent that completed has had it in  *)
(* its inputs.  Phase 2 also succeeds when the directory does not differ   *)
(* from the baseline, so this rests on what every earlier run, crashed or  *)
(* failed ones too, has left in the directory and in the baseline.  (A     *)
(* reset takes the global row from under a running phase 2 and clears the  *)
(* directory without it, so nothing is claimed after one.)                 *)
SelectedIsConsolidated ==
    resets = 0 => \A t \in Threads : selected[t] # NoMemory => <<t, selected[t]>> \in seen

(* A thread that stays enabled is extracted up to its last update, or its  *)
(* retries are used up: claims of dead processes are taken over and        *)
(* backoffs end.                                                           *)
EventuallyCurrent ==
    \A t \in Threads : <>[](mode[t] = "enabled" =>
        /\ job[t].status # "absent"
        /\ job[t].success = updated[t] \/ job[t].retry = 0)

(* What came from a thread that was polluted or deleted leaves the         *)
(* baseline of the memory directory for good.                              *)
PollutedIsForgotten ==
    \A t \in Threads : <>[](mode[t] \in {"polluted", "dropping", "gone"} =>
        \A x \in base : x[1] # t)

=============================================================================
