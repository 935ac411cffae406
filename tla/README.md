# A TLA+ development of the codex-rs runtime

This directory holds TLA+ modules for the concurrent core of the repository's
Rust workspace (`src/codex-rs`), TLC configurations that check them on small
instances, and TLAPS proofs of the properties that matter most for every value
of the constants. Paths below are relative to `src/codex-rs`.

## The system

`codex-rs` is a coding agent. A client (terminal UI, IDE, script) talks JSON-RPC
to the **app server** (`app-server`), which keeps one **thread** per
conversation. A thread is a **session** (`core/src/session`): a submission loop
that receives ops one at a time and runs **turns**, each a tokio task that
alternates sampling the model and running tools. Turns may spawn **sub-agents**,
which are threads of their own, through the control plane in `core/src/agent`.
A tool's network access goes through a proxy that asks the session's **network
approval** service; a tool's process may run on a remote **exec-server**. What a
thread says is recorded in a **rollout** file, and the **memory pipeline** of
every starting process extracts memories from old threads into a database and a
directory that all processes share.

Within a process everything runs on one multi-threaded tokio runtime: what runs
concurrently are tasks, callbacks of extensions, and the callers of public
methods, and what they share are mutexes that are never held over a whole
operation. A future that is dropped stops at its await. Processes meet in files,
in SQLite and on connections.

### Inventory

| Part | State | Operations | How it interacts | What is hard |
|---|---|---|---|---|
| Request serialization (`app-server/src/request_serialization.rs`, `connection_rpc_gate.rs`, `connection_cleanup.rs`, `lib.rs`, `message_processor.rs`) | a queue per key, a drain task per key, an accepting flag and tokens per connection | dispatch, enqueue, drain, run, close, shut down | the processor loop dispatches, drain tasks run handlers, cleanup tasks drop what a connection owned | a drain task that exits while a request is queued; a close that races with queued handlers; a drain that times out; a handler that panics |
| Turn lifecycle (`core/src/tasks`, `core/src/session/{inject,input_queue,handlers,turn}.rs`, `core/src/state/turn.rs`) | the active turn and its task, pending input, mailbox and delivery phase, tasks | start, steer, inject, abort, replace, finish, reserve | submission loop, extensions and guardian call the same procedures; tasks finish on their own | one mutex locked many times in one procedure; a turn that finishes while it is aborted, steered or replaced |
| Sub-agent registry (`core/src/agent/registry.rs`, `control.rs`, `control/{spawn,legacy}.rs`, `core/src/thread_manager.rs`) | an atomic count, a tree of agents by path, the loaded threads | reserve, prepare, commit, drop, release, resume, unload | tool calls of several turns spawn, resume and close; the app server unloads behind the registry's back | lock-free counting, cancellation between reservation and commit, resume against unload |
| v2 residency and execution limiter (`core/src/agent/control/{residency,execution}.rs`) | an LRU list with pending slots; a count of running turns | reserve, evict, touch, commit; check, guard | spawn, message and interrupt tools load agents and evict idle ones; each agent's session has its own submission loop | eviction against a message; a candidate that is in nobody's list; check then act |
| Network approval (`core/src/tools/network_approval.rs`) | active calls and their outcomes, pending approvals per host, two session caches | register, finish; attribute, own or follow, ask, decide | the proxy asks, the user, a hook or the guardian answers, the turn holds the reply channel, the tool call is told of a denial | one owner among many requests; a follower that subscribes late; an owner that disappears |
| Rollout recorder (`rollout/src/recorder.rs`) | a channel, pending items, the file | record, persist, flush, shutdown; open, write, retry | session tasks send, one writer task writes | I/O errors in the middle of a batch; a crash; a barrier while the task stops |
| Rollout compression (`rollout/src/compression.rs`) | a plain and a compressed file | compress, materialize for append, open for reading | a background worker of any process, recorders and readers, through the file system only | an append between the worker's last look and its removal; a file under neither name |
| Exec-server sessions (`exec-server/src/server`, `local_process.rs`) | sessions with an attached or detached connection, processes, timers | attach, resume, detach, expire; start, write, terminate | connections come and go, timers expire detached sessions | an expiry that races with a resume; a write that is retried |
| Exec-server events and client recovery (`exec-server/src/{local_process,client,client_recovery,rpc}.rs`) | numbered events, a retained window, the client's ordered queue | emit, notify, read, publish; reconnect, recover, install, fail | server tasks notify after they unlock; the client's recovery task replaces the connection | reordering, loss, a window that moved on; a connection that dies while it is installed |
| Memory pipeline (`state/src/runtime/memories.rs`, `memories/write`) | job rows with leases and tokens, stored memories, a directory with a git baseline | claim, extract, store, fail; claim, select, sync, diff, consolidate, commit; delete, pollute, reset | processes through SQLite and the directory | lease expiry and a late finish; a crash between two of phase 2's steps; a change during consolidation |
| Unified exec, parallel tools, thread state and status, outgoing requests, code mode, compaction, remote control, file watcher, login, MCP, sandboxing, UI, configuration | see `PROJECT.json` | | | |

What makes each correct: requests that conflict do not overlap and keep their
order, and nothing outlives its connection; a session runs one task, a turn ends
once, accepted input is not lost and the session comes to rest; agents never
exceed their limits, and slots and paths come back; each host has one owner and
its followers get the owner's decision; the rollout is what was recorded, in
order, through errors, crashes and compression; a client sees the true events of
its process; a session belongs to one connection and survives its grace period;
a late worker overwrites nothing. `PROJECT.json` lists every component with its
status, and under `hazards` each thing that can go wrong, at its line, with the
properties that would catch it.

## The modules

Ten modules model code; each has an `MC` module with its TLC instance. One more
(`RolloutLog`) is an abstract specification, and eight hold proofs. The
mutants named in `PROJECT.json` stand just before the definition they change.

### RequestSerialization

| Model | Code |
|---|---|
| `hasQueue`, `queue`, `enqueue`, `drain`, `drainExit`, `joined` | `RequestSerializationQueues`: the map, `enqueue`, and `drain`'s loop (an iteration under the lock is one step; `join_all` is another) |
| `Key`, `from_scope`, `SharedRead` | the key and the access of a scope |
| `accepting`, `run`, `finish`, `NoTokens` | `ConnectionRpcGate`: flag, token taken under the flag's lock, `TaskTracker::wait` |
| `dispatch`, `ConnectionClosed`, `LoopEnds`, `LoopDrained`, `LoopForced` | the processor task in `lib.rs` and `dispatch_initialized_client_request` |
| `connection_closed`, `timedOut` | the cleanup task of a closed connection and its drain timeout |
| `start`, `processExit`, `sessions` | a handler that inserts a connection-owned session (`CommandExecManager::start`), as one instance of what cleanup has to remove |
| `panic` | a handler that panics: the task that polls it unwinds, for a queued request its drain task |

A drain task is named by the request whose enqueue spawned it. That makes "one
live drain task per key" something to prove and not a consequence of the
encoding. Handlers are abstract apart from inserting a session.

### TurnLifecycle

The module's step is the code between two awaits at which somebody else can get
in, and each step takes the `active_turn` lock at most once. The same procedures
run for three callers (`Actors`): the submission loop, an extension that calls
`try_start_turn_if_idle`, and the task the guardian spawns to interrupt a turn.

| Model | Code |
|---|---|
| `active`, `slot`, `pending`, `phase` | `Session.active_turn`, `ActiveTurn.task`, and `TurnState`, which is a separate object: `start_task` stores its task in whatever `ActiveTurn` it then finds |
| `user_input_or_turn`, `compact`, `interrupt`, `inter_agent_communication` | handlers of the submission loop (`interrupt` also stands for `Op::Shutdown`, after which the loop exits) |
| `steer_input`, `inject_no_new_turn`, `record_guardian_denial` | entries beside the loop |
| `abort_all_tasks`, `abort_turn_if_active`, `abortTask`, `reportAborted` | take the turn and cancel; wait for the task or 100 ms and abort it; report and clear |
| `maybe_start_turn_for_pending_work`, `reserveTurn`, `takePending`, `enterTurn`, `extendPending`, `start_task` | `maybe_start_turn_for_pending_work_with_sub_id` and `start_task`: get or insert the turn, extend its pending input under the turn state's own lock, store the task |
| `try_start_turn_if_idle`, `reserveIdle`, `recheckMail`, `confirmReserved`, `clear_reserved_idle_turn`, `extendReserved` | `session/inject.rs`: each check that fails is followed by the clearing of the reservation as a step of its own; a session that is in Plan mode by then fails the same way |
| `begin` to `returns` | `RegularTask::run` and `run_turn`; a compaction has the one step `compacting` |
| `leave`, `finishTake`, `finishInput`, `finishEvent`, `finishClear` | the end of the spawned future and `on_task_finished` |

The model's choices are the model's answer, hooks and compaction: any of them
may continue, stop or fail a turn. A `TurnState` name is reused once nothing
refers to it. `accepted`, `settled` and `log` are history: input that a caller
was told is taken, input that reached the conversation or was refused or
discarded with its turn, and the turn events sent to the client. A killed task
stops at once; in the code it stops at its next await, which does not add a
step that takes the lock. Mail is abstracted to a set, since no property is
about its order.

### AgentRegistry

| Model | Code |
|---|---|
| `total_count`, `agent_tree` | `AgentRegistry.total_count`, `ActiveAgents.agent_tree`; an agent without a path is filed under its thread |
| `reserve_spawn_slot`, `try_increment_spawned` | the reservation; one round of the compare-exchange loop is one step, with the count read earlier |
| `prepare_thread_spawn`, `register_root_thread` | `control.rs`, with `reserve_agent_path` |
| `spawn_thread_with_source`, `commit`, `abandon`, `Drop` | the thread is made or resumed, the reservation committed; or the call fails or is dropped at an await and `SpawnReservation::drop` runs |
| `shutdown_live_agent`, `release_spawned_thread` | the steps of a close, and of a request that finds an agent dead |
| `owing`, `dropSlot`, `releaseSlot` | `Drop` and `release_spawned_thread` change the tree under its lock and call `fetch_sub` after they have released it: `owing` has the callers and closers in between |
| `unload` | the app server's idle unload and v2 eviction, which remove the thread and not the entry |

`Resumable` tells multi-agent v1 (`resume_agent` is offered, no paths) from v2
(paths, no limit at the registry). The descendants that a resume or a close
walks are further calls of their own.

### AgentResidency

| Model | Code |
|---|---|
| `residents`, `pending_slots`, `try_reserve_pending_slot`, `commit_slot`, `release_pending_slot`, `touch_resident` | `V2ResidencyState` and the methods that lock it |
| `resident_count`, `begin_scan`, `pop_lru_candidate`, `is_unloadable`, `has_pending_mailbox_items`, `submit_shutdown`, `wait_terminated`, `remove_unloaded` | the awaits of `try_unload_one_resident`, one step each |
| `spawn_v2_agent`, `message_tool`, `interrupt_agent`, `ensure_v2_agent_loaded`, `touch_loaded_v2_residency`, `touch` | the tools and the load they begin with; `get_thread` and the touch that follows it are two steps |
| `find_resumed`, `finalize_thread_spawn`, `create_fails`, `loaded_by_other`, `commit_reservation` | the thread manager's map and the registry's metadata: a resume that finds a running session returns it, one that is closed is replaced, one that was inserted meanwhile is a duplicate |
| `ensure_execution_capacity_for_op`, `active`, `Guards` | the execution limiter: a check by the sender, a guard in the task |
| `send_op`, `submit`, `remove_dead`, `forget_dead`, `release_dead` | an op that reaches its session, or finds it dead: then the manager, the residents and the registry forget it one after the other |
| `submission_loop`, `Handled`, `channel_closed`, `on_task_finished`, `get_pending_input` | the agent's session, cut down to its queue, mailbox and turn (an abort, that of a shutdown too, starts a turn when trigger mail is waiting); TurnLifecycle has the rest |
| `drop_call` | the turn that made the tool call is aborted at an await |

An agent that is loaded twice is two sessions (incarnations) under one id. This
is where "by id" and "by handle" part.

### NetworkApproval

| Model | Code |
|---|---|
| `active`, `outcome`, `register_call`, `finish_call`, `record_call_outcome`, `SingleCall` | `NetworkApprovalCallState` and attribution |
| `pending`, `get_or_create_pending_approval` | `pending_host_approvals`; the entry is named by the request that made it |
| `subscribe`, `look`, `wait_for_decision` | `wait_for_decision`: the future is made, then the decision read, then awaited |
| `judge`, `askGuardian`, `request_command_approval`, `answer`, `endTurn` | the owner's ways to a decision; a turn that ends drops the reply channel, which is an abort |
| `Plans`, `Plan`, `act` | the locks the owner takes once it knows, in the order of the code for each decision, one per step |
| `recordBlocked` | the proxy's blocked-request observer |
| `drop` | the proxy drops the future of a client that is gone |

### RolloutLog, RolloutWriter

`RolloutLog` is what a recorder promises: what was recorded, a log that grows by
the next recorded item, barriers that are acknowledged only when what they cover
is in the log. `RolloutWriter` is the code:

| Model | Code |
|---|---|
| `queue`, `record_canonical_items`, `call`, `CanSend` | the bounded channel of `RolloutCmd` and its senders |
| `recv`, `reply`, `stop`, `gone` | the loop of `rollout_writer`, and what a sender meets when the task is gone |
| `ensure_writer_open`, `write_session_meta_if_needed`, `write_pending_items_once`, `sync` | the four stages of `write_pending_once`, each of which may fail; a line may be torn |
| `fail` | `write_pending_with_recovery`: reopen and try once more |
| `crash`, `resume` | the process dies; the thread is resumed from its file |

The refinement mapping (`Log == INSTANCE RolloutLog WITH ...`) takes the file's
lines as the log, and the lines, the unwritten meta, and as many of the last
items issued as are in the buffer and the channel, in that order, as what was
recorded (`Recorded`); a caller's barrier promises the number of those items
ahead of its command. `KeepsPromise`
is `Log!Spec`.

### RolloutCompression

Each file system call is a step: the worker's two looks, the temporary file, the
rename that does not replace, the removal; the appender's existence checks,
decompression, hard link and removal; the reader's search and open. A handle
keeps a removed file alive (`linked` says whose handle is still the file at the
path). Whoever runs may die at any step. Contents are sets of items.

### ExecSessions, ExecEvents

`ExecSessions` has the server's registry, several connections and one process per
session, without events: attach, resume, detach, timers, writes that are retried
under their id. `ExecEvents` has one client, one session and one process with all
its events: three server tasks that number events under a lock and send them
after it, connections that lose what they carry, the client's ordered publisher,
its recovery task and the start it may give up. The start is two steps of the
server's handler, since the process map is unlocked while the process is spawned;
the end of its connection may drop the handler in between.

| Model | Code |
|---|---|
| `initialize_new`, `initialize_resume`, `attach`, `expired_shutdown` | `SessionRegistry::attach` |
| `disconnect`, `detach`, `expire_if_detached`, `grace_ends` | the end of `run_connection`, and the timer each detached connection leaves |
| `exec_write`, `exec_write_sends`, `remember`, `write_returns` | `LocalProcess::exec_write` around its await, the client's retry |
| `stream_output`, `finish_output_stream`, `watch_exit`, `maybe_emit_closed`, `notify`, `remove_closed` | the tasks of a process; the `notify` step is after the unlock |
| `handle_server_notification`, `publish_ready`, `Publish` | the client's reader and `publish_ordered_event` |
| `reader_ends`, `wait_for_process_starts`, `resume_once`, `recover_processes*`, `Merge`, `recover_events`, `install_recovered_client`, `recovery_retries`, `fail` | `client_recovery.rs`; a reply with a gap has been merged into the pending events when the error is found |
| `exec`, `start_process`, `detach` | `LocalProcess::start_process`: a `Starting` entry under the lock, the spawn, and the `Running` entry under the lock again. A handler that is dropped before it stored the process leaves the `Starting` entry, and the process dies with its handle; `terminate` removes a `Starting` entry |
| `dead`, `notice` | the client's reader meets the end of a connection some time after it (`rpc.rs`); only from then on do calls on it fail |
| `start_process_returns`, `cleanup_calls`, `cleanup_returns`, `asked` | `start_process` and the cleanup of one that was given up; its terminate call belongs to the connection it was made on (`asked`), whichever one is installed meanwhile |

### MemoryJobs

| Model | Code |
|---|---|
| `job`, `try_claim_stage1_job`, `mark_stage1_job_*`, `Claimable` | the stage-1 rows: claim by upsert, finish by token |
| `global`, `try_claim_global_phase2_job`, `heartbeat_global_phase2_job`, `mark_global_phase2_job_*` | the global row |
| `prepare_memory_workspace`, `sync_phase2_workspace_inputs`, `memory_workspace_diff`, `agentCompletes`, `confirmOwnership`, `reset_memory_workspace_baseline` | phase 2, one operation on the directory or one transaction per step; an error or a crash while the inputs are written leaves some of the old and some of the new ones (`LeftBehind`) |
| `StillStored` | which memories the end of phase 2 marks: by thread and version, whatever happened to the thread's memory meanwhile |
| `delete_thread_memory`, `delete_thread`, `NoRollout` | the deletion of a thread: its rollout file, its memory, its row, in this order, so that nothing is extracted once the memory is deleted |
| `pollutedReads`, `pollutedUpdates`, `pollutedEnqueues` | the three statements of `mark_thread_memory_mode_polluted`, in two databases |
| `clear_memory_data`, `clear_memory_roots_contents` | a reset, first the database, then the directory |
| `crash`, `stage1LeaseExpires`, `phase2LeaseExpires`, `*BackoffElapses` | faults and the clock; a lease that expires under a live process is one that slept |

A claim is told from an earlier one by its worker, since a worker forgets its
claims when its run ends. `epoch` and `seen` are history: no guard reads them, and
the second component of a memory (`e`) is there for the properties only.

## The runs

| Run | Instance | Shows |
|---|---|---|
| `requests` | 2 connections; a writer and two shared readers of one key, a command of another connection, a reader that panics; 581k states | exclusion, FIFO per key, no stranded queue, final cleanup; queued requests are served, a graceful shutdown ends |
| `turns` | loop, extension and guardian, 2 tasks: input, trigger mail, compaction, interrupt, shutdown; an item of the extension, a denial, an injected item; 71k states | as long as only the loop starts and aborts turns: one task, one end per turn, no accepted input lost (nothing injected either), rest is idle, a turn that was seen to start is seen to end; with every caller: aborts are final, and nobody hangs in an abort, a reservation or a start |
| `slot_taken` | loop and extension, a user input and an item of the extension | expected to fail: the turn that `start_task` enters has another task in it, contrary to its `debug_assert!` (`core/src/tasks/mod.rs:357`, `:370`) |
| `registry` | 3 spawn or resume calls with a path, a close, limit 2; 2.2M states | the count never wraps, covers every agent, reservation and release in progress, respects the limit; paths come back |
| `network_approval` | 3 requests for one host, 2 calls in 2 environments, an observer, a turn that comes and goes; 173k states | one owner per host, caches that hold the last answer, a denial that reaches its call; every request is answered unless the one it follows was dropped |
| `rollout_writer` | 2 callers, 3 items, a channel of 2, any number of errors and crashes; 337k states | the writer implements `RolloutLog`; every barrier is answered |
| `rollout_compression` | 2 appenders, a reader, the worker, 2 items; 118k states | what the worker's last look covered stays visible; a reader finds the rollout |
| `exec_events` | 1 stream, 2 chunks of output, a window of 1, 2 connections; 535k states | published events are the true ones in order; an abandoned process is killed; the end is heard |
| `exec_sessions` | 3 connections, 1 session, 2 writes, 1 remembered id; 178k states | a holder keeps its session, the grace period is kept, a session left alone goes, a write arrives once |
| `agents_residency` | 2 callers, 3 agents, room for 1, 4 tool calls; 447k states | agents in memory stay within the capacity and the overlap of the calls; a loaded agent can be evicted; calls return |
| `memory_jobs` | 2 processes, 1 thread, 2 updates, 2 disturbances or a reset; 343k states | no late extraction is stored; nothing counts as consolidated that no agent has read; threads become current; polluted threads are forgotten |
| `agents_over_limit` | room for 1, 4 tool calls | expected to fail: two agents work at once, contrary to what every agent is told (`core/src/config/mod.rs:258`) |

### Disagreements between properties and code

Two runs show the code doing what a comment, an assertion or a text of its own
says it does not:

- `slot_taken` (`SlotIsFree`). `start_task` asserts twice that the turn it enters
  has no task, and holds the lock from neither check to the store. The loop, with
  a user input, finds no turn to abort and takes the pending input; the extension
  reserves the idle turn; the loop enters that turn; the extension rechecks, finds
  its reservation still without a task and puts its item in; the loop stores its
  task; the extension's `start_task` finds the user's task in the turn. A debug
  build panics there. A release build replaces the task, which is aborted with its
  handle and never sends an end event.
- `agents_over_limit` (`ActiveWithinLimit`). The limiter compares a counter when an
  op is sent; the counter grows when the op's task starts. Residency shares the
  capacity and mostly stands in the way of two ops passing one check: messages to
  two idle residents cannot, as there is room for one. An eviction opens the way. A
  spawn creates t1 and sends its task. Before that turn starts a second spawn
  passes the check, finds no room and pops t1 as its candidate, which it will put
  back since t1 has had no turn; until then neither the counter nor the queue shows
  t1, so a third spawn passes the check, gets a slot and sends its task too.

Other properties hold only under a restriction that the instance or the property
states. Each can be seen by lifting it:

- `AtMostOneTask`, `TurnEndsOnce`, `RestIsIdle`, `AcceptedIsKept` and
  `StartedTurnEnds` say nothing once an extension or the guardian has called
  (`Beside`). Without that exception all of them fail, the first three with three
  tasks: a finishing task takes another turn's task out of the active turn, or the
  slot is filled twice as above. `AbortIsFinal` does hold with all three callers.
- `AcceptedIsKept` also excepts behaviours with an injected item: items that are
  injected into a turn that has taken its last pending input vanish with it.
- `TriggerGetsTurn` fails with one trigger mail: a follow-up that arrives while a
  turn is ending starts no turn.
- `CountIsExact` fails with `Resumable = TRUE`: an agent that the app server has
  unloaded is resumed, filed over its own entry, and counted twice.
- `AckedIsReadable` (RolloutWriter) fails with one caller and two items: after a
  torn line the next one is appended to the fragment. It is in the file, and the
  barrier is answered, but it cannot be read back.
- `ConfirmedIsVisible` (RolloutCompression) fails with one appender and one item: a
  handle that was open before the worker's removal writes to the removed file.
  `CheckedIsKept` fails when an appender may create the plain file again
  (`Creates = {"a1"}`).
- `SelectedIsConsolidated` fails when a process may sleep past its lease between
  confirming its ownership and resetting the baseline (`"confirmed"` in `Stalls`).
- `RequestIsAnswered` excepts requests whose owner was dropped, `QueuedIsServed`
  and `NoStrandedQueue` keys whose handler panicked, `CleanupIsFinal` connections
  whose drain timed out, `ResidencyBounded` and `LoadedIsTracked` agents that a
  dropped tool call left behind (`lost`).

### Bounds

Sets of requests, connections, callers, tasks and items are given by the `.cfg`
files. They are small, but each interesting meeting needs only a few parties:
two conflicting requests and a batch of reads; one turn that ends, one that
starts and one more caller; two callers for one slot and a third that sees their
result; an owner, a follower and a request that comes after them; a connection
that ends, one that resumes and one that resumes again; a worker that is late and
one that took over. Where an instance was cut to the size of a run, a larger one
was checked besides:

| Run | Larger instance, same properties unless said otherwise |
|---|---|
| `turns` | the loop alone and 3 tasks, safety only: 944k states; all callers and 3 tasks, `AbortIsFinal` only: 20.6M |
| `exec_events` | 2 streams and one chunk, safety only: 548k; 3 connections and no output, safety only: 415k |
| `agents_residency` | 5 tool calls, safety only, with symmetry: 436k, in which a resume finds a closed session and replaces it; the same with room for 2: 647k, in which two calls load one agent |
| `memory_jobs` | 2 threads and one disturbance, safety only: 15.5M; resets together with another disturbance (without `ResetAlone`), safety only: 3.9M |

- `Room` in TurnLifecycle lets an op begin only while every op in progress can
  still start the one task it may start, so that the finite set of task names
  never blocks a step in the middle of a procedure. `TurnStates` is large enough
  for one object per reference. Every op is submitted at most once (`used`).
- `Bounds` in MCNetworkApproval keeps the third request, the second call and the
  observer from all being there at once. None of them arrives by fairness, so no
  liveness property is weakened.
- `MaxEvents` in MemoryJobs counts crashes, errors, sleeps, updates, deletions and
  resets. The constraint `ResetAlone` of MCMemoryJobs cuts behaviours with a reset
  to that one event; it is a constraint of the run, and the specification that the
  proofs are about has none; the liveness properties are checked within it.
- `Apart` in MCTurnLifecycle: with the other callers, or with an injected item, the
  loop gets mail and interrupts only, and the two do not come together. Nothing
  obliges a client to submit, so no liveness property is weakened.
- Symmetry (the callers of `registry`, the tool calls and agents of the larger
  residency instances) is used with invariants only.
- `MaxCalls`, `MaxItems`, `MaxAppends`, `MaxOutput`, `NConns`, `MaxWrites`,
  `MaxTries`, `ChannelCap`, `Retained`: numbers of calls, items, chunks,
  connections, writes, attempts, and the capacities of a channel and of a window;
  the code's capacities are larger, and small ones are reached sooner.
- Deadlock is checked for requests, turns, registry, network approval, compression
  and memory. The others may really come to an end: a bound is used up, a
  connection set is used up, or a writer has stopped.

### Fairness

Tokio polls every ready task, so weak fairness of each step of a task or caller.
Beyond that:

- Requests: handlers return; nothing is assumed of clients, processes or panics.
- Turns: strong fairness says that a model does not ask for more for ever, that
  pending input is drained in the end, and that the compaction before sampling
  does not fail every time: without the last one `RegularTask::run` may go round
  for ever (`tasks/regular.rs:84`, listed as a hazard).
- Network approval: a prompt is answered or its turn ends.
- Rollout: no file operation blocks for ever. Errors and crashes are unlimited.
- Exec events: tasks with a notification to send and the readers of connections
  run, so that the client hears of the end of a connection, and a recovery that
  does not end meets its deadline. It is not assumed that connections last, that
  requests are answered or that the process ends.
- Exec sessions: time passes and a due timer runs.
- Residency: calls and submission loops run; turns need not end.
- Memory: sessions keep being started, startup tasks are polled to their end,
  leases and backoffs run out, and a reset that was begun is finished.

### Fault models

Crash and restart: the rollout writer (any step, torn lines), the compression
worker and its appenders (any system call), the memory pipeline (any step). Lost
connections with everything they carry, and reordered notifications: exec events.
Retries of what was already done: writes, recovery reads, claims after a lease.
Dropped futures: tool calls, spawns, network requests, and exec handlers, that of
a start while the process is being spawned among them. Panics: request handlers.

## The proofs

All invariants and safety properties of the passing runs are theorems, and so is
the refinement. Hardly any of them is inductive as it stands; what follows is the
invariant each needs, and why.

**RequestSerializationProofs**, for any requests, connections, scopes and panics.
`Exclusion`: exclusion says nothing of who popped a request, so the invariant
goes through the drain tasks: a key has at most one live drain task, this key is
in the map, a queue holds requests of its own key only, a batch holds requests of
its task's key and two of them only if both are shared reads, and a popped
request which is not finished is in some batch. `NothingStranded`: a key in the
map has such a task. `InOrderOfArrival`: a queue lists its waiting requests in
the order of their arrival, and what a task has popped came before what is still
queued. `CleanedForGood`: a connection that is not open has a closed gate, and
behind a closed gate no token is taken.

**AgentProofs**, first AgentRegistry, for any finite sets of callers, closers,
threads and paths and any limit: the count never wraps (`NoUnderflow`), every
agent and reservation, and every release which has taken its entry out of the tree
and not yet given its slot back, has a slot of its own (`Covered`), and the limit
holds (`Limit`). The invariant is the covering itself, with the consistency of the
callers' program counters; each action changes the agents, the reservations and
the count by matching amounts, which is where the cardinality theorems are used.
For systems without `resume_agent` it goes on to prove that the count is exactly
the agents, the reservations and the releases in progress (`Exact`: in between it
is above the agents and reservations by the slots still owed, and by no more), and
that a path that is reserved is held by a spawn in progress. That needs `Filed`:
where a commit is going to file an agent there is none, because a reserved path
has one holder and a committed thread is new. With `resume_agent` the count is not
exact.

Then AgentResidency, for any finite sets of tool calls and agents and any
capacity, with calls that are dropped at any await: the agents in memory and the
slots promised exceed the capacity by at most one less than the number of calls,
not counting what dropped calls left behind (`ResidencyBoundedHolds`), and a
loaded agent is a resident or some call has it in hand, if only to take away the
address of one it found dead (`LoadedIsTrackedHolds`). The bound alone does not
survive a step, since it ignores what is about to come back to the queue without
asking for room. So `ResidencyInv` bounds, next to what was admitted, the victims
that calls have taken out and the agents in memory that calls are about to touch
(`CountedBounded`). It further says that the pending slots are the calls between a
reservation and its commit, that a call has a victim exactly while it evicts, that
nobody is in the queue twice, and that a loader of an agent which is not yet a
resident has really loaded it: a call with a slot may still find that somebody was
faster.

**ExecSessionsProofs**, for any connections and sessions. A connection keeps its
session until it ends (`HolderKeepsSession`), and a session is removed only
without a connection and after the grace period of its last detachment
(`GraceKept`, an action property). The first is inductive together with the types
of the registry, in which a connection busy with a process has a session, and the
fact that a session with a connection has no deadline: attach clears it, so a
timer of an earlier detachment finds nothing that is due. The second follows from
one look at the actions that remove a session. `WritesInOrder`: what the process
has read is in order and not ahead of the client, and the newest remembered id is
that of the last write, so that the one write a client may repeat is recognised.

**ExecEventsProofs**, for any streams, connections, amount of output and
retention. `PublishedIsLogHolds`: the client publishes a beginning of the log.
Everything on its way to the client tells of logged events: notifications and
retained chunks by their numbers, a reply to a read by describing a beginning of
the log, and so do the events that wait in the client for their turn. `Closed` is
the last event, as `open_streams` counts at least the streams that may still
write. This is what makes `recover_events` right when it puts the exit event, of
which a reply gives no number, where one is missing: every other event is known,
so it is the only one. `AbandonedIsKilledHolds`: a process whose start was given
up is killed, has exited or is never spawned, unless the client has failed. A
process that was spawned runs as long as neither its handler nor its session went,
and either one kills it (`SpawnFollows`); a terminate call is made only when the
start was answered or its connection is known to be at its end (`CallsFollow`).
Only the first connection ever carries the request that starts it, and a later one
is used for anything but `initialize` only after the session was detached from the
first (`ConnsFollow`); so a terminate call that is answered finds the process, or
finds that there will never be one (`Stopped`).

**NetworkApprovalProofs**, for any requests, hosts, calls and environments. The
table of pending approvals and the requests agree in both directions: who owns a
host is in the table, and who is in the table owns it or was dropped
(`OneOwner`). What an owner has left to do is a suffix of one of `Plans`; from
it follows what the caches will say, so they hold the last answer once it is
done (`CachesAgree`), and whether its denial is still to be recorded
(`DenialsRecorded`).

**RolloutProofs**, first RolloutWriter, for any callers, number of items and
channel capacity, through any errors, torn lines and crashes: RolloutWriter
implements RolloutLog (`Implements`). Under the refinement mapping the writer's
steps are steps of the log because the buffer and the channel hold the last items
issued, in order, so the line written next is the next item recorded; the meta
comes before every item; a caller that waits has one command, in the channel or
with the task, so that its promise is well defined; and a command answered with Ok
leaves nothing in memory. The lemmas count the items in a channel when a command
is added or taken.

Then RolloutCompression, for any appenders, readers and items. The
compression waits until a file has not changed for a week, which keeps the worker
and those who turn a rollout back apart: while the worker is at work nobody
decompresses, and a plain file that was just made is not removed. So whichever
file is about to go, the other holds what is kept (`HistoryKept`), and a reader
meets at most two changes of the representation, so that three attempts are
enough (`ReadersFind`, `MaxTries > 2`). Both assume that nobody creates the plain
file anew (`Creates = {}`); the first is false otherwise.

**MemoryJobsProofs**, for any processes, threads, updates and disturbances.
`LatestIsStored`: a row that a worker owns is in the version it claimed, a worker
claims a thread once in a run, and a running row is ahead of what is stored; a
late worker finds another token in the row. `ConsolidatedIsRead`: except while
its agent runs a worker of phase 2 holds a live lease, the directory belongs to
the owner of the global row, and what is in the baseline, or would be in the next
one, was read by an agent. The end of phase 2 marks memories by thread and version,
so it is also needed that no version is extracted twice (`FirstInv`): once the
memory of a thread was deleted its rollout is gone, and nothing of it is stored
again. This holds without resets and where a process may
sleep past its lease only while the agent runs or right after it
(`Stalls \subseteq {"agent", "completed"}`); it is false with `"confirmed"`.

**TurnLifecycleProofs**, for any tasks, ops, inputs and mails, with the submission
loop as the only caller (`Actors \subseteq {"loop"}`); with the others beside it
the invariants are false, see above. `TurnInvariant` says for every point of the
loop and of a task what is in the active turn: a task that has not begun to finish
is in the active turn, or it is cancelled and the loop waits for it; a task that
finishes holds a turn without a task, into which the loop puts none; an active
turn without a task belongs to a task that finishes or to a loop that is about to
give it one. `OneTask` and `IdleAtRest` follow. `OneEnd` and
`AbortedForGood` add what the events sent say of each task, `InputKept` where
accepted input is until it is settled; the last one also needs `Injected = {}`,
since an item that is injected into a turn which has taken its last input is lost.

The constants' assumptions are `ConstantsAssumption`, `RegistryConstants`,
`ResidencyConstants`, `SessionConstants`, `ExecConstants`, `ApprovalConstants`,
`RolloutConstants`, `CompressionConstants`, `MemoryAssumption`, `TurnConstants`
and `EnoughTurnStates` (there are more `TurnState` objects than callers and tasks
can refer to at a time, as the code's allocator provides); TLC evaluates them in
the runs of their modules. Every inductive invariant also holds in TLC on the
instance of its run.

Only model-checked: the liveness properties (`QueuedIsServed`, `LoopStops`,
`StartedTurnEnds`, `CallersReturn`, `RequestIsAnswered`, `BarrierIsAnswered`,
`EndIsHeard`, `DetachedGoes`, `CallReturns`, `EventuallyCurrent`,
`PollutedIsForgotten`), since fairness is out of the prover's reach.
`ActiveWithinLimit` and `SlotIsFree` are false, as their runs show.

## Not modelled

The wait on input-queue activity, agent nicknames and last task messages,
metrics, hooks' contents, elicitations; in the modules above what `PROJECT.json`
says of each component. Components that are listed as `not_modelled` are there
with their reason: most are I/O, rendering or data without a protocol; the
others are in the plan.

## Plan

Done are the ten modules and the abstract log, with proofs of all their safety
properties. Further components, in the order of what they would add: the unified
exec process store, thread status against unload, outgoing requests, the replay
of the remote-control transport.
