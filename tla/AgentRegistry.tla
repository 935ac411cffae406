---------------------------- MODULE AgentRegistry ----------------------------
(***************************************************************************)
(* The registry that limits the sub-agents of a session                    *)
(* (codex-rs/core/src/agent/registry.rs) and the control plane that drives *)
(* it (agent/control.rs, agent/control/spawn.rs, agent/control/legacy.rs). *)
(*                                                                         *)
(* A caller is a spawn_agent or resume_agent tool call; several run at the *)
(* same time, and each is dropped at an await when its turn is aborted.  A *)
(* closer is a close_agent call, or the request that found an agent dead.  *)
(* The count is an atomic, the tree a mutex and the loaded threads another *)
(* lock, and no step takes two of them: each release is two steps.         *)
(*                                                                         *)
(* An agent without a path is filed under "thread:<id>", here the thread   *)
(* itself.                                                                 *)
(***************************************************************************)
EXTENDS Integers, FiniteSets

CONSTANTS
    Callers,     \* concurrent spawn_agent and resume_agent calls
    Closers,     \* concurrent shutdowns of an agent
    Threads,     \* thread ids, the root thread's included
    Root,        \* the root thread
    Paths,       \* agent paths other than the root's
    RootPath,
    NoPath,      \* agent_path: None
    NoThread,    \* agent_id: None, a path that is only reserved
    Vacant,      \* no entry in the tree
    MaxThreads,  \* max_threads, or NoLimit for None
    NoLimit,
    Resumable    \* whether resume_agent is offered (multi-agent v1)

ASSUME RegistryConstants ==
    /\ IsFiniteSet(Callers) /\ IsFiniteSet(Closers)
    /\ IsFiniteSet(Threads) /\ IsFiniteSet(Paths)
    /\ Root \in Threads
    /\ RootPath \notin Paths \cup Threads
    /\ Paths \cap Threads = {}
    /\ NoPath \notin Paths
    /\ NoThread \notin Threads /\ Vacant \notin Threads /\ NoThread # Vacant
    /\ NoLimit \notin Nat
    /\ MaxThreads \in Nat \cup {NoLimit}
    /\ Resumable \in BOOLEAN

Keys == Paths \cup Threads \cup {RootPath}

VARIABLES
    total_count,  \* AgentRegistry.total_count
    agent_tree,   \* ActiveAgents.agent_tree: the agent_id under each key
    threads,      \* the threads the ThreadManager has loaded
    born,         \* the threads that exist, loaded or stored
    call,         \* the callers: program counter, locals and reservation
    closing,      \* the thread each closer is about to release
    owing         \* the closers that removed an agent and not yet its slot

vars == <<total_count, agent_tree, threads, born, call, closing, owing>>

NoCall == [pc |-> "idle", path |-> NoPath, id |-> NoThread, current |-> 0]

Pcs == {"idle", "reserve", "cas", "slot", "create", "commit", "resumed", "drop"}

TypeOK ==
    /\ total_count \in Nat
    /\ agent_tree \in [Keys -> Threads \cup {NoThread, Vacant}]
    /\ threads \subseteq Threads /\ born \subseteq Threads
    /\ call \in [Callers -> [pc : Pcs, path : Paths \cup {NoPath},
                             id : Threads \cup {NoThread}, current : Nat]]
    /\ closing \in [Closers -> Threads \cup {NoThread}]
    /\ owing \subseteq Closers

\* register_session_root has filed the root thread.
Init ==
    /\ total_count = 0
    /\ agent_tree = [k \in Keys |-> IF k = RootPath THEN Root ELSE Vacant]
    /\ threads = {Root} /\ born = {Root}
    /\ call = [c \in Callers |-> NoCall]
    /\ closing = [k \in Closers |-> NoThread]
    /\ owing = {}

-----------------------------------------------------------------------------
(* A spawn or a resume, up to its reservation.                             *)

\* spawn_agent_internal begins for an agent with or without a path.
spawn_agent(c, p) ==
    /\ call[c].pc = "idle"
    /\ call' = [call EXCEPT ![c] = [NoCall EXCEPT !.pc = "reserve", !.path = p]]
    /\ UNCHANGED <<total_count, agent_tree, threads, born, closing, owing>>

\* resume_agent for a thread whose status is NotFound.
resume_agent(c, t) ==
    /\ Resumable
    /\ call[c].pc = "idle"
    /\ t \in born \ (threads \cup {Root})
    /\ call' = [call EXCEPT ![c] = [NoCall EXCEPT !.pc = "reserve", !.id = t]]
    /\ UNCHANGED <<total_count, agent_tree, threads, born, closing, owing>>

\* Mutant: the count is read once and then stored back, with no exchange.
try_increment_spawnedStale(c) ==
    /\ call[c].pc = "cas"
    /\ IF call[c].current >= MaxThreads
       THEN /\ call' = [call EXCEPT ![c] = NoCall]
            /\ UNCHANGED total_count
       ELSE /\ total_count' = call[c].current + 1
            /\ call' = [call EXCEPT ![c].pc = "slot"]
    /\ UNCHANGED <<agent_tree, threads, born, closing, owing>>

\* Mutant: one agent more than max_threads is let in.
try_increment_spawnedOffByOne(c) ==
    /\ call[c].pc = "cas"
    /\ \/ /\ call[c].current > MaxThreads
          /\ call' = [call EXCEPT ![c] = NoCall]
          /\ UNCHANGED total_count
       \/ /\ call[c].current <= MaxThreads
          /\ total_count = call[c].current
          /\ total_count' = total_count + 1
          /\ call' = [call EXCEPT ![c].pc = "slot"]
       \/ /\ call[c].current <= MaxThreads
          /\ total_count # call[c].current
          /\ call' = [call EXCEPT ![c].current = total_count]
          /\ UNCHANGED total_count
    /\ UNCHANGED <<agent_tree, threads, born, closing, owing>>

\* reserve_spawn_slot: count at once without a limit, else read the count.
reserve_spawn_slot(c) ==
    /\ call[c].pc = "reserve"
    /\ IF MaxThreads = NoLimit
       THEN /\ total_count' = total_count + 1
            /\ call' = [call EXCEPT ![c].pc = "slot"]
       ELSE /\ call' = [call EXCEPT ![c].pc = "cas", ![c].current = total_count]
            /\ UNCHANGED total_count
    /\ UNCHANGED <<agent_tree, threads, born, closing, owing>>

\* One round of the compare-exchange loop: refuse at the limit, count, or
\* try again with the count another caller left.
try_increment_spawned(c) ==
    /\ call[c].pc = "cas"
    /\ \/ /\ call[c].current >= MaxThreads
          /\ call' = [call EXCEPT ![c] = NoCall]
          /\ UNCHANGED total_count
       \/ /\ call[c].current < MaxThreads
          /\ total_count = call[c].current
          /\ total_count' = total_count + 1
          /\ call' = [call EXCEPT ![c].pc = "slot"]
       \/ /\ call[c].current < MaxThreads
          /\ total_count # call[c].current
          /\ call' = [call EXCEPT ![c].current = total_count]
          /\ UNCHANGED total_count
    /\ UNCHANGED <<agent_tree, threads, born, closing, owing>>

-----------------------------------------------------------------------------
(* SpawnReservation.                                                       *)

\* The callers that hold a reservation.
Holding == {c \in Callers : call[c].pc \in {"slot", "create", "commit", "resumed", "drop"}}

\* Mutant: the drop forgets the path the reservation has filed.
DropKeepsPath(c, tree) ==
    /\ agent_tree' = tree
    /\ call' = [call EXCEPT ![c].pc = "drop"]

\* Drop of a reservation that is not committed: first release_reserved_agent_path,
\* which removes a path it filed while that is only reserved.
Drop(c, tree) ==
    /\ agent_tree' =
          IF call[c].pc # "slot" /\ call[c].path # NoPath /\ tree[call[c].path] = NoThread
          THEN [tree EXCEPT ![call[c].path] = Vacant] ELSE tree
    /\ call' = [call EXCEPT ![c].pc = "drop"]

\* Then the slot is given back.
dropSlot(c) ==
    /\ call[c].pc = "drop"
    /\ total_count' = total_count - 1
    /\ call' = [call EXCEPT ![c] = NoCall]
    /\ UNCHANGED <<agent_tree, threads, born, closing, owing>>

\* register_root_thread, which prepare_thread_spawn calls at depth 1.
register_root_thread(root) ==
    IF root /\ agent_tree[RootPath] = Vacant
    THEN [agent_tree EXCEPT ![RootPath] = Root] ELSE agent_tree

\* prepare_thread_spawn: the agent's path is reserved in the tree; a path
\* that is taken fails the call.
prepare_thread_spawn(c) ==
    \E root \in BOOLEAN : LET tree == register_root_thread(root) IN
        /\ call[c].pc = "slot"
        /\ \/ /\ call[c].path = NoPath
              /\ agent_tree' = tree
              /\ call' = [call EXCEPT ![c].pc = "create"]
           \/ /\ call[c].path # NoPath
              /\ tree[call[c].path] = Vacant
              /\ agent_tree' = [tree EXCEPT ![call[c].path] = NoThread]
              /\ call' = [call EXCEPT ![c].pc = "create"]
           \/ /\ call[c].path # NoPath
              /\ tree[call[c].path] # Vacant
              /\ Drop(c, tree)
        /\ UNCHANGED <<total_count, threads, born, closing, owing>>

\* spawn_thread_with_source: a new thread, or the stored one, is loaded; a
\* resume that finds its thread running takes that one.
spawn_thread_with_source(c, t) ==
    /\ call[c].pc = "create"
    /\ IF call[c].id = NoThread THEN t \notin born ELSE t = call[c].id
    /\ threads' = threads \cup {t}
    /\ born' = born \cup {t}
    /\ call' = [call EXCEPT ![c].id = t,
                            ![c].pc = IF call[c].id = NoThread THEN "commit" ELSE "resumed"]
    /\ UNCHANGED <<total_count, agent_tree, closing, owing>>

\* The thread cannot be started, or the caller's turn is aborted at one of
\* the awaits: the reservation is dropped.  A resume has one more await after
\* its thread is loaded.
abandon(c) ==
    /\ call[c].pc \in {"slot", "create", "resumed"}
    /\ Drop(c, agent_tree)
    /\ UNCHANGED <<total_count, threads, born, closing, owing>>

\* commit and register_spawned_thread: the agent is filed under its path or
\* its thread id, over whatever is there.
commit(c) ==
    /\ call[c].pc \in {"commit", "resumed"}
    /\ LET key == IF call[c].path = NoPath THEN call[c].id ELSE call[c].path IN
          agent_tree' = [agent_tree EXCEPT ![key] = call[c].id]
    /\ call' = [call EXCEPT ![c] = NoCall]
    /\ UNCHANGED <<total_count, threads, born, closing, owing>>

-----------------------------------------------------------------------------
(* The end of an agent.                                                    *)

\* shutdown_live_agent, or a request answered by InternalAgentDied: the
\* thread is removed from the manager.
shutdown_live_agent(k, t) ==
    /\ closing[k] = NoThread /\ k \notin owing
    /\ t \in born
    /\ threads' = threads \ {t}
    /\ closing' = [closing EXCEPT ![k] = t]
    /\ UNCHANGED <<total_count, agent_tree, born, call, owing>>

\* Mutant: the slot is given back whether or not an entry is removed.
release_spawned_threadAlways(k) ==
    LET filed == {key \in Keys : agent_tree[key] = closing[k]} IN
    /\ closing[k] # NoThread
    /\ \/ /\ filed = {}
          /\ UNCHANGED agent_tree
       \/ \E key \in filed : agent_tree' = [agent_tree EXCEPT ![key] = Vacant]
    /\ owing' = owing \cup {k}
    /\ closing' = [closing EXCEPT ![k] = NoThread]
    /\ UNCHANGED <<total_count, threads, born, call>>

\* release_spawned_thread: under the lock one entry of the thread leaves the tree;
\* unless it is the root's, its slot is to be given back.
release_spawned_thread(k) ==
    LET filed == {key \in Keys : agent_tree[key] = closing[k]} IN
    /\ closing[k] # NoThread
    /\ \/ /\ filed = {}
          /\ UNCHANGED <<agent_tree, owing>>
       \/ \E key \in filed :
             /\ agent_tree' = [agent_tree EXCEPT ![key] = Vacant]
             /\ owing' = IF key = RootPath THEN owing ELSE owing \cup {k}
    /\ closing' = [closing EXCEPT ![k] = NoThread]
    /\ UNCHANGED <<total_count, threads, born, call>>

\* The lock is free again: the slot is given back.
releaseSlot(k) ==
    /\ k \in owing
    /\ total_count' = total_count - 1
    /\ owing' = owing \ {k}
    /\ UNCHANGED <<agent_tree, threads, born, call, closing>>

\* The app-server unloads an idle thread nobody follows, and a v2 spawn one
\* that is least recently used: the registry is not told.
unload(t) ==
    /\ t \in threads
    /\ threads' = threads \ {t}
    /\ UNCHANGED <<total_count, agent_tree, born, call, closing, owing>>

-----------------------------------------------------------------------------

Next ==
    \/ \E c \in Callers :
          \/ \E p \in Paths \cup {NoPath} : spawn_agent(c, p)
          \/ \E t \in Threads : resume_agent(c, t) \/ spawn_thread_with_source(c, t)
          \/ reserve_spawn_slot(c) \/ try_increment_spawned(c)
          \/ prepare_thread_spawn(c) \/ abandon(c) \/ commit(c)
          \/ dropSlot(c)
    \/ \E k \in Closers :
          \/ \E t \in Threads : shutdown_live_agent(k, t)
          \/ release_spawned_thread(k) \/ releaseSlot(k)
    \/ \E t \in Threads : unload(t)

Spec == Init /\ [][Next]_vars

-----------------------------------------------------------------------------
(* Properties.                                                             *)

\* The agents in the tree, the root aside.
Agents == {k \in Keys \ {RootPath} : agent_tree[k] \in Threads}

\* The slots that are taken: by an agent, by a reservation, and by an agent whose
\* release has taken it out of the tree and not yet given its slot back.
Taken == Cardinality(Agents) + Cardinality(Holding) + Cardinality(owing)

\* Every agent, every reservation and every release in progress has a slot of
\* its own: no two callers are given the same slot by a stale count, and no slot
\* is given back twice.
SlotsCovered == Taken <= total_count

\* "Maximum number of agent threads that can be open concurrently": agents
\* and spawns in progress never exceed max_threads, however the callers race.
LimitHolds ==
    MaxThreads # NoLimit =>
        /\ total_count <= MaxThreads
        /\ Cardinality(Agents) + Cardinality(Holding) <= MaxThreads

\* Agents count toward the limit until their release is complete, and no longer:
\* the count is what the tree, the reservations and the releases account for.
CountIsExact == total_count = Taken

\* A path is reserved in the tree exactly while one caller holds it: a failed
\* or aborted spawn leaves no path that can never be used again.
ReservedIsHeld ==
    \A p \in Paths :
        agent_tree[p] = NoThread <=>
            \E c \in Callers : call[c].pc \in {"create", "commit"} /\ call[c].path = p
=============================================================================
