--------------------------- MODULE AgentResidency ---------------------------
(***************************************************************************)
(* Which multi-agent v2 sub-agents are kept in memory, and how many of     *)
(* them may work at once (codex-rs/core/src/agent/control/residency.rs,    *)
(* execution.rs, spawn.rs and control.rs), with the part of the thread     *)
(* manager and of the agents' sessions that they read and write.           *)
(*                                                                         *)
(* A caller is a tool call of some agent: spawn_agent, followup_task       *)
(* ("task"), send_message ("note") or interrupt_agent.  Callers run at the *)
(* same time and every await of one is a place where the others run, and   *)
(* where the call is dropped when the turn that made it is aborted.  The   *)
(* residents, the registry, the limiter and the manager's map each have a  *)
(* lock of their own and no step writes two of them.                       *)
(*                                                                         *)
(* An agent is loaded several times in its life.  Each load is a session   *)
(* of its own, here an incarnation: the manager maps the agent's thread id *)
(* to one of them, callers hold on to the one they fetched.                *)
(***************************************************************************)
EXTENDS Naturals, FiniteSets, SequencesExt

CONSTANTS
    ToolCalls,  \* tool calls that run at the same time
    SubAgents,  \* thread ids of the session's sub-agents
    None,       \* no thread
    Capacity,   \* effective_agent_max_threads: max_concurrent_threads - 1
    MaxQueue,   \* SUBMISSION_CHANNEL_CAPACITY
    MaxCalls    \* bound on the tool calls made

ASSUME ResidencyConstants ==
    /\ IsFiniteSet(ToolCalls) /\ ToolCalls # {} /\ IsFiniteSet(SubAgents) /\ None \notin SubAgents
    /\ Capacity \in Nat /\ MaxCalls \in Nat /\ MaxQueue \in Nat \ {0}

VARIABLES
    residents,      \* V2ResidencyState.residents, least recently used first
    pending_slots,  \* V2ResidencyState.pending_slots
    loaded,         \* ThreadManagerState.threads: the incarnation, 0 for none
    sess,           \* the sessions of every thread, by incarnation
    known,          \* the threads the registry has metadata for
    active,         \* AgentExecutionLimiter.active
    tool,           \* the tool calls: program counter and locals
    made,           \* how many tool calls were made
    lost            \* history: the agents a dropped call left out of residents

residency_vars == <<residents, pending_slots, loaded, sess, known, active, tool, made, lost>>

Kinds == {"spawn", "task", "note", "interrupt"}
Ops == {"task", "note", "interrupt", "shutdown"}
ToolPcs == {"idle", "capacity", "ensure", "touch", "retouch", "reserve", "scan", "pop",
            "look", "mail", "materialize", "wait", "remove", "create", "finalize", "created",
            "commit", "found", "failed", "unslot", "undo", "send", "submit", "died",
            "forget", "release"}

\* Where a call holds a slot.
SlotPcs == {"create", "finalize", "created", "commit", "found", "failed", "unslot", "undo"}

Session == [open : BOOLEAN, turn : BOOLEAN, ran : BOOLEAN,
            queue : Seq(Ops), mail : SUBSET {"task", "note"}]

NewSession == [open |-> TRUE, turn |-> FALSE, ran |-> FALSE, queue |-> <<>>, mail |-> {}]

NoTool == [pc |-> "idle", kind |-> "spawn", id |-> None, at |-> 0, slot |-> FALSE,
           scans |-> 0, victim |-> None, vat |-> 0]

Incarnations(t) == 1 .. Len(sess[t])

ResidencyTypeOK ==
    /\ residents \in Seq(SubAgents) /\ IsInjective(residents)
    /\ pending_slots \in Nat /\ active \in Nat
    /\ made \in 0 .. MaxCalls /\ known \subseteq SubAgents /\ lost \subseteq SubAgents
    /\ \A t \in SubAgents :
          sess[t] \in Seq(Session) /\ loaded[t] \in 0 .. Len(sess[t])
    /\ \A c \in ToolCalls :
          /\ tool[c].pc \in ToolPcs /\ tool[c].kind \in Kinds /\ tool[c].slot \in BOOLEAN
          /\ tool[c].id \in SubAgents \cup {None} /\ tool[c].victim \in SubAgents \cup {None}
          /\ tool[c].scans \in 0 .. Cardinality(SubAgents)
          /\ tool[c].slot => tool[c].pc \in SlotPcs

ResidencyInit ==
    /\ residents = <<>> /\ pending_slots = 0 /\ active = 0
    /\ loaded = [t \in SubAgents |-> 0]
    /\ sess = [t \in SubAgents |-> <<>>]
    /\ known = {} /\ lost = {} /\ made = 0
    /\ tool = [c \in ToolCalls |-> NoTool]

----------------------------------------------------------------------------
\* Helpers on one caller.

At(c, pc) == tool[c].pc = pc

Goto(c, pc) == tool' = [tool EXCEPT ![c].pc = pc]

Return(c) == tool' = [tool EXCEPT ![c] = NoTool]

\* touch_resident: to the young end of the queue.  The queue has a thread at
\* most once, so that what is retained is all but its first entry.
touch_resident(rs, t) == Append(RemoveFirst(rs, t), t)

SessionOf(t) == sess[t][loaded[t]]

\* The agent works on something: active_turn is taken, which happens between
\* the submission that starts a turn and the end of its task.
Busy(t) == SessionOf(t).turn

----------------------------------------------------------------------------
\* The tool calls begin.

Made == made < MaxCalls /\ made' = made + 1

\* spawn_agent: ensure_execution_capacity before anything is reserved.
spawn_v2_agent(c, t) ==
    /\ At(c, "idle") /\ Made /\ sess[t] = <<>> /\ t \notin known
    /\ \A d \in ToolCalls : tool[d].id # t
    /\ active < Capacity
    /\ tool' = [tool EXCEPT ![c] = [NoTool EXCEPT !.pc = "reserve", !.kind = "spawn", !.id = t]]
    /\ UNCHANGED <<residents, pending_slots, loaded, sess, known, active, lost>>

\* followup_task and send_message: ensure_agent_known, then ensure_v2_agent_loaded.
message_tool(c, t, kind) ==
    /\ At(c, "idle") /\ Made /\ kind \in {"task", "note"} /\ t \in known
    /\ tool' = [tool EXCEPT ![c] = [NoTool EXCEPT !.pc = "ensure", !.kind = kind, !.id = t]]
    /\ UNCHANGED <<residents, pending_slots, loaded, sess, known, active, lost>>

\* interrupt_agent does not load the agent.
interrupt_agent(c, t) ==
    /\ At(c, "idle") /\ Made /\ t \in known
    /\ tool' = [tool EXCEPT ![c] = [NoTool EXCEPT !.pc = "send", !.kind = "interrupt", !.id = t]]
    /\ UNCHANGED <<residents, pending_slots, loaded, sess, known, active, lost>>

----------------------------------------------------------------------------
\* ensure_v2_agent_loaded

AfterLoad(c) == IF tool[c].kind = "task" THEN "capacity" ELSE "send"

\* get_thread; a stored thread of another version, or none, is an error.
ensure_v2_agent_loaded(c) ==
    /\ At(c, "ensure")
    /\ IF loaded[tool[c].id] # 0 THEN Goto(c, "touch")
       ELSE \/ /\ tool[c].id \in known
               /\ Goto(c, "reserve")
            \/ Return(c)
    /\ UNCHANGED <<residents, pending_slots, loaded, sess, known, active, made, lost>>

\* touch_loaded_v2_residency: get_thread, and if that finds the thread ...
touch_loaded_v2_residency(c) ==
    /\ At(c, "touch")
    /\ Goto(c, IF loaded[tool[c].id] # 0 THEN "retouch" ELSE AfterLoad(c))
    /\ UNCHANGED <<residents, pending_slots, loaded, sess, known, active, made, lost>>

\* ... it is touched, whether or not it is still there.
touch(c) ==
    /\ At(c, "retouch")
    /\ residents' = touch_resident(residents, tool[c].id)
    /\ Goto(c, AfterLoad(c))
    /\ UNCHANGED <<pending_slots, loaded, sess, known, active, made, lost>>

----------------------------------------------------------------------------
\* V2Residency::reserve_slot

\* Mutant: only the slots that are still pending count against the limit.
HasRoomPending == pending_slots < Capacity

HasRoom == Len(residents) + pending_slots < Capacity

try_reserve_pending_slot(c) ==
    /\ At(c, "reserve") /\ HasRoom
    /\ pending_slots' = pending_slots + 1
    /\ tool' = [tool EXCEPT ![c].pc = "create", ![c].slot = TRUE]
    /\ UNCHANGED <<residents, loaded, sess, known, active, made, lost>>

\* try_unload_one_resident: how many candidates this pass looks at.
resident_count(c) ==
    /\ At(c, "reserve") /\ ~HasRoom
    /\ Goto(c, "scan")
    /\ UNCHANGED <<residents, pending_slots, loaded, sess, known, active, made, lost>>

begin_scan(c) ==
    /\ At(c, "scan")
    /\ tool' = [tool EXCEPT ![c].pc = "pop", ![c].scans = Len(residents)]
    /\ UNCHANGED <<residents, pending_slots, loaded, sess, known, active, made, lost>>

\* The thread a load is for is never its victim; a spawn protects none.
Protected(c) == IF tool[c].kind = "spawn" THEN None ELSE tool[c].id

\* pop_lru_candidate: protected entries met on the way go to the young end.
Oldest(rs, p) == SelectInSeq(rs, LAMBDA t : t # p)

\* Mutant: the pass is not limited to the residents it started with.
pop_lru_candidateForever(c) ==
    /\ At(c, "pop")
    /\ LET k == Oldest(residents, Protected(c)) IN
       IF k = 0
       THEN /\ Return(c)
            /\ UNCHANGED residents
       ELSE /\ residents' = SubSeq(residents, k + 1, Len(residents)) \o SubSeq(residents, 1, k - 1)
            /\ tool' = [tool EXCEPT ![c].pc = "look", ![c].victim = residents[k]]
    /\ UNCHANGED <<pending_slots, loaded, sess, known, active, made, lost>>

pop_lru_candidate(c) ==
    /\ At(c, "pop")
    /\ LET k == Oldest(residents, Protected(c)) IN
       IF tool[c].scans = 0 \/ k = 0
       THEN \* AgentLimitReached
            /\ Return(c)
            /\ UNCHANGED residents
       ELSE /\ residents' = SubSeq(residents, k + 1, Len(residents)) \o SubSeq(residents, 1, k - 1)
            /\ tool' = [tool EXCEPT ![c].pc = "look", ![c].victim = residents[k],
                                    ![c].scans = @ - 1]
    /\ UNCHANGED <<pending_slots, loaded, sess, known, active, made, lost>>

Reload(c, pc) == [tool EXCEPT ![c].pc = pc, ![c].victim = None, ![c].vat = 0]

\* Mutant: a candidate that is at work is not put back.
is_unloadableDrops(c) ==
    /\ At(c, "look")
    /\ LET t == tool[c].victim IN
       IF loaded[t] # 0 /\ SessionOf(t).ran /\ ~SessionOf(t).turn
       THEN tool' = [tool EXCEPT ![c].pc = "mail", ![c].vat = loaded[t]]
       ELSE tool' = Reload(c, "pop")
    /\ UNCHANGED <<residents, pending_slots, loaded, sess, known, active, made, lost>>

\* get_thread and the first two reads of is_unloadable: its last turn is over
\* and it has none.  An incarnation that has not had a turn yet is
\* PendingInit, and is kept.
is_unloadable(c) ==
    /\ At(c, "look")
    /\ LET t == tool[c].victim IN
       IF loaded[t] = 0
       THEN /\ tool' = Reload(c, "pop")
            /\ UNCHANGED residents
       ELSE IF SessionOf(t).ran /\ ~SessionOf(t).turn
       THEN /\ tool' = [tool EXCEPT ![c].pc = "mail", ![c].vat = loaded[t]]
            /\ UNCHANGED residents
       ELSE /\ residents' = touch_resident(residents, t)
            /\ tool' = Reload(c, "pop")
    /\ UNCHANGED <<pending_slots, loaded, sess, known, active, made, lost>>

\* has_pending_mailbox_items, the last read of is_unloadable.
has_pending_mailbox_items(c) ==
    /\ At(c, "mail")
    /\ LET t == tool[c].victim IN
       IF sess[t][tool[c].vat].mail = {}
       THEN /\ Goto(c, "materialize")
            /\ UNCHANGED residents
       ELSE /\ residents' = touch_resident(residents, t)
            /\ tool' = Reload(c, "pop")
    /\ UNCHANGED <<pending_slots, loaded, sess, known, active, made, lost>>

\* ensure_rollout_materialized, then shutdown_and_wait submits Op::Shutdown.
submit_shutdown(c) ==
    /\ At(c, "materialize")
    /\ LET t == tool[c].victim
           i == tool[c].vat IN
       IF sess[t][i].open
       THEN /\ Len(sess[t][i].queue) < MaxQueue
            /\ sess' = [sess EXCEPT ![t][i].queue = Append(@, "shutdown")]
       ELSE UNCHANGED sess
    /\ Goto(c, "wait")
    /\ UNCHANGED <<residents, pending_slots, loaded, known, active, made, lost>>

\* session_loop_termination.await
wait_terminated(c) ==
    /\ At(c, "wait") /\ ~sess[tool[c].victim][tool[c].vat].open
    /\ Goto(c, "remove")
    /\ UNCHANGED <<residents, pending_slots, loaded, sess, known, active, made, lost>>

\* remove_thread takes an id: whatever incarnation is there goes.
remove_unloaded(c) ==
    /\ At(c, "remove")
    /\ loaded' = [loaded EXCEPT ![tool[c].victim] = 0]
    /\ tool' = Reload(c, "reserve")
    /\ UNCHANGED <<residents, pending_slots, sess, known, active, made, lost>>

----------------------------------------------------------------------------
\* The slot is used, or given back when it is dropped.

\* spawn_thread_with_source: a reload that finds the thread running takes that
\* one, or fails if it writes another rollout; one whose loop has ended is
\* replaced.
find_resumed(c) ==
    /\ At(c, "create")
    /\ LET t == tool[c].id IN
       IF tool[c].kind # "spawn" /\ loaded[t] # 0
       THEN \/ /\ SessionOf(t).open
               /\ Goto(c, "found") \/ Goto(c, "failed")
               /\ UNCHANGED loaded
            \/ /\ ~SessionOf(t).open
               /\ Goto(c, "finalize")
               /\ loaded' = [loaded EXCEPT ![t] = 0]
       ELSE /\ Goto(c, "finalize")
            /\ UNCHANGED loaded
    /\ UNCHANGED <<residents, pending_slots, sess, known, active, made, lost>>

\* finalize_thread_spawn registers the session unless the id has been taken in
\* the meantime: then the new session is shut down and the reload fails.
finalize_thread_spawn(c) ==
    /\ At(c, "finalize")
    /\ LET t == tool[c].id IN
       IF loaded[t] = 0
       THEN /\ sess' = [sess EXCEPT ![t] = Append(@, NewSession)]
            /\ loaded' = [loaded EXCEPT ![t] = Len(sess[t]) + 1]
            /\ Goto(c, IF tool[c].kind = "spawn" THEN "created" ELSE "commit")
       ELSE /\ Goto(c, "failed")
            /\ UNCHANGED <<sess, loaded>>
    /\ UNCHANGED <<residents, pending_slots, known, active, made, lost>>

\* The session could not be started.
create_fails(c) ==
    /\ At(c, "finalize")
    /\ Goto(c, IF tool[c].kind = "spawn" THEN "undo" ELSE "failed")
    /\ UNCHANGED <<residents, pending_slots, loaded, sess, known, active, made, lost>>

\* SpawnReservation::commit files the agent before its slot is committed.
commit_reservation(c) ==
    /\ At(c, "created")
    /\ known' = known \cup {tool[c].id}
    /\ Goto(c, "commit")
    /\ UNCHANGED <<residents, pending_slots, loaded, sess, active, made, lost>>

commit_slot(c) ==
    /\ At(c, "commit") \/ At(c, "found")
    /\ pending_slots' = pending_slots - 1
    /\ residents' = touch_resident(residents, tool[c].id)
    /\ tool' = [tool EXCEPT ![c].slot = FALSE,
                            ![c].pc = IF tool[c].kind = "spawn" THEN "send" ELSE AfterLoad(c)]
    /\ UNCHANGED <<loaded, sess, known, active, made, lost>>

\* The reload failed: get_thread asks whether somebody else loaded the thread.
loaded_by_other(c) ==
    /\ At(c, "failed")
    /\ Goto(c, IF loaded[tool[c].id] # 0 THEN "unslot" ELSE "undo")
    /\ UNCHANGED <<residents, pending_slots, loaded, sess, known, active, made, lost>>

\* The slot is dropped; if somebody else did, their thread is touched instead.
release_pending_slot(c) ==
    /\ At(c, "unslot") \/ At(c, "undo")
    /\ pending_slots' = pending_slots - 1
    /\ IF At(c, "unslot")
       THEN tool' = [tool EXCEPT ![c].slot = FALSE, ![c].pc = "touch"]
       ELSE Return(c)
    /\ UNCHANGED <<residents, loaded, sess, known, active, made, lost>>

----------------------------------------------------------------------------
\* The message is sent.

\* ensure_execution_capacity_for_op: ThreadNotFound, or AgentLimitReached
\* unless the agent is at work already.
ensure_execution_capacity_for_op(c) ==
    /\ At(c, "capacity")
    /\ LET t == tool[c].id IN
       IF loaded[t] # 0 /\ (Busy(t) \/ active < Capacity)
       THEN Goto(c, "send")
       ELSE Return(c)
    /\ UNCHANGED <<residents, pending_slots, loaded, sess, known, active, made, lost>>

\* send_op: get_thread, then submit to the session that was found.
send_op(c) ==
    /\ At(c, "send")
    /\ IF loaded[tool[c].id] # 0
       THEN tool' = [tool EXCEPT ![c].pc = "submit", ![c].at = loaded[tool[c].id]]
       ELSE Return(c)
    /\ UNCHANGED <<residents, pending_slots, loaded, sess, known, active, made, lost>>

submit(c) ==
    /\ At(c, "submit")
    /\ LET t == tool[c].id
           i == tool[c].at
           op == IF tool[c].kind = "spawn" THEN "task" ELSE tool[c].kind IN
       IF sess[t][i].open
       THEN /\ Len(sess[t][i].queue) < MaxQueue
            /\ sess' = [sess EXCEPT ![t][i].queue = Append(@, op)]
            /\ Return(c)
       ELSE \* InternalAgentDied
            /\ Goto(c, "died")
            /\ UNCHANGED sess
    /\ UNCHANGED <<residents, pending_slots, loaded, known, active, made, lost>>

\* handle_thread_request_result: the agent is removed by its id ...
remove_dead(c) ==
    /\ At(c, "died")
    /\ loaded' = [loaded EXCEPT ![tool[c].id] = 0]
    /\ Goto(c, "forget")
    /\ UNCHANGED <<residents, pending_slots, sess, known, active, made, lost>>

\* ... forgotten (forget_v2_residency) ...
forget_dead(c) ==
    /\ At(c, "forget")
    /\ residents' = RemoveFirst(residents, tool[c].id)
    /\ Goto(c, "release")
    /\ UNCHANGED <<pending_slots, loaded, sess, known, active, made, lost>>

\* ... and taken out of the registry (release_spawned_thread).
release_dead(c) ==
    /\ At(c, "release")
    /\ known' = known \ {tool[c].id}
    /\ Return(c)
    /\ UNCHANGED <<residents, pending_slots, loaded, sess, active, made, lost>>

\* The caller's own turn is aborted and the call dropped at an await.  The
\* guard gives the slot back; a victim in its hands is not put back, and a
\* thread that is registered but not committed stays loaded.
drop_call(c) ==
    /\ tool[c].pc \in {"ensure", "touch", "look", "mail", "materialize", "wait",
                       "remove", "create", "finalize", "commit", "failed", "capacity",
                       "send", "submit", "died"}
    /\ At(c, "commit") => tool[c].kind # "spawn"
    /\ pending_slots' = IF tool[c].slot THEN pending_slots - 1 ELSE pending_slots
    /\ lost' = lost \cup
          (IF tool[c].victim # None THEN {tool[c].victim}
           ELSE IF At(c, "commit") THEN {tool[c].id} ELSE {})
    /\ Return(c)
    /\ UNCHANGED <<residents, loaded, sess, known, active, made>>

----------------------------------------------------------------------------
\* The agents' sessions.

\* start_task takes the execution guard; the mailbox goes into the turn.
StartTurn(s) == [s EXCEPT !.turn = TRUE, !.ran = FALSE, !.mail = {}]

\* The task is dropped and the guard with it.
EndTurn(s) == [s EXCEPT !.turn = FALSE, !.ran = TRUE]

\* A turn ends, finished or interrupted; trigger mail starts the next one.
Continue(s) == IF "task" \in s.mail THEN StartTurn(s) ELSE EndTurn(s)

\* What one submission does to the session.  A shutdown interrupts the turn
\* first, so that trigger mail starts one more, which outlives the loop.
Handled(s, op) ==
    CASE op = "task"      -> IF s.turn THEN [s EXCEPT !.mail = @ \cup {"task"}] ELSE StartTurn(s)
      [] op = "note"      -> [s EXCEPT !.mail = @ \cup {"note"}]
      [] op = "interrupt" -> IF s.turn THEN Continue(s) ELSE s
      [] op = "shutdown"  -> [(IF s.turn THEN Continue(s) ELSE s)
                                 EXCEPT !.open = FALSE, !.ran = FALSE, !.queue = <<>>]

Guards(s) == IF s.turn THEN 1 ELSE 0

Becomes(t, i, s) ==
    /\ sess' = [sess EXCEPT ![t][i] = s]
    /\ active' = active + Guards(s) - Guards(sess[t][i])

submission_loop(t, i) ==
    /\ sess[t][i].open /\ sess[t][i].queue # <<>>
    /\ LET s == [sess[t][i] EXCEPT !.queue = Tail(@)] IN
       Becomes(t, i, Handled(s, Head(sess[t][i].queue)))
    /\ UNCHANGED <<residents, pending_slots, loaded, known, tool, made, lost>>

\* Every submitter is gone: the loop ends and tears the session down.
channel_closed(t, i) ==
    /\ sess[t][i].open /\ sess[t][i].queue = <<>> /\ loaded[t] # i
    /\ \A c \in ToolCalls : /\ <<tool[c].id, tool[c].at>> # <<t, i>>
                          /\ <<tool[c].victim, tool[c].vat>> # <<t, i>>
    /\ Becomes(t, i, Handled(sess[t][i], "shutdown"))
    /\ UNCHANGED <<residents, pending_slots, loaded, known, tool, made, lost>>

on_task_finished(t, i) ==
    /\ sess[t][i].turn
    /\ Becomes(t, i, Continue(sess[t][i]))
    /\ UNCHANGED <<residents, pending_slots, loaded, known, tool, made, lost>>

\* The model's next request takes the mail that arrived during the turn.
get_pending_input(t, i) ==
    /\ sess[t][i].turn /\ sess[t][i].mail # {}
    /\ Becomes(t, i, [sess[t][i] EXCEPT !.mail = {}])
    /\ UNCHANGED <<residents, pending_slots, loaded, known, tool, made, lost>>

----------------------------------------------------------------------------

CallStep(c) ==
    \/ ensure_v2_agent_loaded(c) \/ touch_loaded_v2_residency(c) \/ touch(c)
    \/ try_reserve_pending_slot(c) \/ resident_count(c) \/ begin_scan(c)
    \/ pop_lru_candidate(c) \/ is_unloadable(c) \/ has_pending_mailbox_items(c)
    \/ submit_shutdown(c) \/ wait_terminated(c) \/ remove_unloaded(c)
    \/ find_resumed(c) \/ finalize_thread_spawn(c) \/ commit_reservation(c)
    \/ commit_slot(c) \/ loaded_by_other(c) \/ release_pending_slot(c)
    \/ ensure_execution_capacity_for_op(c) \/ send_op(c) \/ submit(c)
    \/ remove_dead(c) \/ forget_dead(c) \/ release_dead(c)

ResidencyNext ==
    \/ \E c \in ToolCalls : CallStep(c) \/ create_fails(c) \/ drop_call(c)
    \/ \E c \in ToolCalls, t \in SubAgents :
          \/ spawn_v2_agent(c, t) \/ interrupt_agent(c, t)
          \/ \E kind \in {"task", "note"} : message_tool(c, t, kind)
    \/ \E t \in SubAgents : \E i \in Incarnations(t) :
          \/ submission_loop(t, i) \/ channel_closed(t, i)
          \/ on_task_finished(t, i) \/ get_pending_input(t, i)

ResidencyFairness ==
    /\ \A c \in ToolCalls : WF_residency_vars(CallStep(c))
    /\ \A t \in SubAgents : \A i \in 1 .. MaxCalls :
          WF_residency_vars(i \in Incarnations(t) /\ submission_loop(t, i))

ResidencySpec == ResidencyInit /\ [][ResidencyNext]_residency_vars /\ ResidencyFairness

----------------------------------------------------------------------------
\* Properties

\* The agents that are resident or have been promised a slot.
Admitted == ToSet(residents) \cup {tool[c].id : c \in {d \in ToolCalls : tool[d].slot}}

\* reserve_slot keeps the agents in memory to the capacity.  It does so only
\* up to what overlaps: an evictor holds its candidate outside the queue and
\* puts it back without asking, so each other call may cost one agent above
\* the capacity, and so may each agent a dropped call let slip.
ResidencyBounded ==
    Cardinality(Admitted) <= Capacity + Cardinality(ToolCalls) - 1 + Cardinality(lost)

\* A loaded agent that can be addressed can also be evicted: it is resident, or
\* an evictor has it, or its loader is about to commit it, or the call that found
\* it dead is about to take its address away.  Only a dropped call can take it out
\* of everyone's sight.
LoadedIsTracked ==
    \A t \in known :
        loaded[t] # 0 =>
            \/ Contains(residents, t) \/ t \in lost
            \/ \E c \in ToolCalls : tool[c].victim = t
            \/ \E c \in ToolCalls : tool[c].id = t /\ (tool[c].slot \/ At(c, "release"))

\* A tool call returns: the search for a victim ends although candidates that
\* cannot be unloaded go back to the queue it searches, and the session whose
\* end it waits for does end.
CallReturns == \A c \in ToolCalls : tool[c].pc # "idle" ~> tool[c].pc = "idle"

\* What the agents are told: "up to {max_concurrency} agents can be active at
\* once, including you".  The capacity is checked when a message is sent and
\* used when its turn starts.
ActiveWithinLimit == active <= Capacity

=============================================================================
