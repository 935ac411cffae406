---------------------------- MODULE TurnLifecycle ----------------------------
(***************************************************************************)
(* The life of a turn in a session (codex-rs/core): how a task is started, *)
(* steered, aborted, replaced and finished around the one active_turn      *)
(* mutex, and how pending input and inter-agent mail reach it              *)
(* (tasks/mod.rs, tasks/regular.rs, session/inject.rs,                     *)
(* session/input_queue.rs, session/handlers.rs, session/turn.rs).          *)
(*                                                                         *)
(* Three kinds of callers run the same async procedures concurrently: the  *)
(* submission loop (one op at a time), an extension that starts automatic  *)
(* work, and the task the guardian spawns to interrupt a turn.  A step of  *)
(* a caller or of a task is the code between two awaits at which another   *)
(* one can get in; each takes the active_turn lock at most once.           *)
(*                                                                         *)
(* A TurnState (the Arc) and a task are different objects: start_task      *)
(* stores its task in whatever ActiveTurn it then finds.                   *)
(***************************************************************************)
EXTENDS Naturals, Sequences, FiniteSets

CONSTANTS
    Actors,       \* the concurrent callers, of "loop", "ext" and "guard"
    Tasks,        \* task identities; each is started at most once
    TurnStates,   \* TurnState identities; reused once nothing refers to them
    NoTask, NoTurn,
    UserInputs,   \* user input, for Op::UserInput or the direct steer call
    Mails,        \* inter-agent mail
    Triggers,     \* the mail with trigger_turn set
    Injected,     \* items given to inject_no_new_turn
    IdleItems,    \* items given to try_start_turn_if_idle
    Compacts,     \* Op::Compact submissions
    Interrupts,   \* Op::Interrupt submissions
    Denials,      \* guardian decisions to interrupt the turn
    MayShutdown   \* whether Op::Shutdown is submitted

ASSUME TurnConstants ==
    /\ Actors \subseteq {"loop", "ext", "guard"}
    /\ NoTask \notin Tasks
    /\ NoTurn \notin TurnStates
    /\ Triggers \subseteq Mails
    /\ MayShutdown \in BOOLEAN

\* Each caller and each task holds at most one TurnState: one is left over.
ASSUME EnoughTurnStates ==
    \A f \in [Actors -> TurnStates \cup {NoTurn}], g \in [Tasks -> TurnStates \cup {NoTurn}] :
        \E s \in TurnStates : (\A a \in Actors : f[a] # s) /\ (\A t \in Tasks : g[t] # s)

Items == UserInputs \cup Mails \cup Injected \cup IdleItems
Ops == Items \cup Compacts \cup Interrupts \cup Denials \cup {"Shutdown"}

VARIABLES
    active,    \* active_turn: a TurnState, or NoTurn
    slot,      \* ActiveTurn.task of each TurnState
    pending,   \* TurnState.pending_input
    phase,     \* TurnState.mailbox_delivery_phase
    mailbox,   \* InputQueue.mailbox_pending_mails
    task,      \* the tokio tasks
    act,       \* the callers: program counter and locals
    used,      \* ops already submitted
    accepted,  \* history: input some caller was told is taken
    settled,   \* history: input that reached the conversation, was refused
               \* by a hook, or was discarded with the turn it was given to
    log        \* history: turn events sent to the client

vars == <<active, slot, pending, phase, mailbox, task, act, used, accepted,
          settled, log>>

Idle == [pc |-> "idle", turn |-> NoTurn, task |-> NoTask, why |-> "Replaced",
         items |-> {}, input |-> {}, kind |-> "Regular", last |-> FALSE]

Unborn == [pc |-> "unborn", kind |-> "Regular", cancelled |-> FALSE,
           input |-> {}, drain |-> FALSE, failed |-> FALSE, turn |-> NoTurn]

ActorPcs == {"idle", "take", "wait", "report", "maybe", "reserve",
             "start1", "start2", "extend", "start3", "exited", "guard",
             "xreserve", "xcheck", "xcontext", "xclear", "xconfirm", "xbusy",
             "xextend"}
RunPcs == {"spawned", "prepare", "drain", "sampling", "check", "compacting"}
EndPcs == {"return", "finish1", "finish2", "finish3", "finish4"}
Ended == {"done", "killed"}

TypeOK ==
    /\ active \in TurnStates \cup {NoTurn}
    /\ slot \in [TurnStates -> Tasks \cup {NoTask}]
    /\ pending \in [TurnStates -> SUBSET Items]
    /\ phase \in [TurnStates -> {"CurrentTurn", "NextTurn"}]
    /\ mailbox \subseteq Mails
    /\ task \in [Tasks -> [pc : {"unborn"} \cup RunPcs \cup EndPcs \cup Ended,
                           kind : {"Regular", "Compact"},
                           cancelled : BOOLEAN, input : SUBSET Items,
                           drain : BOOLEAN, failed : BOOLEAN,
                           turn : TurnStates \cup {NoTurn}]]
    /\ act \in [Actors -> [pc : ActorPcs, turn : TurnStates \cup {NoTurn},
                           task : Tasks \cup {NoTask},
                           why : {"Replaced", "Interrupted"},
                           items : SUBSET Items, input : SUBSET Items,
                           kind : {"Regular", "Compact"}, last : BOOLEAN]]
    /\ used \subseteq Ops
    /\ accepted \subseteq Items /\ settled \subseteq Items
    /\ log \in Seq({"TurnStarted", "TurnComplete", "TurnAborted"} \X Tasks)

Init ==
    /\ active = NoTurn
    /\ slot = [s \in TurnStates |-> NoTask]
    /\ pending = [s \in TurnStates |-> {}]
    /\ phase = [s \in TurnStates |-> "CurrentTurn"]
    /\ mailbox = {}
    /\ task = [t \in Tasks |-> Unborn]
    /\ act = [a \in Actors |-> Idle]
    /\ used = {}
    /\ accepted = {} /\ settled = {}
    /\ log = <<>>

-----------------------------------------------------------------------------
(* The input queue.                                                        *)

RunningTask == IF active = NoTurn THEN NoTask ELSE slot[active]

AcceptsMail == active = NoTurn \/ phase[active] = "CurrentTurn"

\* What get_pending_input takes: the active turn's input and, while that
\* turn accepts it, the whole mailbox.
PendingInput ==
    (IF active = NoTurn THEN {} ELSE pending[active])
        \cup (IF AcceptsMail THEN mailbox ELSE {})

has_pending_input == PendingInput # {}

\* Its effect on the queues.
TakePendingInput ==
    /\ pending' = IF active = NoTurn THEN pending
                  ELSE [pending EXCEPT ![active] = {}]
    /\ mailbox' = IF AcceptsMail THEN {} ELSE mailbox

has_trigger_turn_mailbox_items == mailbox \cap Triggers # {}

-----------------------------------------------------------------------------
(* Objects.                                                                *)

Referenced ==
    {active} \cup {act[a].turn : a \in Actors} \cup {task[t].turn : t \in Tasks}

Fresh == CHOOSE s \in TurnStates : s \notin Referenced

\* ActiveTurn::default() with a TurnState nothing refers to yet, then given
\* a task and items.
NewActiveTurn(t, items) ==
    /\ active' = Fresh
    /\ slot' = [slot EXCEPT ![Fresh] = t]
    /\ phase' = [phase EXCEPT ![Fresh] = "CurrentTurn"]
    /\ pending' = [pending EXCEPT ![Fresh] = items]

\* AbortHandle::abort, or dropping an AbortOnDropHandle: the task stops at
\* its next await.
Kill(ts, t) ==
    IF t # NoTask /\ ts[t].pc \notin Ended
    THEN [ts EXCEPT ![t].pc = "killed", ![t].turn = NoTurn] ELSE ts

Goto(a, pc) == act' = [act EXCEPT ![a].pc = pc]

\* The op is over: back to receiving, or out of the loop after a shutdown.
Return(a) ==
    act' = [act EXCEPT ![a] = [Idle EXCEPT !.pc = IF act[a].last THEN "exited" ELSE "idle",
                                           !.last = act[a].last]]

Unstarted == {t \in Tasks : task[t].pc = "unborn"}

\* Bound: an op begins only while every op in progress can still start the
\* one task it may start.
Room == Cardinality({a \in Actors : act[a].pc \notin {"idle", "exited"}})
            < Cardinality(Unstarted)

Begin(a, op) ==
    /\ a \in Actors
    /\ act[a].pc = "idle"
    /\ op \notin used
    /\ Room
    /\ used' = used \cup {op}

Emit(event, t) == log' = Append(log, <<event, t>>)

-----------------------------------------------------------------------------
(* Submissions.                                                            *)

\* steer_input: user input for the running regular task.
Steer(i) ==
    /\ RunningTask # NoTask
    /\ task[RunningTask].kind = "Regular"
    /\ pending' = [pending EXCEPT ![active] = @ \cup {i}]
    /\ phase' = [phase EXCEPT ![active] = "CurrentTurn"]
    /\ accepted' = accepted \cup {i}
    /\ UNCHANGED <<active, slot, mailbox, task, act, settled, log>>

\* user_input_or_turn: steer the running task, report that it cannot be
\* steered, or spawn a task for the input.
user_input_or_turn(i) ==
    /\ i \in UserInputs
    /\ Begin("loop", i)
    /\ \/ Steer(i)
       \/ /\ RunningTask # NoTask
          /\ task[RunningTask].kind # "Regular"
          /\ UNCHANGED <<active, slot, pending, phase, mailbox, task, act,
                         accepted, settled, log>>
       \/ /\ RunningTask = NoTask
          /\ act' = [act EXCEPT !["loop"] =
                        [Idle EXCEPT !.pc = "take", !.input = {i}]]
          /\ accepted' = accepted \cup {i}
          /\ UNCHANGED <<active, slot, pending, phase, mailbox, task, settled,
                         log>>

\* CodexThread::steer_input, called beside the loop; refused input goes back
\* to the client.
steer_input(i) ==
    /\ i \in UserInputs \ used
    /\ used' = used \cup {i}
    /\ Steer(i)

compact(c) ==
    /\ c \in Compacts
    /\ Begin("loop", c)
    /\ act' = [act EXCEPT !["loop"] = [Idle EXCEPT !.pc = "take", !.kind = "Compact"]]
    /\ UNCHANGED <<active, slot, pending, phase, mailbox, task, accepted,
                   settled, log>>

\* interrupt_task, and the abort in shutdown_session_runtime.
interrupt(op) ==
    /\ op \in Interrupts \cup (IF MayShutdown THEN {"Shutdown"} ELSE {})
    /\ Begin("loop", op)
    /\ act' = [act EXCEPT !["loop"] =
                  [Idle EXCEPT !.pc = "take", !.why = "Interrupted",
                               !.last = (op = "Shutdown")]]
    /\ UNCHANGED <<active, slot, pending, phase, mailbox, task, accepted,
                   settled, log>>

inter_agent_communication(m) ==
    /\ m \in Mails
    /\ Begin("loop", m)
    /\ mailbox' = mailbox \cup {m}
    /\ accepted' = accepted \cup {m}
    /\ IF m \in Triggers
       THEN act' = [act EXCEPT !["loop"] = [Idle EXCEPT !.pc = "maybe"]]
       ELSE UNCHANGED act
    /\ UNCHANGED <<active, slot, pending, phase, task, settled, log>>

\* inject_no_new_turn: into any active turn, else straight into the history.
inject_no_new_turn(i) ==
    /\ i \in Injected \ used
    /\ used' = used \cup {i}
    /\ accepted' = accepted \cup {i}
    /\ IF active # NoTurn
       THEN /\ pending' = [pending EXCEPT ![active] = @ \cup {i}]
            /\ UNCHANGED settled
       ELSE /\ settled' = settled \cup {i}
            /\ UNCHANGED pending
    /\ UNCHANGED <<active, slot, phase, mailbox, task, act, log>>

\* record_guardian_denial spawns abort_turn_if_active for the running turn.
record_guardian_denial(d) ==
    /\ d \in Denials
    /\ RunningTask # NoTask
    /\ Begin("guard", d)
    /\ act' = [act EXCEPT !["guard"] =
                  [Idle EXCEPT !.pc = "guard", !.task = RunningTask,
                               !.why = "Interrupted"]]
    /\ UNCHANGED <<active, slot, pending, phase, mailbox, task, accepted,
                   settled, log>>

-----------------------------------------------------------------------------
(* abort_all_tasks, abort_turn_if_active, handle_task_abort.               *)

\* Mutant: the replaced task is detached, as on_task_finished does, and not
\* aborted.
TakeTurnDetached(a) ==
    /\ active' = NoTurn
    /\ IF active = NoTurn THEN UNCHANGED <<slot, pending, settled>>
       ELSE /\ slot' = [slot EXCEPT ![active] = NoTask]
            /\ settled' = settled \cup pending[active]
            /\ pending' = [pending EXCEPT ![active] = {}]
    /\ IF act[a].why = "Replaced" THEN Goto(a, "start1") ELSE Return(a)
    /\ UNCHANGED <<task, phase, mailbox, used, accepted, log>>

\* The turn is taken out of active_turn and its task's token cancelled; a
\* turn without a task is dropped as it is.
TakeTurn(a) ==
    LET t == RunningTask IN
    /\ active' = NoTurn
    /\ IF t # NoTask
       THEN /\ act' = [act EXCEPT ![a].pc = "wait", ![a].turn = active, ![a].task = t]
            /\ task' = [task EXCEPT ![t].cancelled = TRUE]
            /\ slot' = [slot EXCEPT ![active] = NoTask]
       ELSE /\ IF act[a].why = "Replaced" THEN Goto(a, "start1") ELSE Return(a)
            /\ UNCHANGED <<task, slot>>
    /\ UNCHANGED <<pending, phase, mailbox, used, accepted, settled, log>>

abort_all_tasks(a) == act[a].pc = "take" /\ TakeTurn(a)

abort_turn_if_active(a) ==
    /\ act[a].pc = "guard"
    /\ IF RunningTask = act[a].task
       THEN TakeTurn(a)
       ELSE /\ Return(a)
            /\ UNCHANGED <<active, slot, pending, phase, mailbox, task, used,
                           accepted, settled, log>>

\* Mutant: cancellation is enough, the handle is not aborted.
abortTaskNoKill(a) ==
    /\ act[a].pc = "wait"
    /\ Goto(a, "report")
    /\ UNCHANGED <<active, slot, pending, phase, mailbox, task, used, accepted,
                   settled, log>>

\* Mutant: no grace period; notify_waiters wakes nobody when the task ended
\* before the wait began.
abortTaskNoGrace(a) ==
    /\ act[a].pc = "wait"
    /\ IF task[act[a].task].pc \in Ended
       THEN UNCHANGED <<task, act>>
       ELSE task' = Kill(task, act[a].task) /\ Goto(a, "report")
    /\ UNCHANGED <<active, slot, pending, phase, mailbox, used, accepted,
                   settled, log>>

\* Mutant: the abort is reported once more when the grace period is over.
abortTaskReports(a) ==
    /\ act[a].pc = "wait"
    /\ task' = Kill(task, act[a].task)
    /\ Goto(a, "report")
    /\ Emit("TurnAborted", act[a].task)
    /\ UNCHANGED <<active, slot, pending, phase, mailbox, used, accepted, settled>>

\* The task's done notification, or the grace period: then it is aborted.
abortTask(a) ==
    /\ act[a].pc = "wait"
    /\ task' = Kill(task, act[a].task)
    /\ Goto(a, "report")
    /\ UNCHANGED <<active, slot, pending, phase, mailbox, used, accepted,
                   settled, log>>

\* TurnAborted is sent and the turn's waiters and input are cleared; an
\* interrupt then looks for pending work.
reportAborted(a) ==
    LET s == act[a].turn IN
    /\ act[a].pc = "report"
    /\ Emit("TurnAborted", act[a].task)
    /\ settled' = settled \cup pending[s]
    /\ pending' = [pending EXCEPT ![s] = {}]
    /\ act' = [act EXCEPT ![a].pc = IF act[a].why = "Interrupted" THEN "maybe" ELSE "start1",
                          ![a].turn = NoTurn, ![a].task = NoTask]
    /\ UNCHANGED <<active, slot, phase, mailbox, task, used, accepted>>

-----------------------------------------------------------------------------
(* maybe_start_turn_for_pending_work and start_task.                       *)

maybe_start_turn_for_pending_work(a) ==
    /\ act[a].pc = "maybe"
    /\ IF has_trigger_turn_mailbox_items THEN Goto(a, "reserve") ELSE Return(a)
    /\ UNCHANGED <<active, slot, pending, phase, mailbox, task, used,
                   accepted, settled, log>>

\* The idle session is reserved with an active turn that has no task.
reserveTurn(a) ==
    /\ act[a].pc = "reserve"
    /\ \/ /\ active # NoTurn
          /\ Return(a)
          /\ UNCHANGED <<active, slot, pending, phase>>
       \/ /\ active = NoTurn
          /\ NewActiveTurn(NoTask, {})
          /\ Goto(a, "start1")
    /\ UNCHANGED <<mailbox, task, used, accepted, settled, log>>

\* start_task, up to get_pending_input: its context has been built meanwhile.
takePending(a) ==
    /\ act[a].pc = "start1"
    /\ TakePendingInput
    /\ act' = [act EXCEPT ![a].pc = "start2", ![a].items = PendingInput]
    /\ UNCHANGED <<active, slot, phase, task, used, accepted, settled, log>>

\* The active turn, made if there is none, is the one the items will go to.
enterTurn(a) ==
    /\ act[a].pc = "start2"
    /\ \/ /\ active # NoTurn
          /\ act' = [act EXCEPT ![a].pc = "extend", ![a].turn = active]
          /\ UNCHANGED <<active, slot, pending, phase>>
       \/ /\ active = NoTurn
          /\ NewActiveTurn(NoTask, {})
          /\ act' = [act EXCEPT ![a].pc = "extend", ![a].turn = Fresh]
    /\ UNCHANGED <<mailbox, task, used, accepted, settled, log>>

\* The lock of the active turn is free again: the items go into its TurnState,
\* whatever has become of the turn.
extendPending(a) ==
    /\ act[a].pc = "extend"
    /\ pending' = [pending EXCEPT ![act[a].turn] = @ \cup act[a].items]
    /\ act' = [act EXCEPT ![a].pc = "start3", ![a].turn = NoTurn, ![a].items = {}]
    /\ UNCHANGED <<active, slot, phase, mailbox, task, used, accepted, settled, log>>

\* The task is spawned and stored in the active turn, made if there is none;
\* a task already there is dropped, and so aborted.
start_task(a) ==
    /\ act[a].pc = "start3"
    /\ LET t == CHOOSE u \in Unstarted : TRUE IN
          /\ task' = [Kill(task, RunningTask) EXCEPT ![t] =
                 [Unborn EXCEPT !.pc = "spawned", !.kind = act[a].kind,
                                !.input = act[a].input]]
          /\ \/ /\ active # NoTurn
                /\ slot' = [slot EXCEPT ![active] = t]
                /\ UNCHANGED <<active, phase, pending>>
             \/ /\ active = NoTurn
                /\ NewActiveTurn(t, {})
    /\ Return(a)
    /\ UNCHANGED <<mailbox, used, accepted, settled, log>>

-----------------------------------------------------------------------------
(* try_start_turn_if_idle.                                                 *)

\* Refused when trigger mail is waiting, and in Plan mode.
try_start_turn_if_idle(i) ==
    /\ i \in IdleItems
    /\ Begin("ext", i)
    /\ \/ UNCHANGED act
       \/ /\ ~has_trigger_turn_mailbox_items
          /\ act' = [act EXCEPT !["ext"] = [Idle EXCEPT !.pc = "xreserve", !.items = {i}]]
    /\ UNCHANGED <<active, slot, pending, phase, mailbox, task, accepted,
                   settled, log>>

reserveIdle(a) ==
    /\ act[a].pc = "xreserve"
    /\ \/ /\ active # NoTurn
          /\ Return(a)
          /\ UNCHANGED <<active, slot, pending, phase>>
       \/ /\ active = NoTurn
          /\ NewActiveTurn(NoTask, {})
          /\ act' = [act EXCEPT ![a].pc = "xcheck", ![a].turn = Fresh]
    /\ UNCHANGED <<mailbox, task, used, accepted, settled, log>>

\* The reservation is still the active turn, and has no task.
Reserved(a) == active = act[a].turn /\ RunningTask = NoTask

\* Trigger mail, before and after the turn context is built, takes priority, and
\* a context in Plan mode is refused: the reservation is to be cleared.
recheckMail(a) ==
    /\ \/ /\ act[a].pc \in {"xcheck", "xcontext"}
          /\ has_trigger_turn_mailbox_items \/ act[a].pc = "xcontext"
          /\ Goto(a, "xclear")
       \/ /\ act[a].pc \in {"xcheck", "xcontext"}
          /\ ~has_trigger_turn_mailbox_items
          /\ Goto(a, IF act[a].pc = "xcheck" THEN "xcontext" ELSE "xconfirm")
    /\ UNCHANGED <<active, slot, pending, phase, mailbox, task, used, accepted,
                   settled, log>>

confirmReserved(a) ==
    /\ act[a].pc = "xconfirm"
    /\ Goto(a, IF Reserved(a) THEN "xextend" ELSE "xbusy")
    /\ UNCHANGED <<active, slot, pending, phase, mailbox, task, used,
                   accepted, settled, log>>

\* The reservation is given up; unless it was lost already, the work it stood
\* in the way of gets the turn.
clear_reserved_idle_turn(a) ==
    /\ act[a].pc \in {"xclear", "xbusy"}
    /\ active' = IF Reserved(a) THEN NoTurn ELSE active
    /\ IF act[a].pc = "xclear"
       THEN act' = [act EXCEPT ![a] = [Idle EXCEPT !.pc = "maybe"]]
       ELSE Return(a)
    /\ UNCHANGED <<slot, pending, phase, mailbox, task, used, accepted, settled,
                   log>>

\* The items go into the reserved TurnState, and start_task is entered.
extendReserved(a) ==
    /\ act[a].pc = "xextend"
    /\ pending' = [pending EXCEPT ![act[a].turn] = @ \cup act[a].items]
    /\ accepted' = accepted \cup act[a].items
    /\ act' = [act EXCEPT ![a].pc = "start1", ![a].turn = NoTurn, ![a].items = {}]
    /\ UNCHANGED <<active, slot, phase, mailbox, task, used, settled, log>>

-----------------------------------------------------------------------------
(* A task.                                                                 *)

Move(t, pc) == task' = [task EXCEPT ![t].pc = pc]

\* The body of start_task's spawned future begins: TurnStarted is sent.
begin(t) ==
    /\ task[t].pc = "spawned"
    /\ Emit("TurnStarted", t)
    /\ Move(t, IF task[t].kind = "Regular" THEN "prepare" ELSE "compacting")
    /\ UNCHANGED <<active, slot, pending, phase, mailbox, act, used, accepted,
                   settled>>

\* run_turn up to its loop: the turn's own input passes the hooks.  A failed
\* pre-sampling compaction or a hook ends it before the loop.
prepare(t) ==
    /\ task[t].pc = "prepare"
    /\ settled' = settled \cup task[t].input
    /\ \/ task' = [task EXCEPT ![t].pc = "drain", ![t].input = {},
                               ![t].drain = (task[t].input = {})]
       \/ task' = [task EXCEPT ![t].pc = "check", ![t].input = {}]
    /\ UNCHANGED <<active, slot, pending, phase, mailbox, act, used, accepted,
                   log>>

\* The top of run_turn's loop: pending input is drained into the history,
\* except before the turn's own input has been sampled.  A hook may stop it.
drain(t) ==
    /\ task[t].pc = "drain"
    /\ IF task[t].drain
       THEN TakePendingInput /\ settled' = settled \cup PendingInput
       ELSE UNCHANGED <<pending, mailbox, settled>>
    /\ \/ Move(t, "sampling")
       \/ task[t].drain /\ PendingInput # {} /\ Move(t, "check")
    /\ UNCHANGED <<active, slot, phase, act, used, accepted, log>>

\* A final answer closes the turn to mail, unless input is pending.
defer_mailbox_delivery_to_next_turn(t) ==
    /\ task[t].pc = "sampling"
    /\ RunningTask = t
    /\ pending[active] = {}
    /\ phase[active] = "CurrentTurn"
    /\ phase' = [phase EXCEPT ![active] = "NextTurn"]
    /\ UNCHANGED <<active, slot, pending, mailbox, task, act, used, accepted,
                   settled, log>>

\* A tool call opens it again.
accept_mailbox_delivery_for_current_turn(t) ==
    /\ task[t].pc = "sampling"
    /\ RunningTask = t
    /\ phase[active] = "NextTurn"
    /\ phase' = [phase EXCEPT ![active] = "CurrentTurn"]
    /\ UNCHANGED <<active, slot, pending, mailbox, task, act, used, accepted,
                   settled, log>>

\* Sampling ends: the model or a stop hook wants more, or input is pending;
\* or the turn is over.  After a compaction the model's continuation comes
\* before the pending input.
sampled(t) ==
    /\ task[t].pc = "sampling"
    /\ \/ \E d \in BOOLEAN : task' = [task EXCEPT ![t].pc = "drain", ![t].drain = d]
       \/ ~has_pending_input /\ Move(t, "check")
    /\ UNCHANGED <<active, slot, pending, phase, mailbox, act, used, accepted,
                   settled, log>>

\* Sampling fails with an error that is not an abort.
samplingFails(t) ==
    /\ task[t].pc = "sampling"
    /\ Move(t, "check")
    /\ UNCHANGED <<active, slot, pending, phase, mailbox, act, used, accepted,
                   settled, log>>

\* RegularTask::run goes round again while input is pending.
check(t) ==
    /\ task[t].pc = "check"
    /\ Move(t, IF has_pending_input THEN "prepare" ELSE "return")
    /\ UNCHANGED <<active, slot, pending, phase, mailbox, act, used, accepted,
                   settled, log>>

\* The task's run returns from elsewhere: a compaction ends, or TurnAborted
\* comes from a cancelled stream, a compaction hook or the rollout budget.
returns(t) ==
    /\ \/ task[t].pc = "compacting"
       \/ task[t].pc \in {"prepare", "sampling"}
    /\ \E failed \in BOOLEAN :
          /\ task[t].kind = "Regular" => failed
          /\ task' = [task EXCEPT ![t].pc = "return", ![t].failed = failed,
                                  ![t].input = {}]
    /\ settled' = settled \cup task[t].input
    /\ UNCHANGED <<active, slot, pending, phase, mailbox, act, used, accepted,
                   log>>

\* Mutant: a run that returns TurnAborted is taken for a cancelled one.
leaveFailed(t) ==
    /\ task[t].pc = "return"
    /\ Move(t, IF task[t].cancelled \/ task[t].failed THEN "done" ELSE "finish1")
    /\ UNCHANGED <<active, slot, pending, phase, mailbox, act, used, accepted,
                   settled, log>>

\* After the rollout flush: a cancelled task leaves the end to its aborter.
leave(t) ==
    /\ task[t].pc = "return"
    /\ Move(t, IF task[t].cancelled THEN "done" ELSE "finish1")
    /\ UNCHANGED <<active, slot, pending, phase, mailbox, act, used, accepted,
                   settled, log>>

\* on_task_finished: take the task out of the active turn, whichever it is.
finishTake(t) ==
    /\ task[t].pc = "finish1"
    /\ IF RunningTask = NoTask
       THEN Move(t, "done") /\ UNCHANGED slot
       ELSE /\ slot' = [slot EXCEPT ![active] = NoTask]
            /\ task' = [task EXCEPT ![t].pc = "finish2", ![t].turn = active]
    /\ UNCHANGED <<active, pending, phase, mailbox, act, used, accepted,
                   settled, log>>

\* Mutant: input still pending is taken and forgotten.
finishInputDropped(t) ==
    /\ task[t].pc = "finish2"
    /\ pending' = [pending EXCEPT ![task[t].turn] = {}]
    /\ Move(t, "finish3")
    /\ UNCHANGED <<active, slot, phase, mailbox, act, used, accepted, settled, log>>

\* Input still pending is recorded.
finishInput(t) ==
    LET s == task[t].turn IN
    /\ task[t].pc = "finish2"
    /\ settled' = settled \cup pending[s]
    /\ pending' = [pending EXCEPT ![s] = {}]
    /\ Move(t, "finish3")
    /\ UNCHANGED <<active, slot, phase, mailbox, act, used, accepted, log>>

finishEvent(t) ==
    /\ task[t].pc = "finish3"
    /\ Emit(IF task[t].failed THEN "TurnAborted" ELSE "TurnComplete", t)
    /\ Move(t, "finish4")
    /\ UNCHANGED <<active, slot, pending, phase, mailbox, act, used, accepted,
                   settled>>

\* Mutant: the finished turn is never cleared.
finishClearNothing(t) ==
    /\ task[t].pc = "finish4"
    /\ task' = [task EXCEPT ![t].pc = "done", ![t].turn = NoTurn]
    /\ UNCHANGED <<active, slot, pending, phase, mailbox, act, used, accepted,
                   settled, log>>

\* The active turn is cleared if it is still this one and nobody has put a
\* task into it.
finishClear(t) ==
    /\ task[t].pc = "finish4"
    /\ active' = IF active = task[t].turn /\ RunningTask = NoTask THEN NoTurn ELSE active
    /\ task' = [task EXCEPT ![t].pc = "done", ![t].turn = NoTurn]
    /\ UNCHANGED <<slot, pending, phase, mailbox, act, used, accepted,
                   settled, log>>

-----------------------------------------------------------------------------

TaskStep(t) ==
    \/ begin(t) \/ prepare(t) \/ drain(t) \/ sampled(t) \/ samplingFails(t)
    \/ check(t) \/ returns(t) \/ leave(t)
    \/ finishTake(t) \/ finishInput(t) \/ finishEvent(t) \/ finishClear(t)

ActorStep(a) ==
    \/ abort_all_tasks(a) \/ abort_turn_if_active(a) \/ abortTask(a) \/ reportAborted(a)
    \/ maybe_start_turn_for_pending_work(a) \/ reserveTurn(a)
    \/ takePending(a) \/ enterTurn(a) \/ extendPending(a) \/ start_task(a)
    \/ reserveIdle(a) \/ recheckMail(a) \/ confirmReserved(a)
    \/ clear_reserved_idle_turn(a) \/ extendReserved(a)

Submit ==
    \/ \E i \in UserInputs : user_input_or_turn(i) \/ steer_input(i)
    \/ \E c \in Compacts : compact(c)
    \/ \E op \in Interrupts \cup {"Shutdown"} : interrupt(op)
    \/ \E m \in Mails : inter_agent_communication(m)
    \/ \E i \in Injected : inject_no_new_turn(i)
    \/ \E i \in IdleItems : try_start_turn_if_idle(i)
    \/ \E d \in Denials : record_guardian_denial(d)

\* Nothing is in progress.
Quiet ==
    /\ \A a \in Actors : act[a].pc \in {"idle", "exited"}
    /\ \A t \in Tasks : task[t].pc \in {"unborn"} \cup Ended

AtRest == Quiet /\ UNCHANGED vars

Next ==
    \/ Submit
    \/ \E a \in Actors : ActorStep(a)
    \/ \E t \in Tasks :
          \/ TaskStep(t)
          \/ defer_mailbox_delivery_to_next_turn(t)
          \/ accept_mailbox_delivery_for_current_turn(t)
    \/ AtRest

Spec == Init /\ [][Next]_vars

\* Tokio polls ready callers and tasks.  A model stops asking for more in
\* the end and a compaction is not failed for ever: strong fairness of the
\* ends of sampling and of a prepare that succeeds.
Fairness ==
    /\ \A a \in Actors : WF_vars(ActorStep(a))
    /\ \A t \in Tasks :
          /\ WF_vars(TaskStep(t))
          /\ SF_vars(sampled(t) /\ task'[t].pc = "check")
          /\ SF_vars(sampled(t) /\ task'[t].drain)
          /\ SF_vars(prepare(t) /\ task'[t].pc = "drain")

FairSpec == Spec /\ Fairness

-----------------------------------------------------------------------------
(* Properties.                                                             *)

\* Whether an extension or the guardian has started or aborted turns beside the
\* loop.
Beside == used \cap (IdleItems \cup Denials) # {}

Live(t) == task[t].pc \in RunPcs /\ ~task[t].cancelled

\* "Session has at most one Task running at a time" (protocol_v1.md): as long as
\* only the loop starts and aborts turns, two tasks never both run uncancelled.
AtMostOneTask == ~Beside => \A t, u \in Tasks : Live(t) /\ Live(u) => t = u

\* start_task never finds a task in the turn it enters or is about to fill: its
\* two debug_assert!(turn.task.is_none()).  It does, where the extension and the
\* loop both start a turn: a task that is replaced so is aborted without an end.
SlotIsFree ==
    \A a \in Actors : act[a].pc \in {"start2", "start3"} => RunningTask = NoTask

IsEnd(e) == e[1] \in {"TurnComplete", "TurnAborted"}

\* A turn's events are in order: at most a TurnStarted and then one
\* TurnComplete or TurnAborted, from on_task_finished or from the aborter and
\* never from both, as long as only the loop starts and aborts turns.
TurnEndsOnce ==
    ~Beside => \A i, j \in DOMAIN log :
        i < j /\ log[i][2] = log[j][2] => ~IsEnd(log[i]) /\ IsEnd(log[j])

\* Where accepted input can be.
Held ==
    mailbox \cup settled
        \cup (UNION {act[a].items \cup act[a].input : a \in Actors})
        \cup (UNION {task[t].input :
                       t \in {u \in Tasks : task[u].pc = "killed" => task[u].cancelled}})
        \cup (UNION {pending[s] : s \in Referenced \ {NoTurn}})

\* Input a caller was told is taken reaches the conversation, unless its
\* turn was aborted or its own run_turn refused it; it never just vanishes
\* with a TurnState nobody looks at again, as long as the loop is alone and
\* nothing is injected.
AcceptedIsKept == ~Beside /\ used \cap Injected = {} => accepted \subseteq Held

\* A turn whose abort has been reported does not act again, whoever aborted it.
AbortIsFinal ==
    \A i \in DOMAIN log : log[i][1] = "TurnAborted" =>
        task[log[i][2]].pc \in Ended \cup {"finish4"}

\* When no caller and no task is at work the session is idle: a reservation
\* or a finished turn never stays in active_turn, where it would make every
\* later automatic start answer Busy (as long as only the loop starts turns).
RestIsIdle == ~Beside /\ Quiet => active = NoTurn

\* Every turn a client saw start is seen to end, unless another caller comes in
\* between: it may put its own task where the turn's was.
StartedTurnEnds ==
    \A t \in Tasks :
        (\E i \in DOMAIN log : log[i] = <<"TurnStarted", t>>)
            ~> (Beside \/ \E i \in DOMAIN log : IsEnd(log[i]) /\ log[i][2] = t)

\* A follow-up task sent to an agent gets a turn: mail with trigger_turn
\* does not stay in the mailbox.
TriggerGetsTurn == \A m \in Triggers : m \in mailbox ~> m \notin mailbox

\* No caller hangs: an abort, a reservation or a start always comes back,
\* and the submission loop receives the next op.
CallersReturn ==
    \A a \in Actors : act[a].pc \notin {"idle", "exited"}
                          ~> act[a].pc \in {"idle", "exited"}
=============================================================================
