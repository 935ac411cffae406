------------------------- MODULE TurnLifecycleProofs -------------------------
(***************************************************************************)
(* TLAPS proofs about TurnLifecycle with the submission loop as the only   *)
(* caller, for any number of tasks, ops and inputs.                        *)
(*                                                                         *)
(* The lock of the active turn is taken many times in one procedure, so    *)
(* the invariant says at each point of the loop and of a task what is in   *)
(* the active turn.  CallerInv: a loop that is about to start a task finds *)
(* none running, and one that aborts has taken the active turn and waits   *)
(* for its task.  TaskInv: a task that has not begun to finish is the one  *)
(* in the active turn, or it is cancelled and waited for; a task that      *)
(* finishes holds a turn without a task.  SlotInv and ActiveInv: the task  *)
(* in the active turn runs, and an active turn without a task belongs to   *)
(* the loop or to a task that finishes.                                    *)
(*                                                                         *)
(* EventInv relates the events sent to the state of each task; KeptInv     *)
(* says where accepted input is until it is settled.                       *)
(***************************************************************************)
EXTENDS TurnLifecycle, FiniteSetTheorems, TLAPS

USE TurnConstants

TaskRecord ==
    [pc : {"unborn"} \cup RunPcs \cup EndPcs \cup Ended, kind : {"Regular", "Compact"},
     cancelled : BOOLEAN, input : SUBSET Items, drain : BOOLEAN, failed : BOOLEAN,
     turn : TurnStates \cup {NoTurn}]

Caller ==
    [pc : ActorPcs, turn : TurnStates \cup {NoTurn}, task : Tasks \cup {NoTask},
     why : {"Replaced", "Interrupted"}, items : SUBSET Items, input : SUBSET Items,
     kind : {"Regular", "Compact"}, last : BOOLEAN]

Events == {"TurnStarted", "TurnComplete", "TurnAborted"} \X Tasks

StartPcs == {"start1", "start2", "extend", "start3"}
AbortPcs == {"wait", "report"}
LoopPcs == {"idle", "exited", "take", "maybe", "reserve"} \cup StartPcs \cup AbortPcs
BusyPcs == RunPcs \cup {"return", "finish1"}
FinishPcs == {"finish2", "finish3", "finish4"}

\* The loop: while it aborts or starts a task no task is in the active turn; it
\* refers to a TurnState only while it aborts and where it has entered the active
\* turn, and carries items and input only where start_task will store them.
CallerInv ==
    \A a \in Actors :
        /\ act[a].pc \in LoopPcs
        /\ act[a].pc \in StartPcs \cup AbortPcs => RunningTask = NoTask
        /\ act[a].pc \in AbortPcs =>
              /\ active = NoTurn
              /\ act[a].task \in Tasks /\ act[a].turn \in TurnStates
              /\ task[act[a].task].cancelled
              /\ task[act[a].task].pc \in BusyPcs \cup Ended
        /\ act[a].pc = "report" => task[act[a].task].pc \in Ended
        /\ act[a].pc = "extend" => active # NoTurn /\ act[a].turn = active
        /\ act[a].pc \notin AbortPcs \cup {"extend"} => act[a].turn = NoTurn
        /\ act[a].pc \notin {"idle", "exited"} => \E t \in Tasks : task[t].pc = "unborn"
        /\ act[a].pc \notin {"start2", "extend"} => act[a].items = {}
        /\ act[a].why = "Interrupted" \/ act[a].pc \in {"idle", "exited", "maybe", "reserve"}
              => act[a].input = {}

\* A task that has not begun to finish is the one in the active turn, or it is
\* cancelled and the loop waits for it.  One that finishes holds a turn without a
\* task, into which the loop puts none while it is the active one.
TaskInv ==
    \A t \in Tasks :
        /\ task[t].pc \in BusyPcs =>
              IF task[t].cancelled THEN \E a \in Actors : act[a].pc = "wait" /\ act[a].task = t
              ELSE RunningTask = t
        /\ task[t].pc \in FinishPcs <=> task[t].turn # NoTurn
        /\ task[t].pc \in FinishPcs =>
              /\ slot[task[t].turn] = NoTask
              /\ active = task[t].turn => \A a \in Actors : act[a].pc \notin StartPcs
        /\ task[t].pc = "unborn" => task[t].input = {}

\* The task in the active turn runs and has not been cancelled.
SlotInv ==
    RunningTask # NoTask => task[RunningTask].pc \in BusyPcs /\ ~task[RunningTask].cancelled

\* An active turn has a task, or one that finishes with it, or the loop is about
\* to give it one.
ActiveInv ==
    active # NoTurn =>
        \/ slot[active] # NoTask
        \/ \E t \in Tasks : task[t].turn = active
        \/ \E a \in Actors : act[a].pc \in StartPcs

IInv == TypeOK /\ CallerInv /\ TaskInv /\ SlotInv /\ ActiveInv

\* TypeOK with the names above.
LEMMA Types ==
    TypeOK <=>
        /\ active \in TurnStates \cup {NoTurn}
        /\ slot \in [TurnStates -> Tasks \cup {NoTask}]
        /\ pending \in [TurnStates -> SUBSET Items]
        /\ phase \in [TurnStates -> {"CurrentTurn", "NextTurn"}]
        /\ mailbox \subseteq Mails
        /\ task \in [Tasks -> TaskRecord]
        /\ act \in [Actors -> Caller]
        /\ used \subseteq Ops
        /\ accepted \subseteq Items /\ settled \subseteq Items
        /\ log \in Seq(Events)
BY DEF TypeOK, TaskRecord, Caller, Events

\* The same of the next state, for the steps that establish it.
LEMMA TypesNext ==
    ASSUME active' \in TurnStates \cup {NoTurn},
           slot' \in [TurnStates -> Tasks \cup {NoTask}],
           pending' \in [TurnStates -> SUBSET Items],
           phase' \in [TurnStates -> {"CurrentTurn", "NextTurn"}],
           mailbox' \subseteq Mails,
           task' \in [Tasks -> TaskRecord],
           act' \in [Actors -> Caller],
           used' \subseteq Ops,
           accepted' \subseteq Items, settled' \subseteq Items,
           log' \in Seq(Events)
    PROVE  TypeOK'
BY DEF TypeOK, TaskRecord, Caller, Events

\* There is a TurnState that nothing refers to when a turn is made.
LEMMA FreshExists ==
    ASSUME TypeOK, active = NoTurn
    PROVE  Fresh \in TurnStates /\ Fresh \notin Referenced
<1> DEFINE f == [a \in Actors |-> act[a].turn]
           g == [t \in Tasks |-> task[t].turn]
<1>1. f \in [Actors -> TurnStates \cup {NoTurn}] /\ g \in [Tasks -> TurnStates \cup {NoTurn}]
  BY Types DEF Caller, TaskRecord
<1>2. PICK s \in TurnStates : (\A a \in Actors : f[a] # s) /\ (\A t \in Tasks : g[t] # s)
  BY <1>1, EnoughTurnStates
<1>3. s \notin Referenced
  BY <1>2 DEF Referenced
<1> QED BY <1>3 DEF Fresh

\* What a submission by the loop finds.
LEMMA LoopBegins ==
    ASSUME Actors \subseteq {"loop"}, NEW a, NEW op, Begin(a, op)
    PROVE  /\ a = "loop" /\ a \in Actors /\ act[a].pc = "idle"
           /\ \E t \in Tasks : task[t].pc = "unborn"
<1>1. a = "loop" /\ a \in Actors /\ act[a].pc = "idle" /\ Room
  BY DEF Begin
<1>2. {b \in Actors : act[b].pc \notin {"idle", "exited"}} = {}
  BY <1>1
<1>3. Cardinality({}) < Cardinality(Unstarted)
  BY <1>1, <1>2, Zenon DEF Room
<1>4. ~(0 < 0)
  OBVIOUS
<1>5. Unstarted # {}
  BY <1>3, <1>4, FS_EmptySet, Zenon
<1> QED BY <1>1, <1>5 DEF Unstarted

-----------------------------------------------------------------------------
(* Types.                                                                  *)

\* A step of the loop: one caller changes.
LEMMA CallerTypes ==
    ASSUME act \in [Actors -> Caller], NEW a \in Actors
    PROVE  /\ \A pc \in ActorPcs : Goto(a, pc) => act' \in [Actors -> Caller]
           /\ Return(a) => act' \in [Actors -> Caller]
<1>1. act[a] \in Caller
  OBVIOUS
<1>2. ASSUME NEW pc \in ActorPcs, Goto(a, pc) PROVE act' \in [Actors -> Caller]
  <2> DEFINE r == [act[a] EXCEPT !.pc = pc]
  <2>1. r \in Caller
    BY <1>1 DEF Caller
  <2>2. act' = [act EXCEPT ![a] = r]
    BY <1>2 DEF Goto
  <2> QED BY <2>1, <2>2
<1>3. ASSUME Return(a) PROVE act' \in [Actors -> Caller]
  <2> DEFINE p == IF act[a].last THEN "exited" ELSE "idle"
             l == act[a].last
             r == [Idle EXCEPT !.pc = p, !.last = l]
  <2>1. p \in ActorPcs /\ l \in BOOLEAN
    BY <1>1 DEF Caller, ActorPcs
  <2>2. Idle \in Caller
    BY DEF Idle, Caller, ActorPcs
  <2> HIDE DEF p, l
  <2>3. r \in Caller
    BY <2>1, <2>2 DEF Caller
  <2>4. act' = [act EXCEPT ![a] = r]
    BY <1>3 DEF Return, p, l
  <2> QED BY <2>3, <2>4
<1> QED BY <1>2, <1>3

\* A step of a task that only moves it.
LEMMA MoveTypes ==
    ASSUME task \in [Tasks -> TaskRecord], NEW t \in Tasks,
           NEW pc \in {"unborn"} \cup RunPcs \cup EndPcs \cup Ended, Move(t, pc)
    PROVE  task' \in [Tasks -> TaskRecord]
<1> DEFINE r == [task[t] EXCEPT !.pc = pc]
<1>1. task[t] \in TaskRecord
  OBVIOUS
<1>2. r \in TaskRecord
  BY <1>1 DEF TaskRecord
<1>3. task' = [task EXCEPT ![t] = r]
  BY DEF Move
<1> QED BY <1>2, <1>3

\* The input a caller or a task takes out of the queues.
LEMMA TakesTypes ==
    ASSUME TypeOK
    PROVE  /\ PendingInput \subseteq Items
           /\ TakePendingInput => pending' \in [TurnStates -> SUBSET Items] /\ mailbox' \subseteq Mails
           /\ TakePendingInput => \A s \in TurnStates : pending'[s] \subseteq pending[s]
<1>1. PendingInput \subseteq Items
  BY Types DEF PendingInput, AcceptsMail, Items
<1>2. ASSUME TakePendingInput
      PROVE  /\ pending' \in [TurnStates -> SUBSET Items] /\ mailbox' \subseteq Mails
             /\ \A s \in TurnStates : pending'[s] \subseteq pending[s]
  BY <1>2, Types DEF TakePendingInput
<1> QED BY <1>1, <1>2

\* The types of a new active turn.
LEMMA NewTurnTypes ==
    ASSUME TypeOK, active = NoTurn, NEW t \in Tasks \cup {NoTask}, NEW items \in SUBSET Items,
           NewActiveTurn(t, items)
    PROVE  /\ active' \in TurnStates
           /\ slot' \in [TurnStates -> Tasks \cup {NoTask}]
           /\ pending' \in [TurnStates -> SUBSET Items]
           /\ phase' \in [TurnStates -> {"CurrentTurn", "NextTurn"}]
BY FreshExists, Types DEF NewActiveTurn

\* A turn's event.
LEMMA EmitTypes ==
    ASSUME log \in Seq(Events), NEW e \in {"TurnStarted", "TurnComplete", "TurnAborted"},
           NEW t \in Tasks, Emit(e, t)
    PROVE  log' \in Seq(Events)
<1>1. <<e, t>> \in Events
  BY DEF Events
<1> QED BY <1>1 DEF Emit

-----------------------------------------------------------------------------
(* The inductive invariant: one lemma for each kind of step.               *)

\* Nothing the invariant is about changes.
LEMMA QueueStep ==
    ASSUME IInv, TypeOK', UNCHANGED <<active, slot, task, act>>
    PROVE  IInv'
BY DEF IInv, CallerInv, TaskInv, SlotInv, ActiveInv, RunningTask

\* The loop takes up an op, goes on with it or is done with it, outside an abort
\* and a start.
LEMMA LoopStep ==
    ASSUME IInv, TypeOK', UNCHANGED <<active, slot, task>>,
           Actors \subseteq {"loop"}, NEW a \in Actors, NEW r \in Caller,
           act' = [act EXCEPT ![a] = r],
           act[a].pc \notin AbortPcs \cup StartPcs,
           r.pc \in {"idle", "exited", "take", "maybe", "reserve"},
           r.turn = NoTurn, r.items = {},
           r.why = "Interrupted" \/ r.pc # "take" => r.input = {},
           r.pc \in {"idle", "exited"} \/ \E t \in Tasks : task[t].pc = "unborn"
    PROVE  IInv'
<1>1. act'[a] = r /\ \A b \in Actors : b = a
  BY Types DEF IInv
<1>2. CallerInv'
  BY <1>1 DEF IInv, CallerInv, RunningTask, LoopPcs, AbortPcs, StartPcs
<1>3. TaskInv'
  BY <1>1 DEF IInv, TaskInv, RunningTask, AbortPcs, StartPcs
<1>4. SlotInv'
  BY DEF IInv, SlotInv, RunningTask
<1>5. ActiveInv'
  BY <1>1 DEF IInv, ActiveInv
<1> QED BY <1>2, <1>3, <1>4, <1>5 DEF IInv

\* start_task goes on, the active turn staying as it is.
LEMMA StartStep ==
    ASSUME IInv, TypeOK', UNCHANGED <<active, slot, task>>,
           Actors \subseteq {"loop"}, NEW a \in Actors, NEW r \in Caller,
           act' = [act EXCEPT ![a] = r],
           act[a].pc \in StartPcs, r.pc \in StartPcs,
           r.turn = IF r.pc = "extend" THEN active ELSE NoTurn,
           r.pc = "extend" => active # NoTurn,
           r.pc \notin {"start2", "extend"} => r.items = {},
           r.why = act[a].why, r.input = act[a].input
    PROVE  IInv'
<1>1. act'[a] = r /\ \A b \in Actors : b = a
  BY Types DEF IInv
<1>2. CallerInv'
  BY <1>1 DEF IInv, CallerInv, RunningTask, LoopPcs, AbortPcs, StartPcs
<1>3. TaskInv'
  BY <1>1 DEF IInv, TaskInv, RunningTask, AbortPcs, StartPcs
<1>4. SlotInv'
  BY DEF IInv, SlotInv, RunningTask
<1>5. ActiveInv'
  BY <1>1 DEF IInv, ActiveInv
<1> QED BY <1>2, <1>3, <1>4, <1>5 DEF IInv

\* A turn without a task is made, to reserve the session or in start_task.
LEMMA NewTurnStep ==
    ASSUME IInv, TypeOK', UNCHANGED task, active = NoTurn, NEW items,
           NewActiveTurn(NoTask, items),
           Actors \subseteq {"loop"}, NEW a \in Actors, NEW r \in Caller,
           act' = [act EXCEPT ![a] = r],
           act[a].pc \in {"reserve", "start2"}, r.pc \in {"start1", "extend"},
           r.turn = IF r.pc = "extend" THEN Fresh ELSE NoTurn,
           r.pc = "start1" => r.items = {}, r.why = act[a].why, r.input = act[a].input
    PROVE  IInv'
<1>1. act'[a] = r /\ \A b \in Actors : b = a
  BY Types DEF IInv
<1>2. Fresh \in TurnStates /\ Fresh \notin Referenced
  BY FreshExists DEF IInv
<1>3. active' = Fresh /\ slot' = [slot EXCEPT ![Fresh] = NoTask]
  BY DEF NewActiveTurn
<1>4. RunningTask = NoTask /\ RunningTask' = NoTask
  BY <1>2, <1>3, Types DEF RunningTask, IInv
<1>5. \A t \in Tasks : task[t].turn # Fresh
  BY <1>2 DEF Referenced
<1>6. CallerInv'
  BY <1>1, <1>2, <1>3, <1>4 DEF IInv, CallerInv, LoopPcs, AbortPcs, StartPcs
<1>7. TaskInv'
  <2> SUFFICES ASSUME NEW t \in Tasks
               PROVE  /\ task[t].pc \notin BusyPcs
                      /\ task[t].pc \in FinishPcs <=> task[t].turn # NoTurn
                      /\ task[t].pc \in FinishPcs =>
                           slot'[task[t].turn] = NoTask /\ active' # task[t].turn
                      /\ task[t].pc = "unborn" => task[t].input = {}
    BY DEF TaskInv
  <2>1. task[t].pc \notin BusyPcs
    <3>1. t # NoTask
      OBVIOUS
    <3> QED BY <1>1, <1>4, <3>1 DEF IInv, TaskInv
  <2>2. task[t].pc \in FinishPcs =>
          slot'[task[t].turn] = NoTask /\ active' # task[t].turn
    <3> HAVE task[t].pc \in FinishPcs
    <3>1. task[t].turn \in TurnStates /\ slot[task[t].turn] = NoTask
      BY Types DEF IInv, TaskInv, TaskRecord
    <3> QED BY <1>3, <1>5, <3>1, Types DEF IInv
  <2> QED BY <2>1, <2>2 DEF IInv, TaskInv
<1>8. SlotInv'
  BY <1>4 DEF SlotInv
<1>9. ActiveInv'
  BY <1>1 DEF ActiveInv, StartPcs
<1> QED BY <1>6, <1>7, <1>8, <1>9 DEF IInv

\* start_task stores its task: no other was busy, so none is replaced.
LEMMA SpawnStep ==
    ASSUME IInv, TypeOK', Actors \subseteq {"loop"}, NEW a \in Actors,
           act[a].pc = "start3", start_task(a)
    PROVE  IInv'
<1> DEFINE t == CHOOSE u \in Unstarted : TRUE
           k == act[a].kind
           in == act[a].input
           r == [Unborn EXCEPT !.pc = "spawned", !.kind = k, !.input = in]
<1>1. RunningTask = NoTask
  BY DEF IInv, CallerInv, StartPcs
<1>2. t \in Tasks /\ task[t].pc = "unborn"
  BY DEF IInv, CallerInv, Unstarted
<1>3. task' = [task EXCEPT ![t] = r]
  BY <1>1 DEF start_task, Kill
<1>4. r.pc = "spawned" /\ r.cancelled = FALSE /\ r.turn = NoTurn
  BY DEF Unborn
<1> HIDE DEF r
<1>5. task'[t] = r /\ \A u \in Tasks : u # t => task'[u] = task[u]
  BY <1>2, <1>3, Types DEF IInv
<1>6. /\ \A b \in Actors : b = a
      /\ act'[a].pc \in {"idle", "exited"} /\ act'[a].turn = NoTurn
      /\ act'[a].items = {} /\ act'[a].input = {}
  BY Types DEF IInv, start_task, Return, Idle
<1>7. /\ active' \in TurnStates /\ slot'[active'] = t
      /\ \A u \in Tasks : task[u].pc \in FinishPcs =>
            slot'[task[u].turn] = NoTask /\ active' # task[u].turn
  <2>1. \A u \in Tasks : task[u].pc \in FinishPcs =>
          /\ task[u].turn \in TurnStates /\ slot[task[u].turn] = NoTask
          /\ task[u].turn # active
    BY Types DEF IInv, TaskInv, TaskRecord, StartPcs
  <2>2. CASE active # NoTurn /\ slot' = [slot EXCEPT ![active] = t] /\ UNCHANGED active
    BY <2>1, <2>2, Types DEF IInv
  <2>3. CASE active = NoTurn /\ NewActiveTurn(t, {})
    <3>1. Fresh \in TurnStates /\ Fresh \notin Referenced
      BY <2>3, FreshExists DEF IInv
    <3>2. active' = Fresh /\ slot' = [slot EXCEPT ![Fresh] = t]
      BY <2>3 DEF NewActiveTurn
    <3>3. \A u \in Tasks : task[u].turn # Fresh
      BY <3>1 DEF Referenced
    <3> QED BY <2>1, <3>1, <3>2, <3>3, Types DEF IInv
  <2> QED BY <2>2, <2>3 DEF start_task
<1>8. RunningTask' = t
  BY <1>7 DEF RunningTask
<1>9. \A u \in Tasks : task[u].pc \notin BusyPcs
  <2> SUFFICES ASSUME NEW u \in Tasks, task[u].pc \in BusyPcs PROVE FALSE
    OBVIOUS
  <2>1. u # NoTask
    OBVIOUS
  <2> QED BY <1>1, <1>6, <2>1 DEF IInv, TaskInv
<1>10. CallerInv'
  BY <1>6 DEF IInv, CallerInv, LoopPcs, StartPcs, AbortPcs
<1>11. TaskInv'
  <2> SUFFICES ASSUME NEW u \in Tasks
               PROVE  /\ task'[u].pc \in BusyPcs => ~task'[u].cancelled /\ RunningTask' = u
                      /\ task'[u].pc \in FinishPcs <=> task'[u].turn # NoTurn
                      /\ task'[u].pc \in FinishPcs =>
                           slot'[task'[u].turn] = NoTask /\ active' # task'[u].turn
                      /\ task'[u].pc = "unborn" => task'[u].input = {}
    BY DEF TaskInv
  <2>1. CASE u = t
    BY <1>4, <1>5, <1>8, <2>1 DEF FinishPcs
  <2>2. CASE u # t
    BY <1>5, <1>7, <1>9, <2>2 DEF IInv, TaskInv
  <2> QED BY <2>1, <2>2
<1>12. SlotInv'
  BY <1>4, <1>5, <1>8 DEF SlotInv, BusyPcs, RunPcs
<1>13. ActiveInv'
  BY <1>2, <1>7 DEF ActiveInv
<1> QED BY <1>10, <1>11, <1>12, <1>13 DEF IInv

\* The turn is taken and its task cancelled: the loop now waits for it.
LEMMA CancelStep ==
    ASSUME IInv, TypeOK', Actors \subseteq {"loop"}, NEW a \in Actors, act[a].pc = "take",
           RunningTask # NoTask, TakeTurn(a)
    PROVE  IInv'
<1> DEFINE t == RunningTask
           r == [act[a] EXCEPT !.pc = "wait", !.turn = active, !.task = t]
           q == [task[t] EXCEPT !.cancelled = TRUE]
<1>1. /\ active' = NoTurn /\ act' = [act EXCEPT ![a] = r] /\ task' = [task EXCEPT ![t] = q]
      /\ slot' = [slot EXCEPT ![active] = NoTask]
  BY DEF TakeTurn
<1>2. active \in TurnStates /\ t = slot[active] /\ t \in Tasks
  BY Types DEF IInv, RunningTask
<1>3. /\ r.pc = "wait" /\ r.turn = active /\ r.task = t /\ r.items = act[a].items
      /\ r.input = act[a].input /\ r.why = act[a].why
  <2>1. act[a] \in Caller
    BY Types DEF IInv
  <2> HIDE DEF t
  <2> QED BY <2>1 DEF Caller
<1>4. q.pc = task[t].pc /\ q.cancelled /\ q.turn = task[t].turn /\ q.input = task[t].input
  <2>1. task[t] \in TaskRecord
    BY <1>2, Types DEF IInv
  <2> QED BY <2>1 DEF TaskRecord
<1> HIDE DEF r, q
<1>5. act'[a] = r /\ \A b \in Actors : b = a
  BY <1>1, Types DEF IInv
<1>6. task'[t] = q /\ \A u \in Tasks : u # t => task'[u] = task[u]
  BY <1>1, <1>2, Types DEF IInv
<1>7. RunningTask' = NoTask
  BY <1>1 DEF RunningTask
<1>8. task[t].pc \in BusyPcs
  BY DEF IInv, SlotInv
<1>9. CallerInv'
  <2>1. \E u \in Tasks : task'[u].pc = "unborn"
    BY <1>4, <1>6 DEF IInv, CallerInv
  <2> QED BY <1>1, <1>2, <1>3, <1>4, <1>5, <1>6, <1>7, <1>8, <2>1
          DEF IInv, CallerInv, LoopPcs, StartPcs, AbortPcs
<1>10. TaskInv'
  <2> SUFFICES ASSUME NEW u \in Tasks
               PROVE  /\ task'[u].pc \in BusyPcs => task'[u].cancelled /\ u = t
                      /\ task'[u].pc \in FinishPcs <=> task'[u].turn # NoTurn
                      /\ task'[u].pc \in FinishPcs =>
                           slot'[task'[u].turn] = NoTask /\ active' # task'[u].turn
                      /\ task'[u].pc = "unborn" => task'[u].input = {}
    BY <1>3, <1>5 DEF TaskInv
  <2>1. task[u].pc \in BusyPcs => u = t
    BY <1>5 DEF IInv, TaskInv
  <2>2. task'[u].pc = task[u].pc /\ task'[u].turn = task[u].turn /\ task'[u].input = task[u].input
    BY <1>4, <1>6
  <2>3. task[u].pc \in FinishPcs => task[u].turn \in TurnStates /\ slot[task[u].turn] = NoTask
    BY Types DEF IInv, TaskInv, TaskRecord
  <2>4. task[u].pc \in FinishPcs => slot'[task[u].turn] = NoTask /\ active' # task[u].turn
    BY <1>1, <1>2, <2>3, Types DEF IInv
  <2> QED BY <1>4, <1>6, <2>1, <2>2, <2>4 DEF IInv, TaskInv
<1>11. SlotInv' /\ ActiveInv'
  BY <1>1, <1>7 DEF SlotInv, ActiveInv
<1> QED BY <1>9, <1>10, <1>11 DEF IInv

\* A turn without a task is taken and dropped.
LEMMA DropStep ==
    ASSUME IInv, TypeOK', UNCHANGED <<slot, task>>, active' = NoTurn,
           Actors \subseteq {"loop"}, NEW a \in Actors, NEW r \in Caller,
           act' = [act EXCEPT ![a] = r],
           act[a].pc = "take", RunningTask = NoTask,
           r.pc \in {"idle", "exited", "start1"},
           r.turn = NoTurn, r.items = {},
           r.why = "Interrupted" \/ r.pc # "start1" => r.input = {}
    PROVE  IInv'
<1>1. act'[a] = r /\ \A b \in Actors : b = a
  BY Types DEF IInv
<1>2. RunningTask' = NoTask
  BY DEF RunningTask
<1>3. CallerInv'
  BY <1>1, <1>2 DEF IInv, CallerInv, LoopPcs, AbortPcs, StartPcs
<1>4. TaskInv'
  <2> SUFFICES ASSUME NEW u \in Tasks
               PROVE  /\ task[u].pc \notin BusyPcs
                      /\ task[u].pc \in FinishPcs <=> task[u].turn # NoTurn
                      /\ task[u].pc \in FinishPcs => slot[task[u].turn] = NoTask
                      /\ task[u].pc = "unborn" => task[u].input = {}
    BY DEF TaskInv
  <2>1. u # NoTask
    OBVIOUS
  <2> QED BY <1>1, <2>1 DEF IInv, TaskInv
<1>5. SlotInv' /\ ActiveInv'
  BY <1>2 DEF SlotInv, ActiveInv
<1> QED BY <1>3, <1>4, <1>5 DEF IInv

\* The task that was waited for is over, or is ended now.
LEMMA KillStep ==
    ASSUME IInv, TypeOK', Actors \subseteq {"loop"}, NEW a \in Actors, abortTask(a)
    PROVE  IInv'
<1> DEFINE t == act[a].task
           r == [act[a] EXCEPT !.pc = "report"]
           q == [task[t] EXCEPT !.pc = "killed", !.turn = NoTurn]
<1>1. /\ act[a].pc = "wait" /\ act' = [act EXCEPT ![a] = r]
      /\ UNCHANGED <<active, slot>> /\ task' = Kill(task, t)
  BY DEF abortTask, Goto
<1>2. t \in Tasks /\ task[t].cancelled /\ RunningTask = NoTask
  BY <1>1 DEF IInv, CallerInv, AbortPcs
<1>3. /\ r.pc = "report" /\ r.turn = act[a].turn /\ r.task = t /\ r.items = act[a].items
      /\ r.input = act[a].input /\ r.why = act[a].why
  <2>1. act[a] \in Caller
    BY Types DEF IInv
  <2> QED BY <2>1 DEF Caller
<1> HIDE DEF r
<1>4. act'[a] = r /\ \A b \in Actors : b = a
  BY <1>1, Types DEF IInv
<1>5. /\ task'[t].pc \in Ended /\ task'[t].turn = NoTurn /\ task'[t].cancelled
      /\ \A u \in Tasks : u # t => task'[u] = task[u]
  <2>1. CASE task[t].pc \in Ended
    <3>1. task[t].turn = NoTurn
      BY <1>2, <2>1 DEF IInv, TaskInv, FinishPcs, Ended
    <3> QED BY <1>1, <1>2, <2>1, <3>1 DEF Kill
  <2>2. CASE task[t].pc \notin Ended
    <3>1. task' = [task EXCEPT ![t] = q]
      BY <1>1, <1>2, <2>2 DEF Kill
    <3>2. task[t] \in TaskRecord
      BY <1>2, Types DEF IInv
    <3>3. q.pc = "killed" /\ q.turn = NoTurn /\ q.cancelled = task[t].cancelled
      BY <3>2 DEF TaskRecord
    <3> HIDE DEF q
    <3> QED BY <1>2, <3>1, <3>3, Types DEF IInv, Ended
  <2> QED BY <2>1, <2>2
<1>6. RunningTask' = NoTask
  BY <1>1, <1>2 DEF RunningTask
<1>7. CallerInv'
  <2>1. \E u \in Tasks : task'[u].pc = "unborn"
    <3>1. task[t].pc \in BusyPcs \cup Ended
      BY <1>1 DEF IInv, CallerInv, AbortPcs
    <3>2. task[t].pc # "unborn"
      BY <3>1 DEF BusyPcs, RunPcs, Ended
    <3> QED BY <1>1, <1>5, <3>2 DEF IInv, CallerInv
  <2> QED BY <1>1, <1>2, <1>3, <1>4, <1>5, <1>6, <2>1
          DEF IInv, CallerInv, LoopPcs, StartPcs, AbortPcs
<1>8. TaskInv'
  <2> SUFFICES ASSUME NEW u \in Tasks
               PROVE  /\ task'[u].pc \notin BusyPcs
                      /\ task'[u].pc \in FinishPcs <=> task'[u].turn # NoTurn
                      /\ task'[u].pc \in FinishPcs =>
                           slot[task'[u].turn] = NoTask
                      /\ task'[u].pc = "unborn" => task'[u].input = {}
    BY <1>1, <1>3, <1>4 DEF TaskInv, StartPcs
  <2>1. CASE u = t
    BY <1>5, <2>1 DEF BusyPcs, FinishPcs, RunPcs, Ended
  <2>2. CASE u # t
    <3>1. u # NoTask
      OBVIOUS
    <3> QED BY <1>2, <1>4, <1>5, <2>2, <3>1 DEF IInv, TaskInv
  <2> QED BY <2>1, <2>2
<1>9. SlotInv' /\ ActiveInv'
  BY <1>1, <1>6 DEF IInv, CallerInv, AbortPcs, SlotInv, ActiveInv
<1> QED BY <1>7, <1>8, <1>9 DEF IInv

\* The abort is reported, and the loop starts its task or looks for work.
LEMMA ReportStep ==
    ASSUME IInv, TypeOK', Actors \subseteq {"loop"}, NEW a \in Actors, reportAborted(a)
    PROVE  IInv'
<1> DEFINE p == IF act[a].why = "Interrupted" THEN "maybe" ELSE "start1"
           r == [act[a] EXCEPT !.pc = p, !.turn = NoTurn, !.task = NoTask]
<1>1. act[a].pc = "report" /\ act' = [act EXCEPT ![a] = r] /\ UNCHANGED <<active, slot, task>>
  BY DEF reportAborted
<1>2. /\ r.pc = p /\ r.turn = NoTurn /\ r.items = act[a].items
      /\ r.input = act[a].input /\ r.why = act[a].why
  <2>1. act[a] \in Caller
    BY Types DEF IInv
  <2> HIDE DEF p
  <2> QED BY <2>1 DEF Caller
<1> HIDE DEF r
<1>3. act'[a] = r /\ \A b \in Actors : b = a
  BY <1>1, Types DEF IInv
<1>4. active = NoTurn /\ RunningTask = NoTask
  BY <1>1 DEF IInv, CallerInv, AbortPcs
<1>5. CallerInv'
  BY <1>1, <1>2, <1>3, <1>4 DEF IInv, CallerInv, RunningTask, LoopPcs, AbortPcs, StartPcs
<1>6. TaskInv'
  <2> SUFFICES ASSUME NEW u \in Tasks
               PROVE  /\ task[u].pc \notin BusyPcs
                      /\ task[u].pc \in FinishPcs <=> task[u].turn # NoTurn
                      /\ task[u].pc \in FinishPcs => slot[task[u].turn] = NoTask
                      /\ task[u].pc = "unborn" => task[u].input = {}
    BY <1>1, <1>4 DEF TaskInv
  <2>1. u # NoTask
    OBVIOUS
  <2> QED BY <1>1, <1>3, <1>4, <2>1 DEF IInv, TaskInv
<1>7. SlotInv' /\ ActiveInv'
  BY <1>1, <1>4 DEF SlotInv, ActiveInv, RunningTask
<1> QED BY <1>5, <1>6, <1>7 DEF IInv

\* A task runs on, up to finish1.
LEMMA BusyStep ==
    ASSUME IInv, TypeOK', UNCHANGED <<active, slot, act>>,
           NEW t \in Tasks, NEW r \in TaskRecord, task' = [task EXCEPT ![t] = r],
           task[t].pc \in BusyPcs, r.pc \in BusyPcs,
           r.cancelled = task[t].cancelled, r.turn = task[t].turn
    PROVE  IInv'
<1>1. task'[t] = r /\ \A u \in Tasks : u # t => task'[u] = task[u]
  BY Types DEF IInv
<1>2. r.pc \notin FinishPcs \cup Ended \cup {"unborn"} /\ task[t].pc \notin FinishPcs \cup Ended \cup {"unborn"}
  BY DEF BusyPcs, FinishPcs, Ended, RunPcs
<1>3. RunningTask' = RunningTask
  BY DEF RunningTask
<1>4. CallerInv'
  <2> SUFFICES ASSUME NEW a \in Actors
               PROVE  /\ act[a].pc \in AbortPcs =>
                           /\ task'[act[a].task].cancelled
                           /\ task'[act[a].task].pc \in BusyPcs \cup Ended
                      /\ act[a].pc = "report" => task'[act[a].task].pc \in Ended
                      /\ act[a].pc \notin {"idle", "exited"} => \E u \in Tasks : task'[u].pc = "unborn"
    BY <1>3 DEF IInv, CallerInv
  <2> QED BY <1>1, <1>2 DEF IInv, CallerInv, AbortPcs
<1>5. TaskInv'
  BY <1>1, <1>2, <1>3 DEF IInv, TaskInv
<1>6. SlotInv'
  BY <1>1, <1>3 DEF IInv, SlotInv
<1>7. ActiveInv'
  BY <1>1 DEF IInv, ActiveInv
<1> QED BY <1>4, <1>5, <1>6, <1>7 DEF IInv

\* A cancelled task is over: its aborter waits for it.
LEMMA OverStep ==
    ASSUME IInv, TypeOK', UNCHANGED <<active, slot, act>>,
           NEW t \in Tasks, NEW r \in TaskRecord, task' = [task EXCEPT ![t] = r],
           task[t].pc \in BusyPcs, r.pc = "done",
           task[t].cancelled, r.cancelled, r.turn = task[t].turn
    PROVE  IInv'
<1>1. task'[t] = r /\ \A u \in Tasks : u # t => task'[u] = task[u]
  BY Types DEF IInv
<1>2. /\ r.pc \notin FinishPcs \cup BusyPcs \cup {"unborn"} /\ r.pc \in Ended
      /\ task[t].pc \notin FinishPcs \cup Ended \cup {"unborn"}
  BY DEF BusyPcs, FinishPcs, Ended, RunPcs
<1>3. RunningTask' = RunningTask
  BY DEF RunningTask
<1>4. CallerInv'
  <2> SUFFICES ASSUME NEW a \in Actors
               PROVE  /\ act[a].pc \in AbortPcs =>
                           /\ task'[act[a].task].cancelled
                           /\ task'[act[a].task].pc \in BusyPcs \cup Ended
                      /\ act[a].pc = "report" => task'[act[a].task].pc \in Ended
                      /\ act[a].pc \notin {"idle", "exited"} => \E u \in Tasks : task'[u].pc = "unborn"
    BY <1>3 DEF IInv, CallerInv
  <2> QED BY <1>1, <1>2 DEF IInv, CallerInv, AbortPcs
<1>5. TaskInv'
  BY <1>1, <1>2, <1>3 DEF IInv, TaskInv
<1>6. SlotInv'
  BY <1>1, <1>3 DEF IInv, SlotInv
<1>7. ActiveInv'
  BY <1>1 DEF IInv, ActiveInv
<1> QED BY <1>4, <1>5, <1>6, <1>7 DEF IInv

\* on_task_finished takes the task out of the active turn: it is its own.
LEMMA FinishTakeStep ==
    ASSUME IInv, TypeOK', NEW t \in Tasks, task[t].pc = "finish1", ~task[t].cancelled,
           NEW r \in TaskRecord, task' = [task EXCEPT ![t] = r],
           r.pc = "finish2", r.turn = active, slot' = [slot EXCEPT ![active] = NoTask],
           UNCHANGED <<active, act>>
    PROVE  IInv'
<1>1. task'[t] = r /\ \A u \in Tasks : u # t => task'[u] = task[u]
  BY Types DEF IInv
<1>2. RunningTask = t /\ t # NoTask
  BY DEF IInv, TaskInv, BusyPcs
<1>3. active \in TurnStates /\ slot[active] = t /\ active # NoTurn
  BY <1>2, Types DEF IInv, RunningTask
<1>4. slot'[active] = NoTask /\ \A s \in TurnStates : s # active => slot'[s] = slot[s]
  BY <1>3, Types DEF IInv
<1>5. RunningTask' = NoTask
  BY <1>4 DEF RunningTask
<1>6. \A a \in Actors : act[a].pc \notin StartPcs \cup AbortPcs
  BY <1>2 DEF IInv, CallerInv
<1>7. CallerInv'
  <2>1. \A a \in Actors : act[a].pc \notin {"idle", "exited"} => \E u \in Tasks : task'[u].pc = "unborn"
    BY <1>1 DEF IInv, CallerInv
  <2> QED BY <1>6, <2>1 DEF IInv, CallerInv, AbortPcs
<1>8. TaskInv'
  <2> SUFFICES ASSUME NEW u \in Tasks
               PROVE  /\ task'[u].pc \notin BusyPcs
                      /\ task'[u].pc \in FinishPcs <=> task'[u].turn # NoTurn
                      /\ task'[u].pc \in FinishPcs => slot'[task'[u].turn] = NoTask
                      /\ task'[u].pc = "unborn" => task'[u].input = {}
    BY <1>6 DEF TaskInv
  <2>1. CASE u = t
    BY <1>1, <1>3, <1>4, <2>1 DEF BusyPcs, RunPcs, FinishPcs
  <2>2. CASE u # t
    <3>1. task[u].pc \notin BusyPcs
      BY <1>2, <1>6, <2>2 DEF IInv, TaskInv, AbortPcs
    <3>2. task[u].pc \in FinishPcs => task[u].turn \in TurnStates /\ slot[task[u].turn] = NoTask
      BY Types DEF IInv, TaskInv, TaskRecord
    <3>3. task[u].pc \in FinishPcs => slot'[task[u].turn] = NoTask
      BY <1>4, <3>2
    <3> QED BY <1>1, <2>2, <3>1, <3>3 DEF IInv, TaskInv
  <2> QED BY <2>1, <2>2
<1>9. SlotInv'
  BY <1>5 DEF SlotInv
<1>10. ActiveInv'
  BY <1>1 DEF ActiveInv
<1> QED BY <1>7, <1>8, <1>9, <1>10 DEF IInv

\* on_task_finished goes on with the turn it holds.
LEMMA FinishStep ==
    ASSUME IInv, TypeOK', UNCHANGED <<active, slot, act>>,
           NEW t \in Tasks, NEW r \in TaskRecord, task' = [task EXCEPT ![t] = r],
           task[t].pc \in FinishPcs, r.pc \in FinishPcs, r.turn = task[t].turn
    PROVE  IInv'
<1>1. task'[t] = r /\ \A u \in Tasks : u # t => task'[u] = task[u]
  BY Types DEF IInv
<1>2. r.pc \notin BusyPcs \cup Ended \cup {"unborn"} /\ task[t].pc \notin BusyPcs \cup Ended \cup {"unborn"}
  BY DEF BusyPcs, FinishPcs, Ended, RunPcs
<1>3. RunningTask' = RunningTask
  BY DEF RunningTask
<1>4. CallerInv'
  <2> SUFFICES ASSUME NEW a \in Actors
               PROVE  /\ act[a].pc \in AbortPcs =>
                           /\ task'[act[a].task].cancelled
                           /\ task'[act[a].task].pc \in BusyPcs \cup Ended
                      /\ act[a].pc = "report" => task'[act[a].task].pc \in Ended
                      /\ act[a].pc \notin {"idle", "exited"} => \E u \in Tasks : task'[u].pc = "unborn"
    BY <1>3 DEF IInv, CallerInv
  <2> QED BY <1>1, <1>2 DEF IInv, CallerInv, AbortPcs
<1>5. TaskInv'
  <2> SUFFICES ASSUME NEW u \in Tasks
               PROVE  /\ task'[u].pc \in BusyPcs =>
                            IF task'[u].cancelled THEN \E a \in Actors : act[a].pc = "wait" /\ act[a].task = u
                            ELSE RunningTask = u
                      /\ task'[u].pc \in FinishPcs <=> task'[u].turn # NoTurn
                      /\ task'[u].pc \in FinishPcs =>
                            /\ slot[task'[u].turn] = NoTask
                            /\ active = task'[u].turn => \A a \in Actors : act[a].pc \notin StartPcs
                      /\ task'[u].pc = "unborn" => task'[u].input = {}
    BY <1>3 DEF TaskInv
  <2>1. CASE u = t
    BY <1>1, <1>2, <2>1 DEF IInv, TaskInv
  <2>2. CASE u # t
    BY <1>1, <2>2 DEF IInv, TaskInv
  <2> QED BY <2>1, <2>2
<1>6. SlotInv'
  BY <1>1, <1>2, <1>3 DEF IInv, SlotInv
<1>7. ActiveInv'
  BY <1>1 DEF IInv, ActiveInv
<1> QED BY <1>4, <1>5, <1>6, <1>7 DEF IInv

\* The finished turn is cleared: it is still active, without a task, or another
\* is.
LEMMA ClearStep ==
    ASSUME IInv, TypeOK', NEW t \in Tasks, finishClear(t)
    PROVE  IInv'
<1> DEFINE r == [task[t] EXCEPT !.pc = "done", !.turn = NoTurn]
<1>1. task[t].pc = "finish4" /\ task' = [task EXCEPT ![t] = r] /\ UNCHANGED <<slot, act>>
  BY DEF finishClear
<1>2. task[t] \in TaskRecord /\ task[t].turn \in TurnStates /\ slot[task[t].turn] = NoTask
  BY <1>1, Types DEF IInv, TaskInv, FinishPcs, TaskRecord
<1>3. r.pc = "done" /\ r.turn = NoTurn
  BY <1>2 DEF TaskRecord
<1> HIDE DEF r
<1>4. task'[t] = r /\ \A u \in Tasks : u # t => task'[u] = task[u]
  BY <1>1, Types DEF IInv
<1>5. active' = IF active = task[t].turn THEN NoTurn ELSE active
  BY <1>2 DEF finishClear, RunningTask
<1>6. RunningTask' = RunningTask
  BY <1>1, <1>2, <1>5 DEF RunningTask
<1>7. CallerInv'
  <2> SUFFICES ASSUME NEW a \in Actors
               PROVE  /\ act[a].pc \in AbortPcs =>
                           /\ active' = NoTurn
                           /\ task'[act[a].task].cancelled
                           /\ task'[act[a].task].pc \in BusyPcs \cup Ended
                      /\ act[a].pc = "report" => task'[act[a].task].pc \in Ended
                      /\ act[a].pc = "extend" => active' # NoTurn /\ act[a].turn = active'
                      /\ act[a].pc \notin {"idle", "exited"} => \E u \in Tasks : task'[u].pc = "unborn"
    BY <1>1, <1>6 DEF IInv, CallerInv
  <2>1. task[t].pc \notin BusyPcs \cup Ended \cup {"unborn"}
    BY <1>1 DEF BusyPcs, RunPcs, Ended
  <2>2. act[a].pc = "extend" => active' # NoTurn /\ act[a].turn = active'
    BY <1>1, <1>5 DEF IInv, CallerInv, TaskInv, StartPcs, FinishPcs
  <2> QED BY <1>4, <1>5, <2>1, <2>2 DEF IInv, CallerInv, AbortPcs
<1>8. TaskInv'
  <2> SUFFICES ASSUME NEW u \in Tasks
               PROVE  /\ task'[u].pc \in BusyPcs =>
                            IF task'[u].cancelled THEN \E a \in Actors : act[a].pc = "wait" /\ act[a].task = u
                            ELSE RunningTask = u
                      /\ task'[u].pc \in FinishPcs <=> task'[u].turn # NoTurn
                      /\ task'[u].pc \in FinishPcs =>
                            /\ slot[task'[u].turn] = NoTask
                            /\ active' = task'[u].turn => \A a \in Actors : act[a].pc \notin StartPcs
                      /\ task'[u].pc = "unborn" => task'[u].input = {}
    BY <1>1, <1>6 DEF TaskInv
  <2>1. CASE u = t
    BY <1>3, <1>4, <2>1 DEF BusyPcs, RunPcs, FinishPcs
  <2>2. CASE u # t
    BY <1>4, <1>5, <2>2 DEF IInv, TaskInv
  <2> QED BY <2>1, <2>2
<1>9. SlotInv'
  <2>1. task[t].pc \notin BusyPcs
    BY <1>1 DEF BusyPcs, RunPcs
  <2>2. RunningTask \in Tasks \cup {NoTask}
    BY Types DEF IInv, RunningTask
  <2> QED BY <1>4, <1>6, <2>1, <2>2 DEF IInv, SlotInv
<1>10. ActiveInv'
  BY <1>1, <1>4, <1>5 DEF IInv, ActiveInv
<1> QED BY <1>7, <1>8, <1>9, <1>10 DEF IInv

-----------------------------------------------------------------------------
(* The inductive invariant: every action.                                  *)

\* What goes into the queues when input is steered or injected.
LEMMA QueuedTypes ==
    ASSUME TypeOK, active # NoTurn, NEW i \in Items
    PROVE  [pending EXCEPT ![active] = @ \cup {i}] \in [TurnStates -> SUBSET Items]
BY Types

LEMMA SubmitIInv ==
    ASSUME Actors \subseteq {"loop"}, IInv, Submit
    PROVE  IInv'
<1>0. TypeOK
  BY DEF IInv
<1>steer. ASSUME NEW i \in UserInputs, Steer(i), used' = used \cup {i} PROVE IInv'
  <2>1. active # NoTurn /\ i \in Items /\ i \in Ops
    BY <1>steer DEF Steer, RunningTask, Items, Ops
  <2>2. TypeOK'
    BY <1>0, <1>steer, <2>1, QueuedTypes, Types, TypesNext DEF Steer
  <2> QED BY <1>steer, <2>2, QueueStep DEF Steer
<1>loop. ASSUME NEW r \in Caller, NEW op, op \in Ops, Begin("loop", op),
                act' = [act EXCEPT !["loop"] = r],
                UNCHANGED <<active, slot, pending, phase, task, settled, log>>,
                mailbox' \subseteq Mails, accepted' \subseteq Items,
                r.pc \in {"take", "maybe"}, r.turn = NoTurn, r.items = {},
                r.why = "Interrupted" \/ r.pc # "take" => r.input = {}
         PROVE  IInv'
  <2>1. /\ "loop" \in Actors /\ act["loop"].pc = "idle"
        /\ \E t \in Tasks : task[t].pc = "unborn"
    BY <1>loop, LoopBegins
  <2>2. used' \subseteq Ops
    BY <1>0, <1>loop, Types DEF Begin
  <2>3. TypeOK'
    BY <1>0, <1>loop, <2>1, <2>2, Types, TypesNext
  <2> QED BY <1>loop, <2>1, <2>3, LoopStep DEF AbortPcs, StartPcs
<1>idle. Idle \in Caller
  BY DEF Idle, Caller, ActorPcs
<1>1. ASSUME NEW i \in UserInputs, user_input_or_turn(i) PROVE IInv'
  <2>0. i \in Items /\ i \in Ops /\ Begin("loop", i)
    BY <1>1 DEF user_input_or_turn, Items, Ops
  <2>1. CASE Steer(i)
    BY <1>1, <1>steer, <2>1 DEF user_input_or_turn, Begin
  <2>2. CASE UNCHANGED <<active, slot, pending, phase, mailbox, task, act, accepted, settled, log>>
    <3>1. TypeOK'
      BY <1>0, <2>0, <2>2, Types, TypesNext DEF Begin
    <3> QED BY <2>2, <3>1, QueueStep
  <2>3. CASE /\ act' = [act EXCEPT !["loop"] = [Idle EXCEPT !.pc = "take", !.input = {i}]]
             /\ accepted' = accepted \cup {i}
             /\ UNCHANGED <<active, slot, pending, phase, mailbox, task, settled, log>>
    <3> DEFINE r == [Idle EXCEPT !.pc = "take", !.input = {i}]
    <3>1. r \in Caller
      BY <1>idle, <2>0 DEF Caller, ActorPcs
    <3>2. r.pc = "take" /\ r.turn = NoTurn /\ r.items = {} /\ r.why = "Replaced"
      BY DEF Idle
    <3> HIDE DEF r
    <3>3. accepted' \subseteq Items /\ mailbox' \subseteq Mails
      BY <1>0, <2>0, <2>3, Types
    <3>4. act' = [act EXCEPT !["loop"] = r]
      BY <2>3 DEF r
    <3> QED BY <1>loop, <2>0, <2>3, <3>1, <3>2, <3>3, <3>4
  <2> QED BY <1>1, <2>1, <2>2, <2>3 DEF user_input_or_turn
<1>2. ASSUME NEW i \in UserInputs, steer_input(i) PROVE IInv'
  BY <1>2, <1>steer DEF steer_input
<1>3. ASSUME NEW c \in Compacts, compact(c) PROVE IInv'
  <2> DEFINE r == [Idle EXCEPT !.pc = "take", !.kind = "Compact"]
  <2>1. r \in Caller
    BY <1>idle DEF Caller, ActorPcs
  <2>2. r.pc = "take" /\ r.turn = NoTurn /\ r.items = {} /\ r.input = {}
    BY DEF Idle
  <2>3. act' = [act EXCEPT !["loop"] = r] /\ Begin("loop", c) /\ c \in Ops
        /\ UNCHANGED <<active, slot, pending, phase, mailbox, task, accepted, settled, log>>
    BY <1>3 DEF compact, Ops
  <2> HIDE DEF r
  <2>4. accepted' \subseteq Items /\ mailbox' \subseteq Mails
    BY <1>0, <2>3, Types
  <2> QED BY <1>loop, <2>1, <2>2, <2>3, <2>4
<1>4. ASSUME NEW op \in Interrupts \cup {"Shutdown"}, interrupt(op) PROVE IInv'
  <2> DEFINE l == (op = "Shutdown")
             r == [Idle EXCEPT !.pc = "take", !.why = "Interrupted", !.last = l]
  <2>1. l \in BOOLEAN
    OBVIOUS
  <2>3. act' = [act EXCEPT !["loop"] = r] /\ Begin("loop", op) /\ op \in Ops
        /\ UNCHANGED <<active, slot, pending, phase, mailbox, task, accepted, settled, log>>
    BY <1>4 DEF interrupt, Ops
  <2> HIDE DEF l
  <2>2. r \in Caller
    BY <1>idle, <2>1 DEF Caller, ActorPcs
  <2>4. r.pc = "take" /\ r.turn = NoTurn /\ r.items = {} /\ r.input = {}
    BY DEF Idle
  <2> HIDE DEF r
  <2>5. accepted' \subseteq Items /\ mailbox' \subseteq Mails
    BY <1>0, <2>3, Types
  <2> QED BY <1>loop, <2>2, <2>3, <2>4, <2>5
<1>5. ASSUME NEW m \in Mails, inter_agent_communication(m) PROVE IInv'
  <2>0. /\ m \in Items /\ m \in Ops /\ Begin("loop", m)
        /\ mailbox' \subseteq Mails /\ accepted' \subseteq Items
        /\ UNCHANGED <<active, slot, pending, phase, task, settled, log>>
    BY <1>0, <1>5, Types DEF inter_agent_communication, Items, Ops
  <2>1. CASE UNCHANGED act
    <3>1. TypeOK'
      BY <1>0, <2>0, <2>1, Types, TypesNext DEF Begin
    <3> QED BY <2>0, <2>1, <3>1, QueueStep
  <2>2. CASE act' = [act EXCEPT !["loop"] = [Idle EXCEPT !.pc = "maybe"]]
    <3> DEFINE r == [Idle EXCEPT !.pc = "maybe"]
    <3>1. r \in Caller
      BY <1>idle DEF Caller, ActorPcs
    <3>2. r.pc = "maybe" /\ r.turn = NoTurn /\ r.items = {} /\ r.input = {}
      BY DEF Idle
    <3> HIDE DEF r
    <3>3. act' = [act EXCEPT !["loop"] = r]
      BY <2>2 DEF r
    <3> QED BY <1>loop, <2>0, <3>1, <3>2, <3>3
  <2> QED BY <1>5, <2>1, <2>2 DEF inter_agent_communication
<1>6. ASSUME NEW i \in Injected, inject_no_new_turn(i) PROVE IInv'
  <2>1. i \in Items /\ i \in Ops
    BY <1>6 DEF Items, Ops
  <2>2. TypeOK'
    <3>1. pending' \in [TurnStates -> SUBSET Items] /\ settled' \subseteq Items
      BY <1>0, <1>6, <2>1, QueuedTypes, Types DEF inject_no_new_turn
    <3> QED BY <1>0, <1>6, <2>1, <3>1, Types, TypesNext DEF inject_no_new_turn
  <2> QED BY <1>6, <2>2, QueueStep DEF inject_no_new_turn
<1>7. ASSUME NEW i \in IdleItems, try_start_turn_if_idle(i) PROVE IInv'
  BY <1>7 DEF try_start_turn_if_idle, Begin
<1>8. ASSUME NEW d \in Denials, record_guardian_denial(d) PROVE IInv'
  BY <1>8 DEF record_guardian_denial, Begin
<1> QED BY <1>1, <1>2, <1>3, <1>4, <1>5, <1>6, <1>7, <1>8 DEF Submit

\* Goto and Return, as updates of one caller.
LEMMA GotoIs ==
    ASSUME act \in [Actors -> Caller], NEW a \in Actors, NEW pc \in ActorPcs, Goto(a, pc)
    PROVE  \E r \in Caller :
              /\ act' = [act EXCEPT ![a] = r]
              /\ r.pc = pc /\ r.turn = act[a].turn /\ r.items = act[a].items
              /\ r.input = act[a].input /\ r.why = act[a].why /\ r.task = act[a].task
<1> DEFINE r == [act[a] EXCEPT !.pc = pc]
<1>1. act[a] \in Caller
  OBVIOUS
<1>2. /\ r \in Caller
      /\ r.pc = pc /\ r.turn = act[a].turn /\ r.items = act[a].items
      /\ r.input = act[a].input /\ r.why = act[a].why /\ r.task = act[a].task
  BY <1>1 DEF Caller
<1>3. act' = [act EXCEPT ![a] = r]
  BY DEF Goto
<1> HIDE DEF r
<1> QED BY <1>2, <1>3

LEMMA ReturnIs ==
    ASSUME act \in [Actors -> Caller], NEW a \in Actors, Return(a)
    PROVE  \E r \in Caller :
              /\ act' = [act EXCEPT ![a] = r]
              /\ r.pc \in {"idle", "exited"} /\ r.turn = NoTurn
              /\ r.items = {} /\ r.input = {} /\ r.why = "Replaced"
<1> DEFINE p == IF act[a].last THEN "exited" ELSE "idle"
           l == act[a].last
           r == [Idle EXCEPT !.pc = p, !.last = l]
<1>1. act[a] \in Caller
  OBVIOUS
<1>2. p \in {"idle", "exited"} /\ p \in ActorPcs /\ l \in BOOLEAN
  BY <1>1 DEF Caller, ActorPcs
<1>3. Idle \in Caller
  BY DEF Idle, Caller, ActorPcs
<1>4. act' = [act EXCEPT ![a] = r]
  BY DEF Return
<1> HIDE DEF p, l
<1>5. r \in Caller
  BY <1>2, <1>3 DEF Caller
<1>6. r.pc = p /\ r.turn = NoTurn /\ r.items = {} /\ r.input = {} /\ r.why = "Replaced"
  BY DEF Idle
<1> HIDE DEF r
<1> QED BY <1>2, <1>4, <1>5, <1>6

LEMMA ActorIInv ==
    ASSUME Actors \subseteq {"loop"}, IInv, NEW a \in Actors, ActorStep(a)
    PROVE  IInv'
<1>0. TypeOK /\ act \in [Actors -> Caller] /\ act[a] \in Caller /\ act[a].pc \in LoopPcs
  BY Types DEF IInv, CallerInv
<1>1. ASSUME abort_all_tasks(a) PROVE IInv'
  <2>0. act[a].pc = "take" /\ TakeTurn(a) /\ active' = NoTurn
        /\ UNCHANGED <<pending, phase, mailbox, used, accepted, settled, log>>
    BY <1>1 DEF abort_all_tasks, TakeTurn
  <2>1. CASE RunningTask # NoTask
    <3> DEFINE t == RunningTask
               r == [act[a] EXCEPT !.pc = "wait", !.turn = active, !.task = t]
               q == [task[t] EXCEPT !.cancelled = TRUE]
    <3>1. /\ act' = [act EXCEPT ![a] = r] /\ task' = [task EXCEPT ![t] = q]
          /\ slot' = [slot EXCEPT ![active] = NoTask]
      BY <2>0, <2>1 DEF TakeTurn
    <3>2. active \in TurnStates /\ t \in Tasks
      BY <1>0, <2>1, Types DEF RunningTask
    <3>3. q \in TaskRecord
      <4>1. task[t] \in TaskRecord
        BY <1>0, <3>2, Types
      <4> QED BY <4>1 DEF TaskRecord
    <3> HIDE DEF t, q
    <3>4. r \in Caller
      BY <1>0, <3>2 DEF Caller, ActorPcs
    <3> HIDE DEF r
    <3>5. TypeOK'
      BY <1>0, <2>0, <3>1, <3>2, <3>3, <3>4, Types, TypesNext
    <3> QED BY <2>0, <2>1, <3>5, CancelStep
  <2>2. CASE RunningTask = NoTask /\ act[a].why = "Replaced"
    <3>1. Goto(a, "start1") /\ UNCHANGED <<task, slot>>
      BY <2>0, <2>2 DEF TakeTurn
    <3>2. PICK r \in Caller :
            /\ act' = [act EXCEPT ![a] = r] /\ r.pc = "start1" /\ r.turn = act[a].turn
            /\ r.items = act[a].items /\ r.input = act[a].input /\ r.why = act[a].why
      BY <1>0, <3>1, GotoIs DEF ActorPcs
    <3>3. TypeOK'
      BY <1>0, <2>0, <3>1, <3>2, Types, TypesNext
    <3>4. act[a].turn = NoTurn /\ act[a].items = {}
      BY <2>0 DEF IInv, CallerInv, AbortPcs
    <3> QED BY <2>0, <2>2, <3>1, <3>2, <3>3, <3>4, DropStep
  <2>3. CASE RunningTask = NoTask /\ act[a].why # "Replaced"
    <3>1. Return(a) /\ UNCHANGED <<task, slot>>
      BY <2>0, <2>3 DEF TakeTurn
    <3>2. PICK r \in Caller :
            /\ act' = [act EXCEPT ![a] = r] /\ r.pc \in {"idle", "exited"} /\ r.turn = NoTurn
            /\ r.items = {} /\ r.input = {} /\ r.why = "Replaced"
      BY <1>0, <3>1, ReturnIs
    <3>3. TypeOK'
      BY <1>0, <2>0, <3>1, <3>2, Types, TypesNext
    <3> QED BY <2>0, <2>3, <3>1, <3>2, <3>3, DropStep
  <2> QED BY <2>1, <2>2, <2>3
<1>2. ASSUME abort_turn_if_active(a) PROVE IInv'
  BY <1>0, <1>2 DEF abort_turn_if_active, LoopPcs, StartPcs, AbortPcs
<1>3. ASSUME abortTask(a) PROVE IInv'
  <2>1. Goto(a, "report") /\ task' = Kill(task, act[a].task)
        /\ UNCHANGED <<active, slot, pending, phase, mailbox, used, accepted, settled, log>>
        /\ act[a].task \in Tasks
    BY <1>3 DEF abortTask, IInv, CallerInv, AbortPcs
  <2>2. act' \in [Actors -> Caller]
    BY <1>0, <2>1, CallerTypes DEF ActorPcs
  <2>3. task' \in [Tasks -> TaskRecord]
    <3> DEFINE t == act[a].task
               q == [task[t] EXCEPT !.pc = "killed", !.turn = NoTurn]
    <3>1. task \in [Tasks -> TaskRecord] /\ task[t] \in TaskRecord
      BY <1>0, <2>1, Types
    <3>2. q \in TaskRecord
      BY <3>1 DEF TaskRecord, Ended
    <3>3. task' = task \/ task' = [task EXCEPT ![t] = q]
      BY <2>1 DEF Kill
    <3> HIDE DEF q, t
    <3> QED BY <3>1, <3>2, <3>3
  <2>4. TypeOK'
    BY <1>0, <2>1, <2>2, <2>3, Types, TypesNext
  <2> QED BY <1>3, <2>4, KillStep
<1>4. ASSUME reportAborted(a) PROVE IInv'
  <2> DEFINE s == act[a].turn
             p == IF act[a].why = "Interrupted" THEN "maybe" ELSE "start1"
             r == [act[a] EXCEPT !.pc = p, !.turn = NoTurn, !.task = NoTask]
  <2>1. /\ act' = [act EXCEPT ![a] = r] /\ Emit("TurnAborted", act[a].task)
        /\ settled' = settled \cup pending[s] /\ pending' = [pending EXCEPT ![s] = {}]
        /\ UNCHANGED <<active, slot, phase, mailbox, task, used, accepted>>
        /\ act[a].task \in Tasks /\ s \in TurnStates
    BY <1>4 DEF reportAborted, IInv, CallerInv, AbortPcs
  <2>2. p \in ActorPcs
    BY DEF ActorPcs
  <2> HIDE DEF p
  <2>3. r \in Caller
    BY <1>0, <2>2 DEF Caller
  <2> HIDE DEF r
  <2>4. log' \in Seq(Events)
    BY <1>0, <2>1, EmitTypes, Types
  <2>5. pending' \in [TurnStates -> SUBSET Items] /\ settled' \subseteq Items
    BY <1>0, <2>1, Types
  <2>6. TypeOK'
    BY <1>0, <2>1, <2>3, <2>4, <2>5, Types, TypesNext
  <2> QED BY <1>4, <2>6, ReportStep
<1>5. ASSUME maybe_start_turn_for_pending_work(a) PROVE IInv'
  <2>0. act[a].pc = "maybe"
        /\ UNCHANGED <<active, slot, pending, phase, mailbox, task, used, accepted, settled, log>>
    BY <1>5 DEF maybe_start_turn_for_pending_work
  <2>1. act[a].turn = NoTurn /\ act[a].items = {} /\ act[a].input = {}
        /\ \E t \in Tasks : task[t].pc = "unborn"
    BY <2>0 DEF IInv, CallerInv, AbortPcs
  <2>2. PICK r \in Caller :
          /\ act' = [act EXCEPT ![a] = r] /\ r.pc \in {"idle", "exited", "reserve"}
          /\ r.turn = NoTurn /\ r.items = {} /\ r.input = {}
    <3>1. CASE Goto(a, "reserve")
      BY <1>0, <2>1, <3>1, GotoIs DEF ActorPcs
    <3>2. CASE Return(a)
      BY <1>0, <3>2, ReturnIs
    <3> QED BY <1>5, <3>1, <3>2 DEF maybe_start_turn_for_pending_work
  <2>3. TypeOK'
    BY <1>0, <2>0, <2>2, Types, TypesNext
  <2> QED BY <2>0, <2>1, <2>2, <2>3, LoopStep DEF AbortPcs, StartPcs
<1>6. ASSUME reserveTurn(a) PROVE IInv'
  <2>0. act[a].pc = "reserve" /\ UNCHANGED <<mailbox, task, used, accepted, settled, log>>
    BY <1>6 DEF reserveTurn
  <2>1. act[a].turn = NoTurn /\ act[a].items = {} /\ act[a].input = {}
    BY <2>0 DEF IInv, CallerInv, AbortPcs
  <2>2. CASE Return(a) /\ UNCHANGED <<active, slot, pending, phase>>
    <3>1. PICK r \in Caller :
            /\ act' = [act EXCEPT ![a] = r] /\ r.pc \in {"idle", "exited"} /\ r.turn = NoTurn
            /\ r.items = {} /\ r.input = {}
      BY <1>0, <2>2, ReturnIs
    <3>2. TypeOK'
      BY <1>0, <2>0, <2>2, <3>1, Types, TypesNext
    <3> QED BY <2>0, <2>2, <3>1, <3>2, LoopStep DEF AbortPcs, StartPcs
  <2>3. CASE active = NoTurn /\ NewActiveTurn(NoTask, {}) /\ Goto(a, "start1")
    <3>1. PICK r \in Caller :
            /\ act' = [act EXCEPT ![a] = r] /\ r.pc = "start1" /\ r.turn = act[a].turn
            /\ r.items = act[a].items /\ r.input = act[a].input /\ r.why = act[a].why
      BY <1>0, <2>3, GotoIs DEF ActorPcs
    <3>2. TypeOK'
      BY <1>0, <2>0, <2>3, <3>1, NewTurnTypes, Types, TypesNext
    <3> QED BY <2>0, <2>1, <2>3, <3>1, <3>2, NewTurnStep
  <2> QED BY <1>6, <2>2, <2>3 DEF reserveTurn
<1>7. ASSUME takePending(a) PROVE IInv'
  <2> DEFINE items == PendingInput
             r == [act[a] EXCEPT !.pc = "start2", !.items = items]
  <2>1. /\ act[a].pc = "start1" /\ TakePendingInput /\ act' = [act EXCEPT ![a] = r]
        /\ UNCHANGED <<active, slot, phase, task, used, accepted, settled, log>>
    BY <1>7 DEF takePending
  <2>2. items \subseteq Items
    BY <1>0, TakesTypes
  <2> HIDE DEF items
  <2>3. /\ r \in Caller /\ r.pc = "start2" /\ r.turn = act[a].turn
        /\ r.input = act[a].input /\ r.why = act[a].why
    BY <1>0, <2>2 DEF Caller, ActorPcs
  <2> HIDE DEF r
  <2>4. TypeOK'
    BY <1>0, <2>1, <2>3, TakesTypes, Types, TypesNext
  <2>5. act[a].turn = NoTurn
    BY <2>1 DEF IInv, CallerInv, AbortPcs
  <2> QED BY <2>1, <2>3, <2>4, <2>5, StartStep DEF StartPcs
<1>8. ASSUME enterTurn(a) PROVE IInv'
  <2>1. act[a].pc = "start2" /\ UNCHANGED <<mailbox, task, used, accepted, settled, log>>
    BY <1>8 DEF enterTurn
  <2>3. CASE active # NoTurn /\ act' = [act EXCEPT ![a].pc = "extend", ![a].turn = active]
             /\ UNCHANGED <<active, slot, pending, phase>>
    <3> DEFINE r == [act[a] EXCEPT !.pc = "extend", !.turn = active]
    <3>1. act' = [act EXCEPT ![a] = r] /\ active \in TurnStates
      BY <1>0, <2>3, Types
    <3>2. /\ r \in Caller /\ r.pc = "extend" /\ r.turn = active
          /\ r.input = act[a].input /\ r.why = act[a].why
      BY <1>0, <3>1 DEF Caller, ActorPcs
    <3> HIDE DEF r
    <3>3. TypeOK'
      <4>1. act' \in [Actors -> Caller]
        BY <1>0, <3>1, <3>2, Types
      <4> QED BY <1>0, <2>1, <2>3, <4>1, Types, TypesNext
    <3> QED BY <2>1, <2>3, <3>1, <3>2, <3>3, StartStep DEF StartPcs
  <2>4. CASE active = NoTurn /\ NewActiveTurn(NoTask, {})
             /\ act' = [act EXCEPT ![a].pc = "extend", ![a].turn = Fresh]
    <3> DEFINE s == Fresh
               r == [act[a] EXCEPT !.pc = "extend", !.turn = s]
    <3>1. act' = [act EXCEPT ![a] = r] /\ s \in TurnStates
      BY <1>0, <2>4, FreshExists DEF IInv
    <3>0. s = Fresh
      OBVIOUS
    <3> HIDE DEF s
    <3>2. /\ r \in Caller /\ r.pc = "extend" /\ r.turn = s
          /\ r.input = act[a].input /\ r.why = act[a].why
      BY <1>0, <3>1 DEF Caller, ActorPcs
    <3> HIDE DEF r
    <3>3. TypeOK'
      <4>1. /\ active' \in TurnStates
            /\ slot' \in [TurnStates -> Tasks \cup {NoTask}]
            /\ pending' \in [TurnStates -> SUBSET Items]
            /\ phase' \in [TurnStates -> {"CurrentTurn", "NextTurn"}]
        BY <1>0, <2>4, NewTurnTypes
      <4>2. act' \in [Actors -> Caller]
        BY <1>0, <3>1, <3>2, Types
      <4> QED BY <1>0, <2>1, <4>1, <4>2, Types, TypesNext
    <3> QED BY <3>0, <2>1, <2>4, <3>1, <3>2, <3>3, NewTurnStep
  <2> QED BY <1>8, <2>3, <2>4 DEF enterTurn
<1>11. ASSUME extendPending(a) PROVE IInv'
  <2> DEFINE none == {}
             r == [act[a] EXCEPT !.pc = "start3", !.turn = NoTurn, !.items = none]
  <2>1. /\ act[a].pc = "extend" /\ act' = [act EXCEPT ![a] = r]
        /\ pending' = [pending EXCEPT ![act[a].turn] = @ \cup act[a].items]
        /\ UNCHANGED <<active, slot, phase, mailbox, task, used, accepted, settled, log>>
    BY <1>11 DEF extendPending
  <2>2. /\ r \in Caller /\ r.pc = "start3" /\ r.turn = NoTurn /\ r.items = {}
        /\ r.input = act[a].input /\ r.why = act[a].why
    BY <1>0 DEF Caller, ActorPcs
  <2> HIDE DEF r
  <2>3. act[a].turn \in TurnStates /\ act[a].items \subseteq Items
    BY <1>0, <2>1, Types DEF IInv, CallerInv, Caller
  <2>4. pending' \in [TurnStates -> SUBSET Items]
    BY <1>0, <2>1, <2>3, Types
  <2>5. TypeOK'
    BY <1>0, <2>1, <2>2, <2>4, Types, TypesNext
  <2> QED BY <2>1, <2>2, <2>5, StartStep DEF StartPcs
<1>9. ASSUME start_task(a) PROVE IInv'
  <2> DEFINE t == CHOOSE u \in Unstarted : TRUE
             k == act[a].kind
             in == act[a].input
             r == [Unborn EXCEPT !.pc = "spawned", !.kind = k, !.input = in]
  <2>1. /\ act[a].pc = "start3" /\ Return(a)
        /\ UNCHANGED <<mailbox, used, accepted, settled, log>>
    BY <1>9 DEF start_task
  <2>2. RunningTask = NoTask
    BY <2>1 DEF IInv, CallerInv, StartPcs
  <2>3. t \in Tasks
    BY <2>1 DEF IInv, CallerInv, Unstarted
  <2>4. task' = [task EXCEPT ![t] = r]
    BY <1>9, <2>2 DEF start_task, Kill
  <2>5. k \in {"Regular", "Compact"} /\ in \in SUBSET Items
    BY <1>0 DEF Caller
  <2>6. Unborn \in TaskRecord
    BY DEF Unborn, TaskRecord
  <2> HIDE DEF k, in
  <2>7. r \in TaskRecord
    BY <2>5, <2>6 DEF TaskRecord, RunPcs
  <2> HIDE DEF r
  <2>8. /\ active' \in TurnStates /\ slot' \in [TurnStates -> Tasks \cup {NoTask}]
        /\ pending' \in [TurnStates -> SUBSET Items]
        /\ phase' \in [TurnStates -> {"CurrentTurn", "NextTurn"}]
    <3>1. CASE active # NoTurn /\ slot' = [slot EXCEPT ![active] = t] /\ UNCHANGED <<active, phase, pending>>
      BY <1>0, <2>3, <3>1, Types
    <3>2. CASE active = NoTurn /\ NewActiveTurn(t, {})
      BY <1>0, <2>3, <3>2, NewTurnTypes
    <3> QED BY <1>9, <3>1, <3>2 DEF start_task
  <2>9. act' \in [Actors -> Caller]
    BY <1>0, <2>1, CallerTypes
  <2>10. TypeOK'
    BY <1>0, <2>1, <2>3, <2>4, <2>7, <2>8, <2>9, Types, TypesNext
  <2> QED BY <1>9, <2>1, <2>10, SpawnStep
<1>10. ASSUME \/ reserveIdle(a) \/ recheckMail(a) \/ confirmReserved(a)
              \/ clear_reserved_idle_turn(a) \/ extendReserved(a)
       PROVE  IInv'
  BY <1>0, <1>10 DEF reserveIdle, recheckMail, confirmReserved, clear_reserved_idle_turn,
                     extendReserved, LoopPcs, StartPcs, AbortPcs
<1> QED
  BY <1>1, <1>2, <1>3, <1>4, <1>5, <1>6, <1>7, <1>8, <1>9, <1>10, <1>11 DEF ActorStep

\* Move, as an update of one task.
LEMMA MoveIs ==
    ASSUME task \in [Tasks -> TaskRecord], NEW t \in Tasks,
           NEW pc \in RunPcs \cup EndPcs \cup Ended, Move(t, pc)
    PROVE  \E r \in TaskRecord :
              /\ task' = [task EXCEPT ![t] = r]
              /\ r.pc = pc /\ r.cancelled = task[t].cancelled /\ r.turn = task[t].turn
              /\ r.input = task[t].input
<1> DEFINE r == [task[t] EXCEPT !.pc = pc]
<1>1. task[t] \in TaskRecord
  OBVIOUS
<1>2. /\ r \in TaskRecord
      /\ r.pc = pc /\ r.cancelled = task[t].cancelled /\ r.turn = task[t].turn
      /\ r.input = task[t].input
  BY <1>1 DEF TaskRecord
<1>3. task' = [task EXCEPT ![t] = r]
  BY DEF Move
<1> HIDE DEF r
<1> QED BY <1>2, <1>3

LEMMA TaskIInv ==
    ASSUME Actors \subseteq {"loop"}, IInv, NEW t \in Tasks, TaskStep(t)
    PROVE  IInv'
<1>0. TypeOK /\ task \in [Tasks -> TaskRecord] /\ task[t] \in TaskRecord
  BY Types DEF IInv
<1>in. task[t].input \subseteq Items
  BY <1>0 DEF TaskRecord
<1>moves. ASSUME NEW pc \in BusyPcs, task[t].pc \in BusyPcs, Move(t, pc),
                 UNCHANGED <<active, slot, phase, act, used, accepted>>,
                 pending' \in [TurnStates -> SUBSET Items], mailbox' \subseteq Mails,
                 settled' \subseteq Items, log' \in Seq(Events)
          PROVE  IInv'
  <2>1. PICK r \in TaskRecord :
          /\ task' = [task EXCEPT ![t] = r]
          /\ r.pc = pc /\ r.cancelled = task[t].cancelled /\ r.turn = task[t].turn
    BY <1>0, <1>moves, MoveIs DEF BusyPcs, EndPcs
  <2>2. TypeOK'
    BY <1>0, <1>moves, <2>1, Types, TypesNext
  <2> QED BY <1>moves, <2>1, <2>2, BusyStep
<1>runs. ASSUME NEW r \in TaskRecord, task' = [task EXCEPT ![t] = r],
                task[t].pc \in BusyPcs, r.pc \in BusyPcs,
                r.cancelled = task[t].cancelled, r.turn = task[t].turn,
                settled' \subseteq Items,
                UNCHANGED <<active, slot, pending, phase, mailbox, act, used, accepted, log>>
         PROVE  IInv'
  <2>1. TypeOK'
    BY <1>0, <1>runs, Types, TypesNext
  <2> QED BY <1>runs, <2>1, BusyStep
<1>1. ASSUME begin(t) PROVE IInv'
  <2>1. log' \in Seq(Events)
    BY <1>0, <1>1, EmitTypes, Types DEF begin
  <2>2. pending' \in [TurnStates -> SUBSET Items] /\ mailbox' \subseteq Mails /\ settled' \subseteq Items
    BY <1>0, <1>1, Types DEF begin
  <2> QED BY <1>1, <1>moves, <2>1, <2>2 DEF begin, BusyPcs, RunPcs
<1>2. ASSUME prepare(t) PROVE IInv'
  <2>1. /\ task[t].pc = "prepare" /\ settled' \subseteq Items
        /\ UNCHANGED <<active, slot, pending, phase, mailbox, act, used, accepted, log>>
    BY <1>0, <1>in, <1>2, Types DEF prepare
  <2>2. ASSUME task' = [task EXCEPT ![t].pc = "drain", ![t].input = {},
                                    ![t].drain = (task[t].input = {})]
        PROVE  IInv'
    <3> DEFINE none == {}
               d == (task[t].input = {})
               r == [task[t] EXCEPT !.pc = "drain", !.input = none, !.drain = d]
    <3>1. d \in BOOLEAN
      OBVIOUS
    <3>2. task' = [task EXCEPT ![t] = r]
      BY <2>2
    <3> HIDE DEF d
    <3>3. /\ r \in TaskRecord /\ r.pc = "drain" /\ r.cancelled = task[t].cancelled
          /\ r.turn = task[t].turn
      BY <1>0, <3>1 DEF TaskRecord, RunPcs
    <3> HIDE DEF r
    <3> QED BY <1>runs, <2>1, <3>2, <3>3 DEF BusyPcs, RunPcs
  <2>3. ASSUME task' = [task EXCEPT ![t].pc = "check", ![t].input = {}] PROVE IInv'
    <3> DEFINE none == {}
               r == [task[t] EXCEPT !.pc = "check", !.input = none]
    <3>1. task' = [task EXCEPT ![t] = r]
      BY <2>3
    <3>2. /\ r \in TaskRecord /\ r.pc = "check" /\ r.cancelled = task[t].cancelled
          /\ r.turn = task[t].turn
      BY <1>0 DEF TaskRecord, RunPcs
    <3> HIDE DEF r
    <3> QED BY <1>runs, <2>1, <3>1, <3>2 DEF BusyPcs, RunPcs
  <2> QED BY <1>2, <2>2, <2>3 DEF prepare
<1>3. ASSUME drain(t) PROVE IInv'
  <2>1. /\ pending' \in [TurnStates -> SUBSET Items] /\ mailbox' \subseteq Mails
        /\ settled' \subseteq Items /\ log' \in Seq(Events)
    BY <1>0, <1>3, TakesTypes, Types DEF drain
  <2> QED BY <1>3, <1>moves, <2>1 DEF drain, BusyPcs, RunPcs
<1>4. ASSUME sampled(t) PROVE IInv'
  <2>1. /\ task[t].pc = "sampling" /\ settled' \subseteq Items
        /\ UNCHANGED <<active, slot, pending, phase, mailbox, act, used, accepted, log>>
        /\ pending' \in [TurnStates -> SUBSET Items] /\ mailbox' \subseteq Mails
        /\ log' \in Seq(Events)
    BY <1>0, <1>4, Types DEF sampled
  <2>2. ASSUME NEW d \in BOOLEAN, task' = [task EXCEPT ![t].pc = "drain", ![t].drain = d]
        PROVE  IInv'
    <3> DEFINE r == [task[t] EXCEPT !.pc = "drain", !.drain = d]
    <3>1. task' = [task EXCEPT ![t] = r]
      BY <2>2
    <3>2. /\ r \in TaskRecord /\ r.pc = "drain" /\ r.cancelled = task[t].cancelled
          /\ r.turn = task[t].turn
      BY <1>0, <2>2 DEF TaskRecord, RunPcs
    <3> HIDE DEF r
    <3> QED BY <1>runs, <2>1, <3>1, <3>2 DEF BusyPcs, RunPcs
  <2>3. ASSUME Move(t, "check") PROVE IInv'
    BY <1>moves, <2>1, <2>3 DEF BusyPcs, RunPcs
  <2> QED BY <1>4, <2>2, <2>3 DEF sampled
<1>5. ASSUME samplingFails(t) \/ check(t) PROVE IInv'
  <2>1. /\ pending' \in [TurnStates -> SUBSET Items] /\ mailbox' \subseteq Mails
        /\ settled' \subseteq Items /\ log' \in Seq(Events)
    BY <1>0, <1>5, Types DEF samplingFails, check
  <2> QED BY <1>5, <1>moves, <2>1 DEF samplingFails, check, BusyPcs, RunPcs
<1>6. ASSUME returns(t) PROVE IInv'
  <2>1. PICK failed \in BOOLEAN :
          task' = [task EXCEPT ![t].pc = "return", ![t].failed = failed, ![t].input = {}]
    BY <1>6 DEF returns
  <2> DEFINE none == {}
             r == [task[t] EXCEPT !.pc = "return", !.failed = failed, !.input = none]
  <2>2. task' = [task EXCEPT ![t] = r]
    BY <2>1
  <2>3. /\ r \in TaskRecord /\ r.pc = "return" /\ r.cancelled = task[t].cancelled
        /\ r.turn = task[t].turn
    BY <1>0 DEF TaskRecord, EndPcs
  <2>4. /\ task[t].pc \in BusyPcs /\ settled' \subseteq Items
        /\ UNCHANGED <<active, slot, pending, phase, mailbox, act, used, accepted, log>>
    BY <1>0, <1>in, <1>6, Types DEF returns, BusyPcs, RunPcs
  <2> HIDE DEF r
  <2> QED BY <1>runs, <2>2, <2>3, <2>4 DEF BusyPcs
<1>over. ASSUME task[t].pc \in BusyPcs, task[t].cancelled, Move(t, "done"),
                UNCHANGED <<active, slot, pending, phase, mailbox, act, used, accepted, settled, log>>
         PROVE  IInv'
  <2>0. "done" \in RunPcs \cup EndPcs \cup Ended
    BY DEF Ended
  <2>1. PICK r \in TaskRecord :
          /\ task' = [task EXCEPT ![t] = r]
          /\ r.pc = "done" /\ r.cancelled = task[t].cancelled /\ r.turn = task[t].turn
    <3> DEFINE pc == "done"
    <3>1. pc \in RunPcs \cup EndPcs \cup Ended /\ Move(t, pc)
      BY <1>over, <2>0
    <3> HIDE DEF pc
    <3>2. \E r \in TaskRecord :
            /\ task' = [task EXCEPT ![t] = r]
            /\ r.pc = pc /\ r.cancelled = task[t].cancelled /\ r.turn = task[t].turn
      BY <1>0, <3>1, MoveIs
    <3> QED BY <3>2 DEF pc
  <2>2. TypeOK'
    BY <1>0, <1>over, <2>1, Types, TypesNext
  <2> QED BY <1>over, <2>1, <2>2, OverStep
<1>7. ASSUME leave(t) PROVE IInv'
  <2>1. /\ task[t].pc = "return"
        /\ UNCHANGED <<active, slot, pending, phase, mailbox, act, used, accepted, settled, log>>
        /\ pending' \in [TurnStates -> SUBSET Items] /\ mailbox' \subseteq Mails
        /\ settled' \subseteq Items /\ log' \in Seq(Events)
    BY <1>0, <1>7, Types DEF leave
  <2>2. CASE task[t].cancelled
    BY <1>7, <1>over, <2>1, <2>2 DEF leave, BusyPcs
  <2>3. CASE ~task[t].cancelled
    BY <1>7, <1>moves, <2>1, <2>3 DEF leave, BusyPcs
  <2> QED BY <2>2, <2>3
<1>8. ASSUME finishTake(t) PROVE IInv'
  <2>1. /\ task[t].pc = "finish1" /\ task[t].pc \in BusyPcs
        /\ UNCHANGED <<active, pending, phase, mailbox, act, used, accepted, settled, log>>
    BY <1>8 DEF finishTake, BusyPcs
  <2>2. CASE task[t].cancelled
    <3>1. RunningTask = NoTask
      BY <2>1, <2>2 DEF IInv, TaskInv, CallerInv, AbortPcs
    <3> QED BY <1>8, <1>over, <2>1, <2>2, <3>1 DEF finishTake
  <2>3. CASE ~task[t].cancelled
    <3>1. RunningTask = t /\ RunningTask # NoTask
      BY <2>1, <2>3 DEF IInv, TaskInv
    <3>2. active \in TurnStates
      BY <1>0, <3>1, Types DEF RunningTask
    <3> DEFINE r == [task[t] EXCEPT !.pc = "finish2", !.turn = active]
    <3>3. slot' = [slot EXCEPT ![active] = NoTask] /\ task' = [task EXCEPT ![t] = r]
      BY <1>8, <3>1 DEF finishTake
    <3>4. r \in TaskRecord /\ r.pc = "finish2" /\ r.turn = active
      BY <1>0, <3>2 DEF TaskRecord, EndPcs
    <3> HIDE DEF r
    <3>5. TypeOK'
      BY <1>0, <2>1, <3>2, <3>3, <3>4, Types, TypesNext
    <3> QED BY <2>1, <2>3, <3>3, <3>4, <3>5, FinishTakeStep
  <2> QED BY <2>2, <2>3
<1>finish. ASSUME NEW pc \in FinishPcs, task[t].pc \in FinishPcs, Move(t, pc),
                  UNCHANGED <<active, slot, phase, mailbox, act, used, accepted>>,
                  pending' \in [TurnStates -> SUBSET Items],
                  settled' \subseteq Items, log' \in Seq(Events)
           PROVE  IInv'
  <2>1. PICK r \in TaskRecord :
          task' = [task EXCEPT ![t] = r] /\ r.pc = pc /\ r.turn = task[t].turn
    BY <1>0, <1>finish, MoveIs DEF FinishPcs, EndPcs
  <2>2. TypeOK'
    BY <1>0, <1>finish, <2>1, Types, TypesNext
  <2> QED BY <1>finish, <2>1, <2>2, FinishStep
<1>9. ASSUME finishInput(t) PROVE IInv'
  <2>1. task[t].turn \in TurnStates
    BY <1>0, <1>9 DEF finishInput, IInv, TaskInv, FinishPcs, TaskRecord
  <2>2. /\ pending' \in [TurnStates -> SUBSET Items]
        /\ settled' \subseteq Items /\ log' \in Seq(Events)
    BY <1>0, <1>9, <2>1, Types DEF finishInput
  <2> QED BY <1>9, <1>finish, <2>2 DEF finishInput, FinishPcs
<1>10. ASSUME finishEvent(t) PROVE IInv'
  <2>1. log' \in Seq(Events)
    BY <1>0, <1>10, EmitTypes, Types DEF finishEvent
  <2>2. pending' \in [TurnStates -> SUBSET Items] /\ settled' \subseteq Items
    BY <1>0, <1>10, Types DEF finishEvent
  <2> QED BY <1>10, <1>finish, <2>1, <2>2 DEF finishEvent, FinishPcs
<1>11. ASSUME finishClear(t) PROVE IInv'
  <2> DEFINE r == [task[t] EXCEPT !.pc = "done", !.turn = NoTurn]
  <2>1. r \in TaskRecord
    BY <1>0 DEF TaskRecord, Ended
  <2>2. task' = [task EXCEPT ![t] = r]
    BY <1>11 DEF finishClear
  <2> HIDE DEF r
  <2>3. active' \in TurnStates \cup {NoTurn}
        /\ UNCHANGED <<slot, pending, phase, mailbox, act, used, accepted, settled, log>>
    BY <1>0, <1>11, Types DEF finishClear
  <2>4. TypeOK'
    BY <1>0, <2>1, <2>2, <2>3, Types, TypesNext
  <2> QED BY <1>11, <2>4, ClearStep
<1> QED
  BY <1>1, <1>2, <1>3, <1>4, <1>5, <1>6, <1>7, <1>8, <1>9, <1>10, <1>11 DEF TaskStep

LEMMA StepIInv ==
    ASSUME Actors \subseteq {"loop"}, IInv, [Next]_vars
    PROVE  IInv'
<1>0. TypeOK
  BY DEF IInv
<1>1. CASE UNCHANGED vars
  <2>1. TypeOK'
    BY <1>0, <1>1, Types, TypesNext DEF vars
  <2> QED BY <1>1, <2>1, QueueStep DEF vars
<1>2. CASE Submit
  BY <1>2, SubmitIInv
<1>3. CASE \E a \in Actors : ActorStep(a)
  BY <1>3, ActorIInv
<1>4. CASE \E t \in Tasks : TaskStep(t)
  BY <1>4, TaskIInv
<1>5. ASSUME NEW t \in Tasks,
             defer_mailbox_delivery_to_next_turn(t) \/ accept_mailbox_delivery_for_current_turn(t)
      PROVE  IInv'
  <2>1. /\ phase' \in [TurnStates -> {"CurrentTurn", "NextTurn"}]
        /\ UNCHANGED <<active, slot, pending, mailbox, task, act, used, accepted, settled, log>>
    BY <1>0, <1>5, Types DEF defer_mailbox_delivery_to_next_turn, accept_mailbox_delivery_for_current_turn
  <2>2. TypeOK'
    BY <1>0, <2>1, Types, TypesNext
  <2> QED BY <2>1, <2>2, QueueStep
<1> QED BY <1>1, <1>2, <1>3, <1>4, <1>5 DEF Next, AtRest

LEMMA InitIInv == Init => IInv
<1> SUFFICES ASSUME Init PROVE IInv
  OBVIOUS
<1>1. TypeOK
  <2>1. Unborn \in TaskRecord /\ Idle \in Caller
    BY DEF Unborn, TaskRecord, Idle, Caller, ActorPcs
  <2>2. task \in [Tasks -> TaskRecord] /\ act \in [Actors -> Caller]
    BY <2>1 DEF Init
  <2>3. log \in Seq(Events)
    BY DEF Init
  <2> QED BY <2>2, <2>3, Types DEF Init
<1>2. (\A a \in Actors : act[a] = Idle) /\ (\A t \in Tasks : task[t] = Unborn) /\ active = NoTurn
  BY DEF Init
<1>3. CallerInv /\ TaskInv /\ SlotInv /\ ActiveInv
  BY <1>2 DEF CallerInv, TaskInv, SlotInv, ActiveInv, RunningTask, Idle, Unborn, LoopPcs,
              StartPcs, AbortPcs, BusyPcs, RunPcs, FinishPcs
<1> QED BY <1>1, <1>3 DEF IInv

\* The types hold, and the active turn, the callers and the tasks agree on which
\* task runs, is waited for or finishes, in every reachable state of a session
\* whose only caller is the submission loop.
THEOREM TurnInvariant ==
    ASSUME Actors \subseteq {"loop"}
    PROVE  Spec => []IInv
<1>1. Init => IInv
  BY InitIInv
<1>2. IInv /\ [Next]_vars => IInv'
  BY StepIInv
<1> QED BY <1>1, <1>2, PTL DEF Spec

\* At most one task runs uncancelled (abort_all_tasks waits for the task it has
\* cancelled before spawn_task starts the next one).
THEOREM OneTask ==
    ASSUME Actors \subseteq {"loop"}
    PROVE  Spec => []AtMostOneTask
<1>1. IInv => AtMostOneTask
  BY DEF IInv, TaskInv, AtMostOneTask, Live, BusyPcs
<1> QED BY <1>1, TurnInvariant, PTL

\* A session at rest has no active turn: neither a reservation nor a finished
\* turn is left behind (finishClear, start_task).
THEOREM IdleAtRest ==
    ASSUME Actors \subseteq {"loop"}
    PROVE  Spec => []RestIsIdle
<1>1. ASSUME IInv, Quiet, active # NoTurn PROVE FALSE
  <2>1. CASE slot[active] # NoTask
    <3>1. RunningTask = slot[active] /\ slot[active] \in Tasks
      BY <1>1, <2>1, Types DEF IInv, RunningTask
    <3> QED BY <1>1, <2>1, <3>1 DEF IInv, SlotInv, Quiet, BusyPcs, RunPcs, Ended
  <2>2. CASE \E t \in Tasks : task[t].turn = active
    BY <1>1, <2>2 DEF IInv, TaskInv, Quiet, FinishPcs, Ended
  <2>3. CASE \E a \in Actors : act[a].pc \in StartPcs
    BY <1>1, <2>3 DEF Quiet, StartPcs
  <2> QED BY <1>1, <2>1, <2>2, <2>3 DEF IInv, ActiveInv
<1>2. IInv => RestIsIdle
  BY <1>1 DEF RestIsIdle
<1> QED BY <1>2, TurnInvariant, PTL

-----------------------------------------------------------------------------
(* The events of a turn.                                                   *)

NoEvent(t) == \A i \in DOMAIN log : log[i][2] # t
NoEnd(t) == \A i \in DOMAIN log : log[i][2] = t => ~IsEnd(log[i])

OpenPcs == BusyPcs \cup {"finish2", "finish3"}

EndsInOrder ==
    \A i, j \in DOMAIN log :
        i < j /\ log[i][2] = log[j][2] => ~IsEnd(log[i]) /\ IsEnd(log[j])

\* A task that has not begun has no event, one that has not finished or that the
\* loop is aborting has no end.
EventInv ==
    /\ \A t \in Tasks :
          /\ task[t].pc \in {"unborn", "spawned"} => NoEvent(t)
          /\ task[t].pc \in OpenPcs => NoEnd(t)
    /\ \A a \in Actors : act[a].pc \in AbortPcs => NoEnd(act[a].task)
    /\ EndsInOrder

\* A step that sends no event: a task is not open again after its end, and only
\* an open one is aborted.
LEMMA SilentStep ==
    ASSUME EventInv, UNCHANGED log,
           \A t \in Tasks :
              /\ task'[t].pc \in {"unborn", "spawned"} => task[t].pc \in {"unborn", "spawned"}
              /\ task'[t].pc \in OpenPcs => task[t].pc \in OpenPcs \cup {"unborn"},
           \A a \in Actors : act'[a].pc \in AbortPcs =>
              \/ act[a].pc \in AbortPcs /\ act'[a].task = act[a].task
              \/ act'[a].task \in Tasks /\ task[act'[a].task].pc \in OpenPcs
    PROVE  EventInv'
<1>1. \A t : NoEvent(t)' = NoEvent(t) /\ NoEnd(t)' = NoEnd(t)
  BY DEF NoEvent, NoEnd
<1>2. \A t : NoEvent(t) => NoEnd(t)
  BY DEF NoEvent, NoEnd
<1>3. EndsInOrder'
  BY DEF EventInv, EndsInOrder
<1>4. \A t \in Tasks :
        /\ task'[t].pc \in {"unborn", "spawned"} => NoEvent(t)
        /\ task'[t].pc \in OpenPcs => NoEnd(t)
  BY <1>2 DEF EventInv
<1>5. \A a \in Actors : act'[a].pc \in AbortPcs => NoEnd(act'[a].task)
  BY DEF EventInv
<1> HIDE DEF NoEvent, NoEnd
<1> QED BY <1>3, <1>4, <1>5, <1>1 DEF EventInv, NoEvent, NoEnd

\* An event of t is appended: its start, which is its first event, or its end,
\* which is its first end.
LEMMA Appended ==
    ASSUME log \in Seq(Events), EndsInOrder, NEW t \in Tasks,
           NEW e \in {"TurnStarted", "TurnComplete", "TurnAborted"}, Emit(e, t),
           IF e = "TurnStarted" THEN NoEvent(t) ELSE NoEnd(t)
    PROVE  /\ EndsInOrder'
           /\ \A u \in Tasks : u # t => (NoEvent(u) => NoEvent(u)') /\ (NoEnd(u) => NoEnd(u)')
           /\ e = "TurnStarted" => NoEnd(t)'
<1> DEFINE x == <<e, t>>
<1>1. /\ DOMAIN log = 1 .. Len(log) /\ DOMAIN log' = 1 .. Len(log) + 1 /\ Len(log) \in Nat
      /\ \A i \in 1 .. Len(log) : log'[i] = log[i]
      /\ log'[Len(log) + 1] = x
  <2>1. x \in Events
    BY DEF Events
  <2> HIDE DEF x
  <2>2. log' = Append(log, x)
    BY DEF Emit, x
  <2> QED BY <2>1, <2>2
<1>2. x[1] = e /\ x[2] = t /\ (IsEnd(x) <=> e # "TurnStarted")
  BY DEF IsEnd
<1> HIDE DEF x
<1>3. EndsInOrder'
  <2> SUFFICES ASSUME NEW i \in DOMAIN log', NEW j \in DOMAIN log', i < j,
                      log'[i][2] = log'[j][2]
               PROVE  ~IsEnd(log'[i]) /\ IsEnd(log'[j])
    BY DEF EndsInOrder, IsEnd
  <2>1. i \in 1 .. Len(log) /\ log'[i] = log[i]
    BY <1>1
  <2>2. CASE j \in 1 .. Len(log)
    BY <1>1, <2>1, <2>2 DEF EndsInOrder
  <2>3. CASE j = Len(log) + 1
    BY <1>1, <1>2, <2>1, <2>3 DEF NoEvent, NoEnd
  <2> QED BY <1>1, <2>2, <2>3
<1>4. ASSUME NEW u \in Tasks, u # t
      PROVE  (NoEvent(u) => NoEvent(u)') /\ (NoEnd(u) => NoEnd(u)')
  <2>1. \A i \in DOMAIN log' : log'[i][2] = u => i \in DOMAIN log /\ log'[i] = log[i]
    BY <1>1, <1>2, <1>4
  <2>2. NoEvent(u) => NoEvent(u)'
    BY <2>1 DEF NoEvent
  <2>3. NoEnd(u) => \A i \in DOMAIN log' : log'[i][2] = u => ~IsEnd(log'[i])
    BY <2>1 DEF NoEnd
  <2> QED BY <2>2, <2>3 DEF NoEnd, IsEnd
<1>5. ASSUME e = "TurnStarted" PROVE NoEnd(t)'
  <2>1. \A i \in DOMAIN log' : log'[i][2] = t => ~IsEnd(log'[i])
    BY <1>1, <1>2, <1>5 DEF NoEvent
  <2> QED BY <2>1 DEF NoEnd, IsEnd
<1> QED BY <1>3, <1>4, <1>5

\* What a step of a task changes of it.
LEMMA TaskPcs ==
    ASSUME IInv, NEW t \in Tasks, TaskStep(t)
    PROVE  /\ UNCHANGED act
           /\ \A u \in Tasks : u # t => task'[u] = task[u]
           /\ task'[t].cancelled = task[t].cancelled
           /\ \/ task[t].pc \in BusyPcs /\ task'[t].pc \in BusyPcs \cup {"done", "finish2"}
                 /\ task'[t].pc # "spawned"
              \/ task[t].pc = "finish2" /\ task'[t].pc = "finish3"
              \/ task[t].pc = "finish3" /\ task'[t].pc = "finish4"
              \/ task[t].pc = "finish4" /\ task'[t].pc = "done"
<1>0. task \in [Tasks -> TaskRecord] /\ task[t] \in TaskRecord
  BY Types DEF IInv
<1> DEFINE Change(r) ==
             /\ task' = [task EXCEPT ![t] = r]
             /\ r.cancelled = task[t].cancelled
             /\ \/ task[t].pc \in BusyPcs /\ r.pc \in BusyPcs \cup {"done", "finish2"}
                   /\ r.pc # "spawned"
                \/ task[t].pc = "finish2" /\ r.pc = "finish3"
                \/ task[t].pc = "finish3" /\ r.pc = "finish4"
                \/ task[t].pc = "finish4" /\ r.pc = "done"
<1>1. UNCHANGED act
  BY DEF TaskStep, begin, prepare, drain, sampled, samplingFails, check, returns, leave,
         finishTake, finishInput, finishEvent, finishClear
<1>moves. ASSUME NEW pc \in RunPcs \cup EndPcs \cup Ended, Move(t, pc),
                 \/ task[t].pc \in BusyPcs /\ pc \in BusyPcs \cup {"done", "finish2"} /\ pc # "spawned"
                 \/ task[t].pc = "finish2" /\ pc = "finish3"
                 \/ task[t].pc = "finish3" /\ pc = "finish4"
          PROVE  \E r : Change(r)
  <2>1. PICK r \in TaskRecord :
          task' = [task EXCEPT ![t] = r] /\ r.pc = pc /\ r.cancelled = task[t].cancelled
    BY <1>0, <1>moves, MoveIs
  <2> QED BY <1>moves, <2>1
<1>2. ASSUME begin(t) \/ samplingFails(t) \/ check(t) \/ leave(t) PROVE \E r : Change(r)
  <2>1. PICK pc \in {"prepare", "compacting", "check", "return", "done", "finish1"} :
          Move(t, pc) /\ task[t].pc \in BusyPcs
    BY <1>2 DEF begin, samplingFails, check, leave, BusyPcs, RunPcs
  <2>2. pc \in RunPcs \cup EndPcs \cup Ended /\ pc \in BusyPcs \cup {"done"} /\ pc # "spawned"
    BY DEF BusyPcs, RunPcs, EndPcs, Ended
  <2> QED BY <1>moves, <2>1, <2>2
<1>3. ASSUME prepare(t) PROVE \E r : Change(r)
  <2> DEFINE none == {}
             d == (task[t].input = {})
             q == [task[t] EXCEPT !.pc = "drain", !.input = none, !.drain = d]
             r == [task[t] EXCEPT !.pc = "check", !.input = none]
  <2>1. task[t].pc \in BusyPcs /\ (task' = [task EXCEPT ![t] = q] \/ task' = [task EXCEPT ![t] = r])
    BY <1>3 DEF prepare, BusyPcs, RunPcs
  <2> HIDE DEF d
  <2>2. q.pc = "drain" /\ q.cancelled = task[t].cancelled
    BY <1>0 DEF TaskRecord
  <2>3. r.pc = "check" /\ r.cancelled = task[t].cancelled
    BY <1>0 DEF TaskRecord
  <2> HIDE DEF q, r
  <2> QED BY <2>1, <2>2, <2>3 DEF BusyPcs, RunPcs
<1>4. ASSUME drain(t) PROVE \E r : Change(r)
  <2>1. PICK pc \in {"sampling", "check"} : Move(t, pc) /\ task[t].pc \in BusyPcs
    BY <1>4 DEF drain, BusyPcs, RunPcs
  <2>2. pc \in RunPcs \cup EndPcs \cup Ended /\ pc \in BusyPcs /\ pc # "spawned"
    BY DEF BusyPcs, RunPcs
  <2> QED BY <1>moves, <2>1, <2>2
<1>5. ASSUME sampled(t) PROVE \E r : Change(r)
  <2>1. task[t].pc \in BusyPcs
    BY <1>5 DEF sampled, BusyPcs, RunPcs
  <2>2. ASSUME NEW d \in BOOLEAN, task' = [task EXCEPT ![t].pc = "drain", ![t].drain = d]
        PROVE  \E r : Change(r)
    <3> DEFINE r == [task[t] EXCEPT !.pc = "drain", !.drain = d]
    <3>1. task' = [task EXCEPT ![t] = r]
      BY <2>2
    <3>2. r.pc = "drain" /\ r.cancelled = task[t].cancelled
      BY <1>0 DEF TaskRecord
    <3> HIDE DEF r
    <3> QED BY <2>1, <3>1, <3>2 DEF BusyPcs, RunPcs
  <2>3. ASSUME Move(t, "check") PROVE \E r : Change(r)
    <3> DEFINE pc == "check"
    <3>1. Move(t, pc) /\ pc \in RunPcs /\ pc \in BusyPcs /\ pc # "spawned"
      BY <2>3 DEF BusyPcs, RunPcs
    <3> HIDE DEF pc
    <3> QED BY <1>moves, <2>1, <3>1
  <2> HIDE DEF Change
  <2> QED BY <1>5, <2>2, <2>3 DEF sampled
<1>6. ASSUME returns(t) PROVE \E r : Change(r)
  <2>1. PICK failed \in BOOLEAN :
          task' = [task EXCEPT ![t].pc = "return", ![t].failed = failed, ![t].input = {}]
    BY <1>6 DEF returns
  <2> DEFINE none == {}
             r == [task[t] EXCEPT !.pc = "return", !.failed = failed, !.input = none]
  <2>2. task' = [task EXCEPT ![t] = r] /\ task[t].pc \in BusyPcs
    BY <1>6, <2>1 DEF returns, BusyPcs, RunPcs
  <2>3. r.pc = "return" /\ r.cancelled = task[t].cancelled
    BY <1>0 DEF TaskRecord
  <2> HIDE DEF r
  <2> QED BY <2>2, <2>3 DEF BusyPcs
<1>7. ASSUME finishTake(t) PROVE \E r : Change(r)
  <2>1. task[t].pc \in BusyPcs
    BY <1>7 DEF finishTake, BusyPcs
  <2>2. ASSUME Move(t, "done") PROVE \E r : Change(r)
    <3> DEFINE pc == "done"
    <3>1. Move(t, pc) /\ pc \in Ended /\ pc \in {"done"} /\ pc # "spawned"
      BY <2>2 DEF Ended
    <3> HIDE DEF pc
    <3> QED BY <1>moves, <2>1, <3>1
  <2>3. ASSUME task' = [task EXCEPT ![t].pc = "finish2", ![t].turn = active] PROVE \E r : Change(r)
    <3> DEFINE r == [task[t] EXCEPT !.pc = "finish2", !.turn = active]
    <3>1. task' = [task EXCEPT ![t] = r]
      BY <2>3
    <3>2. r.pc = "finish2" /\ r.cancelled = task[t].cancelled
      BY <1>0 DEF TaskRecord
    <3> HIDE DEF r
    <3> QED BY <2>1, <3>1, <3>2
  <2> HIDE DEF Change
  <2> QED BY <1>7, <2>2, <2>3 DEF finishTake
<1>8. ASSUME finishInput(t) \/ finishEvent(t) PROVE \E r : Change(r)
  <2>1. PICK pc \in {"finish3", "finish4"} :
          /\ Move(t, pc)
          /\ \/ task[t].pc = "finish2" /\ pc = "finish3"
             \/ task[t].pc = "finish3" /\ pc = "finish4"
    BY <1>8 DEF finishInput, finishEvent
  <2>2. pc \in EndPcs
    BY DEF EndPcs
  <2> QED BY <1>moves, <2>1, <2>2
<1>9. ASSUME finishClear(t) PROVE \E r : Change(r)
  <2> DEFINE r == [task[t] EXCEPT !.pc = "done", !.turn = NoTurn]
  <2>1. task' = [task EXCEPT ![t] = r] /\ task[t].pc = "finish4"
    BY <1>9 DEF finishClear
  <2>2. r.pc = "done" /\ r.cancelled = task[t].cancelled
    BY <1>0 DEF TaskRecord
  <2> HIDE DEF r
  <2> QED BY <2>1, <2>2
<1>10. PICK r : Change(r)
  <2> HIDE DEF Change
  <2> QED BY <1>2, <1>3, <1>4, <1>5, <1>6, <1>7, <1>8, <1>9 DEF TaskStep
<1>11. task'[t] = r /\ \A u \in Tasks : u # t => task'[u] = task[u]
  BY <1>0, <1>10
<1> QED BY <1>1, <1>10, <1>11

\* The loop aborts the task of the active turn, and only that.
LEMMA CallerAborts ==
    ASSUME Actors \subseteq {"loop"}, IInv, NEW a \in Actors, ActorStep(a)
    PROVE  /\ \A t \in Tasks :
                 \/ task'[t].pc = task[t].pc
                 \/ task[t].pc = "unborn" /\ task'[t].pc = "spawned"
                 \/ task'[t].pc = "killed"
           /\ act'[a].pc \in AbortPcs =>
                 \/ act[a].pc \in AbortPcs /\ act'[a].task = act[a].task
                 \/ act'[a].task \in Tasks /\ task[act'[a].task].pc \in BusyPcs
<1>0. /\ task \in [Tasks -> TaskRecord] /\ act \in [Actors -> Caller] /\ act[a] \in Caller
      /\ act[a].pc \in LoopPcs
  BY Types DEF IInv, CallerInv
<1> DEFINE Goal == /\ \A t \in Tasks :
                         \/ task'[t].pc = task[t].pc
                         \/ task[t].pc = "unborn" /\ task'[t].pc = "spawned"
                         \/ task'[t].pc = "killed"
                   /\ act'[a].pc \in AbortPcs =>
                         \/ act[a].pc \in AbortPcs /\ act'[a].task = act[a].task
                         \/ act'[a].task \in Tasks /\ task[act'[a].task].pc \in BusyPcs
<1>calm. ASSUME UNCHANGED task, NEW pc \in ActorPcs \ AbortPcs, Return(a) \/ Goto(a, pc) PROVE Goal
  <2>1. CASE Return(a)
    <3>1. act'[a].pc \in {"idle", "exited"}
      BY <1>0, <2>1, ReturnIs
    <3> QED BY <1>calm, <3>1 DEF AbortPcs
  <2>2. CASE Goto(a, pc)
    <3>1. act'[a].pc = pc
      BY <1>0, <2>2, GotoIs
    <3> QED BY <1>calm, <3>1 DEF AbortPcs
  <2> QED BY <1>calm, <2>1, <2>2
<1>1. ASSUME abort_all_tasks(a) PROVE Goal
  <2>1. CASE RunningTask # NoTask
    <3> DEFINE t == RunningTask
               r == [act[a] EXCEPT !.pc = "wait", !.turn = active, !.task = t]
               q == [task[t] EXCEPT !.cancelled = TRUE]
    <3>1. act' = [act EXCEPT ![a] = r] /\ task' = [task EXCEPT ![t] = q]
      BY <1>1, <2>1 DEF abort_all_tasks, TakeTurn
    <3>2. t \in Tasks /\ task[t].pc \in BusyPcs /\ task[t] \in TaskRecord
      BY <1>0, <2>1, Types DEF IInv, RunningTask, SlotInv
    <3>3. q.pc = task[t].pc
      BY <3>2 DEF TaskRecord
    <3> HIDE DEF t, q
    <3>4. r.pc = "wait" /\ r.task = t
      BY <1>0 DEF Caller
    <3> HIDE DEF r
    <3> QED BY <1>0, <3>1, <3>2, <3>3, <3>4
  <2>2. CASE RunningTask = NoTask
    <3>1. UNCHANGED task /\ (Return(a) \/ Goto(a, "start1"))
      BY <1>1, <2>2 DEF abort_all_tasks, TakeTurn
    <3>2. "start1" \in ActorPcs \ AbortPcs
      BY DEF ActorPcs, AbortPcs
    <3> QED BY <1>calm, <3>1, <3>2
  <2> QED BY <2>1, <2>2
<1>2. ASSUME abortTask(a) PROVE Goal
  <2> DEFINE t == act[a].task
             q == [task[t] EXCEPT !.pc = "killed", !.turn = NoTurn]
  <2>1. /\ task' = task \/ task' = [task EXCEPT ![t] = q]
        /\ Goto(a, "report") /\ act[a].pc = "wait" /\ t \in Tasks
    BY <1>2 DEF abortTask, Kill, IInv, CallerInv, AbortPcs
  <2>2. task[t] \in TaskRecord
    BY <1>0, <2>1
  <2>3. q.pc = "killed"
    BY <2>2 DEF TaskRecord
  <2> HIDE DEF q
  <2>4. \A u \in Tasks : task'[u].pc = task[u].pc \/ task'[u].pc = "killed"
    BY <1>0, <2>1, <2>3
  <2>5. act'[a].task = act[a].task
    <3>1. "report" \in ActorPcs
      BY DEF ActorPcs
    <3>2. \E r \in Caller : act' = [act EXCEPT ![a] = r] /\ r.task = act[a].task
      BY <1>0, <2>1, <3>1, GotoIs
    <3> QED BY <1>0, <3>2
  <2> QED BY <2>1, <2>4, <2>5 DEF AbortPcs
<1>3. ASSUME reportAborted(a) PROVE Goal
  <2> DEFINE p == IF act[a].why = "Interrupted" THEN "maybe" ELSE "start1"
             r == [act[a] EXCEPT !.pc = p, !.turn = NoTurn, !.task = NoTask]
  <2>1. act' = [act EXCEPT ![a] = r] /\ UNCHANGED task
    BY <1>3 DEF reportAborted
  <2>2. p \notin AbortPcs
    BY DEF AbortPcs
  <2> HIDE DEF p
  <2>3. r.pc = p
    BY <1>0 DEF Caller
  <2> HIDE DEF r
  <2> QED BY <1>0, <2>1, <2>2, <2>3
<1>4. ASSUME maybe_start_turn_for_pending_work(a) \/ reserveTurn(a) PROVE Goal
  <2>1. PICK pc \in {"reserve", "start1"} : UNCHANGED task /\ (Return(a) \/ Goto(a, pc))
    BY <1>4 DEF maybe_start_turn_for_pending_work, reserveTurn
  <2>2. pc \in ActorPcs \ AbortPcs
    BY DEF ActorPcs, AbortPcs
  <2> QED BY <1>calm, <2>1, <2>2
<1>5. ASSUME takePending(a) \/ enterTurn(a) \/ extendPending(a) PROVE Goal
  <2>1. UNCHANGED task
    BY <1>5 DEF takePending, enterTurn, extendPending
  <2>2. ASSUME NEW r, act' = [act EXCEPT ![a] = r], r.pc \in {"start2", "extend", "start3"}
        PROVE  Goal
    BY <1>0, <2>1, <2>2 DEF AbortPcs
  <2>3. ASSUME NEW pc, NEW x, NEW y, NEW r,
               \/ r = [act[a] EXCEPT !.pc = pc, !.items = x]
               \/ r = [act[a] EXCEPT !.pc = pc, !.turn = x]
               \/ r = [act[a] EXCEPT !.pc = pc, !.turn = x, !.items = y]
        PROVE  r.pc = pc
    BY <1>0, <2>3 DEF Caller
  <2>4. CASE takePending(a)
    <3> DEFINE items == PendingInput
               r == [act[a] EXCEPT !.pc = "start2", !.items = items]
    <3>1. act' = [act EXCEPT ![a] = r]
      BY <2>4 DEF takePending
    <3> HIDE DEF items
    <3>2. r.pc = "start2"
      BY <2>3
    <3> QED BY <2>2, <3>1, <3>2
  <2>5. CASE extendPending(a)
    <3> DEFINE none == {}
               r == [act[a] EXCEPT !.pc = "start3", !.turn = NoTurn, !.items = none]
    <3>1. act' = [act EXCEPT ![a] = r]
      BY <2>5 DEF extendPending
    <3>2. r.pc = "start3"
      BY <1>0 DEF Caller
    <3> QED BY <2>2, <3>1, <3>2
  <2>6. ASSUME NEW s, act' = [act EXCEPT ![a].pc = "extend", ![a].turn = s] PROVE Goal
    <3> DEFINE r == [act[a] EXCEPT !.pc = "extend", !.turn = s]
    <3>1. act' = [act EXCEPT ![a] = r]
      BY <2>6
    <3>2. r.pc = "extend"
      BY <2>3
    <3> QED BY <2>2, <3>1, <3>2
  <2> QED BY <1>5, <2>4, <2>5, <2>6 DEF enterTurn
<1>6. ASSUME start_task(a) PROVE Goal
  <2> DEFINE t == CHOOSE u \in Unstarted : TRUE
             k == act[a].kind
             in == act[a].input
             r == [Unborn EXCEPT !.pc = "spawned", !.kind = k, !.input = in]
  <2>1. act[a].pc = "start3" /\ Return(a)
    BY <1>6 DEF start_task
  <2>2. RunningTask = NoTask
    BY <2>1 DEF IInv, CallerInv, StartPcs
  <2>3. t \in Tasks /\ task[t].pc = "unborn"
    BY <2>1 DEF IInv, CallerInv, Unstarted
  <2>4. task' = [task EXCEPT ![t] = r]
    BY <1>6, <2>2 DEF start_task, Kill
  <2>5. r.pc = "spawned"
    BY DEF Unborn
  <2> HIDE DEF r, t
  <2>6. act'[a].pc \in {"idle", "exited"}
    BY <1>0, <2>1, ReturnIs
  <2> QED BY <1>0, <2>3, <2>4, <2>5, <2>6 DEF AbortPcs
<1>7. ~(\/ abort_turn_if_active(a) \/ reserveIdle(a) \/ recheckMail(a) \/ confirmReserved(a)
        \/ clear_reserved_idle_turn(a) \/ extendReserved(a))
  BY <1>0 DEF abort_turn_if_active, reserveIdle, recheckMail, confirmReserved,
              clear_reserved_idle_turn, extendReserved,
              LoopPcs, StartPcs, AbortPcs
<1> QED
  <2> HIDE DEF Goal
  <2>1. Goal
    BY <1>1, <1>2, <1>3, <1>4, <1>5, <1>6, <1>7 DEF ActorStep
  <2> QED BY <2>1 DEF Goal

LEMMA StepEventInv ==
    ASSUME Actors \subseteq {"loop"}, IInv, EventInv, [Next]_vars
    PROVE  EventInv'
<1>0. /\ log \in Seq(Events) /\ act \in [Actors -> Caller] /\ task \in [Tasks -> TaskRecord]
      /\ EndsInOrder
  BY Types DEF IInv, EventInv
<1>apart. "spawned" \in OpenPcs /\ OpenPcs \cap (Ended \cup {"unborn", "finish4"}) = {}
          /\ BusyPcs \subseteq OpenPcs
  BY DEF OpenPcs, BusyPcs, RunPcs, Ended
<1>1. CASE UNCHANGED <<log, task, act>>
  BY <1>1, <1>apart, SilentStep
<1>2. CASE Submit
  <2>1. UNCHANGED <<log, task>>
    BY <1>2 DEF Submit, user_input_or_turn, steer_input, Steer, compact, interrupt,
                inter_agent_communication, inject_no_new_turn, try_start_turn_if_idle,
                record_guardian_denial
  <2>2. \A a \in Actors : act'[a] = act[a] \/ act'[a].pc \in {"take", "maybe"}
    <3>1. CASE UNCHANGED act
      BY <3>1
    <3>2. ASSUME NEW i, act' = [act EXCEPT !["loop"] = [Idle EXCEPT !.pc = "take", !.input = {i}]]
          PROVE  \A a \in Actors : act'[a].pc = "take"
      BY <1>0, <3>2 DEF Idle
    <3>3. ASSUME act' = [act EXCEPT !["loop"] = [Idle EXCEPT !.pc = "take", !.kind = "Compact"]]
          PROVE  \A a \in Actors : act'[a].pc = "take"
      BY <1>0, <3>3 DEF Idle
    <3>4. ASSUME NEW op, act' = [act EXCEPT !["loop"] =
                    [Idle EXCEPT !.pc = "take", !.why = "Interrupted", !.last = (op = "Shutdown")]]
          PROVE  \A a \in Actors : act'[a].pc = "take"
      BY <1>0, <3>4 DEF Idle
    <3>5. ASSUME act' = [act EXCEPT !["loop"] = [Idle EXCEPT !.pc = "maybe"]]
          PROVE  \A a \in Actors : act'[a].pc = "maybe"
      BY <1>0, <3>5 DEF Idle
    <3>6. ASSUME NEW i, try_start_turn_if_idle(i) \/ record_guardian_denial(i) PROVE FALSE
      BY <3>6 DEF try_start_turn_if_idle, record_guardian_denial, Begin
    <3>7. ASSUME NEW i, user_input_or_turn(i)
          PROVE  \A a \in Actors : act'[a] = act[a] \/ act'[a].pc \in {"take", "maybe"}
      BY <3>1, <3>2, <3>7 DEF user_input_or_turn, Steer
    <3>8. ASSUME NEW i, steer_input(i) \/ inject_no_new_turn(i) PROVE UNCHANGED act
      BY <3>8 DEF steer_input, Steer, inject_no_new_turn
    <3>9. ASSUME NEW i, compact(i) PROVE \A a \in Actors : act'[a].pc = "take"
      BY <3>3, <3>9 DEF compact
    <3>10. ASSUME NEW i, interrupt(i) PROVE \A a \in Actors : act'[a].pc = "take"
      BY <3>4, <3>10 DEF interrupt
    <3>11. ASSUME NEW i, inter_agent_communication(i)
           PROVE  \A a \in Actors : act'[a] = act[a] \/ act'[a].pc \in {"take", "maybe"}
      BY <3>1, <3>5, <3>11 DEF inter_agent_communication
    <3> QED BY <1>2, <3>1, <3>6, <3>7, <3>8, <3>9, <3>10, <3>11 DEF Submit
  <2> QED BY <1>apart, <2>1, <2>2, SilentStep DEF AbortPcs
<1>3. ASSUME NEW a \in Actors, ActorStep(a), ~reportAborted(a) PROVE EventInv'
  <2>1. UNCHANGED log
    BY <1>3 DEF ActorStep, abort_all_tasks, TakeTurn, abort_turn_if_active, abortTask,
                maybe_start_turn_for_pending_work, reserveTurn, takePending, enterTurn,
                extendPending, start_task, reserveIdle, recheckMail, confirmReserved,
                clear_reserved_idle_turn, extendReserved
  <2>2. /\ \A t \in Tasks :
              \/ task'[t].pc = task[t].pc
              \/ task[t].pc = "unborn" /\ task'[t].pc = "spawned"
              \/ task'[t].pc = "killed"
        /\ act'[a].pc \in AbortPcs =>
              \/ act[a].pc \in AbortPcs /\ act'[a].task = act[a].task
              \/ act'[a].task \in Tasks /\ task[act'[a].task].pc \in BusyPcs
    BY <1>3, CallerAborts
  <2>3. \A b \in Actors : b = a
    OBVIOUS
  <2>4. \A t \in Tasks :
           /\ task'[t].pc \in {"unborn", "spawned"} => task[t].pc \in {"unborn", "spawned"}
           /\ task'[t].pc \in OpenPcs => task[t].pc \in OpenPcs \cup {"unborn"}
    BY <1>apart, <2>2 DEF Ended
  <2> QED BY <1>apart, <2>1, <2>2, <2>3, <2>4, SilentStep
<1>4. ASSUME NEW a \in Actors, reportAborted(a) PROVE EventInv'
  <2> DEFINE t == act[a].task
  <2>1. /\ act[a].pc = "report" /\ Emit("TurnAborted", t) /\ UNCHANGED task
    BY <1>4 DEF reportAborted
  <2>2. t \in Tasks /\ task[t].pc \in Ended /\ NoEnd(t)
    BY <2>1 DEF IInv, CallerInv, EventInv, AbortPcs
  <2>3. EndsInOrder' /\ \A u \in Tasks : u # t => (NoEvent(u) => NoEvent(u)') /\ (NoEnd(u) => NoEnd(u)')
    <3> DEFINE e == "TurnAborted"
    <3>1. e \in {"TurnStarted", "TurnComplete", "TurnAborted"} /\ e # "TurnStarted" /\ Emit(e, t)
      BY <2>1
    <3> HIDE DEF e
    <3> QED BY <1>0, <2>2, <3>1, Appended
  <2>4. \A b \in Actors : act'[b].pc \notin AbortPcs
    <3> DEFINE p == IF act[a].why = "Interrupted" THEN "maybe" ELSE "start1"
               r == [act[a] EXCEPT !.pc = p, !.turn = NoTurn, !.task = NoTask]
    <3>1. act' = [act EXCEPT ![a] = r] /\ p \notin AbortPcs /\ act[a] \in Caller
      BY <1>0, <1>4 DEF reportAborted, AbortPcs
    <3> HIDE DEF p
    <3>2. r.pc = p
      BY <3>1 DEF Caller
    <3> HIDE DEF r
    <3> QED BY <1>0, <3>1, <3>2
  <2>5. \A u \in Tasks :
          /\ task'[u].pc \in {"unborn", "spawned"} => NoEvent(u)'
          /\ task'[u].pc \in OpenPcs => NoEnd(u)'
    <3> HIDE DEF t
    <3> QED BY <1>apart, <2>1, <2>2, <2>3 DEF EventInv, Ended
  <2> QED BY <2>3, <2>4, <2>5 DEF EventInv
<1>5. ASSUME NEW t \in Tasks, begin(t) PROVE EventInv'
  <2>1. task[t].pc = "spawned" /\ Emit("TurnStarted", t) /\ TaskStep(t) /\ NoEvent(t)
    BY <1>5 DEF begin, TaskStep, EventInv
  <2>2. /\ UNCHANGED act /\ \A u \in Tasks : u # t => task'[u] = task[u]
        /\ task'[t].pc \notin {"unborn", "spawned"}
    BY <2>1, TaskPcs DEF BusyPcs, RunPcs
  <2>3. /\ EndsInOrder' /\ NoEnd(t)'
        /\ \A u \in Tasks : u # t => (NoEvent(u) => NoEvent(u)') /\ (NoEnd(u) => NoEnd(u)')
    <3> DEFINE e == "TurnStarted"
    <3>1. e \in {"TurnStarted", "TurnComplete", "TurnAborted"} /\ e = "TurnStarted" /\ Emit(e, t)
      BY <2>1
    <3> HIDE DEF e
    <3> QED BY <1>0, <2>1, <3>1, Appended
  <2>4. \A u \in Tasks :
          /\ task'[u].pc \in {"unborn", "spawned"} => NoEvent(u)'
          /\ task'[u].pc \in OpenPcs => NoEnd(u)'
    BY <2>2, <2>3 DEF EventInv
  <2>5. \A a \in Actors : act'[a].pc \in AbortPcs => NoEnd(act[a].task)'
    BY <2>2, <2>3 DEF IInv, CallerInv, EventInv
  <2> QED BY <2>2, <2>3, <2>4, <2>5 DEF EventInv
<1>6. ASSUME NEW t \in Tasks, finishEvent(t) PROVE EventInv'
  <2> DEFINE e == IF task[t].failed THEN "TurnAborted" ELSE "TurnComplete"
  <2>1. task[t].pc = "finish3" /\ Emit(e, t) /\ TaskStep(t) /\ NoEnd(t)
    BY <1>6 DEF finishEvent, TaskStep, EventInv, OpenPcs
  <2>2. /\ UNCHANGED act /\ \A u \in Tasks : u # t => task'[u] = task[u]
        /\ task'[t].pc = "finish4"
    BY <2>1, TaskPcs DEF BusyPcs, RunPcs
  <2>3. /\ EndsInOrder'
        /\ \A u \in Tasks : u # t => (NoEvent(u) => NoEvent(u)') /\ (NoEnd(u) => NoEnd(u)')
    <3>1. e \in {"TurnStarted", "TurnComplete", "TurnAborted"} /\ e # "TurnStarted"
      OBVIOUS
    <3> HIDE DEF e
    <3> QED BY <1>0, <2>1, <3>1, Appended
  <2>4. \A u \in Tasks :
          /\ task'[u].pc \in {"unborn", "spawned"} => NoEvent(u)'
          /\ task'[u].pc \in OpenPcs => NoEnd(u)'
    BY <1>apart, <2>2, <2>3 DEF EventInv
  <2>5. \A a \in Actors : act'[a].pc \in AbortPcs => NoEnd(act[a].task)'
    <3>1. \A a \in Actors : act[a].pc \in AbortPcs => act[a].task \in Tasks /\ act[a].task # t
      BY <2>1 DEF IInv, CallerInv, BusyPcs, RunPcs, Ended
    <3> QED BY <2>2, <2>3, <3>1 DEF EventInv
  <2> QED BY <2>2, <2>3, <2>4, <2>5 DEF EventInv
<1>7. ASSUME NEW t \in Tasks, TaskStep(t), ~begin(t), ~finishEvent(t) PROVE EventInv'
  <2>1. UNCHANGED log
    BY <1>7 DEF TaskStep, prepare, drain, sampled, samplingFails, check, returns, leave,
                finishTake, finishInput, finishClear
  <2>2. /\ UNCHANGED act /\ \A u \in Tasks : u # t => task'[u] = task[u]
        /\ \/ task[t].pc \in BusyPcs /\ task'[t].pc \in BusyPcs \cup {"done", "finish2"}
              /\ task'[t].pc # "spawned"
           \/ task[t].pc = "finish2" /\ task'[t].pc = "finish3"
           \/ task[t].pc = "finish3" /\ task'[t].pc = "finish4"
           \/ task[t].pc = "finish4" /\ task'[t].pc = "done"
    BY <1>7, TaskPcs
  <2>3. /\ task'[t].pc \in {"unborn", "spawned"} => task[t].pc \in {"unborn", "spawned"}
        /\ task'[t].pc \in OpenPcs => task[t].pc \in OpenPcs \cup {"unborn"}
    BY <2>2 DEF OpenPcs, BusyPcs, RunPcs
  <2> QED BY <2>1, <2>2, <2>3, SilentStep
<1>8. ASSUME NEW t \in Tasks,
             defer_mailbox_delivery_to_next_turn(t) \/ accept_mailbox_delivery_for_current_turn(t)
      PROVE  EventInv'
  BY <1>1, <1>8 DEF defer_mailbox_delivery_to_next_turn, accept_mailbox_delivery_for_current_turn
<1> QED BY <1>1, <1>2, <1>3, <1>4, <1>5, <1>6, <1>7, <1>8 DEF Next, AtRest, vars

\* The events of a session whose only caller is the submission loop.
LEMMA EventsKept ==
    ASSUME Actors \subseteq {"loop"}
    PROVE  Spec => []EventInv
<1>1. Init => EventInv
  <2> SUFFICES ASSUME Init PROVE EventInv
    OBVIOUS
  <2>1. DOMAIN log = {}
    BY DEF Init
  <2>2. \A a \in Actors : act[a].pc = "idle"
    BY DEF Init, Idle
  <2> QED BY <2>1, <2>2 DEF EventInv, NoEvent, NoEnd, EndsInOrder, AbortPcs
<1>2. IInv /\ EventInv /\ [Next]_vars => EventInv'
  BY StepEventInv
<1> QED BY <1>1, <1>2, TurnInvariant, PTL DEF Spec

\* A turn has at most one TurnStarted and then at most one end, from
\* on_task_finished or from handle_task_abort and never from both.
THEOREM OneEnd ==
    ASSUME Actors \subseteq {"loop"}
    PROVE  Spec => []TurnEndsOnce
<1>1. EventInv => TurnEndsOnce
  BY DEF EventInv, EndsInOrder, TurnEndsOnce
<1> QED BY <1>1, EventsKept, PTL

\* A task whose TurnAborted was sent has ended, or is at the last step of
\* on_task_finished.
THEOREM AbortedForGood ==
    ASSUME Actors \subseteq {"loop"}
    PROVE  Spec => []AbortIsFinal
<1>1. ASSUME IInv, EventInv, NEW i \in DOMAIN log, log[i][1] = "TurnAborted"
      PROVE  task[log[i][2]].pc \in Ended \cup {"finish4"}
  <2>1. log[i] \in Events
    BY <1>1, Types DEF IInv
  <2>2. log[i][2] \in Tasks /\ IsEnd(log[i])
    BY <1>1, <2>1 DEF Events, IsEnd
  <2>3. task[log[i][2]].pc \in {"unborn"} \cup RunPcs \cup EndPcs \cup Ended
    BY <1>1, <2>2, Types DEF IInv, TaskRecord
  <2>4. ~NoEvent(log[i][2]) /\ ~NoEnd(log[i][2])
    BY <1>1, <2>2 DEF NoEvent, NoEnd
  <2>5. task[log[i][2]].pc \notin OpenPcs \cup {"unborn"}
    BY <1>1, <2>2, <2>4 DEF EventInv
  <2> QED BY <2>3, <2>5 DEF OpenPcs, BusyPcs, EndPcs
<1>2. IInv /\ EventInv => AbortIsFinal
  BY <1>1 DEF AbortIsFinal
<1> QED BY <1>2, TurnInvariant, EventsKept, PTL

-----------------------------------------------------------------------------
(* Accepted input.                                                         *)

Refers(s) ==
    \/ active = s
    \/ \E a \in Actors : act[a].turn = s
    \/ \E t \in Tasks : task[t].turn = s

\* The disjuncts of Held.
Kept(i) ==
    \/ i \in mailbox \cup settled
    \/ \E a \in Actors : i \in act[a].items \cup act[a].input
    \/ \E t \in Tasks : (task[t].pc = "killed" => task[t].cancelled) /\ i \in task[t].input
    \/ \E s \in TurnStates : Refers(s) /\ i \in pending[s]

\* Nothing accepted is lost, and no input comes into a turn whose pending input
\* on_task_finished has recorded.
KeptInv ==
    /\ \A i \in accepted : Kept(i)
    /\ \A t \in Tasks : task[t].pc \in {"finish3", "finish4"} => pending[task[t].turn] = {}

LEMMA KeptIsHeld == IInv /\ KeptInv => AcceptedIsKept
<1> SUFFICES ASSUME IInv, KeptInv, NEW i \in accepted PROVE i \in Held
  BY DEF AcceptedIsKept
<1>1. CASE \E s \in TurnStates : Refers(s) /\ i \in pending[s]
  <2>1. PICK s \in TurnStates : Refers(s) /\ i \in pending[s]
    BY <1>1
  <2>2. s \in Referenced \ {NoTurn}
    BY <2>1 DEF Refers, Referenced
  <2> QED BY <2>1, <2>2 DEF Held
<1>2. CASE \E a \in Actors : i \in act[a].items \cup act[a].input
  BY <1>2 DEF Held
<1>3. CASE \E t \in Tasks : (task[t].pc = "killed" => task[t].cancelled) /\ i \in task[t].input
  BY <1>3 DEF Held
<1>4. CASE i \in mailbox \cup settled
  BY <1>4 DEF Held
<1> QED BY <1>1, <1>2, <1>3, <1>4 DEF KeptInv, Kept

\* A step of one task: what it takes out of the queues or of its own input is
\* settled, and it may take hold of the active turn.
LEMMA TaskKept ==
    ASSUME IInv, KeptInv, NEW t \in Tasks, NEW r, task' = [task EXCEPT ![t] = r],
           UNCHANGED <<active, act, accepted>>,
           mailbox \cup settled \subseteq mailbox' \cup settled',
           task[t].input \subseteq r.input \cup settled', r.pc # "killed",
           \A s \in TurnStates : pending'[s] \subseteq pending[s] /\ pending[s] \subseteq pending'[s] \cup settled',
           r.turn = task[t].turn \/ task[t].turn = NoTurn,
           r.pc \in {"finish3", "finish4"} => pending'[r.turn] = {}
    PROVE  KeptInv'
<1>1. task'[t] = r /\ \A u \in Tasks : u # t => task'[u] = task[u]
  BY Types DEF IInv
<1>2. \A s \in TurnStates : Refers(s) => Refers(s)'
  BY <1>1 DEF Refers
<1>3. ASSUME NEW i, Kept(i) PROVE Kept(i)'
  <2>1. CASE \E u \in Tasks : (task[u].pc = "killed" => task[u].cancelled) /\ i \in task[u].input
    BY <1>1, <2>1 DEF Kept
  <2>2. CASE \E s \in TurnStates : Refers(s) /\ i \in pending[s]
    BY <1>2, <2>2 DEF Kept
  <2>3. CASE i \in mailbox \cup settled
    BY <2>3 DEF Kept
  <2>4. CASE \E a \in Actors : i \in act[a].items \cup act[a].input
    BY <2>4 DEF Kept
  <2> QED BY <1>3, <2>1, <2>2, <2>3, <2>4 DEF Kept
<1>4. ASSUME NEW u \in Tasks, task'[u].pc \in {"finish3", "finish4"} PROVE pending'[task'[u].turn] = {}
  <2>1. CASE u = t
    BY <1>1, <1>4, <2>1
  <2>2. CASE u # t
    <3>1. task[u].turn \in TurnStates
      BY <1>1, <1>4, <2>2, Types DEF IInv, TaskInv, FinishPcs, TaskRecord
    <3> QED BY <1>1, <1>4, <2>2, <3>1 DEF KeptInv
  <2> QED BY <2>1, <2>2
<1> QED BY <1>3, <1>4 DEF KeptInv

\* A step of the loop that leaves turns and tasks alone.
LEMMA CallerKept ==
    ASSUME IInv, KeptInv, NEW a \in Actors, NEW r, act' = [act EXCEPT ![a] = r],
           UNCHANGED <<active, pending, task>>,
           mailbox \cup settled \subseteq mailbox' \cup settled',
           act[a].items \cup act[a].input \subseteq r.items \cup r.input,
           act[a].turn \in {NoTurn, r.turn},
           accepted' \subseteq accepted \cup mailbox' \cup r.input
    PROVE  KeptInv'
<1>1. act'[a] = r /\ \A b \in Actors : b # a => act'[b] = act[b]
  BY Types DEF IInv
<1>2. \A s \in TurnStates : Refers(s) => Refers(s)'
  BY <1>1 DEF Refers
<1>3. ASSUME NEW i, Kept(i) PROVE Kept(i)'
  <2>1. CASE \E u \in Tasks : (task[u].pc = "killed" => task[u].cancelled) /\ i \in task[u].input
    BY <2>1 DEF Kept
  <2>2. CASE \E s \in TurnStates : Refers(s) /\ i \in pending[s]
    BY <1>2, <2>2 DEF Kept
  <2>3. CASE i \in mailbox \cup settled
    BY <2>3 DEF Kept
  <2>4. CASE \E b \in Actors : i \in act[b].items \cup act[b].input
    BY <1>1, <2>4 DEF Kept
  <2> QED BY <1>3, <2>1, <2>2, <2>3, <2>4 DEF Kept
<1>4. ASSUME NEW i \in mailbox' \cup r.input PROVE Kept(i)'
  BY <1>1, <1>4 DEF Kept
<1> QED BY <1>3, <1>4 DEF KeptInv

\* Nothing that holds input changes.
LEMMA StillKept ==
    ASSUME KeptInv, UNCHANGED <<active, pending, task, act, mailbox, settled, accepted>>
    PROVE  KeptInv'
BY DEF KeptInv, Kept, Refers

\* Submissions: steered input goes into a turn that has a task and so is not one
\* that finishes; the loop takes up an op with nothing left of the last one.
LEMMA SubmitKept ==
    ASSUME Actors \subseteq {"loop"}, Injected = {}, IInv, KeptInv, Submit
    PROVE  KeptInv'
<1>steer. ASSUME NEW i \in UserInputs, Steer(i) PROVE KeptInv'
  <2>1. /\ active \in TurnStates /\ slot[active] # NoTask
        /\ pending \in [TurnStates -> SUBSET Items]
    BY <1>steer, Types DEF Steer, RunningTask, IInv
  <2>2. /\ pending' = [pending EXCEPT ![active] = @ \cup {i}] /\ accepted' = accepted \cup {i}
        /\ UNCHANGED <<active, mailbox, task, act, settled>>
    BY <1>steer DEF Steer
  <2>3. \A s \in TurnStates : pending[s] \subseteq pending'[s] /\ (s # active => pending'[s] = pending[s])
    BY <2>1, <2>2
  <2>4. i \in pending'[active]
    BY <2>1, <2>2
  <2>5. \A j : Kept(j) => Kept(j)'
    BY <2>2, <2>3 DEF Kept, Refers
  <2>6. Kept(i)'
    BY <2>1, <2>2, <2>4 DEF Kept, Refers
  <2>7. ASSUME NEW t \in Tasks, task[t].pc \in {"finish3", "finish4"} PROVE pending'[task[t].turn] = {}
    <3>1. task[t].turn \in TurnStates /\ task[t].turn # active
      BY <2>1, <2>7, Types DEF IInv, TaskInv, FinishPcs, TaskRecord
    <3> QED BY <2>3, <2>7, <3>1 DEF KeptInv
  <2> QED BY <2>2, <2>5, <2>6, <2>7 DEF KeptInv
<1>loop. ASSUME NEW r, NEW op, Begin("loop", op), act' = [act EXCEPT !["loop"] = r],
                UNCHANGED <<active, pending, task, settled>>, mailbox \subseteq mailbox',
                accepted' \subseteq accepted \cup mailbox' \cup r.input
         PROVE  KeptInv'
  <2>1. "loop" \in Actors /\ act["loop"].pc = "idle"
    BY <1>loop, LoopBegins
  <2>2. act["loop"].items = {} /\ act["loop"].input = {} /\ act["loop"].turn = NoTurn
    BY <2>1 DEF IInv, CallerInv, AbortPcs
  <2> QED BY <1>loop, <2>1, <2>2, CallerKept
<1>1. ASSUME NEW i \in UserInputs, user_input_or_turn(i) PROVE KeptInv'
  <2>1. CASE Steer(i)
    BY <1>steer, <2>1
  <2>2. CASE UNCHANGED <<active, pending, task, act, mailbox, settled, accepted>>
    BY <2>2, StillKept
  <2>3. CASE /\ act' = [act EXCEPT !["loop"] = [Idle EXCEPT !.pc = "take", !.input = {i}]]
             /\ accepted' = accepted \cup {i}
             /\ UNCHANGED <<active, pending, mailbox, task, settled>>
    <3> DEFINE r == [Idle EXCEPT !.pc = "take", !.input = {i}]
    <3>1. r.input = {i}
      BY DEF Idle
    <3>2. act' = [act EXCEPT !["loop"] = r] /\ Begin("loop", i)
      BY <1>1, <2>3 DEF user_input_or_turn
    <3> HIDE DEF r
    <3> QED BY <1>loop, <2>3, <3>1, <3>2
  <2> QED BY <1>1, <2>1, <2>2, <2>3 DEF user_input_or_turn
<1>2. ASSUME NEW i \in UserInputs, steer_input(i) PROVE KeptInv'
  BY <1>2, <1>steer DEF steer_input
<1>3. ASSUME NEW c \in Compacts, compact(c) PROVE KeptInv'
  <2> DEFINE r == [Idle EXCEPT !.pc = "take", !.kind = "Compact"]
  <2>1. /\ act' = [act EXCEPT !["loop"] = r] /\ Begin("loop", c)
        /\ UNCHANGED <<active, pending, task, settled, mailbox, accepted>>
    BY <1>3 DEF compact
  <2> HIDE DEF r
  <2> QED BY <1>loop, <2>1
<1>4. ASSUME NEW op \in Interrupts \cup {"Shutdown"}, interrupt(op) PROVE KeptInv'
  <2> DEFINE r == [Idle EXCEPT !.pc = "take", !.why = "Interrupted", !.last = (op = "Shutdown")]
  <2>1. /\ act' = [act EXCEPT !["loop"] = r] /\ Begin("loop", op)
        /\ UNCHANGED <<active, pending, task, settled, mailbox, accepted>>
    BY <1>4 DEF interrupt
  <2> HIDE DEF r
  <2> QED BY <1>loop, <2>1
<1>5. ASSUME NEW m \in Mails, inter_agent_communication(m) PROVE KeptInv'
  <2>0. /\ Begin("loop", m) /\ mailbox' = mailbox \cup {m} /\ accepted' = accepted \cup {m}
        /\ UNCHANGED <<active, pending, task, settled>>
    BY <1>5 DEF inter_agent_communication
  <2>1. CASE UNCHANGED act
    <3> DEFINE r == act["loop"]
    <3>1. act' = [act EXCEPT !["loop"] = r]
      BY <2>1, Types DEF IInv
    <3> HIDE DEF r
    <3> QED BY <1>loop, <2>0, <3>1
  <2>2. CASE act' = [act EXCEPT !["loop"] = [Idle EXCEPT !.pc = "maybe"]]
    <3> DEFINE r == [Idle EXCEPT !.pc = "maybe"]
    <3>1. act' = [act EXCEPT !["loop"] = r]
      BY <2>2
    <3> HIDE DEF r
    <3> QED BY <1>loop, <2>0, <3>1
  <2> QED BY <1>5, <2>1, <2>2 DEF inter_agent_communication
<1>6. ASSUME NEW i \in IdleItems, try_start_turn_if_idle(i) PROVE FALSE
  BY <1>6 DEF try_start_turn_if_idle, Begin
<1>7. ASSUME NEW d \in Denials, record_guardian_denial(d) PROVE FALSE
  BY <1>7 DEF record_guardian_denial, Begin
<1> QED BY <1>1, <1>2, <1>3, <1>4, <1>5, <1>6, <1>7 DEF Submit

\* A new active turn, in place of none, takes nothing from the turns referred to.
LEMMA NewTurnKept ==
    ASSUME IInv, active = NoTurn, NEW t, NEW items, NewActiveTurn(t, items)
    PROVE  /\ active' \in TurnStates /\ pending'[active'] = items
           /\ ~Refers(active')
           /\ \A s \in TurnStates : s # active' => pending'[s] = pending[s]
<1>1. Fresh \in TurnStates /\ Fresh \notin Referenced
  BY FreshExists DEF IInv
<1>2. active' = Fresh /\ pending' = [pending EXCEPT ![Fresh] = items]
  BY DEF NewActiveTurn
<1>3. pending \in [TurnStates -> SUBSET Items]
  BY Types DEF IInv
<1>4. ~Refers(Fresh)
  BY <1>1 DEF Referenced, Refers
<1>5. Refers(active') = Refers(Fresh)
  BY <1>2
<1> QED BY <1>1, <1>2, <1>3, <1>4 DEF Refers

\* The loop's own steps.  A turn it drops without a task is one a task finishes
\* with; what it takes from the queues it carries until it is in the active turn.
LEMMA ActorKept ==
    ASSUME Actors \subseteq {"loop"}, IInv, KeptInv, NEW a \in Actors, ActorStep(a)
    PROVE  KeptInv'
<1>0. /\ act \in [Actors -> Caller] /\ act[a] \in Caller /\ act[a].pc \in LoopPcs
      /\ task \in [Tasks -> TaskRecord] /\ pending \in [TurnStates -> SUBSET Items]
      /\ active \in TurnStates \cup {NoTurn} /\ (\A b \in Actors : b = a)
      /\ (\A t \in Tasks : task[t].turn \in TurnStates \cup {NoTurn})
  BY Types DEF IInv, CallerInv, TaskRecord
<1>fin. \A t \in Tasks : task[t].pc \in {"finish3", "finish4"} =>
            task[t].turn \in TurnStates /\ pending[task[t].turn] = {}
  BY <1>0 DEF IInv, TaskInv, FinishPcs, KeptInv
<1>1. ASSUME abort_all_tasks(a) PROVE KeptInv'
  <2>0. act[a].pc = "take" /\ TakeTurn(a) /\ active' = NoTurn
        /\ UNCHANGED <<pending, mailbox, accepted, settled>>
    BY <1>1 DEF abort_all_tasks, TakeTurn
  <2>1. CASE RunningTask # NoTask
    <3> DEFINE t == RunningTask
               r == [act[a] EXCEPT !.pc = "wait", !.turn = active, !.task = t]
               q == [task[t] EXCEPT !.cancelled = TRUE]
    <3>1. act' = [act EXCEPT ![a] = r] /\ task' = [task EXCEPT ![t] = q]
      BY <2>0, <2>1 DEF TakeTurn
    <3>2. t \in Tasks /\ active \in TurnStates
      BY <1>0, <2>1, Types DEF RunningTask, IInv
    <3>3. q.pc = task[t].pc /\ q.cancelled /\ q.turn = task[t].turn /\ q.input = task[t].input
      BY <1>0, <3>2 DEF TaskRecord
    <3> HIDE DEF t, q
    <3>4. r.turn = active /\ r.items = act[a].items /\ r.input = act[a].input
      BY <1>0 DEF Caller
    <3> HIDE DEF r
    <3>5. act'[a] = r /\ task'[t] = q /\ \A u \in Tasks : u # t => task'[u] = task[u]
      BY <1>0, <3>1, <3>2
    <3>6. act[a].turn = NoTurn
      BY <2>0 DEF IInv, CallerInv, AbortPcs
    <3>7. \A s \in TurnStates : Refers(s) => Refers(s)'
      BY <1>0, <3>3, <3>4, <3>5, <3>6 DEF Refers
    <3>8. ASSUME NEW i, Kept(i) PROVE Kept(i)'
      <4>1. CASE \E u \in Tasks : (task[u].pc = "killed" => task[u].cancelled) /\ i \in task[u].input
        BY <3>3, <3>5, <4>1 DEF Kept
      <4>2. CASE \E s \in TurnStates : Refers(s) /\ i \in pending[s]
        BY <2>0, <3>7, <4>2 DEF Kept
      <4>3. CASE i \in mailbox \cup settled
        BY <2>0, <4>3 DEF Kept
      <4>4. CASE \E b \in Actors : i \in act[b].items \cup act[b].input
        BY <1>0, <3>4, <3>5, <4>4 DEF Kept
      <4> QED BY <3>8, <4>1, <4>2, <4>3, <4>4 DEF Kept
    <3>9. \A u \in Tasks : task'[u].pc = task[u].pc /\ task'[u].turn = task[u].turn
      BY <3>3, <3>5
    <3> QED BY <2>0, <3>8, <3>9 DEF KeptInv
  <2>2. CASE RunningTask = NoTask
    <3>1. UNCHANGED task /\ act[a].turn = NoTurn /\ act[a].items = {}
          /\ (act[a].why # "Replaced" => act[a].input = {})
      BY <1>0, <2>0, <2>2 DEF TakeTurn, IInv, CallerInv, AbortPcs, Caller
    <3>2. PICK r \in Caller :
            act' = [act EXCEPT ![a] = r] /\ act[a].input \subseteq r.input
      <4>1. CASE act[a].why = "Replaced"
        <5>1. Goto(a, "start1") /\ "start1" \in ActorPcs
          BY <2>0, <2>2, <4>1 DEF TakeTurn, ActorPcs
        <5> QED BY <1>0, <5>1, GotoIs
      <4>2. CASE act[a].why # "Replaced"
        <5>1. Return(a)
          BY <2>0, <2>2, <4>2 DEF TakeTurn
        <5> QED BY <1>0, <3>1, <4>2, <5>1, ReturnIs
      <4> QED BY <4>1, <4>2
    <3>3. act'[a] = r
      BY <1>0, <3>2
    <3>4. active # NoTurn => \E t \in Tasks : task[t].turn = active
      BY <1>0, <2>0, <2>2 DEF IInv, ActiveInv, RunningTask, StartPcs
    <3>5. \A s \in TurnStates : Refers(s) => Refers(s)'
      BY <1>0, <3>1, <3>4 DEF Refers
    <3>6. ASSUME NEW i, Kept(i) PROVE Kept(i)'
      <4>1. CASE \E u \in Tasks : (task[u].pc = "killed" => task[u].cancelled) /\ i \in task[u].input
        BY <3>1, <4>1 DEF Kept
      <4>2. CASE \E s \in TurnStates : Refers(s) /\ i \in pending[s]
        BY <2>0, <3>5, <4>2 DEF Kept
      <4>3. CASE i \in mailbox \cup settled
        BY <2>0, <4>3 DEF Kept
      <4>4. CASE \E b \in Actors : i \in act[b].items \cup act[b].input
        BY <1>0, <3>1, <3>2, <3>3, <4>4 DEF Kept
      <4> QED BY <3>6, <4>1, <4>2, <4>3, <4>4 DEF Kept
    <3> QED BY <2>0, <3>1, <3>6 DEF KeptInv
  <2> QED BY <2>1, <2>2
<1>2. ASSUME abortTask(a) PROVE KeptInv'
  <2> DEFINE t == act[a].task
             q == [task[t] EXCEPT !.pc = "killed", !.turn = NoTurn]
  <2>1. /\ task' = task \/ task' = [task EXCEPT ![t] = q]
        /\ Goto(a, "report") /\ act[a].pc = "wait" /\ t \in Tasks /\ task[t].cancelled
        /\ task[t].pc \in BusyPcs \cup Ended
        /\ UNCHANGED <<active, pending, mailbox, accepted, settled>>
    BY <1>2 DEF abortTask, Kill, IInv, CallerInv, AbortPcs
  <2>2. task[t].turn = NoTurn
    BY <2>1 DEF IInv, TaskInv, FinishPcs, BusyPcs, RunPcs, Ended
  <2>3. q.pc = "killed" /\ q.cancelled = task[t].cancelled /\ q.input = task[t].input /\ q.turn = NoTurn
    <3>1. task[t] \in TaskRecord
      BY <1>0, <2>1
    <3> QED BY <3>1 DEF TaskRecord
  <2> HIDE DEF q
  <2>4. PICK r \in Caller :
          act' = [act EXCEPT ![a] = r] /\ r.turn = act[a].turn
          /\ r.items = act[a].items /\ r.input = act[a].input
    <3>1. "report" \in ActorPcs
      BY DEF ActorPcs
    <3> QED BY <1>0, <2>1, <3>1, GotoIs
  <2>5. act'[a] = r
    BY <1>0, <2>4
  <2>6. \A u \in Tasks :
          /\ task'[u].turn = task[u].turn /\ task'[u].input = task[u].input
          /\ task'[u].cancelled = task[u].cancelled
          /\ task'[u].pc = task[u].pc \/ (task'[u].pc = "killed" /\ task[u].cancelled)
    BY <1>0, <2>1, <2>2, <2>3
  <2> HIDE DEF t
  <2>7. \A s \in TurnStates : Refers(s) => Refers(s)'
    BY <1>0, <2>1, <2>4, <2>5, <2>6 DEF Refers
  <2>8. ASSUME NEW i, Kept(i) PROVE Kept(i)'
    <3>1. CASE \E u \in Tasks : (task[u].pc = "killed" => task[u].cancelled) /\ i \in task[u].input
      BY <2>6, <3>1 DEF Kept
    <3>2. CASE \E s \in TurnStates : Refers(s) /\ i \in pending[s]
      BY <2>1, <2>7, <3>2 DEF Kept
    <3>3. CASE i \in mailbox \cup settled
      BY <2>1, <3>3 DEF Kept
    <3>4. CASE \E b \in Actors : i \in act[b].items \cup act[b].input
      BY <1>0, <2>4, <2>5, <3>4 DEF Kept
    <3> QED BY <2>8, <3>1, <3>2, <3>3, <3>4 DEF Kept
  <2> QED BY <2>1, <2>6, <2>8 DEF KeptInv
<1>3. ASSUME reportAborted(a) PROVE KeptInv'
  <2> DEFINE s == act[a].turn
             p == IF act[a].why = "Interrupted" THEN "maybe" ELSE "start1"
             r == [act[a] EXCEPT !.pc = p, !.turn = NoTurn, !.task = NoTask]
  <2>1. /\ act' = [act EXCEPT ![a] = r] /\ s \in TurnStates
        /\ settled' = settled \cup pending[s] /\ pending' = [pending EXCEPT ![s] = {}]
        /\ UNCHANGED <<active, mailbox, task, accepted>>
    BY <1>3 DEF reportAborted, IInv, CallerInv, AbortPcs
  <2> HIDE DEF p
  <2>2. r.items = act[a].items /\ r.input = act[a].input
    BY <1>0 DEF Caller
  <2> HIDE DEF r
  <2>3. act'[a] = r
    BY <1>0, <2>1
  <2>4. \A x \in TurnStates : x # s => pending'[x] = pending[x] /\ (Refers(x) => Refers(x)')
    BY <1>0, <2>1 DEF Refers
  <2>5. ASSUME NEW i, Kept(i) PROVE Kept(i)'
    <3>1. CASE \E u \in Tasks : (task[u].pc = "killed" => task[u].cancelled) /\ i \in task[u].input
      BY <2>1, <3>1 DEF Kept
    <3>2. ASSUME NEW x \in TurnStates, Refers(x), i \in pending[x] PROVE Kept(i)'
      <4>1. CASE x = s
        BY <2>1, <3>2, <4>1 DEF Kept
      <4>2. CASE x # s
        BY <2>4, <3>2, <4>2 DEF Kept
      <4> QED BY <4>1, <4>2
    <3>3. CASE i \in mailbox \cup settled
      BY <2>1, <3>3 DEF Kept
    <3>4. CASE \E b \in Actors : i \in act[b].items \cup act[b].input
      BY <1>0, <2>2, <2>3, <3>4 DEF Kept
    <3> QED BY <2>5, <3>1, <3>2, <3>3, <3>4 DEF Kept
  <2>6. \A t \in Tasks : task[t].pc \in {"finish3", "finish4"} => pending'[task[t].turn] = {}
    BY <1>0, <1>fin, <2>1
  <2> QED BY <2>1, <2>5, <2>6 DEF KeptInv
<1>calm. ASSUME NEW r, act' = [act EXCEPT ![a] = r], act[a].pc \in {"maybe", "reserve"},
                UNCHANGED <<active, pending, task, mailbox, settled, accepted>>
         PROVE  KeptInv'
  <2>1. act[a].items = {} /\ act[a].input = {} /\ act[a].turn = NoTurn
    BY <1>calm DEF IInv, CallerInv, AbortPcs
  <2> QED BY <1>calm, <2>1, CallerKept
<1>4. ASSUME maybe_start_turn_for_pending_work(a) PROVE KeptInv'
  BY <1>4, <1>calm DEF maybe_start_turn_for_pending_work, Goto, Return
<1>new. ASSUME active = NoTurn, NEW items, NewActiveTurn(NoTask, items), NEW r,
               act' = [act EXCEPT ![a] = r], act[a].turn = NoTurn,
               act[a].items \subseteq items \cup r.items,
               act[a].input \subseteq r.input,
               UNCHANGED <<mailbox, task, accepted, settled>>
        PROVE  KeptInv'
  <2>1. /\ active' \in TurnStates /\ pending'[active'] = items /\ ~Refers(active')
        /\ \A s \in TurnStates : s # active' => pending'[s] = pending[s]
    BY <1>new, NewTurnKept
  <2>2. act'[a] = r
    BY <1>0, <1>new
  <2>3. \A s \in TurnStates : Refers(s) => Refers(s)' /\ pending'[s] = pending[s]
    <3>1. \A s \in TurnStates : Refers(s) => s # active'
      BY <2>1 DEF Refers
    <3>2. \A s \in TurnStates : Refers(s) => \E t \in Tasks : task[t].turn = s
      BY <1>0, <1>new DEF Refers
    <3> QED BY <1>new, <2>1, <3>1, <3>2 DEF Refers
  <2>4. ASSUME NEW i, Kept(i) PROVE Kept(i)'
    <3>1. CASE \E u \in Tasks : (task[u].pc = "killed" => task[u].cancelled) /\ i \in task[u].input
      BY <1>new, <3>1 DEF Kept
    <3>2. CASE \E s \in TurnStates : Refers(s) /\ i \in pending[s]
      BY <2>3, <3>2 DEF Kept
    <3>3. CASE i \in mailbox \cup settled
      BY <1>new, <3>3 DEF Kept
    <3>4. CASE i \in act[a].items
      BY <1>new, <2>1, <2>2, <3>4 DEF Kept, Refers
    <3>5. CASE i \in act[a].input
      BY <1>new, <2>2, <3>5 DEF Kept
    <3> QED BY <1>0, <2>4, <3>1, <3>2, <3>3, <3>4, <3>5 DEF Kept
  <2>5. \A t \in Tasks : task[t].pc \in {"finish3", "finish4"} => pending'[task[t].turn] = {}
    BY <1>fin, <2>3 DEF Refers
  <2> QED BY <1>new, <2>4, <2>5 DEF KeptInv
<1>5. ASSUME reserveTurn(a) PROVE KeptInv'
  <2>0. act[a].pc = "reserve" /\ UNCHANGED <<mailbox, task, accepted, settled>>
    BY <1>5 DEF reserveTurn
  <2>1. act[a].turn = NoTurn /\ act[a].items = {} /\ act[a].input = {}
    BY <2>0 DEF IInv, CallerInv, AbortPcs
  <2>2. CASE Return(a) /\ UNCHANGED <<active, pending>>
    BY <1>calm, <2>0, <2>2 DEF Return
  <2>3. CASE active = NoTurn /\ NewActiveTurn(NoTask, {}) /\ Goto(a, "start1")
    BY <1>new, <2>0, <2>1, <2>3 DEF Goto
  <2> QED BY <1>5, <2>2, <2>3 DEF reserveTurn
<1>6. ASSUME takePending(a) PROVE KeptInv'
  <2> DEFINE items == PendingInput
             r == [act[a] EXCEPT !.pc = "start2", !.items = items]
  <2>1. /\ act[a].pc = "start1" /\ TakePendingInput /\ act' = [act EXCEPT ![a] = r]
        /\ UNCHANGED <<active, task, accepted, settled>>
        /\ act[a].items = {}
    BY <1>6 DEF takePending, IInv, CallerInv
  <2>2. /\ \A s \in TurnStates : pending'[s] \subseteq pending[s] /\ pending[s] \subseteq pending'[s] \cup items
        /\ mailbox \subseteq mailbox' \cup items
    BY <1>0, <2>1 DEF TakePendingInput, PendingInput
  <2> HIDE DEF items
  <2>3. r.items = items /\ r.input = act[a].input /\ r.turn = act[a].turn
    BY <1>0 DEF Caller
  <2> HIDE DEF r
  <2>4. act'[a] = r
    BY <1>0, <2>1
  <2>5. \A s \in TurnStates : Refers(s) => Refers(s)'
    BY <1>0, <2>1, <2>3, <2>4 DEF Refers
  <2>6. ASSUME NEW i, Kept(i) PROVE Kept(i)'
    <3>0. i \in items => Kept(i)'
      BY <2>3, <2>4 DEF Kept
    <3>1. CASE \E u \in Tasks : (task[u].pc = "killed" => task[u].cancelled) /\ i \in task[u].input
      BY <2>1, <3>1 DEF Kept
    <3>2. ASSUME NEW s \in TurnStates, Refers(s), i \in pending[s] PROVE Kept(i)'
      <4>1. CASE i \in pending'[s]
        BY <2>5, <3>2, <4>1 DEF Kept
      <4> QED BY <2>2, <3>0, <3>2, <4>1
    <3>3. CASE i \in mailbox \cup settled
      <4>1. CASE i \in mailbox' \cup settled'
        BY <4>1 DEF Kept
      <4> QED BY <2>1, <2>2, <3>0, <3>3, <4>1
    <3>4. CASE i \in act[a].input
      BY <2>3, <2>4, <3>4 DEF Kept
    <3> QED BY <1>0, <2>1, <2>6, <3>1, <3>2, <3>3, <3>4 DEF Kept
  <2>7. \A t \in Tasks : task[t].pc \in {"finish3", "finish4"} => pending'[task[t].turn] = {}
    BY <1>fin, <2>2
  <2> QED BY <2>1, <2>6, <2>7 DEF KeptInv
<1>10. ASSUME enterTurn(a) PROVE KeptInv'
  <2>1. /\ act[a].pc = "start2" /\ act[a].turn = NoTurn
        /\ UNCHANGED <<mailbox, task, accepted, settled>>
    BY <1>10 DEF enterTurn, IInv, CallerInv, AbortPcs
  <2>2. ASSUME NEW s, NEW r, r = [act[a] EXCEPT !.pc = "extend", !.turn = s]
        PROVE  r.input = act[a].input /\ r.items = act[a].items
    BY <1>0, <2>2 DEF Caller
  <2>3. CASE active # NoTurn /\ act' = [act EXCEPT ![a].pc = "extend", ![a].turn = active]
             /\ UNCHANGED <<active, pending>>
    <3> DEFINE r == [act[a] EXCEPT !.pc = "extend", !.turn = active]
    <3>1. act' = [act EXCEPT ![a] = r] /\ r.input = act[a].input /\ r.items = act[a].items
      BY <2>2, <2>3
    <3> HIDE DEF r
    <3> QED BY <2>1, <2>3, <3>1, CallerKept
  <2>4. CASE active = NoTurn /\ NewActiveTurn(NoTask, {})
             /\ act' = [act EXCEPT ![a].pc = "extend", ![a].turn = Fresh]
    <3> DEFINE r == [act[a] EXCEPT !.pc = "extend", !.turn = Fresh]
    <3>1. act' = [act EXCEPT ![a] = r] /\ r.input = act[a].input /\ r.items = act[a].items
      BY <2>2, <2>4
    <3> HIDE DEF r
    <3> QED BY <1>new, <2>1, <2>4, <3>1
  <2> QED BY <1>10, <2>3, <2>4 DEF enterTurn
<1>7. ASSUME extendPending(a) PROVE KeptInv'
  <2> DEFINE none == {}
             r == [act[a] EXCEPT !.pc = "start3", !.turn = NoTurn, !.items = none]
  <2>1. /\ act[a].pc = "extend" /\ act' = [act EXCEPT ![a] = r]
        /\ UNCHANGED <<active, mailbox, task, accepted, settled>>
        /\ active # NoTurn /\ act[a].turn = active
        /\ pending' = [pending EXCEPT ![active] = @ \cup act[a].items]
    BY <1>7 DEF extendPending, IInv, CallerInv
  <2>2. r.input = act[a].input
    BY <1>0 DEF Caller
  <2> HIDE DEF r
  <2>3. /\ active \in TurnStates /\ act'[a] = r /\ act[a].items \subseteq pending'[active]
        /\ \A s \in TurnStates : pending[s] \subseteq pending'[s]
        /\ \A s \in TurnStates : s # active => pending'[s] = pending[s]
    BY <1>0, <2>1
  <2>4. \A s \in TurnStates : Refers(s) => Refers(s)'
    BY <1>0, <2>1, <2>3 DEF Refers
  <2>5. ASSUME NEW i, Kept(i) PROVE Kept(i)'
    <3>1. CASE \E u \in Tasks : (task[u].pc = "killed" => task[u].cancelled) /\ i \in task[u].input
      BY <2>1, <3>1 DEF Kept
    <3>2. CASE \E s \in TurnStates : Refers(s) /\ i \in pending[s]
      BY <2>3, <2>4, <3>2 DEF Kept
    <3>3. CASE i \in mailbox \cup settled
      BY <2>1, <3>3 DEF Kept
    <3>4. CASE i \in act[a].items
      BY <2>1, <2>3, <3>4 DEF Kept, Refers
    <3>5. CASE i \in act[a].input
      BY <2>2, <2>3, <3>5 DEF Kept
    <3> QED BY <1>0, <2>5, <3>1, <3>2, <3>3, <3>4, <3>5 DEF Kept
  <2>6. \A t \in Tasks : task[t].pc \in {"finish3", "finish4"} => pending'[task[t].turn] = {}
    <3>1. \A t \in Tasks : task[t].pc \in {"finish3", "finish4"} => task[t].turn # active
      BY <2>1 DEF IInv, TaskInv, FinishPcs, StartPcs
    <3> QED BY <1>fin, <2>3, <3>1
  <2> QED BY <2>1, <2>5, <2>6 DEF KeptInv
<1>8. ASSUME start_task(a) PROVE KeptInv'
  <2> DEFINE t == CHOOSE u \in Unstarted : TRUE
             k == act[a].kind
             in == act[a].input
             r == [Unborn EXCEPT !.pc = "spawned", !.kind = k, !.input = in]
  <2>1. /\ act[a].pc = "start3" /\ UNCHANGED <<mailbox, accepted, settled>>
    BY <1>8 DEF start_task
  <2>2. RunningTask = NoTask /\ act[a].items = {} /\ act[a].turn = NoTurn
    BY <2>1 DEF IInv, CallerInv, StartPcs, AbortPcs
  <2>3. t \in Tasks /\ task[t].pc = "unborn"
    BY <2>1 DEF IInv, CallerInv, Unstarted
  <2>4. task[t].input = {} /\ task[t].turn = NoTurn
    BY <2>3 DEF IInv, TaskInv, FinishPcs
  <2>5. task' = [task EXCEPT ![t] = r]
    BY <1>8, <2>2 DEF start_task, Kill
  <2>6. r.pc = "spawned" /\ r.input = in
    BY DEF Unborn
  <2> HIDE DEF r, t
  <2>7. task'[t] = r /\ \A u \in Tasks : u # t => task'[u] = task[u]
    BY <1>0, <2>3, <2>5
  <2>8. /\ \A s \in TurnStates : Refers(s) => Refers(s)' /\ pending'[s] = pending[s]
    <3>1. \A s \in TurnStates : Refers(s) =>
            active = s \/ \E u \in Tasks : task'[u].turn = s
      BY <1>0, <2>2, <2>4, <2>7 DEF Refers
    <3>2. CASE active # NoTurn /\ UNCHANGED <<active, pending>>
      BY <3>1, <3>2 DEF Refers
    <3>3. CASE active = NoTurn /\ NewActiveTurn(t, {})
      <4>1. /\ ~Refers(active')
            /\ \A s \in TurnStates : s # active' => pending'[s] = pending[s]
        BY <3>3, NewTurnKept
      <4>2. \A s \in TurnStates : Refers(s) => s # active'
        BY <4>1 DEF Refers
      <4> QED BY <3>1, <3>3, <4>1, <4>2 DEF Refers
    <3> QED BY <1>8, <3>2, <3>3 DEF start_task, t
  <2>9. ASSUME NEW i, Kept(i) PROVE Kept(i)'
    <3>1. CASE \E u \in Tasks : (task[u].pc = "killed" => task[u].cancelled) /\ i \in task[u].input
      BY <2>4, <2>7, <3>1 DEF Kept
    <3>2. CASE \E s \in TurnStates : Refers(s) /\ i \in pending[s]
      BY <2>8, <3>2 DEF Kept
    <3>3. CASE i \in mailbox \cup settled
      BY <2>1, <3>3 DEF Kept
    <3>4. CASE i \in act[a].input
      BY <2>3, <2>6, <2>7, <3>4 DEF Kept
    <3> QED BY <1>0, <2>2, <2>9, <3>1, <3>2, <3>3, <3>4 DEF Kept
  <2>10. \A u \in Tasks : task'[u].pc \in {"finish3", "finish4"} => pending'[task'[u].turn] = {}
    BY <1>fin, <2>6, <2>7, <2>8 DEF Refers
  <2> QED BY <2>1, <2>9, <2>10 DEF KeptInv
<1>9. ~(\/ abort_turn_if_active(a) \/ reserveIdle(a) \/ recheckMail(a) \/ confirmReserved(a)
        \/ clear_reserved_idle_turn(a) \/ extendReserved(a))
  BY <1>0 DEF abort_turn_if_active, reserveIdle, recheckMail, confirmReserved,
              clear_reserved_idle_turn, extendReserved,
              LoopPcs, StartPcs, AbortPcs
<1> QED BY <1>1, <1>2, <1>3, <1>4, <1>5, <1>6, <1>7, <1>8, <1>9, <1>10 DEF ActorStep

\* The tasks' steps: what a task takes it settles, and what is pending in the
\* turn it clears has been recorded.
LEMMA TaskStepKept ==
    ASSUME IInv, KeptInv, NEW t \in Tasks, TaskStep(t)
    PROVE  KeptInv'
<1>0. /\ task \in [Tasks -> TaskRecord] /\ task[t] \in TaskRecord
      /\ pending \in [TurnStates -> SUBSET Items] /\ active \in TurnStates \cup {NoTurn}
  BY Types DEF IInv
<1>busy. task[t].pc \in BusyPcs => task[t].turn = NoTurn
  BY DEF IInv, TaskInv, BusyPcs, RunPcs, FinishPcs
<1>moves. ASSUME NEW pc \in RunPcs \cup EndPcs \cup Ended, Move(t, pc), pc # "killed",
                 pc \in {"finish3", "finish4"} => pending[task[t].turn] = {},
                 UNCHANGED <<active, act, accepted, mailbox, settled, pending>>
          PROVE  KeptInv'
  <2>1. PICK r \in TaskRecord :
          /\ task' = [task EXCEPT ![t] = r] /\ r.pc = pc
          /\ r.turn = task[t].turn /\ r.input = task[t].input
    BY <1>0, <1>moves, MoveIs
  <2> QED BY <1>moves, <2>1, TaskKept
<1>1. ASSUME begin(t) \/ samplingFails(t) \/ check(t) \/ leave(t) PROVE KeptInv'
  <2>1. PICK pc \in {"prepare", "compacting", "check", "return", "done", "finish1"} :
          Move(t, pc) /\ UNCHANGED <<active, act, accepted, mailbox, settled, pending>>
    BY <1>1 DEF begin, samplingFails, check, leave
  <2>2. pc \in RunPcs \cup EndPcs \cup Ended /\ pc \notin {"killed", "finish3", "finish4"}
    BY DEF RunPcs, EndPcs, Ended
  <2> QED BY <1>moves, <2>1, <2>2
<1>2. ASSUME prepare(t) PROVE KeptInv'
  <2> DEFINE none == {}
             d == (task[t].input = {})
             q == [task[t] EXCEPT !.pc = "drain", !.input = none, !.drain = d]
             r == [task[t] EXCEPT !.pc = "check", !.input = none]
  <2>1. /\ task' = [task EXCEPT ![t] = q] \/ task' = [task EXCEPT ![t] = r]
        /\ settled' = settled \cup task[t].input
        /\ UNCHANGED <<active, act, accepted, mailbox, pending>>
    BY <1>2 DEF prepare
  <2> HIDE DEF d
  <2>2. q.pc = "drain" /\ q.turn = task[t].turn
    BY <1>0 DEF TaskRecord
  <2>3. r.pc = "check" /\ r.turn = task[t].turn
    BY <1>0 DEF TaskRecord
  <2> HIDE DEF q, r
  <2>4. CASE task' = [task EXCEPT ![t] = q]
    BY <2>1, <2>2, <2>4, TaskKept
  <2>5. CASE task' = [task EXCEPT ![t] = r]
    BY <2>1, <2>3, <2>5, TaskKept
  <2> QED BY <2>1, <2>4, <2>5
<1>3. ASSUME drain(t) PROVE KeptInv'
  <2>1. PICK pc \in {"sampling", "check"} : Move(t, pc)
    BY <1>3 DEF drain
  <2>2. /\ UNCHANGED <<active, act, accepted>> /\ settled \subseteq settled'
        /\ mailbox \subseteq mailbox' \cup settled'
        /\ \A s \in TurnStates : pending'[s] \subseteq pending[s] /\ pending[s] \subseteq pending'[s] \cup settled'
    BY <1>0, <1>3 DEF drain, TakePendingInput, PendingInput
  <2>3. pc \in RunPcs
    BY DEF RunPcs
  <2>4. PICK r \in TaskRecord :
          /\ task' = [task EXCEPT ![t] = r] /\ r.pc = pc
          /\ r.turn = task[t].turn /\ r.input = task[t].input
    BY <1>0, <2>1, <2>3, MoveIs
  <2> QED BY <2>2, <2>4, TaskKept
<1>4. ASSUME sampled(t) PROVE KeptInv'
  <2>1. UNCHANGED <<active, act, accepted, mailbox, settled, pending>>
    BY <1>4 DEF sampled
  <2>2. ASSUME NEW d \in BOOLEAN, task' = [task EXCEPT ![t].pc = "drain", ![t].drain = d]
        PROVE  KeptInv'
    <3> DEFINE r == [task[t] EXCEPT !.pc = "drain", !.drain = d]
    <3>1. task' = [task EXCEPT ![t] = r]
      BY <2>2
    <3>2. r.pc = "drain" /\ r.turn = task[t].turn /\ r.input = task[t].input
      BY <1>0 DEF TaskRecord
    <3> HIDE DEF r
    <3> QED BY <2>1, <3>1, <3>2, TaskKept
  <2>3. ASSUME Move(t, "check") PROVE KeptInv'
    <3> DEFINE pc == "check"
    <3>1. Move(t, pc) /\ pc \in RunPcs /\ pc \notin {"killed", "finish3", "finish4"}
      BY <2>3 DEF RunPcs
    <3> HIDE DEF pc
    <3> QED BY <1>moves, <2>1, <3>1
  <2> QED BY <1>4, <2>2, <2>3 DEF sampled
<1>5. ASSUME returns(t) PROVE KeptInv'
  <2>1. PICK failed \in BOOLEAN :
          task' = [task EXCEPT ![t].pc = "return", ![t].failed = failed, ![t].input = {}]
    BY <1>5 DEF returns
  <2> DEFINE none == {}
             r == [task[t] EXCEPT !.pc = "return", !.failed = failed, !.input = none]
  <2>2. /\ task' = [task EXCEPT ![t] = r] /\ settled' = settled \cup task[t].input
        /\ UNCHANGED <<active, act, accepted, mailbox, pending>>
    BY <1>5, <2>1 DEF returns
  <2>3. r.pc = "return" /\ r.turn = task[t].turn
    BY <1>0 DEF TaskRecord
  <2> HIDE DEF r
  <2> QED BY <2>2, <2>3, TaskKept
<1>6. ASSUME finishTake(t) PROVE KeptInv'
  <2>1. UNCHANGED <<active, act, accepted, mailbox, settled, pending>> /\ task[t].pc \in BusyPcs
    BY <1>6 DEF finishTake, BusyPcs
  <2>2. ASSUME Move(t, "done") PROVE KeptInv'
    <3> DEFINE pc == "done"
    <3>1. Move(t, pc) /\ pc \in Ended /\ pc \notin {"killed", "finish3", "finish4"}
      BY <2>2 DEF Ended
    <3> HIDE DEF pc
    <3> QED BY <1>moves, <2>1, <3>1
  <2>3. ASSUME task' = [task EXCEPT ![t].pc = "finish2", ![t].turn = active] PROVE KeptInv'
    <3> DEFINE r == [task[t] EXCEPT !.pc = "finish2", !.turn = active]
    <3>1. task' = [task EXCEPT ![t] = r]
      BY <2>3
    <3>2. r.pc = "finish2" /\ r.input = task[t].input
      BY <1>0 DEF TaskRecord
    <3> HIDE DEF r
    <3> QED BY <1>busy, <2>1, <3>1, <3>2, TaskKept
  <2> QED BY <1>6, <2>2, <2>3 DEF finishTake
<1>7. ASSUME finishInput(t) PROVE KeptInv'
  <2> DEFINE s == task[t].turn
             pc == "finish3"
  <2>1. /\ task[t].pc = "finish2" /\ Move(t, pc) /\ settled' = settled \cup pending[s]
        /\ pending' = [pending EXCEPT ![s] = {}] /\ UNCHANGED <<active, act, accepted, mailbox>>
    BY <1>7 DEF finishInput
  <2>2. s \in TurnStates
    BY <1>0, <2>1 DEF IInv, TaskInv, FinishPcs, TaskRecord
  <2>3. pc \in EndPcs /\ pc # "killed"
    BY DEF EndPcs
  <2> HIDE DEF pc
  <2>4. PICK r \in TaskRecord :
          /\ task' = [task EXCEPT ![t] = r] /\ r.pc = pc
          /\ r.turn = task[t].turn /\ r.input = task[t].input
    BY <1>0, <2>1, <2>3, MoveIs
  <2>5. /\ pending'[s] = {}
        /\ \A x \in TurnStates : pending'[x] \subseteq pending[x] /\ pending[x] \subseteq pending'[x] \cup settled'
    BY <1>0, <2>1, <2>2
  <2> QED BY <2>1, <2>3, <2>4, <2>5, TaskKept
<1>8. ASSUME finishEvent(t) PROVE KeptInv'
  <2> DEFINE pc == "finish4"
  <2>1. /\ task[t].pc = "finish3" /\ Move(t, pc)
        /\ UNCHANGED <<active, act, accepted, mailbox, settled, pending>>
    BY <1>8 DEF finishEvent
  <2>2. pc \in EndPcs /\ pc # "killed" /\ pending[task[t].turn] = {}
    BY <2>1 DEF EndPcs, KeptInv
  <2> HIDE DEF pc
  <2> QED BY <1>moves, <2>1, <2>2
<1>9. ASSUME finishClear(t) PROVE KeptInv'
  <2> DEFINE r == [task[t] EXCEPT !.pc = "done", !.turn = NoTurn]
  <2>1. /\ task[t].pc = "finish4" /\ task' = [task EXCEPT ![t] = r]
        /\ active' = active \/ active = task[t].turn
        /\ UNCHANGED <<pending, mailbox, act, accepted, settled>>
    BY <1>9 DEF finishClear
  <2>2. r.pc = "done" /\ r.input = task[t].input /\ r.turn = NoTurn
    BY <1>0 DEF TaskRecord
  <2> HIDE DEF r
  <2>3. task'[t] = r /\ \A u \in Tasks : u # t => task'[u] = task[u]
    BY <1>0, <2>1
  <2>4. pending[task[t].turn] = {}
    BY <2>1 DEF KeptInv
  <2>5. \A s \in TurnStates : Refers(s) /\ s # task[t].turn => Refers(s)'
    BY <2>1, <2>3 DEF Refers
  <2>6. ASSUME NEW i, Kept(i) PROVE Kept(i)'
    <3>1. CASE \E u \in Tasks : (task[u].pc = "killed" => task[u].cancelled) /\ i \in task[u].input
      BY <2>2, <2>3, <3>1 DEF Kept
    <3>2. CASE \E s \in TurnStates : Refers(s) /\ i \in pending[s]
      BY <2>1, <2>4, <2>5, <3>2 DEF Kept
    <3>3. CASE i \in mailbox \cup settled
      BY <2>1, <3>3 DEF Kept
    <3>4. CASE \E a \in Actors : i \in act[a].items \cup act[a].input
      BY <2>1, <3>4 DEF Kept
    <3> QED BY <2>6, <3>1, <3>2, <3>3, <3>4 DEF Kept
  <2>7. \A u \in Tasks : task'[u].pc \in {"finish3", "finish4"} => pending[task'[u].turn] = {}
    BY <2>2, <2>3 DEF KeptInv
  <2> QED BY <2>1, <2>6, <2>7 DEF KeptInv
<1> QED
  BY <1>1, <1>2, <1>3, <1>4, <1>5, <1>6, <1>7, <1>8, <1>9 DEF TaskStep

\* Input a caller was told is taken stays somewhere on its way until it reaches
\* the conversation, is refused there or goes with its aborted turn, as long as
\* nothing is injected into a turn that is being finished (inject_no_new_turn).
THEOREM InputKept ==
    ASSUME Actors \subseteq {"loop"}, Injected = {}
    PROVE  Spec => []AcceptedIsKept
<1>1. Init => KeptInv
  BY DEF Init, KeptInv, Unborn
<1>2. IInv /\ KeptInv /\ [Next]_vars => KeptInv'
  <2> SUFFICES ASSUME IInv, KeptInv, [Next]_vars PROVE KeptInv'
    OBVIOUS
  <2>1. CASE UNCHANGED vars
    BY <2>1, StillKept DEF vars
  <2>2. CASE Submit
    BY <2>2, SubmitKept
  <2>3. CASE \E a \in Actors : ActorStep(a)
    BY <2>3, ActorKept
  <2>4. CASE \E t \in Tasks : TaskStep(t)
    BY <2>4, TaskStepKept
  <2>5. ASSUME NEW t \in Tasks,
               defer_mailbox_delivery_to_next_turn(t) \/ accept_mailbox_delivery_for_current_turn(t)
        PROVE  KeptInv'
    BY <2>5, StillKept DEF defer_mailbox_delivery_to_next_turn, accept_mailbox_delivery_for_current_turn
  <2> QED BY <2>1, <2>2, <2>3, <2>4, <2>5 DEF Next, AtRest
<1>3. IInv /\ KeptInv => AcceptedIsKept
  BY KeptIsHeld
<1> QED BY <1>1, <1>2, <1>3, TurnInvariant, PTL DEF Spec
=============================================================================
