---------------------------- MODULE RolloutWriter ----------------------------
(***************************************************************************)
(* The rollout recorder and its writer task                                *)
(* (codex-rs/rollout/src/recorder.rs).                                     *)
(*                                                                         *)
(* Callers put commands into a bounded channel; one task takes them out,   *)
(* buffers items and writes them on every command, or not before the first *)
(* barrier while the file of a new session does not exist yet.  A barrier  *)
(* waits for the task's answer.  A failed write drops the file handle, and *)
(* the task reopens the file and tries once more.                          *)
(*                                                                         *)
(* Every I/O operation is a step of its own and may fail; a write may fail *)
(* after it has put part of a line into the file.  The process may die     *)
(* between any two steps; the session is then resumed from its file.       *)
(***************************************************************************)
EXTENDS Naturals, Sequences, FiniteSets

CONSTANTS
    Callers,     \* tasks that hold a RolloutRecorder
    MaxItems,    \* bound: items recorded in all
    ChannelCap   \* capacity of the channel (256 in the code)

ASSUME RolloutConstants == MaxItems \in Nat /\ ChannelCap \in Nat \ {0}

Items == 1 .. MaxItems
Meta == 0                    \* the session meta line
Barriers == {"persist", "flush", "shutdown"}
Commands == [op : {"add"}, item : Items] \cup [op : Barriers, from : Callers]

VARIABLES
    queue,     \* RolloutCmd channel
    waits,     \* callers that wait for an ack
    pc,        \* where the writer task is; "dead" when there is none
    cmd,       \* the command it handles
    attempt,   \* write_pending_with_recovery: first or second attempt
    result,    \* its outcome
    open,      \* RolloutWriterState.writer.is_some()
    deferred,  \* .deferred_log_file_info.is_some()
    meta,      \* .meta.is_some()
    pending,   \* .pending_items
    lines,     \* the file, line by line
    torn,      \* whether it ends in a fragment
    issued,    \* items recorded so far
    acked      \* history: how many lines barriers have promised

writer == <<cmd, attempt, result>>
state == <<open, deferred, meta, pending>>
file == <<lines, torn>>
vars == <<queue, waits, pc, writer, state, file, issued, acked>>

TypeOK ==
    /\ queue \in Seq(Commands) /\ Len(queue) <= ChannelCap
    /\ waits \subseteq Callers
    /\ pc \in {"recv", "open", "meta", "items", "sync", "reply", "stop", "dead"}
    /\ cmd \in Commands \cup {<<>>}
    /\ attempt \in 1 .. 2
    /\ result \in {"ok", "err"}
    /\ open \in BOOLEAN /\ deferred \in BOOLEAN /\ meta \in BOOLEAN
    /\ pending \in Seq(Items)
    /\ lines \in Seq([item : Items \cup {Meta}, ok : BOOLEAN]) /\ torn \in BOOLEAN
    /\ issued \in 0 .. MaxItems
    /\ acked \in Nat

\* RolloutRecorder::new with RolloutRecorderParams::Create: the file does not
\* exist and is not created yet.
Init ==
    /\ queue = <<>> /\ waits = {}
    /\ pc = "recv" /\ cmd = <<>> /\ attempt = 1 /\ result = "ok"
    /\ open = FALSE /\ deferred = TRUE /\ meta = TRUE /\ pending = <<>>
    /\ lines = <<>> /\ torn = FALSE
    /\ issued = 0 /\ acked = 0

-----------------------------------------------------------------------------
(* The callers.  A send waits while the channel is full and fails when the *)
(* task is gone.                                                           *)

CanSend == pc # "dead" /\ Len(queue) < ChannelCap

record_canonical_items ==
    /\ CanSend
    /\ issued < MaxItems
    /\ issued' = issued + 1
    /\ queue' = Append(queue, [op |-> "add", item |-> issued + 1])
    /\ UNCHANGED <<waits, pc, writer, state, file, acked>>

\* persist(), flush() and shutdown().
call(c, op) ==
    /\ CanSend
    /\ c \notin waits
    /\ queue' = Append(queue, [op |-> op, from |-> c])
    /\ waits' = waits \cup {c}
    /\ UNCHANGED <<pc, writer, state, file, issued, acked>>

-----------------------------------------------------------------------------
(* The writer task: one command at a time.                                 *)

is_deferred == ~open /\ deferred

\* rollout_writer, up to the first await of the command's handler.
recv ==
    /\ pc = "recv"
    /\ queue # <<>>
    /\ cmd' = Head(queue)
    /\ queue' = Tail(queue)
    /\ attempt' = 1 /\ result' = "ok"
    /\ \/ /\ cmd'.op = "add"                        \* add_items, flush_if_materialized
          /\ pending' = Append(pending, cmd'.item)
          /\ pc' = IF is_deferred THEN "recv" ELSE "open"
       \/ /\ cmd'.op = "persist"
          /\ pc' = "open"
          /\ UNCHANGED pending
       \/ /\ cmd'.op \in {"flush", "shutdown"}
          /\ pc' = IF is_deferred /\ pending = <<>> THEN "reply" ELSE "open"
          /\ UNCHANGED pending
    /\ UNCHANGED <<waits, open, deferred, meta, file, issued, acked>>

\* enter_recovery_mode, and the second attempt of write_pending_with_recovery.
fail ==
    /\ open' = FALSE
    /\ IF attempt = 1
       THEN attempt' = 2 /\ pc' = "open" /\ UNCHANGED result
       ELSE result' = "err" /\ pc' = "reply" /\ UNCHANGED attempt

ensure_writer_open ==
    /\ pc = "open"
    /\ \/ /\ pc' = "meta"
          /\ open' = TRUE
          /\ deferred' = IF open THEN deferred ELSE FALSE
          /\ UNCHANGED <<attempt, result>>
       \/ ~open /\ fail /\ UNCHANGED deferred      \* open_log_file failed
    /\ UNCHANGED <<queue, waits, cmd, meta, pending, file, issued, acked>>

\* write_line: the whole line and its newline, after the fragment if there is
\* one.
written(i) ==
    /\ lines' = Append(lines, [item |-> i, ok |-> ~torn])
    /\ torn' = FALSE

\* It fails with nothing or with a fragment in the file.
writeFailed == UNCHANGED lines /\ torn' \in {torn, TRUE}

write_session_meta_if_needed ==
    /\ pc = "meta"
    /\ \/ ~meta /\ pc' = "items" /\ UNCHANGED <<meta, open, attempt, result, file>>
       \/ /\ meta /\ written(Meta)
          /\ meta' = FALSE
          /\ pc' = "items"
          /\ UNCHANGED <<open, attempt, result>>
       \/ meta /\ writeFailed /\ fail /\ UNCHANGED meta
    /\ UNCHANGED <<queue, waits, cmd, deferred, pending, issued, acked>>

\* Mutant: the item leaves the buffer although its write failed.
write_pending_items_onceDrops ==
    /\ pc = "items"
    /\ \/ /\ pending = <<>> /\ pc' = "sync"
          /\ UNCHANGED <<pending, open, attempt, result, file>>
       \/ /\ pending # <<>> /\ written(Head(pending))
          /\ pending' = Tail(pending)
          /\ UNCHANGED <<pc, open, attempt, result>>
       \/ pending # <<>> /\ writeFailed /\ fail /\ pending' = Tail(pending)
    /\ UNCHANGED <<queue, waits, cmd, deferred, meta, issued, acked>>

\* One item of the loop; what is written leaves pending_items, also when a
\* later write fails.
write_pending_items_once ==
    /\ pc = "items"
    /\ \/ /\ pending = <<>> /\ pc' = "sync"
          /\ UNCHANGED <<pending, open, attempt, result, file>>
       \/ /\ pending # <<>> /\ written(Head(pending))
          /\ pending' = Tail(pending)
          /\ UNCHANGED <<pc, open, attempt, result>>
       \/ pending # <<>> /\ writeFailed /\ fail /\ UNCHANGED pending
    /\ UNCHANGED <<queue, waits, cmd, deferred, meta, issued, acked>>

\* The last flush of write_pending_once.
sync ==
    /\ pc = "sync"
    /\ \/ pc' = "reply" /\ UNCHANGED <<open, attempt, result>>
       \/ fail
    /\ UNCHANGED <<queue, waits, cmd, deferred, meta, pending, file, issued, acked>>

\* How many lines there are once everything before the current command is
\* written.
Ahead == Len(lines) + (IF meta THEN 1 ELSE 0) + Len(pending)

\* What a barrier that has `ahead` lines before it promises.
Promise(op, ahead) == IF op # "persist" /\ ahead = 1 THEN 0 ELSE ahead

\* Mutant: a shutdown that failed is not answered.
replyForgets ==
    /\ pc = "reply"
    /\ pc' = IF cmd.op = "shutdown" /\ result = "ok" THEN "stop" ELSE "recv"
    /\ \/ cmd.op = "add" /\ UNCHANGED <<waits, acked>>
       \/ /\ cmd.op # "add"
          /\ waits' = IF result = "ok" THEN waits \ {cmd.from} ELSE waits
          /\ acked' = IF result = "ok" /\ Promise(cmd.op, Ahead) > acked
                      THEN Promise(cmd.op, Ahead) ELSE acked
    /\ UNCHANGED <<queue, writer, state, file, issued>>

\* The ack; a shutdown that worked ends the loop.
reply ==
    /\ pc = "reply"
    /\ pc' = IF cmd.op = "shutdown" /\ result = "ok" THEN "stop" ELSE "recv"
    /\ \/ cmd.op = "add" /\ UNCHANGED <<waits, acked>>
       \/ /\ cmd.op # "add"
          /\ waits' = waits \ {cmd.from}
          /\ acked' = IF result = "ok" /\ Promise(cmd.op, Ahead) > acked
                      THEN Promise(cmd.op, Ahead) ELSE acked
    /\ UNCHANGED <<queue, writer, state, file, issued>>

\* Everything in memory is gone: the channel with the commands in it, whose
\* callers get an error, and the buffer.
gone ==
    /\ pc' = "dead"
    /\ queue' = <<>> /\ waits' = {}
    /\ cmd' = <<>> /\ attempt' = 1 /\ result' = "ok"
    /\ open' = FALSE /\ deferred' = FALSE /\ meta' = FALSE /\ pending' = <<>>
    /\ UNCHANGED <<file, issued, acked>>

stop == pc = "stop" /\ gone

WriterStep ==
    \/ recv \/ ensure_writer_open \/ write_session_meta_if_needed
    \/ write_pending_items_once \/ sync \/ reply \/ stop

-----------------------------------------------------------------------------

\* The process dies, or the last recorder is dropped.
crash == pc # "dead" /\ gone

\* load_rollout_items finds the thread id in a meta line it can read, and new
\* opens the file to append (RolloutRecorderParams::Resume).
resume ==
    /\ pc = "dead"
    /\ \E i \in DOMAIN lines : lines[i] = [item |-> Meta, ok |-> TRUE]
    /\ pc' = "recv"
    /\ open' = TRUE
    /\ UNCHANGED <<queue, waits, writer, deferred, meta, pending, file, issued, acked>>

Next ==
    \/ record_canonical_items
    \/ \E c \in Callers, op \in Barriers : call(c, op)
    \/ WriterStep
    \/ crash \/ resume

\* The writer task is polled; no file operation blocks for ever.
Spec == Init /\ [][Next]_vars /\ WF_vars(WriterStep)

-----------------------------------------------------------------------------
(* Properties.                                                             *)

\* How many of the first k commands of channel q hand over an item.
Adds(q, k) == Cardinality({j \in 1 .. k : q[j].op = "add"})

\* What was handed over and is not lost: the lines of the file, the meta while
\* it is not among them, and the items in the buffer and the channel, which are
\* the last ones issued.
Handed == Ahead + Adds(queue, Len(queue))
Recorded ==
    [i \in 1 .. Handed |->
        IF i <= Len(lines) THEN lines[i].item
        ELSE IF meta /\ i = Len(lines) + 1 THEN Meta
        ELSE issued + i - Handed]

\* What the barrier of caller c promises, if it waits: everything handed over
\* before it.
BarrierOf(c) ==
    {Promise(cmd.op, Ahead) : op \in {o \in Barriers :
        cmd = [op |-> o, from |-> c] /\ pc \notin {"recv", "stop", "dead"}}}
    \cup {Promise(queue[k].op, Ahead + Adds(queue, k - 1)) :
              k \in {k \in DOMAIN queue : \E o \in Barriers : queue[k] = [op |-> o, from |-> c]}}

Barrier == [c \in Callers |-> BarrierOf(c)]

Log == INSTANCE RolloutLog WITH log <- lines, recorded <- Recorded, barrier <- Barrier

\* The writer task keeps the recorder's promise, whatever fails and whenever
\* the process dies: items reach the file in the order they were recorded,
\* the meta first, none twice and none left out, and a barrier returns Ok
\* only when everything recorded before it is in the file.
KeepsPromise == Log!Spec

\* Every persist, flush and shutdown returns, also when the file cannot be
\* written and when another caller's shutdown stops the task first.
BarrierIsAnswered == \A c \in Callers : c \in waits ~> c \notin waits

\* "Flush all queued writes and wait until they are committed": what a
\* barrier acknowledged can be read back.
AckedIsReadable == \A i \in 1 .. acked : lines[i].ok
=============================================================================
