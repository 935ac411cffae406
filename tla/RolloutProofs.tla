----------------------------- MODULE RolloutProofs -----------------------------
(***************************************************************************)
(* The rollout on disk: that its writer keeps the promise of RolloutLog,   *)
(* and that RolloutCompression never loses it.  Both hold for any number   *)
(* of callers, items, appenders and readers.                               *)
(***************************************************************************)
EXTENDS RolloutWriter, RolloutCompression, Integers, FiniteSetTheorems, SequenceTheorems, TLAPS

-----------------------------------------------------------------------------
(***************************************************************************)
(* TLAPS proof that RolloutWriter implements RolloutLog, for any callers,  *)
(* any number of items, any capacity of the channel and any errors and     *)
(* crashes.                                                                *)
(*                                                                         *)
(* The steps of the writer map to steps of the log because of where the    *)
(* items are: the buffer and the channel hold the last items issued, in    *)
(* their order (BufferOrder, ChannelOrder), so that the line written next  *)
(* is the next item recorded.  A caller that waits has one command, in     *)
(* the channel or with the task (OneCommand), and a command that is        *)
(* answered with Ok leaves nothing behind in memory (NothingLeft).         *)
(***************************************************************************)

MetaLines == IF meta THEN 1 ELSE 0

\* The task handles a command: it has taken it and not answered yet.
Handling == pc \notin {"recv", "stop", "dead"}

Types ==
    /\ queue \in Seq(Commands)
    /\ waits \subseteq Callers
    /\ pc \in {"recv", "open", "meta", "items", "sync", "reply", "stop", "dead"}
    /\ Handling => cmd \in Commands
    /\ result \in {"ok", "err"}
    /\ open \in BOOLEAN /\ deferred \in BOOLEAN /\ meta \in BOOLEAN
    /\ pending \in Seq(Items)
    /\ lines \in Seq([item : Items \cup {Meta}, ok : BOOLEAN]) /\ torn \in BOOLEAN
    /\ issued \in 0 .. MaxItems
    /\ acked \in Nat

\* The buffer and the channel hold the last items issued, in order.
BufferOrder ==
    \A j \in 1 .. Len(pending) :
        pending[j] = issued + j - (Len(pending) + Adds(queue, Len(queue)))

ChannelOrder ==
    \A k \in 1 .. Len(queue) : queue[k].op = "add" =>
        queue[k].item = issued + Adds(queue, k) - Adds(queue, Len(queue))

\* The meta is the first line, and it is written before any item.
MetaFirst ==
    /\ meta => lines = <<>>
    /\ pc \in {"items", "sync"} => ~meta

\* Everything is in the file when a command is answered with Ok, but for a
\* barrier on a file that there is no reason to create.
NothingLeft ==
    /\ pc = "sync" => pending = <<>>
    /\ pc = "reply" /\ result = "ok" =>
          pending = <<>> /\ (meta => cmd.op # "persist")

\* A caller that waits has one command, in the channel or with the task.
OneCommand ==
    /\ \A k \in 1 .. Len(queue) : queue[k].op # "add" =>
          /\ queue[k].from \in waits
          /\ \A l \in 1 .. Len(queue) :
                queue[l].op # "add" /\ queue[l].from = queue[k].from => l = k
          /\ Handling /\ cmd.op # "add" => cmd.from # queue[k].from
    /\ Handling /\ cmd.op # "add" => cmd.from \in waits

WriterInv == Types /\ BufferOrder /\ ChannelOrder /\ MetaFirst /\ NothingLeft /\ OneCommand

-----------------------------------------------------------------------------
(* Counting the items in a channel.                                        *)

LEMMA CommandForms ==
    ASSUME NEW m \in Commands
    PROVE  \/ m.op = "add" /\ m.item \in Items
           \/ m.op \in Barriers /\ m.from \in Callers /\ m = [op |-> m.op, from |-> m.from]
BY DEF Commands

LEMMA BarrierOps == "add" \notin Barriers
BY DEF Barriers

AddsAmong(q, k) == {j \in 1 .. k : q[j].op = "add"}

LEMMA AddsFinite ==
    ASSUME NEW q, NEW k \in Nat
    PROVE  /\ IsFiniteSet(AddsAmong(q, k))
           /\ Adds(q, k) = Cardinality(AddsAmong(q, k))
           /\ Adds(q, k) \in Nat
<1>1. IsFiniteSet(1 .. k)
  BY FS_Interval
<1>2. AddsAmong(q, k) \subseteq 1 .. k
  BY DEF AddsAmong
<1>3. IsFiniteSet(AddsAmong(q, k))
  BY <1>1, <1>2, FS_Subset
<1>4. Adds(q, k) = Cardinality(AddsAmong(q, k))
  BY DEF Adds, AddsAmong
<1> QED BY <1>3, <1>4, FS_CardinalityType

LEMMA AddsNone == ASSUME NEW q PROVE Adds(q, 0) = 0
<1>1. AddsAmong(q, 0) = {}
  BY DEF AddsAmong
<1>2. Adds(q, 0) = Cardinality(AddsAmong(q, 0))
  BY AddsFinite
<1> QED BY <1>1, <1>2, FS_EmptySet

LEMMA AddsNext ==
    ASSUME NEW q, NEW k \in Nat
    PROVE  Adds(q, k + 1) = Adds(q, k) + (IF q[k + 1].op = "add" THEN 1 ELSE 0)
<1>1. k + 1 \notin AddsAmong(q, k)
  BY DEF AddsAmong
<1>2. CASE q[k + 1].op = "add"
  <2>1. AddsAmong(q, k + 1) = AddsAmong(q, k) \cup {k + 1}
    BY <1>2 DEF AddsAmong
  <2>2. Cardinality(AddsAmong(q, k) \cup {k + 1}) = Cardinality(AddsAmong(q, k)) + 1
    BY <1>1, AddsFinite, FS_AddElement
  <2>3. k + 1 \in Nat
    OBVIOUS
  <2> QED BY <1>2, <2>1, <2>2, <2>3, AddsFinite
<1>3. CASE q[k + 1].op # "add"
  <2>1. AddsAmong(q, k + 1) = AddsAmong(q, k)
    BY <1>3 DEF AddsAmong
  <2>3. k + 1 \in Nat
    OBVIOUS
  <2> QED BY <1>3, <2>1, <2>3, AddsFinite
<1> QED BY <1>2, <1>3

LEMMA AddsAppend ==
    ASSUME NEW q \in Seq(Commands), NEW m \in Commands
    PROVE  /\ \A k \in 0 .. Len(q) : Adds(Append(q, m), k) = Adds(q, k)
           /\ Adds(Append(q, m), Len(q) + 1) =
                 Adds(q, Len(q)) + (IF m.op = "add" THEN 1 ELSE 0)
<1> DEFINE r == Append(q, m)
<1>1. Len(q) \in Nat /\ r[Len(q) + 1] = m /\ \A j \in 1 .. Len(q) : r[j] = q[j]
  OBVIOUS
<1> HIDE DEF r
<1>2. ASSUME NEW k \in 0 .. Len(q) PROVE Adds(r, k) = Adds(q, k)
  <2>1. AddsAmong(r, k) = AddsAmong(q, k)
    BY <1>1 DEF AddsAmong
  <2> QED BY <2>1, <1>1 DEF Adds, AddsAmong
<1>3. Adds(r, Len(q) + 1) = Adds(r, Len(q)) + (IF r[Len(q) + 1].op = "add" THEN 1 ELSE 0)
  BY <1>1, AddsNext
<1>4. Adds(r, Len(q)) = Adds(q, Len(q))
  BY <1>1, <1>2
<1>5. Adds(r, Len(q) + 1) = Adds(q, Len(q)) + (IF m.op = "add" THEN 1 ELSE 0)
  BY <1>1, <1>3, <1>4
<1> QED BY <1>2, <1>5 DEF r

LEMMA AddsTail ==
    ASSUME NEW q \in Seq(Commands), q # <<>>, NEW k \in 0 .. Len(q) - 1
    PROVE  Adds(Tail(q), k) = Adds(q, k + 1) - (IF Head(q).op = "add" THEN 1 ELSE 0)
<1> DEFINE r == Tail(q)
           S == AddsAmong(r, k)
           T == {j \in 2 .. k + 1 : q[j].op = "add"}
           f == [j \in S |-> j + 1]
<1>1. Len(q) \in Nat \ {0} /\ Head(q) = q[1] /\ \A j \in 1 .. Len(q) - 1 : r[j] = q[j + 1]
  BY HeadTailProperties
<1>2. k \in Nat /\ k + 1 \in Nat
  BY <1>1
<1> HIDE DEF r
<1>3. f \in Bijection(S, T)
  <2>1. f \in [S -> T]
    BY <1>1, <1>2 DEF AddsAmong
  <2>2. \A i, j \in S : f[i] = f[j] => i = j
    BY <1>2 DEF AddsAmong
  <2>3. \A t \in T : \E i \in S : f[i] = t
    <3> SUFFICES ASSUME NEW t \in T PROVE \E i \in S : f[i] = t
      OBVIOUS
    <3>1. t - 1 \in S /\ t - 1 + 1 = t
      BY <1>1, <1>2 DEF AddsAmong
    <3> QED BY <3>1
  <2> HIDE DEF f, S, T
  <2>4. f \in Injection(S, T)
    BY <2>1, <2>2 DEF Injection, IsInjective
  <2>5. f \in Surjection(S, T)
    BY <2>1, <2>3 DEF Surjection
  <2> QED BY <2>4, <2>5 DEF Bijection
<1>4. IsFiniteSet(T) /\ Cardinality(T) = Cardinality(S)
  BY <1>2, <1>3, AddsFinite, FS_Bijection DEF ExistsBijection
<1>5. CASE Head(q).op = "add"
  <2>1. AddsAmong(q, k + 1) = T \cup {1} /\ 1 \notin T
    BY <1>1, <1>2, <1>5 DEF AddsAmong
  <2>2. Cardinality(AddsAmong(q, k + 1)) = Cardinality(T) + 1
    BY <2>1, <1>4, FS_AddElement
  <2> QED BY <1>2, <1>4, <1>5, <2>2, AddsFinite DEF r
<1>6. CASE Head(q).op # "add"
  <2>1. AddsAmong(q, k + 1) = T
    BY <1>1, <1>2, <1>6 DEF AddsAmong
  <2>2. Adds(q, k + 1) = Cardinality(T) /\ Adds(r, k) = Cardinality(S) /\ Adds(q, k + 1) \in Nat
    BY <1>2, <2>1, AddsFinite
  <2> HIDE DEF S, T
  <2>3. Adds(r, k) = Adds(q, k + 1) - 0
    BY <1>4, <2>2
  <2> QED BY <1>6, <2>3 DEF r
<1> QED BY <1>5, <1>6

-----------------------------------------------------------------------------
(* The inductive invariant.                                                *)

LEMMA Lengths ==
    ASSUME Types
    PROVE  /\ Len(queue) \in Nat /\ Len(pending) \in Nat /\ Len(lines) \in Nat
           /\ issued \in Nat
           /\ Ahead = Len(lines) + MetaLines + Len(pending)
           /\ MetaLines \in {0, 1} /\ (meta <=> MetaLines = 1)
           /\ \A k \in 0 .. Len(queue) : Adds(queue, k) \in Nat
BY AddsFinite, RolloutConstants DEF Types, Ahead, MetaLines

LEMMA InitInv == Init => WriterInv
<1> SUFFICES ASSUME Init PROVE WriterInv
  OBVIOUS
<1> USE DEF Init
<1>1. Types
  <2>1. queue \in Seq(Commands) /\ pending \in Seq(Items)
        /\ lines \in Seq([item : Items \cup {Meta}, ok : BOOLEAN])
    BY EmptySeq
  <2>2. issued \in 0 .. MaxItems /\ acked \in Nat
    BY RolloutConstants
  <2> QED BY <2>1, <2>2 DEF Types, Handling
<1>2. BufferOrder /\ ChannelOrder /\ MetaFirst /\ NothingLeft /\ OneCommand
  BY DEF BufferOrder, ChannelOrder, MetaFirst, NothingLeft, OneCommand, Handling
<1> QED BY <1>1, <1>2 DEF WriterInv

\* A command m is sent.
LEMMA SendInv ==
    ASSUME WriterInv, NEW m \in Commands, queue' = Append(queue, m),
           UNCHANGED <<pc, writer, state, file, acked>>,
           \/ m.op = "add" /\ m.item = issued + 1 /\ issued < MaxItems
                /\ issued' = issued + 1 /\ UNCHANGED waits
           \/ m.op # "add" /\ m.from \notin waits /\ waits' = waits \cup {m.from}
                /\ UNCHANGED issued
    PROVE  WriterInv'
<1> DEFINE n == Len(queue)
<1>0. /\ Types /\ queue \in Seq(Commands) /\ n \in Nat /\ Len(pending) \in Nat /\ issued \in Nat
      /\ \A k \in 0 .. n : Adds(queue, k) \in Nat
  BY Lengths DEF WriterInv, Types
<1>1. /\ queue' \in Seq(Commands) /\ Len(queue') = n + 1
      /\ queue'[n + 1] = m /\ \A k \in 1 .. n : queue'[k] = queue[k]
  BY <1>0
<1>2. /\ \A k \in 0 .. n : Adds(queue', k) = Adds(queue, k)
      /\ Adds(queue', n + 1) = Adds(queue, n) + (IF m.op = "add" THEN 1 ELSE 0)
  BY <1>0, AddsAppend
<1> HIDE DEF n
<1>3. Types'
  BY <1>0, <1>1, CommandForms, RolloutConstants DEF Types, Handling, writer, state, file
<1>4. issued' = issued + (IF m.op = "add" THEN 1 ELSE 0)
  BY <1>0
<1>5. BufferOrder'
  BY <1>0, <1>1, <1>2, <1>4 DEF WriterInv, BufferOrder, state, n
<1>6. ChannelOrder'
  <2> SUFFICES ASSUME NEW k \in 1 .. n + 1, queue'[k].op = "add"
               PROVE  queue'[k].item = issued' + Adds(queue', k) - Adds(queue', n + 1)
    BY <1>1 DEF ChannelOrder
  <2>1. CASE k \in 1 .. n
    <3>1. queue[k].op = "add" /\ queue'[k].item = queue[k].item
      BY <1>1, <2>1
    <3>2. queue[k].item = issued + Adds(queue, k) - Adds(queue, n)
      BY <2>1, <3>1 DEF WriterInv, ChannelOrder, n
    <3>3. k \in 0 .. n /\ n \in 0 .. n
      BY <1>0, <2>1
    <3>4. Adds(queue, k) \in Nat /\ Adds(queue, n) \in Nat /\ Adds(queue', k) = Adds(queue, k)
      BY <1>0, <1>2, <3>3
    <3> QED BY <1>0, <1>2, <1>4, <3>1, <3>2, <3>4
  <2>2. CASE k = n + 1
    <3>1. m.op = "add"
      BY <1>1, <2>2
    <3>2. Adds(queue', n + 1) \in Nat
      BY <1>0, <1>2
    <3>3. queue'[k] = m /\ m.item = issued'
      BY <1>1, <1>4, <2>2, <3>1
    <3>4. issued' \in Nat
      BY <1>0, <1>4
    <3> QED BY <2>2, <3>2, <3>3, <3>4
  <2>3. k \in 1 .. n \/ k = n + 1
    BY <1>0
  <2> QED BY <2>1, <2>2, <2>3
<1>7. MetaFirst' /\ NothingLeft'
  BY DEF WriterInv, MetaFirst, NothingLeft, writer, state, file
<1>8. OneCommand'
  <2>1. CASE m.op = "add"
    BY <1>0, <1>1, <2>1 DEF WriterInv, OneCommand, Handling, writer, n
  <2>2. CASE m.op # "add"
    <3>1. Handling /\ cmd.op # "add" => cmd.from # m.from /\ cmd.from \in waits
      BY <2>2 DEF WriterInv, OneCommand
    <3>2. \A k \in 1 .. n : queue[k].op # "add" => queue[k].from # m.from /\ queue[k].from \in waits
      BY <2>2 DEF WriterInv, OneCommand, n
    <3> QED BY <1>0, <1>1, <2>2, <3>1, <3>2 DEF WriterInv, OneCommand, Handling, writer, n
  <2> QED BY <2>1, <2>2
<1> QED BY <1>3, <1>5, <1>6, <1>7, <1>8 DEF WriterInv

LEMMA RecordInv == ASSUME WriterInv, record_canonical_items PROVE WriterInv'
<1> DEFINE m == [op |-> "add", item |-> issued + 1]
<1>1. /\ queue' = Append(queue, m) /\ issued < MaxItems /\ issued' = issued + 1
      /\ UNCHANGED <<waits, pc, writer, state, file, acked>>
  BY DEF record_canonical_items
<1>2. issued \in Nat
  BY Lengths DEF WriterInv
<1>3. m \in Commands /\ m.op = "add" /\ m.item = issued + 1
  BY <1>1, <1>2, RolloutConstants DEF Commands, Items
<1> HIDE DEF m
<1> QED BY <1>1, <1>3, SendInv

LEMMA CallInv ==
    ASSUME WriterInv, NEW c \in Callers, NEW op \in Barriers, call(c, op) PROVE WriterInv'
<1> DEFINE m == [op |-> op, from |-> c]
<1>1. /\ queue' = Append(queue, m) /\ c \notin waits /\ waits' = waits \cup {c}
      /\ UNCHANGED <<pc, writer, state, file, issued, acked>>
  BY DEF call
<1>2. m \in Commands /\ m.op # "add" /\ m.from = c
  BY BarrierOps DEF Commands
<1> HIDE DEF m
<1> QED BY <1>1, <1>2, SendInv

\* What is left of the channel when its first command is taken.
LEMMA TailFacts ==
    ASSUME Types, queue # <<>>
    PROVE  /\ Head(queue) \in Commands /\ Head(queue) = queue[1]
           /\ Tail(queue) \in Seq(Commands)
           /\ Len(queue) \in Nat \ {0} /\ Len(Tail(queue)) = Len(queue) - 1
           /\ \A k \in 1 .. Len(queue) - 1 : Tail(queue)[k] = queue[k + 1]
           /\ \A k \in 0 .. Len(queue) - 1 :
                 Adds(Tail(queue), k) = Adds(queue, k + 1) - (IF Head(queue).op = "add" THEN 1 ELSE 0)
           /\ Adds(queue, 1) = (IF Head(queue).op = "add" THEN 1 ELSE 0)
<1>0. queue \in Seq(Commands)
  BY DEF Types
<1>1. /\ Head(queue) \in Commands /\ Head(queue) = queue[1]
      /\ Tail(queue) \in Seq(Commands)
      /\ Len(queue) \in Nat \ {0} /\ Len(Tail(queue)) = Len(queue) - 1
      /\ \A k \in 1 .. Len(queue) - 1 : Tail(queue)[k] = queue[k + 1]
  BY <1>0, HeadTailProperties
<1>2. \A k \in 0 .. Len(queue) - 1 :
          Adds(Tail(queue), k) = Adds(queue, k + 1) - (IF Head(queue).op = "add" THEN 1 ELSE 0)
  BY <1>0, AddsTail
<1>3. Adds(queue, 0 + 1) = Adds(queue, 0) + (IF queue[0 + 1].op = "add" THEN 1 ELSE 0)
  BY AddsNext
<1>4. Adds(queue, 1) = (IF Head(queue).op = "add" THEN 1 ELSE 0)
  BY <1>1, <1>3, AddsNone
<1> QED BY <1>1, <1>2, <1>4

LEMMA RecvInv == ASSUME WriterInv, recv PROVE WriterInv'
<1> DEFINE n == Len(queue)
           d == IF Head(queue).op = "add" THEN 1 ELSE 0
           q == Tail(queue)
<1>0. /\ Types /\ Len(pending) \in Nat /\ issued \in Nat
      /\ \A k \in 0 .. n : Adds(queue, k) \in Nat
  BY Lengths DEF WriterInv
<1>1. /\ pc = "recv" /\ queue # <<>> /\ cmd' = Head(queue) /\ queue' = q
      /\ result' = "ok"
      /\ UNCHANGED <<waits, open, deferred, meta, file, issued, acked>>
  BY DEF recv
<1>2. /\ Head(queue) \in Commands /\ Head(queue) = queue[1]
      /\ q \in Seq(Commands) /\ n \in Nat \ {0} /\ Len(q) = n - 1
      /\ \A k \in 1 .. n - 1 : q[k] = queue[k + 1]
      /\ \A k \in 0 .. n - 1 : Adds(q, k) = Adds(queue, k + 1) - d
      /\ Adds(queue, 1) = d
  BY <1>0, <1>1, TailFacts
<1>d. d \in {0, 1}
  OBVIOUS
<1> DEFINE Goal == /\ Types' /\ BufferOrder' /\ NothingLeft'
                   /\ pc' \in {"recv", "open", "reply"}
<1>a. ASSUME Head(queue).op = "add" PROVE Goal
  <2>1. pending' = Append(pending, Head(queue).item) /\ pc' \in {"recv", "open"}
    BY <1>1, <1>a, BarrierOps DEF recv, Barriers
  <2>2. d = 1
    BY <1>a
  <2> HIDE DEF q, d, n
  <2>3. Head(queue).item = issued + 1 - Adds(queue, n) /\ Head(queue).item \in Items
    <3>1. 1 \in 1 .. n
      BY <1>2
    <3>2. Head(queue).item = issued + Adds(queue, 1) - Adds(queue, n)
      BY <1>2, <1>a, <3>1 DEF WriterInv, ChannelOrder, n
    <3> QED BY <1>2, <1>a, <2>2, <3>2, CommandForms, BarrierOps
  <2>4. Adds(q, n - 1) = Adds(queue, n) - 1 /\ Adds(queue, n) \in Nat
    <3>1. n - 1 \in 0 .. n - 1 /\ n - 1 + 1 = n /\ n \in 0 .. n
      BY <1>2
    <3> QED BY <1>0, <1>2, <2>2, <3>1
  <2>5. /\ pending' \in Seq(Items) /\ Len(pending') = Len(pending) + 1
        /\ pending'[Len(pending) + 1] = Head(queue).item
        /\ \A j \in 1 .. Len(pending) : pending'[j] = pending[j]
    BY <1>0, <2>1, <2>3 DEF Types
  <2>6. BufferOrder'
    <3> SUFFICES ASSUME NEW j \in 1 .. Len(pending) + 1
                 PROVE  pending'[j] = issued + j - (Len(pending) + 1 + Adds(q, n - 1))
      BY <1>1, <1>2, <2>5 DEF BufferOrder
    <3>1. CASE j \in 1 .. Len(pending)
      <4>1. pending[j] = issued + j - (Len(pending) + Adds(queue, n))
        BY <3>1 DEF WriterInv, BufferOrder, n
      <4> QED BY <1>0, <2>4, <2>5, <3>1, <4>1
    <3>2. CASE j = Len(pending) + 1
      <4>1. pending'[j] = issued + 1 - Adds(queue, n)
        BY <2>3, <2>5, <3>2
      <4> QED BY <1>0, <2>4, <3>2, <4>1
    <3>3. j \in 1 .. Len(pending) \/ j = Len(pending) + 1
      BY <1>0
    <3> QED BY <3>1, <3>2, <3>3
  <2>7. Types'
    BY <1>0, <1>1, <1>2, <2>1, <2>5 DEF Types, Handling, file
  <2> QED BY <2>1, <2>6, <2>7 DEF NothingLeft
<1>b. ASSUME Head(queue).op # "add" PROVE Goal
  <2>1. /\ pending' = pending /\ pc' \in {"open", "reply"}
        /\ pc' = "reply" => pending = <<>> /\ Head(queue).op # "persist"
    BY <1>1, <1>b, BarrierOps DEF recv, Barriers
  <2>2. d = 0
    BY <1>b
  <2> HIDE DEF q, d, n
  <2>3. Adds(q, n - 1) = Adds(queue, n)
    <3>1. n - 1 \in 0 .. n - 1 /\ n - 1 + 1 = n /\ n \in 0 .. n
      BY <1>2
    <3>2. Adds(queue, n) \in Nat
      BY <1>0, <3>1
    <3> QED BY <1>2, <2>2, <3>1, <3>2
  <2>4. BufferOrder'
    BY <1>1, <1>2, <2>1, <2>3 DEF WriterInv, BufferOrder, n
  <2>5. Types'
    BY <1>0, <1>1, <1>2, <2>1 DEF Types, Handling, file
  <2> QED BY <1>1, <2>1, <2>4, <2>5 DEF NothingLeft
<1>3. Goal
  BY <1>a, <1>b
<1> HIDE DEF d, q, n, Goal
<1>4. ChannelOrder'
  <2> SUFFICES ASSUME NEW k \in 1 .. n - 1, q[k].op = "add"
               PROVE  q[k].item = issued + Adds(q, k) - Adds(q, n - 1)
    BY <1>1, <1>2 DEF ChannelOrder
  <2>1. /\ k \in 0 .. n - 1 /\ n - 1 \in 0 .. n - 1 /\ n - 1 + 1 = n
        /\ k + 1 \in 1 .. n /\ k + 1 \in 0 .. n /\ n \in 0 .. n
    BY <1>2
  <2>2. q[k] = queue[k + 1]
    BY <1>2
  <2>3. queue[k + 1].item = issued + Adds(queue, k + 1) - Adds(queue, n)
    BY <2>1, <2>2 DEF WriterInv, ChannelOrder, n
  <2>4. /\ Adds(q, k) = Adds(queue, k + 1) - d /\ Adds(q, n - 1) = Adds(queue, n) - d
        /\ Adds(queue, k + 1) \in Nat /\ Adds(queue, n) \in Nat
    BY <1>0, <1>2, <2>1
  <2> QED BY <1>0, <1>d, <2>2, <2>3, <2>4
<1>5. MetaFirst'
  BY <1>1, <1>3 DEF WriterInv, MetaFirst, Goal, file
<1>6. OneCommand'
  <2>1. \A k \in 1 .. n - 1 : k + 1 \in 1 .. n /\ q[k] = queue[k + 1]
    BY <1>2
  <2>2. 1 \in 1 .. n
    BY <1>2
  <2>3. \A k \in 1 .. n : queue[k].op # "add" =>
            /\ queue[k].from \in waits
            /\ \A l \in 1 .. n : queue[l].op # "add" /\ queue[l].from = queue[k].from => l = k
    BY DEF WriterInv, OneCommand, n
  <2>4. \A k \in 1 .. n - 1 : q[k].op # "add" =>
            /\ q[k].from \in waits
            /\ \A l \in 1 .. n - 1 : q[l].op # "add" /\ q[l].from = q[k].from => l = k
            /\ queue[1].op # "add" => queue[1].from # q[k].from
    <3> SUFFICES ASSUME NEW k \in 1 .. n - 1, q[k].op # "add"
                 PROVE  /\ q[k].from \in waits
                        /\ \A l \in 1 .. n - 1 : q[l].op # "add" /\ q[l].from = q[k].from => l = k
                        /\ queue[1].op # "add" => queue[1].from # q[k].from
      OBVIOUS
    <3>1. k \in Nat /\ k + 1 # 1 /\ \A l \in 1 .. n - 1 : l + 1 = k + 1 => l = k
      BY <1>2
    <3>2. q[k] = queue[k + 1] /\ k + 1 \in 1 .. n
      BY <2>1
    <3>3. q[k].from \in waits
      BY <2>3, <3>2
    <3>4. \A l \in 1 .. n - 1 : q[l].op # "add" /\ q[l].from = q[k].from => l + 1 = k + 1
      BY <2>1, <2>3, <3>2
    <3>5. queue[1].op # "add" => queue[1].from # q[k].from
      BY <2>2, <2>3, <3>1, <3>2
    <3> QED BY <3>1, <3>3, <3>4, <3>5
  <2>5. cmd' = queue[1] /\ queue' = q /\ Len(queue') = n - 1 /\ waits' = waits
    BY <1>1, <1>2
  <2>6. queue[1].op # "add" => queue[1].from \in waits
    BY <2>2, <2>3
  <2> QED BY <2>4, <2>5, <2>6 DEF OneCommand
<1> QED BY <1>3, <1>4, <1>5, <1>6 DEF WriterInv, Goal

Line(i) == [item |-> i, ok |-> ~torn]

LEMMA WrittenLine ==
    ASSUME Types, NEW i \in Items \cup {Meta}
    PROVE  Append(lines, Line(i)) \in Seq([item : Items \cup {Meta}, ok : BOOLEAN])
<1>1. Line(i) \in [item : Items \cup {Meta}, ok : BOOLEAN]
  BY DEF Line, Types
<1> QED BY <1>1, AppendProperties DEF Types

\* Whatever the task does between two commands and does not touch the channel.
LEMMA TaskInv ==
    ASSUME WriterInv,
           \/ ensure_writer_open \/ write_session_meta_if_needed
           \/ write_pending_items_once \/ sync \/ reply
    PROVE  WriterInv'
<1>0. /\ Types /\ Handling /\ Len(pending) \in Nat /\ issued \in Nat
      /\ queue' = queue /\ issued' = issued /\ cmd' = cmd
  BY Lengths DEF WriterInv, Handling, ensure_writer_open, write_session_meta_if_needed,
     write_pending_items_once, sync, reply, writer
<1>1. ASSUME ensure_writer_open \/ sync PROVE WriterInv'
  <2>1. /\ UNCHANGED <<queue, waits, cmd, meta, pending, file, issued, acked>>
        /\ open' \in BOOLEAN /\ deferred' \in BOOLEAN /\ result' \in {"ok", "err"}
        /\ pc' \in {"open", "meta", "reply"}
        /\ pc' = "reply" /\ result' = "ok" => pc = "sync"
    BY <1>0, <1>1 DEF ensure_writer_open, sync, fail, Types
  <2>2. Types'
    BY <1>0, <2>1 DEF Types, Handling, file
  <2>3. Handling'
    BY <2>1 DEF Handling
  <2> QED BY <1>0, <2>1, <2>2, <2>3
       DEF WriterInv, BufferOrder, ChannelOrder, MetaFirst, NothingLeft, OneCommand, file
<1>2. ASSUME write_session_meta_if_needed PROVE WriterInv'
  <2>1. /\ UNCHANGED <<queue, waits, cmd, deferred, pending, issued, acked>>
        /\ pc = "meta" /\ open' \in BOOLEAN /\ result' \in {"ok", "err"} /\ torn' \in BOOLEAN
        /\ \/ pc' = "items" /\ ~meta'
           \/ pc' = "open" /\ meta' = meta /\ lines' = lines
           \/ pc' = "reply" /\ result' = "err" /\ meta' = meta /\ lines' = lines
        /\ lines' = lines \/ lines' = Append(lines, Line(Meta))
        /\ meta' \in BOOLEAN
    <3>1. CASE ~meta /\ pc' = "items" /\ UNCHANGED <<meta, open, attempt, result, file>>
      BY <1>0, <1>2, <3>1 DEF write_session_meta_if_needed, Types, file
    <3>2. CASE /\ meta /\ written(Meta) /\ meta' = FALSE /\ pc' = "items"
               /\ UNCHANGED <<open, attempt, result>>
      BY <1>0, <1>2, <3>2 DEF write_session_meta_if_needed, written, Types, Line
    <3>3. CASE meta /\ writeFailed /\ fail /\ UNCHANGED meta
      BY <1>0, <1>2, <3>3 DEF write_session_meta_if_needed, writeFailed, fail, Types
    <3> QED BY <1>2, <3>1, <3>2, <3>3 DEF write_session_meta_if_needed
  <2>2. lines' \in Seq([item : Items \cup {Meta}, ok : BOOLEAN])
    BY <1>0, <2>1, WrittenLine DEF Types
  <2>3. Types'
    BY <1>0, <2>1, <2>2 DEF Types, Handling
  <2>4. Handling'
    BY <2>1 DEF Handling
  <2> QED BY <1>0, <2>1, <2>3, <2>4
       DEF WriterInv, BufferOrder, ChannelOrder, MetaFirst, NothingLeft, OneCommand
<1>3. ASSUME write_pending_items_once PROVE WriterInv'
  <2>1. /\ UNCHANGED <<queue, waits, cmd, deferred, meta, issued, acked>>
        /\ pc = "items" /\ open' \in BOOLEAN /\ result' \in {"ok", "err"} /\ torn' \in BOOLEAN
        /\ pc' \in {"items", "sync", "open", "reply"}
        /\ pc' = "reply" => result' = "err"
        /\ pc' = "sync" => pending' = <<>>
        /\ \/ pending' = pending /\ lines' = lines
           \/ /\ pending # <<>> /\ pending' = Tail(pending)
              /\ lines' = Append(lines, Line(Head(pending)))
    BY <1>0, <1>3 DEF Line, write_pending_items_once, written, writeFailed, fail, Types, file
  <2>2. ~meta
    BY <2>1 DEF WriterInv, MetaFirst
  <2>3. pending' \in Seq(Items) /\ lines' \in Seq([item : Items \cup {Meta}, ok : BOOLEAN])
    <3>1. pending # <<>> => Head(pending) \in Items /\ Tail(pending) \in Seq(Items)
      BY <1>0, HeadTailProperties DEF Types
    <3> QED BY <1>0, <2>1, <3>1, WrittenLine DEF Types
  <2>4. Types'
    BY <1>0, <2>1, <2>3 DEF Types, Handling
  <2>5. Handling'
    BY <2>1 DEF Handling
  <2>6. BufferOrder'
    <3>1. CASE pending' = pending
      BY <1>0, <3>1 DEF WriterInv, BufferOrder
    <3>2. CASE pending # <<>> /\ pending' = Tail(pending)
      <4>1. /\ Len(pending') = Len(pending) - 1 /\ Len(pending) \in Nat \ {0}
            /\ \A j \in 1 .. Len(pending) - 1 : pending'[j] = pending[j + 1]
        BY <1>0, <3>2, HeadTailProperties DEF Types
      <4>2. Len(queue) \in Nat /\ Adds(queue, Len(queue)) \in Nat
        BY <1>0, AddsFinite DEF Types
      <4>3. \A j \in 1 .. Len(pending) - 1 : j + 1 \in 1 .. Len(pending)
        BY <4>1
      <4>4. \A j \in 1 .. Len(pending) - 1 :
                pending[j + 1] = issued + (j + 1) - (Len(pending) + Adds(queue, Len(queue)))
        BY <4>3 DEF WriterInv, BufferOrder
      <4> QED BY <1>0, <4>1, <4>2, <4>4 DEF BufferOrder
    <3> QED BY <2>1, <3>1, <3>2
  <2> QED BY <1>0, <2>1, <2>2, <2>4, <2>5, <2>6
       DEF WriterInv, ChannelOrder, MetaFirst, NothingLeft, OneCommand
<1>4. ASSUME reply PROVE WriterInv'
  <2>1. /\ UNCHANGED <<queue, cmd, result, open, deferred, meta, pending, file, issued>>
        /\ pc' \in {"stop", "recv"}
        /\ \/ cmd.op = "add" /\ UNCHANGED <<waits, acked>>
           \/ cmd.op # "add" /\ waits' = waits \ {cmd.from} /\ acked' \in Nat
    <3>1. Ahead \in Nat /\ acked \in Nat
      BY <1>0, Lengths DEF Types
    <3>2. Promise(cmd.op, Ahead) \in Nat
      BY <3>1 DEF Promise
    <3> QED BY <1>4, <3>1, <3>2 DEF reply, writer, state
  <2>2. ~Handling'
    BY <2>1 DEF Handling
  <2>3. Types'
    BY <1>0, <2>1, <2>2 DEF Types, file
  <2>4. OneCommand'
    <3>1. \A k \in 1 .. Len(queue) : queue[k].op # "add" =>
              /\ queue[k].from \in waits
              /\ cmd.op # "add" => cmd.from # queue[k].from
              /\ \A l \in 1 .. Len(queue) :
                    queue[l].op # "add" /\ queue[l].from = queue[k].from => l = k
      BY <1>0 DEF WriterInv, OneCommand
    <3> QED BY <2>1, <2>2, <3>1 DEF OneCommand
  <2> QED BY <1>0, <2>1, <2>3, <2>4
       DEF WriterInv, BufferOrder, ChannelOrder, MetaFirst, NothingLeft, file
<1> QED BY <1>1, <1>2, <1>3, <1>4

LEMMA GoneInv == ASSUME WriterInv, gone PROVE WriterInv'
<1>1. queue' = <<>> /\ pending' = <<>> /\ Len(queue') = 0 /\ Len(pending') = 0
  BY DEF gone
<1>2. queue' \in Seq(Commands) /\ pending' \in Seq(Items)
  BY <1>1, EmptySeq
<1>3. Types'
  BY <1>2 DEF WriterInv, Types, gone, Handling, file
<1>4. BufferOrder' /\ ChannelOrder'
  BY <1>1 DEF BufferOrder, ChannelOrder
<1>5. MetaFirst' /\ NothingLeft' /\ OneCommand'
  BY <1>1 DEF gone, MetaFirst, NothingLeft, OneCommand, Handling
<1> QED BY <1>3, <1>4, <1>5 DEF WriterInv

LEMMA StepInv == ASSUME WriterInv, [Next]_vars PROVE WriterInv'
<1>1. CASE resume
  BY <1>1 DEF resume, writer, file, WriterInv, Types, BufferOrder, ChannelOrder, MetaFirst,
     NothingLeft, OneCommand, Handling
<1>2. CASE UNCHANGED vars
  BY <1>2 DEF vars, writer, state, file, WriterInv, Types, BufferOrder, ChannelOrder, MetaFirst,
     NothingLeft, OneCommand, Handling
<1> QED BY <1>1, <1>2, RecordInv, CallInv, RecvInv, TaskInv, GoneInv
     DEF Next, WriterStep, stop, crash

-----------------------------------------------------------------------------
(* The refinement mapping.                                                 *)

LEMMA FunctionIsSeq ==
    ASSUME NEW n \in Nat, NEW f \in [1 .. n -> Int]
    PROVE  f \in Seq(Int) /\ Len(f) = n
OBVIOUS

LEMMA RecordedSeq ==
    ASSUME Types
    PROVE  /\ Handed \in Nat /\ Handed = Ahead + Adds(queue, Len(queue))
           /\ Recorded \in Seq(Int) /\ Len(Recorded) = Handed
           /\ \A i \in 1 .. Handed : Recorded[i] =
                 IF i <= Len(lines) THEN lines[i].item
                 ELSE IF meta /\ i = Len(lines) + 1 THEN Meta
                 ELSE issued + i - Handed
<1>1. Handed \in Nat /\ Handed = Ahead + Adds(queue, Len(queue)) /\ issued \in Nat
  <2>1. Adds(queue, Len(queue)) \in Nat
    BY Lengths, AddsFinite
  <2> QED BY <2>1, Lengths DEF Handed
<1>2. \A i \in 1 .. Len(lines) : lines[i].item \in Int
  <2>1. \A i \in 1 .. Len(lines) : lines[i] \in [item : Items \cup {Meta}, ok : BOOLEAN]
    BY ElementOfSeq DEF Types
  <2>2. Items \cup {Meta} \subseteq Int
    BY RolloutConstants DEF Items, Meta
  <2> QED BY <2>1, <2>2
<1>3. Recorded \in [1 .. Handed -> Int]
  BY <1>1, <1>2, Lengths DEF Recorded, Meta
<1>4. Recorded \in Seq(Int) /\ Len(Recorded) = Handed
  BY <1>1, <1>3, FunctionIsSeq
<1> QED BY <1>1, <1>4 DEF Recorded

LEMMA RecordedSeqNext ==
    ASSUME Types'
    PROVE  /\ Handed' \in Nat /\ Handed' = Ahead' + Adds(queue', Len(queue'))
           /\ Recorded' \in Seq(Int) /\ Len(Recorded') = Handed'
           /\ \A i \in 1 .. Handed' : Recorded'[i] =
                 IF i <= Len(lines') THEN lines'[i].item
                 ELSE IF meta' /\ i = Len(lines') + 1 THEN Meta
                 ELSE issued' + i - Handed'
<1>0. /\ Len(queue') \in Nat /\ Len(pending') \in Nat /\ Len(lines') \in Nat
      /\ issued' \in Nat /\ Ahead' \in Nat
  BY RolloutConstants DEF Types, Ahead
<1>1. Handed' \in Nat /\ Handed' = Ahead' + Adds(queue', Len(queue')) /\ issued' \in Nat
  <2>1. Adds(queue', Len(queue')) \in Nat
    BY <1>0, AddsFinite
  <2> QED BY <1>0, <2>1 DEF Handed
<1>2. \A i \in 1 .. Len(lines') : lines'[i].item \in Int
  <2>1. \A i \in 1 .. Len(lines') : lines'[i] \in [item : Items \cup {Meta}, ok : BOOLEAN]
    BY ElementOfSeq DEF Types
  <2>2. Items \cup {Meta} \subseteq Int
    BY RolloutConstants DEF Items, Meta
  <2> QED BY <2>1, <2>2
<1>3. Recorded' \in [1 .. Handed' -> Int]
  BY <1>0, <1>1, <1>2 DEF Recorded, Meta
<1>4. Recorded' \in Seq(Int) /\ Len(Recorded') = Handed'
  BY <1>1, <1>3, FunctionIsSeq
<1> QED BY <1>1, <1>4 DEF Recorded

\* n is what the command of c promises.
Promises(c, n) ==
    \/ Handling /\ cmd.op # "add" /\ cmd.from = c /\ n = Promise(cmd.op, Ahead)
    \/ \E k \in 1 .. Len(queue) :
          /\ queue[k].op # "add" /\ queue[k].from = c
          /\ n = Promise(queue[k].op, Ahead + Adds(queue, k - 1))

LEMMA BarrierIs ==
    ASSUME Types, NEW c
    PROVE  \A n : n \in BarrierOf(c) <=> Promises(c, n)
<1>1. \A m \in Commands : (\E o \in Barriers : m = [op |-> o, from |-> c]) <=> m.op # "add" /\ m.from = c
  BY CommandForms, BarrierOps
<1>2. \A k \in 1 .. Len(queue) : queue[k] \in Commands
  BY DEF Types
<1>3. DOMAIN queue = 1 .. Len(queue) /\ (Handling => cmd \in Commands)
  BY DEF Types
<1> QED BY <1>1, <1>2, <1>3 DEF BarrierOf, Promises, Handling

LEMMA BarrierIsNext ==
    ASSUME Types', NEW c
    PROVE  \A n : n \in BarrierOf(c)' <=> Promises(c, n)'
<1>1. \A m \in Commands : (\E o \in Barriers : m = [op |-> o, from |-> c]) <=> m.op # "add" /\ m.from = c
  BY CommandForms, BarrierOps
<1>2. \A k \in 1 .. Len(queue') : queue'[k] \in Commands
  BY DEF Types
<1>3. DOMAIN queue' = 1 .. Len(queue') /\ (Handling' => cmd' \in Commands)
  BY DEF Types
<1> QED BY <1>1, <1>2, <1>3 DEF BarrierOf, Promises, Handling

LEMMA SameBarriers ==
    ASSUME Types, Types', \A c \in Callers : \A n : Promises(c, n)' <=> Promises(c, n)
    PROVE  Barrier' = Barrier
<1>1. \A c \in Callers : BarrierOf(c)' = BarrierOf(c)
  <2> SUFFICES ASSUME NEW c \in Callers PROVE BarrierOf(c)' = BarrierOf(c)
    OBVIOUS
  <2>1. \A n : n \in BarrierOf(c)' <=> n \in BarrierOf(c)
    BY BarrierIs, BarrierIsNext
  <2> QED BY <2>1
<1> QED BY <1>1 DEF Barrier

\* A step of the task that moves no item and neither takes nor answers a command.
LEMMA QuietStep ==
    ASSUME WriterInv, WriterInv', UNCHANGED <<queue, cmd, meta, pending, lines, issued>>,
           Handling' <=> Handling
    PROVE  UNCHANGED <<Recorded, Barrier>>
<1>1. Ahead' = Ahead
  BY DEF Ahead
<1>2. Handed' = Handed
  BY <1>1 DEF Handed
<1>3. Recorded' = Recorded
  BY <1>2 DEF Recorded
<1>4. \A c \in Callers : \A n : Promises(c, n)' <=> Promises(c, n)
  BY <1>1 DEF Promises
<1> QED BY <1>3, <1>4, SameBarriers DEF WriterInv

\* A line is written: the next item recorded.
LEMMA WriteStep ==
    ASSUME WriterInv, WriterInv', NEW i \in Items \cup {Meta},
           lines' = Append(lines, Line(i)), torn' = FALSE,
           UNCHANGED <<queue, cmd, issued, acked>>, Handling, Handling', ~meta',
           \/ meta /\ i = Meta /\ pending' = pending
           \/ ~meta /\ pending # <<>> /\ i = Head(pending) /\ pending' = Tail(pending)
    PROVE  Log!Commit
<1> DEFINE n == Len(lines)
<1>0. /\ Types /\ Types' /\ n \in Nat /\ Len(pending) \in Nat /\ issued \in Nat
      /\ Ahead = n + MetaLines + Len(pending) /\ (meta <=> MetaLines = 1) /\ MetaLines \in {0, 1}
      /\ Adds(queue, Len(queue)) \in Nat
  BY Lengths, AddsFinite DEF WriterInv
<1>1. Len(lines') = n + 1 /\ lines'[n + 1] = Line(i) /\ \A j \in 1 .. n : lines'[j] = lines[j]
  <2>1. lines \in Seq([item : Items \cup {Meta}, ok : BOOLEAN])
        /\ Line(i) \in [item : Items \cup {Meta}, ok : BOOLEAN]
    BY <1>0 DEF Types, Line
  <2> HIDE DEF n
  <2> QED BY <2>1, AppendProperties DEF n
<1>2. ~meta => Len(pending) \in Nat \ {0} /\ Len(pending') = Len(pending) - 1 /\ i = pending[1]
  BY <1>0, HeadTailProperties DEF Types
<1>3. Ahead' = Ahead
  BY <1>0, <1>1, <1>2 DEF Ahead
<1>4. /\ Handed' = Handed /\ Handed \in Nat /\ n + 1 <= Handed
      /\ Handed = n + MetaLines + Len(pending) + Adds(queue, Len(queue))
  BY <1>0, <1>2, <1>3, RecordedSeq DEF Handed
<1>5. ~meta => i = issued + (n + 1) - Handed
  <2> SUFFICES ASSUME ~meta PROVE i = issued + (n + 1) - Handed
    OBVIOUS
  <2>1. 1 \in 1 .. Len(pending)
    BY <1>2
  <2>2. i = issued + 1 - (Len(pending) + Adds(queue, Len(queue)))
    BY <1>2, <2>1 DEF WriterInv, BufferOrder
  <2>3. Handed = n + Len(pending) + Adds(queue, Len(queue))
    BY <1>0, <1>4
  <2> QED BY <1>0, <2>2, <2>3
<1>6. \A j \in 1 .. Handed : Recorded[j] =
          IF j <= n THEN lines[j].item
          ELSE IF meta /\ j = n + 1 THEN Meta ELSE issued + j - Handed
  BY <1>0, RecordedSeq
<1>7. \A j \in 1 .. Handed : Recorded'[j] =
          IF j <= n + 1 THEN lines'[j].item ELSE issued + j - Handed
  BY <1>0, <1>1, <1>4, RecordedSeqNext
<1>8. lines'[n + 1].item = i
  BY <1>1 DEF Line
<1>9. Recorded[n + 1] = i
  <2>1. n + 1 \in 1 .. Handed /\ ~(n + 1 <= n)
    BY <1>0, <1>4
  <2>2. Recorded[n + 1] = IF meta THEN Meta ELSE issued + (n + 1) - Handed
    BY <1>6, <2>1
  <2> QED BY <1>5, <2>2
<1>10. \A j \in 1 .. Handed : Recorded'[j] = Recorded[j]
  <2> SUFFICES ASSUME NEW j \in 1 .. Handed PROVE Recorded'[j] = Recorded[j]
    OBVIOUS
  <2>1. CASE j \in 1 .. n
    BY <1>0, <1>1, <1>6, <1>7, <2>1
  <2>2. CASE j = n + 1
    BY <1>0, <1>7, <1>8, <1>9, <2>2
  <2>3. CASE j > n + 1
    <3>1. ~(j <= n) /\ ~(j <= n + 1) /\ j # n + 1
      BY <1>0, <2>3
    <3> QED BY <1>6, <1>7, <3>1
  <2>4. j \in 1 .. n \/ j = n + 1 \/ j > n + 1
    BY <1>0
  <2> QED BY <2>1, <2>2, <2>3, <2>4
<1>11. Recorded' = Recorded
  BY <1>0, <1>4, <1>10, RecordedSeq, RecordedSeqNext, SeqEqual
<1>12. \A c \in Callers : \A m : Promises(c, m)' <=> Promises(c, m)
  BY <1>3 DEF Promises
<1>13. Barrier' = Barrier
  BY <1>0, <1>12, SameBarriers
<1>14. Len(lines) < Len(Recorded)
  BY <1>0, <1>4, RecordedSeq
<1>15. lines' = Append(lines, [item |-> Recorded[Len(lines) + 1], ok |-> ~torn])
  BY <1>9 DEF Line
<1> QED BY <1>11, <1>13, <1>14, <1>15 DEF Log!Commit

\* A command leaves the channel: nothing happens to the log.
LEMMA RecvStep ==
    ASSUME WriterInv, WriterInv', recv
    PROVE  UNCHANGED <<Recorded, lines, torn, Barrier, acked>>
<1> DEFINE n == Len(queue)
           d == IF Head(queue).op = "add" THEN 1 ELSE 0
           q == Tail(queue)
<1>0. /\ Types /\ Types' /\ Len(pending) \in Nat /\ Len(lines) \in Nat /\ issued \in Nat
      /\ Ahead = Len(lines) + MetaLines + Len(pending) /\ MetaLines \in {0, 1}
      /\ \A k \in 0 .. n : Adds(queue, k) \in Nat
  BY Lengths DEF WriterInv
<1>1. /\ pc = "recv" /\ queue # <<>> /\ cmd' = Head(queue) /\ queue' = q
      /\ UNCHANGED <<meta, lines, torn, issued, acked>>
  BY DEF recv, file
<1>2. /\ Head(queue) \in Commands /\ Head(queue) = queue[1]
      /\ n \in Nat \ {0} /\ Len(q) = n - 1
      /\ \A k \in 1 .. n - 1 : q[k] = queue[k + 1]
      /\ \A k \in 0 .. n - 1 : Adds(q, k) = Adds(queue, k + 1) - d
      /\ Adds(queue, 1) = d
  BY <1>0, <1>1, TailFacts
<1>3. /\ Ahead' = Ahead + d
      /\ Head(queue).op # "add" => Handling'
  <2>1. CASE Head(queue).op = "add"
    <3>1. pending' = Append(pending, Head(queue).item) /\ Head(queue).item \in Items
      BY <1>1, <1>2, <2>1, BarrierOps, CommandForms DEF recv, Barriers
    <3>2. Len(pending') = Len(pending) + 1
      BY <1>0, <3>1 DEF Types
    <3>3. d = 1 /\ Ahead' = Len(lines) + MetaLines + Len(pending')
      BY <1>1, <2>1 DEF Ahead, MetaLines
    <3> HIDE DEF d
    <3> QED BY <1>0, <2>1, <3>2, <3>3
  <2>2. CASE Head(queue).op # "add"
    <3>1. pending' = pending /\ pc' \in {"open", "reply"}
      BY <1>1, <2>2, BarrierOps DEF recv, Barriers
    <3>2. d = 0 /\ Ahead' = Ahead /\ Ahead \in Nat
      BY <1>0, <1>1, <2>2, <3>1 DEF Ahead
    <3> HIDE DEF d
    <3> QED BY <3>1, <3>2 DEF Handling
  <2> QED BY <2>1, <2>2
<1>d. d \in {0, 1} /\ (Head(queue).op = "add" <=> d = 1)
  OBVIOUS
<1> HIDE DEF d, q, n
<1>4. \A k \in 1 .. n : Ahead + Adds(queue, k - 1) \in Nat
  <2>1. \A k \in 1 .. n : k - 1 \in 0 .. n
    BY <1>2
  <2> QED BY <1>0, <2>1
<1>5. Handed' = Handed
  <2>1. n - 1 \in 0 .. n - 1 /\ n - 1 + 1 = n /\ n \in 0 .. n
    BY <1>2
  <2>2. Adds(q, n - 1) = Adds(queue, n) - d /\ Adds(queue, n) \in Nat
    BY <1>0, <1>2, <2>1
  <2>3. Handed' = Ahead' + Adds(q, n - 1) /\ Handed = Ahead + Adds(queue, n)
    BY <1>1, <1>2 DEF Handed, n
  <2> QED BY <1>0, <1>3, <1>d, <2>2, <2>3
<1>6. Recorded' = Recorded
  BY <1>1, <1>5 DEF Recorded
<1>7. ASSUME NEW k \in 1 .. n - 1
      PROVE  /\ q[k] = queue[k + 1] /\ k + 1 \in 1 .. n
             /\ Ahead' + Adds(q, k - 1) = Ahead + Adds(queue, (k + 1) - 1)
  <2>1. /\ k \in Nat /\ k - 1 \in 0 .. n - 1 /\ k - 1 + 1 = k /\ (k + 1) - 1 = k
        /\ k \in 0 .. n /\ k + 1 \in 1 .. n
    BY <1>2
  <2>2. Adds(q, k - 1) = Adds(queue, k) - d /\ Adds(queue, k) \in Nat
    BY <1>0, <1>2, <2>1
  <2> QED BY <1>0, <1>2, <1>3, <1>d, <2>1, <2>2
<1>8. Adds(queue, 1 - 1) = 0 /\ Ahead \in Nat
  BY <1>0, AddsNone
<1>9. \A c \in Callers : \A m : Promises(c, m)' <=> Promises(c, m)
  <2> SUFFICES ASSUME NEW c \in Callers, NEW m PROVE Promises(c, m)' <=> Promises(c, m)
    OBVIOUS
  <2> DEFINE At(k) == /\ queue[k].op # "add" /\ queue[k].from = c
                      /\ m = Promise(queue[k].op, Ahead + Adds(queue, k - 1))
             AtNext(k) == /\ q[k].op # "add" /\ q[k].from = c
                          /\ m = Promise(q[k].op, Ahead' + Adds(q, k - 1))
  <2>1. Promises(c, m) <=> \E k \in 1 .. n : At(k)
    BY <1>1 DEF Promises, Handling, n
  <2>2. \A k \in 1 .. n - 1 : AtNext(k) <=> At(k + 1)
    BY <1>7
  <2>3. (Handling' /\ cmd'.op # "add" /\ cmd'.from = c /\ m = Promise(cmd'.op, Ahead')) <=> At(1)
    <3>1. CASE Head(queue).op = "add"
      BY <1>1, <1>2, <3>1
    <3>2. CASE Head(queue).op # "add"
      <4>1. Handling' /\ Ahead' = Ahead /\ Ahead + Adds(queue, 1 - 1) = Ahead
        BY <1>3, <1>8, <1>d, <3>2
      <4> QED BY <1>1, <1>2, <4>1
    <3> QED BY <3>1, <3>2
  <2>4. Promises(c, m)' <=> At(1) \/ \E k \in 1 .. n - 1 : AtNext(k)
    BY <1>1, <1>2, <2>3 DEF Promises
  <2>5. (\E k \in 1 .. n : At(k)) <=> At(1) \/ \E k \in 1 .. n - 1 : At(k + 1)
    <3>1. 1 \in 1 .. n /\ \A k \in 1 .. n - 1 : k + 1 \in 1 .. n
      BY <1>2
    <3>2. \A k \in 1 .. n : k = 1 \/ (k - 1 \in 1 .. n - 1 /\ (k - 1) + 1 = k)
      BY <1>2
    <3> HIDE DEF At
    <3> QED BY <3>1, <3>2
  <2> HIDE DEF At, AtNext
  <2> QED BY <2>1, <2>2, <2>4, <2>5
<1>10. Barrier' = Barrier
  BY <1>0, <1>9, SameBarriers
<1> QED BY <1>1, <1>6, <1>10

\* An item is handed over.
LEMMA RecordStep ==
    ASSUME WriterInv, WriterInv', record_canonical_items
    PROVE  \E i \in Items : Log!Record(i)
<1> DEFINE m == [op |-> "add", item |-> issued + 1]
           n == Len(queue)
<1>0. /\ Types /\ Types' /\ queue \in Seq(Commands) /\ n \in Nat /\ issued \in Nat
      /\ Ahead \in Nat /\ Len(lines) \in Nat
      /\ Ahead = Len(lines) + MetaLines + Len(pending) /\ (meta <=> MetaLines = 1)
      /\ MetaLines \in {0, 1} /\ Len(pending) \in Nat
      /\ \A k \in 0 .. n : Adds(queue, k) \in Nat
  BY Lengths DEF WriterInv, Types
<1>1. /\ queue' = Append(queue, m) /\ issued < MaxItems /\ issued' = issued + 1
      /\ UNCHANGED <<pc, cmd, meta, pending, lines, torn, acked>>
  BY DEF record_canonical_items, writer, state, file
<1>2. m \in Commands /\ m.op = "add" /\ issued + 1 \in Items
  BY <1>0, <1>1, RolloutConstants DEF Commands, Items
<1> HIDE DEF m
<1>3. /\ Len(queue') = n + 1 /\ queue'[n + 1] = m /\ \A k \in 1 .. n : queue'[k] = queue[k]
  BY <1>0, <1>1, <1>2
<1>4. /\ \A k \in 0 .. n : Adds(queue', k) = Adds(queue, k)
      /\ Adds(queue', n + 1) = Adds(queue, n) + 1
  BY <1>0, <1>1, <1>2, AddsAppend
<1>5. Ahead' = Ahead
  BY <1>1 DEF Ahead
<1> HIDE DEF n
<1>6. /\ Handed' = Handed + 1 /\ Handed \in Nat
      /\ Len(lines) + MetaLines <= Handed
  <2>1. n \in 0 .. n
    BY <1>0
  <2>2. Handed = Ahead + Adds(queue, n) /\ Handed' = Ahead + Adds(queue', n + 1)
    BY <1>3, <1>5 DEF Handed, n
  <2> QED BY <1>0, <1>4, <2>1, <2>2
<1>7. \A j \in 1 .. Handed : Recorded[j] =
          IF j <= Len(lines) THEN lines[j].item
          ELSE IF meta /\ j = Len(lines) + 1 THEN Meta ELSE issued + j - Handed
  BY <1>0, RecordedSeq
<1>8. \A j \in 1 .. Handed + 1 : Recorded'[j] =
          IF j <= Len(lines) THEN lines[j].item
          ELSE IF meta /\ j = Len(lines) + 1 THEN Meta ELSE (issued + 1) + j - (Handed + 1)
  BY <1>0, <1>1, <1>6, RecordedSeqNext
<1>9. \A j \in 1 .. Handed : Recorded'[j] = Recorded[j]
  <2> SUFFICES ASSUME NEW j \in 1 .. Handed PROVE Recorded'[j] = Recorded[j]
    OBVIOUS
  <2>1. j \in 1 .. Handed + 1 /\ (issued + 1) + j - (Handed + 1) = issued + j - Handed
    BY <1>0, <1>6
  <2> QED BY <1>7, <1>8, <2>1
<1>10. Recorded'[Handed + 1] = issued + 1
  <2>1. /\ Handed + 1 \in 1 .. Handed + 1 /\ ~(Handed + 1 <= Len(lines))
        /\ (issued + 1) + (Handed + 1) - (Handed + 1) = issued + 1
        /\ ~(meta /\ Handed + 1 = Len(lines) + 1)
    BY <1>0, <1>6
  <2> QED BY <1>8, <2>1
<1>11. Recorded' = Append(Recorded, issued + 1)
  <2>1. /\ Recorded \in Seq(Int) /\ Len(Recorded) = Handed
        /\ Recorded' \in Seq(Int) /\ Len(Recorded') = Handed + 1
    BY <1>0, <1>6, RecordedSeq, RecordedSeqNext
  <2>2. /\ Append(Recorded, issued + 1) \in Seq(Int)
        /\ Len(Append(Recorded, issued + 1)) = Handed + 1
        /\ \A j \in 1 .. Handed : Append(Recorded, issued + 1)[j] = Recorded[j]
        /\ Append(Recorded, issued + 1)[Handed + 1] = issued + 1
    BY <1>0, <2>1, AppendProperties
  <2>3. \A j \in 1 .. Handed + 1 : Recorded'[j] = Append(Recorded, issued + 1)[j]
    BY <1>6, <1>9, <1>10, <2>2
  <2> QED BY <2>1, <2>2, <2>3, SeqEqual
<1>12. \A c \in Callers : \A p : Promises(c, p)' <=> Promises(c, p)
  <2>1. \A k \in 1 .. n : k - 1 \in 0 .. n /\ k \in 1 .. n + 1
    BY <1>0
  <2>2. \A k \in 1 .. n + 1 : queue'[k].op # "add" => k \in 1 .. n
    BY <1>0, <1>2, <1>3
  <2> QED BY <1>1, <1>3, <1>4, <1>5, <2>1, <2>2 DEF Promises, Handling, n
<1>13. Barrier' = Barrier
  BY <1>0, <1>12, SameBarriers
<1>14. Log!Record(issued + 1)
  BY <1>1, <1>11, <1>13 DEF Log!Record
<1> QED BY <1>2, <1>14

\* A barrier is called: it promises everything handed over before it.
LEMMA CallStep ==
    ASSUME WriterInv, WriterInv', NEW c \in Callers, NEW op \in Barriers, call(c, op)
    PROVE  Log!Call(c, op)
<1> DEFINE m == [op |-> op, from |-> c]
           n == Len(queue)
<1>0. /\ Types /\ Types' /\ queue \in Seq(Commands) /\ n \in Nat
      /\ \A k \in 0 .. n : Adds(queue, k) \in Nat
  BY Lengths DEF WriterInv, Types
<1>1. /\ queue' = Append(queue, m) /\ c \notin waits
      /\ UNCHANGED <<pc, cmd, meta, pending, lines, torn, issued, acked>>
  BY DEF call, writer, state, file
<1>2. m \in Commands /\ m.op = op /\ m.op # "add" /\ m.from = c
  BY BarrierOps DEF Commands
<1> HIDE DEF m
<1>3. /\ Len(queue') = n + 1 /\ queue'[n + 1] = m /\ \A k \in 1 .. n : queue'[k] = queue[k]
  BY <1>0, <1>1, <1>2
<1>4. /\ \A k \in 0 .. n : Adds(queue', k) = Adds(queue, k)
      /\ Adds(queue', n + 1) = Adds(queue, n)
  <2>1. Adds(queue, n) \in Nat
    BY <1>0
  <2> QED BY <1>0, <1>1, <1>2, <2>1, AddsAppend
<1>5. Ahead' = Ahead
  BY <1>1 DEF Ahead
<1> HIDE DEF n
<1>6. Handed' = Handed
  BY <1>3, <1>4, <1>5 DEF Handed, n
<1>7. Recorded' = Recorded
  BY <1>1, <1>6 DEF Recorded
<1>8. ASSUME NEW b \in Callers, NEW p
      PROVE  Promises(b, p)' <=> Promises(b, p) \/ (b = c /\ p = Promise(op, Handed))
  <2>1. \A k \in 1 .. n + 1 : k \in 1 .. n \/ k = n + 1
    BY <1>0
  <2>2. \A k \in 1 .. n : k \in 1 .. n + 1 /\ k - 1 \in 0 .. n
    BY <1>0
  <2>3. n + 1 \in 1 .. n + 1 /\ (n + 1) - 1 = n /\ n \in 0 .. n
    BY <1>0
  <2>4. Ahead + Adds(queue', (n + 1) - 1) = Handed
    BY <1>4, <2>3 DEF Handed, n
  <2> DEFINE At(k) == /\ queue[k].op # "add" /\ queue[k].from = b
                      /\ p = Promise(queue[k].op, Ahead + Adds(queue, k - 1))
             AtNext(k) == /\ queue'[k].op # "add" /\ queue'[k].from = b
                          /\ p = Promise(queue'[k].op, Ahead + Adds(queue', k - 1))
             Busy == Handling /\ cmd.op # "add" /\ cmd.from = b /\ p = Promise(cmd.op, Ahead)
  <2>5. Promises(b, p) <=> Busy \/ \E k \in 1 .. n : At(k)
    BY DEF Promises, n
  <2>6. Promises(b, p)' <=> Busy \/ \E k \in 1 .. n + 1 : AtNext(k)
    BY <1>1, <1>3, <1>5 DEF Promises, Handling
  <2>7. \A k \in 1 .. n : AtNext(k) <=> At(k)
    BY <1>3, <1>4, <2>2
  <2>8. AtNext(n + 1) <=> b = c /\ p = Promise(op, Handed)
    BY <1>2, <1>3, <2>4
  <2> HIDE DEF At, AtNext, Busy
  <2> QED BY <2>1, <2>2, <2>3, <2>5, <2>6, <2>7, <2>8
<1>9. \A p : ~Promises(c, p)
  BY <1>1 DEF WriterInv, OneCommand, Promises
<1>10. BarrierOf(c) = {} /\ BarrierOf(c)' = {Promise(op, Handed)}
  <2>1. \A p : p \notin BarrierOf(c)
    BY <1>0, <1>9, BarrierIs
  <2>2. \A p : p \in BarrierOf(c)' <=> p = Promise(op, Handed)
    BY <1>0, <1>8, <1>9, BarrierIsNext
  <2> QED BY <2>1, <2>2
<1>11. \A b \in Callers : b # c => BarrierOf(b)' = BarrierOf(b)
  <2> SUFFICES ASSUME NEW b \in Callers, b # c PROVE BarrierOf(b)' = BarrierOf(b)
    OBVIOUS
  <2>1. \A p : p \in BarrierOf(b)' <=> p \in BarrierOf(b)
    BY <1>0, <1>8, BarrierIs, BarrierIsNext
  <2> QED BY <2>1
<1>12. Barrier[c] = {} /\ Barrier' = [Barrier EXCEPT ![c] = {Promise(op, Handed)}]
  BY <1>10, <1>11 DEF Barrier
<1>13. Promise(op, Handed) = IF op # "persist" /\ Len(Recorded) = 1 THEN 0 ELSE Len(Recorded)
  BY <1>0, RecordedSeq DEF Promise
<1> QED BY <1>1, <1>7, <1>12, <1>13 DEF Log!Call, Log!NoBarrier

\* The task answers: Ok only when what the barrier promised is in the file.
LEMMA ReplyStep ==
    ASSUME WriterInv, WriterInv', reply
    PROVE  \/ UNCHANGED <<Recorded, lines, torn, Barrier, acked>>
           \/ \E c \in Callers : Log!Acknowledge(c) \/ Log!Refuse(c)
<1>0. /\ Types /\ Types' /\ Handling /\ pc = "reply" /\ cmd \in Commands /\ Len(lines) \in Nat
      /\ Ahead = Len(lines) + MetaLines + Len(pending) /\ (meta <=> MetaLines = 1)
      /\ MetaLines \in {0, 1}
  BY Lengths DEF WriterInv, reply, Types, Handling
<1>1. /\ UNCHANGED <<queue, cmd, meta, pending, lines, torn, issued>> /\ ~Handling'
  BY DEF reply, writer, state, file, Handling
<1>2. Ahead' = Ahead
  BY <1>1 DEF Ahead
<1>3. Recorded' = Recorded
  <2>1. Handed' = Handed
    BY <1>1, <1>2 DEF Handed
  <2> QED BY <1>1, <2>1 DEF Recorded
<1> DEFINE Queued(c, p) == \E k \in 1 .. Len(queue) :
               /\ queue[k].op # "add" /\ queue[k].from = c
               /\ p = Promise(queue[k].op, Ahead + Adds(queue, k - 1))
<1>4. \A c, p : Promises(c, p)' <=> Queued(c, p)
  BY <1>1, <1>2 DEF Promises
<1>5. \A c, p : Promises(c, p) <=>
          (cmd.op # "add" /\ cmd.from = c /\ p = Promise(cmd.op, Ahead)) \/ Queued(c, p)
  BY <1>0 DEF Promises
<1>6. cmd.op # "add" => \A p : ~Queued(cmd.from, p)
  BY <1>0 DEF WriterInv, OneCommand
<1> HIDE DEF Queued
<1>7. CASE cmd.op = "add"
  <2>1. Barrier' = Barrier
    <3>1. \A c \in Callers : \A p : Promises(c, p)' <=> Promises(c, p)
      BY <1>4, <1>5, <1>7
    <3> QED BY <1>0, <3>1, SameBarriers
  <2>2. acked' = acked
    BY <1>7 DEF reply
  <2> QED BY <1>1, <1>3, <2>1, <2>2
<1>8. CASE cmd.op # "add"
  <2> DEFINE a == Promise(cmd.op, Ahead)
  <2>1. PICK c \in Callers : c = cmd.from
    BY <1>0, <1>8, CommandForms
  <2>2. BarrierOf(c) = {a} /\ BarrierOf(c)' = {}
    <3>1. \A p : p \in BarrierOf(c) <=> p = a
      BY <1>0, <1>5, <1>6, <1>8, <2>1, BarrierIs
    <3>2. \A p : p \notin BarrierOf(c)'
      BY <1>0, <1>4, <1>6, <1>8, <2>1, BarrierIsNext
    <3> QED BY <3>1, <3>2
  <2>3. \A b \in Callers : b # c => BarrierOf(b)' = BarrierOf(b)
    <3> SUFFICES ASSUME NEW b \in Callers, b # c PROVE BarrierOf(b)' = BarrierOf(b)
      OBVIOUS
    <3>1. \A p : p \in BarrierOf(b)' <=> p \in BarrierOf(b)
      BY <1>0, <1>4, <1>5, <2>1, BarrierIs, BarrierIsNext
    <3> QED BY <3>1
  <2>4. acked' = IF result = "ok" /\ a > acked THEN a ELSE acked
    BY <1>8 DEF reply
  <2> HIDE DEF a
  <2>5. Barrier[c] = {a} /\ Barrier' = [Barrier EXCEPT ![c] = {}]
    BY <2>1, <2>2, <2>3 DEF Barrier
  <2>6. CASE result = "ok"
    <3>1. a <= Len(lines)
      <4>1. Len(pending) = 0 /\ (meta => cmd.op # "persist" /\ Len(lines) = 0)
        BY <1>0, <2>6 DEF WriterInv, NothingLeft, MetaFirst
      <4> QED BY <1>0, <4>1 DEF Promise, a
    <3>2. Log!Acknowledge(c)
      BY <1>1, <1>3, <2>4, <2>5, <2>6, <3>1 DEF Log!Acknowledge, Log!NoBarrier
    <3> QED BY <2>1, <3>2
  <2>7. CASE result # "ok"
    <3>1. Log!Refuse(c)
      BY <1>1, <1>3, <2>4, <2>5, <2>7 DEF Log!Refuse, Log!NoBarrier
    <3> QED BY <2>1, <3>1
  <2> QED BY <2>6, <2>7
<1> QED BY <1>7, <1>8

\* The task stops or the process dies: the lines of the file remain.
LEMMA GoneStep ==
    ASSUME WriterInv, WriterInv', gone
    PROVE  Log!Stop
<1> DEFINE n == Len(lines)
<1>0. /\ Types /\ Types' /\ n \in Nat /\ Ahead = n + MetaLines + Len(pending)
      /\ MetaLines \in {0, 1} /\ Len(pending) \in Nat
  BY Lengths DEF WriterInv
<1>1. /\ pc' = "dead" /\ Len(queue') = 0 /\ ~meta' /\ Len(pending') = 0
      /\ UNCHANGED <<lines, torn, acked>>
  BY DEF gone, file
<1>2. Ahead' = n
  BY <1>0, <1>1 DEF Ahead
<1>3. Handed' = n
  <2>1. Adds(queue', 0) = 0
    BY AddsNone
  <2> QED BY <1>0, <1>1, <1>2, <2>1 DEF Handed
<1>4. n <= Handed /\ Handed \in Nat
  <2>1. Handed = Ahead + Adds(queue, Len(queue)) /\ Adds(queue, Len(queue)) \in Nat /\ Handed \in Nat
    BY <1>0, RecordedSeq, AddsFinite, Lengths
  <2> QED BY <1>0, <2>1
<1>5. Recorded' = SubSeq(Recorded, 1, n)
  <2>1. Recorded' \in Seq(Int) /\ Len(Recorded') = n /\ \A j \in 1 .. n : Recorded'[j] = lines[j].item
    BY <1>0, <1>1, <1>3, RecordedSeqNext
  <2>2. \A j \in 1 .. n : Recorded[j] = lines[j].item /\ Recorded[j] \in Int
    BY <1>0, <1>4, RecordedSeq
  <2> HIDE DEF n
  <2>3. /\ SubSeq(Recorded, 1, n) \in Seq(Int) /\ Len(SubSeq(Recorded, 1, n)) = n
        /\ \A j \in 1 .. n : SubSeq(Recorded, 1, n)[j] = Recorded[j]
    <3>1. 1 \in Int /\ n \in Int
      BY <1>0
    <3>2. /\ SubSeq(Recorded, 1, n) \in Seq(Int)
          /\ Len(SubSeq(Recorded, 1, n)) = IF 1 <= n THEN n - 1 + 1 ELSE 0
          /\ \A j \in 1 .. n - 1 + 1 : SubSeq(Recorded, 1, n)[j] = Recorded[1 + j - 1]
      BY <2>2, <3>1, SubSeqProperties
    <3> QED BY <1>0, <3>2
  <2>4. \A j \in 1 .. n : Recorded'[j] = SubSeq(Recorded, 1, n)[j]
    BY <2>1, <2>2, <2>3
  <2> QED BY <2>1, <2>3, <2>4, SeqEqual
<1>6. Barrier' = [c \in Callers |-> {}]
  <2>1. \A c : BarrierOf(c)' = {}
    <3> SUFFICES ASSUME NEW c PROVE BarrierOf(c)' = {}
      OBVIOUS
    <3>1. \A p : ~Promises(c, p)'
      BY <1>1 DEF Promises, Handling
    <3>2. \A p : p \notin BarrierOf(c)'
      BY <1>0, <3>1, BarrierIsNext
    <3> QED BY <3>2
  <2> QED BY <2>1 DEF Barrier
<1> QED BY <1>1, <1>5, <1>6 DEF Log!Stop, Log!NoBarrier

-----------------------------------------------------------------------------

LEMMA InitLog == Init => Log!Init
<1> SUFFICES ASSUME Init PROVE Log!Init
  OBVIOUS
<1>1. Types /\ WriterInv
  BY InitInv DEF WriterInv
<1>2. Len(queue) = 0 /\ Len(lines) = 0 /\ Len(pending) = 0 /\ meta /\ pc = "recv"
  BY DEF Init
<1>3. Handed = 1
  <2>1. Ahead = 1
    BY <1>2 DEF Ahead
  <2> QED BY <1>2, <2>1, AddsNone DEF Handed
<1>4. Recorded = <<Meta>>
  <2>1. Recorded = [i \in 1 .. 1 |-> Meta]
    BY <1>2, <1>3 DEF Recorded
  <2> QED BY <2>1
<1>5. Barrier = [c \in Callers |-> {}]
  <2>1. \A c, p : ~Promises(c, p)
    BY <1>2 DEF Promises, Handling
  <2>2. \A c : BarrierOf(c) = {}
    BY <1>1, <2>1, BarrierIs
  <2> QED BY <2>2 DEF Barrier
<1> QED BY <1>4, <1>5 DEF Init, Log!Init, Log!NoBarrier

\* Every step of the writer is a step of the log or changes nothing of it.
LEMMA StepLog == ASSUME WriterInv, WriterInv', [Next]_vars PROVE [Log!Next]_(Log!vars)
<1>1. CASE record_canonical_items
  BY <1>1, RecordStep DEF Log!Next
<1>2. CASE \E c \in Callers, op \in Barriers : call(c, op)
  BY <1>2, CallStep DEF Log!Next, Barriers
<1>3. CASE recv
  BY <1>3, RecvStep DEF Log!vars
<1>4. CASE ensure_writer_open \/ sync \/ resume \/ UNCHANGED vars
  <2>1. /\ UNCHANGED <<queue, cmd, meta, pending, lines, torn, issued, acked>>
        /\ Handling' <=> Handling
    BY <1>4 DEF ensure_writer_open, sync, fail, resume, vars, writer, state, file, Handling
  <2> QED BY <2>1, QuietStep DEF Log!vars
<1>5. CASE write_session_meta_if_needed
  <2>1. UNCHANGED <<queue, cmd, pending, issued, acked>> /\ Handling /\ Handling'
    BY <1>5 DEF write_session_meta_if_needed, fail, Handling
  <2>2. CASE UNCHANGED <<meta, file>>
    BY <2>1, <2>2, QuietStep DEF Log!vars, file
  <2>3. CASE meta /\ written(Meta) /\ ~meta'
    BY <2>1, <2>3, WriteStep DEF written, Line, Log!Next
  <2>4. CASE writeFailed /\ UNCHANGED meta
    <3>1. UNCHANGED <<Recorded, Barrier, lines>> /\ torn' \in {torn, TRUE}
      BY <2>1, <2>4, QuietStep DEF writeFailed
    <3> QED BY <2>1, <3>1 DEF Log!Next, Log!Tear, Log!vars
  <2> QED BY <1>5, <2>2, <2>3, <2>4 DEF write_session_meta_if_needed
<1>6. CASE write_pending_items_once
  <2>1. UNCHANGED <<queue, cmd, meta, issued, acked>> /\ Handling /\ Handling' /\ ~meta
    BY <1>6 DEF write_pending_items_once, fail, Handling, WriterInv, MetaFirst
  <2>2. CASE UNCHANGED <<pending, file>>
    BY <2>1, <2>2, QuietStep DEF Log!vars, file
  <2>3. CASE pending # <<>> /\ written(Head(pending)) /\ pending' = Tail(pending)
    <3>1. Head(pending) \in Items
      BY <2>3, HeadTailProperties DEF WriterInv, Types
    <3> QED BY <2>1, <2>3, <3>1, WriteStep DEF written, Line, Log!Next
  <2>4. CASE writeFailed /\ UNCHANGED pending
    <3>1. UNCHANGED <<Recorded, Barrier, lines>> /\ torn' \in {torn, TRUE}
      BY <2>1, <2>4, QuietStep DEF writeFailed
    <3> QED BY <2>1, <3>1 DEF Log!Next, Log!Tear, Log!vars
  <2> QED BY <1>6, <2>2, <2>3, <2>4 DEF write_pending_items_once
<1>7. CASE reply
  BY <1>7, ReplyStep DEF Log!Next, Log!vars
<1>8. CASE stop \/ crash
  BY <1>8, GoneStep DEF stop, crash, Log!Next
<1> QED BY <1>1, <1>2, <1>3, <1>4, <1>5, <1>6, <1>7, <1>8 DEF Next, WriterStep

\* Where the items, the commands and the callers are in every reachable state of
\* the recorder and its writer task: the invariant under the refinement.
THEOREM WriterInvariant == Spec => []WriterInv
BY InitInv, StepInv, PTL DEF Spec

\* rollout_writer with its channel, its buffer and its recovery implements the
\* log: items reach the file in the order they were recorded, the meta first,
\* none twice and none left out, and a barrier returns Ok only when everything
\* recorded before it is in the file, whatever fails and whenever the process
\* dies.
THEOREM Implements == Spec => KeepsPromise
<1>1. WriterInv /\ WriterInv' /\ [Next]_vars => [Log!Next]_(Log!vars)
  BY StepLog
<1> QED BY <1>1, InitLog, WriterInvariant, PTL DEF Spec, KeepsPromise, Log!Spec


-----------------------------------------------------------------------------
(***************************************************************************)
(* TLAPS proofs about RolloutCompression, for any number of appenders,     *)
(* readers and items.                                                      *)
(*                                                                         *)
(* The week between two compressions keeps the worker and those who turn   *)
(* a rollout back apart: while the worker is at work nobody decompresses,  *)
(* and a plain file that was just made is not removed.  A reader therefore *)
(* meets at most two changes of the representation.                        *)
(***************************************************************************)

Kept == {Base} \cup safe

\* An appender that turns the compressed form back.
Materializing == {"zst", "decompress", "link", "unzst"}

CompressionTypes ==
    /\ plain \in Plain \cup {None}
    /\ zst \in Data \cup {None}
    /\ wpc \in {"idle", "exists", "encode", "check", "persist", "recheck", "remove"}
    /\ before \in Plain \cup {None} /\ wtemp \in Data
    /\ apc \in [Appenders -> Materializing \cup {"idle", "open", "opened"}]
    /\ atemp \in [Appenders -> Data]
    /\ linked \subseteq Appenders /\ (linked # {} => plain # None)
    /\ appended \in 0 .. MaxAppends /\ safe \in Data

\* The worker has seen an old plain file and nobody decompresses meanwhile;
\* the file it saw is still there, or has been written to and is not old.
WorkerAlone ==
    wpc # "idle" =>
        /\ plain # None
        /\ \A a \in Appenders : apc[a] \notin Materializing
        /\ before # None /\ before.old
        /\ plain = before \/ ~plain.old

\* Its temporary file is what it saw, unless the file has been written to.
WorkerCopies ==
    /\ wpc \in {"check", "persist", "recheck", "remove"} =>
         Base \in wtemp /\ (plain = before => wtemp = before.data)
    /\ wpc \in {"recheck", "remove"} => zst = wtemp
    /\ wpc = "remove" => Kept \subseteq zst

\* An appender that decompresses has found no plain file, and the one that has
\* appeared since is new; what it links is the history.
AppenderCopies ==
    \A a \in Appenders :
        /\ apc[a] \in Materializing => plain = None \/ ~plain.old
        /\ apc[a] = "unzst" => plain # None
        /\ apc[a] = "link" /\ plain = None => Kept \subseteq atemp[a]

BaseCompressed == zst # None => Base \in zst

KeptInv ==
    CompressionTypes /\ WorkerAlone /\ WorkerCopies /\ AppenderCopies /\ BaseCompressed /\ CheckedIsKept

USE CompressionConstants

\* No file is none of the files.
LEMMA NoneIsNone == None \notin Plain /\ None \notin Data
  BY DEF CompressionConstants

LEMMA BaseIsData == {Base} \in Data /\ {} \in Data /\ [data |-> {Base}, old |-> TRUE] \in Plain
  BY DEF Base, Data, Plain

LEMMA InitKept == CompressionInit => KeptInv
<1> SUFFICES ASSUME CompressionInit PROVE KeptInv
  OBVIOUS
<1>1. CompressionTypes
  <2>1. plain \in Plain \cup {None} /\ zst \in Data \cup {None}
    BY BaseIsData DEF CompressionInit
  <2>2. QED
    BY <2>1, BaseIsData DEF CompressionInit, CompressionTypes
<1>2. WorkerAlone /\ WorkerCopies /\ AppenderCopies /\ BaseCompressed
  BY DEF CompressionInit, WorkerAlone, WorkerCopies, AppenderCopies, BaseCompressed, Materializing
<1>3. CheckedIsKept
  <2>1. CASE plain = [data |-> {Base}, old |-> TRUE] /\ zst = None
    BY <2>1, BaseIsData, NoneIsNone DEF CompressionInit, CheckedIsKept, Visible
  <2>2. CASE plain = None /\ zst = {Base}
    BY <2>2, BaseIsData, NoneIsNone DEF CompressionInit, CheckedIsKept, Visible
  <2>3. QED
    BY <2>1, <2>2 DEF CompressionInit
<1>4. QED
  BY <1>1, <1>2, <1>3 DEF KeptInv

\* The steps of the worker.
LEMMA WorkerStep ==
    ASSUME KeptInv,
           \/ cold_file_state \/ alreadyCompressed \/ encode_zstd \/ checkSame
           \/ persist_noclobber \/ recheck \/ remove_plain \/ workerDies
    PROVE  KeptInv'
<1> USE NoneIsNone DEF KeptInv, wgoto, appender, CheckedIsKept, Visible, Kept
<1>1. CASE cold_file_state
  BY <1>1 DEF cold_file_state, CompressionTypes, WorkerAlone, WorkerCopies, AppenderCopies, BaseCompressed
<1>2. CASE alreadyCompressed
  BY <1>2 DEF alreadyCompressed, CompressionTypes, WorkerAlone, WorkerCopies, AppenderCopies, BaseCompressed
<1>3. CASE encode_zstd
  BY <1>3 DEF encode_zstd, CompressionTypes, WorkerAlone, WorkerCopies, AppenderCopies, BaseCompressed, Plain
<1>4. CASE checkSame
  BY <1>4 DEF checkSame, CompressionTypes, WorkerAlone, WorkerCopies, AppenderCopies, BaseCompressed
<1>5. CASE persist_noclobber
  BY <1>5 DEF persist_noclobber, CompressionTypes, WorkerAlone, WorkerCopies, AppenderCopies, BaseCompressed
<1>6. CASE recheck
  BY <1>6 DEF recheck, same_file_state, CompressionTypes, WorkerAlone,
         WorkerCopies, AppenderCopies, BaseCompressed
<1>7. CASE remove_plain
  BY <1>7 DEF remove_plain, CompressionTypes, WorkerAlone,
         WorkerCopies, AppenderCopies, BaseCompressed, Materializing
<1>8. CASE workerDies
  BY <1>8 DEF workerDies, CompressionTypes, WorkerAlone, WorkerCopies, AppenderCopies, BaseCompressed
<1>9. QED
  BY <1>1, <1>2, <1>3, <1>4, <1>5, <1>6, <1>7, <1>8

\* The steps of the appenders, of which none creates a missing file.
LEMMA AppenderStep ==
    ASSUME KeptInv, Creates = {}, NEW a \in Appenders,
           \/ plainExists(a) \/ zstExists(a) \/ decompress(a) \/ hard_link(a)
           \/ remove_zst(a) \/ open_append(a) \/ append_item(a) \/ appenderEnds(a)
    PROVE  KeptInv'
<1> USE NoneIsNone DEF KeptInv, agoto, worker, CheckedIsKept, Visible, Kept, Materializing
<1>1. CASE plainExists(a)
  BY <1>1 DEF plainExists, CompressionTypes, WorkerAlone, WorkerCopies, AppenderCopies, BaseCompressed
<1>2. CASE zstExists(a)
  BY <1>2 DEF zstExists, CompressionTypes, WorkerAlone, WorkerCopies, AppenderCopies, BaseCompressed
<1>3. CASE decompress(a)
  BY <1>3 DEF decompress, CompressionTypes, WorkerAlone, WorkerCopies, AppenderCopies, BaseCompressed
<1>4. CASE hard_link(a)
  <2>1. plain' \in Plain
    <3>1. [data |-> atemp[a], old |-> FALSE] \in Plain
      BY DEF CompressionTypes, Plain
    <3>2. QED
      BY <1>4, <3>1 DEF hard_link, CompressionTypes
  <2>2. plain = None => plain'.data = atemp[a] /\ ~plain'.old
    BY <1>4 DEF hard_link
  <2>3. plain # None => plain' = plain
    BY <1>4 DEF hard_link
  <2>4. CompressionTypes' /\ plain' # None
    BY <1>4, <2>1 DEF hard_link, CompressionTypes
  <2>5. WorkerAlone' /\ WorkerCopies' /\ BaseCompressed'
    BY <1>4, <2>3 DEF hard_link, CompressionTypes, WorkerAlone, WorkerCopies, BaseCompressed
  <2>6. AppenderCopies'
    BY <1>4, <2>2, <2>3, <2>4 DEF hard_link, CompressionTypes, AppenderCopies
  <2>7. CheckedIsKept'
    BY <1>4, <2>2, <2>3, <2>4 DEF hard_link, AppenderCopies
  <2>8. QED
    BY <2>4, <2>5, <2>6, <2>7
<1>5. CASE remove_zst(a)
  BY <1>5 DEF remove_zst, CompressionTypes, WorkerAlone, WorkerCopies, AppenderCopies, BaseCompressed
<1>6. CASE open_append(a)
  BY <1>6 DEF open_append, CompressionTypes, WorkerAlone, WorkerCopies, AppenderCopies, BaseCompressed
<1>7. CASE append_item(a)
  <2>1. appended' \in 0 .. MaxAppends /\ safe' \in Data
    <3>1. appended' \in 0 .. MaxAppends
      BY <1>7 DEF append_item, CompressionTypes
    <3>2. safe \cup {appended'} \in Data
      BY <3>1 DEF CompressionTypes, Data
    <3>3. safe' = safe \/ safe' = safe \cup {appended'}
      BY <1>7 DEF append_item
    <3>4. QED
      BY <3>1, <3>2, <3>3 DEF CompressionTypes
  <2>2. CASE a \notin linked
    BY <1>7, <2>1, <2>2 DEF append_item, CompressionTypes, WorkerAlone, WorkerCopies, AppenderCopies,
           BaseCompressed
  <2>3. CASE a \in linked
    <3>1. plain \in Plain /\ plain # None
      BY <2>3 DEF CompressionTypes
    <3>2. /\ plain' \in Plain /\ plain' # None /\ ~plain'.old
          /\ plain'.data = plain.data \cup {appended'}
      <4>1. plain.data \cup {appended'} \in Data
        BY <2>1, <3>1 DEF Plain, Data
      <4>2. plain' = [data |-> plain.data \cup {appended'}, old |-> FALSE]
        BY <1>7, <2>3 DEF append_item
      <4>3. plain' \in Plain
        BY <4>1, <4>2 DEF Plain
      <4>4. QED
        BY <4>2, <4>3
    <3>3. safe' \subseteq safe \cup {appended'} /\ (wpc = "remove" => safe' = safe)
      BY <1>7, <2>3 DEF append_item
    <3>4. QED
      BY <1>7, <2>1, <3>1, <3>2, <3>3 DEF append_item, CompressionTypes, WorkerAlone, WorkerCopies,
             AppenderCopies, BaseCompressed
  <2>4. QED
    BY <2>2, <2>3
<1>8. CASE appenderEnds(a)
  BY <1>8 DEF appenderEnds, CompressionTypes, WorkerAlone, WorkerCopies, AppenderCopies, BaseCompressed
<1>9. QED
  BY <1>1, <1>2, <1>3, <1>4, <1>5, <1>6, <1>7, <1>8

\* Readers change nothing, and a week passes only when nobody decompresses.
LEMMA OtherStep ==
    ASSUME KeptInv,
           \/ UNCHANGED <<plain, zst, worker, appender>>
           \/ grow_old
    PROVE  KeptInv'
<1> USE NoneIsNone DEF KeptInv, worker, appender, CheckedIsKept, Visible, Kept, Materializing
<1>1. CASE UNCHANGED <<plain, zst, worker, appender>>
  BY <1>1 DEF CompressionTypes, WorkerAlone, WorkerCopies, AppenderCopies, BaseCompressed
<1>2. CASE grow_old
  BY <1>2 DEF grow_old, CompressionTypes, WorkerAlone, WorkerCopies, AppenderCopies, BaseCompressed, Plain
<1>3. QED
  BY <1>1, <1>2

\* Every step keeps the history.
LEMMA StepKept == Creates = {} /\ KeptInv /\ [CompressionNext]_compression_vars => KeptInv'
<1> SUFFICES ASSUME Creates = {}, KeptInv, [CompressionNext]_compression_vars PROVE KeptInv'
  OBVIOUS
<1>1. CASE \/ cold_file_state \/ alreadyCompressed \/ encode_zstd \/ checkSame
           \/ persist_noclobber \/ recheck \/ remove_plain \/ workerDies
  BY <1>1, WorkerStep
<1>2. ASSUME NEW a \in Appenders,
             \/ plainExists(a) \/ zstExists(a) \/ decompress(a) \/ hard_link(a)
             \/ remove_zst(a) \/ open_append(a) \/ append_item(a) \/ appenderEnds(a)
      PROVE  KeptInv'
  BY <1>2, AppenderStep
<1>3. ASSUME NEW r \in Readers, existing_rollout_path(r) \/ open_once(r) \/ readerEnds(r)
      PROVE  KeptInv'
  BY <1>3, OtherStep DEF existing_rollout_path, open_once, readerEnds
<1>4. CASE grow_old \/ UNCHANGED compression_vars
  BY <1>4, OtherStep DEF compression_vars
<1>5. QED
  BY <1>1, <1>2, <1>3, <1>4 DEF CompressionNext

-----------------------------------------------------------------------------
(* The readers.                                                            *)

\* The plain file may go: it is old, or the worker has decided to remove it.
Removable == plain # None /\ (plain.old \/ wpc = "remove")

\* How often reader r may have failed by now.  Until the plain file goes it has
\* not; it fails once more at most when the plain file is made again.
Attempts(r) ==
    /\ rpc[r] \in {"idle", "zst", "openPlain", "openZst", "found"}
    /\ tries[r] \in 0 .. 2
    /\ rpc[r] = "found" => Base \in got[r]
    /\ rpc[r] = "idle" => (Removable => tries[r] = 0) /\ (plain = None => tries[r] <= 1)
    /\ rpc[r] = "openPlain" => (Removable \/ plain = None => tries[r] = 0)
    /\ rpc[r] \in {"zst", "openZst"} => ~Removable /\ tries[r] <= 1

ReaderTypes ==
    /\ DOMAIN rpc = Readers /\ DOMAIN tries = Readers /\ DOMAIN got = Readers

ReaderInv == ReaderTypes /\ \A r \in Readers : Attempts(r)

LEMMA InitReader == CompressionInit => ReaderInv
  BY DEF CompressionInit, ReaderInv, ReaderTypes, Attempts, Removable

\* Steps of the others: a plain file that can be removed comes from a week
\* without readers, a missing one from one that could.
LEMMA Onward ==
    ASSUME ReaderInv, UNCHANGED reader,
           Removable' => Removable \/ \A r \in Readers : rpc[r] \in {"idle", "found"} /\ tries[r] = 0,
           plain' = None => plain = None \/ Removable
    PROVE  ReaderInv'
<1>1. ReaderTypes'
  BY DEF ReaderInv, ReaderTypes, reader
<1>2. ASSUME NEW r \in Readers PROVE Attempts(r)'
  <2>1. Attempts(r) /\ UNCHANGED <<rpc, tries, got>>
    BY DEF ReaderInv, reader
  <2>2. QED
    BY <2>1 DEF Attempts, Removable
<1>3. QED
  BY <1>1, <1>2 DEF ReaderInv

LEMMA OthersOnward ==
    ASSUME KeptInv, Creates = {}, ReaderInv, UNCHANGED reader, [CompressionNext]_compression_vars
    PROVE  ReaderInv'
<1> USE NoneIsNone DEF KeptInv
<1>1. ASSUME cold_file_state \/ alreadyCompressed \/ encode_zstd \/ checkSame
             \/ persist_noclobber \/ workerDies
      PROVE  ReaderInv'
  BY <1>1, Onward DEF cold_file_state, alreadyCompressed, encode_zstd, checkSame, persist_noclobber,
         workerDies, wgoto, Removable, worker
<1>2. CASE recheck
  BY <1>2, Onward DEF recheck, same_file_state, wgoto, Removable, WorkerAlone
<1>3. CASE remove_plain
  BY <1>3, Onward DEF remove_plain, wgoto, Removable, WorkerAlone
<1>4. ASSUME NEW a \in Appenders,
             plainExists(a) \/ zstExists(a) \/ decompress(a) \/ remove_zst(a) \/ open_append(a)
             \/ appenderEnds(a)
      PROVE  ReaderInv'
  BY <1>4, Onward DEF plainExists, zstExists, decompress, remove_zst, open_append, appenderEnds,
         Removable, worker
<1>5. ASSUME NEW a \in Appenders, hard_link(a) PROVE ReaderInv'
  BY <1>5, Onward DEF hard_link, Removable, worker, WorkerAlone, Materializing
<1>6. ASSUME NEW a \in Appenders, append_item(a) PROVE ReaderInv'
  <2>1. CASE a \notin linked
    BY <1>6, <2>1, Onward DEF append_item, Removable, worker
  <2>2. CASE a \in linked
    <3>1. plain \in Plain /\ plain # None
      BY <2>2 DEF CompressionTypes
    <3>2. wpc' = wpc /\ ~plain'.old /\ plain' # None
      <4>1. plain' = [data |-> plain.data \cup {appended'}, old |-> FALSE] /\ appended' \in 0 .. MaxAppends
        BY <1>6, <2>2 DEF append_item, CompressionTypes
      <4>2. plain' \in Plain
        BY <3>1, <4>1 DEF Plain, Data
      <4>3. QED
        BY <1>6, <4>1, <4>2 DEF append_item, worker
    <3>3. QED
      BY <3>1, <3>2, Onward DEF Removable
  <2>3. QED
    BY <2>1, <2>2
<1>7. CASE grow_old
  <2>1. plain' # None
    BY <1>7 DEF grow_old, CompressionTypes, Plain
  <2>2. QED
    BY <1>7, <2>1, Onward DEF grow_old
<1>8. CASE UNCHANGED <<plain, zst, worker, appender>>
  BY <1>8, Onward DEF Removable, worker
<1>9. ASSUME NEW r \in Readers, existing_rollout_path(r) \/ open_once(r) \/ readerEnds(r)
      PROVE  ReaderInv'
  BY <1>8, <1>9 DEF existing_rollout_path, open_once, readerEnds
<1>10. QED
  BY <1>1, <1>2, <1>3, <1>4, <1>5, <1>6, <1>7, <1>8, <1>9 DEF CompressionNext, compression_vars

\* A reader's own steps: when a file it has seen is gone, it fails once more.
LEMMA ReaderStep ==
    ASSUME KeptInv, ReaderInv, MaxTries > 2, NEW r \in Readers,
           existing_rollout_path(r) \/ open_once(r) \/ readerEnds(r)
    PROVE  ReaderInv'
<1> USE NoneIsNone DEF KeptInv
<1>1. /\ UNCHANGED <<plain, zst, wpc>> /\ (Removable' <=> Removable)
      /\ plain # None => Base \in plain.data
      /\ zst # None => Base \in zst
      /\ plain = None => zst # None
  BY DEF existing_rollout_path, open_once, readerEnds, worker, Removable, CheckedIsKept, Visible,
         BaseCompressed
<1>2. Attempts(r) /\ ReaderTypes
  BY DEF ReaderInv
<1>3. ReaderTypes' /\ \A s \in Readers \ {r} : rpc'[s] = rpc[s] /\ tries'[s] = tries[s] /\ got'[s] = got[s]
  BY <1>2 DEF existing_rollout_path, open_once, readerEnds, rgoto, rfound, retry, ReaderTypes
<1>4. Attempts(r)'
  <2>0. CASE retry(r) /\ rpc[r] \in {"zst", "openPlain", "openZst"}
             /\ (rpc[r] = "openPlain" <=> plain = None)
    <3>1. tries[r] <= 1 /\ ~Removable /\ (plain = None => tries[r] = 0) /\ tries[r] \in 0 .. 2
      BY <1>2, <2>0 DEF Attempts, Removable
    <3>2. tries'[r] = tries[r] + 1 /\ rpc'[r] = "idle"
      BY <1>2, <2>0, <3>1 DEF retry, ReaderTypes
    <3>3. QED
      BY <1>1, <3>1, <3>2 DEF Attempts
  <2>1. CASE existing_rollout_path(r)
    <3>1. CASE rpc[r] = "idle"
      <4>1. rpc'[r] = (IF plain # None THEN "openPlain" ELSE "zst") /\ tries'[r] = tries[r]
        BY <1>2, <2>1, <3>1 DEF existing_rollout_path, rgoto, ReaderTypes
      <4>2. QED
        BY <1>1, <1>2, <3>1, <4>1 DEF Attempts, Removable
    <3>2. CASE rpc[r] = "zst" /\ zst # None
      <4>1. rpc'[r] = "openZst" /\ tries'[r] = tries[r]
        BY <1>2, <2>1, <3>2 DEF existing_rollout_path, rgoto, ReaderTypes
      <4>2. QED
        BY <1>1, <1>2, <3>2, <4>1 DEF Attempts
    <3>3. CASE rpc[r] = "zst" /\ zst = None
      BY <1>1, <2>0, <2>1, <3>3 DEF existing_rollout_path
    <3>4. QED
      BY <2>1, <3>1, <3>2, <3>3 DEF existing_rollout_path
  <2>2. CASE open_once(r)
    <3>1. CASE (rpc[r] = "openPlain" /\ plain # None) \/ (rpc[r] = "openZst" /\ zst # None)
      <4>1. rpc'[r] = "found" /\ tries'[r] = tries[r] /\ Base \in got'[r]
        BY <1>1, <1>2, <2>2, <3>1 DEF open_once, rfound, ReaderTypes
      <4>2. QED
        BY <1>2, <4>1 DEF Attempts
    <3>2. CASE (rpc[r] = "openPlain" /\ plain = None) \/ (rpc[r] = "openZst" /\ zst = None)
      BY <1>1, <2>0, <2>2, <3>2 DEF open_once
    <3>3. QED
      BY <2>2, <3>1, <3>2 DEF open_once
  <2>3. CASE readerEnds(r)
    BY <1>1, <1>2, <2>3 DEF readerEnds, Attempts, ReaderTypes
  <2>4. QED
    BY <2>1, <2>2, <2>3
<1>5. \A s \in Readers \ {r} : Attempts(s)'
  BY <1>1, <1>3 DEF ReaderInv, Attempts
<1>6. QED
  BY <1>3, <1>4, <1>5 DEF ReaderInv

-----------------------------------------------------------------------------
(* The theorems.                                                           *)

\* Whatever the worker and the appenders are doing, what they hold is a copy
\* of the history, and the worker is alone with the file it removes: for every
\* number of appenders and readers, when nobody reopens the rollout with
\* create(true) (open_log_file, after a failed write).
THEOREM CopiesInvariant == ASSUME Creates = {} PROVE CompressionSpec => []KeptInv
<1>1. CompressionInit => KeptInv
  BY InitKept
<1>2. KeptInv /\ [CompressionNext]_compression_vars => KeptInv'
  BY StepKept
<1>3. QED
  BY <1>1, <1>2, PTL DEF CompressionSpec

\* compress_rollout_if_cold_blocking and materialize_rollout_for_append never
\* leave the rollout without its history, nor without an append that the
\* worker's second look could still notice, wherever either of them stops.
THEOREM HistoryKept == ASSUME Creates = {} PROVE CompressionSpec => []CheckedIsKept
<1>1. KeptInv => CheckedIsKept
  BY DEF KeptInv
<1>2. QED
  BY <1>1, CopiesInvariant, PTL

\* open_rollout_line_reader finds the history in at most three attempts,
\* however its steps fall between those of the others: a limit of three would
\* be enough where MAX_NOT_FOUND_RETRIES allows more.
THEOREM ReadersFind ==
    ASSUME Creates = {}, MaxTries > 2
    PROVE  CompressionSpec => []ReaderFinds
<1>1. CompressionInit => KeptInv /\ ReaderInv
  BY InitKept, InitReader
<1>2. ASSUME KeptInv /\ ReaderInv, [CompressionNext]_compression_vars
      PROVE  (KeptInv /\ ReaderInv)'
  <2>1. KeptInv'
    BY <1>2, StepKept
  <2>2. CASE UNCHANGED reader
    BY <1>2, <2>1, <2>2, OthersOnward
  <2>3. CASE \E r \in Readers : existing_rollout_path(r) \/ open_once(r) \/ readerEnds(r)
    BY <1>2, <2>1, <2>3, ReaderStep
  <2>4. UNCHANGED reader \/ \E r \in Readers : existing_rollout_path(r) \/ open_once(r) \/ readerEnds(r)
    BY <1>2 DEF CompressionNext, compression_vars, cold_file_state, alreadyCompressed, encode_zstd, checkSame,
           persist_noclobber, recheck, remove_plain, workerDies, plainExists, zstExists,
           decompress, hard_link, remove_zst, open_append, append_item, appenderEnds, grow_old
  <2>5. QED
    BY <2>2, <2>3, <2>4
<1>3. ReaderInv => ReaderFinds
  BY DEF ReaderInv, Attempts, ReaderFinds
<1>4. QED
  BY <1>1, <1>2, <1>3, PTL DEF CompressionSpec
=============================================================================
