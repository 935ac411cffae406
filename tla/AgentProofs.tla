----------------------------- MODULE AgentProofs -----------------------------
(***************************************************************************)
(* TLAPS proofs about the control of sub-agents, for any number of         *)
(* concurrent calls, agents and paths and any limit: AgentRegistry first,  *)
(* then AgentResidency.                                                    *)
(*                                                                         *)
(* AgentRegistry.  The slot count never underflows and the limit on agents *)
(* holds.  Where agents are not resumed the count is exact, and a reserved *)
(* path is always held by a caller.  LimitHolds speaks of two              *)
(* cardinalities and is inductive only together with SlotsCovered (each    *)
(* agent and each reservation has a slot of its own), which also is what   *)
(* keeps every decrement above zero.  CountIsExact needs more: that a      *)
(* commit never files an agent over another, which takes the facts about   *)
(* paths and fresh threads in Filed.                                       *)
(*                                                                         *)
(* AgentResidency.  How far the agents in memory may exceed the capacity,  *)
(* and that none which is loaded drops out of everyone's sight.  The       *)
(* admitted agents alone cannot be counted inductively: a victim leaves    *)
(* the queue and comes back without asking, and so may an agent that is    *)
(* touched because it was found in memory.  Both count from the moment     *)
(* they are in a call's hands (Held), so that only a reservation adds to   *)
(* the count; there the guard bounds the admitted agents by the capacity,  *)
(* and each call but the one that reserves holds at most one more.  That a *)
(* touched agent counts already rests on LoadedIsTracked, of a loader that *)
(* has really loaded the agent.                                            *)
(***************************************************************************)
EXTENDS AgentRegistry, AgentResidency, Integers, FiniteSetTheorems, SequenceTheorems, TLAPS

\* A caller compares with the limit only when there is one, and commits only
\* once it has a thread.
CallersConsistent ==
    \A c \in Callers :
        /\ call[c].pc = "cas" => MaxThreads # NoLimit
        /\ call[c].pc \in {"commit", "resumed"} => call[c].id \in Threads

CountWithinLimit == MaxThreads # NoLimit => total_count <= MaxThreads

IInv == TypeOK /\ CallersConsistent /\ SlotsCovered /\ CountWithinLimit

\* Agents, reservations and releases are finite sets.
LEMMA FiniteParts ==
    ASSUME TypeOK
    PROVE  /\ IsFiniteSet(Agents) /\ Cardinality(Agents) \in Nat
           /\ IsFiniteSet(Holding) /\ Cardinality(Holding) \in Nat
           /\ IsFiniteSet(owing) /\ Cardinality(owing) \in Nat
<1>1. IsFiniteSet(Keys)
  BY RegistryConstants, FS_Union, FS_AddElement DEF Keys
<1>2. Agents \in SUBSET Keys /\ Holding \in SUBSET Callers /\ owing \in SUBSET Closers
  BY DEF Agents, Holding, TypeOK
<1>3. IsFiniteSet(Agents) /\ IsFiniteSet(Holding) /\ IsFiniteSet(owing)
  BY <1>1, <1>2, FS_Subset, RegistryConstants
<1> QED BY <1>3, FS_CardinalityType

LEMMA InitIInv == Init => IInv
<1> SUFFICES ASSUME Init PROVE IInv
  OBVIOUS
<1>1. TypeOK
  BY RegistryConstants DEF Init, TypeOK, NoCall, Pcs, Keys
<1>2. CallersConsistent
  BY DEF Init, CallersConsistent, NoCall
<1>3. Agents = {} /\ Holding = {}
  BY RegistryConstants DEF Init, Agents, Holding, NoCall
<1>4. SlotsCovered
  BY <1>3, FS_EmptySet DEF Init, SlotsCovered, Taken
<1>5. CountWithinLimit
  BY RegistryConstants DEF Init, CountWithinLimit
<1> QED BY <1>1, <1>2, <1>4, <1>5 DEF IInv

\* A step that changes neither the count, the tree's agents nor the holders.
LEMMA NeutralStep ==
    ASSUME IInv, TypeOK', CallersConsistent', total_count' = total_count,
           Agents' = Agents, Holding' = Holding, owing' = owing
    PROVE  IInv'
BY DEF IInv, SlotsCovered, Taken, CountWithinLimit

\* Giving a reserved path back: the tree loses at most a path nobody had filed
\* an agent under.
LEMMA DropIInv ==
    ASSUME IInv, NEW c \in Holding, NEW root \in BOOLEAN,
           Drop(c, register_root_thread(root)),
           UNCHANGED <<total_count, threads, born, closing, owing>>
    PROVE  IInv'
<1> DEFINE tree == register_root_thread(root)
<1> USE DEF IInv
<1>1. c \in Callers
  BY DEF Holding
<1>2. tree \in [Keys -> Threads \cup {NoThread, Vacant}]
      /\ \A k \in Keys \ {RootPath} : tree[k] = agent_tree[k]
  BY RegistryConstants DEF TypeOK, register_root_thread, Keys
<1>3. agent_tree' \in [Keys -> Threads \cup {NoThread, Vacant}]
  BY <1>2 DEF Drop, Keys
<1>4. Agents' = Agents
  <2>1. \A k \in Keys \ {RootPath} :
            agent_tree'[k] \in Threads <=> agent_tree[k] \in Threads
    BY <1>2, RegistryConstants DEF Drop, Keys
  <2> QED BY <2>1 DEF Agents
<1>5. Holding' = Holding
  BY <1>1 DEF Drop, Holding, TypeOK
<1>6. TypeOK'
  BY <1>1, <1>3 DEF TypeOK, Drop, Pcs
<1>7. CallersConsistent'
  BY <1>1 DEF CallersConsistent, Drop, TypeOK
<1> QED BY <1>4, <1>5, <1>6, <1>7, NeutralStep

\* Giving the slot back: one slot fewer, one holder or one release fewer.
LEMMA SlotBackIInv ==
    ASSUME IInv,
           \/ \E c \in Callers : dropSlot(c)
           \/ \E k \in Closers : releaseSlot(k)
    PROVE  IInv'
<1> USE DEF IInv
<1>1. Agents' = Agents /\ total_count' = total_count - 1
  BY DEF Agents, dropSlot, releaseSlot
<1>2. ASSUME NEW c \in Callers, dropSlot(c)
      PROVE  /\ CallersConsistent' /\ (total_count' \in Nat => TypeOK')
             /\ Taken' = Taken - 1 /\ Taken >= 1 /\ Taken \in Nat
  <2>1. c \in Holding /\ Holding' = Holding \ {c} /\ owing' = owing
    BY <1>2 DEF dropSlot, Holding, NoCall, TypeOK
  <2>2. Cardinality(Holding') = Cardinality(Holding) - 1 /\ Cardinality(Holding) >= 1
    BY <2>1, FiniteParts, FS_RemoveElement, FS_EmptySet
  <2>3. CallersConsistent' /\ (total_count' \in Nat => TypeOK')
    BY <1>2 DEF dropSlot, TypeOK, CallersConsistent, NoCall, Pcs
  <2> QED BY <1>1, <2>1, <2>2, <2>3, FiniteParts DEF Taken
<1>3. ASSUME NEW k \in Closers, releaseSlot(k)
      PROVE  /\ CallersConsistent' /\ (total_count' \in Nat => TypeOK')
             /\ Taken' = Taken - 1 /\ Taken >= 1 /\ Taken \in Nat
  <2>1. k \in owing /\ owing' = owing \ {k} /\ Holding' = Holding
    BY <1>3 DEF releaseSlot, Holding
  <2>2. Cardinality(owing') = Cardinality(owing) - 1 /\ Cardinality(owing) >= 1
    <3>1. IsFiniteSet(owing) /\ Cardinality(owing) \in Nat
      BY FiniteParts
    <3>2. Cardinality(owing \ {k}) = Cardinality(owing) - 1
      BY <2>1, <3>1, FS_RemoveElement
    <3>3. Cardinality(owing) # 0
      BY <2>1, <3>1, FS_EmptySet
    <3> QED BY <2>1, <3>1, <3>2, <3>3
  <2>3. CallersConsistent' /\ (total_count' \in Nat => TypeOK')
    BY <1>3 DEF releaseSlot, TypeOK, CallersConsistent
  <2> QED BY <1>1, <2>1, <2>2, <2>3, FiniteParts DEF Taken
<1>4. /\ CallersConsistent' /\ (total_count' \in Nat => TypeOK')
      /\ Taken' = Taken - 1 /\ Taken >= 1 /\ Taken \in Nat
  BY <1>2, <1>3
<1>5. total_count' \in Nat /\ SlotsCovered'
  BY <1>1, <1>4 DEF SlotsCovered, TypeOK
<1>6. CountWithinLimit'
  BY <1>1, <1>5, RegistryConstants DEF CountWithinLimit, TypeOK
<1> QED BY <1>4, <1>5, <1>6

\* A caller gets its slot.
LEMMA ReserveIInv ==
    ASSUME IInv, NEW c \in Callers,
           reserve_spawn_slot(c) \/ try_increment_spawned(c)
    PROVE  IInv'
<1> USE DEF IInv
<1>1. Agents' = Agents /\ owing' = owing
  BY DEF Agents, reserve_spawn_slot, try_increment_spawned
<1>2. CASE total_count' = total_count
  <2>1. TypeOK'
    BY <1>2 DEF TypeOK, reserve_spawn_slot, try_increment_spawned, NoCall, Pcs
  <2>2. CallersConsistent'
    BY <1>2 DEF TypeOK, CallersConsistent, reserve_spawn_slot, try_increment_spawned, NoCall
  <2>3. Holding' = Holding
    <3>1. /\ call[c].pc \in {"reserve", "cas"} /\ call'[c].pc \in {"cas", "idle"}
          /\ \A d \in Callers \ {c} : call'[d] = call[d]
      BY <1>2 DEF TypeOK, reserve_spawn_slot, try_increment_spawned, NoCall
    <3> QED BY <3>1 DEF Holding
  <2> QED BY <1>1, <1>2, <2>1, <2>2, <2>3, NeutralStep
<1>3. CASE total_count' # total_count
  <2>1. total_count' = total_count + 1 /\ call' = [call EXCEPT ![c].pc = "slot"]
        /\ call[c].pc \in {"reserve", "cas"}
    BY <1>3 DEF reserve_spawn_slot, try_increment_spawned
  <2>2. UNCHANGED <<agent_tree, threads, born, closing, owing>>
    BY DEF reserve_spawn_slot, try_increment_spawned
  <2>3. TypeOK'
    BY <2>1, <2>2 DEF TypeOK, Pcs
  <2>4. CallersConsistent'
    BY <2>1 DEF TypeOK, CallersConsistent
  <2>5. Holding' = Holding \cup {c} /\ c \notin Holding
    BY <2>1 DEF Holding, TypeOK
  <2>6. Cardinality(Holding') = Cardinality(Holding) + 1
    BY <2>5, FiniteParts, FS_AddElement
  <2>7. SlotsCovered'
    BY <1>1, <2>1, <2>6, FiniteParts DEF SlotsCovered, Taken, TypeOK
  <2>8. MaxThreads # NoLimit => total_count < MaxThreads
    BY <1>3 DEF reserve_spawn_slot, try_increment_spawned
  <2>9. CountWithinLimit'
    BY <2>1, <2>8, RegistryConstants DEF CountWithinLimit, TypeOK
  <2> QED BY <2>3, <2>4, <2>7, <2>9
<1> QED BY <1>2, <1>3

\* Reserving a path, or failing on one that is taken.
LEMMA PrepareIInv ==
    ASSUME IInv, NEW c \in Callers, prepare_thread_spawn(c)
    PROVE  IInv'
<1> USE DEF IInv
<1>1. PICK root \in BOOLEAN :
         LET tree == register_root_thread(root) IN
         /\ call[c].pc = "slot"
         /\ \/ /\ call[c].path = NoPath
               /\ agent_tree' = tree
               /\ call' = [call EXCEPT ![c].pc = "create"]
            \/ /\ call[c].path # NoPath
               /\ tree[call[c].path] = Vacant
               /\ agent_tree' = [tree EXCEPT ![call[c].path] = NoThread]
               /\ call' = [call EXCEPT ![c].pc = "create"]
            \/ /\ call[c].path # NoPath
               /\ tree[call[c].path] # Vacant
               /\ Drop(c, tree)
         /\ UNCHANGED <<total_count, threads, born, closing, owing>>
  BY DEF prepare_thread_spawn
<1> DEFINE tree == register_root_thread(root)
<1>2. c \in Holding
  BY <1>1 DEF Holding
<1>3. CASE Drop(c, tree)
  BY <1>1, <1>2, <1>3, DropIInv
<1>4. CASE ~Drop(c, tree)
  <2>1. tree \in [Keys -> Threads \cup {NoThread, Vacant}]
        /\ \A k \in Keys \ {RootPath} : tree[k] = agent_tree[k]
    BY RegistryConstants DEF TypeOK, register_root_thread, Keys
  <2>2. call' = [call EXCEPT ![c].pc = "create"] /\ UNCHANGED <<total_count, threads, born, closing, owing>>
    BY <1>1, <1>4
  <2>3. \/ agent_tree' = tree
        \/ /\ call[c].path # NoPath /\ tree[call[c].path] = Vacant
           /\ agent_tree' = [tree EXCEPT ![call[c].path] = NoThread]
    BY <1>1, <1>4
  <2>4. agent_tree' \in [Keys -> Threads \cup {NoThread, Vacant}]
    BY <2>1, <2>3
  <2>5. TypeOK'
    BY <2>2, <2>4 DEF TypeOK, Pcs
  <2>6. CallersConsistent'
    BY <2>2 DEF TypeOK, CallersConsistent
  <2>7. Holding' = Holding
    BY <1>1, <2>2 DEF Holding, TypeOK
  <2>8. \A k \in Keys \ {RootPath} : agent_tree'[k] \in Threads <=> agent_tree[k] \in Threads
    BY <2>1, <2>3, RegistryConstants
  <2>9. Agents' = Agents
    BY <2>8 DEF Agents
  <2> QED BY <2>2, <2>5, <2>6, <2>7, <2>9, NeutralStep
<1> QED BY <1>3, <1>4

\* Giving up.
LEMMA AbandonIInv ==
    ASSUME IInv, NEW c \in Callers, abandon(c)
    PROVE  IInv'
<1>1. c \in Holding
  BY DEF abandon, Holding
<1>2. agent_tree = register_root_thread(FALSE)
  BY DEF register_root_thread
<1>3. Drop(c, register_root_thread(FALSE)) /\ UNCHANGED <<total_count, threads, born, closing, owing>>
  BY <1>2 DEF abandon
<1> QED BY <1>1, <1>3, DropIInv

\* A commit turns a reservation into an agent, or overwrites one.
LEMMA CommitIInv ==
    ASSUME IInv, NEW c \in Callers, commit(c)
    PROVE  IInv'
<1> DEFINE key == IF call[c].path = NoPath THEN call[c].id ELSE call[c].path
<1> USE DEF IInv
<1>1. call[c].id \in Threads /\ key \in Keys \ {RootPath}
  BY RegistryConstants DEF commit, CallersConsistent, TypeOK, Keys
<1>2. agent_tree' = [agent_tree EXCEPT ![key] = call[c].id]
      /\ call' = [call EXCEPT ![c] = NoCall]
      /\ UNCHANGED <<total_count, threads, born, closing, owing>>
      /\ c \in Holding
  BY DEF commit, Holding
<1>3. TypeOK'
  BY <1>1, <1>2 DEF TypeOK, NoCall, Pcs
<1>4. CallersConsistent'
  BY <1>2 DEF TypeOK, CallersConsistent, NoCall
<1>5. Agents' = Agents \cup {key}
  BY <1>1, <1>2 DEF Agents, TypeOK
<1>6. Holding' = Holding \ {c}
  BY <1>2 DEF Holding, NoCall, TypeOK
<1>7. Cardinality(Agents') <= Cardinality(Agents) + 1
      /\ Cardinality(Holding') = Cardinality(Holding) - 1
      /\ Cardinality(Agents') \in Nat
  <2>1. Cardinality(Agents \cup {key}) = IF key \in Agents THEN Cardinality(Agents) ELSE Cardinality(Agents) + 1
    BY FiniteParts, FS_AddElement
  <2>2. Cardinality(Holding \ {c}) = Cardinality(Holding) - 1
    BY <1>2, FiniteParts, FS_RemoveElement
  <2> QED BY <1>5, <1>6, <2>1, <2>2, FiniteParts
<1>8. SlotsCovered'
  BY <1>2, <1>7, FiniteParts DEF SlotsCovered, Taken, TypeOK
<1>9. CountWithinLimit'
  BY <1>2 DEF CountWithinLimit
<1> QED BY <1>3, <1>4, <1>8, <1>9

\* A release removes one agent and owes one slot, or neither.
LEMMA ReleaseIInv ==
    ASSUME IInv, NEW k \in Closers, release_spawned_thread(k)
    PROVE  IInv'
<1> USE DEF IInv
<1>1. closing[k] \in Threads /\ UNCHANGED <<total_count, threads, born, call>>
      /\ closing' = [closing EXCEPT ![k] = NoThread]
  BY DEF TypeOK, release_spawned_thread
<1>2. CallersConsistent' /\ Holding' = Holding /\ CountWithinLimit'
  BY <1>1 DEF CallersConsistent, Holding, CountWithinLimit
<1>3. CASE UNCHANGED <<agent_tree, owing>>
  <2>1. TypeOK'
    BY <1>1, <1>3 DEF TypeOK
  <2>2. Agents' = Agents
    BY <1>3 DEF Agents
  <2> QED BY <1>1, <1>2, <1>3, <2>1, <2>2, NeutralStep
<1>4. CASE ~UNCHANGED <<agent_tree, owing>>
  <2>1. PICK key \in Keys :
           /\ agent_tree[key] = closing[k]
           /\ agent_tree' = [agent_tree EXCEPT ![key] = Vacant]
           /\ owing' = IF key = RootPath THEN owing ELSE owing \cup {k}
    BY <1>4 DEF release_spawned_thread
  <2>2. TypeOK'
    BY <1>1, <2>1 DEF TypeOK
  <2>3. Agents' = Agents \ {key}
    BY <2>1, RegistryConstants DEF Agents, TypeOK
  <2>4. CASE key = RootPath
    <3>1. Agents' = Agents
      BY <2>3, <2>4 DEF Agents
    <3> QED BY <1>1, <1>2, <2>1, <2>2, <2>4, <3>1, NeutralStep
  <2>5. CASE key # RootPath
    <3>1. key \in Agents
      BY <1>1, <2>1, <2>5 DEF Agents
    <3>2. Cardinality(Agents') = Cardinality(Agents) - 1
      BY <2>3, <3>1, FiniteParts, FS_RemoveElement
    <3>3. Cardinality(owing') <= Cardinality(owing) + 1 /\ Cardinality(owing') \in Nat
      <4>1. IsFiniteSet(owing) /\ Cardinality(owing) \in Nat
        BY FiniteParts
      <4>2. Cardinality(owing \cup {k}) = IF k \in owing THEN Cardinality(owing) ELSE Cardinality(owing) + 1
        BY <4>1, FS_AddElement
      <4> QED BY <2>1, <2>5, <4>1, <4>2
    <3>4. SlotsCovered'
      BY <1>1, <1>2, <3>2, <3>3, FiniteParts DEF SlotsCovered, Taken, TypeOK
    <3> QED BY <1>2, <2>2, <3>4
  <2> QED BY <2>4, <2>5
<1> QED BY <1>3, <1>4

\* The steps that touch neither the count nor the tree.
LEMMA OtherIInv ==
    ASSUME IInv,
           \/ \E c \in Callers, p \in Paths \cup {NoPath} : spawn_agent(c, p)
           \/ \E c \in Callers, t \in Threads :
                 resume_agent(c, t) \/ spawn_thread_with_source(c, t)
           \/ \E k \in Closers, t \in Threads : shutdown_live_agent(k, t)
           \/ \E t \in Threads : unload(t)
    PROVE  IInv'
<1> USE DEF IInv
<1>1. UNCHANGED <<total_count, agent_tree, owing>>
  BY DEF spawn_agent, resume_agent, spawn_thread_with_source, shutdown_live_agent, unload
<1>2. Agents' = Agents
  BY <1>1 DEF Agents
<1>3. ASSUME NEW c \in Callers, NEW p \in Paths \cup {NoPath}, spawn_agent(c, p)
      PROVE  TypeOK' /\ CallersConsistent' /\ Holding' = Holding
  BY <1>3 DEF spawn_agent, TypeOK, CallersConsistent, Holding, NoCall, Pcs
<1>4. ASSUME NEW c \in Callers, NEW t \in Threads, resume_agent(c, t)
      PROVE  TypeOK' /\ CallersConsistent' /\ Holding' = Holding
  BY <1>4 DEF resume_agent, TypeOK, CallersConsistent, Holding, NoCall, Pcs
<1>5. ASSUME NEW c \in Callers, NEW t \in Threads, spawn_thread_with_source(c, t)
      PROVE  TypeOK' /\ CallersConsistent' /\ Holding' = Holding
  BY <1>5 DEF spawn_thread_with_source, TypeOK, CallersConsistent, Holding, Pcs
<1>6. ASSUME NEW k \in Closers, NEW t \in Threads, shutdown_live_agent(k, t)
      PROVE  TypeOK' /\ CallersConsistent' /\ Holding' = Holding
  BY <1>6 DEF shutdown_live_agent, TypeOK, CallersConsistent, Holding
<1>7. ASSUME NEW t \in Threads, unload(t)
      PROVE  TypeOK' /\ CallersConsistent' /\ Holding' = Holding
  BY <1>7 DEF unload, TypeOK, CallersConsistent, Holding
<1>8. TypeOK' /\ CallersConsistent' /\ Holding' = Holding
  BY <1>3, <1>4, <1>5, <1>6, <1>7
<1> QED BY <1>1, <1>2, <1>8, NeutralStep

LEMMA NextIInv == IInv /\ [Next]_vars => IInv'
<1> SUFFICES ASSUME IInv, [Next]_vars PROVE IInv'
  OBVIOUS
<1>1. CASE UNCHANGED vars
  BY <1>1 DEF vars, IInv, TypeOK, CallersConsistent, SlotsCovered, CountWithinLimit,
              Agents, Holding, Taken
<1>2. ASSUME NEW c \in Callers, reserve_spawn_slot(c) \/ try_increment_spawned(c)
      PROVE  IInv'
  BY <1>2, ReserveIInv
<1>3. ASSUME NEW c \in Callers, prepare_thread_spawn(c) PROVE IInv'
  BY <1>3, PrepareIInv
<1>4. ASSUME NEW c \in Callers, abandon(c) PROVE IInv'
  BY <1>4, AbandonIInv
<1>5. ASSUME NEW c \in Callers, commit(c) PROVE IInv'
  BY <1>5, CommitIInv
<1>6. ASSUME NEW k \in Closers, release_spawned_thread(k) PROVE IInv'
  BY <1>6, ReleaseIInv
<1> QED BY <1>1, <1>2, <1>3, <1>4, <1>5, <1>6, OtherIInv, SlotBackIInv DEF Next

\* The inductive invariant: types, consistent callers, a slot for every agent
\* and reservation, and a count within the limit.
THEOREM RegistryInductive == Spec => []IInv
BY InitIInv, NextIInv, PTL DEF Spec

\* total_count is a natural number in every reachable state: none of the
\* unconditional fetch_sub calls ever wraps around.
THEOREM NoUnderflow == Spec => []TypeOK
<1>1. IInv => TypeOK
  BY DEF IInv
<1> QED BY <1>1, RegistryInductive, PTL

\* Every agent in the tree, every outstanding SpawnReservation and every release
\* in progress has its own slot of total_count.
THEOREM Covered == Spec => []SlotsCovered
<1>1. IInv => SlotsCovered
  BY DEF IInv
<1> QED BY <1>1, RegistryInductive, PTL

\* However many spawn_agent and resume_agent calls race, agents and spawns in
\* progress never exceed max_threads.
THEOREM Limit == Spec => []LimitHolds
<1>1. IInv => LimitHolds
  <2> SUFFICES ASSUME IInv, MaxThreads # NoLimit
               PROVE  /\ total_count <= MaxThreads
                      /\ Cardinality(Agents) + Cardinality(Holding) <= MaxThreads
    BY DEF LimitHolds
  <2> QED BY FiniteParts, RegistryConstants
        DEF IInv, TypeOK, SlotsCovered, Taken, CountWithinLimit
<1> QED BY <1>1, RegistryInductive, PTL

-----------------------------------------------------------------------------
(* The count is exact where agents are not resumed.                        *)

Filing(c) == call[c].pc \in {"create", "commit"}

\* Where commit is going to file an agent there is none: a path is held by
\* one caller and only reserved, a thread that is being committed is new.
Filed ==
    /\ \A c \in Callers :
          /\ call[c].pc # "resumed"
          /\ call[c].pc # "commit" => call[c].id = NoThread
          /\ Filing(c) /\ call[c].path # NoPath => agent_tree[call[c].path] = NoThread
          /\ call[c].pc = "commit" => call[c].id \in born
          /\ call[c].pc = "commit" /\ call[c].path = NoPath => agent_tree[call[c].id] = Vacant
    /\ \A c, d \in Callers :
          /\ Filing(c) /\ Filing(d) /\ call[c].path # NoPath /\ call[c].path = call[d].path
                => c = d
          /\ call[c].pc = "commit" /\ call[d].pc = "commit" /\ call[c].id = call[d].id
                => c = d
    /\ \A t \in Threads : agent_tree[t] # Vacant => t \in born
    /\ \A p \in Paths : agent_tree[p] = NoThread =>
          \E c \in Callers : Filing(c) /\ call[c].path = p

\* A closer that owes a slot has nothing else to release.
Owes == \A k \in owing : closing[k] = NoThread

EInv == Owes /\ (~Resumable => Filed /\ CountIsExact)

LEMMA NextOwes == TypeOK /\ Owes /\ [Next]_vars => Owes'
<1> SUFFICES ASSUME TypeOK, Owes, [Next]_vars PROVE Owes'
  OBVIOUS
<1>1. CASE UNCHANGED <<closing, owing>>
  BY <1>1 DEF Owes
<1>2. ASSUME NEW k \in Closers, NEW t \in Threads, shutdown_live_agent(k, t) PROVE Owes'
  BY <1>2 DEF shutdown_live_agent, Owes, TypeOK
<1>3. ASSUME NEW k \in Closers, release_spawned_thread(k) PROVE Owes'
  <2>1. closing' = [closing EXCEPT ![k] = NoThread] /\ owing' \subseteq owing \cup {k}
    BY <1>3 DEF release_spawned_thread
  <2> QED BY <2>1 DEF Owes, TypeOK
<1>4. ASSUME NEW k \in Closers, releaseSlot(k) PROVE Owes'
  BY <1>4 DEF releaseSlot, Owes
<1>5. ASSUME NEW c \in Callers, prepare_thread_spawn(c) PROVE UNCHANGED <<closing, owing>>
  BY <1>5 DEF prepare_thread_spawn
<1> QED BY <1>1, <1>2, <1>3, <1>4, <1>5 DEF Next, vars, spawn_agent, resume_agent,
          spawn_thread_with_source, reserve_spawn_slot, try_increment_spawned, abandon, commit,
          dropSlot, unload

LEMMA InitEInv == Init => EInv
<1> SUFFICES ASSUME Init PROVE Filed /\ CountIsExact
  BY DEF EInv, Owes, Init
<1>1. Filed
  BY RegistryConstants DEF Init, Filed, Filing, NoCall, Keys
<1>2. Agents = {} /\ Holding = {}
  BY RegistryConstants DEF Init, Agents, Holding, NoCall
<1> QED BY <1>1, <1>2, FS_EmptySet DEF Init, CountIsExact, Taken

\* A step that leaves the tree, the count and the holders alone.
LEMMA NeutralExact ==
    ASSUME CountIsExact, total_count' = total_count, Agents' = Agents, Holding' = Holding,
           owing' = owing
    PROVE  CountIsExact'
BY DEF CountIsExact, Taken

\* A dropped reservation takes its own path with it.
LEMMA DropExact ==
    ASSUME IInv, ~Resumable, Filed, CountIsExact, NEW c \in Holding, call[c].pc \notin {"commit", "drop"},
           NEW root \in BOOLEAN,
           Drop(c, register_root_thread(root)),
           UNCHANGED <<total_count, threads, born, closing, owing>>
    PROVE  Filed' /\ CountIsExact'
<1> DEFINE tree == register_root_thread(root)
<1>1. c \in Callers /\ TypeOK
  BY DEF Holding, IInv
<1>2. tree \in [Keys -> Threads \cup {NoThread, Vacant}]
      /\ \A k \in Keys \ {RootPath} : tree[k] = agent_tree[k]
  BY <1>1, RegistryConstants DEF TypeOK, register_root_thread, Keys
<1>3. \A k \in Keys \ {RootPath} :
         agent_tree'[k] = IF Filing(c) /\ call[c].path = k /\ k # NoPath THEN Vacant
                          ELSE agent_tree[k]
  <2>1. Filing(c) <=> call[c].pc # "slot"
    BY <1>1 DEF Holding, Filing, Filed
  <2>2. Paths \subseteq Keys \ {RootPath}
    BY RegistryConstants DEF Keys
  <2>3. call[c].path \in Paths \cup {NoPath}
    BY <1>1 DEF TypeOK
  <2>4. CASE Filing(c) /\ call[c].path # NoPath
    <3>1. call[c].path \in Paths /\ tree[call[c].path] = NoThread
      BY <1>1, <1>2, <2>2, <2>3, <2>4 DEF Filed
    <3>2. agent_tree' = [tree EXCEPT ![call[c].path] = Vacant]
      BY <2>1, <2>4, <3>1 DEF Drop
    <3> QED BY <1>2, <2>4, <3>1, <3>2
  <2>5. CASE ~(Filing(c) /\ call[c].path # NoPath)
    <3>1. agent_tree' = tree
      BY <2>1, <2>5 DEF Drop
    <3> QED BY <1>2, <2>5, <3>1
  <2> QED BY <2>4, <2>5
<1>4. /\ \A d \in Callers : d # c => call'[d] = call[d]
      /\ call'[c].pc = "drop" /\ call'[c].id = call[c].id /\ call[c].pc # "commit"
  BY <1>1 DEF Drop, TypeOK
<1>5. Paths \subseteq Keys \ {RootPath} /\ Threads \subseteq Keys \ {RootPath}
      /\ \A d \in Callers : call[d].path \in Paths \cup {NoPath} /\ call[d].id \in Threads \cup {NoThread}
  BY <1>1, RegistryConstants DEF Keys, TypeOK
<1>6. Filed'
  <2>1. \A d \in Callers : Filing(d)' => Filing(d) /\ d # c
    BY <1>4 DEF Filing
  <2>2. \A d \in Callers :
           Filing(d)' /\ call'[d].path # NoPath => agent_tree'[call'[d].path] = NoThread
    <3> SUFFICES ASSUME NEW d \in Callers, Filing(d)', call'[d].path # NoPath
                 PROVE  agent_tree'[call'[d].path] = NoThread
      OBVIOUS
    <3>1. Filing(d) /\ d # c /\ call'[d] = call[d]
      BY <1>4, <2>1
    <3>2. agent_tree[call[d].path] = NoThread
      BY <3>1 DEF Filed
    <3>3. ~(Filing(c) /\ call[c].path = call[d].path)
      BY <1>1, <3>1 DEF Filed
    <3>4. call[d].path \in Keys \ {RootPath}
      BY <1>5, <3>1
    <3> QED BY <1>3, <3>1, <3>2, <3>3, <3>4
  <2>3. \A t \in Threads : agent_tree'[t] = agent_tree[t]
    BY <1>1, <1>3, <1>5, RegistryConstants
  <2>4. \A d \in Callers :
           /\ call'[d].pc # "resumed"
           /\ call'[d].pc # "commit" => call'[d].id = NoThread
           /\ call'[d].pc = "commit" => call'[d].id \in born'
           /\ call'[d].pc = "commit" /\ call'[d].path = NoPath
                 => agent_tree'[call'[d].id] = Vacant
    BY <1>1, <1>4, <1>5, <2>3 DEF Filed, IInv, CallersConsistent
  <2>5. \A d, e \in Callers :
           /\ Filing(d)' /\ Filing(e)' /\ call'[d].path # NoPath
              /\ call'[d].path = call'[e].path => d = e
           /\ call'[d].pc = "commit" /\ call'[e].pc = "commit"
              /\ call'[d].id = call'[e].id => d = e
    BY <1>4, <2>1 DEF Filed
  <2>6. \A q \in Paths : agent_tree'[q] = NoThread =>
           \E d \in Callers : Filing(d)' /\ call'[d].path = q
    <3> SUFFICES ASSUME NEW q \in Paths, agent_tree'[q] = NoThread
                 PROVE  \E d \in Callers : Filing(d)' /\ call'[d].path = q
      OBVIOUS
    <3>1. agent_tree[q] = NoThread /\ ~(Filing(c) /\ call[c].path = q)
      BY <1>3, <1>5, RegistryConstants
    <3>2. PICK d \in Callers : Filing(d) /\ call[d].path = q
      BY <3>1 DEF Filed
    <3>3. d # c /\ call'[d] = call[d]
      BY <1>4, <3>1, <3>2
    <3> QED BY <3>2, <3>3 DEF Filing
  <2>7. \A t \in Threads : agent_tree'[t] # Vacant => t \in born'
    BY <2>3 DEF Filed
  <2> QED BY <2>2, <2>4, <2>5, <2>6, <2>7 DEF Filed
<1>7. Agents' = Agents
  <2>1. \A k \in Keys \ {RootPath} :
            agent_tree'[k] \in Threads <=> agent_tree[k] \in Threads
    BY <1>1, <1>3, RegistryConstants DEF Filed
  <2> QED BY <2>1 DEF Agents
<1>8. Holding' = Holding
  BY <1>1, <1>4 DEF Holding
<1> QED BY <1>6, <1>7, <1>8, NeutralExact

LEMMA ReserveExact ==
    ASSUME IInv, ~Resumable, Filed, CountIsExact, NEW c \in Callers,
           reserve_spawn_slot(c) \/ try_increment_spawned(c)
    PROVE  Filed' /\ CountIsExact'
<1> USE DEF IInv
<1>1. Agents' = Agents /\ UNCHANGED <<agent_tree, born, owing>>
  BY DEF Agents, reserve_spawn_slot, try_increment_spawned
<1>2. /\ call[c].pc \in {"reserve", "cas"}
      /\ \A d \in Callers \ {c} : call'[d] = call[d]
      /\ call'[c].pc \in {"cas", "slot", "idle"} /\ call'[c].id = NoThread
  BY RegistryConstants DEF reserve_spawn_slot, try_increment_spawned, TypeOK, Filed, NoCall
<1>3. Filed'
  <2>1. ~Filing(c) /\ ~(Filing(c))' /\ call[c].pc # "commit"
        /\ call'[c].pc \notin {"commit", "resumed"}
    BY <1>2 DEF Filing
  <2>2. \A d \in Callers \ {c} : ((Filing(d))' <=> Filing(d)) /\ call'[d] = call[d]
    BY <1>2 DEF Filing
  <2>3. \A d \in Callers :
           /\ call'[d].pc # "resumed"
           /\ call'[d].pc # "commit" => call'[d].id = NoThread
           /\ (Filing(d))' /\ call'[d].path # NoPath => agent_tree'[call'[d].path] = NoThread
           /\ call'[d].pc = "commit" => call'[d].id \in born'
           /\ call'[d].pc = "commit" /\ call'[d].path = NoPath
                 => agent_tree'[call'[d].id] = Vacant
    BY <1>1, <1>2, <2>1, <2>2 DEF Filed
  <2>4. \A d, e \in Callers :
           /\ (Filing(d))' /\ (Filing(e))' /\ call'[d].path # NoPath
              /\ call'[d].path = call'[e].path => d = e
           /\ call'[d].pc = "commit" /\ call'[e].pc = "commit"
              /\ call'[d].id = call'[e].id => d = e
    BY <2>1, <2>2 DEF Filed
  <2>5. \A q \in Paths : agent_tree'[q] = NoThread =>
           \E d \in Callers : (Filing(d))' /\ call'[d].path = q
    BY <1>1, <2>1, <2>2 DEF Filed
  <2> QED BY <1>1, <2>3, <2>4, <2>5 DEF Filed
<1>4. CASE total_count' = total_count
  <2>1. Holding' = Holding
    BY <1>4 DEF TypeOK, Holding, reserve_spawn_slot, try_increment_spawned, NoCall
  <2> QED BY <1>1, <1>3, <1>4, <2>1, NeutralExact
<1>5. CASE total_count' # total_count
  <2>1. total_count' = total_count + 1 /\ call' = [call EXCEPT ![c].pc = "slot"]
    BY <1>5 DEF reserve_spawn_slot, try_increment_spawned
  <2>2. Holding' = Holding \cup {c} /\ c \notin Holding
    BY <1>2, <2>1 DEF Holding, TypeOK
  <2>3. Cardinality(Holding') = Cardinality(Holding) + 1
    BY <2>2, FiniteParts, FS_AddElement
  <2>4. CountIsExact'
    BY <1>1, <2>1, <2>3, FiniteParts DEF CountIsExact, Taken, TypeOK
  <2> QED BY <1>3, <2>4
<1> QED BY <1>4, <1>5

LEMMA PrepareExact ==
    ASSUME IInv, ~Resumable, Filed, CountIsExact, NEW c \in Callers,
           prepare_thread_spawn(c)
    PROVE  Filed' /\ CountIsExact'
<1> USE DEF IInv
<1>1. PICK root \in BOOLEAN :
         LET tree == register_root_thread(root) IN
         /\ call[c].pc = "slot"
         /\ \/ /\ call[c].path = NoPath
               /\ agent_tree' = tree
               /\ call' = [call EXCEPT ![c].pc = "create"]
            \/ /\ call[c].path # NoPath
               /\ tree[call[c].path] = Vacant
               /\ agent_tree' = [tree EXCEPT ![call[c].path] = NoThread]
               /\ call' = [call EXCEPT ![c].pc = "create"]
            \/ /\ call[c].path # NoPath
               /\ tree[call[c].path] # Vacant
               /\ Drop(c, tree)
         /\ UNCHANGED <<total_count, threads, born, closing, owing>>
  BY DEF prepare_thread_spawn
<1> DEFINE tree == register_root_thread(root)
<1>2. c \in Holding
  BY <1>1 DEF Holding
<1>3. CASE Drop(c, tree)
  BY <1>1, <1>2, <1>3, DropExact
<1>4. CASE ~Drop(c, tree)
  <2>1. tree \in [Keys -> Threads \cup {NoThread, Vacant}]
        /\ \A k \in Keys \ {RootPath} : tree[k] = agent_tree[k]
    BY RegistryConstants DEF TypeOK, register_root_thread, Keys
  <2>2. call' = [call EXCEPT ![c].pc = "create"] /\ UNCHANGED <<total_count, born, owing>>
    BY <1>1, <1>4
  <2>3. Paths \subseteq Keys \ {RootPath} /\ Threads \subseteq Keys \ {RootPath}
        /\ \A d \in Callers : call[d].path \in Paths \cup {NoPath} /\ call[d].id \in Threads \cup {NoThread}
    BY RegistryConstants DEF Keys, TypeOK
  <2>4. call[c].path # NoPath => agent_tree[call[c].path] = Vacant
    BY <1>1, <1>4, <2>1, <2>3
  <2>5. \A k \in Keys \ {RootPath} :
           agent_tree'[k] = IF call[c].path = k /\ k # NoPath THEN NoThread ELSE agent_tree[k]
    <3>1. CASE call[c].path = NoPath
      BY <1>1, <1>4, <2>1, <3>1
    <3>2. CASE call[c].path # NoPath
      BY <1>1, <1>4, <2>1, <2>3, <3>2
    <3> QED BY <3>1, <3>2
  <2>6. \A d \in Callers : /\ call'[d].path = call[d].path /\ call'[d].id = call[d].id
                            /\ call'[d].pc = IF d = c THEN "create" ELSE call[d].pc
    BY <2>2 DEF TypeOK
  <2>7. Filed'
    <3>1. \A d \in Callers : (Filing(d))' <=> Filing(d) \/ d = c
      BY <1>1, <2>6 DEF Filing
    <3>2. \A t \in Threads : agent_tree'[t] = agent_tree[t]
      BY <2>3, <2>5, RegistryConstants
    <3>3. \A d \in Callers : Filing(d) /\ call[d].path # NoPath
                                => call[d].path # call[c].path
      BY <2>3, <2>4, RegistryConstants DEF Filed
    <3>4. \A d \in Callers : (Filing(d) \/ d = c) /\ call[d].path # NoPath
                                => agent_tree'[call[d].path] = NoThread
      BY <2>3, <2>5, <3>3 DEF Filed
    <3>5. \A d \in Callers :
             /\ call'[d].pc # "resumed"
             /\ call'[d].pc # "commit" => call'[d].id = NoThread
             /\ call'[d].pc = "commit" => call'[d].id \in born'
             /\ call'[d].pc = "commit" /\ call'[d].path = NoPath
                   => agent_tree'[call'[d].id] = Vacant
      BY <1>1, <2>2, <2>6, <3>2 DEF Filed, CallersConsistent
    <3>6. \A d, e \in Callers :
             /\ (Filing(d) \/ d = c) /\ (Filing(e) \/ e = c) /\ call[d].path # NoPath
                /\ call[d].path = call[e].path => d = e
             /\ call'[d].pc = "commit" /\ call'[e].pc = "commit"
                /\ call'[d].id = call'[e].id => d = e
      BY <2>6, <3>3 DEF Filed
    <3>7. \A q \in Paths : agent_tree'[q] = NoThread =>
             \E d \in Callers : (Filing(d) \/ d = c) /\ call[d].path = q
      BY <2>3, <2>5 DEF Filed
    <3>8. \A t \in Threads : agent_tree'[t] # Vacant => t \in born'
      BY <2>2, <3>2 DEF Filed
    <3> QED BY <2>6, <3>1, <3>4, <3>5, <3>6, <3>7, <3>8 DEF Filed
  <2>8. Agents' = Agents
    <3>1. \A k \in Keys \ {RootPath} : agent_tree'[k] \in Threads <=> agent_tree[k] \in Threads
      BY <2>4, <2>5, RegistryConstants
    <3> QED BY <3>1 DEF Agents
  <2>9. Holding' = Holding
    BY <1>1, <2>6 DEF Holding
  <2> QED BY <2>2, <2>7, <2>8, <2>9, NeutralExact
<1> QED BY <1>3, <1>4

LEMMA AbandonExact ==
    ASSUME IInv, ~Resumable, Filed, CountIsExact, NEW c \in Callers, abandon(c)
    PROVE  Filed' /\ CountIsExact'
<1>1. c \in Holding
  BY DEF abandon, Holding
<1>2. agent_tree = register_root_thread(FALSE)
  BY DEF register_root_thread
<1>3. Drop(c, register_root_thread(FALSE)) /\ UNCHANGED <<total_count, threads, born, closing, owing>>
  BY <1>2 DEF abandon
<1> QED BY <1>1, <1>3, DropExact DEF abandon

\* A commit files one more agent for the reservation it ends.
LEMMA CommitExact ==
    ASSUME IInv, ~Resumable, Filed, CountIsExact, NEW c \in Callers, commit(c)
    PROVE  Filed' /\ CountIsExact'
<1> DEFINE key == IF call[c].path = NoPath THEN call[c].id ELSE call[c].path
<1> USE DEF IInv
<1>1. call[c].pc = "commit" /\ call[c].id \in Threads /\ key \in Keys \ {RootPath}
  BY RegistryConstants DEF commit, CallersConsistent, TypeOK, Keys, Filed
<1>2. agent_tree' = [agent_tree EXCEPT ![key] = call[c].id]
      /\ UNCHANGED <<total_count, born, owing>> /\ c \in Holding
  BY DEF commit, Holding
<1>3. \A d \in Callers : call'[d] = IF d = c THEN NoCall ELSE call[d]
  BY DEF commit, TypeOK
<1>4. key \notin Agents
  BY <1>1, RegistryConstants DEF Filed, Filing, Agents
<1>5. Agents' = Agents \cup {key}
  BY <1>1, <1>2 DEF Agents, TypeOK
<1>6. Holding' = Holding \ {c}
  BY <1>3 DEF Holding, NoCall
<1>7. Cardinality(Agents') = Cardinality(Agents) + 1
  BY <1>4, <1>5, FiniteParts, FS_AddElement
<1>8. Cardinality(Holding') = Cardinality(Holding) - 1
  BY <1>2, <1>6, FiniteParts, FS_RemoveElement
<1>9. CountIsExact'
  BY <1>2, <1>7, <1>8, FiniteParts DEF CountIsExact, Taken, TypeOK
<1>10. \A k \in Keys : agent_tree'[k] = IF k = key THEN call[c].id ELSE agent_tree[k]
  BY <1>1, <1>2 DEF TypeOK
<1>11. Paths \subseteq Keys /\ Threads \subseteq Keys
       /\ \A d \in Callers : call[d].path \in Paths \cup {NoPath} /\ call[d].id \in Threads \cup {NoThread}
  BY DEF Keys, TypeOK
<1>12. Filed'
  BY <1>1, <1>2, <1>3, <1>10, <1>11, RegistryConstants DEF Filed, Filing, NoCall
<1> QED BY <1>9, <1>12

LEMMA ReleaseExact ==
    ASSUME IInv, Owes, ~Resumable, Filed, CountIsExact, NEW k \in Closers,
           release_spawned_thread(k)
    PROVE  Filed' /\ CountIsExact'
<1> USE DEF IInv
<1>1. closing[k] \in Threads /\ UNCHANGED <<total_count, born, call>>
  BY DEF TypeOK, release_spawned_thread
<1>2. Holding' = Holding
  BY <1>1 DEF Holding
<1>3. CASE UNCHANGED <<agent_tree, owing>>
  <2>1. Agents' = Agents
    BY <1>3 DEF Agents
  <2>2. Filed'
    BY <1>1, <1>3 DEF Filed, Filing
  <2> QED BY <1>1, <1>2, <1>3, <2>1, <2>2, NeutralExact
<1>4. CASE ~UNCHANGED <<agent_tree, owing>>
  <2>1. PICK key \in Keys :
           /\ agent_tree[key] = closing[k]
           /\ agent_tree' = [agent_tree EXCEPT ![key] = Vacant]
           /\ owing' = IF key = RootPath THEN owing ELSE owing \cup {k}
    BY <1>4 DEF release_spawned_thread
  <2>2. Agents' = Agents \ {key}
    BY <2>1, RegistryConstants DEF Agents, TypeOK
  <2>3. \A j \in Keys : agent_tree'[j] = IF j = key THEN Vacant ELSE agent_tree[j]
    BY <2>1 DEF TypeOK
  <2>4. Paths \subseteq Keys /\ Threads \subseteq Keys
        /\ \A d \in Callers : call[d].path \in Paths \cup {NoPath} /\ call[d].id \in Threads \cup {NoThread}
    BY DEF Keys, TypeOK
  <2>5. Filed'
    BY <1>1, <2>1, <2>3, <2>4, RegistryConstants DEF Filed, Filing
  <2>6. CASE key = RootPath
    <3>1. Agents' = Agents
      BY <2>2, <2>6 DEF Agents
    <3> QED BY <1>1, <1>2, <2>1, <2>5, <2>6, <3>1, NeutralExact
  <2>7. CASE key # RootPath
    <3>1. key \in Agents
      BY <1>1, <2>1, <2>7 DEF Agents
    <3>2. Cardinality(Agents') = Cardinality(Agents) - 1
      BY <2>2, <3>1, FiniteParts, FS_RemoveElement
    <3>3. k \notin owing
      BY <1>1, RegistryConstants DEF Owes
    <3>4. Cardinality(owing') = Cardinality(owing) + 1
      BY <2>1, <2>7, <3>3, FiniteParts, FS_AddElement
    <3>5. CountIsExact'
      BY <1>1, <1>2, <3>2, <3>4, FiniteParts DEF CountIsExact, Taken, TypeOK
    <3> QED BY <2>5, <3>5
  <2> QED BY <2>6, <2>7
<1> QED BY <1>3, <1>4

\* Giving a slot back takes a holder or a release with it.
LEMMA SlotBackExact ==
    ASSUME IInv, ~Resumable, Filed, CountIsExact,
           \/ \E c \in Callers : dropSlot(c)
           \/ \E k \in Closers : releaseSlot(k)
    PROVE  Filed' /\ CountIsExact'
<1> USE DEF IInv
<1>1. Agents' = Agents /\ total_count' = total_count - 1 /\ UNCHANGED <<agent_tree, born>>
  BY DEF Agents, dropSlot, releaseSlot
<1>2. ASSUME NEW c \in Callers, dropSlot(c) PROVE Filed' /\ Taken' = Taken - 1
  <2>1. /\ c \in Holding /\ Holding' = Holding \ {c} /\ owing' = owing /\ call[c].pc = "drop"
        /\ \A d \in Callers : call'[d] = IF d = c THEN NoCall ELSE call[d]
    BY <1>2 DEF dropSlot, Holding, NoCall, TypeOK
  <2>2. Cardinality(Holding') = Cardinality(Holding) - 1
    BY <2>1, FiniteParts, FS_RemoveElement
  <2>3. Filed'
    BY <1>1, <2>1 DEF Filed, Filing, NoCall
  <2> QED BY <1>1, <2>1, <2>2, <2>3, FiniteParts DEF Taken
<1>3. ASSUME NEW k \in Closers, releaseSlot(k) PROVE Filed' /\ Taken' = Taken - 1
  <2>1. k \in owing /\ owing' = owing \ {k} /\ UNCHANGED call
    BY <1>3 DEF releaseSlot
  <2>2. Cardinality(owing') = Cardinality(owing) - 1
    BY <2>1, FiniteParts, FS_RemoveElement
  <2>3. Filed' /\ Holding' = Holding
    BY <1>1, <2>1 DEF Filed, Filing, Holding
  <2> QED BY <1>1, <2>2, <2>3, FiniteParts DEF Taken
<1>4. Filed' /\ Taken' = Taken - 1
  BY <1>2, <1>3
<1> QED BY <1>1, <1>4 DEF CountIsExact

LEMMA OtherExact ==
    ASSUME IInv, ~Resumable, Filed, CountIsExact,
           \/ \E c \in Callers, p \in Paths \cup {NoPath} : spawn_agent(c, p)
           \/ \E c \in Callers, t \in Threads :
                 resume_agent(c, t) \/ spawn_thread_with_source(c, t)
           \/ \E k \in Closers, t \in Threads : shutdown_live_agent(k, t)
           \/ \E t \in Threads : unload(t)
    PROVE  Filed' /\ CountIsExact'
<1> USE DEF IInv
<1>1. UNCHANGED <<total_count, agent_tree, owing>>
  BY DEF spawn_agent, resume_agent, spawn_thread_with_source, shutdown_live_agent, unload
<1>2. Agents' = Agents
  BY <1>1 DEF Agents
<1>3. ASSUME NEW c \in Callers, NEW p \in Paths \cup {NoPath}, spawn_agent(c, p)
      PROVE  Filed' /\ Holding' = Holding
  <2>1. /\ call[c].pc = "idle" /\ UNCHANGED <<agent_tree, born>>
        /\ \A d \in Callers \ {c} : call'[d] = call[d]
        /\ call'[c].pc = "reserve" /\ call'[c].id = NoThread
    BY <1>3 DEF spawn_agent, TypeOK, NoCall
  <2>2. Filed'
    BY <2>1 DEF Filed, Filing
  <2> QED BY <2>1, <2>2 DEF Holding
<1>4. ASSUME NEW c \in Callers, NEW t \in Threads, spawn_thread_with_source(c, t)
      PROVE  Filed' /\ Holding' = Holding
  <2>1. /\ call[c].pc = "create" /\ t \notin born /\ born' = born \cup {t}
        /\ UNCHANGED agent_tree
        /\ \A d \in Callers \ {c} : call'[d] = call[d]
        /\ call'[c].pc = "commit" /\ call'[c].id = t /\ call'[c].path = call[c].path
    BY <1>4 DEF spawn_thread_with_source, TypeOK, Filed
  <2>2. Filed'
    BY <2>1, RegistryConstants DEF Filed, Filing
  <2> QED BY <2>1, <2>2 DEF Holding
<1>5. ASSUME NEW k \in Closers, NEW t \in Threads, shutdown_live_agent(k, t)
      PROVE  Filed' /\ Holding' = Holding
  BY <1>5 DEF shutdown_live_agent, Filed, Filing, Holding
<1>6. ASSUME NEW t \in Threads, unload(t)
      PROVE  Filed' /\ Holding' = Holding
  BY <1>6 DEF unload, Filed, Filing, Holding
<1>7. Filed' /\ Holding' = Holding
  BY <1>3, <1>4, <1>5, <1>6 DEF resume_agent
<1> QED BY <1>1, <1>2, <1>7, NeutralExact

LEMMA NextEInv == IInv /\ EInv /\ [Next]_vars => EInv'
<1> SUFFICES ASSUME IInv, Owes, ~Resumable, Filed, CountIsExact, [Next]_vars
             PROVE  Filed' /\ CountIsExact'
  BY NextOwes DEF EInv, IInv
<1>1. CASE UNCHANGED vars
  BY <1>1 DEF vars, Filed, Filing, CountIsExact, Taken, Agents, Holding
<1>2. ASSUME NEW c \in Callers, reserve_spawn_slot(c) \/ try_increment_spawned(c)
      PROVE  Filed' /\ CountIsExact'
  BY <1>2, ReserveExact
<1>3. ASSUME NEW c \in Callers, prepare_thread_spawn(c) PROVE Filed' /\ CountIsExact'
  BY <1>3, PrepareExact
<1>4. ASSUME NEW c \in Callers, abandon(c) PROVE Filed' /\ CountIsExact'
  BY <1>4, AbandonExact
<1>5. ASSUME NEW c \in Callers, commit(c) PROVE Filed' /\ CountIsExact'
  BY <1>5, CommitExact
<1>6. ASSUME NEW k \in Closers, release_spawned_thread(k) PROVE Filed' /\ CountIsExact'
  BY <1>6, ReleaseExact
<1> QED BY <1>1, <1>2, <1>3, <1>4, <1>5, <1>6, OtherExact, SlotBackExact DEF Next

\* Where resume_agent is not offered the count is exactly the agents, the
\* reservations and the releases in progress: a closed agent's slot can be used
\* again.
THEOREM Exact == Spec => [](~Resumable => CountIsExact)
<1>1. EInv => (~Resumable => CountIsExact)
  BY DEF EInv
<1> QED BY <1>1, InitEInv, NextEInv, RegistryInductive, PTL DEF Spec

\* There too, a path reserved in the tree is held by a spawn in progress, so
\* that a failed or aborted spawn leaves no path behind.
THEOREM PathsReturned == Spec => [](~Resumable => ReservedIsHeld)
<1>1. EInv => (~Resumable => ReservedIsHeld)
  BY RegistryConstants DEF EInv, Filed, Filing, ReservedIsHeld
<1> QED BY <1>1, InitEInv, NextEInv, RegistryInductive, PTL DEF Spec

-----------------------------------------------------------------------------
(* AgentResidency.                                                         *)

\* The states of a tool call: it has a slot from the reservation to the commit,
\* and a victim from the moment it has taken it out of the queue.
Evicting == {"look", "mail", "materialize", "wait", "remove"}

ToolState ==
    {r \in [pc : ToolPcs, kind : Kinds, id : SubAgents \cup {None}, at : Nat, slot : BOOLEAN,
            scans : Nat, victim : SubAgents \cup {None}, vat : Nat] :
        /\ r.slot <=> r.pc \in SlotPcs
        /\ r.victim # None <=> r.pc \in Evicting
        /\ r.pc # "idle" => r.id \in SubAgents}

ResidencyTypes ==
    /\ residents \in Seq(SubAgents) /\ IsInjective(residents)
    /\ known \subseteq SubAgents /\ lost \subseteq SubAgents
    /\ loaded \in [SubAgents -> Nat]
    /\ sess \in [SubAgents -> Seq(Session)]
    /\ tool \in [ToolCalls -> ToolState]

SlotHolders == {c \in ToolCalls : tool[c].slot}

SlotsCounted == pending_slots = Cardinality(SlotHolders)

\* The call that answers for an agent outside the queue: it has loaded it and
\* not made it a resident yet, or has forgotten it and is about to take its
\* address away.
AnswersFor(r, t) == r.id = t /\ r.pc \in {"created", "commit", "release"}

\* LoadedIsTracked, where the loader is one that has really loaded the agent:
\* one that has a slot may still lose it to somebody who was faster.
TrackedByLoader ==
    \A t \in known :
        loaded[t] # 0 =>
            \/ t \in ToSet(residents) \/ t \in lost
            \/ \E c \in ToolCalls : tool[c].victim = t
            \/ \E c \in ToolCalls : AnswersFor(tool[c], t)

ClaimPcs == {"ensure", "touch", "retouch", "release"}

\* An agent a call has found in memory and may touch, and one that is loaded
\* again while the call that found it dead forgets it: whoever addresses it
\* before its name is gone may touch it.
Claims(r, in_memory, names, t) ==
    /\ r.id = t
    /\ \/ r.pc \in {"ensure", "touch"} /\ in_memory[t] # 0
       \/ r.pc = "retouch"
       \/ r.pc = "release" /\ in_memory[t] # 0 /\ t \in names

\* What comes back into the queue without being asked whether there is room:
\* the victim of a call, or an agent it claims.
Holds(r, in_memory, names, t) == (r.victim = t /\ t # None) \/ Claims(r, in_memory, names, t)

HeldBy(calls, in_memory, names) ==
    {t \in SubAgents : \E c \in ToolCalls : Holds(calls[c], in_memory, names, t)}

Held == HeldBy(tool, loaded, known)

Counted == (Admitted \cup Held) \ lost

CountedBounded == Cardinality(Counted) <= Capacity + Cardinality(ToolCalls) - 1

ResidencyInv == ResidencyTypes /\ SlotsCounted /\ TrackedByLoader /\ CountedBounded

USE ResidencyConstants

-----------------------------------------------------------------------------
(* The queue of residents.                                                 *)

\* Taking a thread out of the queue keeps the order of the others.
LEMMA RemoveFirstFacts ==
    ASSUME NEW s \in Seq(SubAgents), IsInjective(s), NEW t \in SubAgents
    PROVE  /\ RemoveFirst(s, t) \in Seq(SubAgents)
           /\ IsInjective(RemoveFirst(s, t))
           /\ ToSet(RemoveFirst(s, t)) = ToSet(s) \ {t}
<1>0. DOMAIN s = 1 .. Len(s) /\ Len(s) \in Nat
  OBVIOUS
<1>1. CASE ~\E i \in 1 .. Len(s) : s[i] = t
  <2>1. RemoveFirst(s, t) = s
    BY <1>1 DEF RemoveFirst
  <2> QED BY <1>0, <1>1, <2>1 DEF ToSet
<1>2. CASE \E i \in 1 .. Len(s) : s[i] = t
  <2>1. PICK k \in 1 .. Len(s) : s[k] = t
    BY <1>2
  <2>2. \A j \in 1 .. Len(s) : s[j] = t => j = k
    BY <1>0, <2>1 DEF IsInjective
  <2>3. {j \in 1 .. Len(s) : s[j] = t} = {k}
    BY <2>1, <2>2
  <2>4. SelectInSeq(s, LAMBDA v : v = t) = k
    BY <2>3 DEF SelectInSeq, Min
  <2> DEFINE a == SubSeq(s, 1, k - 1)
             b == SubSeq(s, k + 1, Len(s))
             u == a \o b
  <2>5. RemoveFirst(s, t) = u
    BY <1>2, <2>4 DEF RemoveFirst, RemoveAt
  <2>6. /\ a \in Seq(SubAgents) /\ Len(a) = k - 1
        /\ \A i \in 1 .. k - 1 : a[i] = s[i]
    OBVIOUS
  <2>7. /\ b \in Seq(SubAgents) /\ Len(b) = Len(s) - k
        /\ \A i \in 1 .. Len(s) - k : b[i] = s[k + i]
    OBVIOUS
  <2> HIDE DEF a, b
  <2>8. /\ u \in Seq(SubAgents) /\ Len(u) = Len(s) - 1
        /\ \A i \in 1 .. Len(s) - 1 : u[i] = IF i < k THEN s[i] ELSE s[i + 1]
    <3>1. u \in Seq(SubAgents) /\ Len(u) = Len(a) + Len(b)
      BY <2>6, <2>7, ConcatProperties
    <3>2. ASSUME NEW i \in 1 .. Len(s) - 1, i < k PROVE u[i] = s[i]
      BY <1>0, <2>6, <2>7, <3>2
    <3>3. ASSUME NEW i \in 1 .. Len(s) - 1, ~(i < k) PROVE u[i] = s[i + 1]
      <4>1. i - (k - 1) \in 1 .. Len(s) - k /\ k + (i - (k - 1)) = i + 1
        BY <1>0, <3>3
      <4>2. u[i] = b[i - (k - 1)]
        BY <1>0, <2>6, <2>7, <3>3
      <4> QED BY <2>7, <4>1, <4>2
    <3> QED BY <1>0, <2>6, <2>7, <3>1, <3>2, <3>3
  <2> HIDE DEF u
  <2>9. DOMAIN u = 1 .. Len(s) - 1
    BY <2>8
  <2>10. IsInjective(u)
    <3> SUFFICES ASSUME NEW i \in 1 .. Len(s) - 1, NEW j \in 1 .. Len(s) - 1, u[i] = u[j]
                 PROVE  i = j
      BY <2>9 DEF IsInjective
    <3> DEFINE g(n) == IF n < k THEN n ELSE n + 1
    <3>1. u[i] = s[g(i)] /\ u[j] = s[g(j)] /\ g(i) \in 1 .. Len(s) /\ g(j) \in 1 .. Len(s)
      BY <1>0, <2>8
    <3>2. g(i) = g(j)
      BY <1>0, <3>1 DEF IsInjective
    <3> QED BY <3>2
  <2>11. ToSet(u) \subseteq ToSet(s) \ {t}
    <3> SUFFICES ASSUME NEW i \in 1 .. Len(s) - 1 PROVE u[i] \in ToSet(s) \ {t}
      BY <2>9 DEF ToSet
    <3>1. PICK j \in 1 .. Len(s) : j # k /\ u[i] = s[j]
      BY <1>0, <2>8
    <3> QED BY <1>0, <2>2, <3>1 DEF ToSet
  <2>12. ASSUME NEW i \in 1 .. Len(s), s[i] # t
         PROVE  s[i] \in ToSet(u)
    <3>1. CASE i < k
      BY <2>8, <2>9, <2>12, <3>1 DEF ToSet
    <3>2. CASE i > k
      <4>1. i - 1 \in 1 .. Len(s) - 1 /\ u[i - 1] = s[i]
        BY <1>0, <2>8, <2>12, <3>2
      <4> QED BY <2>9, <4>1 DEF ToSet
    <3> QED BY <2>1, <2>12, <3>1, <3>2
  <2>13. ToSet(s) \ {t} \subseteq ToSet(u)
    BY <1>0, <2>12 DEF ToSet
  <2> QED BY <2>5, <2>8, <2>10, <2>11, <2>13
<1> QED BY <1>1, <1>2

\* Touching a thread adds it to the queue and nothing else.
LEMMA TouchFacts ==
    ASSUME NEW s \in Seq(SubAgents), IsInjective(s), NEW t \in SubAgents
    PROVE  /\ touch_resident(s, t) \in Seq(SubAgents)
           /\ IsInjective(touch_resident(s, t))
           /\ ToSet(touch_resident(s, t)) = ToSet(s) \cup {t}
<1> DEFINE u == RemoveFirst(s, t)
           v == Append(u, t)
<1>1. u \in Seq(SubAgents) /\ IsInjective(u) /\ ToSet(u) = ToSet(s) \ {t}
  BY RemoveFirstFacts
<1>2. touch_resident(s, t) = v
  BY DEF touch_resident
<1> HIDE DEF u
<1>3. /\ v \in Seq(SubAgents) /\ DOMAIN v = 1 .. Len(u) + 1 /\ DOMAIN u = 1 .. Len(u)
      /\ Len(u) \in Nat
      /\ \A i \in 1 .. Len(u) : v[i] = u[i]
      /\ v[Len(u) + 1] = t
  BY <1>1
<1>4. \A i \in 1 .. Len(u) : u[i] # t
  BY <1>1, <1>3 DEF ToSet
<1> HIDE DEF v
<1>5. IsInjective(v)
  BY <1>1, <1>3, <1>4 DEF IsInjective
<1>6. ToSet(v) = ToSet(u) \cup {t}
  BY <1>3 DEF ToSet
<1> QED BY <1>1, <1>2, <1>3, <1>5, <1>6

\* Popping takes one thread out and keeps the others.
LEMMA PopFacts ==
    ASSUME NEW s \in Seq(SubAgents), IsInjective(s), NEW p, Oldest(s, p) # 0
    PROVE  LET k == Oldest(s, p)
               u == SubSeq(s, k + 1, Len(s)) \o SubSeq(s, 1, k - 1)
           IN  /\ k \in 1 .. Len(s) /\ s[k] \in SubAgents
               /\ u \in Seq(SubAgents) /\ IsInjective(u)
               /\ ToSet(u) = ToSet(s) \ {s[k]}
<1> DEFINE k == Oldest(s, p)
           a == SubSeq(s, k + 1, Len(s))
           b == SubSeq(s, 1, k - 1)
           u == a \o b
           I == {i \in 1 .. Len(s) : s[i] # p}
<1>0. DOMAIN s = 1 .. Len(s) /\ Len(s) \in Nat
  OBVIOUS
<1>1. I # {} /\ k = Min(I)
  BY DEF Oldest, SelectInSeq
<1>2. \E m \in I : \A n \in I : m <= n
  <2>1. CASE 1 \in I
    BY <1>0, <2>1
  <2>2. CASE 1 \notin I
    <3>1. PICK i \in I : TRUE
      BY <1>1
    <3>2. i \in 2 .. Len(s) /\ s[1] = p
      BY <1>0, <2>2, <3>1
    <3>3. 2 \in I
      BY <1>0, <3>2 DEF IsInjective
    <3> QED BY <1>0, <2>2, <3>3
  <2> QED BY <2>1, <2>2
<1>3. k \in 1 .. Len(s)
  BY <1>1, <1>2 DEF Min
<1>4. s[k] \in SubAgents
  BY <1>0, <1>3
<1> HIDE DEF k
<1>5. /\ a \in Seq(SubAgents) /\ Len(a) = Len(s) - k
      /\ \A i \in 1 .. Len(s) - k : a[i] = s[k + i]
  BY <1>3
<1>6. /\ b \in Seq(SubAgents) /\ Len(b) = k - 1
      /\ \A i \in 1 .. k - 1 : b[i] = s[i]
  BY <1>3
<1> HIDE DEF a, b
<1>7. /\ u \in Seq(SubAgents) /\ Len(u) = Len(s) - 1
      /\ \A i \in 1 .. Len(s) - 1 : u[i] = IF i <= Len(s) - k THEN s[k + i] ELSE s[i - (Len(s) - k)]
  <2>1. u \in Seq(SubAgents) /\ Len(u) = Len(a) + Len(b)
    BY <1>5, <1>6, ConcatProperties
  <2>2. ASSUME NEW i \in 1 .. Len(s) - 1, i <= Len(s) - k PROVE u[i] = s[k + i]
    BY <1>0, <1>3, <1>5, <1>6, <2>2
  <2>3. ASSUME NEW i \in 1 .. Len(s) - 1, ~(i <= Len(s) - k) PROVE u[i] = s[i - (Len(s) - k)]
    <3>1. i - (Len(s) - k) \in 1 .. k - 1
      BY <1>0, <1>3, <2>3
    <3>2. u[i] = b[i - (Len(s) - k)]
      BY <1>0, <1>3, <1>5, <1>6, <2>3
    <3> QED BY <1>6, <3>1, <3>2
  <2> QED BY <1>0, <1>3, <1>5, <1>6, <2>1, <2>2, <2>3
<1> HIDE DEF u
<1>8. DOMAIN u = 1 .. Len(s) - 1
  BY <1>7
<1> DEFINE g(n) == IF n <= Len(s) - k THEN k + n ELSE n - (Len(s) - k)
<1>g. ASSUME NEW i \in 1 .. Len(s) - 1
      PROVE  u[i] = s[g(i)] /\ g(i) \in 1 .. Len(s) /\ g(i) # k
  BY <1>0, <1>3, <1>7
<1>9. IsInjective(u)
  <2> SUFFICES ASSUME NEW i \in 1 .. Len(s) - 1, NEW j \in 1 .. Len(s) - 1, u[i] = u[j]
               PROVE  i = j
    BY <1>8 DEF IsInjective
  <2>1. s[g(i)] = s[g(j)] /\ g(i) \in 1 .. Len(s) /\ g(j) \in 1 .. Len(s)
    BY <1>g
  <2>2. g(i) = g(j)
    BY <1>0, <2>1 DEF IsInjective
  <2> QED BY <1>0, <1>3, <2>2
<1>10. ToSet(u) \subseteq ToSet(s) \ {s[k]}
  <2> SUFFICES ASSUME NEW i \in 1 .. Len(s) - 1 PROVE u[i] \in ToSet(s) \ {s[k]}
    BY <1>8 DEF ToSet
  <2>1. PICK j \in 1 .. Len(s) : j # k /\ u[i] = s[j]
    BY <1>g
  <2>2. s[j] # s[k]
    BY <1>0, <1>3, <2>1 DEF IsInjective
  <2> QED BY <1>0, <2>1, <2>2 DEF ToSet
<1>11. ASSUME NEW i \in 1 .. Len(s), i # k PROVE s[i] \in ToSet(u)
  <2>1. CASE i > k
    <3>1. i - k \in 1 .. Len(s) - 1 /\ u[i - k] = s[i]
      BY <1>0, <1>3, <1>7, <1>11, <2>1
    <3> QED BY <1>8, <3>1 DEF ToSet
  <2>2. CASE i < k
    <3> DEFINE j == i + (Len(s) - k)
    <3>1. j \in 1 .. Len(s) - 1 /\ ~(j <= Len(s) - k) /\ j - (Len(s) - k) = i
      BY <1>0, <1>3, <1>11, <2>2
    <3>2. u[j] = s[i]
      BY <1>7, <3>1
    <3> QED BY <1>8, <3>1, <3>2 DEF ToSet
  <2> QED BY <1>3, <1>11, <2>1, <2>2
<1>12. ToSet(s) \ {s[k]} \subseteq ToSet(u)
  BY <1>0, <1>11 DEF ToSet
<1> QED BY <1>3, <1>4, <1>7, <1>9, <1>10, <1>12 DEF k, u, a, b

\* The numbers up to n are n.
LEMMA IntervalCardinality ==
    ASSUME NEW n \in Nat
    PROVE  IsFiniteSet(1 .. n) /\ Cardinality(1 .. n) = n
<1>1. 1 \in Int /\ n \in Int
  OBVIOUS
<1>2. IsFiniteSet(1 .. n) /\ Cardinality(1 .. n) = IF 1 > n THEN 0 ELSE n - 1 + 1
  BY <1>1, FS_Interval
<1> QED BY <1>2

\* A queue has at least as many entries as threads.
LEMMA QueueCardinality ==
    ASSUME NEW s \in Seq(SubAgents)
    PROVE  /\ Len(s) \in Nat /\ IsFiniteSet(ToSet(s)) /\ Cardinality(ToSet(s)) \in Nat
           /\ Cardinality(ToSet(s)) <= Len(s)
<1>1. Len(s) \in Nat /\ s \in Surjection(1 .. Len(s), ToSet(s))
  BY DEF Surjection, ToSet
<1>2. IsFiniteSet(1 .. Len(s)) /\ Cardinality(1 .. Len(s)) = Len(s)
  BY <1>1, IntervalCardinality
<1> QED BY <1>1, <1>2, FS_Surjection, FS_CardinalityType

-----------------------------------------------------------------------------
(* One step of one call.                                                   *)

Near == Admitted \cup Held

\* The agents that count are some of the session's, and finitely many.
LEMMA NearFinite ==
    ASSUME ResidencyTypes
    PROVE  /\ Near \subseteq SubAgents /\ ToSet(residents) \subseteq SubAgents
           /\ IsFiniteSet(Counted) /\ Cardinality(Counted) \in Nat
           /\ IsFiniteSet(SlotHolders) /\ Cardinality(SlotHolders) \in Nat
<1>1. ToSet(residents) \subseteq SubAgents
  BY DEF ResidencyTypes, ToSet
<1>2. \A c \in ToolCalls : tool[c].slot => tool[c].id \in SubAgents
  BY DEF ResidencyTypes, ToolState, SlotPcs
<1>3. Admitted \subseteq SubAgents
  BY <1>1, <1>2 DEF Admitted
<1>4. Held \subseteq SubAgents
  BY DEF Held, HeldBy
<1>5. Near \subseteq SubAgents /\ Counted \subseteq SubAgents
  BY <1>3, <1>4 DEF Near, Counted
<1>6. SlotHolders \subseteq ToolCalls
  BY DEF SlotHolders
<1> QED BY <1>1, <1>5, <1>6, FS_Subset, FS_CardinalityType

\* Fewer agents count.
LEMMA CountShrinks ==
    ASSUME ResidencyInv, ResidencyTypes', Counted' \subseteq Counted
    PROVE  CountedBounded'
<1>1. IsFiniteSet(Counted) /\ Cardinality(Counted) \in Nat
  BY NearFinite DEF ResidencyInv
<1>2. Cardinality(Counted') <= Cardinality(Counted) /\ Cardinality(Counted') \in Nat
  BY <1>1, FS_Subset, FS_CardinalityType
<1>3. Cardinality(ToolCalls) \in Nat
  BY FS_CardinalityType
<1> QED BY <1>1, <1>2, <1>3 DEF ResidencyInv, CountedBounded

\* What one call may do without adding to the agents that count: put into the
\* queue, hold or promise a slot to only those that count already.
LEMMA CountStep ==
    ASSUME ResidencyInv, ResidencyTypes', NEW c \in ToolCalls, NEW r,
           tool' = [tool EXCEPT ![c] = r], lost \subseteq lost',
           \A t \in known' : t \in known \/ (AnswersFor(r, t) /\ t \in Admitted),
           \A t \in SubAgents : loaded'[t] # 0 => loaded[t] # 0 \/ (AnswersFor(r, t) /\ t \in Admitted),
           ToSet(residents') \subseteq Near \cup lost',
           r.slot => r.id \in Near \cup lost',
           r.victim # None => r.victim \in Near \cup lost',
           \A v \in SubAgents : Claims(r, loaded', known', v) => v \in Near \cup lost'
    PROVE  CountedBounded'
<1>1. \A d \in ToolCalls : tool'[d] = IF d = c THEN r ELSE tool[d]
  BY DEF ResidencyInv, ResidencyTypes
<1>2. Admitted' \subseteq Near \cup lost'
  BY <1>1 DEF Admitted, Near
<1>3. ASSUME NEW t \in SubAgents, NEW d \in ToolCalls, Holds(tool'[d], loaded', known', t)
      PROVE  t \in Near \cup lost'
  <2>1. CASE d = c
    BY <1>1, <1>3, <2>1 DEF Holds
  <2>2. CASE d # c
    <3>1. Holds(tool[d], loaded, known, t) \/ t \in Admitted
      BY <1>1, <1>3, <2>2 DEF Holds, Claims
    <3> QED BY <3>1 DEF Near, Held, HeldBy
  <2> QED BY <2>1, <2>2
<1>4. Held' \subseteq Near \cup lost'
  BY <1>3 DEF Held, HeldBy
<1>5. Counted' \subseteq Counted
  BY <1>2, <1>4 DEF Counted, Near
<1> QED BY <1>5, CountShrinks

\* What one call may do without losing sight of a loaded agent.
LEMMA TrackStep ==
    ASSUME ResidencyInv, NEW c \in ToolCalls, NEW r, tool' = [tool EXCEPT ![c] = r],
           lost \subseteq lost',
           \A t \in known' : t \in known \/ (AnswersFor(r, t) /\ t \in Admitted),
           \A t \in SubAgents : loaded'[t] # 0 => loaded[t] # 0 \/ (AnswersFor(r, t) /\ t \in Admitted),
           \A t \in ToSet(residents) :
               \/ t \in ToSet(residents') \/ t \notin known'
               \/ r.victim = t \/ AnswersFor(r, t),
           \A v \in SubAgents : tool[c].victim = v =>
               r.victim = v \/ v \in ToSet(residents') \/ v \in lost' \/ loaded'[v] = 0,
           \A t \in SubAgents : AnswersFor(tool[c], t) =>
               AnswersFor(r, t) \/ t \in ToSet(residents') \/ t \in lost' \/ t \notin known',
           known' \subseteq SubAgents
    PROVE  TrackedByLoader'
<1> SUFFICES ASSUME NEW t \in known', loaded'[t] # 0
             PROVE  \/ t \in ToSet(residents') \/ t \in lost'
                    \/ \E d \in ToolCalls : tool'[d].victim = t
                    \/ \E d \in ToolCalls : AnswersFor(tool'[d], t)
  BY DEF TrackedByLoader, AnswersFor
<1>1. \A d \in ToolCalls : tool'[d] = IF d = c THEN r ELSE tool[d]
  BY DEF ResidencyInv, ResidencyTypes
<1>2. CASE AnswersFor(r, t)
  BY <1>1, <1>2
<1>3. CASE ~AnswersFor(r, t)
  <2>1. t \in known /\ loaded[t] # 0 /\ t \in SubAgents /\ t # None
    BY <1>3
  <2>2. CASE t \in ToSet(residents) \/ t \in lost
    BY <1>1, <1>3, <2>2
  <2>3. ASSUME NEW d \in ToolCalls, tool[d].victim = t
        PROVE  t \in ToSet(residents') \/ t \in lost' \/ tool'[d].victim = t
    BY <1>1, <2>1, <2>3
  <2>4. ASSUME NEW d \in ToolCalls, AnswersFor(tool[d], t)
        PROVE  t \in ToSet(residents') \/ t \in lost' \/ AnswersFor(tool'[d], t)
    BY <1>1, <2>1, <2>4
  <2> QED BY <2>1, <2>2, <2>3, <2>4 DEF ResidencyInv, TrackedByLoader
<1> QED BY <1>2, <1>3

\* The slots that are pending: one more, one less or as many.
LEMMA SlotStep ==
    ASSUME ResidencyInv, NEW c \in ToolCalls, NEW r, tool' = [tool EXCEPT ![c] = r],
           r.slot \in BOOLEAN,
           pending_slots' = IF r.slot = tool[c].slot THEN pending_slots
                            ELSE IF r.slot THEN pending_slots + 1 ELSE pending_slots - 1
    PROVE  SlotsCounted'
<1>1. \A d \in ToolCalls : tool'[d] = IF d = c THEN r ELSE tool[d]
  BY DEF ResidencyInv, ResidencyTypes
<1>2. tool[c] \in ToolState
  BY DEF ResidencyInv, ResidencyTypes
<1>3. tool[c].slot \in BOOLEAN
  BY <1>2 DEF ToolState
<1>4. IsFiniteSet(SlotHolders) /\ Cardinality(SlotHolders) \in Nat
      /\ pending_slots = Cardinality(SlotHolders)
  BY NearFinite DEF ResidencyInv, SlotsCounted
<1>5. CASE r.slot = tool[c].slot
  <2>1. SlotHolders' = SlotHolders
    BY <1>1, <1>5 DEF SlotHolders
  <2> QED BY <1>4, <1>5, <2>1 DEF SlotsCounted
<1>6. CASE r.slot /\ ~tool[c].slot
  <2>1. SlotHolders' = SlotHolders \cup {c} /\ c \notin SlotHolders
    BY <1>1, <1>6 DEF SlotHolders
  <2>2. Cardinality(SlotHolders') = Cardinality(SlotHolders) + 1
    BY <1>4, <2>1, FS_AddElement
  <2> QED BY <1>4, <1>6, <2>2 DEF SlotsCounted
<1>7. CASE ~r.slot /\ tool[c].slot
  <2>1. SlotHolders' = SlotHolders \ {c} /\ c \in SlotHolders
    BY <1>1, <1>7 DEF SlotHolders
  <2>2. Cardinality(SlotHolders') = Cardinality(SlotHolders) - 1
    BY <1>4, <2>1, FS_RemoveElement
  <2> QED BY <1>4, <1>7, <2>2 DEF SlotsCounted
<1> QED BY <1>3, <1>5, <1>6, <1>7

\* Whatever a call does, if it is one of the steps above.
LEMMA ToolStep ==
    ASSUME ResidencyInv, NEW c \in ToolCalls, NEW r \in ToolState, tool' = [tool EXCEPT ![c] = r],
           residents' \in Seq(SubAgents), IsInjective(residents'),
           known' \subseteq SubAgents, lost \subseteq lost', lost' \subseteq SubAgents,
           loaded' \in [SubAgents -> Nat], sess' \in [SubAgents -> Seq(Session)],
           pending_slots' = IF r.slot = tool[c].slot THEN pending_slots
                            ELSE IF r.slot THEN pending_slots + 1 ELSE pending_slots - 1,
           \A t \in SubAgents : loaded'[t] # 0 => loaded[t] # 0 \/ (AnswersFor(r, t) /\ t \in Admitted),
           \A t \in known' : t \in known \/ (AnswersFor(r, t) /\ t \in Admitted),
           \A t \in ToSet(residents) :
               \/ t \in ToSet(residents') \/ t \notin known'
               \/ r.victim = t \/ AnswersFor(r, t),
           \A v \in SubAgents : tool[c].victim = v =>
               r.victim = v \/ v \in ToSet(residents') \/ v \in lost' \/ loaded'[v] = 0,
           \A t \in SubAgents : AnswersFor(tool[c], t) =>
               AnswersFor(r, t) \/ t \in ToSet(residents') \/ t \in lost' \/ t \notin known',
           ToSet(residents') \subseteq Near \cup lost',
           r.slot => r.id \in Near \cup lost',
           r.victim # None => r.victim \in Near \cup lost',
           \A v \in SubAgents : Claims(r, loaded', known', v) => v \in Near \cup lost'
    PROVE  ResidencyInv'
<1>1. tool' \in [ToolCalls -> ToolState]
  BY DEF ResidencyInv, ResidencyTypes
<1>2. ResidencyTypes'
  BY <1>1 DEF ResidencyTypes
<1>3. r.slot \in BOOLEAN
  BY DEF ToolState
<1>4. SlotsCounted'
  BY <1>3, SlotStep
<1>5. TrackedByLoader'
  BY TrackStep
<1>6. CountedBounded'
  BY <1>2, CountStep
<1> QED BY <1>2, <1>4, <1>5, <1>6 DEF ResidencyInv

\* A step that leaves the queue, the slots and what is in memory alone.
LEMMA QuietStep ==
    ASSUME ResidencyInv, NEW c \in ToolCalls, NEW r \in ToolState, tool' = [tool EXCEPT ![c] = r],
           UNCHANGED <<residents, pending_slots, loaded, known, lost>>,
           sess' \in [SubAgents -> Seq(Session)],
           r.slot = tool[c].slot, r.slot => r.id = tool[c].id,
           r.victim # None => r.victim = tool[c].victim,
           \A v \in SubAgents : tool[c].victim = v => r.victim = v \/ loaded[v] = 0,
           \A t \in SubAgents : AnswersFor(tool[c], t) => AnswersFor(r, t),
           \A v \in SubAgents : Claims(r, loaded, known, v) => v \in Near \cup lost
    PROVE  ResidencyInv'
<1>1. tool[c] \in ToolState
  BY DEF ResidencyInv, ResidencyTypes
<1>2. /\ residents \in Seq(SubAgents) /\ IsInjective(residents)
      /\ known \subseteq SubAgents /\ lost \subseteq SubAgents /\ loaded \in [SubAgents -> Nat]
  BY DEF ResidencyInv, ResidencyTypes
<1>3. ToSet(residents) \subseteq Near
  BY DEF Near, Admitted
<1>4. r.slot => r.id \in Near
  BY DEF Near, Admitted
<1>5. r.victim # None => r.victim \in Near
  <2> SUFFICES ASSUME r.victim # None PROVE r.victim \in Near
    OBVIOUS
  <2>1. r.victim \in SubAgents /\ tool[c].victim = r.victim
    BY <1>1 DEF ToolState
  <2> QED BY <2>1 DEF Near, Held, HeldBy, Holds, Claims
<1> QED BY <1>2, <1>3, <1>4, <1>5, ToolStep

\* A step of the sessions.
LEMMA SessionStep ==
    ASSUME ResidencyInv, UNCHANGED <<residents, pending_slots, loaded, known, lost, tool>>,
           sess' \in [SubAgents -> Seq(Session)]
    PROVE  ResidencyInv'
<1>1. ResidencyTypes' /\ SlotsCounted' /\ TrackedByLoader'
  BY DEF ResidencyInv, ResidencyTypes, SlotsCounted, SlotHolders, TrackedByLoader
<1>2. Counted' = Counted
  BY DEF Counted, Admitted, Held, HeldBy, Holds, Claims
<1> QED BY <1>1, <1>2, CountShrinks DEF ResidencyInv

\* An agent that is in memory and can be addressed counts, or was let slip.
LEMMA KnownIsNear ==
    ASSUME ResidencyInv, NEW t \in known, loaded[t] # 0
    PROVE  t \in Near \cup lost
<1>1. CASE t \in ToSet(residents) \/ t \in lost
  BY <1>1 DEF Near, Admitted
<1>2. ASSUME NEW c \in ToolCalls, tool[c].victim = t PROVE t \in Near
  BY <1>2 DEF ResidencyInv, ResidencyTypes, Near, Held, HeldBy, Holds, Claims
<1>3. ASSUME NEW c \in ToolCalls, AnswersFor(tool[c], t) PROVE t \in Near
  <2>1. tool[c] \in ToolState /\ t \in SubAgents
    BY DEF ResidencyInv, ResidencyTypes
  <2>2. CASE tool[c].pc = "release"
    BY <1>3, <2>1, <2>2 DEF AnswersFor, Near, Held, HeldBy, Holds, Claims
  <2>3. CASE tool[c].pc # "release"
    <3>1. tool[c].slot /\ tool[c].id = t
      BY <1>3, <2>1, <2>3 DEF ToolState, AnswersFor, SlotPcs
    <3> QED BY <3>1 DEF Near, Admitted
  <2> QED BY <2>2, <2>3
<1> QED BY <1>1, <1>2, <1>3 DEF ResidencyInv, TrackedByLoader

-----------------------------------------------------------------------------
(* The states of a call.                                                   *)

\* What a step may assume of the state a call is in.
LEMMA StateFacts ==
    ASSUME NEW x \in ToolState
    PROVE  /\ x.slot <=> x.pc \in SlotPcs
           /\ x.victim # None <=> x.pc \in Evicting
           /\ x.pc # "idle" => x.id \in SubAgents
           /\ x.victim \in SubAgents \cup {None} /\ x.slot \in BOOLEAN /\ x.pc \in ToolPcs
           /\ x.kind \in Kinds /\ x.scans \in Nat /\ x.at \in Nat /\ x.vat \in Nat
           /\ x.id \in SubAgents \cup {None}
BY DEF ToolState

LEMMA NoToolState ==
    /\ NoTool \in ToolState
    /\ NoTool.pc = "idle" /\ NoTool.slot = FALSE /\ NoTool.victim = None
BY DEF ToolState, NoTool, ToolPcs, Kinds, SlotPcs, Evicting

\* Goto changes nothing else.
LEMMA GotoState ==
    ASSUME NEW x \in ToolState, NEW p \in ToolPcs, p # "idle" => x.id \in SubAgents,
           p \in SlotPcs <=> x.slot, p \in Evicting <=> x.victim # None
    PROVE  LET r == [x EXCEPT !.pc = p]
           IN  /\ r \in ToolState
               /\ r.pc = p /\ r.slot = x.slot /\ r.victim = x.victim /\ r.id = x.id
BY DEF ToolState

-----------------------------------------------------------------------------
(* The reservation, where the count may grow.                              *)

\* Each call puts back at most one agent, and one that has just reserved none.
LEMMA HeldBound ==
    ASSUME NEW calls \in [ToolCalls -> ToolState], NEW in_memory, NEW names,
           NEW c \in ToolCalls, calls[c].pc = "create"
    PROVE  LET H == HeldBy(calls, in_memory, names)
           IN  /\ IsFiniteSet(H) /\ Cardinality(H) \in Nat
               /\ Cardinality(H) <= Cardinality(ToolCalls) - 1
<1> DEFINE H == HeldBy(calls, in_memory, names)
           D == ToolCalls \ {c}
           h == [t \in H |-> CHOOSE d \in ToolCalls : Holds(calls[d], in_memory, names, t)]
<1>1. \A d \in ToolCalls : calls[d] \in ToolState
  OBVIOUS
<1>2. \A d \in ToolCalls : \A t, u \in SubAgents :
          Holds(calls[d], in_memory, names, t) /\ Holds(calls[d], in_memory, names, u) => t = u
  BY <1>1, StateFacts DEF Holds, Claims, Evicting
<1>3. \A t \in H : h[t] \in ToolCalls /\ Holds(calls[h[t]], in_memory, names, t) /\ t \in SubAgents
  BY DEF HeldBy
<1>4. \A t \in H : h[t] # c
  BY <1>1, <1>3, StateFacts DEF Holds, Claims, Evicting
<1>5. h \in [H -> D]
  BY <1>3, <1>4
<1>6. \A t, u \in H : h[t] = h[u] => t = u
  BY <1>2, <1>3
<1>7. IsFiniteSet(H)
  BY FS_Subset DEF HeldBy
<1> HIDE DEF h, H
<1>8. h \in Injection(H, D)
  BY <1>5, <1>6 DEF Injection, IsInjective
<1>9. IsFiniteSet(D) /\ Cardinality(D) = Cardinality(ToolCalls) - 1
  BY FS_RemoveElement
<1>10. Cardinality(H) <= Cardinality(D)
  BY <1>8, <1>9, FS_Injection
<1> QED BY <1>7, <1>9, <1>10, FS_CardinalityType DEF H

\* Residents and promised slots are at least the agents admitted.
LEMMA AdmittedBound ==
    ASSUME NEW rs \in Seq(SubAgents), NEW calls
    PROVE  LET S == {d \in ToolCalls : calls[d].slot}
               A == ToSet(rs) \cup {calls[d].id : d \in S}
           IN  /\ IsFiniteSet(A) /\ Cardinality(A) \in Nat
               /\ Cardinality(A) <= Len(rs) + Cardinality(S)
<1> DEFINE S == {d \in ToolCalls : calls[d].slot}
           P == {calls[d].id : d \in S}
           f == [d \in S |-> calls[d].id]
           R == ToSet(rs)
<1>1. f \in Surjection(S, P)
  BY DEF Surjection
<1>2. IsFiniteSet(S) /\ Cardinality(S) \in Nat
  BY FS_Subset, FS_CardinalityType
<1>3. IsFiniteSet(P) /\ Cardinality(P) <= Cardinality(S) /\ Cardinality(P) \in Nat
  BY <1>1, <1>2, FS_Surjection, FS_CardinalityType
<1>4. /\ IsFiniteSet(R) /\ Cardinality(R) \in Nat /\ Len(rs) \in Nat
      /\ Cardinality(R) <= Len(rs)
  BY QueueCardinality
<1> HIDE DEF R, P, S
<1>5. /\ IsFiniteSet(R \cup P)
      /\ Cardinality(R \cup P) = Cardinality(R) + Cardinality(P) - Cardinality(R \cap P)
  BY <1>3, <1>4, FS_Union
<1>6. Cardinality(R \cap P) \in Nat
  BY <1>3, FS_Subset, FS_CardinalityType
<1>7. Cardinality(R \cup P) <= Len(rs) + Cardinality(S) /\ Cardinality(R \cup P) \in Nat
  BY <1>2, <1>3, <1>4, <1>5, <1>6, FS_CardinalityType
<1> QED BY <1>5, <1>7 DEF R, P, S

\* There was room for one more, and every other call may still put one back.
LEMMA ReserveStep ==
    ASSUME ResidencyInv, NEW c \in ToolCalls, try_reserve_pending_slot(c)
    PROVE  ResidencyInv'
<1> DEFINE r == [tool[c] EXCEPT !.pc = "create", !.slot = TRUE]
<1>1. /\ tool[c].pc = "reserve" /\ Len(residents) + pending_slots < Capacity
      /\ tool' = [tool EXCEPT ![c] = r]
      /\ pending_slots' = pending_slots + 1
      /\ UNCHANGED <<residents, loaded, sess, known, lost>>
  BY DEF try_reserve_pending_slot, At, HasRoom
<1>2. tool[c] \in ToolState /\ tool \in [ToolCalls -> ToolState]
  BY DEF ResidencyInv, ResidencyTypes
<1>3. ~tool[c].slot /\ tool[c].victim = None /\ tool[c].id \in SubAgents
  BY <1>1, <1>2, StateFacts DEF SlotPcs, Evicting
<1>4. r \in ToolState /\ r.slot = TRUE /\ r.victim = None /\ r.pc = "create"
  BY <1>2, <1>3 DEF ToolState, ToolPcs, SlotPcs, Evicting
<1>5. tool' \in [ToolCalls -> ToolState]
  BY <1>1, <1>2, <1>4
<1>6. ResidencyTypes'
  BY <1>1, <1>5 DEF ResidencyInv, ResidencyTypes
<1>7. SlotsCounted'
  BY <1>1, <1>3, <1>4, SlotStep
<1>8. TrackedByLoader'
  <2>1. \A t \in SubAgents : ~AnswersFor(tool[c], t) /\ tool[c].victim # t
    BY <1>1, <1>3 DEF AnswersFor
  <2>2. known \subseteq SubAgents
    BY DEF ResidencyInv, ResidencyTypes
  <2> HIDE DEF r
  <2> QED BY <1>1, <2>1, <2>2, TrackStep
<1>9. CountedBounded'
  <2>1. tool'[c].pc = "create"
    BY <1>1, <1>2, <1>4
  <2>2. /\ IsFiniteSet(Held') /\ Cardinality(Held') \in Nat
        /\ Cardinality(Held') <= Cardinality(ToolCalls) - 1
    BY <1>5, <2>1, HeldBound DEF Held
  <2>3. /\ IsFiniteSet(Admitted') /\ Cardinality(Admitted') \in Nat
        /\ Cardinality(Admitted') <= Len(residents') + Cardinality(SlotHolders')
    <3>1. Admitted' = ToSet(residents') \cup {tool'[d].id : d \in {e \in ToolCalls : tool'[e].slot}}
      BY DEF Admitted
    <3>2. SlotHolders' = {e \in ToolCalls : tool'[e].slot}
      BY DEF SlotHolders
    <3>3. residents' \in Seq(SubAgents)
      BY <1>6 DEF ResidencyTypes
    <3> QED BY <3>1, <3>2, <3>3, AdmittedBound
  <2>4. Cardinality(SlotHolders') = pending_slots + 1
    BY <1>1, <1>7 DEF SlotsCounted
  <2>5. Len(residents) \in Nat /\ pending_slots \in Nat
    BY NearFinite DEF ResidencyInv, ResidencyTypes, SlotsCounted
  <2>6. Cardinality(Admitted') <= Capacity
    BY <1>1, <2>3, <2>4, <2>5
  <2> DEFINE A == Admitted'
             H == Held'
  <2> HIDE DEF A, H
  <2>7. /\ IsFiniteSet(A \cup H)
        /\ Cardinality(A \cup H) = Cardinality(A) + Cardinality(H) - Cardinality(A \cap H)
    BY <2>2, <2>3, FS_Union DEF A, H
  <2>8. Cardinality(A \cap H) \in Nat /\ Cardinality(A \cup H) \in Nat
    <3>1. IsFiniteSet(A \cap H)
      BY <2>2, FS_Subset DEF H
    <3> QED BY <2>7, <3>1, FS_CardinalityType
  <2>9. Counted' \subseteq A \cup H
    BY DEF Counted, A, H
  <2>10. Cardinality(Counted') <= Cardinality(A \cup H) /\ Cardinality(Counted') \in Nat
    BY <2>7, <2>9, FS_Subset, FS_CardinalityType
  <2>11. Cardinality(ToolCalls) \in Nat
    BY FS_CardinalityType
  <2> QED BY <2>2, <2>3, <2>6, <2>7, <2>8, <2>10, <2>11 DEF CountedBounded, A, H
<1> QED BY <1>6, <1>7, <1>8, <1>9 DEF ResidencyInv

-----------------------------------------------------------------------------
(* The steps of a call, one lemma each.                                    *)

\* A call begins.
LEMMA BeginStep ==
    ASSUME ResidencyInv, NEW c \in ToolCalls, NEW t \in SubAgents,
           \/ spawn_v2_agent(c, t) \/ interrupt_agent(c, t)
           \/ \E kind \in {"task", "note"} : message_tool(c, t, kind)
    PROVE  ResidencyInv'
<1>1. PICK p \in {"reserve", "ensure", "send"}, k \in Kinds :
        /\ tool[c].pc = "idle" /\ (p = "ensure" => t \in known)
        /\ tool' = [tool EXCEPT ![c] = [NoTool EXCEPT !.pc = p, !.kind = k, !.id = t]]
        /\ UNCHANGED <<residents, pending_slots, loaded, sess, known, lost>>
  BY DEF spawn_v2_agent, interrupt_agent, message_tool, At, Kinds
<1> DEFINE r == [NoTool EXCEPT !.pc = p, !.kind = k, !.id = t]
<1>2. r \in ToolState /\ r.pc = p /\ r.slot = FALSE /\ r.victim = None /\ r.id = t
  BY DEF ToolState, NoTool, ToolPcs, SlotPcs, Evicting
<1>3. tool[c] \in ToolState /\ sess' \in [SubAgents -> Seq(Session)]
  BY <1>1 DEF ResidencyInv, ResidencyTypes
<1>4. tool[c].slot = FALSE /\ \A v \in SubAgents : tool[c].victim # v /\ ~AnswersFor(tool[c], v)
  BY <1>1, <1>3, StateFacts DEF SlotPcs, Evicting, AnswersFor
<1>5. \A v \in SubAgents : Claims(r, loaded, known, v) => v \in Near \cup lost
  BY <1>1, <1>2, KnownIsNear DEF Claims
<1> HIDE DEF r
<1>6. tool' = [tool EXCEPT ![c] = r]
  BY <1>1 DEF r
<1> QED BY <1>1, <1>2, <1>3, <1>4, <1>5, <1>6, QuietStep

\* A call moves on without touching the queue: where it holds no slot that it
\* gives up and no victim that it drops.
LEMMA GotoStep ==
    ASSUME ResidencyInv, NEW c \in ToolCalls, NEW p \in ToolPcs, Goto(c, p),
           UNCHANGED <<residents, pending_slots, loaded, known, lost>>,
           sess' \in [SubAgents -> Seq(Session)],
           tool[c].pc # "idle", p # "ensure",
           p \in SlotPcs <=> tool[c].pc \in SlotPcs,
           p \in Evicting <=> tool[c].pc \in Evicting,
           tool[c].pc \in {"created", "commit"} => p \in {"created", "commit"},
           tool[c].pc # "release", p # "release",
           p = "touch" => tool[c].pc = "ensure",
           p = "retouch" => tool[c].pc = "touch" /\ loaded[tool[c].id] # 0
    PROVE  ResidencyInv'
<1> DEFINE r == [tool[c] EXCEPT !.pc = p]
<1>1. tool[c] \in ToolState
  BY DEF ResidencyInv, ResidencyTypes
<1>2. tool[c].id \in SubAgents
  BY <1>1, StateFacts
<1>3. /\ r \in ToolState
      /\ r.pc = p /\ r.slot = tool[c].slot /\ r.victim = tool[c].victim /\ r.id = tool[c].id
  <2>1. (p \in SlotPcs <=> tool[c].slot) /\ (p \in Evicting <=> tool[c].victim # None)
    BY <1>1, StateFacts
  <2> QED BY <1>1, <1>2, <2>1, GotoState
<1>4. tool' = [tool EXCEPT ![c] = r]
  BY DEF Goto
<1> HIDE DEF r
<1>5. \A t \in SubAgents : AnswersFor(tool[c], t) => AnswersFor(r, t)
  BY <1>3 DEF AnswersFor
<1>6. \A v \in SubAgents : Claims(r, loaded, known, v) => v \in Near \cup lost
  BY <1>2, <1>3 DEF Near, Held, HeldBy, Holds, Claims
<1> QED BY <1>3, <1>4, <1>5, <1>6, QuietStep

\* A call returns where it has neither slot nor victim.
LEMMA ReturnStep ==
    ASSUME ResidencyInv, NEW c \in ToolCalls, Return(c),
           UNCHANGED <<residents, pending_slots, loaded, known, lost>>,
           sess' \in [SubAgents -> Seq(Session)],
           tool[c].pc \notin SlotPcs \cup Evicting, tool[c].pc # "release"
    PROVE  ResidencyInv'
<1>1. tool[c] \in ToolState
  BY DEF ResidencyInv, ResidencyTypes
<1>2. tool[c].slot = FALSE /\ \A v \in SubAgents : tool[c].victim # v /\ ~AnswersFor(tool[c], v)
  BY <1>1, StateFacts DEF SlotPcs, AnswersFor
<1> DEFINE r == NoTool
<1>3. tool' = [tool EXCEPT ![c] = r]
  BY DEF Return
<1>4. r \in ToolState /\ r.pc = "idle" /\ r.slot = FALSE /\ r.victim = None
  BY NoToolState
<1> HIDE DEF r
<1> QED BY <1>2, <1>3, <1>4, QuietStep DEF Claims

\* A session is replaced, or its queue gets one more submission.
LEMMA SessionEntry ==
    ASSUME NEW t \in SubAgents, NEW i, NEW s, sess \in [SubAgents -> Seq(Session)],
           i \in 1 .. Len(sess[t]) => s \in Session
    PROVE  [sess EXCEPT ![t][i] = s] \in [SubAgents -> Seq(Session)]
<1>1. sess[t] \in Seq(Session)
  OBVIOUS
<1>2. CASE i \in 1 .. Len(sess[t])
  BY <1>1, <1>2, ExceptSeq
<1>3. CASE i \notin 1 .. Len(sess[t])
  <2>1. DOMAIN sess[t] = 1 .. Len(sess[t]) /\ sess[t] = [j \in DOMAIN sess[t] |-> sess[t][j]]
    BY <1>1
  <2>2. [sess[t] EXCEPT ![i] = s] = sess[t]
    BY <1>3, <2>1
  <2>3. [sess EXCEPT ![t][i] = s] = [sess EXCEPT ![t] = [sess[t] EXCEPT ![i] = s]]
    OBVIOUS
  <2> QED BY <1>1, <2>2, <2>3
<1> QED BY <1>2, <1>3

LEMMA QueueEntry ==
    ASSUME NEW t \in SubAgents, NEW i, NEW op \in Ops, sess \in [SubAgents -> Seq(Session)]
    PROVE  [sess EXCEPT ![t][i].queue = Append(@, op)] \in [SubAgents -> Seq(Session)]
<1> DEFINE s == [sess[t][i] EXCEPT !.queue = Append(@, op)]
<1>1. sess[t] \in Seq(Session)
  OBVIOUS
<1>2. ASSUME i \in 1 .. Len(sess[t]) PROVE s \in Session
  <2>1. sess[t][i] \in Session
    BY <1>1, <1>2
  <2>2. sess[t][i].queue \in Seq(Ops)
    BY <2>1 DEF Session
  <2>3. Append(sess[t][i].queue, op) \in Seq(Ops)
    BY <2>2, AppendProperties
  <2> QED BY <2>1, <2>3 DEF Session
<1>3. [sess EXCEPT ![t][i].queue = Append(@, op)] = [sess EXCEPT ![t][i] = s]
  OBVIOUS
<1> QED BY <1>2, <1>3, SessionEntry

\* The facts about a call at work that its steps need.
LEMMA CallFacts ==
    ASSUME ResidencyInv, NEW c \in ToolCalls
    PROVE  /\ tool[c] \in ToolState
           /\ residents \in Seq(SubAgents) /\ IsInjective(residents)
           /\ known \subseteq SubAgents /\ lost \subseteq SubAgents
           /\ loaded \in [SubAgents -> Nat] /\ sess \in [SubAgents -> Seq(Session)]
           /\ tool[c].pc # "idle" => tool[c].id \in SubAgents
           /\ tool[c].pc \in Evicting => tool[c].victim \in SubAgents
           /\ tool[c].pc \notin Evicting => tool[c].victim = None
           /\ tool[c].slot \in BOOLEAN
           /\ tool[c].pc \in SlotPcs => tool[c].slot = TRUE
           /\ tool[c].pc \notin SlotPcs => tool[c].slot = FALSE
           /\ ToSet(residents) \subseteq Near
           /\ tool[c].slot => tool[c].id \in Admitted /\ tool[c].id \in Near
           /\ \A v \in SubAgents : tool[c].victim = v => v \in Near
<1>1. tool[c] \in ToolState
  BY DEF ResidencyInv, ResidencyTypes
<1>2. /\ residents \in Seq(SubAgents) /\ IsInjective(residents)
      /\ known \subseteq SubAgents /\ lost \subseteq SubAgents
      /\ loaded \in [SubAgents -> Nat] /\ sess \in [SubAgents -> Seq(Session)]
  BY DEF ResidencyInv, ResidencyTypes
<1>3. /\ tool[c].pc # "idle" => tool[c].id \in SubAgents
      /\ tool[c].pc \in Evicting => tool[c].victim \in SubAgents
      /\ tool[c].pc \notin Evicting => tool[c].victim = None
      /\ tool[c].slot \in BOOLEAN
      /\ tool[c].pc \in SlotPcs => tool[c].slot = TRUE
      /\ tool[c].pc \notin SlotPcs => tool[c].slot = FALSE
  BY <1>1, StateFacts
<1>4. ToSet(residents) \subseteq Near /\ (tool[c].slot => tool[c].id \in Admitted /\ tool[c].id \in Near)
  BY DEF Near, Admitted
<1>5. \A v \in SubAgents : tool[c].victim = v => v \in Near
  BY DEF Near, Held, HeldBy, Holds, Claims
<1> QED BY <1>1, <1>2, <1>3, <1>4, <1>5

\* An agent is touched that counts already, by a call with neither slot nor
\* victim, or that puts its victim back.
LEMMA TouchStep ==
    ASSUME ResidencyInv, NEW c \in ToolCalls, NEW r \in ToolState, NEW t \in SubAgents,
           tool' = [tool EXCEPT ![c] = r], residents' = touch_resident(residents, t),
           UNCHANGED <<loaded, known, lost, sess>>,
           pending_slots' = IF tool[c].slot THEN pending_slots - 1 ELSE pending_slots,
           t \in Near, ~r.slot, r.victim = None, r.pc \notin ClaimPcs,
           \A v \in SubAgents : tool[c].victim = v \/ AnswersFor(tool[c], v) => v = t
    PROVE  ResidencyInv'
<1>1. /\ residents' \in Seq(SubAgents) /\ IsInjective(residents')
      /\ ToSet(residents') = ToSet(residents) \cup {t}
  BY CallFacts, TouchFacts
<1>2. r.slot = FALSE /\ tool[c].slot \in BOOLEAN
  BY CallFacts, StateFacts
<1>3. pending_slots' = IF r.slot = tool[c].slot THEN pending_slots
                       ELSE IF r.slot THEN pending_slots + 1 ELSE pending_slots - 1
  BY <1>2
<1>4. ToSet(residents') \subseteq Near \cup lost'
  BY <1>1, CallFacts
<1>5. \A v \in ToSet(residents) :
         \/ v \in ToSet(residents') \/ v \notin known'
               \/ r.victim = v \/ AnswersFor(r, v)
  BY <1>1
<1>6. \A v \in SubAgents : tool[c].victim = v =>
         r.victim = v \/ v \in ToSet(residents') \/ v \in lost' \/ loaded'[v] = 0
  BY <1>1
<1>7. \A v \in SubAgents : AnswersFor(tool[c], v) =>
         AnswersFor(r, v) \/ v \in ToSet(residents') \/ v \in lost' \/ v \notin known'
  BY <1>1
<1>8. /\ known' \subseteq SubAgents /\ lost' \subseteq SubAgents /\ lost \subseteq lost'
      /\ loaded' \in [SubAgents -> Nat] /\ sess' \in [SubAgents -> Seq(Session)]
  BY CallFacts
<1>9. /\ \A v \in SubAgents : loaded'[v] # 0 => loaded[v] # 0 \/ (AnswersFor(r, v) /\ v \in Admitted)
      /\ \A v \in known' : v \in known \/ (AnswersFor(r, v) /\ v \in Admitted)
  OBVIOUS
<1> QED BY <1>1, <1>3, <1>4, <1>5, <1>6, <1>7, <1>8, <1>9, ToolStep DEF Claims, ClaimPcs

\* A call puts its victim down, and keeps no slot.
LEMMA ReloadState ==
    ASSUME NEW x \in ToolState, NEW p \in {"pop", "reserve"}, x.id \in SubAgents, x.slot = FALSE
    PROVE  LET r == [x EXCEPT !.pc = p, !.victim = None, !.vat = 0]
           IN  /\ r \in ToolState
               /\ r.pc = p /\ r.slot = FALSE /\ r.victim = None /\ r.id = x.id
<1>1. p \in ToolPcs /\ p \notin SlotPcs /\ p \notin Evicting /\ p # "idle"
  BY DEF ToolPcs, SlotPcs, Evicting
<1> QED BY <1>1 DEF ToolState

\* get_thread, touch_loaded_v2_residency and the first reads of reserve_slot.
LEMMA EnsureStep ==
    ASSUME ResidencyInv, NEW c \in ToolCalls, ensure_v2_agent_loaded(c)
    PROVE  ResidencyInv'
<1>1. /\ tool[c].pc = "ensure"
      /\ UNCHANGED <<residents, pending_slots, loaded, sess, known, lost>>
      /\ Goto(c, "touch") \/ Goto(c, "reserve") \/ Return(c)
  BY DEF ensure_v2_agent_loaded, At
<1>2. sess' \in [SubAgents -> Seq(Session)]
  BY <1>1, CallFacts
<1>3. CASE Return(c)
  BY <1>1, <1>2, <1>3, ReturnStep DEF SlotPcs, Evicting
<1>4. ASSUME NEW p \in {"touch", "reserve"}, Goto(c, p)
      PROVE  ResidencyInv'
  <2>1. /\ p \in ToolPcs /\ p # "ensure"
        /\ p \in SlotPcs <=> tool[c].pc \in SlotPcs
        /\ p \in Evicting <=> tool[c].pc \in Evicting
        /\ tool[c].pc \in {"created", "commit"} => p \in {"created", "commit"}
        /\ p = "touch" => tool[c].pc = "ensure"
        /\ p # "retouch" /\ p # "release" /\ tool[c].pc # "release"
    BY <1>1 DEF ToolPcs, SlotPcs, Evicting
  <2> QED BY <1>1, <1>2, <1>4, <2>1, GotoStep
<1> QED BY <1>1, <1>3, <1>4

LEMMA TouchLoadedStep ==
    ASSUME ResidencyInv, NEW c \in ToolCalls, touch_loaded_v2_residency(c)
    PROVE  ResidencyInv'
<1>1. PICK p \in {"retouch", "capacity", "send"} :
        /\ tool[c].pc = "touch" /\ Goto(c, p) /\ (p = "retouch" => loaded[tool[c].id] # 0)
        /\ UNCHANGED <<residents, pending_slots, loaded, sess, known, lost>>
  BY DEF touch_loaded_v2_residency, At, AfterLoad
<1>2. sess' \in [SubAgents -> Seq(Session)]
  BY <1>1, CallFacts
<1>3. /\ p \in ToolPcs /\ p # "ensure" /\ p # "touch" /\ p # "release"
      /\ p \notin SlotPcs /\ p \notin Evicting
      /\ tool[c].pc \notin SlotPcs /\ tool[c].pc \notin Evicting
  BY <1>1 DEF ToolPcs, SlotPcs, Evicting
<1> QED BY <1>1, <1>2, <1>3, GotoStep

\* The agent that was found is touched, and counts since it was found.
LEMMA RetouchStep ==
    ASSUME ResidencyInv, NEW c \in ToolCalls, touch(c)
    PROVE  ResidencyInv'
<1>1. PICK p \in {"capacity", "send"} :
        /\ tool[c].pc = "retouch" /\ Goto(c, p)
        /\ UNCHANGED <<pending_slots, loaded, sess, known, lost>>
        /\ residents' = touch_resident(residents, tool[c].id)
  BY DEF touch, At, AfterLoad
<1>2. /\ tool[c] \in ToolState /\ tool[c].id \in SubAgents
      /\ tool[c].slot = FALSE /\ tool[c].victim = None
  BY <1>1, CallFacts DEF SlotPcs, Evicting
<1>3. /\ p \in ToolPcs /\ p \notin ClaimPcs /\ p \notin SlotPcs /\ p \notin Evicting
  BY DEF ToolPcs, SlotPcs, Evicting, ClaimPcs
<1> DEFINE r == [tool[c] EXCEPT !.pc = p]
           t == tool[c].id
<1>4. r \in ToolState /\ r.pc = p /\ r.slot = FALSE /\ r.victim = None
  BY <1>2, <1>3, GotoState
<1>5. tool' = [tool EXCEPT ![c] = r] /\ residents' = touch_resident(residents, t)
  BY <1>1 DEF Goto
<1>6. t \in Near
  BY <1>1, <1>2 DEF Near, Held, HeldBy, Holds, Claims
<1>7. \A v \in SubAgents : tool[c].victim = v \/ AnswersFor(tool[c], v) => v = t
  BY <1>2, <1>1 DEF AnswersFor
<1>8. pending_slots' = IF tool[c].slot THEN pending_slots - 1 ELSE pending_slots
  BY <1>1, <1>2
<1> HIDE DEF r, t
<1>9. t \in SubAgents /\ r.pc \notin ClaimPcs /\ ~r.slot
  BY <1>2, <1>3, <1>4 DEF t
<1> QED BY <1>1, <1>4, <1>5, <1>6, <1>7, <1>8, <1>9, TouchStep

LEMMA ScanStep ==
    ASSUME ResidencyInv, NEW c \in ToolCalls, resident_count(c) \/ begin_scan(c)
    PROVE  ResidencyInv'
<1>1. CASE resident_count(c)
  <2>1. /\ tool[c].pc = "reserve" /\ Goto(c, "scan")
        /\ UNCHANGED <<residents, pending_slots, loaded, sess, known, lost>>
    BY <1>1 DEF resident_count, At
  <2>2. sess' \in [SubAgents -> Seq(Session)]
    BY <2>1, CallFacts
  <2>3. /\ "scan" \in ToolPcs /\ "scan" \notin SlotPcs /\ "scan" \notin Evicting
        /\ tool[c].pc \notin SlotPcs /\ tool[c].pc \notin Evicting
    BY <2>1 DEF ToolPcs, SlotPcs, Evicting
  <2> QED BY <2>1, <2>2, <2>3, GotoStep
<1>2. CASE begin_scan(c)
  <2> DEFINE r == [tool[c] EXCEPT !.pc = "pop", !.scans = Len(residents)]
  <2>1. /\ tool[c].pc = "scan" /\ tool' = [tool EXCEPT ![c] = r]
        /\ UNCHANGED <<residents, pending_slots, loaded, sess, known, lost>>
    BY <1>2 DEF begin_scan, At
  <2>2. /\ tool[c] \in ToolState /\ tool[c].id \in SubAgents /\ sess' \in [SubAgents -> Seq(Session)]
        /\ tool[c].slot = FALSE /\ tool[c].victim = None /\ Len(residents) \in Nat
    BY <2>1, CallFacts, LenProperties DEF SlotPcs, Evicting
  <2>3. r \in ToolState /\ r.pc = "pop" /\ r.slot = FALSE /\ r.victim = None
    BY <2>2 DEF ToolState, ToolPcs, SlotPcs, Evicting
  <2>4. \A v \in SubAgents : tool[c].victim # v /\ ~AnswersFor(tool[c], v)
    BY <2>1, <2>2 DEF AnswersFor
  <2> HIDE DEF r
  <2> QED BY <2>1, <2>2, <2>3, <2>4, QuietStep DEF Claims
<1> QED BY <1>1, <1>2

\* pop_lru_candidate: the victim is in the call's hands instead of the queue.
LEMMA PopStep ==
    ASSUME ResidencyInv, NEW c \in ToolCalls, pop_lru_candidate(c)
    PROVE  ResidencyInv'
<1> DEFINE k == Oldest(residents, Protected(c))
           v == residents[k]
           u == SubSeq(residents, k + 1, Len(residents)) \o SubSeq(residents, 1, k - 1)
           r == [tool[c] EXCEPT !.pc = "look", !.victim = v, !.scans = @ - 1]
<1>1. /\ tool[c].pc = "pop"
      /\ UNCHANGED <<pending_slots, loaded, sess, known, lost>>
  BY DEF pop_lru_candidate, At
<1>2. \/ Return(c) /\ residents' = residents
      \/ /\ tool[c].scans # 0 /\ k # 0
         /\ residents' = u /\ tool' = [tool EXCEPT ![c] = r]
  BY DEF pop_lru_candidate
<1>3. /\ tool[c] \in ToolState /\ tool[c].id \in SubAgents /\ sess' \in [SubAgents -> Seq(Session)]
      /\ tool[c].slot = FALSE /\ tool[c].victim = None
      /\ tool[c].pc \notin SlotPcs \cup Evicting
  BY <1>1, CallFacts DEF SlotPcs, Evicting
<1>4. CASE Return(c) /\ residents' = residents
  BY <1>1, <1>3, <1>4, ReturnStep
<1>5. CASE /\ tool[c].scans # 0 /\ k # 0
           /\ residents' = u /\ tool' = [tool EXCEPT ![c] = r]
  <2>1. /\ v \in SubAgents /\ u \in Seq(SubAgents) /\ IsInjective(u)
        /\ ToSet(u) = ToSet(residents) \ {v}
        /\ v \in ToSet(residents)
    <3>1. residents \in Seq(SubAgents) /\ IsInjective(residents)
      BY CallFacts
    <3>2. /\ k \in 1 .. Len(residents) /\ v \in SubAgents
          /\ u \in Seq(SubAgents) /\ IsInjective(u) /\ ToSet(u) = ToSet(residents) \ {v}
      BY <1>5, <3>1, PopFacts
    <3>3. v \in ToSet(residents)
      BY <3>1, <3>2 DEF ToSet
    <3> QED BY <3>2, <3>3
  <2> HIDE DEF k, v, u
  <2>2. r \in ToolState /\ r.pc = "look" /\ r.slot = FALSE /\ r.victim = v
    <3>1. tool[c].scans - 1 \in Nat
      BY <1>3, <1>5, StateFacts
    <3> QED BY <1>3, <2>1, <3>1 DEF ToolState, ToolPcs, SlotPcs, Evicting
  <2> HIDE DEF r
  <2>3. tool' = [tool EXCEPT ![c] = r] /\ residents' \in Seq(SubAgents) /\ IsInjective(residents')
    BY <1>5, <2>1
  <2>4. /\ known' \subseteq SubAgents /\ lost \subseteq lost' /\ lost' \subseteq SubAgents
        /\ loaded' \in [SubAgents -> Nat]
    BY <1>1, CallFacts
  <2>5. pending_slots' = IF r.slot = tool[c].slot THEN pending_slots
                         ELSE IF r.slot THEN pending_slots + 1 ELSE pending_slots - 1
    BY <1>1, <1>3, <2>2
  <2>6. /\ \A t \in SubAgents : loaded'[t] # 0 => loaded[t] # 0 \/ (AnswersFor(r, t) /\ t \in Admitted)
        /\ \A t \in known' : t \in known \/ (AnswersFor(r, t) /\ t \in Admitted)
    BY <1>1
  <2>7. \A t \in ToSet(residents) :
           \/ t \in ToSet(residents') \/ t \notin known'
               \/ r.victim = t \/ AnswersFor(r, t)
    BY <1>5, <2>1, <2>2
  <2>8. /\ \A w \in SubAgents : tool[c].victim = w =>
              r.victim = w \/ w \in ToSet(residents') \/ w \in lost' \/ loaded'[w] = 0
        /\ \A t \in SubAgents : AnswersFor(tool[c], t) =>
              AnswersFor(r, t) \/ t \in ToSet(residents') \/ t \in lost' \/ t \notin known'
    BY <1>1, <1>3 DEF AnswersFor
  <2>9. /\ ToSet(residents') \subseteq Near \cup lost'
        /\ r.slot => r.id \in Near \cup lost'
        /\ r.victim # None => r.victim \in Near \cup lost'
        /\ \A w \in SubAgents : Claims(r, loaded', known', w) => w \in Near \cup lost'
    BY <1>5, <2>1, <2>2, CallFacts DEF Claims
  <2> QED BY <1>3, <2>2, <2>3, <2>4, <2>5, <2>6, <2>7, <2>8, <2>9, ToolStep
<1> QED BY <1>2, <1>4, <1>5

\* A victim that may not be unloaded goes back to the queue.
LEMMA PutBackStep ==
    ASSUME ResidencyInv, NEW c \in ToolCalls, tool[c].pc \in Evicting,
           residents' = touch_resident(residents, tool[c].victim), tool' = Reload(c, "pop"),
           UNCHANGED <<pending_slots, loaded, sess, known, lost>>
    PROVE  ResidencyInv'
<1> DEFINE r == [tool[c] EXCEPT !.pc = "pop", !.victim = None, !.vat = 0]
           t == tool[c].victim
<1>1. /\ tool[c] \in ToolState /\ tool[c].id \in SubAgents /\ t \in SubAgents
      /\ tool[c].slot = FALSE /\ t \in Near
  BY CallFacts DEF SlotPcs, Evicting
<1>2. /\ r \in ToolState /\ r.pc = "pop" /\ r.slot = FALSE /\ r.victim = None
  BY <1>1, ReloadState
<1>3. tool' = [tool EXCEPT ![c] = r] /\ residents' = touch_resident(residents, t)
  BY DEF Reload
<1>4. \A v \in SubAgents : tool[c].victim = v \/ AnswersFor(tool[c], v) => v = t
  BY DEF AnswersFor, Evicting
<1> HIDE DEF r, t
<1>5. /\ pending_slots' = IF tool[c].slot THEN pending_slots - 1 ELSE pending_slots
      /\ r.pc \notin ClaimPcs /\ ~r.slot
  BY <1>1, <1>2 DEF ClaimPcs
<1> QED BY <1>1, <1>2, <1>3, <1>4, <1>5, TouchStep

\* A victim that is not in memory, any more, is put down.
LEMMA PutDownStep ==
    ASSUME ResidencyInv, NEW c \in ToolCalls, tool[c].pc \in Evicting, NEW p \in {"pop", "reserve"},
           loaded' = [loaded EXCEPT ![tool[c].victim] = 0], tool' = Reload(c, p),
           UNCHANGED <<residents, pending_slots, sess, known, lost>>
    PROVE  ResidencyInv'
<1> DEFINE r == [tool[c] EXCEPT !.pc = p, !.victim = None, !.vat = 0]
           t == tool[c].victim
<1>1. /\ tool[c] \in ToolState /\ tool[c].id \in SubAgents /\ t \in SubAgents
      /\ tool[c].slot = FALSE /\ loaded \in [SubAgents -> Nat]
  BY CallFacts DEF SlotPcs, Evicting
<1>2. /\ r \in ToolState /\ r.pc = p /\ r.slot = FALSE /\ r.victim = None
  BY <1>1, ReloadState
<1>3. tool' = [tool EXCEPT ![c] = r]
  BY DEF Reload
<1>4. \A v \in SubAgents : ~AnswersFor(tool[c], v)
  BY DEF AnswersFor, Evicting
<1>5. /\ loaded' \in [SubAgents -> Nat] /\ loaded'[t] = 0
      /\ \A v \in SubAgents : loaded'[v] # 0 => loaded[v] # 0
  BY <1>1
<1> HIDE DEF r
<1>6. /\ residents' \in Seq(SubAgents) /\ IsInjective(residents')
      /\ known' \subseteq SubAgents /\ lost \subseteq lost' /\ lost' \subseteq SubAgents
      /\ sess' \in [SubAgents -> Seq(Session)]
  BY CallFacts
<1>7. pending_slots' = IF r.slot = tool[c].slot THEN pending_slots
                       ELSE IF r.slot THEN pending_slots + 1 ELSE pending_slots - 1
  BY <1>1, <1>2
<1>8. /\ \A v \in SubAgents : loaded'[v] # 0 => loaded[v] # 0 \/ (AnswersFor(r, v) /\ v \in Admitted)
      /\ \A v \in known' : v \in known \/ (AnswersFor(r, v) /\ v \in Admitted)
  BY <1>5
<1>9. /\ \A v \in ToSet(residents) :
            \/ v \in ToSet(residents') \/ v \notin known'
               \/ r.victim = v \/ AnswersFor(r, v)
      /\ \A v \in SubAgents : tool[c].victim = v =>
            r.victim = v \/ v \in ToSet(residents') \/ v \in lost' \/ loaded'[v] = 0
      /\ \A v \in SubAgents : AnswersFor(tool[c], v) =>
            AnswersFor(r, v) \/ v \in ToSet(residents') \/ v \in lost' \/ v \notin known'
  BY <1>4, <1>5
<1>10. /\ ToSet(residents') \subseteq Near \cup lost'
       /\ r.slot => r.id \in Near \cup lost'
       /\ r.victim # None => r.victim \in Near \cup lost'
       /\ \A v \in SubAgents : Claims(r, loaded', known', v) => v \in Near \cup lost'
  BY <1>2, CallFacts DEF Claims
<1> QED BY <1>2, <1>3, <1>5, <1>6, <1>7, <1>8, <1>9, <1>10, ToolStep

LEMMA LookStep ==
    ASSUME ResidencyInv, NEW c \in ToolCalls, is_unloadable(c)
    PROVE  ResidencyInv'
<1> DEFINE t == tool[c].victim
           r == [tool[c] EXCEPT !.pc = "mail", !.vat = loaded[t]]
<1>1. /\ tool[c].pc = "look" /\ UNCHANGED <<pending_slots, loaded, sess, known, lost>>
      /\ \/ loaded[t] = 0 /\ tool' = Reload(c, "pop") /\ residents' = residents
         \/ tool' = [tool EXCEPT ![c] = r] /\ residents' = residents
         \/ residents' = touch_resident(residents, t) /\ tool' = Reload(c, "pop")
  BY DEF is_unloadable, At
<1>2. /\ tool[c] \in ToolState /\ tool[c].id \in SubAgents /\ t \in SubAgents
      /\ tool[c].slot = FALSE /\ loaded \in [SubAgents -> Nat] /\ tool[c].pc \in Evicting
      /\ sess' \in [SubAgents -> Seq(Session)]
  BY <1>1, CallFacts DEF SlotPcs, Evicting
<1>3. CASE loaded[t] = 0 /\ tool' = Reload(c, "pop") /\ residents' = residents
  <2>1. loaded' = [loaded EXCEPT ![t] = 0]
    BY <1>1, <1>2, <1>3
  <2> QED BY <1>1, <1>2, <1>3, <2>1, PutDownStep
<1>4. CASE tool' = [tool EXCEPT ![c] = r] /\ residents' = residents
  <2>1. r \in ToolState /\ r.pc = "mail" /\ r.slot = FALSE /\ r.victim = t
    BY <1>2 DEF ToolState, ToolPcs, SlotPcs, Evicting
  <2>2. \A v \in SubAgents : ~AnswersFor(tool[c], v)
    BY <1>1 DEF AnswersFor
  <2> HIDE DEF r
  <2> QED BY <1>1, <1>2, <1>4, <2>1, <2>2, QuietStep DEF Claims
<1>5. CASE residents' = touch_resident(residents, t) /\ tool' = Reload(c, "pop")
  BY <1>1, <1>2, <1>5, PutBackStep
<1> QED BY <1>1, <1>3, <1>4, <1>5

LEMMA MailStep ==
    ASSUME ResidencyInv, NEW c \in ToolCalls, has_pending_mailbox_items(c)
    PROVE  ResidencyInv'
<1>1. /\ tool[c].pc = "mail" /\ UNCHANGED <<pending_slots, loaded, sess, known, lost>>
      /\ \/ Goto(c, "materialize") /\ residents' = residents
         \/ residents' = touch_resident(residents, tool[c].victim) /\ tool' = Reload(c, "pop")
  BY DEF has_pending_mailbox_items, At
<1>2. tool[c].pc \in Evicting /\ sess' \in [SubAgents -> Seq(Session)]
  BY <1>1, CallFacts DEF Evicting
<1>3. CASE Goto(c, "materialize") /\ residents' = residents
  <2>1. /\ "materialize" \in ToolPcs /\ "materialize" \in Evicting
        /\ "materialize" \notin SlotPcs /\ tool[c].pc \notin SlotPcs
    BY <1>1 DEF ToolPcs, SlotPcs, Evicting
  <2> QED BY <1>1, <1>2, <1>3, <2>1, GotoStep
<1>4. CASE residents' = touch_resident(residents, tool[c].victim) /\ tool' = Reload(c, "pop")
  BY <1>1, <1>2, <1>4, PutBackStep
<1> QED BY <1>1, <1>3, <1>4

LEMMA ShutdownStep ==
    ASSUME ResidencyInv, NEW c \in ToolCalls,
           submit_shutdown(c) \/ wait_terminated(c) \/ remove_unloaded(c)
    PROVE  ResidencyInv'
<1>1. CASE submit_shutdown(c)
  <2> DEFINE t == tool[c].victim
             i == tool[c].vat
  <2>1. /\ tool[c].pc = "materialize" /\ Goto(c, "wait")
        /\ UNCHANGED <<residents, pending_slots, loaded, known, lost>>
        /\ sess' = sess \/ sess' = [sess EXCEPT ![t][i].queue = Append(@, "shutdown")]
    BY <1>1 DEF submit_shutdown, At
  <2>2. t \in SubAgents /\ sess \in [SubAgents -> Seq(Session)]
    BY <2>1, CallFacts DEF Evicting
  <2> HIDE DEF t, i
  <2>3. sess' \in [SubAgents -> Seq(Session)]
    <3>1. "shutdown" \in Ops
      BY DEF Ops
    <3>2. [sess EXCEPT ![t][i].queue = Append(@, "shutdown")] \in [SubAgents -> Seq(Session)]
      BY <2>2, <3>1, QueueEntry
    <3>3. CASE sess' = sess
      BY <2>2, <3>3
    <3>4. CASE sess' = [sess EXCEPT ![t][i].queue = Append(@, "shutdown")]
      BY <3>2, <3>4
    <3> QED BY <2>1, <3>3, <3>4
  <2>4. /\ "wait" \in ToolPcs /\ "wait" \in Evicting /\ "wait" \notin SlotPcs
        /\ tool[c].pc \in Evicting /\ tool[c].pc \notin SlotPcs
    BY <2>1 DEF ToolPcs, SlotPcs, Evicting
  <2> QED BY <2>1, <2>3, <2>4, GotoStep
<1>2. CASE wait_terminated(c)
  <2>1. /\ tool[c].pc = "wait" /\ Goto(c, "remove")
        /\ UNCHANGED <<residents, pending_slots, loaded, sess, known, lost>>
    BY <1>2 DEF wait_terminated, At
  <2>2. sess' \in [SubAgents -> Seq(Session)]
    BY <2>1, CallFacts
  <2>3. /\ "remove" \in ToolPcs /\ "remove" \in Evicting /\ "remove" \notin SlotPcs
        /\ tool[c].pc \in Evicting /\ tool[c].pc \notin SlotPcs
    BY <2>1 DEF ToolPcs, SlotPcs, Evicting
  <2> QED BY <2>1, <2>2, <2>3, GotoStep
<1>3. CASE remove_unloaded(c)
  <2>1. /\ tool[c].pc \in Evicting /\ loaded' = [loaded EXCEPT ![tool[c].victim] = 0]
        /\ tool' = Reload(c, "reserve")
        /\ UNCHANGED <<residents, pending_slots, sess, known, lost>>
    BY <1>3 DEF remove_unloaded, At, Evicting
  <2> QED BY <2>1, PutDownStep
<1> QED BY <1>1, <1>2, <1>3

\* A reload finds its thread running, or sees off the incarnation that ended.
LEMMA FindStep ==
    ASSUME ResidencyInv, NEW c \in ToolCalls, find_resumed(c)
    PROVE  ResidencyInv'
<1> DEFINE t == tool[c].id
<1>1. PICK p \in {"found", "failed", "finalize"} :
        /\ tool[c].pc = "create" /\ Goto(c, p)
        /\ UNCHANGED <<residents, pending_slots, sess, known, lost>>
        /\ loaded' = loaded \/ loaded' = [loaded EXCEPT ![t] = 0]
  BY DEF find_resumed, At
<1>2. /\ p \in ToolPcs /\ p \in SlotPcs /\ p \notin Evicting /\ p \notin ClaimPcs
      /\ tool[c].pc \in SlotPcs /\ tool[c].pc \notin Evicting /\ tool[c].pc # "idle"
  BY <1>1 DEF ToolPcs, SlotPcs, Evicting, ClaimPcs
<1>3. /\ tool[c] \in ToolState /\ t \in SubAgents /\ tool[c].victim = None /\ tool[c].slot = TRUE
      /\ t \in Near /\ loaded \in [SubAgents -> Nat]
  BY <1>2, CallFacts
<1> DEFINE r == [tool[c] EXCEPT !.pc = p]
<1>4. /\ r \in ToolState /\ r.pc = p /\ r.slot = TRUE /\ r.victim = None /\ r.id = t
  BY <1>2, <1>3, GotoState
<1>5. tool' = [tool EXCEPT ![c] = r]
  BY <1>1 DEF Goto
<1>6. \A v \in SubAgents : tool[c].victim # v /\ ~AnswersFor(tool[c], v)
  BY <1>1, <1>3 DEF AnswersFor
<1> HIDE DEF r
<1>7. /\ loaded' \in [SubAgents -> Nat]
      /\ \A v \in SubAgents : loaded'[v] # 0 => loaded[v] # 0
  BY <1>1, <1>3
<1>8. /\ residents' \in Seq(SubAgents) /\ IsInjective(residents')
      /\ known' \subseteq SubAgents /\ lost \subseteq lost' /\ lost' \subseteq SubAgents
      /\ sess' \in [SubAgents -> Seq(Session)]
  BY <1>1, CallFacts
<1>9. pending_slots' = IF r.slot = tool[c].slot THEN pending_slots
                       ELSE IF r.slot THEN pending_slots + 1 ELSE pending_slots - 1
  BY <1>1, <1>3, <1>4
<1> HIDE DEF t
<1>10. /\ ToSet(residents') \subseteq Near \cup lost'
       /\ r.slot => r.id \in Near \cup lost'
       /\ r.victim # None => r.victim \in Near \cup lost'
       /\ \A v \in SubAgents : Claims(r, loaded', known', v) => v \in Near \cup lost'
  BY <1>1, <1>2, <1>3, <1>4, CallFacts DEF Claims, ClaimPcs
<1> QED BY <1>1, <1>4, <1>5, <1>6, <1>7, <1>8, <1>9, <1>10, ToolStep

\* The thread is registered: its loader has a slot for it.
LEMMA CreateStep ==
    ASSUME ResidencyInv, NEW c \in ToolCalls, finalize_thread_spawn(c)
    PROVE  ResidencyInv'
<1> DEFINE t == tool[c].id
<1>1. /\ tool[c].pc = "finalize" /\ UNCHANGED <<residents, pending_slots, known, lost>>
      /\ \/ /\ loaded[t] = 0 /\ sess' = [sess EXCEPT ![t] = Append(@, NewSession)]
            /\ loaded' = [loaded EXCEPT ![t] = Len(sess[t]) + 1]
            /\ \E p \in {"created", "commit"} : Goto(c, p)
         \/ Goto(c, "failed") /\ UNCHANGED <<sess, loaded>>
  BY DEF finalize_thread_spawn, At
<1>2. /\ tool[c] \in ToolState /\ t \in SubAgents /\ tool[c].victim = None /\ tool[c].slot = TRUE
      /\ sess \in [SubAgents -> Seq(Session)] /\ loaded \in [SubAgents -> Nat]
      /\ tool[c].pc \in SlotPcs /\ tool[c].pc \notin Evicting
  BY <1>1, CallFacts DEF SlotPcs, Evicting
<1>3. t \in Admitted /\ t \in Near
  BY <1>2, CallFacts
<1>4. CASE Goto(c, "failed") /\ UNCHANGED <<sess, loaded>>
  <2>1. "failed" \in ToolPcs /\ "failed" \in SlotPcs /\ "failed" \notin Evicting
    BY DEF ToolPcs, SlotPcs, Evicting
  <2>2. sess' \in [SubAgents -> Seq(Session)]
    BY <1>2, <1>4
  <2> QED BY <1>1, <1>2, <1>4, <2>1, <2>2, GotoStep
<1>5. ASSUME loaded[t] = 0, sess' = [sess EXCEPT ![t] = Append(@, NewSession)],
             loaded' = [loaded EXCEPT ![t] = Len(sess[t]) + 1],
             NEW p \in {"created", "commit"}, Goto(c, p)
      PROVE  ResidencyInv'
  <2> DEFINE r == [tool[c] EXCEPT !.pc = p]
  <2>1. /\ r \in ToolState /\ r.pc = p /\ r.slot = TRUE /\ r.victim = None /\ r.id = t
    <3>1. p \in ToolPcs /\ p \in SlotPcs /\ p \notin Evicting
      BY DEF ToolPcs, SlotPcs, Evicting
    <3> QED BY <1>2, <3>1, GotoState
  <2>2. tool' = [tool EXCEPT ![c] = r]
    BY <1>5 DEF Goto
  <2> HIDE DEF r
  <2>3. AnswersFor(r, t)
    BY <2>1 DEF AnswersFor
  <2>4. sess' \in [SubAgents -> Seq(Session)]
    <3>1. sess[t] \in Seq(Session)
      BY <1>2
    <3>2. NewSession \in Session
      BY DEF Session, NewSession
    <3>3. Append(sess[t], NewSession) \in Seq(Session)
      BY <3>1, <3>2, AppendProperties
    <3> QED BY <1>2, <1>5, <3>3
  <2>5. /\ loaded' \in [SubAgents -> Nat]
        /\ \A v \in SubAgents : v # t => loaded'[v] = loaded[v]
    <3>1. Len(sess[t]) + 1 \in Nat
      BY <1>2
    <3> QED BY <1>2, <1>5, <3>1
  <2> HIDE DEF t
  <2>6. \A v \in SubAgents : loaded'[v] # 0 => loaded[v] # 0 \/ (AnswersFor(r, v) /\ v \in Admitted)
    BY <1>3, <2>3, <2>5
  <2>7. /\ residents' \in Seq(SubAgents) /\ IsInjective(residents')
        /\ known' \subseteq SubAgents /\ lost \subseteq lost' /\ lost' \subseteq SubAgents
    BY <1>1, CallFacts
  <2>8. pending_slots' = IF r.slot = tool[c].slot THEN pending_slots
                         ELSE IF r.slot THEN pending_slots + 1 ELSE pending_slots - 1
    BY <1>1, <1>2, <2>1
  <2>9. /\ \A v \in known' : v \in known \/ (AnswersFor(r, v) /\ v \in Admitted)
        /\ \A v \in ToSet(residents) :
              \/ v \in ToSet(residents') \/ v \notin known'
               \/ r.victim = v \/ AnswersFor(r, v)
        /\ \A v \in SubAgents : tool[c].victim = v =>
              r.victim = v \/ v \in ToSet(residents') \/ v \in lost' \/ loaded'[v] = 0
        /\ \A v \in SubAgents : AnswersFor(tool[c], v) =>
              AnswersFor(r, v) \/ v \in ToSet(residents') \/ v \in lost' \/ v \notin known'
    BY <1>1, <1>2 DEF AnswersFor
  <2>10. /\ ToSet(residents') \subseteq Near \cup lost'
         /\ r.slot => r.id \in Near \cup lost'
         /\ r.victim # None => r.victim \in Near \cup lost'
         /\ \A v \in SubAgents : Claims(r, loaded', known', v) => v \in Near \cup lost'
    BY <1>1, <1>3, <2>1, CallFacts DEF Claims
  <2> QED BY <2>1, <2>2, <2>4, <2>5, <2>6, <2>7, <2>8, <2>9, <2>10, ToolStep
<1> QED BY <1>1, <1>4, <1>5

\* SpawnReservation::commit: the agent it files is one its caller has loaded.
LEMMA FileStep ==
    ASSUME ResidencyInv, NEW c \in ToolCalls, commit_reservation(c)
    PROVE  ResidencyInv'
<1> DEFINE t == tool[c].id
           r == [tool[c] EXCEPT !.pc = "commit"]
<1>1. /\ tool[c].pc = "created" /\ UNCHANGED <<residents, pending_slots, loaded, sess, lost>>
      /\ known' = known \cup {t} /\ tool' = [tool EXCEPT ![c] = r]
  BY DEF commit_reservation, At, Goto
<1>2. /\ tool[c] \in ToolState /\ t \in SubAgents /\ tool[c].victim = None /\ tool[c].slot = TRUE
      /\ t \in Near /\ t \in Admitted
  <2>1. tool[c].pc \in SlotPcs /\ tool[c].pc \notin Evicting /\ tool[c].pc # "idle"
    BY <1>1 DEF SlotPcs, Evicting
  <2> QED BY <2>1, CallFacts
<1>3. /\ r \in ToolState /\ r.pc = "commit" /\ r.slot = TRUE /\ r.victim = None /\ r.id = t
  <2>1. "commit" \in ToolPcs /\ "commit" \in SlotPcs /\ "commit" \notin Evicting
    BY DEF ToolPcs, SlotPcs, Evicting
  <2> QED BY <1>2, <2>1, GotoState
<1> HIDE DEF r, t
<1>4. AnswersFor(r, t)
  BY <1>3 DEF AnswersFor
<1>5. /\ residents' \in Seq(SubAgents) /\ IsInjective(residents')
      /\ known' \subseteq SubAgents /\ lost \subseteq lost' /\ lost' \subseteq SubAgents
      /\ loaded' \in [SubAgents -> Nat] /\ sess' \in [SubAgents -> Seq(Session)]
  BY <1>1, <1>2, CallFacts
<1>6. pending_slots' = IF r.slot = tool[c].slot THEN pending_slots
                       ELSE IF r.slot THEN pending_slots + 1 ELSE pending_slots - 1
  BY <1>1, <1>2, <1>3
<1>7. /\ \A v \in SubAgents : loaded'[v] # 0 => loaded[v] # 0 \/ (AnswersFor(r, v) /\ v \in Admitted)
      /\ \A v \in known' : v \in known \/ (AnswersFor(r, v) /\ v \in Admitted)
      /\ \A v \in ToSet(residents) :
            \/ v \in ToSet(residents') \/ v \notin known'
               \/ r.victim = v \/ AnswersFor(r, v)
      /\ \A v \in SubAgents : tool[c].victim = v =>
            r.victim = v \/ v \in ToSet(residents') \/ v \in lost' \/ loaded'[v] = 0
  BY <1>1, <1>2, <1>4
<1>8. \A v \in SubAgents : AnswersFor(tool[c], v) =>
            AnswersFor(r, v) \/ v \in ToSet(residents') \/ v \in lost' \/ v \notin known'
  BY <1>4 DEF AnswersFor, t
<1>9. /\ ToSet(residents') \subseteq Near \cup lost'
      /\ r.slot => r.id \in Near \cup lost'
      /\ r.victim # None => r.victim \in Near \cup lost'
      /\ \A v \in SubAgents : Claims(r, loaded', known', v) => v \in Near \cup lost'
  BY <1>1, <1>2, <1>3, CallFacts DEF Claims
<1> QED BY <1>1, <1>3, <1>5, <1>6, <1>7, <1>8, <1>9, ToolStep

LEMMA CommitStep ==
    ASSUME ResidencyInv, NEW c \in ToolCalls, commit_slot(c)
    PROVE  ResidencyInv'
<1> DEFINE t == tool[c].id
<1>1. PICK p \in {"capacity", "send"} :
        /\ tool[c].pc \in {"commit", "found"} /\ UNCHANGED <<loaded, sess, known, lost>>
        /\ pending_slots' = pending_slots - 1
        /\ residents' = touch_resident(residents, t)
        /\ tool' = [tool EXCEPT ![c] = [tool[c] EXCEPT !.slot = FALSE, !.pc = p]]
  BY DEF commit_slot, At, AfterLoad
<1> DEFINE r == [tool[c] EXCEPT !.slot = FALSE, !.pc = p]
<1>2. /\ tool[c] \in ToolState /\ t \in SubAgents /\ tool[c].victim = None /\ tool[c].slot = TRUE
      /\ t \in Near
  <2>1. tool[c].pc \in SlotPcs /\ tool[c].pc \notin Evicting /\ tool[c].pc # "idle"
    BY <1>1 DEF SlotPcs, Evicting
  <2> QED BY <2>1, CallFacts
<1>3. r \in ToolState /\ r.pc = p /\ r.slot = FALSE /\ r.victim = None
  <2>1. p \in ToolPcs /\ p \notin SlotPcs /\ p \notin Evicting
    BY DEF ToolPcs, SlotPcs, Evicting
  <2> QED BY <1>2, <2>1 DEF ToolState
<1>4. tool' = [tool EXCEPT ![c] = r]
  BY <1>1
<1>5. \A v \in SubAgents : tool[c].victim = v \/ AnswersFor(tool[c], v) => v = t
  BY <1>2 DEF AnswersFor
<1> HIDE DEF r, t
<1>6. /\ pending_slots' = IF tool[c].slot THEN pending_slots - 1 ELSE pending_slots
      /\ r.pc \notin ClaimPcs /\ ~r.slot
  BY <1>1, <1>2, <1>3 DEF ClaimPcs
<1> QED BY <1>1, <1>2, <1>3, <1>4, <1>5, <1>6, TouchStep

\* A slot is given back with nothing loaded on it, and a call that returns
\* goes with its slot: of what is in its hands it loses sight.
LEMMA DropStep ==
    ASSUME ResidencyInv, NEW c \in ToolCalls, NEW r \in ToolState, tool' = [tool EXCEPT ![c] = r],
           UNCHANGED <<residents, loaded, sess, known>>,
           pending_slots' = IF tool[c].slot THEN pending_slots - 1 ELSE pending_slots,
           lost \subseteq lost', lost' \subseteq SubAgents,
           r.slot = FALSE, r.victim = None,
           \A v \in SubAgents : Claims(r, loaded, known, v) => v \in Near,
           \A v \in SubAgents : tool[c].victim = v \/ AnswersFor(tool[c], v) => v \in lost'
    PROVE  ResidencyInv'
<1>1. /\ residents' \in Seq(SubAgents) /\ IsInjective(residents')
      /\ known' \subseteq SubAgents
      /\ loaded' \in [SubAgents -> Nat] /\ sess' \in [SubAgents -> Seq(Session)]
      /\ tool[c].slot \in BOOLEAN
  BY CallFacts
<1>2. pending_slots' = IF r.slot = tool[c].slot THEN pending_slots
                       ELSE IF r.slot THEN pending_slots + 1 ELSE pending_slots - 1
  BY <1>1
<1>3. /\ \A v \in SubAgents : loaded'[v] # 0 => loaded[v] # 0 \/ (AnswersFor(r, v) /\ v \in Admitted)
      /\ \A v \in known' : v \in known \/ (AnswersFor(r, v) /\ v \in Admitted)
      /\ \A v \in ToSet(residents) :
            \/ v \in ToSet(residents') \/ v \notin known'
               \/ r.victim = v \/ AnswersFor(r, v)
  OBVIOUS
<1>4. /\ \A v \in SubAgents : tool[c].victim = v =>
            r.victim = v \/ v \in ToSet(residents') \/ v \in lost' \/ loaded'[v] = 0
      /\ \A v \in SubAgents : AnswersFor(tool[c], v) =>
            AnswersFor(r, v) \/ v \in ToSet(residents') \/ v \in lost' \/ v \notin known'
  OBVIOUS
<1>5. /\ ToSet(residents') \subseteq Near \cup lost'
      /\ r.slot => r.id \in Near \cup lost'
      /\ r.victim # None => r.victim \in Near \cup lost'
      /\ \A v \in SubAgents : Claims(r, loaded', known', v) => v \in Near \cup lost'
  BY CallFacts
<1> QED BY <1>1, <1>2, <1>3, <1>4, <1>5, ToolStep

\* The thread could not be created, or somebody else has loaded it.
LEMMA ReleaseStep ==
    ASSUME ResidencyInv, NEW c \in ToolCalls, release_pending_slot(c)
    PROVE  ResidencyInv'
<1> DEFINE t == tool[c].id
           touched == [tool[c] EXCEPT !.slot = FALSE, !.pc = "touch"]
<1>1. /\ tool[c].pc \in {"unslot", "undo"} /\ UNCHANGED <<residents, loaded, sess, known, lost>>
      /\ pending_slots' = pending_slots - 1
      /\ Return(c) \/ tool' = [tool EXCEPT ![c] = touched]
  BY DEF release_pending_slot, At
<1>2. /\ tool[c] \in ToolState /\ t \in SubAgents /\ tool[c].victim = None /\ tool[c].slot = TRUE
      /\ t \in Near /\ lost' \subseteq SubAgents
  <2>1. tool[c].pc \in SlotPcs /\ tool[c].pc \notin Evicting /\ tool[c].pc # "idle"
    BY <1>1 DEF SlotPcs, Evicting
  <2> QED BY <1>1, <2>1, CallFacts
<1>3. PICK r \in {NoTool, touched} : tool' = [tool EXCEPT ![c] = r]
  BY <1>1 DEF Return
<1>4. /\ r \in ToolState /\ r.slot = FALSE /\ r.victim = None
      /\ \A v \in SubAgents : Claims(r, loaded, known, v) => v \in Near
  <2>1. CASE r = NoTool
    BY <2>1, NoToolState DEF Claims
  <2>2. CASE r = touched
    <3>1. "touch" \in ToolPcs /\ "touch" \notin SlotPcs /\ "touch" \notin Evicting
      BY DEF ToolPcs, SlotPcs, Evicting
    <3>2. r \in ToolState /\ r.slot = FALSE /\ r.victim = None /\ r.id = t
      BY <1>2, <2>2, <3>1 DEF ToolState
    <3> QED BY <1>2, <3>2 DEF Claims
  <2> QED BY <1>3, <2>1, <2>2
<1>5. \A v \in SubAgents : tool[c].victim # v /\ ~AnswersFor(tool[c], v)
  BY <1>1, <1>2 DEF AnswersFor
<1>6. pending_slots' = IF tool[c].slot THEN pending_slots - 1 ELSE pending_slots
  BY <1>1, <1>2
<1> HIDE DEF touched, t
<1> QED BY <1>1, <1>2, <1>3, <1>4, <1>5, <1>6, DropStep

\* The thread could not be created: a reload asks whether somebody else did.
LEMMA FailStep ==
    ASSUME ResidencyInv, NEW c \in ToolCalls, create_fails(c) \/ loaded_by_other(c)
    PROVE  ResidencyInv'
<1>1. PICK p \in {"undo", "failed", "unslot"} :
        /\ tool[c].pc \in {"finalize", "failed"} /\ Goto(c, p)
        /\ UNCHANGED <<residents, pending_slots, loaded, sess, known, lost>>
  BY DEF create_fails, loaded_by_other, At
<1>2. sess' \in [SubAgents -> Seq(Session)]
  BY <1>1, CallFacts
<1>3. /\ p \in ToolPcs /\ p \in SlotPcs /\ p \notin Evicting
      /\ tool[c].pc \in SlotPcs /\ tool[c].pc \notin Evicting
  BY <1>1 DEF ToolPcs, SlotPcs, Evicting
<1> QED BY <1>1, <1>2, <1>3, GotoStep

\* The call is dropped: its victim, or the agent it has loaded, is let slip.
LEMMA DropCallStep ==
    ASSUME ResidencyInv, NEW c \in ToolCalls, drop_call(c)
    PROVE  ResidencyInv'
<1> DEFINE r == NoTool
<1>1. /\ tool[c].pc # "idle" /\ tool[c].pc \notin {"created", "release"}
      /\ UNCHANGED <<residents, loaded, sess, known>>
      /\ pending_slots' = IF tool[c].slot THEN pending_slots - 1 ELSE pending_slots
      /\ lost' = lost \cup (IF tool[c].victim # None THEN {tool[c].victim}
                            ELSE IF tool[c].pc = "commit" THEN {tool[c].id} ELSE {})
      /\ tool' = [tool EXCEPT ![c] = r]
  BY DEF drop_call, At, Return
<1>2. /\ tool[c] \in ToolState /\ tool[c].id \in SubAgents /\ lost \subseteq SubAgents
      /\ tool[c].victim \in SubAgents \cup {None}
      /\ tool[c].pc = "commit" => tool[c].victim = None
  BY <1>1, CallFacts, StateFacts DEF Evicting
<1>3. lost \subseteq lost' /\ lost' \subseteq SubAgents
  BY <1>1, <1>2
<1>4. \A v \in SubAgents : tool[c].victim = v \/ AnswersFor(tool[c], v) => v \in lost'
  BY <1>1, <1>2 DEF AnswersFor
<1>5. /\ r \in ToolState /\ r.slot = FALSE /\ r.victim = None
      /\ \A v \in SubAgents : Claims(r, loaded, known, v) => v \in Near
  BY NoToolState DEF Claims
<1> HIDE DEF r
<1> QED BY <1>1, <1>3, <1>4, <1>5, DropStep

\* The message is checked and sent.
LEMMA SendStep ==
    ASSUME ResidencyInv, NEW c \in ToolCalls,
           ensure_execution_capacity_for_op(c) \/ send_op(c) \/ submit(c)
    PROVE  ResidencyInv'
<1>0. sess \in [SubAgents -> Seq(Session)]
  BY CallFacts
<1>1. CASE ensure_execution_capacity_for_op(c)
  <2>1. /\ tool[c].pc = "capacity" /\ (Goto(c, "send") \/ Return(c))
        /\ UNCHANGED <<residents, pending_slots, loaded, sess, known, lost>>
    BY <1>1 DEF ensure_execution_capacity_for_op, At
  <2>2. /\ "send" \in ToolPcs /\ "send" \notin SlotPcs /\ "send" \notin Evicting
        /\ tool[c].pc \notin SlotPcs /\ tool[c].pc \notin Evicting
        /\ sess' \in [SubAgents -> Seq(Session)]
    BY <1>0, <2>1 DEF ToolPcs, SlotPcs, Evicting
  <2>3. CASE Goto(c, "send")
    BY <2>1, <2>2, <2>3, GotoStep
  <2>4. CASE Return(c)
    <3>1. tool[c].pc \notin SlotPcs \cup Evicting
      BY <2>2
    <3> QED BY <2>1, <2>2, <2>4, <3>1, ReturnStep
  <2> QED BY <2>1, <2>3, <2>4
<1>2. CASE send_op(c)
  <2> DEFINE r == [tool[c] EXCEPT !.pc = "submit", !.at = loaded[tool[c].id]]
  <2>1. /\ tool[c].pc = "send" /\ (tool' = [tool EXCEPT ![c] = r] \/ Return(c))
        /\ UNCHANGED <<residents, pending_slots, loaded, sess, known, lost>>
    BY <1>2 DEF send_op, At
  <2>2. /\ tool[c].pc \notin SlotPcs /\ tool[c].pc \notin Evicting
        /\ tool[c].pc \notin SlotPcs \cup Evicting
        /\ sess' \in [SubAgents -> Seq(Session)]
    BY <1>0, <2>1 DEF SlotPcs, Evicting
  <2>3. /\ tool[c] \in ToolState /\ tool[c].id \in SubAgents /\ loaded \in [SubAgents -> Nat]
        /\ tool[c].victim = None /\ tool[c].slot = FALSE
    BY <2>1, <2>2, CallFacts
  <2>4. CASE tool' = [tool EXCEPT ![c] = r]
    <3>1. /\ r \in ToolState /\ r.pc = "submit" /\ r.slot = FALSE /\ r.victim = None
      BY <2>3 DEF ToolState, ToolPcs, SlotPcs, Evicting
    <3>2. \A v \in SubAgents : tool[c].victim # v /\ ~AnswersFor(tool[c], v)
      BY <2>1, <2>3 DEF AnswersFor
    <3> HIDE DEF r
    <3> QED BY <2>1, <2>2, <2>3, <2>4, <3>1, <3>2, QuietStep DEF Claims
  <2>5. CASE Return(c)
    BY <2>1, <2>2, <2>5, ReturnStep
  <2> QED BY <2>1, <2>4, <2>5
<1>3. CASE submit(c)
  <2> DEFINE t == tool[c].id
             i == tool[c].at
             op == IF tool[c].kind = "spawn" THEN "task" ELSE tool[c].kind
  <2>1. /\ tool[c].pc = "submit" /\ UNCHANGED <<residents, pending_slots, loaded, known, lost>>
        /\ \/ Return(c) /\ sess' = [sess EXCEPT ![t][i].queue = Append(@, op)]
           \/ Goto(c, "died") /\ sess' = sess
    BY <1>3 DEF submit, At
  <2>2. /\ tool[c].pc \notin SlotPcs /\ tool[c].pc \notin Evicting
        /\ tool[c].pc \notin SlotPcs \cup Evicting
        /\ "died" \in ToolPcs /\ "died" \notin SlotPcs /\ "died" \notin Evicting
    BY <2>1 DEF SlotPcs, Evicting, ToolPcs
  <2>3. t \in SubAgents /\ tool[c] \in ToolState
    BY <2>1, CallFacts
  <2>4. op \in Ops
    <3>1. tool[c].kind \in Kinds
      BY <2>3, StateFacts
    <3> QED BY <3>1 DEF Kinds, Ops
  <2> HIDE DEF t, i, op
  <2>5. CASE Return(c) /\ sess' = [sess EXCEPT ![t][i].queue = Append(@, op)]
    <3>1. [sess EXCEPT ![t][i].queue = Append(@, op)] \in [SubAgents -> Seq(Session)]
      BY <1>0, <2>3, <2>4, QueueEntry
    <3>2. sess' \in [SubAgents -> Seq(Session)]
      BY <2>5, <3>1
    <3> QED BY <2>1, <2>2, <2>5, <3>2, ReturnStep
  <2>6. CASE Goto(c, "died") /\ sess' = sess
    <3>1. sess' \in [SubAgents -> Seq(Session)]
      BY <1>0, <2>6
    <3> QED BY <2>1, <2>2, <2>6, <3>1, GotoStep
  <2> QED BY <2>1, <2>5, <2>6
<1> QED BY <1>1, <1>2, <1>3

\* An agent that has died is removed, and then forgotten.
LEMMA ForgetStep ==
    ASSUME ResidencyInv, NEW c \in ToolCalls,
           remove_dead(c) \/ forget_dead(c) \/ release_dead(c)
    PROVE  ResidencyInv'
<1> DEFINE t == tool[c].id
           forgetting == [tool[c] EXCEPT !.pc = "forget"]
           releasing == [tool[c] EXCEPT !.pc = "release"]
<1>1. PICK r \in {NoTool, forgetting, releasing} :
        /\ tool[c].pc \in {"died", "forget", "release"} /\ UNCHANGED <<pending_slots, sess, lost>>
        /\ tool' = [tool EXCEPT ![c] = r]
        /\ \/ /\ r = forgetting /\ tool[c].pc = "died"
              /\ residents' = residents /\ known' = known /\ loaded' = [loaded EXCEPT ![t] = 0]
           \/ /\ r = releasing /\ tool[c].pc = "forget"
              /\ residents' = RemoveFirst(residents, t) /\ known' = known /\ loaded' = loaded
           \/ /\ r = NoTool /\ tool[c].pc = "release"
              /\ residents' = residents /\ known' = known \ {t} /\ loaded' = loaded
  BY DEF remove_dead, forget_dead, release_dead, At, Goto, Return
<1>2. /\ tool[c] \in ToolState /\ t \in SubAgents /\ tool[c].victim = None /\ tool[c].slot = FALSE
  <2>1. tool[c].pc \notin SlotPcs /\ tool[c].pc \notin Evicting /\ tool[c].pc # "idle"
    BY <1>1 DEF SlotPcs, Evicting
  <2> QED BY <2>1, CallFacts
<1>3. /\ r \in ToolState /\ r.slot = FALSE /\ r.victim = None
      /\ r = NoTool => r.pc = "idle"
      /\ r = forgetting => r.pc = "forget"
      /\ r = releasing => r.pc = "release" /\ r.id = t
  <2>1. NoTool.pc = "idle" /\ forgetting.pc = "forget" /\ releasing.pc = "release" /\ releasing.id = t
    BY <1>2 DEF NoTool, ToolState
  <2>2. CASE r = NoTool
    BY <2>1, <2>2, NoToolState
  <2>3. ASSUME NEW p \in {"forget", "release"}, r = [tool[c] EXCEPT !.pc = p]
        PROVE  r \in ToolState /\ r.slot = FALSE /\ r.victim = None /\ r.pc = p /\ r.id = t
    <3>1. p \in ToolPcs /\ p \notin SlotPcs /\ p \notin Evicting
      BY DEF ToolPcs, SlotPcs, Evicting
    <3> QED BY <1>2, <2>3, <3>1, GotoState
  <2> QED BY <1>1, <2>1, <2>2, <2>3
<1> HIDE DEF forgetting, releasing
<1>4. \A v \in SubAgents : tool[c].victim # v /\ (AnswersFor(tool[c], v) => v \notin known')
  BY <1>1, <1>2 DEF AnswersFor
<1>5. /\ residents' \in Seq(SubAgents) /\ IsInjective(residents')
      /\ ToSet(residents') \subseteq ToSet(residents)
      /\ \A v \in ToSet(residents) : v \in ToSet(residents') \/ AnswersFor(r, v)
  <2>1. residents \in Seq(SubAgents) /\ IsInjective(residents)
    BY CallFacts
  <2>2. /\ RemoveFirst(residents, t) \in Seq(SubAgents)
        /\ IsInjective(RemoveFirst(residents, t))
        /\ ToSet(RemoveFirst(residents, t)) = ToSet(residents) \ {t}
    BY <1>2, <2>1, RemoveFirstFacts
  <2> HIDE DEF t
  <2>3. r = releasing => AnswersFor(r, t)
    BY <1>3 DEF AnswersFor
  <2> QED BY <1>1, <2>1, <2>2, <2>3
<1>6. /\ loaded' \in [SubAgents -> Nat]
      /\ \A v \in SubAgents : loaded'[v] # 0 => loaded[v] # 0
  <2>1. loaded \in [SubAgents -> Nat]
    BY CallFacts
  <2> QED BY <1>1, <2>1
<1>7. /\ known' \subseteq SubAgents /\ known' \subseteq known
      /\ lost \subseteq lost' /\ lost' \subseteq SubAgents /\ sess' \in [SubAgents -> Seq(Session)]
  BY <1>1, CallFacts
<1> HIDE DEF t
<1>8. pending_slots' = IF r.slot = tool[c].slot THEN pending_slots
                       ELSE IF r.slot THEN pending_slots + 1 ELSE pending_slots - 1
  BY <1>1, <1>2, <1>3
<1>9. /\ \A v \in SubAgents : loaded'[v] # 0 => loaded[v] # 0 \/ (AnswersFor(r, v) /\ v \in Admitted)
      /\ \A v \in known' : v \in known \/ (AnswersFor(r, v) /\ v \in Admitted)
      /\ \A v \in ToSet(residents) :
            \/ v \in ToSet(residents') \/ v \notin known'
            \/ r.victim = v \/ AnswersFor(r, v)
      /\ \A v \in SubAgents : tool[c].victim = v =>
            r.victim = v \/ v \in ToSet(residents') \/ v \in lost' \/ loaded'[v] = 0
      /\ \A v \in SubAgents : AnswersFor(tool[c], v) =>
            AnswersFor(r, v) \/ v \in ToSet(residents') \/ v \in lost' \/ v \notin known'
  BY <1>4, <1>5, <1>6, <1>7
<1>10. /\ ToSet(residents') \subseteq Near \cup lost'
       /\ r.slot => r.id \in Near \cup lost'
       /\ r.victim # None => r.victim \in Near \cup lost'
  BY <1>3, <1>5, CallFacts
\* Loaded again while it was forgotten: somebody has sight of it.
<1>11. \A v \in SubAgents : Claims(r, loaded', known', v) => v \in Near \cup lost'
  <2> SUFFICES ASSUME NEW v \in SubAgents, Claims(r, loaded', known', v)
               PROVE  v \in Near \cup lost
    BY <1>1
  <2>1. v \in known' /\ loaded'[v] # 0
    BY <1>1, <1>3 DEF Claims
  <2> QED BY <1>6, <1>7, <2>1, KnownIsNear
<1> QED BY <1>1, <1>3, <1>5, <1>6, <1>7, <1>8, <1>9, <1>10, <1>11, ToolStep

-----------------------------------------------------------------------------
(* The sessions, and the invariant.                                        *)

\* What a submission or the end of a turn makes of a session is a session.
LEMMA HandledIsSession ==
    ASSUME NEW s \in Session, NEW op \in Ops
    PROVE  Handled(s, op) \in Session /\ Continue(s) \in Session
<1>1. /\ s.open \in BOOLEAN /\ s.turn \in BOOLEAN /\ s.ran \in BOOLEAN
      /\ s.queue \in Seq(Ops) /\ s.mail \in SUBSET {"task", "note"}
  BY DEF Session
<1>2. StartTurn(s) \in Session /\ EndTurn(s) \in Session
  BY <1>1 DEF StartTurn, EndTurn, Session
<1>3. Continue(s) \in Session
  BY <1>2 DEF Continue
<1>4. CASE op = "task"
  <2>1. [s EXCEPT !.mail = @ \cup {"task"}] \in Session
    BY <1>1 DEF Session
  <2> QED BY <1>2, <1>3, <1>4, <2>1 DEF Handled
<1>5. CASE op = "note"
  <2>1. [s EXCEPT !.mail = @ \cup {"note"}] \in Session
    BY <1>1 DEF Session
  <2> QED BY <1>3, <1>5, <2>1 DEF Handled
<1>6. CASE op = "interrupt"
  BY <1>3, <1>6 DEF Handled
<1>7. CASE op = "shutdown"
  <2> DEFINE u == IF s.turn THEN Continue(s) ELSE s
  <2>1. u \in Session /\ Handled(s, op) = [u EXCEPT !.open = FALSE, !.ran = FALSE, !.queue = <<>>]
    BY <1>3, <1>7 DEF Handled
  <2> HIDE DEF u
  <2>2. <<>> \in Seq(Ops)
    OBVIOUS
  <2>3. [u EXCEPT !.open = FALSE, !.ran = FALSE, !.queue = <<>>] \in Session
    BY <2>1, <2>2 DEF Session
  <2> QED BY <1>3, <2>1, <2>3
<1> QED BY <1>4, <1>5, <1>6, <1>7 DEF Ops

LEMMA SessionsStep ==
    ASSUME ResidencyInv, NEW t \in SubAgents, NEW i \in Incarnations(t),
           \/ submission_loop(t, i) \/ channel_closed(t, i)
           \/ on_task_finished(t, i) \/ get_pending_input(t, i)
    PROVE  ResidencyInv'
<1>1. sess \in [SubAgents -> Seq(Session)] /\ i \in 1 .. Len(sess[t])
  BY DEF ResidencyInv, ResidencyTypes, Incarnations
<1>2. sess[t] \in Seq(Session)
  BY <1>1
<1>3. sess[t][i] \in Session
  BY <1>1, <1>2
<1>4. sess[t][i].queue \in Seq(Ops)
  BY <1>3 DEF Session
<1>5. UNCHANGED <<residents, pending_slots, loaded, known, lost, tool>>
  BY DEF submission_loop, channel_closed, on_task_finished, get_pending_input
<1>6. PICK s \in Session : sess' = [sess EXCEPT ![t][i] = s]
  <2>1. CASE submission_loop(t, i)
    <3> DEFINE u == [sess[t][i] EXCEPT !.queue = Tail(@)]
               op == Head(sess[t][i].queue)
    <3>1. sess[t][i].queue # <<>> /\ sess' = [sess EXCEPT ![t][i] = Handled(u, op)]
      BY <2>1 DEF submission_loop, Becomes
    <3>2. op \in Ops /\ Tail(sess[t][i].queue) \in Seq(Ops)
      BY <1>4, <3>1
    <3>3. u \in Session
      BY <1>3, <3>2 DEF Session
    <3> HIDE DEF u, op
    <3> QED BY <3>1, <3>2, <3>3, HandledIsSession
  <2>2. CASE channel_closed(t, i)
    <3>1. "shutdown" \in Ops
      BY DEF Ops
    <3> QED BY <1>3, <2>2, <3>1, HandledIsSession DEF channel_closed, Becomes
  <2>3. CASE on_task_finished(t, i)
    <3>1. "shutdown" \in Ops
      BY DEF Ops
    <3> QED BY <1>3, <2>3, <3>1, HandledIsSession DEF on_task_finished, Becomes
  <2>4. CASE get_pending_input(t, i)
    <3> DEFINE u == [sess[t][i] EXCEPT !.mail = {}]
    <3>1. u \in Session
      BY <1>3 DEF Session
    <3>2. sess' = [sess EXCEPT ![t][i] = u]
      BY <2>4 DEF get_pending_input, Becomes
    <3> HIDE DEF u
    <3> QED BY <3>1, <3>2
  <2> QED BY <2>1, <2>2, <2>3, <2>4
<1>7. sess' \in [SubAgents -> Seq(Session)]
  BY <1>1, <1>6, SessionEntry
<1> QED BY <1>5, <1>7, SessionStep

LEMMA InitResidency ==
    ResidencyInit => ResidencyInv
<1> SUFFICES ASSUME ResidencyInit PROVE ResidencyInv
  OBVIOUS
<1>1. /\ residents = <<>> /\ pending_slots = 0 /\ known = {} /\ lost = {}
      /\ loaded = [t \in SubAgents |-> 0] /\ sess = [t \in SubAgents |-> <<>>]
      /\ tool = [c \in ToolCalls |-> NoTool]
  BY DEF ResidencyInit
<1>2. ResidencyTypes
  <2>1. residents \in Seq(SubAgents) /\ IsInjective(residents)
    BY <1>1 DEF IsInjective
  <2>2. loaded \in [SubAgents -> Nat] /\ sess \in [SubAgents -> Seq(Session)]
    BY <1>1
  <2>3. tool \in [ToolCalls -> ToolState]
    BY <1>1, NoToolState
  <2> QED BY <1>1, <2>1, <2>2, <2>3 DEF ResidencyTypes
<1>3. \A c \in ToolCalls : tool[c].slot = FALSE /\ tool[c].victim = None /\ tool[c].pc = "idle"
  BY <1>1, NoToolState
<1>4. SlotsCounted
  <2>1. SlotHolders = {}
    BY <1>3 DEF SlotHolders
  <2> QED BY <1>1, <2>1, FS_EmptySet DEF SlotsCounted
<1>5. TrackedByLoader
  BY <1>1 DEF TrackedByLoader
<1>6. CountedBounded
  <2>1. ToSet(residents) = {}
    BY <1>1 DEF ToSet
  <2>2. Admitted = {}
    BY <1>3, <2>1 DEF Admitted
  <2>3. Held = {}
    BY <1>3 DEF Held, HeldBy, Holds, Claims
  <2>4. Counted = {}
    BY <2>2, <2>3 DEF Counted
  <2>5. Cardinality(Counted) = 0
    BY <2>4, FS_EmptySet
  <2>6. Cardinality(ToolCalls) \in Nat /\ Cardinality(ToolCalls) # 0
    BY FS_CardinalityType, FS_EmptySet
  <2> QED BY <2>5, <2>6 DEF CountedBounded
<1> QED BY <1>2, <1>4, <1>5, <1>6 DEF ResidencyInv

\* Every step of every call and of every session keeps the invariant.
LEMMA ResidencyPreserved ==
    ResidencyInv /\ [ResidencyNext]_residency_vars => ResidencyInv'
<1> SUFFICES ASSUME ResidencyInv, [ResidencyNext]_residency_vars PROVE ResidencyInv'
  OBVIOUS
<1>1. ASSUME NEW c \in ToolCalls, CallStep(c) PROVE ResidencyInv'
  BY <1>1, EnsureStep, TouchLoadedStep, RetouchStep, ReserveStep, ScanStep, PopStep, LookStep, MailStep,
     ShutdownStep, FindStep, CreateStep, FileStep, CommitStep, FailStep, ReleaseStep,
     SendStep, ForgetStep
     DEF CallStep
<1>2. ASSUME NEW c \in ToolCalls, create_fails(c) \/ drop_call(c) PROVE ResidencyInv'
  BY <1>2, FailStep, DropCallStep
<1>3. ASSUME NEW c \in ToolCalls, NEW t \in SubAgents,
             \/ spawn_v2_agent(c, t) \/ interrupt_agent(c, t)
             \/ \E kind \in {"task", "note"} : message_tool(c, t, kind)
      PROVE  ResidencyInv'
  BY <1>3, BeginStep
<1>4. ASSUME NEW t \in SubAgents, NEW i \in Incarnations(t),
             \/ submission_loop(t, i) \/ channel_closed(t, i)
             \/ on_task_finished(t, i) \/ get_pending_input(t, i)
      PROVE  ResidencyInv'
  BY <1>4, SessionsStep
<1>5. CASE UNCHANGED residency_vars
  <2>1. UNCHANGED <<residents, pending_slots, loaded, known, lost, tool>> /\ sess' = sess
    BY <1>5 DEF residency_vars
  <2>2. sess' \in [SubAgents -> Seq(Session)]
    BY <2>1 DEF ResidencyInv, ResidencyTypes
  <2> QED BY <2>1, <2>2, SessionStep
<1> QED BY <1>1, <1>2, <1>3, <1>4, <1>5 DEF ResidencyNext

\* The inductive invariant: the slots that are pending are the calls that
\* have one, a loaded agent is in somebody's sight, and the agents that are
\* admitted or in a call's hands are no more than the capacity and one for each
\* other call.
THEOREM ResidencyInvariant == ResidencySpec => []ResidencyInv
<1>1. ResidencyInit => ResidencyInv
  BY InitResidency
<1>2. ResidencyInv /\ [ResidencyNext]_residency_vars => ResidencyInv'
  BY ResidencyPreserved
<1> QED BY <1>1, <1>2, PTL DEF ResidencySpec

\* reserve_slot bounds the agents that are resident or promised a slot: above
\* the capacity there is at most one for each other call at work, and one for
\* each agent that a dropped call let slip.  For any number of calls and
\* agents, and any capacity.
THEOREM ResidencyBoundedHolds == ResidencySpec => []ResidencyBounded
<1>1. ResidencyInv => ResidencyBounded
  <2> SUFFICES ASSUME ResidencyInv PROVE ResidencyBounded
    OBVIOUS
  <2>1. /\ IsFiniteSet(Counted) /\ Cardinality(Counted) \in Nat
    BY NearFinite DEF ResidencyInv
  <2>2. IsFiniteSet(lost) /\ Cardinality(lost) \in Nat
    BY FS_Subset, FS_CardinalityType DEF ResidencyInv, ResidencyTypes
  <2>3. Cardinality(Counted) <= Capacity + Cardinality(ToolCalls) - 1
    BY DEF ResidencyInv, CountedBounded
  <2>4. Admitted \subseteq Counted \cup lost
    BY DEF Counted
  <2> DEFINE A == Counted
             L == lost
  <2> HIDE DEF A, L
  <2>5. /\ IsFiniteSet(A \cup L)
        /\ Cardinality(A \cup L) = Cardinality(A) + Cardinality(L) - Cardinality(A \cap L)
    BY <2>1, <2>2, FS_Union DEF A, L
  <2>6. Cardinality(A \cap L) \in Nat
    <3>1. IsFiniteSet(A \cap L)
      BY <2>2, FS_Subset DEF L
    <3> QED BY <3>1, FS_CardinalityType
  <2>7. Cardinality(Admitted) <= Cardinality(A \cup L) /\ Cardinality(Admitted) \in Nat
    BY <2>4, <2>5, FS_Subset, FS_CardinalityType DEF A, L
  <2>8. Cardinality(ToolCalls) \in Nat /\ Cardinality(A \cup L) \in Nat
    BY <2>5, FS_CardinalityType
  <2> QED BY <2>1, <2>2, <2>3, <2>5, <2>6, <2>7, <2>8 DEF ResidencyBounded, A, L
<1> QED BY <1>1, ResidencyInvariant, PTL

\* A loaded agent that can be addressed is resident, in an evictor's hands or
\* with its loader, unless a dropped call let it slip: however the calls of the
\* other agents evict, load, remove and forget it in the meantime.
THEOREM LoadedIsTrackedHolds == ResidencySpec => []LoadedIsTracked
<1>1. ResidencyInv => LoadedIsTracked
  <2> SUFFICES ASSUME ResidencyInv, NEW t \in known, loaded[t] # 0
               PROVE  \/ Contains(residents, t) \/ t \in lost
                      \/ \E c \in ToolCalls : tool[c].victim = t
                      \/ \E c \in ToolCalls : tool[c].id = t /\ (tool[c].slot \/ At(c, "release"))
    BY DEF LoadedIsTracked
  <2>1. \/ t \in ToSet(residents) \/ t \in lost
        \/ \E c \in ToolCalls : tool[c].victim = t
        \/ \E c \in ToolCalls : AnswersFor(tool[c], t)
    BY DEF ResidencyInv, TrackedByLoader
  <2>2. t \in ToSet(residents) => Contains(residents, t)
    BY DEF ToSet, Contains, ResidencyInv, ResidencyTypes
  <2>3. ASSUME NEW c \in ToolCalls, AnswersFor(tool[c], t)
        PROVE  tool[c].id = t /\ (tool[c].slot \/ At(c, "release"))
    <3>1. tool[c] \in ToolState
      BY DEF ResidencyInv, ResidencyTypes
    <3> QED BY <2>3, <3>1, StateFacts DEF AnswersFor, SlotPcs, At
  <2> QED BY <2>1, <2>2, <2>3
<1> QED BY <1>1, ResidencyInvariant, PTL
=============================================================================
