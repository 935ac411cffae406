------------------------ MODULE NetworkApprovalProofs ------------------------
(***************************************************************************)
(* TLAPS proofs about NetworkApproval, for any requests, hosts, calls and  *)
(* environments.                                                           *)
(*                                                                         *)
(* The table of pending approvals and the requests have to agree in both   *)
(* directions: an owner is the request in the table, and the request in    *)
(* the table is an owner or was dropped.  What the caches of a host say    *)
(* then follows from the steps its owner has left.                         *)
(***************************************************************************)
EXTENDS NetworkApproval, TLAPS

\* What an owner may have left to do: the rest of one of the plans, named after
\* its first step.
ToUndeny == <<"undeny", "approve", "set", "notify", "remove">>
ToApprove == <<"approve", "set", "notify", "remove">>
ToUserUnapprove == <<"user", "unapprove", "deny", "set", "notify", "remove">>
ToUnapprove == <<"unapprove", "deny", "set", "notify", "remove">>
ToDeny == <<"deny", "set", "notify", "remove">>
ToUser == <<"user", "set", "notify", "remove">>
ToPolicy == <<"policy", "set", "notify", "remove">>
ToSet == <<"set", "notify", "remove">>
ToNotify == <<"notify", "remove">>
ToRemove == <<"remove">>
ToSetPolicy == <<"set", "notify", "remove", "policy">>
ToNotifyPolicy == <<"notify", "remove", "policy">>
ToRemovePolicy == <<"remove", "policy">>
ToLastPolicy == <<"policy">>

Todos ==
    {ToUndeny, ToApprove, ToUserUnapprove, ToUnapprove, ToDeny,
     ToUser, ToPolicy, ToSet, ToNotify, ToRemove,
     ToSetPolicy, ToNotifyPolicy, ToRemovePolicy, ToLastPolicy}

Has(todo, step) == \E i \in DOMAIN todo : todo[i] = step

\* The first step of each of them, and what is left after it.
LEMMA TodoSplit ==
    /\ Head(ToUndeny) = "undeny" /\ Tail(ToUndeny) = ToApprove
    /\ Head(ToApprove) = "approve" /\ Tail(ToApprove) = ToSet
    /\ Head(ToUserUnapprove) = "user" /\ Tail(ToUserUnapprove) = ToUnapprove
    /\ Head(ToUnapprove) = "unapprove" /\ Tail(ToUnapprove) = ToDeny
    /\ Head(ToDeny) = "deny" /\ Tail(ToDeny) = ToSet
    /\ Head(ToUser) = "user" /\ Tail(ToUser) = ToSet
    /\ Head(ToPolicy) = "policy" /\ Tail(ToPolicy) = ToSet
    /\ Head(ToSet) = "set" /\ Tail(ToSet) = ToNotify
    /\ Head(ToNotify) = "notify" /\ Tail(ToNotify) = ToRemove
    /\ Head(ToRemove) = "remove" /\ Tail(ToRemove) = <<>>
    /\ Head(ToSetPolicy) = "set" /\ Tail(ToSetPolicy) = ToNotifyPolicy
    /\ Head(ToNotifyPolicy) = "notify" /\ Tail(ToNotifyPolicy) = ToRemovePolicy
    /\ Head(ToRemovePolicy) = "remove" /\ Tail(ToRemovePolicy) = ToLastPolicy
    /\ Head(ToLastPolicy) = "policy" /\ Tail(ToLastPolicy) = <<>>
  BY DEF ToUndeny, ToApprove, ToUserUnapprove, ToUnapprove, ToDeny, ToUser,
         ToPolicy, ToSet, ToNotify, ToRemove, ToSetPolicy, ToNotifyPolicy, ToRemovePolicy, ToLastPolicy

\* All the steps of each of them.
LEMMA TodoHas ==
    /\ \A s : ~Has(<<>>, s)
    /\ \A s : Has(ToUndeny, s) <=>
             s = "undeny" \/ s = "approve" \/ s = "set" \/ s = "notify" \/ s = "remove"
    /\ \A s : Has(ToApprove, s) <=>
             s = "approve" \/ s = "set" \/ s = "notify" \/ s = "remove"
    /\ \A s : Has(ToUserUnapprove, s) <=>
             s = "user" \/ s = "unapprove" \/ s = "deny" \/ s = "set" \/ s = "notify" \/ s = "remove"
    /\ \A s : Has(ToUnapprove, s) <=>
             s = "unapprove" \/ s = "deny" \/ s = "set" \/ s = "notify" \/ s = "remove"
    /\ \A s : Has(ToDeny, s) <=>
             s = "deny" \/ s = "set" \/ s = "notify" \/ s = "remove"
    /\ \A s : Has(ToUser, s) <=>
             s = "user" \/ s = "set" \/ s = "notify" \/ s = "remove"
    /\ \A s : Has(ToPolicy, s) <=>
             s = "policy" \/ s = "set" \/ s = "notify" \/ s = "remove"
    /\ \A s : Has(ToSet, s) <=> s = "set" \/ s = "notify" \/ s = "remove"
    /\ \A s : Has(ToNotify, s) <=> s = "notify" \/ s = "remove"
    /\ \A s : Has(ToRemove, s) <=> s = "remove"
    /\ \A s : Has(ToSetPolicy, s) <=>
             s = "set" \/ s = "notify" \/ s = "remove" \/ s = "policy"
    /\ \A s : Has(ToNotifyPolicy, s) <=> s = "notify" \/ s = "remove" \/ s = "policy"
    /\ \A s : Has(ToRemovePolicy, s) <=> s = "remove" \/ s = "policy"
    /\ \A s : Has(ToLastPolicy, s) <=> s = "policy"
<1>1. \A s : ~Has(<<>>, s)
  BY DEF Has
<1>2. \A s : Has(ToUndeny, s) <=>
              s = "undeny" \/ s = "approve" \/ s = "set" \/ s = "notify" \/ s = "remove"
  BY DEF Has, ToUndeny
<1>3. \A s : Has(ToApprove, s) <=>
              s = "approve" \/ s = "set" \/ s = "notify" \/ s = "remove"
  BY DEF Has, ToApprove
<1>4. \A s : Has(ToUserUnapprove, s) <=>
              s = "user" \/ s = "unapprove" \/ s = "deny" \/ s = "set" \/ s = "notify" \/ s = "remove"
  BY DEF Has, ToUserUnapprove
<1>5. \A s : Has(ToUnapprove, s) <=>
              s = "unapprove" \/ s = "deny" \/ s = "set" \/ s = "notify" \/ s = "remove"
  BY DEF Has, ToUnapprove
<1>6. \A s : Has(ToDeny, s) <=>
              s = "deny" \/ s = "set" \/ s = "notify" \/ s = "remove"
  BY DEF Has, ToDeny
<1>7. \A s : Has(ToUser, s) <=>
              s = "user" \/ s = "set" \/ s = "notify" \/ s = "remove"
  BY DEF Has, ToUser
<1>8. \A s : Has(ToPolicy, s) <=>
              s = "policy" \/ s = "set" \/ s = "notify" \/ s = "remove"
  BY DEF Has, ToPolicy
<1>9. \A s : Has(ToSet, s) <=> s = "set" \/ s = "notify" \/ s = "remove"
  BY DEF Has, ToSet
<1>10. \A s : Has(ToNotify, s) <=> s = "notify" \/ s = "remove"
  BY DEF Has, ToNotify
<1>11. \A s : Has(ToRemove, s) <=> s = "remove"
  BY DEF Has, ToRemove
<1>12. \A s : Has(ToSetPolicy, s) <=>
              s = "set" \/ s = "notify" \/ s = "remove" \/ s = "policy"
  BY DEF Has, ToSetPolicy
<1>13. \A s : Has(ToNotifyPolicy, s) <=> s = "notify" \/ s = "remove" \/ s = "policy"
  BY DEF Has, ToNotifyPolicy
<1>14. \A s : Has(ToRemovePolicy, s) <=> s = "remove" \/ s = "policy"
  BY DEF Has, ToRemovePolicy
<1>15. \A s : Has(ToLastPolicy, s) <=> s = "policy"
  BY DEF Has, ToLastPolicy
<1>16. QED
  BY <1>1, <1>2, <1>3, <1>4, <1>5, <1>6, <1>7, <1>8, <1>9, <1>10, <1>11, <1>12, <1>13, <1>14, <1>15

\* The order of the steps in the plans.
LEMMA TodoSteps ==
    ASSUME NEW todo \in Todos
    PROVE  /\ Tail(todo) \in Todos \cup {<<>>}
           /\ \A s : Has(todo, s) <=> s = Head(todo) \/ Has(Tail(todo), s)
           /\ Has(todo, "remove") \/ Head(todo) = "policy"
           /\ Has(todo, "approve") \/ Has(todo, "deny") => Has(todo, "remove")
           /\ Head(todo) = "remove" => \A s \in {"remove", "approve", "deny"} : ~Has(Tail(todo), s)
           /\ Head(todo) = "undeny" => Has(todo, "approve")
           /\ Head(todo) = "unapprove" => Has(todo, "deny")
           /\ Head(todo) = "approve" => ~Has(Tail(todo), "approve") /\ ~Has(todo, "undeny")
           /\ Head(todo) = "deny" => ~Has(Tail(todo), "deny") /\ ~Has(todo, "unapprove")
           /\ ~(Has(todo, "approve") /\ Has(todo, "deny"))
<1>1. CASE todo = ToUndeny
  BY <1>1, TodoSplit, TodoHas DEF Todos
<1>2. CASE todo = ToApprove
  BY <1>2, TodoSplit, TodoHas DEF Todos
<1>3. CASE todo = ToUserUnapprove
  BY <1>3, TodoSplit, TodoHas DEF Todos
<1>4. CASE todo = ToUnapprove
  BY <1>4, TodoSplit, TodoHas DEF Todos
<1>5. CASE todo = ToDeny
  BY <1>5, TodoSplit, TodoHas DEF Todos
<1>6. CASE todo = ToUser
  BY <1>6, TodoSplit, TodoHas DEF Todos
<1>7. CASE todo = ToPolicy
  BY <1>7, TodoSplit, TodoHas DEF Todos
<1>8. CASE todo = ToSet
  BY <1>8, TodoSplit, TodoHas DEF Todos
<1>9. CASE todo = ToNotify
  BY <1>9, TodoSplit, TodoHas DEF Todos
<1>10. CASE todo = ToRemove
  BY <1>10, TodoSplit, TodoHas DEF Todos
<1>11. CASE todo = ToSetPolicy
  BY <1>11, TodoSplit, TodoHas DEF Todos
<1>12. CASE todo = ToNotifyPolicy
  BY <1>12, TodoSplit, TodoHas DEF Todos
<1>13. CASE todo = ToRemovePolicy
  BY <1>13, TodoSplit, TodoHas DEF Todos
<1>14. CASE todo = ToLastPolicy
  BY <1>14, TodoSplit, TodoHas DEF Todos
<1>15. QED
  BY <1>1, <1>2, <1>3, <1>4, <1>5, <1>6, <1>7, <1>8, <1>9, <1>10, <1>11, <1>12, <1>13, <1>14 DEF Todos

-----------------------------------------------------------------------------
(* The inductive invariant.                                                *)

Request ==
    [pc : Pcs, env : Envs \cup {NoEnv}, key : Keys \cup {NoKey}, call : Calls \cup {NoCall},
     turn : BOOLEAN, of : Requests \cup {NoRequest}, verdict : Decisions,
     todo : Todos \cup {<<>>}]

\* A request about to look at the tables, one that waits and one that decides.
Looking == {"denied", "approved", "pending"}
Waiting == {"subscribe", "look", "await"}
Asking == {"judge", "ask", "prompted"}

Types ==
    /\ active \subseteq Calls /\ finished \subseteq Calls
    /\ outcome \in [Calls -> {"none", "user", "policy"}]
    /\ blamed \in [Observers -> Calls \cup {NoCall}]
    /\ turn \in BOOLEAN
    /\ prompts \in [Keys -> Requests \cup {NoRequest}]
    /\ pending \in [Keys -> Requests \cup {NoRequest}]
    /\ decision \in [Requests -> Decisions]
    /\ approved \subseteq Keys /\ denied \subseteq Keys
    /\ lastAnswer \in [Keys -> {"none", "allow", "deny"}]
    /\ req \in [Requests -> Request]

\* Where a request is tells whether it has a key and whose approval it waits
\* for; a call it belongs to has registered.
Placed(r) ==
    /\ req[r].pc \in {"new", "turn"} \cup Looking => req[r].of = NoRequest
    /\ req[r].pc \in Waiting => req[r].of \in Requests \ {r}
    /\ req[r].pc \in Looking \cup Waiting \cup Asking \cup {"act"} => req[r].key \in Keys
    /\ req[r].pc \in Asking \cup {"act"} => req[r].of = r
    /\ req[r].pc = "act" => req[r].todo \in Todos
    /\ req[r].call \in active \cup finished \cup {NoCall}

\* The calls of two registrations are different.
CallsOnce == active \cap finished = {}

\* Still has its entry in the table.
Holds(r) ==
    \/ req[r].pc \in Asking
    \/ req[r].pc = "act" /\ Has(req[r].todo, "remove")

OwnerIsInTable == \A r \in Requests : Holds(r) => pending[req[r].key] = r

TableHasOwner(k) ==
    pending[k] # NoRequest =>
        \/ req[pending[k]].pc = "dropped"
        \/ Holds(pending[k]) /\ req[pending[k]].key = k

PromptHasOwner(k) ==
    prompts[k] # NoRequest =>
        \/ req[prompts[k]].pc = "dropped"
        \/ req[prompts[k]].pc = "prompted" /\ req[prompts[k]].key = k

\* The caches of a host say what the user last answered for the session.
Settled(k) ==
    /\ k \in approved <=> lastAnswer[k] = "allow"
    /\ k \in denied <=> lastAnswer[k] = "deny"

\* They do so also while an owner is asking, and while it acts they will when
\* it has taken the steps it has left.
CacheFollows(k) ==
    /\ pending[k] = NoRequest \/ req[pending[k]].pc \in Asking => Settled(k)
    /\ pending[k] # NoRequest /\ req[pending[k]].pc = "act" =>
        LET todo == req[pending[k]].todo IN
        /\ Has(todo, "approve") => /\ lastAnswer[k] = "allow"
                                   /\ Has(todo, "undeny") \/ k \notin denied
        /\ Has(todo, "deny") => /\ lastAnswer[k] = "deny"
                                /\ Has(todo, "unapprove") \/ k \notin approved
        /\ ~Has(todo, "approve") /\ ~Has(todo, "deny") => Settled(k)

\* An owner that acts on a denial has recorded it, or is going to.
DenialFollows(r) ==
    req[r].call \in active /\ req[r].of = r =>
        /\ req[r].pc = "refused" => outcome[req[r].call] # "none"
        /\ req[r].pc = "act" /\ req[r].verdict = "deny" =>
             \/ outcome[req[r].call] # "none"
             \/ Has(req[r].todo, "user") \/ Has(req[r].todo, "policy")
        /\ req[r].pc = "act" => req[r].verdict \in {"allow", "deny"}

IInv ==
    /\ Types /\ CallsOnce /\ OwnerIsInTable
    /\ \A r \in Requests : Placed(r) /\ DenialFollows(r)
    /\ \A k \in Keys : TableHasOwner(k) /\ PromptHasOwner(k) /\ CacheFollows(k)

USE ApprovalConstants

LEMMA InitIInv == Init => IInv
  BY DEF Init, NewRequest, IInv, Types, Request, Pcs, Decisions, CallsOnce, OwnerIsInTable, Placed,
         Holds, DenialFollows, TableHasOwner, PromptHasOwner, CacheFollows, Settled, Looking,
         Waiting, Asking

-----------------------------------------------------------------------------
(* Steps of one request that leave the tables alone.                       *)

tables == <<active, finished, outcome, blamed, turn, prompts, pending, decision, approved,
            denied, lastAnswer>>

\* The request is dropped, or is no owner before and after, or is an owner
\* that goes on asking or has an answer that is not for the session.
LEMMA Moved ==
    ASSUME IInv, NEW r \in Requests, UNCHANGED tables,
           req' \in [Requests -> Request], \A s \in Requests \ {r} : req'[s] = req[s],
           Placed(r)', DenialFollows(r)',
           \/ req'[r].pc = "dropped"
           \/ req[r].pc # "dropped" /\ ~Holds(r) /\ ~Holds(r)'
           \/ /\ req[r].pc \in {"judge", "ask"} /\ req'[r].key = req[r].key /\ Holds(r)'
              /\ req'[r].pc # "prompted"
              /\ req'[r].pc = "act" => ~Has(req'[r].todo, "approve") /\ ~Has(req'[r].todo, "deny")
    PROVE  IInv'
<1>1. Types' /\ CallsOnce'
  BY DEF IInv, Types, CallsOnce, tables
<1>2. \A s \in Requests : Placed(s)' /\ DenialFollows(s)'
  BY DEF IInv, Placed, DenialFollows, tables
<1>3. \A s \in Requests \ {r} : Holds(s)' <=> Holds(s)
  BY DEF Holds
<1>4. OwnerIsInTable'
  BY <1>3 DEF IInv, OwnerIsInTable, Holds, tables, Asking
<1>5. \A k \in Keys : TableHasOwner(k)'
  BY <1>3 DEF IInv, Types, TableHasOwner, Holds, tables, Asking
<1>6. \A k \in Keys : PromptHasOwner(k)'
  BY DEF IInv, Types, PromptHasOwner, Holds, tables, Asking
<1>7. \A k \in Keys : CacheFollows(k)'
  BY DEF IInv, Types, TableHasOwner, CacheFollows, Settled, Holds, tables, Asking
<1>8. QED
  BY <1>1, <1>2, <1>4, <1>5, <1>6, <1>7 DEF IInv

\* The single active call is one.
LEMMA SingleIsActive == SingleCall # NoCall => SingleCall \in active
  BY DEF SingleCall

LEMMA Attribute == ASSUME IInv, NEW r \in Requests, attribute(r) PROVE IInv'
<1>1. UNCHANGED tables /\ \A s \in Requests \ {r} : req'[s] = req[s]
  BY DEF attribute, callVars, hostVars, tables, IInv, Types
<1>2. req' \in [Requests -> Request]
  BY SingleIsActive DEF attribute, IInv, Types, Request, Envs, Pcs
<1>3. Placed(r)' /\ DenialFollows(r)'
  BY <1>1, SingleIsActive DEF attribute, IInv, Types, Request, Placed, DenialFollows, Looking, Waiting, Asking,
         tables
<1>4. req[r].pc # "dropped" /\ ~Holds(r) /\ ~Holds(r)'
  BY DEF attribute, IInv, Types, Request, Holds, Asking
<1>5. QED
  BY <1>1, <1>2, <1>3, <1>4, Moved

LEMMA ActiveTurn == ASSUME IInv, NEW r \in Requests, active_turn_context(r) PROVE IInv'
<1>1. UNCHANGED tables /\ \A s \in Requests \ {r} : req'[s] = req[s]
  BY DEF active_turn_context, callVars, hostVars, tables, IInv, Types
<1>2. \A e \in Envs \ {NoEnv} : <<e, HostOf[r]>> \in Keys
  BY DEF Keys
<1>3. req' \in [Requests -> Request]
  BY <1>2 DEF active_turn_context, IInv, Types, Request, Envs, Pcs
<1>4. Placed(r)' /\ DenialFollows(r)'
  BY <1>1, <1>2 DEF active_turn_context, IInv, Types, Request, Envs, Placed, DenialFollows,
         Looking, Waiting, Asking, tables
<1>5. req[r].pc # "dropped" /\ ~Holds(r) /\ ~Holds(r)'
  BY DEF active_turn_context, IInv, Types, Request, Holds, Asking
<1>6. QED
  BY <1>1, <1>3, <1>4, <1>5, Moved

LEMMA Caches ==
    ASSUME IInv, NEW r \in Requests, checkDenied(r) \/ checkApproved(r) PROVE IInv'
<1>1. UNCHANGED tables /\ \A s \in Requests \ {r} : req'[s] = req[s]
  BY DEF checkDenied, checkApproved, callVars, hostVars, tables, IInv, Types
<1>2. req' \in [Requests -> Request]
  BY DEF checkDenied, checkApproved, IInv, Types, Request, Pcs
<1>3. Placed(r)' /\ DenialFollows(r)'
  BY <1>1 DEF checkDenied, checkApproved, IInv, Types, Request, Placed, DenialFollows,
         Looking, Waiting, Asking, tables
<1>4. req[r].pc # "dropped" /\ ~Holds(r) /\ ~Holds(r)'
  BY DEF checkDenied, checkApproved, IInv, Types, Request, Holds, Asking
<1>5. QED
  BY <1>1, <1>2, <1>3, <1>4, Moved

LEMMA Follow ==
    ASSUME IInv, NEW r \in Requests, subscribe(r) \/ look(r) \/ wait_for_decision(r) PROVE IInv'
<1>1. UNCHANGED tables /\ \A s \in Requests \ {r} : req'[s] = req[s]
  BY DEF subscribe, look, wait_for_decision, callVars, hostVars, tables, IInv, Types
<1>2. req' \in [Requests -> Request]
  BY DEF subscribe, look, wait_for_decision, Verdict, IInv, Types, Request, Pcs
<1>3. Placed(r)' /\ DenialFollows(r)'
  BY <1>1 DEF subscribe, look, wait_for_decision, Verdict, IInv, Types, Request, Placed, DenialFollows,
         Looking, Waiting, Asking, tables
<1>4. req[r].pc # "dropped" /\ ~Holds(r) /\ ~Holds(r)'
  BY DEF subscribe, look, wait_for_decision, Verdict, IInv, Types, Request, Holds, Asking
<1>5. QED
  BY <1>1, <1>2, <1>3, <1>4, Moved

LEMMA Drop == ASSUME IInv, NEW r \in Requests, drop(r) PROVE IInv'
<1>1. UNCHANGED tables /\ \A s \in Requests \ {r} : req'[s] = req[s]
  BY DEF drop, callVars, hostVars, tables, IInv, Types
<1>2. req' \in [Requests -> Request] /\ req'[r].pc = "dropped"
  BY DEF drop, IInv, Types, Request, Pcs
<1>3. Placed(r)' /\ DenialFollows(r)'
  BY <1>1 DEF drop, IInv, Types, Request, Placed, DenialFollows, Looking, Waiting, Asking, tables
<1>4. QED
  BY <1>1, <1>2, <1>3, Moved

-----------------------------------------------------------------------------
(* The owner.                                                              *)

Ways == UserAnswers \cup GuardianAnswers \cup {"refused", "hook_allow", "hook_deny"}

\* What the plans have in common, and what those for the session do besides.
LEMMA PlanFacts ==
    ASSUME NEW way \in Ways
    PROVE  /\ Plan(way).verdict \in {"allow", "deny"} /\ Plan(way).todo \in Todos
           /\ Has(Plan(way).todo, "remove")
           /\ Plan(way).verdict = "deny" =>
                Has(Plan(way).todo, "user") \/ Has(Plan(way).todo, "policy")
           /\ Has(Plan(way).todo, "approve") <=> way = "session"
           /\ Has(Plan(way).todo, "undeny") <=> way = "session"
           /\ Has(Plan(way).todo, "deny") <=> way = "session_deny"
           /\ Has(Plan(way).todo, "unapprove") <=> way = "session_deny"
<1>1. /\ Plan("refused").verdict = "deny" /\ Plan("refused").todo = ToSetPolicy
      /\ Plan("session").verdict = "allow" /\ Plan("session").todo = ToUndeny
      /\ Plan("session_deny").verdict = "deny" /\ Plan("session_deny").todo = ToUserUnapprove
      /\ Plan("denied").verdict = "deny" /\ Plan("denied").todo = ToUser
  BY DEF Plan, Plans, ToSetPolicy, ToUndeny, ToUserUnapprove, ToUser
<1>2. /\ Plan("hook_allow").verdict = "allow" /\ Plan("hook_allow").todo = ToSet
      /\ Plan("approved").verdict = "allow" /\ Plan("approved").todo = ToSet
      /\ Plan("hook_deny").verdict = "deny" /\ Plan("hook_deny").todo = ToPolicy
      /\ Plan("guardian_denied").verdict = "deny" /\ Plan("guardian_denied").todo = ToPolicy
  BY DEF Plan, Plans, ToSet, ToPolicy
<1>3. CASE way = "refused"
  BY <1>1, <1>3, TodoHas DEF Todos
<1>4. CASE way = "session"
  BY <1>1, <1>4, TodoHas DEF Todos
<1>5. CASE way = "session_deny"
  BY <1>1, <1>5, TodoHas DEF Todos
<1>6. CASE way = "denied"
  BY <1>1, <1>6, TodoHas DEF Todos
<1>7. CASE way = "hook_allow"
  BY <1>2, <1>7, TodoHas DEF Todos
<1>8. CASE way = "approved"
  BY <1>2, <1>8, TodoHas DEF Todos
<1>9. CASE way = "hook_deny"
  BY <1>2, <1>9, TodoHas DEF Todos
<1>10. CASE way = "guardian_denied"
  BY <1>2, <1>10, TodoHas DEF Todos
<1>11. way \in {"refused", "session", "session_deny", "denied", "hook_allow", "approved",
                "hook_deny", "guardian_denied"}
  BY DEF Ways, UserAnswers, GuardianAnswers
<1>12. QED
  BY <1>3, <1>4, <1>5, <1>6, <1>7, <1>8, <1>9, <1>10, <1>11

\* A request with the plan of an answer.
LEMMA WithPlan ==
    ASSUME NEW q \in Request, NEW verdict \in Decisions, NEW todo \in Todos,
           NEW p, p = [q EXCEPT !.pc = "act", !.verdict = verdict, !.todo = todo]
    PROVE  /\ p \in Request
           /\ p.pc = "act" /\ p.verdict = verdict /\ p.todo = todo
           /\ p.key = q.key /\ p.of = q.of /\ p.call = q.call
  BY DEF Request, Pcs

\* An owner takes over the plan of an answer that is not for the session.
LEMMA Adopted ==
    ASSUME IInv, NEW r \in Requests, NEW way \in Ways \ {"session", "session_deny"},
           req[r].pc \in {"judge", "ask"}, adopt(r, way), UNCHANGED tables
    PROVE  IInv'
<1>1. \A s \in Requests \ {r} : req'[s] = req[s]
  BY DEF adopt, IInv, Types
<1>2. req' \in [Requests -> Request]
  <2>1. Plan(way).verdict \in Decisions /\ Plan(way).todo \in Todos
    BY PlanFacts DEF Decisions
  <2>2. req' = [req EXCEPT ![r] = [req[r] EXCEPT !.pc = "act", !.verdict = Plan(way).verdict,
                                                 !.todo = Plan(way).todo]]
    BY DEF adopt, IInv, Types
  <2>3. QED
    BY <2>1, <2>2, WithPlan DEF IInv, Types
<1>3. /\ req'[r].pc = "act" /\ req'[r].verdict = Plan(way).verdict
      /\ req'[r].todo = Plan(way).todo /\ req'[r].key = req[r].key
      /\ req'[r].of = req[r].of /\ req'[r].call = req[r].call
  BY DEF adopt, IInv, Types, Request
<1>4. Placed(r)' /\ DenialFollows(r)'
  BY <1>3, PlanFacts DEF IInv, Placed, DenialFollows, Looking, Waiting, Asking, tables
<1>5. Holds(r)' /\ ~Has(req'[r].todo, "approve") /\ ~Has(req'[r].todo, "deny")
  BY <1>3, PlanFacts DEF Holds
<1>6. QED
  BY <1>1, <1>2, <1>3, <1>4, <1>5, Moved

LEMMA Judge == ASSUME IInv, NEW r \in Requests, judge(r) PROVE IInv'
<1>1. UNCHANGED tables
  BY DEF judge, callVars, hostVars, tables
<1>2. CASE \E way \in {"refused", "hook_allow", "hook_deny"} : adopt(r, way)
  BY <1>1, <1>2, Adopted DEF judge, Ways
<1>3. CASE req' = [req EXCEPT ![r].pc = "ask"]
  <2>1. req' \in [Requests -> Request] /\ \A s \in Requests \ {r} : req'[s] = req[s]
    BY <1>3 DEF IInv, Types, Request, Pcs
  <2>2. Placed(r)' /\ DenialFollows(r)' /\ Holds(r)' /\ req'[r].key = req[r].key
    BY <1>1, <1>3 DEF judge, IInv, Types, Request, Placed, DenialFollows, Looking, Waiting, Asking,
           Holds, tables
  <2>3. QED
    BY <1>1, <1>3, <2>1, <2>2, Moved DEF judge, IInv, Types, Request
<1>4. QED
  BY <1>2, <1>3 DEF judge

LEMMA AskGuardian == ASSUME IInv, NEW r \in Requests, askGuardian(r) PROVE IInv'
<1>1. UNCHANGED tables
  BY DEF askGuardian, callVars, hostVars, tables
<1>2. QED
  BY <1>1, Adopted DEF askGuardian, Ways, GuardianAnswers

LEMMA Create == ASSUME IInv, NEW r \in Requests, get_or_create_pending_approval(r) PROVE IInv'
<1> DEFINE k == req[r].key
<1>0. /\ req[r].pc = "pending" /\ k \in Keys /\ req[r].of = NoRequest
      /\ UNCHANGED <<active, finished, outcome, blamed, turn, prompts, decision, approved, denied, lastAnswer>>
  BY DEF get_or_create_pending_approval, callVars, IInv, Placed, Looking
<1>1. CASE pending[k] # NoRequest
  <2>1. UNCHANGED tables /\ \A s \in Requests \ {r} : req'[s] = req[s]
    BY <1>0, <1>1 DEF get_or_create_pending_approval, tables, IInv, Types
  <2>2. req' \in [Requests -> Request]
    BY <1>0, <1>1 DEF get_or_create_pending_approval, IInv, Types, Request, Pcs
  <2>3. pending[k] # r
    BY <1>0, <1>1 DEF IInv, TableHasOwner, Holds, Asking
  <2>4. Placed(r)' /\ DenialFollows(r)'
    BY <1>0, <1>1, <2>1, <2>3 DEF get_or_create_pending_approval, IInv, Types, Request, Placed, DenialFollows,
           Looking, Waiting, Asking, tables
  <2>5. req[r].pc # "dropped" /\ ~Holds(r) /\ ~Holds(r)'
    BY <1>0, <1>1 DEF get_or_create_pending_approval, IInv, Types, Request, Holds, Asking
  <2>6. QED
    BY <2>1, <2>2, <2>4, <2>5, Moved
<1>2. CASE pending[k] = NoRequest
  <2>1. /\ pending' = [pending EXCEPT ![k] = r] /\ \A s \in Requests \ {r} : req'[s] = req[s]
        /\ req'[r].pc = "judge" /\ req'[r].of = r /\ req'[r].key = k /\ req'[r].call = req[r].call
    BY <1>0, <1>2 DEF get_or_create_pending_approval, IInv, Types, Request
  <2>2. Types' /\ CallsOnce'
    BY <1>0, <1>2 DEF get_or_create_pending_approval, IInv, Types, Request, Pcs, CallsOnce
  <2>3. \A s \in Requests : Placed(s)' /\ DenialFollows(s)'
    BY <1>0, <2>1 DEF IInv, Types, Placed, DenialFollows, Looking, Waiting, Asking
  <2>4. \A s \in Requests \ {r} : Holds(s)' <=> Holds(s)
    BY <2>1 DEF Holds
  <2>5. Holds(r)' /\ ~Holds(r)
    BY <1>0, <2>1 DEF Holds, Asking
  <2>6. OwnerIsInTable'
    BY <1>0, <1>2, <2>1, <2>4, <2>5 DEF IInv, Types, OwnerIsInTable
  <2>7. \A h \in Keys : TableHasOwner(h)' /\ PromptHasOwner(h)'
    BY <1>0, <1>2, <2>1, <2>4, <2>5 DEF IInv, Types, TableHasOwner, PromptHasOwner
  <2>8. \A h \in Keys : CacheFollows(h)'
    BY <1>0, <1>2, <2>1 DEF IInv, Types, TableHasOwner, Holds, CacheFollows, Settled, Asking
  <2>9. QED
    BY <2>2, <2>3, <2>6, <2>7, <2>8 DEF IInv
<1>3. QED
  BY <1>1, <1>2

\* The owner asks the user.
LEMMA Prompt == ASSUME IInv, NEW r \in Requests, request_command_approval(r) PROVE IInv'
<1> DEFINE k == req[r].key
<1>0. req[r].pc = "ask" /\ k \in Keys /\ pending[k] = r
  BY DEF request_command_approval, IInv, Placed, OwnerIsInTable, Holds, Asking
<1>1. CASE ~turn
  <2>1. UNCHANGED tables /\ adopt(r, "denied")
    BY <1>1 DEF request_command_approval, callVars, tables
  <2>2. QED
    BY <1>0, <2>1, Adopted DEF Ways, UserAnswers
<1>2. CASE turn
  <2>1. /\ prompts' = [prompts EXCEPT ![k] = r] /\ \A s \in Requests \ {r} : req'[s] = req[s]
        /\ req'[r].pc = "prompted" /\ req'[r].of = req[r].of /\ req'[r].key = k
        /\ req'[r].call = req[r].call
        /\ UNCHANGED <<active, finished, outcome, blamed, turn, pending, decision, approved, denied, lastAnswer>>
    BY <1>0, <1>2 DEF request_command_approval, IInv, Types, Request, callVars
  <2>2. Types' /\ CallsOnce'
    BY <1>0, <1>2, <2>1 DEF request_command_approval, IInv, Types, Request, Pcs, CallsOnce
  <2>3. \A s \in Requests : Placed(s)' /\ DenialFollows(s)'
    BY <1>0, <2>1 DEF IInv, Types, Placed, DenialFollows, Looking, Waiting, Asking
  <2>4. \A s \in Requests : Holds(s)' <=> Holds(s)
    BY <1>0, <2>1 DEF Holds, Asking
  <2>5. OwnerIsInTable'
    BY <1>0, <2>1, <2>4 DEF IInv, Types, OwnerIsInTable
  <2>6. \A h \in Keys : TableHasOwner(h)' /\ PromptHasOwner(h)'
    BY <1>0, <2>1, <2>4 DEF IInv, Types, TableHasOwner, PromptHasOwner
  <2>7. \A h \in Keys : CacheFollows(h)'
    BY <1>0, <2>1 DEF IInv, Types, TableHasOwner, CacheFollows, Settled, Asking
  <2>8. QED
    BY <2>2, <2>3, <2>5, <2>6, <2>7 DEF IInv
<1>3. QED
  BY <1>1, <1>2 DEF IInv, Types

\* The user answers: a request that was asking takes over the plan, and the
\* host has a new answer for the session or keeps its last one.
LEMMA Answer ==
    ASSUME IInv, NEW k \in Keys, NEW way \in UserAnswers, answer(k, way)
    PROVE  IInv'
<1> DEFINE r == prompts[k]
<1>0. /\ r \in Requests /\ way \in Ways
      /\ prompts' = [prompts EXCEPT ![k] = NoRequest]
      /\ UNCHANGED <<active, finished, outcome, blamed, turn, pending, decision, approved, denied>>
  BY DEF answer, IInv, Types, callVars, Ways
<1>1. CASE req[r].pc = "dropped"
  <2>1. UNCHANGED <<req, lastAnswer>>
    BY <1>1 DEF answer
  <2>2. Types' /\ CallsOnce' /\ OwnerIsInTable'
    BY <1>0, <2>1 DEF IInv, Types, CallsOnce, OwnerIsInTable, Holds
  <2>3. \A s \in Requests : Placed(s)' /\ DenialFollows(s)'
    BY <1>0, <2>1 DEF IInv, Placed, DenialFollows
  <2>4. \A h \in Keys : TableHasOwner(h)' /\ PromptHasOwner(h)' /\ CacheFollows(h)'
    BY <1>0, <2>1 DEF IInv, Types, TableHasOwner, PromptHasOwner, CacheFollows, Settled, Holds
  <2>5. QED
    BY <2>2, <2>3, <2>4 DEF IInv
<1>2. CASE req[r].pc = "prompted"
  <2>1. /\ adopt(r, way) /\ lastAnswer' \in [Keys -> {"none", "allow", "deny"}]
        /\ \A h \in Keys \ {k} : lastAnswer'[h] = lastAnswer[h]
        /\ lastAnswer'[k] = IF way = "session" THEN "allow"
                            ELSE IF way = "session_deny" THEN "deny" ELSE lastAnswer[k]
    BY <1>2 DEF answer, IInv, Types
  <2>2. /\ \A s \in Requests \ {r} : req'[s] = req[s]
        /\ req'[r].pc = "act" /\ req'[r].verdict = Plan(way).verdict
        /\ req'[r].todo = Plan(way).todo /\ req'[r].key = req[r].key
        /\ req'[r].of = req[r].of /\ req'[r].call = req[r].call
    BY <1>0, <2>1 DEF adopt, IInv, Types, Request
  <2>3. /\ pending[k] = r /\ req[r].key = k
        /\ \A h \in Keys : pending[h] = r => h = k
        /\ \A h \in Keys : prompts[h] = r => h = k
    BY <1>0, <1>2 DEF IInv, PromptHasOwner, OwnerIsInTable, TableHasOwner, Holds, Asking
  <2>4. Types' /\ CallsOnce'
    <3>1. Plan(way).verdict \in Decisions /\ Plan(way).todo \in Todos
      BY <1>0, PlanFacts DEF Decisions
    <3>2. req' \in [Requests -> Request]
      <4>1. req' = [req EXCEPT ![r] = [req[r] EXCEPT !.pc = "act", !.verdict = Plan(way).verdict,
                                                     !.todo = Plan(way).todo]]
        BY <1>0, <2>1 DEF adopt, IInv, Types
      <4>2. QED
        BY <1>0, <3>1, <4>1, WithPlan DEF IInv, Types
    <3>3. QED
      BY <1>0, <2>1, <3>2 DEF IInv, Types, CallsOnce
  <2>5. \A s \in Requests : Placed(s)' /\ DenialFollows(s)'
    BY <1>0, <1>2, <2>2, PlanFacts DEF IInv, Types, Placed, DenialFollows, Looking, Waiting, Asking
  <2>6. \A s \in Requests : Holds(s)' <=> Holds(s)
    BY <1>0, <1>2, <2>2, PlanFacts DEF Holds, Asking
  <2>7. OwnerIsInTable'
    BY <1>0, <2>2, <2>6 DEF IInv, OwnerIsInTable
  <2>8. \A h \in Keys : TableHasOwner(h)' /\ PromptHasOwner(h)'
    <3>1. TAKE h \in Keys
    <3>2. TableHasOwner(h)'
      BY <1>0, <1>2, <2>2, <2>6 DEF IInv, Types, TableHasOwner
    <3>3. PromptHasOwner(h)'
      BY <1>0, <2>2, <2>3 DEF IInv, Types, PromptHasOwner
    <3>4. QED
      BY <3>2, <3>3
  <2>9. \A h \in Keys \ {k} : CacheFollows(h)'
    BY <1>0, <2>1, <2>2, <2>3 DEF IInv, Types, CacheFollows, Settled
  <2>10. CacheFollows(k)'
    BY <1>0, <1>2, <2>1, <2>2, <2>3, PlanFacts DEF IInv, CacheFollows, Settled, Asking
  <2>11. QED
    BY <2>4, <2>5, <2>7, <2>8, <2>9, <2>10 DEF IInv
<1>3. QED
  BY <1>1, <1>2 DEF answer

\* The end of a turn denies all the requests that it asks about.
LEMMA EndTurn == ASSUME IInv, endTurn PROVE IInv'
<1>0. /\ UNCHANGED <<active, finished, outcome, blamed, pending, decision, approved, denied, lastAnswer>>
      /\ turn' = FALSE /\ prompts' = [k \in Keys |-> NoRequest] /\ "denied" \in Ways
  BY DEF endTurn, callVars, Ways, UserAnswers
<1>1. \A s \in Requests :
        /\ req'[s] \in Request
        /\ req[s].pc # "prompted" => req'[s] = req[s]
        /\ req[s].pc = "prompted" =>
             /\ req'[s].pc = "act" /\ req'[s].verdict = Plan("denied").verdict
             /\ req'[s].todo = Plan("denied").todo /\ req'[s].key = req[s].key
             /\ req'[s].of = req[s].of /\ req'[s].call = req[s].call
  <2>1. Plan("denied").verdict \in Decisions /\ Plan("denied").todo \in Todos
    BY <1>0, PlanFacts DEF Decisions
  <2>2. TAKE s \in Requests
  <2>3. req[s] \in Request
    BY DEF IInv, Types
  <2>4. req'[s] = IF req[s].pc = "prompted"
                  THEN [req[s] EXCEPT !.pc = "act", !.verdict = Plan("denied").verdict,
                                      !.todo = Plan("denied").todo]
                  ELSE req[s]
    BY DEF endTurn
  <2>5. CASE req[s].pc = "prompted"
    <3>1. req'[s] = [req[s] EXCEPT !.pc = "act", !.verdict = Plan("denied").verdict,
                                   !.todo = Plan("denied").todo]
      BY <2>4, <2>5
    <3>2. /\ req'[s] \in Request /\ req'[s].pc = "act"
          /\ req'[s].verdict = Plan("denied").verdict /\ req'[s].todo = Plan("denied").todo
          /\ req'[s].key = req[s].key /\ req'[s].of = req[s].of /\ req'[s].call = req[s].call
      BY <2>1, <2>3, <3>1 DEF Request, Pcs
    <3>3. QED
      BY <2>5, <3>2
  <2>6. CASE req[s].pc # "prompted"
    BY <2>3, <2>4, <2>6
  <2>7. QED
    BY <2>5, <2>6
<1>2. req' \in [Requests -> Request]
  BY <1>1 DEF endTurn
<1>3. Types' /\ CallsOnce'
  BY <1>0, <1>2 DEF IInv, Types, CallsOnce
<1>4. \A s \in Requests : Placed(s)' /\ DenialFollows(s)'
  BY <1>0, <1>1, PlanFacts DEF IInv, Types, Placed, DenialFollows, Looking, Waiting, Asking
<1>5. \A s \in Requests : Holds(s)' <=> Holds(s)
  BY <1>0, <1>1, PlanFacts DEF Holds, Asking
<1>6. OwnerIsInTable'
  BY <1>0, <1>1, <1>5 DEF IInv, OwnerIsInTable
<1>7. \A h \in Keys : TableHasOwner(h)' /\ PromptHasOwner(h)'
  BY <1>0, <1>1, <1>5 DEF IInv, Types, TableHasOwner, PromptHasOwner
<1>8. \A h \in Keys : CacheFollows(h)'
  BY <1>0, <1>1, PlanFacts DEF IInv, Types, CacheFollows, Settled, Asking
<1>9. QED
  BY <1>3, <1>4, <1>6, <1>7, <1>8 DEF IInv

LEMMA WithRest ==
    ASSUME NEW q \in Request, NEW todo \in Todos \cup {<<>>}, NEW pc \in Pcs
    PROVE  [q EXCEPT !.todo = todo, !.pc = pc] \in Request
  BY DEF Request

\* The owner takes the next of the steps it has left.
LEMMA Act == ASSUME IInv, NEW r \in Requests, act(r) PROVE IInv'
<1> DEFINE k == req[r].key
           todo == req[r].todo
           step == Head(todo)
           rest == Tail(todo)
<1>0. /\ req[r].pc = "act" /\ todo \in Todos /\ k \in Keys /\ req[r].of = r /\ r # NoRequest
      /\ rest \in Todos \cup {<<>>}
      /\ UNCHANGED <<active, finished, blamed, turn, prompts, lastAnswer>>
  BY TodoSteps DEF act, IInv, Placed, Asking
<1>1. /\ \A s \in Requests \ {r} : req'[s] = req[s]
      /\ req'[r].todo = rest /\ req'[r].key = k /\ req'[r].of = r
      /\ req'[r].call = req[r].call /\ req'[r].verdict = req[r].verdict
      /\ req'[r].pc = IF rest = <<>> THEN Verdict(req[r].verdict) ELSE "act"
  BY <1>0 DEF act, IInv, Types, Request
<1>2. /\ \A c \in Calls : outcome[c] # "none" => outcome'[c] # "none"
      /\ req[r].call \in active /\ step \in {"user", "policy"} => outcome'[req[r].call] # "none"
      /\ outcome' \in [Calls -> {"none", "user", "policy"}]
  BY <1>0 DEF act, record_call_outcome, IInv, Types
<1>3. Types' /\ CallsOnce'
  <2>1. req' \in [Requests -> Request]
    <3> DEFINE to == IF rest = <<>> THEN Verdict(req[r].verdict) ELSE "act"
    <3>1. to \in Pcs
      BY DEF Pcs, Verdict
    <3>2. [req[r] EXCEPT !.todo = rest, !.pc = to] \in Request
      BY <1>0, <3>1, WithRest, Zenon DEF IInv, Types
    <3>3. req' = [req EXCEPT ![r] = [req[r] EXCEPT !.todo = rest, !.pc = to]]
      BY DEF act, IInv, Types
    <3>4. QED
      BY <3>2, <3>3 DEF IInv, Types
  <2>2. decision' \in [Requests -> Decisions]
    BY <1>0 DEF act, IInv, Types, Request
  <2>3. pending' \in [Keys -> Requests \cup {NoRequest}] /\ approved' \subseteq Keys /\ denied' \subseteq Keys
    BY <1>0 DEF act, IInv, Types
  <2>4. QED
    BY <1>0, <1>2, <2>1, <2>2, <2>3 DEF IInv, Types, CallsOnce
<1>4. \A s \in Requests : Placed(s)'
  BY <1>0, <1>1 DEF IInv, Placed, Looking, Waiting, Asking, Verdict
<1>5. \A s \in Requests : DenialFollows(s)'
  <2>1. \A s \in Requests \ {r} : DenialFollows(s)'
    BY <1>0, <1>1, <1>2 DEF IInv, Types, DenialFollows
  <2>2. DenialFollows(r)'
    <3>1. /\ Has(todo, "user") <=> step = "user" \/ Has(rest, "user")
          /\ Has(todo, "policy") <=> step = "policy" \/ Has(rest, "policy")
          /\ ~Has(<<>>, "user") /\ ~Has(<<>>, "policy")
      BY <1>0, TodoSteps, TodoHas
    <3>2. QED
      BY <1>0, <1>1, <1>2, <3>1 DEF IInv, Types, DenialFollows, Verdict
  <2>3. QED
    BY <2>1, <2>2
<1>6. \A s \in Requests \ {r} : Holds(s)' <=> Holds(s)
  BY <1>1 DEF Holds
<1>7. CASE Has(todo, "remove")
  <2>1. pending[k] = r /\ \A h \in Keys : pending[h] = r => h = k
    BY <1>0, <1>7 DEF IInv, OwnerIsInTable, TableHasOwner, Holds
  <2>2. \A h \in Keys : prompts[h] # r
    BY <1>0 DEF IInv, PromptHasOwner
  <2>3. \A h \in Keys \ {k} : (h \in approved' <=> h \in approved) /\ (h \in denied' <=> h \in denied)
    BY <1>0 DEF act
  <2>4. CASE step = "remove"
    <3>1. /\ pending' = [pending EXCEPT ![k] = NoRequest] /\ UNCHANGED <<approved, denied>>
          /\ ~Has(rest, "remove") /\ ~Has(todo, "approve") /\ ~Has(todo, "deny")
      BY <1>0, <2>4, TodoSteps DEF act
    <3>2. ~Holds(r)'
      BY <1>1, <3>1 DEF Holds, Asking, Verdict
    <3>3. OwnerIsInTable'
      BY <1>0, <1>1, <1>6, <2>1, <3>1, <3>2 DEF IInv, Types, OwnerIsInTable, Placed, Holds
    <3>4. \A h \in Keys : TableHasOwner(h)' /\ PromptHasOwner(h)'
      BY <1>0, <1>1, <1>6, <2>1, <2>2, <3>1 DEF IInv, Types, TableHasOwner, PromptHasOwner
    <3>5. \A h \in Keys : CacheFollows(h)'
      BY <1>0, <1>1, <2>1, <3>1 DEF IInv, Types, CacheFollows, Settled
    <3>6. QED
      BY <1>3, <1>4, <1>5, <3>3, <3>4, <3>5 DEF IInv
  <2>5. CASE step # "remove"
    <3>1. UNCHANGED pending /\ Has(rest, "remove") /\ rest # <<>>
      <4>1. Has(rest, "remove")
        BY <1>0, <1>7, <2>5, TodoSteps
      <4>2. QED
        BY <2>5, <4>1, TodoHas DEF act
    <3>2. Holds(r)' /\ Holds(r) /\ req'[r].pc = "act"
      BY <1>0, <1>1, <1>7, <3>1 DEF Holds
    <3>3. OwnerIsInTable'
      BY <1>1, <1>6, <2>1, <3>1, <3>2 DEF IInv, OwnerIsInTable
    <3>4. \A h \in Keys : TableHasOwner(h)' /\ PromptHasOwner(h)'
      BY <1>0, <1>1, <1>6, <2>1, <2>2, <3>1, <3>2 DEF IInv, Types, TableHasOwner, PromptHasOwner
    <3>5. \A h \in Keys \ {k} : CacheFollows(h)'
      BY <1>0, <1>1, <2>1, <2>3, <3>1 DEF IInv, Types, CacheFollows, Settled
    <3>6. CacheFollows(k)'
      <4>1. /\ Has(todo, "approve") => /\ lastAnswer[k] = "allow"
                                       /\ Has(todo, "undeny") \/ k \notin denied
            /\ Has(todo, "deny") => /\ lastAnswer[k] = "deny"
                                    /\ Has(todo, "unapprove") \/ k \notin approved
            /\ ~Has(todo, "approve") /\ ~Has(todo, "deny") => Settled(k)
        BY <1>0, <2>1 DEF IInv, CacheFollows
      <4>2. /\ k \in denied' <=> step = "deny" \/ (step # "undeny" /\ k \in denied)
            /\ k \in approved' <=> step = "approve" \/ (step # "unapprove" /\ k \in approved)
        BY <1>0 DEF act
      <4>3. \A s \in {"approve", "undeny", "deny", "unapprove"} :
               Has(todo, s) <=> s = step \/ Has(rest, s)
        BY <1>0, TodoSteps
      <4>4. /\ step = "undeny" => Has(todo, "approve")
            /\ step = "unapprove" => Has(todo, "deny")
            /\ step = "approve" => ~Has(rest, "approve") /\ ~Has(todo, "undeny")
            /\ step = "deny" => ~Has(rest, "deny") /\ ~Has(todo, "unapprove")
            /\ ~(Has(todo, "approve") /\ Has(todo, "deny"))
        BY <1>0, TodoSteps
      <4>5. QED
        BY <1>0, <1>1, <2>1, <3>1, <3>2, <4>1, <4>2, <4>3, <4>4 DEF CacheFollows, Settled, Asking
    <3>7. \A h \in Keys : CacheFollows(h)'
      BY <1>1, <3>5, <3>6
    <3>8. QED
      BY <1>3, <1>4, <1>5, <3>3, <3>4, <3>7 DEF IInv
  <2>6. QED
    BY <2>4, <2>5
<1>8. CASE ~Has(todo, "remove")
  <2>1. step = "policy" /\ ~Has(rest, "remove")
    BY <1>0, <1>8, TodoSteps
  <2>2. UNCHANGED <<pending, approved, denied>> /\ ~Holds(r) /\ ~Holds(r)'
    <3>1. UNCHANGED <<pending, approved, denied>>
      BY <2>1 DEF act
    <3>2. ~Holds(r) /\ ~Holds(r)'
      BY <1>0, <1>1, <1>8, <2>1 DEF Holds, Asking, Verdict
    <3>3. QED
      BY <3>1, <3>2
  <2>3. \A h \in Keys : pending[h] # r /\ prompts[h] # r
    BY <1>0, <2>2 DEF IInv, TableHasOwner, PromptHasOwner
  <2>4. OwnerIsInTable'
    BY <1>1, <1>6, <2>2 DEF IInv, OwnerIsInTable
  <2>5. \A h \in Keys : TableHasOwner(h)' /\ PromptHasOwner(h)'
    BY <1>0, <1>1, <1>6, <2>2, <2>3 DEF IInv, Types, TableHasOwner, PromptHasOwner
  <2>6. \A h \in Keys : CacheFollows(h)'
    BY <1>0, <1>1, <2>2, <2>3 DEF IInv, Types, CacheFollows, Settled
  <2>7. QED
    BY <1>3, <1>4, <1>5, <2>4, <2>5, <2>6 DEF IInv
<1>9. QED
  BY <1>7, <1>8

-----------------------------------------------------------------------------
(* The calls and the turn.                                                 *)

\* A call registers or ends, its outcome may become a refusal, a turn starts.
LEMMA CallStep ==
    ASSUME IInv, UNCHANGED <<prompts, pending, decision, approved, denied, lastAnswer, req>>,
           active' \subseteq Calls, finished' \subseteq Calls, active' \cap finished' = {},
           active \cup finished \subseteq active' \cup finished', finished \subseteq finished',
           outcome' \in [Calls -> {"none", "user", "policy"}],
           blamed' \in [Observers -> Calls \cup {NoCall}], turn' \in BOOLEAN,
           \A c \in active \cap active' : outcome[c] # "none" => outcome'[c] # "none"
    PROVE  IInv'
<1>1. Types' /\ CallsOnce' /\ OwnerIsInTable'
  BY DEF IInv, Types, CallsOnce, OwnerIsInTable, Holds
<1>2. \A r \in Requests : Placed(r)' /\ DenialFollows(r)'
  BY DEF IInv, Types, Placed, DenialFollows
<1>3. \A k \in Keys : TableHasOwner(k)' /\ PromptHasOwner(k)' /\ CacheFollows(k)'
  BY DEF IInv, TableHasOwner, PromptHasOwner, CacheFollows, Settled, Holds
<1>4. QED
  BY <1>1, <1>2, <1>3 DEF IInv

LEMMA Calling ==
    ASSUME IInv,
           \/ \E c \in Calls : register_call(c) \/ finish_call(c)
           \/ \E o \in Observers : record_blocked_request(o) \/ recordBlocked(o)
           \/ startTurn
    PROVE  IInv'
<1> USE DEF hostVars, IInv, Types, CallsOnce
<1>1. ASSUME NEW c \in Calls, register_call(c) PROVE IInv'
  BY <1>1, CallStep DEF register_call
<1>2. ASSUME NEW c \in Calls, finish_call(c) PROVE IInv'
  BY <1>2, CallStep DEF finish_call
<1>3. ASSUME NEW o \in Observers, record_blocked_request(o) PROVE IInv'
  BY <1>3, SingleIsActive, CallStep DEF record_blocked_request
<1>4. ASSUME NEW o \in Observers, recordBlocked(o) PROVE IInv'
  BY <1>4, CallStep DEF recordBlocked, record_call_outcome
<1>5. ASSUME startTurn PROVE IInv'
  BY <1>5, CallStep DEF startTurn, callVars
<1>6. QED
  BY <1>1, <1>2, <1>3, <1>4, <1>5

-----------------------------------------------------------------------------
(* The theorems.                                                           *)

\* Every step keeps the invariant.
LEMMA Step == IInv /\ [Next]_vars => IInv'
<1> SUFFICES ASSUME IInv, [Next]_vars PROVE IInv'
  OBVIOUS
<1>1. ASSUME NEW r \in Requests, requestStep(r) PROVE IInv'
  BY <1>1, ActiveTurn, Caches, Create, Follow, Judge, AskGuardian, Prompt, Act DEF requestStep
<1>2. CASE UNCHANGED vars
  <2>1. UNCHANGED <<active, finished, outcome, blamed, turn>>
        /\ UNCHANGED <<prompts, pending, decision, approved, denied, lastAnswer, req>>
    BY <1>2 DEF vars
  <2>2. QED
    BY <2>1, CallStep DEF IInv, Types, CallsOnce
<1>3. CASE \E r \in Requests : attribute(r) \/ requestStep(r) \/ drop(r)
  BY <1>1, <1>3, Attribute, Drop
<1>4. CASE \E k \in Keys, way \in UserAnswers : answer(k, way)
  BY <1>4, Answer
<1>5. CASE \/ \E c \in Calls : register_call(c) \/ finish_call(c)
           \/ \E o \in Observers : record_blocked_request(o) \/ recordBlocked(o)
           \/ startTurn
  BY <1>5, Calling
<1>6. CASE endTurn
  BY <1>6, EndTurn
<1>7. QED
  BY <1>2, <1>3, <1>4, <1>5, <1>6 DEF Next

\* The inductive invariant of the approval tables holds for every instance:
\* pending_host_approvals and the requests agree in both directions.
THEOREM TablesInvariant == Spec => []IInv
  BY InitIInv, Step, PTL DEF Spec

\* A request that decides about a host is the one in pending_host_approvals, so
\* that no two ask about one host and no reply channel is overwritten.
THEOREM OneOwner == Spec => []OneOwnerPerHost
<1>1. IInv => OneOwnerPerHost
  <2> SUFFICES ASSUME IInv PROVE OneOwnerPerHost
    OBVIOUS
  <2>1. \A r \in Requests : Owns(r) <=> Holds(r)
    BY DEF Owns, Holds, Has, Asking
  <2>2. ASSUME NEW k \in Keys, prompts[k] # NoRequest, req[prompts[k]].pc # "dropped"
        PROVE  pending[k] = prompts[k] /\ req[prompts[k]].pc = "prompted"
    BY <2>2 DEF IInv, Types, PromptHasOwner, OwnerIsInTable, Holds, Asking
  <2>3. QED
    BY <2>1, <2>2 DEF IInv, OneOwnerPerHost, OwnerIsInTable
<1>2. QED
  BY <1>1, TablesInvariant, PTL

\* session_approved_hosts and session_denied_hosts hold the user's last answer
\* for the session about every host that nobody is deciding about.
THEOREM CachesAgree == Spec => []CacheIsLastAnswer
<1>1. IInv => CacheIsLastAnswer
  BY DEF IInv, CacheIsLastAnswer, CacheFollows, Settled
<1>2. QED
  BY <1>1, TablesInvariant, PTL

\* An owner that comes back with a denial has recorded it with its call.
THEOREM DenialsRecorded == Spec => []DenialIsRecorded
<1>1. IInv => DenialIsRecorded
  BY DEF IInv, DenialIsRecorded, DenialFollows
<1>2. QED
  BY <1>1, TablesInvariant, PTL
=============================================================================
