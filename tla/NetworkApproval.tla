--------------------------- MODULE NetworkApproval ---------------------------
(***************************************************************************)
(* Approval of the network requests that the managed proxy does not allow  *)
(* by itself (codex-rs/core/src/tools/network_approval.rs).                *)
(*                                                                         *)
(* The proxy calls handle_inline_policy_request for every such request,    *)
(* many at a time.  The first request for a host owns its approval and     *)
(* asks hooks, the guardian or the user; the others wait for its decision. *)
(* The service has a mutex per table and holds one at a time, and none     *)
(* while it waits, so that every lock is a step of its own.  What an owner *)
(* still has to do once it knows the answer is the sequence todo.          *)
(*                                                                         *)
(* The proxy drops a request's future when its client disconnects.         *)
(***************************************************************************)
EXTENDS Sequences

CONSTANTS
    Requests,    \* requests the proxy asks about
    Droppable,   \* those whose client may disconnect
    HostOf,      \* host, protocol and port of each request
    EnvOf,       \* environment_id of each request, or NoEnv
    Calls,       \* tool calls that register for attribution
    CallEnv,     \* the environment each call runs in
    PrimaryEnv,  \* the primary environment of a turn
    Observers,   \* blocked-request callbacks
    NoEnv, NoCall, NoRequest

ASSUME ApprovalConstants ==
    /\ Droppable \subseteq Requests
    /\ NoRequest \notin Requests /\ NoCall \notin Calls
    /\ \A r \in Requests : EnvOf[r] # NoEnv => EnvOf[r] # NoCall

Envs == {EnvOf[r] : r \in Requests} \cup {CallEnv[c] : c \in Calls} \cup {PrimaryEnv}

\* HostApprovalKey
Keys == {<<e, HostOf[r]>> : e \in Envs \ {NoEnv}, r \in Requests}
NoKey == <<>>

VARIABLES
    active,      \* NetworkApprovalCallState.active_calls
    outcome,     \* NetworkApprovalCallState.call_outcomes
    finished,    \* registration ids that are used up
    turn,        \* whether the session has an active turn with a task
    prompts,     \* TurnState.pending_approvals: the owner asking about a key
    pending,     \* pending_host_approvals: the request that created the entry
    decision,    \* PendingHostApproval.decision, by the request that created it
    subscribed,  \* followers with a Notified future
    woken,       \* followers whose Notified future has resolved
    approved,    \* session_approved_hosts
    denied,      \* session_denied_hosts
    req,         \* the requests
    blamed,      \* the call a blocked-request callback is about to record
    lastAnswer   \* history: the last answer for the session about each key

vars == <<active, outcome, finished, turn, prompts, pending, decision, subscribed,
          woken, approved, denied, req, blamed, lastAnswer>>

\* PendingApprovalDecision; allowing once and for the session differ only in
\* what the owner does before it decides.
Decisions == {"none", "allow", "deny"}
Steps == {"user", "policy", "undeny", "approve", "unapprove", "deny", "set",
          "notify", "remove"}

NewRequest == [pc |-> "new", env |-> NoEnv, key |-> NoKey, call |-> NoCall,
               turn |-> FALSE, of |-> NoRequest, verdict |-> "none", todo |-> <<>>]

Pcs == {"new", "turn", "denied", "approved", "pending", "subscribe", "look",
        "await", "judge", "ask", "prompted", "act", "allowed", "refused", "dropped"}
Answered == {"allowed", "refused"}

TypeOK ==
    /\ active \subseteq Calls
    /\ outcome \in [Calls -> {"none", "user", "policy"}]
    /\ finished \subseteq Calls
    /\ turn \in BOOLEAN
    /\ prompts \in [Keys -> Requests \cup {NoRequest}]
    /\ pending \in [Keys -> Requests \cup {NoRequest}]
    /\ decision \in [Requests -> Decisions]
    /\ subscribed \subseteq Requests /\ woken \subseteq Requests
    /\ approved \subseteq Keys /\ denied \subseteq Keys
    /\ req \in [Requests -> [pc : Pcs, env : Envs \cup {NoEnv}, key : Keys \cup {NoKey},
                             call : Calls \cup {NoCall}, turn : BOOLEAN,
                             of : Requests \cup {NoRequest}, verdict : Decisions,
                             todo : Seq(Steps)]]
    /\ blamed \in [Observers -> Calls \cup {NoCall}]
    /\ lastAnswer \in [Keys -> {"none", "allow", "deny"}]

Init ==
    /\ active = {}
    /\ outcome = [c \in Calls |-> "none"]
    /\ finished = {}
    /\ turn \in BOOLEAN
    /\ prompts = [k \in Keys |-> NoRequest]
    /\ pending = [k \in Keys |-> NoRequest]
    /\ decision = [r \in Requests |-> "none"]
    /\ subscribed = {} /\ woken = {}
    /\ approved = {} /\ denied = {}
    /\ req = [r \in Requests |-> NewRequest]
    /\ blamed = [o \in Observers |-> NoCall]
    /\ lastAnswer = [k \in Keys |-> "none"]

callVars == <<active, outcome, finished, blamed>>
hostVars == <<prompts, pending, decision, subscribed, woken, approved, denied, lastAnswer>>

-----------------------------------------------------------------------------
(* Tool calls, and the proxy's blocked-request callback.                   *)

\* begin_network_approval: every call registers under a fresh id.
register_call(c) ==
    /\ c \notin active \cup finished
    /\ active' = active \cup {c}
    /\ UNCHANGED <<outcome, finished, blamed, turn, hostVars, req>>

\* finish_call and unregister_call: the call and its outcome, which is the
\* result of the tool call, leave the tables.
finish_call(c) ==
    /\ c \in active
    /\ active' = active \ {c}
    /\ finished' = finished \cup {c}
    /\ outcome' = [outcome EXCEPT ![c] = "none"]
    /\ UNCHANGED <<blamed, turn, hostVars, req>>

\* record_call_outcome: only for a call that is still active, and never over
\* the user's own refusal.
record_call_outcome(c, o) ==
    outcome' = IF c \in active /\ outcome[c] # "user"
               THEN [outcome EXCEPT ![c] = o] ELSE outcome

\* The single active call, or none: resolve_single_active_call.
SingleCall == IF \E c \in active : active = {c}
              THEN CHOOSE c \in active : TRUE ELSE NoCall

\* record_blocked_request: attribution and record under separate locks.
record_blocked_request(o) ==
    /\ blamed[o] = NoCall
    /\ SingleCall # NoCall
    /\ blamed' = [blamed EXCEPT ![o] = SingleCall]
    /\ UNCHANGED <<active, outcome, finished, turn, hostVars, req>>

recordBlocked(o) ==
    /\ blamed[o] # NoCall
    /\ record_call_outcome(blamed[o], "policy")
    /\ blamed' = [blamed EXCEPT ![o] = NoCall]
    /\ UNCHANGED <<active, finished, turn, hostVars, req>>

-----------------------------------------------------------------------------
(* A request, up to the table of pending approvals.                        *)

\* resolve_active_call_attribution: a request without an environment takes
\* that of the only call, and is refused when there are several.
attribute(r) ==
    /\ req[r].pc = "new"
    /\ \/ /\ EnvOf[r] # NoEnv
          /\ req' = [req EXCEPT ![r].pc = "turn", ![r].env = EnvOf[r],
                        ![r].call = IF SingleCall # NoCall /\ CallEnv[SingleCall] = EnvOf[r]
                                    THEN SingleCall ELSE NoCall]
       \/ /\ EnvOf[r] = NoEnv /\ active = {}
          /\ req' = [req EXCEPT ![r].pc = "turn"]
       \/ /\ EnvOf[r] = NoEnv /\ SingleCall # NoCall
          /\ req' = [req EXCEPT ![r].pc = "turn", ![r].env = CallEnv[SingleCall],
                                ![r].call = SingleCall]
       \/ /\ EnvOf[r] = NoEnv /\ active # {} /\ SingleCall = NoCall
          /\ req' = [req EXCEPT ![r].pc = "refused"]
    /\ UNCHANGED <<callVars, turn, hostVars>>

\* active_turn_context, the fallback to its primary environment, and the key.
active_turn_context(r) ==
    LET env == IF req[r].env # NoEnv THEN req[r].env
               ELSE IF turn THEN PrimaryEnv ELSE NoEnv
    IN  /\ req[r].pc = "turn"
        /\ req' = [req EXCEPT ![r].turn = turn,
                       ![r].pc = IF env = NoEnv THEN "refused" ELSE "denied",
                       ![r].key = IF env = NoEnv THEN NoKey ELSE <<env, HostOf[r]>>]
        /\ UNCHANGED <<callVars, turn, hostVars>>

checkDenied(r) ==
    /\ req[r].pc = "denied"
    /\ req' = [req EXCEPT ![r].pc = IF req[r].key \in denied THEN "refused" ELSE "approved"]
    /\ UNCHANGED <<callVars, turn, hostVars>>

checkApproved(r) ==
    /\ req[r].pc = "approved"
    /\ req' = [req EXCEPT ![r].pc = IF req[r].key \in approved THEN "allowed" ELSE "pending"]
    /\ UNCHANGED <<callVars, turn, hostVars>>

\* Mutant: the entry is looked up and created under separate locks, so that
\* a request may replace the entry of another.
get_or_create_pending_approvalRacy(r) ==
    LET k == req[r].key IN
    /\ req[r].pc = "pending"
    /\ \/ /\ pending[k] # NoRequest
          /\ req' = [req EXCEPT ![r].pc = "subscribe", ![r].of = pending[k]]
          /\ UNCHANGED pending
       \/ /\ pending' = [pending EXCEPT ![k] = r]
          /\ req' = [req EXCEPT ![r].pc = "judge", ![r].of = r]
    /\ UNCHANGED <<callVars, turn, prompts, decision, subscribed, woken,
                   approved, denied, lastAnswer>>

get_or_create_pending_approval(r) ==
    LET k == req[r].key IN
    /\ req[r].pc = "pending"
    /\ \/ /\ pending[k] # NoRequest
          /\ req' = [req EXCEPT ![r].pc = "subscribe", ![r].of = pending[k]]
          /\ UNCHANGED pending
       \/ /\ pending[k] = NoRequest
          /\ pending' = [pending EXCEPT ![k] = r]
          /\ req' = [req EXCEPT ![r].pc = "judge", ![r].of = r]
    /\ UNCHANGED <<callVars, turn, prompts, decision, subscribed, woken,
                   approved, denied, lastAnswer>>

-----------------------------------------------------------------------------
(* A follower: wait_for_decision.                                          *)

\* notified(): from here on the follower is woken by notify_waiters.
subscribe(r) ==
    /\ req[r].pc = "subscribe"
    /\ subscribed' = subscribed \cup {r}
    /\ woken' = woken \ {r}
    /\ req' = [req EXCEPT ![r].pc = "look"]
    /\ UNCHANGED <<callVars, turn, prompts, pending, decision, approved, denied,
                   lastAnswer>>

\* to_network_decision
Verdict(d) == IF d = "deny" THEN "refused" ELSE "allowed"

look(r) ==
    LET d == decision[req[r].of] IN
    /\ req[r].pc = "look"
    /\ req' = [req EXCEPT ![r].pc = IF d = "none" THEN "await" ELSE Verdict(d)]
    /\ UNCHANGED <<callVars, turn, hostVars>>

wait_for_decision(r) ==
    /\ req[r].pc = "await"
    /\ r \in woken
    /\ req' = [req EXCEPT ![r].pc = "subscribe"]
    /\ UNCHANGED <<callVars, turn, hostVars>>

-----------------------------------------------------------------------------
(* The owner.                                                              *)

\* What is left to do for each way an approval can be decided, in the order
\* of the code.  "set" and "notify" are set_decision; then the entry leaves
\* the table.
Plans ==
    [refused         |-> [verdict |-> "deny",
                          todo |-> <<"set", "notify", "remove", "policy">>],
     session         |-> [verdict |-> "allow",
                          todo |-> <<"undeny", "approve", "set", "notify", "remove">>],
     session_deny    |-> [verdict |-> "deny",
                          todo |-> <<"user", "unapprove", "deny", "set", "notify", "remove">>],
     denied          |-> [verdict |-> "deny", todo |-> <<"user", "set", "notify", "remove">>],
     hook_allow      |-> [verdict |-> "allow", todo |-> <<"set", "notify", "remove">>],
     approved        |-> [verdict |-> "allow", todo |-> <<"set", "notify", "remove">>],
     hook_deny       |-> [verdict |-> "deny", todo |-> <<"policy", "set", "notify", "remove">>],
     guardian_denied |-> [verdict |-> "deny", todo |-> <<"policy", "set", "notify", "remove">>]]

\* Mutant: an approval for the session leaves the host denied as well.
PlanForgets(way) ==
    [Plans EXCEPT !.session.todo = <<"approve", "set", "notify", "remove">>][way]

\* Mutant: a request refused before anybody is asked is not recorded.
PlanSilent(way) == [Plans EXCEPT !.refused.todo = <<"set", "notify", "remove">>][way]

\* Mutant: the followers are woken before the decision is there.
PlanEarly(way) == [Plans EXCEPT !.approved.todo = <<"notify", "set", "remove">>][way]

Plan(way) == Plans[way]

adopt(r, way) ==
    req' = [req EXCEPT ![r].pc = "act", ![r].verdict = Plan(way).verdict,
                       ![r].todo = Plan(way).todo]

\* Without a turn, or under a profile or a policy that allows no approval,
\* the request is refused; a permission hook may decide; or somebody is asked.
judge(r) ==
    /\ req[r].pc = "judge"
    /\ \/ adopt(r, "refused")
       \/ req[r].turn /\ \E way \in {"hook_allow", "hook_deny"} : adopt(r, way)
       \/ req[r].turn /\ req' = [req EXCEPT ![r].pc = "ask"]
    /\ UNCHANGED <<callVars, turn, hostVars>>

\* The answers of a user (denied stands for an abort too, session for an
\* amendment that allows) and of the guardian (a timeout is a denial).
UserAnswers == {"approved", "session", "session_deny", "denied"}
GuardianAnswers == {"approved", "guardian_denied"}

\* review_approval_request
askGuardian(r) ==
    /\ req[r].pc = "ask"
    /\ \E way \in GuardianAnswers : adopt(r, way)
    /\ UNCHANGED <<callVars, turn, hostVars>>

\* request_command_approval: the reply channel is filed in the active turn,
\* and dropped, which is an abort, when there is none.
request_command_approval(r) ==
    /\ req[r].pc = "ask"
    /\ \/ /\ turn
          /\ prompts' = [prompts EXCEPT ![req[r].key] = r]
          /\ req' = [req EXCEPT ![r].pc = "prompted"]
       \/ /\ ~turn
          /\ adopt(r, "denied")
          /\ UNCHANGED prompts
    /\ UNCHANGED <<callVars, turn, pending, decision, subscribed, woken,
                   approved, denied, lastAnswer>>

\* Op::ExecApproval: the reply channel is taken out and used.
answer(k, way) ==
    LET r == prompts[k] IN
    /\ r # NoRequest
    /\ prompts' = [prompts EXCEPT ![k] = NoRequest]
    /\ \/ /\ req[r].pc = "prompted"
          /\ adopt(r, way)
          /\ lastAnswer' = [lastAnswer EXCEPT ![k] =
                IF way = "session" THEN "allow"
                ELSE IF way = "session_deny" THEN "deny" ELSE @]
       \/ /\ req[r].pc = "dropped"
          /\ UNCHANGED <<req, lastAnswer>>
    /\ UNCHANGED <<callVars, turn, pending, decision, subscribed, woken, approved, denied>>

\* A turn starts, or ends and drops the reply channels it holds.
startTurn ==
    /\ ~turn
    /\ turn' = TRUE
    /\ UNCHANGED <<callVars, hostVars, req>>

endTurn ==
    /\ turn
    /\ turn' = FALSE
    /\ req' = [r \in Requests |->
                 IF req[r].pc = "prompted"
                 THEN [req[r] EXCEPT !.pc = "act", !.verdict = Plan("denied").verdict,
                                     !.todo = Plan("denied").todo]
                 ELSE req[r]]
    /\ prompts' = [k \in Keys |-> NoRequest]
    /\ UNCHANGED <<callVars, pending, decision, subscribed, woken, approved, denied,
                   lastAnswer>>

\* The followers of r's approval.
Followers(r) == {s \in subscribed : req[s].of = r}

\* The next lock the owner takes, or notify_waiters; then it returns.
act(r) ==
    LET k == req[r].key
        step == Head(req[r].todo)
        rest == Tail(req[r].todo)
    IN  /\ req[r].pc = "act"
        /\ req' = [req EXCEPT ![r].todo = rest,
                       ![r].pc = IF rest = <<>> THEN Verdict(req[r].verdict) ELSE "act"]
        /\ IF step \in {"user", "policy"} /\ req[r].call # NoCall
           THEN record_call_outcome(req[r].call, step) ELSE UNCHANGED outcome
        /\ denied' = IF step = "undeny" THEN denied \ {k}
                     ELSE IF step = "deny" THEN denied \cup {k} ELSE denied
        /\ approved' = IF step = "unapprove" THEN approved \ {k}
                       ELSE IF step = "approve" THEN approved \cup {k} ELSE approved
        /\ decision' = IF step = "set" THEN [decision EXCEPT ![r] = req[r].verdict]
                       ELSE decision
        /\ woken' = IF step = "notify" THEN woken \cup Followers(r) ELSE woken
        /\ pending' = IF step = "remove" THEN [pending EXCEPT ![k] = NoRequest] ELSE pending
        /\ UNCHANGED <<active, finished, blamed, turn, prompts, subscribed, lastAnswer>>

-----------------------------------------------------------------------------

\* The client disconnects and the proxy drops the request's future wherever
\* it waits.
drop(r) ==
    /\ r \in Droppable
    /\ req[r].pc \notin Answered \cup {"new", "dropped"}
    /\ req' = [req EXCEPT ![r].pc = "dropped"]
    /\ UNCHANGED <<callVars, turn, hostVars>>

\* The steps of a request that has arrived.
requestStep(r) ==
    \/ active_turn_context(r) \/ checkDenied(r) \/ checkApproved(r)
    \/ get_or_create_pending_approval(r)
    \/ subscribe(r) \/ look(r) \/ wait_for_decision(r)
    \/ judge(r) \/ askGuardian(r) \/ request_command_approval(r) \/ act(r)

Next ==
    \/ \E c \in Calls : register_call(c) \/ finish_call(c)
    \/ \E o \in Observers : record_blocked_request(o) \/ recordBlocked(o)
    \/ \E r \in Requests : attribute(r) \/ requestStep(r) \/ drop(r)
    \/ \E k \in Keys, way \in UserAnswers : answer(k, way)
    \/ startTurn \/ endTurn

\* Every request that arrived is polled, and a prompt is answered or its turn ends.
Fairness ==
    /\ \A r \in Requests : WF_vars(requestStep(r))
    /\ \A k \in Keys : WF_vars(endTurn \/ \E way \in UserAnswers : answer(k, way))

Spec == Init /\ [][Next]_vars

FairSpec == Spec /\ Fairness

-----------------------------------------------------------------------------
(* Properties.                                                             *)

\* Still owns its approval: it has not taken its entry out of the table.
Owns(r) ==
    \/ req[r].pc \in {"judge", "ask", "prompted"}
    \/ req[r].pc = "act" /\ \E i \in DOMAIN req[r].todo : req[r].todo[i] = "remove"

\* One owner per host: a request that is deciding is the one in the table, so
\* the user is never asked about a host twice at once, and no reply channel
\* in the turn is overwritten by another (session/mod.rs warns of that).
OneOwnerPerHost ==
    /\ \A r \in Requests : Owns(r) => pending[req[r].key] = r
    /\ \A k \in Keys : prompts[k] # NoRequest /\ req[prompts[k]].pc # "dropped" =>
          pending[k] = prompts[k] /\ req[prompts[k]].pc = "prompted"

\* When nobody is deciding about a host, the caches say what the user last
\* answered for the session: never both, and never an older answer.
CacheIsLastAnswer ==
    \A k \in Keys : pending[k] = NoRequest =>
        /\ k \in approved <=> lastAnswer[k] = "allow"
        /\ k \in denied <=> lastAnswer[k] = "deny"

\* An owner that comes back with a denial has recorded it with the call the
\* request belongs to, if that call is still there: the call cannot end
\* well although its network access was refused.
DenialIsRecorded ==
    \A r \in Requests :
        req[r].pc = "refused" /\ req[r].of = r /\ req[r].call \in active
            => outcome[req[r].call] # "none"

\* Every request is answered, also one that subscribes while the decision is
\* being made, unless it or the owner it waits for was dropped.
RequestIsAnswered ==
    \A r \in Requests :
        req[r].pc = "pending" ~>
            \/ req[r].pc \in Answered \cup {"dropped"}
            \/ \E s \in Requests : req[r].of = s /\ req[s].pc = "dropped"
=============================================================================
