-------------------------- MODULE MCNetworkApproval --------------------------
(***************************************************************************)
(* A TLC instance of NetworkApproval: three requests for one host, of      *)
(* which one names its environment and one may be dropped, and two tool    *)
(* calls in different environments.                                        *)
(***************************************************************************)
EXTENDS NetworkApproval

MCHostOf == [r \in Requests |-> "h"]
MCEnvOf == [r \in Requests |-> IF r = "r1" THEN "local" ELSE NoEnv]
MCCallEnv == [c \in Calls |-> IF c = "c1" THEN "local" ELSE "remote"]

\* Bounds: the third request comes only while no tool call is registered,
\* the second call and the observer only while one of the other requests is
\* away.  None of them comes by fairness, so no liveness property is weakened.
Bounds ==
    /\ req["r3"].pc = "new" \/ active \cup finished = {}
    /\ "c2" \in active \cup finished => \E r \in {"r1", "r2"} : req[r].pc = "new"
    /\ \A o \in Observers : blamed[o] # NoCall => \E r \in {"r1", "r2"} : req[r].pc = "new"
=============================================================================
