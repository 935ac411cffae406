------------------------ MODULE MCRequestSerialization ------------------------
(***************************************************************************)
(* Instances of RequestSerialization for TLC.  On connection a, w1 writes  *)
(* the global resource "config" that s1 and s2 read; on connection b, u1   *)
(* is a command/exec without a process id, which has no scope and starts a *)
(* session.                                                                *)
(***************************************************************************)
EXTENDS RequestSerialization

CONSTANTS w1, s1, s2, u1, a, b

MCConnOf == [r \in Requests |-> IF r = u1 THEN b ELSE a]

MCScopeOf ==
    [r \in Requests |->
        CASE r = w1 -> [kind |-> "Global", name |-> "config"]
          [] r \in {s1, s2} -> [kind |-> "GlobalSharedRead", name |-> "config"]
          [] OTHER -> NoScope]
=============================================================================
