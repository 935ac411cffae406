--------------------------- MODULE MCTurnLifecycle ---------------------------
(***************************************************************************)
(* TLC instances of TurnLifecycle.  The configurations differ in which     *)
(* callers run and in the ops that are submitted; Tasks bounds the turns   *)
(* and TurnStates is large enough that a fresh one is always left.         *)
(***************************************************************************)
EXTENDS TurnLifecycle

(* Bound: with the other callers, or with an injected item, the loop gets  *)
(* mail and interrupts only, and these two do not come together.  What is  *)
(* cut off are submissions, which nothing obliges to happen, so no         *)
(* liveness property is weakened.                                          *)
Apart ==
    Cardinality({g \in {UserInputs \cup Compacts \cup {"Shutdown"}, IdleItems \cup Denials, Injected} :
                    used \cap g # {}}) <= 1
=============================================================================
