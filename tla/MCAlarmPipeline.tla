-------------------------- MODULE MCAlarmPipeline --------------------------
(***************************************************************************)
(* Instances of AlarmPipeline for TLC.                                     *)
(***************************************************************************)
EXTENDS AlarmPipeline, TLC

CONSTANTS a1, a2, b1, b2

\* A still-Down sensor, with and without a lastValue that changes between
\* notifications.
OneEvent == {[alarm |-> a1, body |-> b1, kind |-> "real", encoded |-> FALSE]}
CoreEvents ==
    {[alarm |-> a1, body |-> b, kind |-> "real", encoded |-> FALSE] : b \in {b1, b2}}

Symmetry == Permutations(Env) \union Permutations(Notification)
=============================================================================
