------------------------- MODULE MCInvocationBudget -------------------------
(***************************************************************************)
(* Instances of InvocationBudget for TLC.                                  *)
(***************************************************************************)
EXTENDS InvocationBudget

\* The default timeout, timeouts about the smallest budget, and more.
SomeTimeouts == {Seconds(s) : s \in {9, 13, 14, 15, 19, 20, 30, 45}}
DefaultOnly == {Seconds(30)}
=============================================================================
