------------------------ MODULE MCPipelineRefinement ------------------------
(***************************************************************************)
(* An instance of PipelineRefinement for TLC: real alarms, tests and a     *)
(* malformed body.                                                         *)
(***************************************************************************)
EXTENDS PipelineRefinement, TLC

CONSTANTS a1, a2, b1, b2

MixedEvents ==
    {[alarm |-> a1, body |-> b1, kind |-> "real", encoded |-> FALSE],
     [alarm |-> a2, body |-> b1, kind |-> "test", encoded |-> FALSE],
     [alarm |-> a1, body |-> b2, kind |-> "malformed", encoded |-> FALSE]}

Symmetry == Permutations(Env) \union Permutations(Notification) \union Permutations(Space)
=============================================================================
