----------------------------- MODULE MCMcpCall -----------------------------
(***************************************************************************)
(* An instance of McpCall for TLC.                                         *)
(***************************************************************************)
EXTENDS McpCall, TLC

\* A value every schema takes.
Good(p) == IF p \in IntegerParameter THEN "number" ELSE "text"

\* For every tool: all arguments, only the required ones, none, one
\* argument of every class, and one the agent invented. And no such tool.
SomeCalls ==
    UNION {LET all == [p \in Accepted[t] |-> Good(p)]
           IN  {[tool |-> t, args |-> all],
                [tool |-> t, args |-> [p \in Required[t] |-> Good(p)]],
                [tool |-> t, args |-> <<>>],
                [tool |-> t, args |-> ("invented" :> "text") @@ all]}
               \union {[tool |-> t, args |-> [all EXCEPT ![p] = c]] :
                           p \in Accepted[t], c \in Class \ {"numeral"}}
               \union {[tool |-> t, args |-> [all EXCEPT ![p] = "numeral"]] :
                           p \in Accepted[t] \intersect IntegerParameter}
           : t \in Tool}
    \union {[tool |-> "no_such_tool", args |-> <<>>]}
=============================================================================
