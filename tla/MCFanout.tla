------------------------------ MODULE MCFanout ------------------------------
(***************************************************************************)
(* Instances of Fanout, and of the Router in it, for TLC.                  *)
(***************************************************************************)
EXTENDS Fanout, TLC

CONSTANTS grp, prefix, space, r1, r2

\* One Agent Space, under two roles of its account, and the pipeline's own.
First == [space |-> space, role |-> r1]
Second == [space |-> space, role |-> r2]
Mine == [space |-> Local, role |-> Local]
ThreeTargets == {First, Second, Mine}

\* One alarm has a group that may have a route, one only its device prefix.
TwoAlarms == {<<grp, NoName, prefix>>, <<NoName, NoName, prefix>>}

\* A table that routes everything; one with an entry that has no space and
\* the group's account under its other role; an edit that is not JSON; and a
\* table that misses one alarm and has a plain string for the other's entry.
SomeContents ==
    {grp :> First @@ DefaultRoute :> Mine, grp :> NoSpace @@ prefix :> Second, NoTable,
     grp :> NotDict}
=============================================================================
