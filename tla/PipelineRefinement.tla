------------------------- MODULE PipelineRefinement -------------------------
(***************************************************************************)
(* AlarmPipeline implements AlarmPromise. The mapping forgets which        *)
(* environment, request or message stands for an alarm and keeps only      *)
(* where the alarm is accounted for.                                       *)
(***************************************************************************)
EXTENDS AlarmPipeline

CONSTANT NoAlarm

\* A redriven body that was base64 does not parse; and a
\* test, whose placeholders PRTG does not substitute, names no real sensor.
ASSUME PlainEvents ==
    /\ \A ev \in Events : ~ev.encoded
    /\ \A x, y \in Events : x.kind = "real" /\ y.kind = "test" => x.alarm # y.alarm

ASSUME NoAlarmIsNull == NoAlarm \notin Alarm

\* Notification n carried a real alarm, which the parser accepts.
Taken(n) == event[n] # NoEvent /\ event[n].kind = "real"

\* Some job of notification n is in one of the given conditions.
SomeJob(n, conditions) == \E k \in 0 .. MaxRedrives : fate[<<n, k>>] \in conditions

What == [n \in Notification |-> IF Taken(n) THEN event[n].alarm ELSE NoAlarm]
Owed == {n \in Notification : Taken(n) /\ SomeJob(n, {"open"})}
InvestigatedAlarms == {a \in Alarm : \E t \in tasks : Taken(t.job[1]) /\ AlarmOf(t.job) = a}
Kept == {n \in Notification : \E m \in dlq : m.job[1] = n}
Told == {n \in Notification : Taken(n) /\ SomeJob(n, Reported \union {"direct"})}

Promised == INSTANCE AlarmPromise WITH
    what <- What, owed <- Owed, investigated <- InvestigatedAlarms,
    kept <- Kept, told <- Told

\* Every behaviour of the pipeline is one AlarmPromise allows: nothing an
\* environment, the service or the operator does takes an alarm out of the
\* books.
ImplementsPromise == Promised!Spec
=============================================================================
