--------------------------- MODULE Observability ---------------------------
(***************************************************************************)
(* infrastructure/constructs/observability.py: alarms on metrics, as       *)
(* _alarm and _log_metric declare them and CloudWatch evaluates them. Time *)
(* is a sequence of metric periods of five minutes.                        *)
(***************************************************************************)
EXTENDS Naturals

CONSTANTS
    Watch,      \* the alarms, each named for its metric
    Threshold,  \* Threshold[w]: the sum or maximum that breaches
    Periods,    \* Periods[w]: evaluation_periods
    LogMetric,  \* those whose metric is a filter on the function's log
    Topic       \* there is a topic to notify

ASSUME WatchAssumption ==
    /\ Threshold \in [Watch -> Nat \ {0}]
    /\ Periods \in [Watch -> Nat \ {0}]
    /\ LogMetric \subseteq Watch
    /\ Topic \in BOOLEAN

VARIABLES
    prefixed,  \* log lines are not JSON documents, see Counted
    sample,    \* sample[w]: its metric in the current period, up to Threshold[w]
    breached,  \* breached[w]: periods in a row it breached, up to Periods[w]
    told       \* the alarms the topic was notified of when the last period ended

obsVars == <<prefixed, sample, breached, told>>

InAlarm(w) == breached[w] = Periods[w]

ObsTypeOK ==
    /\ prefixed \in BOOLEAN
    /\ \A w \in Watch : sample[w] \in 0 .. Threshold[w]
    /\ \A w \in Watch : breached[w] \in 0 .. Periods[w]
    /\ told \subseteq Watch

ObsInit ==
    /\ prefixed \in BOOLEAN
    /\ sample = [w \in Watch |-> 0]
    /\ breached = [w \in Watch |-> 0]
    /\ told = {}

\* Which of the metrics ws a log line or an answer counts in. A filter of the
\* form { $.event = ... } matches a line that is a JSON document, which it is
\* not behind the level, time and request id the Lambda runtime writes before
\* every line in its text format: either is possible here.
Counted(ws) == IF prefixed THEN ws \ LogMetric ELSE ws

Record(ws) ==
    /\ sample' = [w \in Watch |->
                     IF w \in Counted(ws) /\ sample[w] < Threshold[w]
                     THEN sample[w] + 1 ELSE sample[w]]
    /\ UNCHANGED <<prefixed, breached, told>>

\* How many periods in a row w will have breached when this one ends.
Evaluated(w) ==
    IF sample[w] < Threshold[w] THEN 0
    ELSE IF InAlarm(w) THEN Periods[w] ELSE breached[w] + 1

\* Mutant of ClosePeriod: a period without data leaves an alarm as it is
\* (treat_missing_data IGNORE).
ClosePeriodKeeping(next) ==
    /\ breached' = [w \in Watch |->
                       IF sample[w] = 0 THEN breached[w] ELSE Evaluated(w)]
    /\ told' = {w \in Watch : Topic /\ ~InAlarm(w) /\ breached'[w] = Periods[w]}
    /\ sample' = next
    /\ UNCHANGED prefixed

\* A period ends: every alarm is evaluated, no data is not breaching, and an
\* alarm that goes off notifies the topic, if there is one. next: what the
\* metrics of levels, not events, begin the next period with.
ClosePeriod(next) ==
    /\ breached' = [w \in Watch |-> Evaluated(w)]
    /\ told' = {w \in Watch : Topic /\ ~InAlarm(w) /\ Evaluated(w) = Periods[w]}
    /\ sample' = next
    /\ UNCHANGED prefixed
=============================================================================
