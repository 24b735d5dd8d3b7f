---------------------------- MODULE AlarmPromise ----------------------------
(***************************************************************************)
(* What the pipeline promises about an alarm, with no environments,        *)
(* requests, tokens or queue messages in sight: an alarm once taken up is  *)
(* investigated, or kept for a redrive, or somebody has been told that it  *)
(* was not. AlarmPipeline is shown to implement this specification.        *)
(***************************************************************************)
CONSTANTS Notification, Alarm, NoAlarm

VARIABLES
    what,          \* what[n]: the alarm notification n reported, once taken up
    owed,          \* notifications being handled
    investigated,  \* alarms the backlog has a task for
    kept,          \* notifications held for a redrive
    told           \* notifications whose failure was answered with an error,
                   \* or that an operator has taken into his own hands

vars == <<what, owed, investigated, kept, told>>

TypeOK ==
    /\ what \in [Notification -> Alarm \union {NoAlarm}]
    /\ investigated \subseteq Alarm
    /\ owed \subseteq Notification
    /\ kept \subseteq Notification
    /\ told \subseteq Notification

Init ==
    /\ what = [n \in Notification |-> NoAlarm]
    /\ owed = {} /\ investigated = {} /\ kept = {} /\ told = {}

\* A notification is taken up.
Take(n, a) ==
    /\ what[n] = NoAlarm
    /\ what' = [what EXCEPT ![n] = a]
    /\ owed' = owed \union {n}
    /\ UNCHANGED <<investigated, kept, told>>

\* An investigation appears: for a notification in hand, or later, when the
\* service gets to a request whose sender has given up.
Investigate(n) ==
    /\ what[n] # NoAlarm
    /\ investigated' = investigated \union {what[n]}
    /\ UNCHANGED <<what, owed, kept, told>>

\* One attempt at n comes to an end; others may still be under way.
Settle(n) ==
    /\ n \in owed
    /\ owed' \in {owed, owed \ {n}}
    /\ \/ what[n] \in investigated /\ UNCHANGED <<kept, told>>
       \/ kept' = kept \union {n} /\ UNCHANGED told
       \/ kept' \in {kept, kept \union {n}} /\ told' = told \union {n}
    /\ UNCHANGED <<what, investigated>>

\* What was kept is tried again, by the pipeline or by hand.
Redrive(n) ==
    /\ n \in kept
    /\ kept' \in {kept, kept \ {n}}
    /\ \/ owed' = owed \union {n} /\ UNCHANGED told
       \/ told' = told \union {n} /\ UNCHANGED owed
    /\ UNCHANGED <<what, investigated>>

Next ==
    \E n \in Notification :
        (\E a \in Alarm : Take(n, a)) \/ Investigate(n) \/ Settle(n) \/ Redrive(n)

Spec == Init /\ [][Next]_vars

\* No alarm taken up is ever silently lost.
Promise ==
    \A n \in Notification :
        what[n] # NoAlarm =>
            n \in owed \union kept \union told \/ what[n] \in investigated

=============================================================================
