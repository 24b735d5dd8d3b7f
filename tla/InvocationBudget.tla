-------------------------- MODULE InvocationBudget --------------------------
(***************************************************************************)
(* How one invocation of alarm_pipeline/handler.py spends its time, and    *)
(* where Lambda's timeout can catch it. A timeout ends the process and     *)
(* raises nothing, so an alarm in hand at that moment is neither           *)
(* investigated nor parked.                                                *)
(*                                                                         *)
(* Time is counted in half seconds, the coarsest unit in which every value *)
(* the code derives from a whole number of seconds is exact.               *)
(***************************************************************************)
EXTENDS Naturals

CONSTANTS
    Timeouts,      \* function timeouts considered, in half seconds
    SlowestRoute,  \* longest Router.resolve, an SSM read when it is not cached
    SlowestClient, \* longest _agent_client, an AssumeRole when it is not cached
    SdkAttempts,   \* times the SDK sends a call: botocore counts the retries only,
                   \* three with its max_attempts at 2
    SdkBackoff,    \* longest pause of the SDK between two attempts
    Clocks,        \* whether the context may report the remaining time
    TimeoutPassed  \* the stack sets FUNCTION_TIMEOUT_SECONDS

Seconds(s) == 2 * s

ParkReserve == Seconds(8)              \* _PARK_RESERVE_SECONDS
AgentMaxAttempts == 2                  \* _AGENT_MAX_ATTEMPTS, the code's divisor
DefaultTimeout == Seconds(30)          \* _DEFAULT_FUNCTION_TIMEOUT_SECONDS

\* _get_sqs: connect 1, read 3.
SqsPerAttempt == Seconds(1) + Seconds(3)

ASSUME TimeAssumption ==
    /\ Timeouts \subseteq Nat \ {0} /\ \A t \in Timeouts : t % 2 = 0
    /\ SlowestRoute \in Nat /\ SlowestClient \in Nat /\ SdkBackoff \in Nat
    /\ SdkAttempts \in Nat \ {0}
    /\ Clocks \subseteq BOOLEAN /\ TimeoutPassed \in BOOLEAN

VARIABLES
    timeout,    \* the function's timeout
    hasClock,   \* whether the context reports the remaining time
    pc,         \* the step in hand, or the last one when outcome is set
    elapsed,    \* time spent so far
    tries,      \* attempts at CreateBacklogTask
    sends,      \* attempts at SendMessage
    callStart,  \* when the call began
    parkStart,  \* when the park began
    outcome     \* how the invocation ended

vars == <<timeout, hasClock, pc, elapsed, tries, sends, callStart, parkStart, outcome>>

\* "cut" is the deadline; pc then says where it struck.
Endings == {"answered", "parked", "parkFailed", "cut"}

TypeOK ==
    /\ timeout \in Timeouts
    /\ hasClock \in BOOLEAN
    /\ pc \in {"route", "check", "client", "call", "send"}
    /\ elapsed \in Nat /\ elapsed <= timeout
    /\ tries \in 0 .. SdkAttempts
    /\ sends \in 0 .. SdkAttempts
    /\ callStart \in Nat /\ parkStart \in Nat
    /\ outcome \in {"none"} \union Endings

Init ==
    /\ timeout \in Timeouts
    /\ hasClock \in Clocks
    /\ pc = "route"
    /\ elapsed = 0 /\ tries = 0 /\ sends = 0
    /\ callStart = 0 /\ parkStart = 0
    /\ outcome = "none"

-----------------------------------------------------------------------------
\* _function_timeout_seconds: the environment variable, or 30 s without it.
FunctionTimeout == IF TimeoutPassed THEN timeout ELSE DefaultTimeout

\* Mutant of AgentCallBudget: the reserve is not held back.
BudgetWithoutReserve == FunctionTimeout

\* _agent_call_budget_seconds: what is left of the timeout after the reserve,
\* and 6 s at least.
AgentCallBudget ==
    IF FunctionTimeout < Seconds(6) + ParkReserve
    THEN Seconds(6)
    ELSE FunctionTimeout - ParkReserve

\* The connect and read timeouts of one attempt add up to its share.
PerAttempt == AgentCallBudget \div AgentMaxAttempts

Remaining == timeout - elapsed

At(step) == pc = step /\ outcome = "none"

\* A call that takes d returns, unless the deadline comes first.
Returns(d) == d <= Remaining /\ elapsed' = elapsed + d

\* Lambda ends the process in the middle of a call that takes d.
Cut(d) ==
    /\ d > Remaining
    /\ elapsed' = timeout
    /\ outcome' = "cut"
    /\ UNCHANGED <<timeout, hasClock, pc, tries, sends, callStart, parkStart>>

\* _park_alarm begins; what it does before SendMessage takes no time.
StartPark ==
    /\ pc' = "send"
    /\ parkStart' = elapsed'
    /\ UNCHANGED <<timeout, hasClock, sends, outcome>>

\* _get_router().resolve(alarm) returns a target, or its RoutingError is
\* parked.
Resolve ==
    /\ At("route")
    /\ \E d \in 0 .. SlowestRoute :
          \/ Cut(d)
          \/ /\ Returns(d)
             /\ \/ /\ pc' = "check"
                   /\ UNCHANGED <<timeout, hasClock, sends, parkStart, outcome>>
                \/ StartPark
             /\ UNCHANGED <<tries, callStart>>

\* Mutant of CheckTime: the check is left out.
CheckNothing ==
    /\ At("check")
    /\ pc' = "client"
    /\ UNCHANGED <<timeout, hasClock, elapsed, tries, sends, callStart, parkStart, outcome>>

\* The remaining time is compared with the reserve, and not with what the
\* call may take; without a clock there is no check.
CheckTime ==
    /\ At("check")
    /\ UNCHANGED <<elapsed, tries, callStart>>
    /\ \/ hasClock /\ Remaining < ParkReserve /\ StartPark
       \/ /\ ~(hasClock /\ Remaining < ParkReserve)
          /\ pc' = "client"
          /\ UNCHANGED <<timeout, hasClock, sends, parkStart, outcome>>

\* _agent_client: from the cache, or built after an AssumeRole that the
\* budget does not bound; its failure is parked.
GetClient ==
    /\ At("client")
    /\ \E d \in 0 .. SlowestClient :
          \/ Cut(d)
          \/ /\ Returns(d)
             /\ \/ /\ pc' = "call"
                   /\ callStart' = elapsed'
                   /\ UNCHANGED <<timeout, hasClock, sends, parkStart, outcome>>
                \/ StartPark /\ UNCHANGED callStart
             /\ UNCHANGED tries

\* Mutant of Attempt: the pauses are taken, and the attempts not counted.
AttemptUncounted ==
    /\ At("call")
    /\ \E d \in 0 .. PerAttempt, pause \in 0 .. SdkBackoff :
          \/ Cut(d + pause)
          \/ /\ Returns(d + pause)
             /\ UNCHANGED <<timeout, hasClock, pc, tries, sends, callStart, parkStart,
                            outcome>>

\* One attempt of the call: an answer ends the invocation, an error that is
\* not retried or comes on the last attempt is parked, any other failure is
\* followed by a pause and the next attempt.
Attempt ==
    /\ At("call") /\ tries < SdkAttempts
    /\ \E d \in 0 .. PerAttempt, pause \in 0 .. SdkBackoff :
          \/ Cut(d)
          \/ /\ Returns(d)
             /\ outcome' = "answered"
             /\ tries' = tries + 1
             /\ UNCHANGED <<timeout, hasClock, pc, sends, callStart, parkStart>>
          \/ /\ Returns(d)
             /\ tries' = tries + 1
             /\ StartPark
             /\ UNCHANGED callStart
          \/ /\ tries + 1 < SdkAttempts
             /\ Returns(d + pause)
             /\ tries' = tries + 1
             /\ UNCHANGED <<timeout, hasClock, pc, sends, callStart, parkStart, outcome>>
          \/ tries + 1 < SdkAttempts /\ Cut(d + pause)

\* Mutant of Send: SendMessage is tried for as long as there is time.
SendForever ==
    /\ At("send")
    /\ \E d \in 0 .. SqsPerAttempt : Returns(d)
    /\ sends' = sends + 1
    /\ UNCHANGED <<timeout, hasClock, pc, tries, callStart, parkStart, outcome>>

\* Mutant of Send: the SQS client is built without its timeouts.
SendWithoutTimeouts ==
    /\ At("send") /\ sends < SdkAttempts
    /\ \E d \in 0 .. Seconds(60) :
          \/ Cut(d)
          \/ /\ Returns(d)
             /\ sends' = sends + 1
             /\ outcome' \in {"parked", "parkFailed"}
             /\ UNCHANGED <<timeout, hasClock, pc, tries, callStart, parkStart>>

\* One attempt of SendMessage, by a client built with max_attempts 2 as well.
Send ==
    /\ At("send") /\ sends < SdkAttempts
    /\ \E d \in 0 .. SqsPerAttempt, pause \in 0 .. SdkBackoff :
          \/ Cut(d)
          \/ /\ Returns(d)
             /\ sends' = sends + 1
             /\ outcome' \in {"parked", "parkFailed"}
             /\ UNCHANGED <<timeout, hasClock, pc, tries, callStart, parkStart>>
          \/ /\ sends + 1 < SdkAttempts
             /\ Returns(d + pause)
             /\ sends' = sends + 1
             /\ UNCHANGED <<timeout, hasClock, pc, tries, callStart, parkStart, outcome>>
          \/ sends + 1 < SdkAttempts /\ Cut(d + pause)

Next == Resolve \/ CheckTime \/ GetClient \/ Attempt \/ Send

Spec == Init /\ [][Next]_vars

-----------------------------------------------------------------------------
\* The deadline struck during this step.
CutIn(step) == outcome = "cut" /\ pc = step

\* The call was reached with nothing spent: the route came from memory and
\* the client was warm.
Prompt == callStart = 0 /\ tries > 0

\* An alarm whose call began at once is cut off no earlier than in a third
\* send of the call; after two, the ones the code counts on, the message for
\* the queue is sent at least once in full. This is what the budget of 6 s at
\* least, its division among the attempts, the reserve and the SQS timeouts
\* come to together where the SDK pauses between sends, and sends once more
\* than _AGENT_MAX_ATTEMPTS says.
PromptAlarmIsCutLate ==
    Prompt /\ timeout >= Seconds(6) + ParkReserve =>
        /\ CutIn("call") => tries >= AgentMaxAttempts
        /\ CutIn("send") => tries > AgentMaxAttempts \/ sends > 0

\* The longest n sends of the call, and of SendMessage, take with the pauses
\* after them.
CallTime(n) == n * (PerAttempt + SdkBackoff)
SendTime(n) == n * (SqsPerAttempt + SdkBackoff)

\* The deadline strikes in a send of the call only when the call was begun with
\* less time left than the sends up to that one may take, which the check
\* lets pass: what the attempts are given by _agent_call_budget_seconds is all
\* that they use.
CutCallStartedLate == CutIn("call") => callStart + CallTime(tries + 1) > timeout

\* A park is cut off in its n-th send only when it was begun with less time
\* left than n sends may take: with the reserve in hand and attempts that fit
\* into it, it ends in parked or parkFailed, which an alarm can see.
CutParkStartedLate == CutIn("send") => parkStart + SendTime(sends + 1) > timeout

\* With a clock, a call begins with the reserve still unspent, except for
\* what building the client took after the check.
CheckedCallHasReserve ==
    hasClock /\ tries > 0 => callStart + ParkReserve <= timeout + SlowestClient

\* "Now the call is not started unless there is time left to recover from
\* it": no alarm is cut off inside the call.
StartedCallIsRecoverable == ~CutIn("call")
=============================================================================
