--------------------------- MODULE AlarmPipeline ---------------------------
(***************************************************************************)
(* The alarm pipeline: PRTG notifications, the warm Lambda environments    *)
(* that run alarm_pipeline/handler.py, the DevOps Agent backlog they       *)
(* create tasks in, the dead-letter queue they park alarms on, and the     *)
(* operator who redrives what was parked.                                  *)
(*                                                                         *)
(* An environment runs one invocation at a time, so the interleavings are  *)
(* those of the environments with each other, with requests the service    *)
(* is still working on, with the wall clock that the deduplication token   *)
(* is cut from, and with Lambda ending an invocation at its timeout.       *)
(* Between two calls that leave the process the handler runs in one step.  *)
(***************************************************************************)
EXTENDS Naturals, FiniteSets

CONSTANTS
    Env,              \* Lambda execution environments
    Notification,     \* names for the notifications PRTG sends
    Alarm,            \* what the token identifies: sensor, device and state
    Body,             \* everything else in the payload, as one value
    Space,            \* Agent Spaces, the targets of the routing table
    Events,           \* the events PRTG and API Gateway may deliver
    NoEvent, NoJob, NoToken, NoSpace,   \* null values
    Dedup,            \* DEDUP_WINDOW_MINUTES > 0
    SkipTests,        \* SKIP_TEST_NOTIFICATIONS
    QueueConfigured,  \* ALARM_DLQ_URL is set
    RouteOutcomes,    \* what Router.resolve may do, see the Router module
    RedriveWays,      \* how the operator replays a parked message
    SdkAttempts,      \* times the SDK sends one CreateBacklogTask call
    MaxBucket,        \* bound: deduplication windows the clock may enter
    MaxRedrives       \* bound: times one notification is redriven

\* An API Gateway proxy event. "test" is a body whose core fields still hold
\* placeholders, "malformed" one parse_alarm rejects; encoded is the event's
\* isBase64Encoded flag.
Event == [alarm : Alarm, body : Body, kind : {"real", "test", "malformed"},
          encoded : BOOLEAN]

ASSUME EventsAssumption == Events \subseteq Event /\ NoEvent \notin Event

ASSUME SwitchAssumption ==
    /\ Dedup \in BOOLEAN /\ SkipTests \in BOOLEAN /\ QueueConfigured \in BOOLEAN
    /\ RouteOutcomes \subseteq {"Target", "RoutingError", "AttributeError"}
    /\ RedriveWays \subseteq {"handler", "direct"}

ASSUME RouteAssumption == RouteOutcomes # {}

ASSUME BoundAssumption ==
    SdkAttempts \in Nat \ {0} /\ MaxBucket \in Nat /\ MaxRedrives \in Nat

\* The first delivery of a notification and each redrive of it are jobs.
Job == Notification \X (0 .. MaxRedrives)

ASSUME NullAssumption ==
    /\ NoJob \notin Job /\ NoSpace \notin Space
    /\ NoToken \notin Alarm \X (0 .. MaxBucket)

Token == (Alarm \X (0 .. MaxBucket)) \union {NoToken}

\* One CreateBacklogTask request as the service sees it: agentSpaceId is the
\* space, and a backlog belongs to one.
Request == [job : Job, try : 1 .. SdkAttempts, token : Token, space : Space]

Reason == {"routing_failed", "insufficient_time_remaining",
           "investigation_creation_failed"}

\* What is kept of a dead-letter message: originalEvent and correlationId
\* are the job, clientToken is the token. It does not say which Agent Space
\* the alarm was routed to.
Message == [job : Job, token : Token, reason : Reason]

\* How an invocation ended, named for what it logged or answered:
\*   rejected      400, payload_rejected
\*   acknowledged  200, test_notification_acknowledged
\*   created       200, investigation_created
\*   suppressed    200, investigation_suppressed
\*   parked        5xx, alarm_parked
\*   parkFailed    5xx, alarm_park_failed
\*   unconfigured  5xx, alarm_park_unconfigured
\*   skipped       5xx, park_skipped_for_test_notification
\*   escaped       502, an exception no except clause of handler() caught
\*   killed        the sandbox was ended at the function timeout
\*   direct        not an invocation: the operator called CreateBacklogTask
Ended == {"rejected", "acknowledged", "created", "suppressed", "parked",
          "parkFailed", "unconfigured", "skipped", "escaped", "killed", "direct"}

VARIABLES
    bucket,   \* int(time.time() // window), the bucket in force
    event,    \* event[n]: what was delivered for notification n
    arrived,  \* arrived[j]: the bucket in force when job j was taken up
    fate,     \* fate[j]: "none", "open" while in hand, or a member of Ended
    pc,       \* pc[e]: the next step of the invocation environment e runs
    job,      \* job[e]: the job it runs
    target,   \* target[e]: the Agent Space it was routed to
    token,    \* token[e]: the token it computed last
    tries,    \* tries[e]: attempts the SDK has sent
    reply,    \* reply[e]: what came back for the latest attempt
    reason,   \* reason[e]: why the alarm is being parked
    wire,     \* requests sent that the service has not processed
    tasks,    \* requests the service turned into backlog tasks
    dlq,      \* messages on the dead-letter queue
    created   \* investigation_created log lines

envVars == <<pc, job, target, token, tries, reply, reason>>
vars == <<bucket, event, arrived, fate, pc, job, target, token, tries, reply, reason,
          wire, tasks, dlq, created>>

TypeOK ==
    /\ bucket \in 0 .. MaxBucket
    /\ event \in [Notification -> Events \union {NoEvent}]
    /\ arrived \in [Job -> 0 .. MaxBucket]
    /\ fate \in [Job -> Ended \union {"none", "open"}]
    /\ pc \in [Env -> {"idle", "route", "client", "wait", "send"}]
    /\ job \in [Env -> Job \union {NoJob}]
    /\ target \in [Env -> Space \union {NoSpace}]
    /\ token \in [Env -> Token]
    /\ tries \in [Env -> 0 .. SdkAttempts]
    /\ reply \in [Env -> {"none", "ok", "conflict", "error", "retry"}]
    /\ reason \in [Env -> Reason \union {"none"}]
    /\ wire \subseteq Request
    /\ tasks \subseteq Request
    /\ dlq \subseteq Message
    /\ created \subseteq [job : Job, token : Token]

Init ==
    /\ bucket = 0
    /\ event = [n \in Notification |-> NoEvent]
    /\ arrived = [j \in Job |-> 0]
    /\ fate = [j \in Job |-> "none"]
    /\ pc = [e \in Env |-> "idle"]
    /\ job = [e \in Env |-> NoJob]
    /\ target = [e \in Env |-> NoSpace]
    /\ token = [e \in Env |-> NoToken]
    /\ tries = [e \in Env |-> 0]
    /\ reply = [e \in Env |-> "none"]
    /\ reason = [e \in Env |-> "none"]
    /\ wire = {} /\ tasks = {} /\ dlq = {} /\ created = {}

-----------------------------------------------------------------------------
\* Mutant of DeduplicationToken: the window never rolls over.
EternalToken(a) == IF Dedup THEN <<a, 0>> ELSE NoToken

\* deduplication_token: the alarm's identity and the fixed time bucket.
DeduplicationToken(a) == IF Dedup THEN <<a, bucket>> ELSE NoToken

\* The parked originalEvent carries the body and the content type only, so a
\* redriven body that was base64 is parsed as if it were plain text.
Parses(j, ev) == ev.kind # "malformed" /\ (j[2] = 0 \/ ~ev.encoded)

EventOf(j) == event[j[1]]
AlarmOf(j) == EventOf(j).alarm
\* The request in hand, as attempt number try with token tok.
Attempt(e, try, tok) ==
    [job |-> job[e], try |-> try, token |-> tok, space |-> target[e]]
RequestOf(e) == Attempt(e, tries[e], token[e])
MessageOf(e) == [job |-> job[e], token |-> token[e], reason |-> reason[e]]

\* The invocation of e is over and e is free for the next one.
Finish(e, f) ==
    /\ fate' = [fate EXCEPT ![job[e]] = f]
    /\ pc' = [pc EXCEPT ![e] = "idle"]
    /\ job' = [job EXCEPT ![e] = NoJob]
    /\ target' = [target EXCEPT ![e] = NoSpace]
    /\ token' = [token EXCEPT ![e] = NoToken]
    /\ tries' = [tries EXCEPT ![e] = 0]
    /\ reply' = [reply EXCEPT ![e] = "none"]
    /\ reason' = [reason EXCEPT ![e] = "none"]

\* The message is composed and SendMessage is outstanding. The token is
\* computed from the clock as it stands now, not carried over from the
\* request that failed.
StartSend(e, why) ==
    /\ pc' = [pc EXCEPT ![e] = "send"]
    /\ token' = [token EXCEPT ![e] = DeduplicationToken(AlarmOf(job[e]))]
    /\ tries' = [tries EXCEPT ![e] = 0]
    /\ reply' = [reply EXCEPT ![e] = "none"]
    /\ reason' = [reason EXCEPT ![e] = why]
    /\ UNCHANGED <<fate, job, target>>

\* _park_alarm: tests are never parked, and without a queue nothing is.
Park(e, why) ==
    LET real == EventOf(job[e]).kind # "test"
    IN  \/ ~real /\ Finish(e, "skipped")
        \/ real /\ ~QueueConfigured /\ Finish(e, "unconfigured")
        \/ real /\ QueueConfigured /\ StartSend(e, why)

\* handler() up to its first call out of the process: parse, answer a
\* malformed body with 400 and a test notification with 200, or go on.
Begin(e, j, ev) ==
    /\ pc[e] = "idle"
    /\ fate[j] = "none"
    /\ arrived' = [arrived EXCEPT ![j] = bucket]
    /\ \/ /\ ~Parses(j, ev)
          /\ fate' = [fate EXCEPT ![j] = "rejected"]
          /\ UNCHANGED envVars
       \/ /\ Parses(j, ev) /\ ev.kind = "test" /\ SkipTests
          /\ fate' = [fate EXCEPT ![j] = "acknowledged"]
          /\ UNCHANGED envVars
       \/ /\ Parses(j, ev) /\ ~(ev.kind = "test" /\ SkipTests)
          /\ fate' = [fate EXCEPT ![j] = "open"]
          /\ pc' = [pc EXCEPT ![e] = "route"]
          /\ job' = [job EXCEPT ![e] = j]
          /\ UNCHANGED <<target, token, tries, reply, reason>>

\* PRTG posts notification n and API Gateway invokes the function with it.
Receive(e, n, ev) ==
    /\ event[n] = NoEvent
    /\ event' = [event EXCEPT ![n] = ev]
    /\ Begin(e, <<n, 0>>, ev)
    /\ UNCHANGED <<bucket, wire, tasks, dlq, created>>

\* _get_router().resolve(alarm) returns or raises; only a RoutingError is
\* caught and parked. Which target an alarm resolves to is any, as the table
\* may be edited between two notifications. With a target, the remaining time
\* decides whether the call is attempted: InvocationBudget models the seconds.
Route(e) ==
    /\ pc[e] = "route"
    /\ \/ /\ "Target" \in RouteOutcomes
          /\ \/ /\ pc' = [pc EXCEPT ![e] = "client"]
                /\ \E s \in Space : target' = [target EXCEPT ![e] = s]
                /\ UNCHANGED <<fate, job, token, tries, reply, reason>>
             \/ Park(e, "insufficient_time_remaining")
       \/ "RoutingError" \in RouteOutcomes /\ Park(e, "routing_failed")
       \/ "AttributeError" \in RouteOutcomes /\ Finish(e, "escaped")
    /\ UNCHANGED <<bucket, event, arrived, wire, tasks, dlq, created>>

\* Mutant of StartCall: the token is not put on the request.
StartCallWithoutToken(e) ==
    /\ pc[e] = "client"
    /\ pc' = [pc EXCEPT ![e] = "wait"]
    /\ tries' = [tries EXCEPT ![e] = 1]
    /\ wire' = wire \union {Attempt(e, 1, NoToken)}
    /\ UNCHANGED <<bucket, event, arrived, fate, job, target, token, reply, reason,
                   tasks, dlq, created>>

\* _agent_client returns or raises, and then the token is computed and the
\* first attempt sent: an AssumeRole that fails leaves nothing sent.
StartCall(e) ==
    /\ pc[e] = "client"
    /\ \/ /\ Park(e, "investigation_creation_failed")
          /\ UNCHANGED wire
       \/ LET tok == DeduplicationToken(AlarmOf(job[e]))
          IN  /\ pc' = [pc EXCEPT ![e] = "wait"]
              /\ token' = [token EXCEPT ![e] = tok]
              /\ tries' = [tries EXCEPT ![e] = 1]
              /\ wire' = wire \union {Attempt(e, 1, tok)}
              /\ UNCHANGED <<fate, job, target, reply, reason>>
    /\ UNCHANGED <<bucket, event, arrived, tasks, dlq, created>>

\* Mutants of Retry: no limit on the attempts, and attempts not counted.
RetryWithoutLimit(e) ==
    /\ pc[e] = "wait" /\ reply[e] \in {"none", "retry"}
    /\ tries' = [tries EXCEPT ![e] = @ + 1]
    /\ reply' = [reply EXCEPT ![e] = "none"]
    /\ UNCHANGED <<bucket, event, arrived, fate, pc, job, target, token, reason, wire,
                   tasks, dlq, created>>
RetryUncounted(e) ==
    /\ pc[e] = "wait" /\ reply[e] \in {"none", "retry"} /\ tries[e] < SdkAttempts
    /\ reply' = [reply EXCEPT ![e] = "none"]
    /\ UNCHANGED <<bucket, event, arrived, fate, pc, job, target, token, tries, reason,
                   wire, tasks, dlq, created>>

\* The SDK sends the same request again after a timeout or a retryable
\* error, while it has attempts left.
Retry(e) ==
    /\ pc[e] = "wait"
    /\ reply[e] \in {"none", "retry"}
    /\ tries[e] < SdkAttempts
    /\ tries' = [tries EXCEPT ![e] = @ + 1]
    /\ reply' = [reply EXCEPT ![e] = "none"]
    /\ wire' = wire \union {Attempt(e, tries[e] + 1, token[e])}
    /\ UNCHANGED <<bucket, event, arrived, fate, pc, job, target, token, reason, tasks, dlq,
                   created>>

\* A response: handler() logs investigation_created and answers 200, also
\* when the service replayed an existing task.
Succeed(e) ==
    /\ pc[e] = "wait" /\ reply[e] = "ok"
    /\ created' = created \union {[job |-> job[e], token |-> token[e]]}
    /\ Finish(e, "created")
    /\ UNCHANGED <<bucket, event, arrived, wire, tasks, dlq>>

\* ConflictException on a request that carried a token: the duplicate the
\* token exists to suppress.
Suppress(e) ==
    /\ pc[e] = "wait" /\ reply[e] = "conflict"
    /\ token[e] # NoToken
    /\ Finish(e, "suppressed")
    /\ UNCHANGED <<bucket, event, arrived, wire, tasks, dlq, created>>

\* Mutant of Fail: the reason of the time check is recorded.
FailMisnamed(e) ==
    /\ pc[e] = "wait" /\ reply[e] \in {"none", "retry"} /\ tries[e] = SdkAttempts
    /\ Park(e, "insufficient_time_remaining")
    /\ UNCHANGED <<bucket, event, arrived, wire, tasks, dlq, created>>

\* Any other exception out of the call, or the attempts are used up.
Fail(e) ==
    /\ pc[e] = "wait"
    /\ \/ reply[e] = "error"
       \/ reply[e] = "conflict" /\ token[e] = NoToken
       \/ reply[e] \in {"none", "retry"} /\ tries[e] = SdkAttempts
    /\ Park(e, "investigation_creation_failed")
    /\ UNCHANGED <<bucket, event, arrived, wire, tasks, dlq, created>>

\* Mutant of SendPark: alarm_parked is logged although SendMessage raised.
SendParkUnchecked(e) ==
    /\ pc[e] = "send"
    /\ dlq' \in {dlq, dlq \union {MessageOf(e)}}
    /\ Finish(e, "parked")
    /\ UNCHANGED <<bucket, event, arrived, wire, tasks, created>>

\* SendMessage returns, or raises; a call that raised may have enqueued.
SendPark(e) ==
    /\ pc[e] = "send"
    /\ \/ dlq' = dlq \union {MessageOf(e)} /\ Finish(e, "parked")
       \/ dlq' \in {dlq, dlq \union {MessageOf(e)}} /\ Finish(e, "parkFailed")
    /\ UNCHANGED <<bucket, event, arrived, wire, tasks, created>>

\* The deadline passes: the sandbox ends where it stands and raises nothing,
\* though a message already on its way to the queue may arrive.
Kill(e) ==
    /\ pc[e] # "idle"
    /\ \/ UNCHANGED dlq
       \/ pc[e] = "send" /\ dlq' = dlq \union {MessageOf(e)}
    /\ Finish(e, "killed")
    /\ UNCHANGED <<bucket, event, arrived, wire, tasks, created>>

-----------------------------------------------------------------------------
\* The backlog service. In one Agent Space a token names at most one task; the
\* same token with the same body replays that task and with another body is a
\* conflict.
Holders(r) == {t \in tasks : r.token # NoToken /\ t.token = r.token /\ t.space = r.space}

\* The answer reaches the environment that waits for it, or is lost.
Deliver(r, ans) ==
    \/ UNCHANGED reply
    \/ reply' = [e \in Env |-> IF pc[e] = "wait" /\ RequestOf(e) = r
                                 THEN ans ELSE reply[e]]

Serve(r) ==
    /\ wire' = wire \ {r}
    /\ \/ /\ Holders(r) = {}
          /\ tasks' = tasks \union {r}
          /\ Deliver(r, "ok")
       \/ /\ \E t \in Holders(r) : EventOf(t.job).body = EventOf(r.job).body
          /\ Deliver(r, "ok")
          /\ UNCHANGED tasks
       \/ /\ \E t \in Holders(r) : EventOf(t.job).body # EventOf(r.job).body
          /\ Deliver(r, "conflict")
          /\ UNCHANGED tasks
       \/ /\ \E ans \in {"error", "retry"} : Deliver(r, ans)
          /\ UNCHANGED tasks
       \/ /\ r.token = NoToken
          /\ Deliver(r, "conflict")
          /\ UNCHANGED tasks
    /\ UNCHANGED <<bucket, event, arrived, fate, pc, job, target, token, tries, reason, dlq,
                   created>>

\* The clock enters the next deduplication window.
Tick ==
    /\ bucket < MaxBucket
    /\ bucket' = bucket + 1
    /\ UNCHANGED <<event, arrived, fate, pc, job, target, token, tries, reply, reason, wire,
                   tasks, dlq, created>>

-----------------------------------------------------------------------------
\* The operator takes m off the queue; the queue delivers at least once, so
\* the message may also stay.
TakeOff(m) == dlq' \in {dlq, dlq \ {m}}

NextRun(n, k) ==
    k > 0 /\ fate[<<n, k>>] = "none" /\ fate[<<n, k - 1>>] # "none"

\* originalEvent handed back to the function.
RedriveThroughHandler(e, m, k) ==
    /\ "handler" \in RedriveWays
    /\ NextRun(m.job[1], k)
    /\ TakeOff(m)
    /\ Begin(e, <<m.job[1], k>>, EventOf(m.job))
    /\ UNCHANGED <<bucket, event, wire, tasks, created>>

\* CreateBacklogTask called by hand with the parked clientToken, in an Agent
\* Space of the operator's choice.
RedriveDirectly(m, k) ==
    /\ "direct" \in RedriveWays
    /\ NextRun(m.job[1], k)
    /\ TakeOff(m)
    /\ arrived' = [arrived EXCEPT ![<<m.job[1], k>>] = bucket]
    /\ fate' = [fate EXCEPT ![<<m.job[1], k>>] = "direct"]
    /\ \E s \in Space :
           wire' = wire \union
               {[job |-> <<m.job[1], k>>, try |-> 1, token |-> m.token, space |-> s]}
    /\ UNCHANGED <<bucket, event, pc, job, target, token, tries, reply, reason, tasks,
                   created>>

Step(e) ==
    Route(e) \/ StartCall(e) \/ Retry(e) \/ Succeed(e) \/ Suppress(e) \/ Fail(e)
        \/ SendPark(e)

Next ==
    \/ \E e \in Env, n \in Notification, ev \in Events : Receive(e, n, ev)
    \/ \E e \in Env : Step(e) \/ Kill(e)
    \/ \E r \in wire : Serve(r)
    \/ Tick
    \/ \E m \in dlq, k \in 0 .. MaxRedrives :
           RedriveDirectly(m, k) \/ \E e \in Env : RedriveThroughHandler(e, m, k)

\* An environment that has something to do next does it: the SDK's attempts
\* and SendMessage are bounded by their timeouts.
Fairness == \A e \in Env : WF_vars(Step(e))

Spec == Init /\ [][Next]_vars
FairSpec == Spec /\ Fairness
-----------------------------------------------------------------------------
\* The alarm of notification n has an investigation.
Investigated(n) == \E t \in tasks : AlarmOf(t.job) = event[n].alarm

\* Answered 200 as an alarm dealt with: there is a task for that very sensor
\* and state, and with deduplication on it belongs to a window no older than
\* the one the alarm arrived in, however late, lost or repeated the service's
\* answers were. A wrong suppression is a missed incident nothing reports.
AcceptedIsInvestigated ==
    \A j \in Job :
        fate[j] \in {"created", "suppressed"} =>
            \E t \in tasks :
                /\ AlarmOf(t.job) = AlarmOf(j)
                /\ Dedup => t.token[2] >= arrived[j]

\* Endings PRTG sees as a 5xx and the dead-letter queue does not show.
Reported == {"parkFailed", "unconfigured", "escaped", "killed"}

\* Someone can still find the alarm of n: it has a task, is on the queue, is
\* being handled, is in the operator's hands, or PRTG was told of an error.
Accounted(n) ==
    \/ Investigated(n)
    \/ \E m \in dlq : m.job[1] = n
    \/ \E k \in 0 .. MaxRedrives : fate[<<n, k>>] \in {"open", "direct"} \union Reported

\* A real alarm is never silently lost, at any moment. This spans redrives,
\* which take the message off before they know what will become of it.
NoSilentLoss ==
    \A n \in Notification :
        event[n] # NoEvent /\ event[n].kind = "real" /\ fate[<<n, 0>>] # "rejected" =>
            Accounted(n)

\* Until the window rolls over, every notification of one alarm that arrived
\* in it, in whichever environment, retried, redelivered or redriven, shares
\* one task of the Agent Space it was routed to. An alarm that an edit of the
\* table routes elsewhere within its window has one in either.
OneInvestigationPerWindow ==
    Dedup => \A t1, t2 \in tasks :
        /\ AlarmOf(t1.job) = AlarmOf(t2.job) /\ t1.space = t2.space
        /\ arrived[t1.job] = bucket /\ arrived[t2.job] = bucket
        /\ fate[t1.job] # "direct" /\ fate[t2.job] # "direct"
        => t1 = t2

\* The worst case the documentation accepts, "one duplicate rather than one
\* per poll": a sensor that stays in a state for several windows has no more
\* tasks in an Agent Space than windows have begun, however often it is
\* notified, retried by the SDK, redriven and routed elsewhere and back. PRTG
\* notifies without end.
BacklogIsBounded ==
    Dedup => \A a \in Alarm, s \in Space :
        Cardinality({t \in tasks : AlarmOf(t.job) = a /\ t.space = s}) <= bucket + 1

\* A message that says the call was not attempted is right about the
\* invocation it comes from: no request of that run is on its way or has
\* become a task. What an earlier run of the same notification sent before it
\* was parked and redriven is another matter, and the token's.
UntriedIsUnsent ==
    \A m \in dlq :
        m.reason \in {"routing_failed", "insufficient_time_remaining"} =>
            \A r \in wire \union tasks : r.job # m.job

\* Every invocation ends, whatever the service does with its requests.
InvocationEnds ==
    \A j \in Job : fate[j] = "open" ~> fate[j] # "open"

-----------------------------------------------------------------------------
\* What the documentation says and the code does not do: a run finds it
\* violated.

\* "A redrive that passes this token through dedupes correctly against
\* anything the original attempt managed to create": one notification never
\* has two investigations.
OneInvestigationPerNotification ==
    \A t1, t2 \in tasks : t1.job[1] = t2.job[1] => t1 = t2
=============================================================================
