----------------------------- MODULE Operations -----------------------------
(***************************************************************************)
(* The alarm pipeline in operation: PRTG renders notifications of its      *)
(* sensors from the template, the parser turns them into the events of     *)
(* AlarmPipeline, and what its invocations log, raise and answer moves the *)
(* alarms alarm_pipeline_stack.py declares on them, period by period.      *)
(***************************************************************************)
EXTENDS AlarmPipeline, Payload, Observability

CONSTANTS
    Sensor,         \* PRTG sensors, with their id, name, deviceId, device, priority
    Status,         \* states a sensor may be in
    Text,           \* messages
    Unsupported,    \* fields whose placeholder the local PRTG does not know
    Unsubstituted,  \* a placeholder PRTG left as it was
    Notes           \* the notifications PRTG sends

\* What PRTG knows when it sends a notification, or an operator's test.
Note == [sensor : Sensor, status : Status, message : Text, encoding : Encodings,
         test : BOOLEAN]

ASSUME PrtgAssumption ==
    /\ Sensor \subseteq [id : Value, name : Value, deviceId : Value, device : Value,
                         priority : Value]
    /\ Status \subseteq Value /\ Text \subseteq Value
    /\ Unsupported \subseteq Fields \ CoreFields
    /\ Unsubstituted \in Percent
    /\ Notes \subseteq Note

\* Ids are unique numbers, priorities and states words of PRTG's own, and an
\* object has a name.
ASSUME NamesAssumption ==
    /\ \A s \in Sensor : \A r \in Sensor \ {s} : s.id # r.id
    /\ \A v \in Status \union UNION {{s.id, s.deviceId} : s \in Sensor} :
           v \notin Percent \union {Blank} /\ ~Barred(v)
    /\ \A s \in Sensor : s.priority \notin Percent /\ Blank \notin {s.name, s.device}

\* What the parser sees does not tell s from r: it sees no id of a sensor, and
\* they have one name on one device, or the bars in the names of sensor and
\* device make the two read alike.
Written(s) == Segments[s.name] \o Segments[s.device]
Alike(s, r) ==
    /\ "sensorId" \in Unsupported
    /\ IF "deviceId" \in Unsupported THEN Written(s) = Written(r)
       ELSE s.name = r.name /\ s.deviceId = r.deviceId

\* The stack wires a queue and leaves tests to be acknowledged, and knows
\* these alarms. Those on the queue and on 5xx answers go off at one, the one on
\* 4xx answers at its threshold, all three in the same period.
ASSUME StackAssumption ==
    /\ QueueConfigured /\ SkipTests
    /\ Watch \subseteq {"LambdaErrors", "LambdaThrottles", "RoutingFailures", "AlarmsLost",
                        "DeadLetters", "ApiClientErrors", "ApiServerErrors"}
    /\ LogMetric \subseteq {"RoutingFailures", "AlarmsLost"}
    /\ \A w \in {"DeadLetters", "ApiServerErrors", "ApiClientErrors"} :
           w \in Watch /\ Periods[w] = 1
    /\ Threshold["DeadLetters"] = 1 /\ Threshold["ApiServerErrors"] = 1

\* PRTG substitutes the placeholders it knows, and none in a test.
Render(n) ==
    [k \in Fields |->
        IF n.test \/ k \in Unsupported THEN Unsubstituted
        ELSE CASE k = "sensor" -> n.sensor.name
               [] k = "device" -> n.sensor.device
               [] k = "status" -> n.status
               [] k \in {"message", "rest"} -> n.message
               [] k = "sensorId" -> n.sensor.id
               [] k = "deviceId" -> n.sensor.deviceId
               [] k = "priority" -> n.sensor.priority]

Parsed(n) == ParseAlarm(Render(n))

\* The event of AlarmPipeline that n arrives as; n itself stands for the
\* rest of the request, which is made from it.
Delivered(n) ==
    [alarm |-> Identity(Parsed(n)), body |-> n, encoded |-> FALSE,
     kind |-> IF ~Understood(n.encoding, Render(n)) THEN "malformed"
              ELSE IF Parsed(n).isTest THEN "test" ELSE "real"]

Deliveries == {Delivered(n) : n \in Notes}
Identities == {ev.alarm : ev \in Deliveries}

\* What arrives is such a notification.
ASSUME DeliveryAssumption == Events \subseteq Deliveries

VARIABLES
    refused,  \* notifications that never reached the function
    lost,     \* a real alarm was left without an investigation in this period
    turned,   \* real alarms answered 4xx in this period, up to the threshold
    calm,     \* nothing has failed in this period
    wasCalm,  \* nothing failed in the one before
    closed    \* the last period that ended: whether it lost an alarm, how many
              \* were turned away, whether the period before was calm, and what
              \* was on the queue at its end

opsVars == <<vars, obsVars, refused, lost, turned, calm, wasCalm, closed>>

ManyTurned == Threshold["ApiClientErrors"]

OpsTypeOK ==
    /\ TypeOK /\ ObsTypeOK
    /\ refused \subseteq Notification
    /\ lost \in BOOLEAN /\ turned \in 0 .. ManyTurned
    /\ calm \in BOOLEAN /\ wasCalm \in BOOLEAN
    /\ closed \in [lost : BOOLEAN, turned : 0 .. ManyTurned, calmBefore : BOOLEAN,
                   standing : SUBSET Message]

OpsInit ==
    /\ Init /\ ObsInit
    /\ refused = {} /\ lost = FALSE /\ turned = 0
    /\ calm = TRUE /\ wasCalm = TRUE
    /\ closed = [lost |-> FALSE, turned |-> 0, calmBefore |-> TRUE, standing |-> {}]

-----------------------------------------------------------------------------
\* The invocations this step ends in one of these ways.
EndsNow(endings) == {j \in Job : fate[j] # fate'[j] /\ fate'[j] \in endings}

\* Mutant of StatusCounted: routing failures are answered like malformed bodies.
StatusByBlame(w) ==
    LET misrouted == \E e \in Env : reason[e] = "routing_failed" /\ pc'[e] = "idle"
    IN  CASE w = "ApiClientErrors" ->
                 \/ EndsNow({"rejected"}) # {}
                 \/ EndsNow({"parked", "parkFailed"}) # {} /\ misrouted
          [] w = "ApiServerErrors" ->
                 EndsNow({"parked", "parkFailed", "escaped", "killed"}) # {} /\ ~misrouted

\* _rejected, _failed, and what API Gateway answers for a function that
\* raised or was ended.
StatusCounted(w) ==
    CASE w = "ApiClientErrors" -> EndsNow({"rejected"}) # {}
      [] w = "ApiServerErrors" ->
             EndsNow({"parked", "parkFailed", "escaped", "killed"}) # {}

\* The metrics a step of the pipeline counts in: answers, exceptions that
\* leave the function, log lines with a filter, and the depth of the queue.
Causes(w) ==
    CASE w \in {"ApiClientErrors", "ApiServerErrors"} -> StatusCounted(w)
      [] w = "LambdaErrors" ->
             \/ EndsNow({"escaped", "killed"}) # {}
             \/ /\ EndsNow({"parked", "parkFailed"}) # {}
                /\ \E e \in Env : /\ reason[e] = "investigation_creation_failed"
                                  /\ pc'[e] = "idle"
      [] w = "RoutingFailures" ->
             \E e \in Env : pc[e] = "route" /\ reason'[e] = "routing_failed"
      [] w = "AlarmsLost" -> EndsNow({"parkFailed"}) # {}
      [] w = "DeadLetters" -> dlq' # {}
      [] w = "LambdaThrottles" -> FALSE

\* The text of a real notification looks like a placeholder, so that it is taken
\* for a test.
LooksLikeTest(note) ==
    {note.message, note.sensor.name, note.sensor.device} \intersect Percent # {}

\* Real alarms this step leaves behind without an investigation: parked, gone
\* or taken for a test, those that look like one aside.
LeftBehind ==
    \E j \in EndsNow({"parked", "parkFailed", "escaped", "killed", "acknowledged"}) :
        LET note == event'[j[1]].body
        IN  ~note.test /\ ~LooksLikeTest(note) /\ ~Investigated(j[1])'

\* A real alarm is answered 400.
RealRejected == \E j \in EndsNow({"rejected"}) : ~event'[j[1]].body.test

OneMore(n) == IF n < ManyTurned THEN n + 1 ELSE n

\* A step of the handler, the backlog, the clock or the operator.
Operate ==
    /\ Next
    /\ \A n \in refused : event'[n] = NoEvent
    /\ Record({w \in Watch : Causes(w)})
    /\ lost' = (lost \/ LeftBehind)
    /\ turned' = IF RealRejected THEN OneMore(turned) ELSE turned
    /\ calm' = (calm /\ \A w \in Watch \ {"DeadLetters"} : ~Causes(w))
    /\ UNCHANGED <<refused, wasCalm, closed>>

\* Why a notification never reaches the function: its concurrency is used up,
\* which API Gateway answers 5xx; the stage throttles (429), or the resource
\* policy does not admit the source (403).
Refusals == {"concurrency", "rate", "policy"}
RefusalCounted(why) ==
    IF why = "concurrency" THEN {"LambdaThrottles", "ApiServerErrors"} ELSE {"ApiClientErrors"}

\* Mutant of Refuse: what the stage throttles is not in the metrics of answers.
RefuseQuietly(n, why) ==
    /\ event[n] = NoEvent /\ n \notin refused
    /\ refused' = refused \union {n}
    /\ Record({w \in {"DeadLetters"} : dlq # {}} \union
              IF why = "rate" THEN {} ELSE RefusalCounted(why))
    /\ lost' = (lost \/ why = "concurrency")
    /\ turned' = IF why = "concurrency" THEN turned ELSE OneMore(turned)
    /\ calm' = FALSE
    /\ UNCHANGED <<vars, wasCalm, closed>>

\* A notification never reaches the function.
Refuse(n, why) ==
    /\ event[n] = NoEvent /\ n \notin refused
    /\ refused' = refused \union {n}
    /\ Record({w \in {"DeadLetters"} : dlq # {}} \union RefusalCounted(why))
    /\ lost' = (lost \/ why = "concurrency")
    /\ turned' = IF why = "concurrency" THEN turned ELSE OneMore(turned)
    /\ calm' = FALSE
    /\ UNCHANGED <<vars, wasCalm, closed>>

\* Mutant of AtStart: the queue's metric counts messages as they are sent.
NothingAtStart == [w \in Watch |-> 0]

\* The maximum of the queue's depth starts from what stands on it.
AtStart == [w \in Watch |-> IF w = "DeadLetters" /\ dlq # {} THEN 1 ELSE 0]

\* A metric period ends.
EndPeriod ==
    /\ ClosePeriod(AtStart)
    /\ closed' = [lost |-> lost, turned |-> turned, calmBefore |-> wasCalm, standing |-> dlq]
    /\ wasCalm' = calm
    /\ calm' = TRUE
    /\ lost' = FALSE /\ turned' = 0
    /\ UNCHANGED <<vars, refused>>

\* The queue drops a message at the end of its retention, 14 days after it was
\* parked: here, once it has stood there at the end of a period.
Expire(m) ==
    /\ m \in closed.standing \intersect dlq
    /\ dlq' = dlq \ {m}
    /\ UNCHANGED <<bucket, event, arrived, fate, pc, job, target, token, tries, reply, reason,
                   wire, tasks, created>>
    /\ UNCHANGED <<obsVars, refused, lost, turned, calm, wasCalm, closed>>

OpsNext ==
    \/ Operate
    \/ \E m \in dlq : Expire(m)
    \/ \E n \in Notification, why \in Refusals : Refuse(n, why)
    \/ EndPeriod

OpsSpec == OpsInit /\ [][OpsNext]_opsVars

-----------------------------------------------------------------------------
\* A notification answered 200 as created or suppressed has a task in its own
\* state and for its own sensor, made from a notification of that sensor, or of
\* one that what arrived does not tell from it: whatever PRTG could not
\* substitute, no other sensor hides behind another's task.
SensorIsInvestigated ==
    \A j \in Job :
        fate[j] \in {"created", "suppressed"} =>
            \E t \in tasks :
                LET other == EventOf(t.job).body
                    own   == EventOf(j).body
                IN  /\ other.status = own.status
                    /\ other.sensor = own.sensor \/ Alike(other.sensor, own.sensor)

\* A live Down that was answered 200 is in the backlog as at least HIGH
\* (docs/architecture.md), though the task it was suppressed for was made from
\* another notification, with the priority of that one.
DownIsUrgent ==
    \A j \in Job :
        fate[j] \in {"created", "suppressed"} /\ EventOf(j).body.status \in DownStates =>
            \E t \in tasks :
                LET other == EventOf(t.job).body
                    own   == EventOf(j).body
                IN  /\ other.sensor = own.sensor \/ Alike(other.sensor, own.sensor)
                    /\ Priority(Parsed(other)) >= High

\* "How would we find out this integration had quietly stopped working?"
\* (docs/architecture.md): a period in which a real alarm was left without an
\* investigation, or in which as many were answered 4xx as watch_api waits for,
\* ends with an alarm, whether or not the log filters match.
LossRaisesAlarm ==
    closed.lost \/ closed.turned >= ManyTurned => \E w \in Watch : InAlarm(w)

\* A loss after a period in which nothing failed is notified, though older
\* messages still stand on the queue and keep its own alarm from going off.
LossIsTold == Topic /\ closed.lost /\ closed.calmBefore => told # {}

\* A parked alarm keeps an alarm on for as long as it stands on the queue,
\* however many periods ago it was parked: none that its retention drops has
\* stood there unseen.
StandingQueueStaysInAlarm == closed.standing \intersect dlq # {} => InAlarm("DeadLetters")

\* A real alarm goes out of everyone's sight in one way only, and not unseen:
\* nothing but the queue's retention drops one that someone could still find,
\* and its alarm is on when that happens, whatever invocations, redrives,
\* duplicates and metric periods came before.
NothingVanishesUnseen ==
    [][\A n \in Notification :
          /\ event'[n] # NoEvent /\ event'[n].kind = "real" /\ ~Accounted(n)'
          /\ event[n] # NoEvent => Accounted(n)
          => InAlarm("DeadLetters")]_opsVars
=============================================================================
