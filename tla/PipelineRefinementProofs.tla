---------------------- MODULE PipelineRefinementProofs ----------------------
(***************************************************************************)
(* That AlarmPipeline implements AlarmPromise, for every value of the      *)
(* constants, and from it that no real alarm is silently lost.             *)
(***************************************************************************)
EXTENDS PipelineRefinement, AlarmPipelineProofs

\* What is in hand or was requested parsed; what is parked is a real alarm.
KindsFit ==
    /\ \A j \in Job : fate[j] = "open" => EventOf(j).kind # "malformed"
    /\ \A r \in Requests : EventOf(r.job).kind # "malformed"
    /\ \A e \in Env : pc[e] = "send" => EventOf(job[e]).kind = "real"
    /\ \A m \in dlq : EventOf(m.job).kind = "real"

RInv == IInv /\ KindsFit

-----------------------------------------------------------------------------
\* A job comes to be open only by being taken up with an event that parses.
LEMMA OpenParsed ==
    ASSUME TypeOK, Holding, Known, [Next]_vars, NEW j \in Job,
           fate'[j] = "open", fate[j] # "open"
    PROVE  EventOf(j)'.kind # "malformed"
<1>1. ASSUME NEW e \in Env, Step(e) \/ Kill(e)
      PROVE  FALSE
  BY <1>1, StepShape DEF TypeOK, Ends, Finish, Moves, Ended
<1>2. ASSUME NEW e \in Env, NEW i, NEW ev, Begin(e, i, ev)
      PROVE  j = i /\ ev.kind # "malformed"
  BY <1>2 DEF TypeOK, Begin, Parses
<1>3. ASSUME NEW e \in Env, NEW n \in Notification, NEW ev \in Events, Receive(e, n, ev)
      PROVE  EventOf(j)'.kind # "malformed"
  <2>1. j = <<n, 0>> /\ ev.kind # "malformed" /\ event'[n] = ev
    BY <1>2, <1>3 DEF TypeOK, Receive
  <2>2. QED
    BY <2>1 DEF EventOf
<1>4. ASSUME NEW m \in dlq, NEW k \in 0 .. MaxRedrives, NEW e \in Env,
             RedriveThroughHandler(e, m, k)
      PROVE  EventOf(j)'.kind # "malformed"
  <2>1. j = <<m.job[1], k>> /\ EventOf(m.job).kind # "malformed" /\ event' = event
    BY <1>2, <1>4 DEF RedriveThroughHandler
  <2>2. QED
    BY <2>1 DEF EventOf
<1>5. ASSUME NEW m \in dlq, NEW k \in 0 .. MaxRedrives, RedriveDirectly(m, k)
      PROVE  FALSE
  BY <1>5 DEF TypeOK, RedriveDirectly
<1>6. QED
  BY <1>1, <1>3, <1>4, <1>5 DEF Next, Serve, Tick, vars

\* SendMessage is reached with a real alarm only.
LEMMA SendReal ==
    ASSUME TypeOK, Holding, Known, KindsFit, [Next]_vars,
           NEW e \in Env, pc'[e] = "send", pc[e] # "send"
    PROVE  EventOf(job[e]).kind = "real"
<1>1. ASSUME NEW why, Park(e, why)
      PROVE  EventOf(job[e]).kind # "test"
  BY <1>1 DEF TypeOK, Park, Finish
<1>2. ASSUME NEW f, Finish(e, f)
      PROVE  FALSE
  BY <1>2 DEF TypeOK, Finish
<1>3. ASSUME Step(e) \/ Kill(e)
      PROVE  EventOf(job[e]).kind # "test"
  BY <1>1, <1>2, <1>3
  DEF TypeOK, Step, Kill, Route, StartCall, Retry, Succeed, Suppress, Fail, SendPark
<1>4. ASSUME NEW x \in Env, Step(x) \/ Kill(x)
      PROVE  x = e
  BY <1>4, StepStands DEF OthersStand
<1>5. ASSUME NEW x \in Env, NEW j, NEW ev, Begin(x, j, ev)
      PROVE  FALSE
  BY <1>5, BeginStands DEF OthersStand
<1>6. Step(e) \/ Kill(e)
  BY <1>4, <1>5 DEF Next, Receive, Serve, Tick, RedriveDirectly, RedriveThroughHandler, vars
<1>7. job[e] \in Job /\ fate[job[e]] = "open" /\ EventOf(job[e]) \in Event
  BY <1>6, StepShape, HeldEvent DEF Holding
<1>8. QED
  BY <1>3, <1>6, <1>7 DEF KindsFit, Event

LEMMA KindsFitStep ==
    TypeOK /\ Holding /\ Known /\ Awaited /\ KindsFit /\ [Next]_vars => KindsFit'
<1> SUFFICES ASSUME TypeOK, Holding, Known, Awaited, KindsFit, [Next]_vars
             PROVE  KindsFit'
  OBVIOUS
<1>1. ASSUME NEW j \in Job, fate[j] # "none"
      PROVE  event'[j[1]] = event[j[1]]
  BY <1>1, Settled
<1>2. \A j \in Job : fate'[j] = "open" => EventOf(j)'.kind # "malformed"
  BY <1>1, OpenParsed DEF KindsFit, EventOf
<1>3. ASSUME NEW r \in Requests'
      PROVE  EventOf(r.job)'.kind # "malformed"
  <2>1. CASE r \in Requests
    <3>1. r.job \in Job /\ fate[r.job] # "none"
      BY <2>1 DEF TypeOK, Requests, Request, Known
    <3>2. QED
      BY <1>1, <2>1, <3>1 DEF KindsFit, EventOf
  <2>2. CASE FromCall(r)
    <3>1. r.job \in Job /\ fate'[r.job] = "open"
      BY <2>2, HoldingStep DEF FromCall, Holding
    <3>2. QED
      BY <1>2, <3>1
  <2>3. CASE FromOperator(r)
    <3>1. PICK m \in dlq : r.job[1] = m.job[1]
      BY <2>3 DEF FromOperator
    <3>2. m.job \in Job /\ fate[m.job] # "none"
      BY DEF TypeOK, Message, Known
    <3>3. QED
      BY <1>1, <3>1, <3>2 DEF KindsFit, EventOf
  <2>4. QED
    BY <2>1, <2>2, <2>3, NewTraces DEF NewRequest
<1>4. ASSUME NEW e \in Env, pc'[e] = "send"
      PROVE  EventOf(job[e])'.kind = "real"
  <2>1. job'[e] = job[e] /\ job[e] \in Job /\ fate[job[e]] # "none"
    BY <1>4, CallToken DEF Holding
  <2>2. EventOf(job[e]).kind = "real"
    BY <1>4, SendReal DEF KindsFit
  <2>3. QED
    BY <1>1, <2>1, <2>2 DEF EventOf
<1>5. ASSUME NEW m \in dlq'
      PROVE  EventOf(m.job)'.kind = "real"
  <2>1. CASE m \in dlq
    <3>1. m.job \in Job /\ fate[m.job] # "none"
      BY <2>1 DEF TypeOK, Message, Known
    <3>2. QED
      BY <1>1, <2>1, <3>1 DEF KindsFit, EventOf
  <2>2. CASE FromPark(m)
    <3>1. PICK e \in Env : pc[e] = "send" /\ m.job = job[e]
      BY <2>2 DEF FromPark, MessageOf
    <3>2. job[e] \in Job /\ fate[job[e]] # "none"
      BY <3>1 DEF Holding
    <3>3. QED
      BY <1>1, <3>1, <3>2 DEF KindsFit, EventOf
  <2>3. QED
    BY <2>1, <2>2, NewTraces DEF NewMessage
<1>6. QED
  BY <1>2, <1>3, <1>4, <1>5 DEF KindsFit

THEOREM RefinementInvariance == Spec => []RInv
<1>1. Init => KindsFit
  BY DEF Init, KindsFit, Requests
<1>2. IInv /\ KindsFit /\ [Next]_vars => KindsFit'
  BY KindsFitStep DEF IInv
<1>3. QED
  BY <1>1, <1>2, Invariance, PTL DEF Spec, RInv

-----------------------------------------------------------------------------
\* The steps of the abstract specification.
Simulated == [Promised!Next]_(Promised!vars)

LEMMA AbstractSteps ==
    ASSUME NEW n \in Notification,
           \/ \E a \in Alarm : Promised!Take(n, a)
           \/ Promised!Investigate(n) \/ Promised!Settle(n) \/ Promised!Redrive(n)
    PROVE  Simulated
BY DEF Simulated, Promised!Next

LEMMA AbstractStutter ==
    ASSUME UNCHANGED <<What, Owed, InvestigatedAlarms, Kept, Told>>
    PROVE  Simulated
BY DEF Simulated, Promised!vars

\* The notification of a job, and the job as one of its runs.
LEMMA JobParts ==
    ASSUME NEW j \in Job
    PROVE  /\ j[1] \in Notification /\ j[2] \in 0 .. MaxRedrives
           /\ j = <<j[1], j[2]>>
BY DEF Job

\* When the fate of an open job is sealed and nothing else the mapping sees
\* of jobs changes, only the job's notification is affected.
LEMMA FateSealed ==
    ASSUME TypeOK, NEW j \in Job, fate[j] = "open", NEW f \in Ended \ {"direct"},
           fate' = [fate EXCEPT ![j] = f], event' = event
    PROVE  /\ What' = What
           /\ Owed' \in {Owed, Owed \ {j[1]}}
           /\ f \notin Reported => Told' = Told
           /\ f \in Reported /\ Taken(j[1]) => Told' = Told \union {j[1]}
           /\ ~Taken(j[1]) => Owed' = Owed /\ Told' = Told
           /\ Taken(j[1]) => j[1] \in Owed
<1>1. What' = What /\ \A n \in Notification : Taken(n)' <=> Taken(n)
  BY DEF What, Taken
<1>2. ASSUME NEW n \in Notification, n # j[1], NEW S
      PROVE  SomeJob(n, S)' <=> SomeJob(n, S)
  <2>1. ASSUME NEW k \in 0 .. MaxRedrives
        PROVE  fate'[<<n, k>>] = fate[<<n, k>>]
    BY <1>2, JobParts DEF TypeOK, Job
  <2>2. QED
    BY <2>1 DEF SomeJob
<1>3. ASSUME NEW k \in 0 .. MaxRedrives, k # j[2]
      PROVE  fate'[<<j[1], k>>] = fate[<<j[1], k>>]
  BY <1>3, JobParts DEF TypeOK, Job
<1>4. fate'[<<j[1], j[2]>>] = f /\ fate[<<j[1], j[2]>>] = "open"
  BY JobParts DEF TypeOK
<1>5. SomeJob(j[1], {"open"})
  BY <1>4, JobParts DEF SomeJob
<1>6. /\ f \notin Reported =>
             (SomeJob(j[1], Reported \union {"direct"})'
                 <=> SomeJob(j[1], Reported \union {"direct"}))
      /\ f \in Reported => SomeJob(j[1], Reported \union {"direct"})'
  <2>1. Reported' = Reported /\ "open" \notin Reported
    BY DEF Reported
  <2>2. QED
    BY <1>3, <1>4, <2>1, JobParts DEF SomeJob
<1>7. Owed' \in {Owed, Owed \ {j[1]}}
  BY <1>1, <1>2, <1>5 DEF Owed
<1>8. /\ f \notin Reported => Told' = Told
      /\ f \in Reported /\ Taken(j[1]) => Told' = Told \union {j[1]}
  BY <1>1, <1>2, <1>6, JobParts DEF Told, Reported
<1>9. ~Taken(j[1]) => Owed' = Owed /\ Told' = Told
  BY <1>1, <1>2 DEF Owed, Told, Reported
<1>10. QED
  BY <1>1, <1>5, <1>7, <1>8, <1>9, JobParts DEF Owed

\* A task of a real alarm was made for a real alarm.
LEMMA RealTask ==
    ASSUME RInv, NEW j \in Job, fate[j] # "none", Taken(j[1]),
           NEW t \in tasks, AlarmOf(t.job) = AlarmOf(j)
    PROVE  AlarmOf(j) \in InvestigatedAlarms
<1>1. t.job \in Job /\ fate[t.job] # "none"
  BY DEF RInv, IInv, TypeOK, Request, Known, Requests
<1>2. EventOf(t.job) \in Events /\ EventOf(j) \in Events /\ AlarmOf(j) \in Alarm
  BY <1>1, EventKnown DEF RInv, IInv, Known, EventOf
<1>3. EventOf(t.job).kind = "real"
  <2>1. EventOf(t.job).kind \in {"real", "test"}
    BY <1>2, EventsAssumption DEF RInv, KindsFit, Requests, Event
  <2>2. EventOf(j).kind = "real"
    BY DEF Taken, EventOf
  <2>3. QED
    BY <1>2, <2>1, <2>2, PlainEvents DEF AlarmOf
<1>4. Taken(t.job[1])
  BY <1>2, <1>3, EventsAssumption DEF Taken, EventOf
<1>5. QED
  BY <1>2, <1>4 DEF InvestigatedAlarms

\* The ways an invocation ends, with what becomes of the queue.
EndsWell(e) ==
    \/ \E f \in {"created", "suppressed"} : Finish(e, f) /\ dlq' = dlq
    \/ Finish(e, "parked") /\ pc[e] = "send" /\ dlq' = dlq \union {MessageOf(e)}
    \/ Finish(e, "skipped") /\ EventOf(job[e]).kind = "test" /\ dlq' = dlq
    \/ \E f \in Reported :
           /\ Finish(e, f)
           /\ \/ dlq' = dlq
              \/ pc[e] = "send" /\ dlq' = dlq \union {MessageOf(e)}

LEMMA EndSimulates ==
    ASSUME RInv, AcceptedIsInvestigated', NEW e \in Env, pc[e] # "idle", EndsWell(e),
           UNCHANGED <<event, tasks>>
    PROVE  Simulated
<1> DEFINE j == job[e]
           n == j[1]
<1>1. j \in Job /\ fate[j] = "open" /\ n \in Notification /\ event[n] \in Events
  BY JobParts DEF RInv, IInv, Holding, Known
<1>2. InvestigatedAlarms' = InvestigatedAlarms
  BY DEF InvestigatedAlarms, Taken, AlarmOf, EventOf
<1>3. PICK f \in Ended \ {"direct"} :
          /\ fate' = [fate EXCEPT ![j] = f]
          /\ \/ f \in {"created", "suppressed"} /\ dlq' = dlq
             \/ f = "parked" /\ pc[e] = "send" /\ dlq' = dlq \union {MessageOf(e)}
             \/ f = "skipped" /\ EventOf(j).kind = "test" /\ dlq' = dlq
             \/ /\ f \in Reported
                /\ \/ dlq' = dlq
                   \/ pc[e] = "send" /\ dlq' = dlq \union {MessageOf(e)}
  BY DEF EndsWell, Finish, Ended, Reported
<1>4. /\ What' = What /\ Owed' \in {Owed, Owed \ {n}}
      /\ f \notin Reported => Told' = Told
      /\ f \in Reported /\ Taken(n) => Told' = Told \union {n}
      /\ ~Taken(n) => Owed' = Owed /\ Told' = Told
      /\ Taken(n) => n \in Owed
  BY <1>1, <1>3, FateSealed DEF RInv, IInv
<1>5. /\ dlq' = dlq => Kept' = Kept
      /\ dlq' = dlq \union {MessageOf(e)} => Kept' = Kept \union {n}
  <2>1. MessageOf(e).job[1] = n
    BY DEF MessageOf
  <2>2. QED
    BY <1>1, <2>1 DEF Kept
<1>6. pc[e] = "send" => Taken(n)
  BY <1>1, EventsAssumption DEF RInv, KindsFit, EventOf, Taken
<1>7. CASE ~Taken(n)
  BY <1>2, <1>3, <1>4, <1>5, <1>6, <1>7, AbstractStutter
<1>8. CASE Taken(n)
  <2>1. f # "skipped"
    BY <1>3, <1>8 DEF Taken, EventOf, Reported
  <2>2. ASSUME f \in {"created", "suppressed"}
        PROVE  What[n] \in InvestigatedAlarms
    <3>1. \E t \in tasks : AlarmOf(t.job) = AlarmOf(j)
      <4>1. fate'[j] = f
        BY <1>1, <1>3 DEF RInv, IInv, TypeOK
      <4>2. QED
        BY <1>1, <2>2, <4>1 DEF AcceptedIsInvestigated, AlarmOf, EventOf
    <3>2. What[n] = AlarmOf(j)
      BY <1>1, <1>8 DEF What, AlarmOf, EventOf
    <3>3. QED
      BY <1>1, <1>8, <3>1, <3>2, RealTask
  <2>3. Reported \intersect {"created", "suppressed", "parked"} = {}
    BY DEF Reported
  <2> HIDE DEF n
  <2>4. Promised!Settle(n)
    BY <1>2, <1>3, <1>4, <1>5, <1>8, <2>1, <2>2, <2>3 DEF Promised!Settle
  <2>5. QED
    BY <1>1, <2>4, AbstractSteps
<1>9. QED
  BY <1>7, <1>8

LEMMA ParkEnds ==
    ASSUME NEW e \in Env, NEW why, Park(e, why), dlq' = dlq
    PROVE  EndsWell(e) \/ UNCHANGED fate
BY DEF Park, StartSend, EndsWell, Reported

\* A step of a busy environment is a Settle, or nothing at all.
LEMMA StepSimulates ==
    ASSUME RInv, RInv', NEW e \in Env, Step(e) \/ Kill(e)
    PROVE  Simulated
<1>1. pc[e] # "idle" /\ event' = event /\ tasks' = tasks
  BY StepShape, StepTraces DEF RInv, IInv
<1>2. EndsWell(e) \/ UNCHANGED <<fate, dlq>>
  <2>1. CASE Route(e) \/ StartCall(e) \/ Fail(e)
    BY <2>1, ParkEnds DEF Route, StartCall, Fail, EndsWell, Reported
  <2>2. CASE Retry(e)
    BY <2>2 DEF Retry
  <2>3. CASE Succeed(e) \/ Suppress(e)
    BY <2>3 DEF Succeed, Suppress, EndsWell
  <2>4. CASE SendPark(e) \/ Kill(e)
    BY <2>4 DEF SendPark, Kill, EndsWell, Reported
  <2>5. QED
    BY <2>1, <2>2, <2>3, <2>4 DEF Step
<1>3. CASE EndsWell(e)
  BY <1>1, <1>3, EndSimulates DEF RInv, IInv
<1>4. CASE UNCHANGED <<fate, dlq>>
  <2>1. UNCHANGED <<What, Owed, InvestigatedAlarms, Kept, Told>>
    BY <1>1, <1>4 DEF What, Owed, InvestigatedAlarms, Kept, Told, Taken, SomeJob, AlarmOf,
                      EventOf, Reported
  <2>2. QED
    BY <2>1, AbstractStutter
<1>5. QED
  BY <1>2, <1>3, <1>4

\* A notification nobody has delivered has left no trace.
LEMMA Untraced ==
    ASSUME RInv, NEW n \in Notification, event[n] = NoEvent
    PROVE  /\ \A k \in 0 .. MaxRedrives : fate[<<n, k>>] = "none"
           /\ \A m \in dlq : m.job[1] # n
           /\ \A t \in tasks : t.job[1] # n
<1>1. ASSUME NEW j \in Job, fate[j] # "none"
      PROVE  j[1] # n
  BY <1>1, EventsAssumption DEF RInv, IInv, Known
<1>2. \A k \in 0 .. MaxRedrives : <<n, k>> \in Job
  BY DEF Job
<1>3. /\ \A m \in dlq : m.job \in Job /\ fate[m.job] # "none"
      /\ \A t \in tasks : t.job \in Job /\ fate[t.job] # "none"
  BY DEF RInv, IInv, TypeOK, Message, Request, Known, Requests
<1>4. QED
  BY <1>1, <1>2, <1>3

\* The delivery of a real alarm is a Take, that of a test or of a malformed
\* body is nothing the promise knows of.
LEMMA ReceiveSimulates ==
    ASSUME RInv, NEW e \in Env, NEW n \in Notification, NEW ev \in Events, Receive(e, n, ev)
    PROVE  Simulated
<1>1. /\ event[n] = NoEvent /\ event'[n] = ev /\ ev # NoEvent /\ ev \in Event
      /\ \A i \in Notification \ {n} : event'[i] = event[i]
      /\ dlq' = dlq /\ tasks' = tasks
  BY EventsAssumption DEF RInv, IInv, TypeOK, Receive
<1>2. /\ \A i \in Notification \ {n}, k \in 0 .. MaxRedrives :
             fate'[<<i, k>>] = fate[<<i, k>>]
      /\ \A k \in 0 .. MaxRedrives : fate'[<<n, k>>] \notin Reported \union {"direct"}
      /\ ev.kind = "real" => fate'[<<n, 0>>] = "open"
  <2>1. <<n, 0>> \in Job
    BY BoundAssumption DEF Job
  <2>2. /\ \A j \in Job \ {<<n, 0>>} : fate'[j] = fate[j]
        /\ fate'[<<n, 0>>] \notin Reported \union {"direct"}
        /\ ev.kind = "real" => fate'[<<n, 0>>] = "open"
    BY <2>1, PlainEvents DEF RInv, IInv, TypeOK, Receive, Begin, Parses, Reported
  <2>3. \A i \in Notification, k \in 0 .. MaxRedrives :
            <<i, k>> \in Job /\ (<<i, k>> = <<n, 0>> <=> i = n /\ k = 0)
    BY DEF Job
  <2>4. QED
    BY <1>1, <2>1, <2>2, <2>3, Untraced DEF Reported
<1>3. /\ \A i \in Notification \ {n} : Taken(i)' <=> Taken(i)
      /\ ~Taken(n) /\ (Taken(n)' <=> ev.kind = "real")
  BY <1>1 DEF Taken
<1>4. Kept' = Kept /\ InvestigatedAlarms' = InvestigatedAlarms
  <2>1. \A t \in tasks : /\ t.job[1] \in Notification \ {n}
                         /\ event'[t.job[1]] = event[t.job[1]]
    BY <1>1, Untraced, JobParts DEF RInv, IInv, TypeOK, Request
  <2>2. QED
    BY <1>1, <1>3, <2>1 DEF Kept, InvestigatedAlarms, AlarmOf, EventOf
<1>5. Told' = Told
  <2>1. Reported' = Reported
    BY DEF Reported
  <2>2. \A i \in Notification \ {n} :
            SomeJob(i, Reported \union {"direct"})'
                <=> SomeJob(i, Reported \union {"direct"})
    BY <1>2, <2>1 DEF SomeJob
  <2>3. ~SomeJob(n, Reported \union {"direct"})'
    BY <1>2, <2>1 DEF SomeJob
  <2>4. QED
    BY <1>3, <2>2, <2>3 DEF Told
<1>6. CASE ev.kind = "real"
  <2>1. Owed' = Owed \union {n}
    <3>1. SomeJob(n, {"open"})'
      BY <1>2, <1>6, BoundAssumption DEF SomeJob
    <3>2. \A i \in Notification \ {n} : SomeJob(i, {"open"})' <=> SomeJob(i, {"open"})
      BY <1>2 DEF SomeJob
    <3>3. QED
      BY <1>3, <1>6, <3>1, <3>2 DEF Owed
  <2>2. What[n] = NoAlarm /\ What' = [What EXCEPT ![n] = ev.alarm] /\ ev.alarm \in Alarm
    BY <1>1, <1>3, <1>6 DEF What, Event
  <2>3. Promised!Take(n, ev.alarm)
    BY <1>4, <1>5, <2>1, <2>2 DEF Promised!Take
  <2>4. QED
    BY <2>2, <2>3, AbstractSteps
<1>7. CASE ev.kind # "real"
  <2>1. What' = What
    BY <1>1, <1>3, <1>7 DEF What
  <2>2. Owed' = Owed
    BY <1>2, <1>3, <1>7 DEF Owed, SomeJob
  <2>3. QED
    BY <1>4, <1>5, <2>1, <2>2, AbstractStutter
<1>8. QED
  BY <1>6, <1>7

\* The service's turn is an Investigate, or nothing.
LEMMA ServeSimulates ==
    ASSUME RInv, NEW r \in wire, Serve(r)
    PROVE  Simulated
<1>1. What' = What /\ Owed' = Owed /\ Kept' = Kept /\ Told' = Told
  BY DEF Serve, What, Owed, Kept, Told, Taken, SomeJob, Reported
<1>2. tasks' = tasks \/ tasks' = tasks \union {r}
  BY DEF Serve
<1>3. r.job \in Job /\ r.job[1] \in Notification /\ AlarmOf(r.job) \in Alarm
  BY EventKnown, JobParts DEF RInv, IInv, TypeOK, Request, Known, Requests
<1>4. event' = event
  BY DEF Serve
<1>5. CASE tasks' = tasks \union {r} /\ Taken(r.job[1])
  <2>1. InvestigatedAlarms' = InvestigatedAlarms \union {AlarmOf(r.job)}
    BY <1>3, <1>4, <1>5 DEF InvestigatedAlarms, Taken, AlarmOf, EventOf
  <2>2. What[r.job[1]] = AlarmOf(r.job) /\ What[r.job[1]] # NoAlarm
    BY <1>3, <1>5, NoAlarmIsNull DEF What, AlarmOf, EventOf
  <2>3. Promised!Investigate(r.job[1])
    BY <1>1, <2>1, <2>2 DEF Promised!Investigate
  <2>4. QED
    BY <1>3, <2>3, AbstractSteps
<1>6. CASE tasks' = tasks \/ ~Taken(r.job[1])
  <2>1. InvestigatedAlarms' = InvestigatedAlarms
    BY <1>2, <1>4, <1>6 DEF InvestigatedAlarms, Taken, AlarmOf, EventOf
  <2>2. QED
    BY <1>1, <2>1, AbstractStutter
<1>7. QED
  BY <1>2, <1>5, <1>6

\* A redrive, either way, is a Redrive.
LEMMA RedriveSimulates ==
    ASSUME RInv, NEW m \in dlq, NEW k \in 0 .. MaxRedrives,
           \/ RedriveDirectly(m, k)
           \/ \E e \in Env : RedriveThroughHandler(e, m, k)
    PROVE  Simulated
<1> DEFINE n == m.job[1]
           j == <<n, k>>
<1>1. /\ m.job \in Job /\ n \in Notification /\ j \in Job /\ j[1] = n /\ j[2] = k
      /\ event[n] \in Events /\ event[n].kind = "real"
  BY JobParts DEF RInv, IInv, TypeOK, Message, Job, Known, KindsFit, EventOf
<1>2. Taken(n) /\ n \in Kept
  BY <1>1, EventsAssumption DEF Taken, Kept
<1>3. event' = event /\ tasks' = tasks /\ dlq' \in {dlq, dlq \ {m}} /\ fate[j] = "none"
  BY DEF RedriveDirectly, RedriveThroughHandler, TakeOff, NextRun
<1>4. What' = What /\ InvestigatedAlarms' = InvestigatedAlarms
  BY <1>3 DEF What, InvestigatedAlarms, Taken, AlarmOf, EventOf
<1>5. Kept' \in {Kept, Kept \ {n}}
  BY <1>3 DEF Kept
<1>6. PICK f \in {"open", "direct"} :
          /\ fate' = [fate EXCEPT ![j] = f]
  <2>1. CASE RedriveDirectly(m, k)
    BY <2>1 DEF RedriveDirectly
  <2>2. CASE \E e \in Env : RedriveThroughHandler(e, m, k)
    BY <1>1, <2>2, PlainEvents DEF RedriveThroughHandler, Begin, Parses, EventOf
  <2>3. QED
    BY <2>1, <2>2
<1> HIDE DEF n
<1>7. ASSUME NEW i \in Notification, NEW l \in 0 .. MaxRedrives, i # n \/ l # k
      PROVE  fate'[<<i, l>>] = fate[<<i, l>>]
  BY <1>1, <1>6, <1>7 DEF RInv, IInv, TypeOK, Job
<1>8. fate'[<<n, k>>] = f /\ fate[<<n, k>>] = "none"
  BY <1>1, <1>3, <1>6 DEF RInv, IInv, TypeOK
<1>9. ASSUME NEW i \in Notification
      PROVE  /\ Taken(i)' <=> Taken(i)
             /\ SomeJob(i, {"open"})' <=> SomeJob(i, {"open"}) \/ (i = n /\ f = "open")
             /\ SomeJob(i, Reported \union {"direct"})'
                    <=> SomeJob(i, Reported \union {"direct"}) \/ (i = n /\ f = "direct")
  BY <1>3, <1>7, <1>8 DEF Taken, SomeJob, Reported
<1>10. /\ f = "open" => Owed' = Owed \union {n} /\ Told' = Told
       /\ f = "direct" => Told' = Told \union {n} /\ Owed' = Owed
  BY <1>1, <1>2, <1>9 DEF Owed, Told
<1>11. Promised!Redrive(n)
  BY <1>2, <1>4, <1>5, <1>10 DEF Promised!Redrive
<1>12. QED
  BY <1>1, <1>11, AbstractSteps

LEMMA NextSimulates == RInv /\ RInv' /\ [Next]_vars => Simulated
<1> SUFFICES ASSUME RInv, RInv', [Next]_vars
             PROVE  Simulated
  OBVIOUS
<1>1. CASE Tick \/ UNCHANGED vars
  <2>1. UNCHANGED <<What, Owed, InvestigatedAlarms, Kept, Told>>
    BY <1>1 DEF Tick, vars, What, Owed, InvestigatedAlarms, Kept, Told, Taken, SomeJob,
                AlarmOf, EventOf, Reported
  <2>2. QED
    BY <2>1, AbstractStutter
<1>2. QED
  BY <1>1, ReceiveSimulates, StepSimulates, ServeSimulates, RedriveSimulates DEF Next

LEMMA InitSimulates == Init => Promised!Init
<1> SUFFICES ASSUME Init
             PROVE  Promised!Init
  OBVIOUS
<1>1. \A n \in Notification : ~Taken(n)
  BY DEF Init, Taken
<1>2. What = [n \in Notification |-> NoAlarm] /\ Owed = {} /\ Told = {}
  BY <1>1 DEF What, Owed, Told
<1>3. InvestigatedAlarms = {} /\ Kept = {}
  BY DEF Init, InvestigatedAlarms, Kept
<1>4. QED
  BY <1>2, <1>3 DEF Promised!Init

\* The pipeline implements the promise.
THEOREM Implements == Spec => ImplementsPromise
<1>1. RInv /\ RInv' /\ [Next]_vars => [Promised!Next]_(Promised!vars)
  BY NextSimulates DEF Simulated
<1>2. QED
  BY <1>1, InitSimulates, RefinementInvariance, PTL DEF Spec, ImplementsPromise, Promised!Spec

-----------------------------------------------------------------------------
\* Steps of the promise keep its variables in their types.
LEMMA PromiseTypeStep ==
    ASSUME Promised!TypeOK, [Promised!Next]_(Promised!vars)
    PROVE  Promised!TypeOK'
BY DEF Promised!TypeOK, Promised!Next, Promised!vars, Promised!Take, Promised!Investigate,
       Promised!Settle, Promised!Redrive

\* Whatever is taken away from one of the sets goes into another, and what is
\* investigated stays so.
LEMMA PromiseStep ==
    ASSUME Promised!TypeOK, Promised!Promise, [Promised!Next]_(Promised!vars)
    PROVE  Promised!Promise'
<1>1. ASSUME NEW n \in Notification, NEW a \in Alarm, Promised!Take(n, a)
      PROVE  Promised!Promise'
  BY <1>1 DEF Promised!TypeOK, Promised!Promise, Promised!Take
<1>2. ASSUME NEW n \in Notification, Promised!Investigate(n)
      PROVE  Promised!Promise'
  BY <1>2 DEF Promised!TypeOK, Promised!Promise, Promised!Investigate
<1>3. ASSUME NEW n \in Notification, Promised!Settle(n)
      PROVE  Promised!Promise'
  BY <1>3 DEF Promised!TypeOK, Promised!Promise, Promised!Settle
<1>4. ASSUME NEW n \in Notification, Promised!Redrive(n)
      PROVE  Promised!Promise'
  BY <1>4 DEF Promised!TypeOK, Promised!Promise, Promised!Redrive
<1>5. CASE UNCHANGED Promised!vars
  BY <1>5 DEF Promised!Promise, Promised!vars
<1>6. QED
  BY <1>1, <1>2, <1>3, <1>4, <1>5 DEF Promised!Next

\* AlarmPromise keeps its promise: no alarm that was taken up is ever silently
\* lost, in any behaviour it allows.
THEOREM PromiseKept == Promised!Spec => []Promised!Promise
<1>1. Promised!Init => Promised!TypeOK /\ Promised!Promise
  BY DEF Promised!Init, Promised!TypeOK, Promised!Promise
<1>2. QED
  BY <1>1, PromiseTypeStep, PromiseStep, PTL DEF Promised!Spec

\* No real alarm is silently lost, whatever environments, the service, the
\* clock, Lambda's timeout and the operator do: the promise AlarmPromise
\* keeps, read through the refinement.
THEOREM NothingSilentlyLost == Spec => []NoSilentLoss
<1>1. Promised!Spec => []Promised!Promise
  BY PromiseKept
<1>2. RInv /\ Promised!Promise => NoSilentLoss
  <2> SUFFICES ASSUME RInv, Promised!Promise, NEW n \in Notification, Taken(n)
               PROVE  Accounted(n)
    BY DEF NoSilentLoss, Taken
  <2>1. What[n] = event[n].alarm /\ What[n] # NoAlarm
    BY EventsAssumption, NoAlarmIsNull DEF What, Taken, RInv, IInv, TypeOK, Event
  <2>2. CASE n \in Owed \union Told
    BY <2>2 DEF Owed, Told, SomeJob, Accounted
  <2>3. CASE n \in Kept
    BY <2>3 DEF Kept, Accounted
  <2>4. CASE What[n] \in InvestigatedAlarms
    BY <2>1, <2>4 DEF InvestigatedAlarms, Investigated, Accounted
  <2>5. QED
    BY <2>1, <2>2, <2>3, <2>4 DEF Promised!Promise
<1>3. QED
  BY <1>1, <1>2, Implements, RefinementInvariance, PTL DEF ImplementsPromise
=============================================================================
