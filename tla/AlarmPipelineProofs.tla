------------------------ MODULE AlarmPipelineProofs ------------------------
(***************************************************************************)
(* Theorems about AlarmPipeline, for any number of environments and        *)
(* notifications, attempts, windows and redrives.                          *)
(*                                                                         *)
(* Each safety property rests on a part of one inductive invariant, IInv.  *)
(* Its parts say which job an environment holds, what is known of every    *)
(* request and message that outlives the invocation it came from, how a    *)
(* token relates to the alarm and the window of its job, and what an       *)
(* answer that is still unread already implies.                            *)
(***************************************************************************)
EXTENDS AlarmPipeline, FiniteSetTheorems, TLAPS

Requests == wire \union tasks

\* A busy environment holds a job that is open, and no other one holds it.
Holding ==
    \A e \in Env : pc[e] # "idle" =>
        /\ job[e] \in Job
        /\ fate[job[e]] = "open"
        /\ \A f \in Env : pc[f] # "idle" /\ job[f] = job[e] => f = e

\* Whatever a job has left behind, the job was taken up, so its event and
\* its time of arrival are settled; a message means that it has ended.
Known ==
    /\ \A j \in Job : fate[j] # "none" => event[j[1]] \in Events
    /\ \A r \in Requests : fate[r.job] # "none"
    /\ \A m \in dlq : fate[m.job] \notin {"none", "open"}

\* An answer belongs to a call that is waited for, a call goes to an Agent
\* Space, and what is parked has a reason.
Awaited ==
    \A e \in Env :
        /\ pc[e] \in {"client", "wait"} => target[e] \in Space
        /\ reply[e] # "none" => pc[e] = "wait"
        /\ pc[e] = "send" => reason[e] # "none"

Identifies(tok, j) ==
    tok # NoToken => tok[1] = AlarmOf(j) /\ tok[2] <= bucket

\* A token names its job's alarm and a window entered already; unless the
\* operator supplied it, not a window before the job arrived.
TokensFit ==
    /\ \A j \in Job : arrived[j] <= bucket
    /\ \A e \in Env : pc[e] \in {"wait", "send"} =>
           /\ Dedup => token[e] # NoToken
           /\ Identifies(token[e], job[e])
           /\ Dedup => arrived[job[e]] <= token[e][2]
    /\ \A m \in dlq :
           /\ Dedup => m.token # NoToken
           /\ Identifies(m.token, m.job)
    /\ \A r \in Requests :
           /\ Dedup => r.token # NoToken
           /\ Identifies(r.token, r.job)
           /\ Dedup /\ fate[r.job] # "direct" => arrived[r.job] <= r.token[2]

\* In one Agent Space the service made one task of each token.
TokensUnique ==
    \A t, u \in tasks :
        t.token = u.token /\ t.space = u.space /\ t.token # NoToken => t = u

\* The task an answer speaks of is there, and is one of the same alarm.
Answered ==
    \A e \in Env :
        \/ reply[e] = "ok"
        \/ reply[e] = "conflict" /\ token[e] # NoToken
        => \E t \in tasks :
               /\ t.token = token[e] /\ t.space = target[e]
               /\ AlarmOf(t.job) = AlarmOf(job[e])

Untried == {"routing_failed", "insufficient_time_remaining"}

\* Before the call, and while parking without it, nothing has been sent.
Unsent ==
    \A e \in Env :
        pc[e] \in {"route", "client"} \/ (pc[e] = "send" /\ reason[e] \in Untried) =>
            \A r \in Requests : r.job # job[e]

IInv ==
    /\ TypeOK /\ Holding /\ Known
    /\ Awaited /\ TokensFit /\ TokensUnique /\ Answered /\ AcceptedIsInvestigated
    /\ Unsent /\ UntriedIsUnsent

-----------------------------------------------------------------------------
\* The part of TypeOK about the environments and the fates of their jobs.
EnvTypeOK ==
    /\ fate \in [Job -> Ended \union {"none", "open"}]
    /\ pc \in [Env -> {"idle", "route", "client", "wait", "send"}]
    /\ job \in [Env -> Job \union {NoJob}]
    /\ target \in [Env -> Space \union {NoSpace}]
    /\ token \in [Env -> Token]
    /\ tries \in [Env -> 0 .. SdkAttempts]
    /\ reply \in [Env -> {"none", "ok", "conflict", "error", "retry"}]
    /\ reason \in [Env -> Reason \union {"none"}]

\* The event of a job that was taken up is a genuine one.
LEMMA EventKnown ==
    ASSUME Known, NEW j \in Job, fate[j] # "none"
    PROVE  EventOf(j) \in Event /\ AlarmOf(j) \in Alarm
BY EventsAssumption DEF Known, EventOf, AlarmOf, Event

\* A busy environment's job has a genuine event.
LEMMA HeldEvent ==
    ASSUME Holding, Known, NEW e \in Env, pc[e] # "idle"
    PROVE  job[e] \in Job /\ EventOf(job[e]) \in Event /\ AlarmOf(job[e]) \in Alarm
<1>1. job[e] \in Job /\ fate[job[e]] # "none"
  BY DEF Holding
<1>2. QED
  BY <1>1, EventKnown

LEMMA TokenType ==
    ASSUME TypeOK, NEW a \in Alarm
    PROVE  DeduplicationToken(a) \in Token
BY BoundAssumption DEF TypeOK, DeduplicationToken, Token

LEMMA FinishType ==
    ASSUME TypeOK, NEW e \in Env, NEW f \in Ended, Finish(e, f)
    PROVE  EnvTypeOK'
<1>1. NoToken \in Token
  BY DEF Token
<1>2. fate' \in [Job -> Ended \union {"none", "open"}]
  BY DEF TypeOK, Finish
<1>3. tries' \in [Env -> 0 .. SdkAttempts]
  BY BoundAssumption DEF TypeOK, Finish
<1>4. QED
  BY <1>1, <1>2, <1>3 DEF TypeOK, EnvTypeOK, Finish

LEMMA StartSendType ==
    ASSUME TypeOK, Holding, Known, NEW e \in Env, pc[e] # "idle",
           NEW why \in Reason, StartSend(e, why)
    PROVE  EnvTypeOK'
<1>1. DeduplicationToken(AlarmOf(job[e])) \in Token
  BY HeldEvent, TokenType
<1>2. QED
  BY <1>1, BoundAssumption DEF TypeOK, EnvTypeOK, StartSend

LEMMA ParkType ==
    ASSUME TypeOK, Holding, Known, NEW e \in Env, pc[e] # "idle",
           NEW why \in Reason, Park(e, why)
    PROVE  EnvTypeOK'
<1>1. CASE StartSend(e, why)
  BY <1>1, StartSendType
<1>2. CASE \E f \in {"skipped", "unconfigured"} : Finish(e, f)
  BY <1>2, FinishType DEF Ended
<1>3. QED
  BY <1>1, <1>2 DEF Park

LEMMA BeginType ==
    ASSUME TypeOK, NEW e \in Env, NEW j \in Job, NEW ev \in Events, Begin(e, j, ev)
    PROVE  EnvTypeOK' /\ arrived' \in [Job -> 0 .. MaxBucket]
BY DEF TypeOK, EnvTypeOK, Begin, Ended, envVars

\* A step keeps every variable within its type.
LEMMA TypeStep == TypeOK /\ Holding /\ Known /\ Awaited /\ [Next]_vars => TypeOK'
<1> SUFFICES ASSUME TypeOK, Holding, Known, Awaited, [Next]_vars
             PROVE  TypeOK'
  OBVIOUS
<1>1. ASSUME NEW e \in Env, NEW n \in Notification, NEW ev \in Events, Receive(e, n, ev)
      PROVE  TypeOK'
  <2>1. <<n, 0>> \in Job
    BY BoundAssumption DEF Job
  <2>2. EnvTypeOK' /\ arrived' \in [Job -> 0 .. MaxBucket]
    BY <1>1, <2>1, BeginType DEF Receive
  <2>3. QED
    BY <1>1, <2>2 DEF TypeOK, EnvTypeOK, Receive
<1>2. ASSUME NEW e \in Env, Route(e)
      PROVE  TypeOK'
  <2>1. pc[e] # "idle"
    BY <1>2 DEF Route
  <2>2. EnvTypeOK'
    <3>1. CASE \E why \in Reason : Park(e, why)
      BY <2>1, <3>1, ParkType
    <3>2. CASE Finish(e, "escaped")
      BY <3>2, FinishType DEF Ended
    <3>3. CASE /\ pc' = [pc EXCEPT ![e] = "client"]
               /\ \E s \in Space : target' = [target EXCEPT ![e] = s]
               /\ UNCHANGED <<fate, job, token, tries, reply, reason>>
      BY <3>3 DEF TypeOK, EnvTypeOK
    <3>4. QED
      BY <1>2, <3>1, <3>2, <3>3 DEF Route, Reason
  <2>3. QED
    BY <1>2, <2>2 DEF TypeOK, EnvTypeOK, Route
<1>3. ASSUME NEW e \in Env, StartCall(e)
      PROVE  TypeOK'
  <2> DEFINE tok == DeduplicationToken(AlarmOf(job[e]))
  <2>1. pc[e] # "idle"
    BY <1>3 DEF StartCall
  <2>2. CASE Park(e, "investigation_creation_failed") /\ UNCHANGED wire
    <3>1. EnvTypeOK'
      BY <2>1, <2>2, ParkType DEF Reason
    <3>2. QED
      BY <1>3, <2>2, <3>1 DEF TypeOK, EnvTypeOK, StartCall
  <2>3. CASE /\ pc' = [pc EXCEPT ![e] = "wait"]
             /\ token' = [token EXCEPT ![e] = tok]
             /\ tries' = [tries EXCEPT ![e] = 1]
             /\ wire' = wire \union {Attempt(e, 1, tok)}
             /\ UNCHANGED <<fate, job, target, reply, reason>>
    <3>1. tok \in Token /\ job[e] \in Job
      BY <2>1, HeldEvent, TokenType
    <3>2. Attempt(e, 1, tok) \in Request
      BY <1>3, <3>1, BoundAssumption DEF StartCall, Awaited, Attempt, Request
    <3>3. QED
      BY <1>3, <2>3, <3>1, <3>2, BoundAssumption DEF TypeOK, StartCall
  <2>4. QED
    BY <1>3, <2>2, <2>3 DEF StartCall
<1>4. ASSUME NEW e \in Env, Retry(e)
      PROVE  TypeOK'
  <2>1. job[e] \in Job
    BY <1>4, HeldEvent DEF Retry
  <2>2. Attempt(e, tries[e] + 1, token[e]) \in Request
    BY <1>4, <2>1, BoundAssumption DEF TypeOK, Retry, Awaited, Attempt, Request
  <2>3. tries' \in [Env -> 0 .. SdkAttempts]
    BY <1>4, BoundAssumption DEF TypeOK, Retry
  <2>4. QED
    BY <1>4, <2>2, <2>3 DEF TypeOK, Retry
<1>5. ASSUME NEW e \in Env, Succeed(e)
      PROVE  TypeOK'
  <2>1. job[e] \in Job
    BY <1>5, HeldEvent DEF Succeed
  <2>2. EnvTypeOK'
    BY <1>5, FinishType DEF Succeed, Ended
  <2>3. QED
    BY <1>5, <2>1, <2>2 DEF TypeOK, EnvTypeOK, Succeed
<1>6. ASSUME NEW e \in Env, Suppress(e)
      PROVE  TypeOK'
  <2>1. EnvTypeOK'
    BY <1>6, FinishType DEF Suppress, Ended
  <2>2. QED
    BY <1>6, <2>1 DEF TypeOK, EnvTypeOK, Suppress
<1>7. ASSUME NEW e \in Env, Fail(e)
      PROVE  TypeOK'
  <2>1. EnvTypeOK'
    BY <1>7, ParkType DEF Fail, Reason
  <2>2. QED
    BY <1>7, <2>1 DEF TypeOK, EnvTypeOK, Fail
<1>8. ASSUME NEW e \in Env, SendPark(e) \/ Kill(e)
      PROVE  TypeOK'
  <2>1. EnvTypeOK'
    BY <1>8, FinishType DEF SendPark, Kill, Ended
  <2>2. \/ dlq' = dlq
        \/ pc[e] = "send" /\ dlq' = dlq \union {MessageOf(e)}
    BY <1>8 DEF SendPark, Kill
  <2>3. ASSUME pc[e] = "send"
        PROVE  MessageOf(e) \in Message
    BY <2>3, HeldEvent DEF TypeOK, Awaited, MessageOf, Message
  <2>4. dlq' \subseteq Message
    BY <2>2, <2>3 DEF TypeOK
  <2>5. QED
    BY <1>8, <2>1, <2>4 DEF TypeOK, EnvTypeOK, SendPark, Kill
<1>9. ASSUME NEW r \in wire, Serve(r)
      PROVE  TypeOK'
  <2>1. reply' \in [Env -> {"none", "ok", "conflict", "error", "retry"}]
    BY <1>9 DEF TypeOK, Serve, Deliver
  <2>2. QED
    BY <1>9, <2>1 DEF TypeOK, Serve
<1>10. CASE Tick
  BY <1>10, BoundAssumption DEF TypeOK, Tick
<1>11. ASSUME NEW m \in dlq, NEW k \in 0 .. MaxRedrives, RedriveDirectly(m, k)
       PROVE  TypeOK'
  <2>1. <<m.job[1], k>> \in Job /\ m.token \in Token
    BY BoundAssumption DEF TypeOK, Message, Job
  <2>2. \A s \in Space :
            [job |-> <<m.job[1], k>>, try |-> 1, token |-> m.token, space |-> s] \in Request
    BY <2>1, BoundAssumption DEF Request
  <2>3. QED
    BY <1>11, <2>1, <2>2 DEF TypeOK, RedriveDirectly, TakeOff, Ended
<1>12. ASSUME NEW m \in dlq, NEW k \in 0 .. MaxRedrives, NEW e \in Env,
              RedriveThroughHandler(e, m, k)
       PROVE  TypeOK'
  <2>1. m.job \in Job /\ <<m.job[1], k>> \in Job
    BY BoundAssumption DEF TypeOK, Message, Job
  <2>2. EventOf(m.job) \in Events
    BY <2>1 DEF Known, EventOf
  <2>3. EnvTypeOK' /\ arrived' \in [Job -> 0 .. MaxBucket]
    BY <1>12, <2>1, <2>2, BeginType DEF RedriveThroughHandler
  <2>4. QED
    BY <1>12, <2>3 DEF TypeOK, EnvTypeOK, RedriveThroughHandler, TakeOff
<1>13. CASE UNCHANGED vars
  BY <1>13 DEF TypeOK, vars
<1>14. QED
  BY <1>1, <1>2, <1>3, <1>4, <1>5, <1>6, <1>7, <1>8, <1>9, <1>10, <1>11, <1>12,
     <1>13 DEF Next, Step

-----------------------------------------------------------------------------
\* What one step of a busy environment does to jobs: it ends the invocation,
\* takes it to another place, or leaves it where it is.
Ends(e) == \E f \in Ended \ {"direct"} : Finish(e, f)
Moves(e) ==
    /\ \E place \in {"client", "wait", "send"} : pc' = [pc EXCEPT ![e] = place]
    /\ UNCHANGED <<fate, job>>

LEMMA ParkShape ==
    ASSUME NEW e \in Env, NEW why, Park(e, why)
    PROVE  Ends(e) \/ Moves(e)
BY DEF Park, StartSend, Ends, Moves, Ended

LEMMA StepShape ==
    ASSUME NEW e \in Env, Step(e) \/ Kill(e)
    PROVE  /\ pc[e] # "idle"
           /\ Ends(e) \/ Moves(e) \/ UNCHANGED <<fate, pc, job>>
           /\ UNCHANGED <<bucket, event, arrived>>
<1>1. CASE Route(e)
  BY <1>1, ParkShape DEF Route, Ends, Moves, Ended
<1>2. CASE StartCall(e)
  BY <1>2, ParkShape DEF StartCall, Moves
<1>3. CASE Retry(e)
  BY <1>3 DEF Retry
<1>4. CASE Fail(e)
  BY <1>4, ParkShape DEF Fail
<1>5. CASE Succeed(e) \/ Suppress(e) \/ SendPark(e) \/ Kill(e)
  BY <1>5 DEF Succeed, Suppress, SendPark, Kill, Ends, Ended
<1>6. QED
  BY <1>1, <1>2, <1>3, <1>4, <1>5 DEF Step

LEMMA BeginHolding ==
    ASSUME TypeOK, Holding, NEW e \in Env, NEW j \in Job, NEW ev, Begin(e, j, ev)
    PROVE  Holding'
BY DEF TypeOK, Holding, Begin, envVars

LEMMA StepHolding ==
    ASSUME TypeOK, Holding, NEW e \in Env, Step(e) \/ Kill(e)
    PROVE  Holding'
<1>1. CASE Ends(e)
  <2>1. PICK f \in Ended \ {"direct"} : Finish(e, f)
    BY <1>1 DEF Ends
  <2>2. ASSUME NEW x \in Env, pc'[x] # "idle"
        PROVE  x # e /\ pc[x] # "idle" /\ job'[x] = job[x]
    BY <2>1, <2>2 DEF TypeOK, Finish
  <2>3. ASSUME NEW x \in Env, pc'[x] # "idle"
        PROVE  job[x] # job[e] /\ fate'[job[x]] = fate[job[x]]
    BY <2>1, <2>2, <2>3, StepShape DEF TypeOK, Holding, Finish
  <2>4. QED
    BY <2>2, <2>3 DEF Holding
<1>2. CASE Moves(e)
  BY <1>2, StepShape DEF TypeOK, Holding, Moves
<1>3. CASE UNCHANGED <<fate, pc, job>>
  BY <1>3 DEF Holding
<1>4. QED
  BY <1>1, <1>2, <1>3, StepShape

\* No step lets two environments hold one job.
LEMMA HoldingStep == TypeOK /\ Holding /\ [Next]_vars => Holding'
<1> SUFFICES ASSUME TypeOK, Holding, [Next]_vars
             PROVE  Holding'
  OBVIOUS
<1>1. ASSUME NEW e \in Env, NEW n \in Notification, NEW ev \in Events, Receive(e, n, ev)
      PROVE  Holding'
  <2>1. <<n, 0>> \in Job
    BY BoundAssumption DEF Job
  <2>2. QED
    BY <1>1, <2>1, BeginHolding DEF Receive
<1>2. ASSUME NEW e \in Env, Step(e) \/ Kill(e)
      PROVE  Holding'
  BY <1>2, StepHolding
<1>3. CASE (\E r \in wire : Serve(r)) \/ Tick \/ UNCHANGED vars
  BY <1>3 DEF Holding, Serve, Tick, vars
<1>4. ASSUME NEW m \in dlq, NEW k \in 0 .. MaxRedrives, RedriveDirectly(m, k)
      PROVE  Holding'
  BY <1>4 DEF TypeOK, Holding, RedriveDirectly, NextRun
<1>5. ASSUME NEW m \in dlq, NEW k \in 0 .. MaxRedrives, NEW e \in Env,
             RedriveThroughHandler(e, m, k)
      PROVE  Holding'
  <2>1. <<m.job[1], k>> \in Job
    BY DEF TypeOK, Message, Job
  <2>2. QED
    BY <1>5, <2>1, BeginHolding DEF RedriveThroughHandler
<1>6. QED
  BY <1>1, <1>2, <1>3, <1>4, <1>5 DEF Next

-----------------------------------------------------------------------------
\* A request or message a step adds belongs to the job in hand, or to the
\* redrive the step is.
NewRequest(r) == r \in Requests' /\ r \notin Requests
NewMessage(m) == m \in dlq' /\ m \notin dlq

LEMMA StepTraces ==
    ASSUME TypeOK, NEW e \in Env, Step(e) \/ Kill(e)
    PROVE  /\ tasks' = tasks
           /\ \A r : NewRequest(r) =>
                  /\ r.job = job[e] /\ r.token = token'[e]
                  /\ pc'[e] = "wait" /\ UNCHANGED <<fate, job>>
           /\ \A m : NewMessage(m) => m = MessageOf(e) /\ pc[e] = "send" /\ Ends(e)
<1>1. CASE Route(e) \/ Succeed(e) \/ Suppress(e) \/ Fail(e)
  BY <1>1 DEF Route, Succeed, Suppress, Fail, NewRequest, NewMessage, Requests
<1>2. CASE StartCall(e)
  BY <1>2 DEF TypeOK, StartCall, Attempt, NewRequest, NewMessage, Requests
<1>3. CASE Retry(e)
  BY <1>3 DEF TypeOK, Retry, Attempt, NewRequest, NewMessage, Requests
<1>4. CASE SendPark(e) \/ Kill(e)
  BY <1>4 DEF SendPark, Kill, NewRequest, NewMessage, Requests, Ends, Ended
<1>5. QED
  BY <1>1, <1>2, <1>3, <1>4 DEF Step

LEMMA BeginKnown ==
    ASSUME TypeOK, Known, NEW e \in Env, NEW j \in Job, NEW ev, Begin(e, j, ev),
           event'[j[1]] \in Events,
           \A i \in Job : event[i[1]] \in Events => event'[i[1]] = event[i[1]],
           Requests' = Requests, dlq' \subseteq dlq
    PROVE  Known'
<1>1. \A i \in Job : fate'[i] # "none" => fate[i] # "none" \/ i = j
  BY DEF TypeOK, Begin
<1>2. \A i \in Job : fate[i] # "none" => fate'[i] = fate[i]
  BY DEF TypeOK, Begin
<1>3. \A r \in Requests : r.job \in Job
  BY DEF TypeOK, Requests, Request
<1>4. \A m \in dlq : m.job \in Job
  BY DEF TypeOK, Message
<1>5. QED
  BY <1>1, <1>2, <1>3, <1>4 DEF Known

LEMMA StepKnown ==
    ASSUME TypeOK, Holding, Known, NEW e \in Env, Step(e) \/ Kill(e)
    PROVE  Known'
<1>1. job[e] \in Job /\ fate[job[e]] = "open"
  BY StepShape DEF Holding
<1>2. ASSUME NEW j \in Job
      PROVE  /\ fate'[j] = "none" <=> fate[j] = "none"
             /\ fate'[j] = "open" => fate[j] = "open"
             /\ Ends(e) => fate'[job[e]] \notin {"none", "open"}
  BY <1>1, StepShape DEF TypeOK, Ends, Finish, Moves, Ended
<1>3. \A r \in Requests' : fate'[r.job] # "none"
  <2>1. ASSUME NEW r \in Requests
        PROVE  r.job \in Job
    BY DEF TypeOK, Requests, Request
  <2>2. QED
    BY <1>1, <1>2, <2>1, StepTraces DEF Known, NewRequest
<1>4. \A m \in dlq' : fate'[m.job] \notin {"none", "open"}
  <2>1. ASSUME NEW m \in dlq
        PROVE  m.job \in Job
    BY DEF TypeOK, Message
  <2>2. QED
    BY <1>1, <1>2, <2>1, StepTraces DEF Known, NewMessage, MessageOf
<1>5. QED
  BY <1>2, <1>3, <1>4, StepShape DEF Known

\* No step leaves a trace of a job that was never taken up.
LEMMA KnownStep == TypeOK /\ Holding /\ Known /\ [Next]_vars => Known'
<1> SUFFICES ASSUME TypeOK, Holding, Known, [Next]_vars
             PROVE  Known'
  OBVIOUS
<1>1. ASSUME NEW e \in Env, NEW n \in Notification, NEW ev \in Events, Receive(e, n, ev)
      PROVE  Known'
  <2>1. <<n, 0>> \in Job
    BY BoundAssumption DEF Job
  <2>2. event'[n] = ev /\ Requests' = Requests /\ dlq' = dlq
    BY <1>1 DEF TypeOK, Receive, Requests
  <2>3. \A i \in Job : event[i[1]] \in Events => event'[i[1]] = event[i[1]]
    BY <1>1, EventsAssumption DEF TypeOK, Receive, Job
  <2>4. QED
    BY <1>1, <2>1, <2>2, <2>3, BeginKnown DEF Receive
<1>2. ASSUME NEW e \in Env, Step(e) \/ Kill(e)
      PROVE  Known'
  BY <1>2, StepKnown
<1>3. ASSUME NEW r \in wire, Serve(r)
      PROVE  Known'
  BY <1>3 DEF Known, Serve, Requests
<1>4. CASE Tick \/ UNCHANGED vars
  BY <1>4 DEF Known, Tick, Requests, vars
<1>5. ASSUME NEW m \in dlq, NEW k \in 0 .. MaxRedrives, RedriveDirectly(m, k)
      PROVE  Known'
  <2> DEFINE j == <<m.job[1], k>>
  <2>1. j \in Job /\ m.job \in Job /\ j[1] = m.job[1]
    BY DEF TypeOK, Message, Job
  <2>2. fate' = [fate EXCEPT ![j] = "direct"] /\ fate[j] = "none"
    BY <1>5 DEF RedriveDirectly, NextRun
  <2>3. event[j[1]] \in Events
    BY <2>1 DEF Known
  <2>4. \A r \in Requests' : r \in Requests \/ r.job = j
    BY <1>5 DEF RedriveDirectly, Requests
  <2>5. dlq' \subseteq dlq /\ event' = event
    BY <1>5 DEF RedriveDirectly, TakeOff
  <2>6. \A r \in Requests : r.job \in Job
    BY DEF TypeOK, Requests, Request
  <2>7. \A x \in dlq : x.job \in Job
    BY DEF TypeOK, Message
  <2> HIDE DEF j
  <2>8. QED
    BY <2>1, <2>2, <2>3, <2>4, <2>5, <2>6, <2>7 DEF TypeOK, Known
<1>6. ASSUME NEW m \in dlq, NEW k \in 0 .. MaxRedrives, NEW e \in Env,
             RedriveThroughHandler(e, m, k)
      PROVE  Known'
  <2>1. <<m.job[1], k>> \in Job /\ m.job \in Job
    BY DEF TypeOK, Message, Job
  <2>2. event[m.job[1]] \in Events
    BY <2>1 DEF Known
  <2>3. event' = event /\ Requests' = Requests /\ dlq' \subseteq dlq
    BY <1>6 DEF RedriveThroughHandler, TakeOff, Requests
  <2>4. QED
    BY <1>6, <2>1, <2>2, <2>3, BeginKnown DEF RedriveThroughHandler
<1>7. QED
  BY <1>1, <1>2, <1>3, <1>4, <1>5, <1>6 DEF Next

-----------------------------------------------------------------------------
\* Once a job was taken up, its event, its time of arrival and whether the
\* operator ran it are settled.
LEMMA Settled ==
    ASSUME TypeOK, Holding, Known, [Next]_vars, NEW j \in Job, fate[j] # "none"
    PROVE  /\ event'[j[1]] = event[j[1]]
           /\ arrived'[j] = arrived[j]
           /\ fate'[j] # "none"
           /\ fate'[j] = "direct" <=> fate[j] = "direct"
           /\ bucket <= bucket'
<1>1. event[j[1]] \in Events
  BY DEF Known
<1>2. bucket \in Nat
  BY BoundAssumption DEF TypeOK
<1>3. ASSUME NEW e \in Env, NEW n \in Notification, NEW ev \in Events, Receive(e, n, ev)
      PROVE  /\ event'[j[1]] = event[j[1]] /\ arrived'[j] = arrived[j]
             /\ fate'[j] = fate[j] /\ bucket' = bucket
  BY <1>1, <1>3, EventsAssumption DEF TypeOK, Receive, Begin, Job
<1>4. ASSUME NEW e \in Env, Step(e) \/ Kill(e)
      PROVE  /\ UNCHANGED <<event, arrived, bucket>>
             /\ fate'[j] = fate[j] \/ (j = job[e] /\ fate[j] = "open" /\ Ends(e))
  BY <1>4, StepShape DEF TypeOK, Holding, Ends, Finish, Moves
<1>5. ASSUME NEW e \in Env, Ends(e), j = job[e]
      PROVE  fate'[j] \notin {"none", "direct"}
  BY <1>5 DEF TypeOK, Ends, Finish, Ended
<1>6. CASE (\E r \in wire : Serve(r)) \/ UNCHANGED vars
  BY <1>2, <1>6 DEF Serve, vars
<1>7. CASE Tick
  BY <1>2, <1>7 DEF Tick
<1>8. ASSUME NEW m \in dlq, NEW k \in 0 .. MaxRedrives,
             \/ RedriveDirectly(m, k)
             \/ \E e \in Env : RedriveThroughHandler(e, m, k)
      PROVE  UNCHANGED <<event, bucket>> /\ arrived'[j] = arrived[j] /\ fate'[j] = fate[j]
  BY <1>8 DEF TypeOK, RedriveDirectly, RedriveThroughHandler, NextRun, Begin
<1>9. QED
  BY <1>2, <1>3, <1>4, <1>5, <1>6, <1>7, <1>8 DEF Next

\* The environments but e stand still.
OthersStand(e) ==
    \A x \in Env \ {e} :
        /\ pc'[x] = pc[x] /\ job'[x] = job[x]
        /\ token'[x] = token[x] /\ target'[x] = target[x]
        /\ reply'[x] = reply[x] /\ reason'[x] = reason[x]

LEMMA StepStands ==
    ASSUME TypeOK, NEW e \in Env, Step(e) \/ Kill(e)
    PROVE  OthersStand(e)
<1>1. ASSUME NEW why, Park(e, why)
      PROVE  OthersStand(e)
  BY <1>1 DEF TypeOK, Park, Finish, StartSend, OthersStand
<1>2. ASSUME NEW f, Finish(e, f)
      PROVE  OthersStand(e)
  BY <1>2 DEF TypeOK, Finish, OthersStand
<1>3. CASE Route(e) \/ StartCall(e) \/ Fail(e)
  BY <1>1, <1>2, <1>3 DEF TypeOK, Route, StartCall, Fail, OthersStand
<1>4. CASE Retry(e)
  BY <1>4 DEF TypeOK, Retry, OthersStand
<1>5. CASE Succeed(e) \/ Suppress(e) \/ SendPark(e) \/ Kill(e)
  BY <1>2, <1>5 DEF Succeed, Suppress, SendPark, Kill
<1>6. QED
  BY <1>3, <1>4, <1>5 DEF Step

LEMMA BeginStands ==
    ASSUME TypeOK, NEW e \in Env, NEW j, NEW ev, Begin(e, j, ev)
    PROVE  /\ OthersStand(e)
           /\ pc'[e] \in {"idle", "route"} /\ UNCHANGED <<target, token, tries, reply, reason>>
BY DEF TypeOK, Begin, OthersStand, envVars

\* What a step leaves an environment that it puts or leaves in a call: a
\* token computed in that step or kept from before.
LEMMA StepToken ==
    ASSUME TypeOK, Awaited, NEW e \in Env, Step(e) \/ Kill(e),
           pc'[e] \in {"wait", "send"}
    PROVE  /\ job'[e] = job[e]
           /\ reply'[e] = "none"
           /\ \/ token'[e] = DeduplicationToken(AlarmOf(job[e]))
              \/ pc[e] = "wait" /\ pc'[e] = "wait" /\ token'[e] = token[e]
<1>1. ASSUME NEW why, Park(e, why)
      PROVE  job'[e] = job[e] /\ reply'[e] = "none"
             /\ token'[e] = DeduplicationToken(AlarmOf(job[e]))
  BY <1>1 DEF TypeOK, Park, Finish, StartSend
<1>2. ~\E f : Finish(e, f)
  BY DEF TypeOK, Finish
<1>3. CASE Route(e) \/ Fail(e)
  BY <1>1, <1>2, <1>3 DEF TypeOK, Route, Fail
<1>4. CASE StartCall(e)
  BY <1>1, <1>4 DEF TypeOK, Awaited, StartCall
<1>5. CASE Retry(e)
  BY <1>5 DEF TypeOK, Retry
<1>6. QED
  BY <1>2, <1>3, <1>4, <1>5 DEF Step, Succeed, Suppress, SendPark, Kill

LEMMA StepAwaited ==
    ASSUME TypeOK, Awaited, NEW e \in Env, Step(e) \/ Kill(e)
    PROVE  Awaited'
<1>1. ASSUME NEW why \in Reason, Park(e, why)
      PROVE  Awaited'
  BY <1>1 DEF TypeOK, Awaited, Park, Finish, StartSend, Reason
<1>2. ASSUME NEW f, Finish(e, f)
      PROVE  Awaited'
  BY <1>2 DEF TypeOK, Awaited, Finish
<1>3. CASE Route(e)
  BY <1>1, <1>2, <1>3 DEF TypeOK, Awaited, Route, Reason
<1>4. CASE StartCall(e)
  BY <1>1, <1>4 DEF TypeOK, Awaited, StartCall, Reason
<1>5. CASE Retry(e)
  BY <1>5 DEF TypeOK, Awaited, Retry
<1>6. CASE Fail(e)
  BY <1>1, <1>6 DEF Fail, Reason
<1>7. QED
  BY <1>2, <1>3, <1>4, <1>5, <1>6 DEF Step, Succeed, Suppress, SendPark, Kill

\* No step answers a call nobody waits for.
LEMMA AwaitedStep == TypeOK /\ Awaited /\ [Next]_vars => Awaited'
<1> SUFFICES ASSUME TypeOK, Awaited, [Next]_vars
             PROVE  Awaited'
  OBVIOUS
<1>1. ASSUME NEW e \in Env, NEW j, NEW ev, Begin(e, j, ev)
      PROVE  Awaited'
  BY <1>1 DEF TypeOK, Awaited, Begin, envVars
<1>2. ASSUME NEW r \in wire, Serve(r)
      PROVE  Awaited'
  BY <1>2 DEF TypeOK, Awaited, Serve, Deliver
<1>3. ASSUME UNCHANGED <<pc, target, reply, reason>>
      PROVE  Awaited'
  BY <1>3 DEF Awaited
<1>4. QED
  BY <1>1, <1>2, <1>3, StepAwaited
  DEF Next, Receive, Tick, RedriveDirectly, RedriveThroughHandler, vars

-----------------------------------------------------------------------------
\* A token computed now fits every job taken up already.
LEMMA TokenNow ==
    ASSUME TypeOK, NEW j \in Job, AlarmOf(j) \in Alarm, arrived[j] <= bucket
    PROVE  LET tok == DeduplicationToken(AlarmOf(j))
           IN  /\ Dedup => tok # NoToken /\ arrived[j] <= tok[2]
               /\ tok # NoToken => tok[1] = AlarmOf(j) /\ tok[2] <= bucket
BY NullAssumption DEF TypeOK, DeduplicationToken

\* Where a request or message that a step adds comes from: a call in hand,
\* the operator, or the end of a park.
FromCall(r) == \E e \in Env : r.job = job'[e] /\ r.token = token'[e] /\ pc'[e] = "wait"
FromOperator(r) ==
    \E m \in dlq :
        /\ r.job \in Job /\ r.job[1] = m.job[1] /\ r.token = m.token
        /\ fate[r.job] = "none" /\ fate'[r.job] = "direct"
FromPark(m) == \E e \in Env : pc[e] = "send" /\ m = MessageOf(e)

LEMMA NewTraces ==
    ASSUME TypeOK, [Next]_vars
    PROVE  /\ \A r : NewRequest(r) => FromCall(r) \/ FromOperator(r)
           /\ \A m : NewMessage(m) => FromPark(m)
<1>1. ASSUME NEW e \in Env, Step(e) \/ Kill(e)
      PROVE  /\ \A r : NewRequest(r) => FromCall(r)
             /\ \A m : NewMessage(m) => FromPark(m)
  BY <1>1, StepTraces DEF FromCall, FromPark
<1>2. ASSUME NEW m \in dlq, NEW k \in 0 .. MaxRedrives, RedriveDirectly(m, k)
      PROVE  /\ \A r : NewRequest(r) => FromOperator(r)
             /\ \A x : ~NewMessage(x)
  <2> DEFINE j == <<m.job[1], k>>
  <2>1. j \in Job /\ j[1] = m.job[1]
    BY DEF TypeOK, Message, Job
  <2>2. fate[j] = "none" /\ fate'[j] = "direct" /\ dlq' \subseteq dlq
    BY <1>2, <2>1 DEF TypeOK, RedriveDirectly, NextRun, TakeOff
  <2>3. \A r : NewRequest(r) => r.job = j /\ r.token = m.token
    BY <1>2 DEF RedriveDirectly, NewRequest, Requests
  <2> HIDE DEF j
  <2>4. QED
    BY <2>1, <2>2, <2>3 DEF FromOperator, NewMessage
<1>3. ASSUME \/ \E e \in Env, n \in Notification, ev \in Events : Receive(e, n, ev)
             \/ \E r \in wire : Serve(r)
             \/ Tick
             \/ \E m \in dlq, k \in 0 .. MaxRedrives, e \in Env :
                    RedriveThroughHandler(e, m, k)
             \/ UNCHANGED vars
      PROVE  (\A r : ~NewRequest(r)) /\ (\A m : ~NewMessage(m))
  BY <1>3 DEF Receive, Serve, Tick, RedriveThroughHandler, TakeOff, Requests,
              NewRequest, NewMessage, vars
<1>4. QED
  BY <1>1, <1>2, <1>3 DEF Next

\* A call in hand after a step was in hand before it, or has a token computed
\* in that step.
LEMMA CallToken ==
    ASSUME TypeOK, Awaited, [Next]_vars, NEW e \in Env, pc'[e] \in {"wait", "send"}
    PROVE  /\ pc[e] # "idle" /\ job'[e] = job[e]
           /\ \/ pc[e] = pc'[e] /\ token'[e] = token[e]
              \/ token'[e] = DeduplicationToken(AlarmOf(job[e])) /\ bucket' = bucket
<1>1. ASSUME NEW x \in Env, Step(x) \/ Kill(x)
      PROVE  /\ pc[e] # "idle" /\ job'[e] = job[e]
             /\ \/ pc[e] = pc'[e] /\ token'[e] = token[e]
                \/ /\ token'[e] = DeduplicationToken(AlarmOf(job[e]))
                   /\ bucket' = bucket
  BY <1>1, StepToken, StepStands, StepShape DEF OthersStand
<1>2. ASSUME NEW x \in Env, NEW j, NEW ev, Begin(x, j, ev)
      PROVE  pc[e] = pc'[e] /\ job'[e] = job[e] /\ token'[e] = token[e]
  BY <1>2, BeginStands DEF OthersStand
<1>3. QED
  BY <1>1, <1>2
  DEF Next, Receive, Serve, Tick, RedriveDirectly, RedriveThroughHandler, vars

\* No step gives a request or a message a token of another alarm, or one of a
\* window before its job arrived.
LEMMA TokensFitStep ==
    TypeOK /\ Holding /\ Known /\ Awaited /\ TokensFit /\ [Next]_vars => TokensFit'
<1> SUFFICES ASSUME TypeOK, Holding, Known, Awaited, TokensFit, [Next]_vars
             PROVE  TokensFit'
  OBVIOUS
<1>1. \A j \in Job : arrived'[j] <= bucket'
  <2>1. \A j \in Job : arrived[j] \in Nat /\ arrived[j] <= bucket /\ bucket \in Nat
    BY BoundAssumption DEF TypeOK, TokensFit
  <2>2. ASSUME \/ \E e \in Env : Step(e) \/ Kill(e)
               \/ \E r \in wire : Serve(r)
               \/ UNCHANGED vars
        PROVE  UNCHANGED <<bucket, arrived>>
    BY <2>2, StepShape DEF Serve, vars
  <2>3. ASSUME NEW e \in Env, NEW j, NEW ev, Begin(e, j, ev), bucket' = bucket
        PROVE  \A i \in Job : arrived'[i] <= bucket'
    BY <2>1, <2>3 DEF TypeOK, Begin
  <2>4. CASE Tick
    BY <2>1, <2>4 DEF Tick
  <2>5. ASSUME NEW m \in dlq, NEW k \in 0 .. MaxRedrives, RedriveDirectly(m, k)
        PROVE  \A i \in Job : arrived'[i] <= bucket'
    BY <2>1, <2>5 DEF TypeOK, RedriveDirectly
  <2>6. QED
    BY <2>1, <2>2, <2>3, <2>4, <2>5 DEF Next, Receive, RedriveThroughHandler
<1>2. ASSUME NEW j \in Job, fate[j] # "none", NEW tok \in Token
      PROVE  /\ event'[j[1]] = event[j[1]] /\ arrived'[j] = arrived[j]
             /\ tok # NoToken /\ tok[2] <= bucket => tok[2] <= bucket'
  <2>1. bucket \in Nat /\ bucket' \in Nat /\ \A t \in Token : t # NoToken => t[2] \in Nat
    BY TypeStep, BoundAssumption DEF TypeOK, Token
  <2>2. QED
    BY <1>2, <2>1, Settled
<1>3. ASSUME NEW e \in Env, pc'[e] \in {"wait", "send"}
      PROVE  /\ Dedup => token'[e] # NoToken
             /\ token'[e] # NoToken =>
                    /\ token'[e][1] = event'[job'[e][1]].alarm
                    /\ token'[e][2] <= bucket'
             /\ Dedup => arrived'[job'[e]] <= token'[e][2]
  <2>1. job[e] \in Job /\ fate[job[e]] # "none" /\ AlarmOf(job[e]) \in Alarm
    BY <1>3, CallToken, HeldEvent DEF Holding
  <2>2. token[e] \in Token /\ DeduplicationToken(AlarmOf(job[e])) \in Token
    BY <2>1, TokenType DEF TypeOK
  <2>3. /\ Dedup => token'[e] # NoToken
        /\ Identifies(token'[e], job[e])
        /\ Dedup => arrived[job[e]] <= token'[e][2]
    BY <1>3, <2>1, CallToken, TokenNow DEF TokensFit, Identifies
  <2>4. job'[e] = job[e] /\ token'[e] \in Token
    BY <1>3, <2>2, CallToken
  <2>5. QED
    BY <1>2, <2>1, <2>3, <2>4 DEF Identifies, AlarmOf, EventOf
<1>4. ASSUME NEW m \in dlq'
      PROVE  /\ Dedup => m.token # NoToken
             /\ m.token # NoToken =>
                    m.token[1] = event'[m.job[1]].alarm /\ m.token[2] <= bucket'
  <2>1. CASE m \in dlq
    <3>1. m.job \in Job /\ m.token \in Token /\ fate[m.job] # "none"
      BY <2>1 DEF TypeOK, Message, Known
    <3>2. QED
      BY <1>2, <2>1, <3>1 DEF TokensFit, Identifies, AlarmOf, EventOf
  <2>2. CASE FromPark(m)
    <3>1. PICK e \in Env : pc[e] = "send" /\ m.token = token[e] /\ m.job = job[e]
      BY <2>2 DEF FromPark, MessageOf
    <3>2. m.job \in Job /\ m.token \in Token /\ fate[m.job] # "none"
      BY <3>1 DEF TypeOK, Holding
    <3>3. QED
      BY <1>2, <3>1, <3>2 DEF TokensFit, Identifies, AlarmOf, EventOf
  <2>3. QED
    BY <2>1, <2>2, NewTraces DEF NewMessage
<1>5. ASSUME NEW r \in Requests'
      PROVE  /\ Dedup => r.token # NoToken
             /\ r.token # NoToken =>
                    r.token[1] = event'[r.job[1]].alarm /\ r.token[2] <= bucket'
             /\ Dedup /\ fate'[r.job] # "direct" => arrived'[r.job] <= r.token[2]
  <2>1. CASE r \in Requests
    <3>1. r.job \in Job /\ r.token \in Token /\ fate[r.job] # "none"
      BY <2>1 DEF TypeOK, Requests, Request, Known
    <3>2. fate'[r.job] = "direct" <=> fate[r.job] = "direct"
      BY <3>1, Settled
    <3>3. QED
      BY <1>2, <2>1, <3>1, <3>2 DEF TokensFit, Identifies, AlarmOf, EventOf
  <2>2. CASE FromCall(r)
    BY <1>3, <2>2 DEF FromCall
  <2>3. CASE FromOperator(r)
    <3>1. PICK m \in dlq : /\ r.job[1] = m.job[1] /\ r.token = m.token
                           /\ fate'[r.job] = "direct"
      BY <2>3 DEF FromOperator
    <3>2. m.job \in Job /\ m.token \in Token /\ fate[m.job] # "none"
      BY <3>1 DEF TypeOK, Message, Known
    <3>3. QED
      BY <1>2, <3>1, <3>2 DEF TokensFit, Identifies, AlarmOf, EventOf
  <2>4. QED
    BY <2>1, <2>2, <2>3, NewTraces DEF NewRequest
<1>6. QED
  BY <1>1, <1>3, <1>4, <1>5 DEF TokensFit, Identifies, AlarmOf, EventOf

-----------------------------------------------------------------------------
\* A task is made of a request nobody's token holds yet, and is never lost.
LEMMA TasksGrow ==
    ASSUME TypeOK, [Next]_vars
    PROVE  \/ tasks' = tasks
           \/ \E r \in wire : tasks' = tasks \union {r} /\ Holders(r) = {}
<1>1. ASSUME NEW e \in Env, Step(e) \/ Kill(e)
      PROVE  tasks' = tasks
  BY <1>1, StepTraces
<1>2. ASSUME NEW r \in wire, Serve(r)
      PROVE  tasks' = tasks \/ (tasks' = tasks \union {r} /\ Holders(r) = {})
  BY <1>2 DEF Serve
<1>3. QED
  BY <1>1, <1>2 DEF Next, Receive, Tick, RedriveDirectly, RedriveThroughHandler, vars

\* No step makes a second task of one token.
LEMMA TokensUniqueStep == TypeOK /\ TokensUnique /\ [Next]_vars => TokensUnique'
BY TasksGrow DEF TokensUnique, Holders

\* Only the service puts an answer in front of an environment.
LEMMA AnswerKept ==
    ASSUME TypeOK, Awaited, [Next]_vars, \A r \in wire : ~Serve(r),
           NEW e \in Env, reply'[e] # "none"
    PROVE  reply'[e] = reply[e] /\ token'[e] = token[e] /\ target'[e] = target[e]
             /\ job'[e] = job[e]
<1>1. pc'[e] = "wait"
  BY AwaitedStep DEF Awaited
<1>2. ASSUME NEW x \in Env, Step(x) \/ Kill(x)
      PROVE  reply'[e] = reply[e] /\ token'[e] = token[e] /\ target'[e] = target[e]
             /\ job'[e] = job[e]
  BY <1>1, <1>2, StepToken, StepStands DEF OthersStand
<1>3. ASSUME NEW x \in Env, NEW j, NEW ev, Begin(x, j, ev)
      PROVE  reply'[e] = reply[e] /\ token'[e] = token[e] /\ target'[e] = target[e]
             /\ job'[e] = job[e]
  BY <1>1, <1>3, BeginStands DEF OthersStand
<1>4. QED
  BY <1>2, <1>3 DEF Next, Receive, Tick, RedriveDirectly, RedriveThroughHandler, vars

\* A task with a token that fits a job is a task of the job's alarm, whether
\* or not the step added it.
LEMMA SameTokenSameAlarm ==
    ASSUME TypeOK, TokensFit, NEW r \in Requests, NEW t \in Requests,
           t.token = r.token, r.token # NoToken
    PROVE  AlarmOf(t.job) = AlarmOf(r.job)
BY DEF TokensFit, Identifies

\* What the service answers, it has done.
LEMMA ServeAnswers ==
    ASSUME TypeOK, Holding, Known, Awaited, TokensFit, Answered,
           NEW r \in wire, Serve(r), NEW e \in Env,
           reply'[e] = "ok" \/ (reply'[e] = "conflict" /\ token'[e] # NoToken)
    PROVE  \E t \in tasks' : /\ t.token = token'[e] /\ t.space = target'[e]
                             /\ AlarmOf(t.job) = AlarmOf(job'[e])
<1>1. tasks \subseteq tasks' /\ token' = token /\ target' = target /\ job' = job
  BY DEF Serve
<1>2. CASE reply'[e] = reply[e]
  BY <1>1, <1>2 DEF Answered
<1>3. CASE reply'[e] # reply[e]
  <2>1. RequestOf(e) = r
    BY <1>3 DEF TypeOK, Serve, Deliver
  <2>2. r.token = token[e] /\ r.space = target[e] /\ r.job = job[e]
    BY <2>1 DEF RequestOf, Attempt
  <2>3. r \in tasks' \/ Holders(r) # {}
    BY <1>1, <1>3, <2>2 DEF TypeOK, Serve, Deliver
  <2>4. CASE r \in tasks'
    BY <1>1, <2>2, <2>4
  <2>5. CASE Holders(r) # {}
    <3>1. PICK t \in tasks : t.token = r.token /\ t.space = r.space /\ r.token # NoToken
      BY <2>5 DEF Holders
    <3>2. AlarmOf(t.job) = AlarmOf(r.job)
      BY <3>1, SameTokenSameAlarm DEF Requests
    <3>3. QED
      BY <1>1, <2>2, <3>1, <3>2
  <2>6. QED
    BY <2>3, <2>4, <2>5
<1>4. QED
  BY <1>2, <1>3

\* No step leaves an answer without its task.
LEMMA AnsweredStep ==
    TypeOK /\ Holding /\ Known /\ Awaited /\ TokensFit /\ Answered /\ [Next]_vars
        => Answered'
<1> SUFFICES ASSUME TypeOK, Holding, Known, Awaited, TokensFit, Answered, [Next]_vars,
                    NEW e \in Env,
                    reply'[e] = "ok" \/ (reply'[e] = "conflict" /\ token'[e] # NoToken)
             PROVE  \E t \in tasks' :
                        /\ t.token = token'[e] /\ t.space = target'[e]
                        /\ AlarmOf(t.job)' = AlarmOf(job[e])'
  BY DEF Answered
<1>1. pc'[e] = "wait" /\ job'[e] = job[e] /\ pc[e] # "idle"
  BY AwaitedStep, CallToken DEF Awaited
<1>2. PICK t \in tasks' : /\ t.token = token'[e] /\ t.space = target'[e]
                           /\ AlarmOf(t.job) = AlarmOf(job[e])
  <2>1. CASE \E r \in wire : Serve(r)
    BY <1>1, <2>1, ServeAnswers
  <2>2. CASE \A r \in wire : ~Serve(r)
    BY <2>2, AnswerKept, TasksGrow DEF Answered
  <2>3. QED
    BY <2>1, <2>2
<1>3. t \in Requests
  BY TasksGrow DEF Requests
<1>4. /\ t.job \in Job /\ fate[t.job] # "none"
      /\ job[e] \in Job /\ fate[job[e]] # "none"
  BY <1>1, <1>3 DEF TypeOK, Requests, Request, Known, Holding
<1>5. event'[t.job[1]] = event[t.job[1]] /\ event'[job[e][1]] = event[job[e][1]]
  BY <1>4, Settled
<1>6. QED
  BY <1>1, <1>2, <1>5 DEF AlarmOf, EventOf

-----------------------------------------------------------------------------
\* Only a call that was answered ends an invocation as accepted.
LEMMA AcceptanceAnswered ==
    ASSUME TypeOK, Holding, [Next]_vars, NEW j \in Job,
           fate'[j] \in {"created", "suppressed"}, fate'[j] # fate[j]
    PROVE  \E e \in Env : /\ j = job[e] /\ pc[e] = "wait"
                          /\ \/ reply[e] = "ok"
                             \/ reply[e] = "conflict" /\ token[e] # NoToken
<1>1. ASSUME NEW e \in Env, NEW f, Finish(e, f), f \notin {"created", "suppressed"}
      PROVE  fate'[j] = fate[j] \/ fate'[j] = f
  BY <1>1 DEF TypeOK, Finish
<1>2. ASSUME NEW e \in Env, NEW why, Park(e, why)
      PROVE  FALSE
  BY <1>1, <1>2 DEF Park, StartSend
<1>3. ASSUME NEW e \in Env, Step(e) \/ Kill(e)
      PROVE  Succeed(e) \/ Suppress(e)
  BY <1>1, <1>2, <1>3
  DEF Step, Kill, Route, StartCall, Retry, Fail, SendPark
<1>4. ASSUME NEW e \in Env, Succeed(e) \/ Suppress(e)
      PROVE  /\ j = job[e] /\ pc[e] = "wait"
             /\ \/ reply[e] = "ok"
                \/ reply[e] = "conflict" /\ token[e] # NoToken
  BY <1>4 DEF TypeOK, Succeed, Suppress, Finish
<1>5. ASSUME NEW e \in Env, NEW i, NEW ev, Begin(e, i, ev)
      PROVE  FALSE
  BY <1>5 DEF TypeOK, Begin
<1>6. ASSUME NEW m \in dlq, NEW k \in 0 .. MaxRedrives, RedriveDirectly(m, k)
      PROVE  FALSE
  BY <1>6 DEF TypeOK, RedriveDirectly
<1>7. QED
  BY <1>3, <1>4, <1>5, <1>6 DEF Next, Receive, Serve, Tick, RedriveThroughHandler, vars

\* No step accepts an alarm that has no investigation of its own window, or
\* loses the one it was accepted for.
LEMMA AcceptedStep ==
    /\ TypeOK /\ Holding /\ Known /\ Awaited /\ TokensFit /\ Answered
    /\ AcceptedIsInvestigated /\ [Next]_vars
    => AcceptedIsInvestigated'
<1> SUFFICES ASSUME TypeOK, Holding, Known, Awaited, TokensFit, Answered,
                    AcceptedIsInvestigated, [Next]_vars,
                    NEW j \in Job, fate'[j] \in {"created", "suppressed"}
             PROVE  \E t \in tasks' : /\ AlarmOf(t.job)' = AlarmOf(j)'
                                      /\ Dedup => t.token[2] >= arrived'[j]
  BY DEF AcceptedIsInvestigated
<1>1. /\ fate[j] # "none"
      /\ \E t \in tasks : /\ AlarmOf(t.job) = AlarmOf(j)
                          /\ Dedup => t.token[2] >= arrived[j]
  <2>1. CASE fate'[j] = fate[j]
    BY <2>1 DEF AcceptedIsInvestigated
  <2>2. CASE fate'[j] # fate[j]
    <3>1. PICK e \in Env : /\ j = job[e] /\ pc[e] = "wait"
                           /\ \/ reply[e] = "ok"
                              \/ reply[e] = "conflict" /\ token[e] # NoToken
      BY <2>2, AcceptanceAnswered
    <3>2. PICK t \in tasks : t.token = token[e] /\ AlarmOf(t.job) = AlarmOf(job[e])
      BY <3>1 DEF Answered
    <3>3. Dedup => /\ arrived[job[e]] <= token[e][2] /\ arrived[job[e]] \in Nat
                   /\ token[e][2] \in Nat
      <4>1. job[e] \in Job /\ token[e] \in Token
        BY <3>1 DEF TypeOK, Holding
      <4>2. QED
        BY <3>1, <4>1, BoundAssumption DEF TypeOK, TokensFit, Token
    <3>4. QED
      BY <3>1, <3>2, <3>3 DEF Holding
  <2>3. QED
    BY <2>1, <2>2
<1>2. PICK t \in tasks : /\ AlarmOf(t.job) = AlarmOf(j)
                         /\ Dedup => t.token[2] >= arrived[j]
  BY <1>1
<1>3. t \in tasks' /\ t.job \in Job /\ fate[t.job] # "none"
  BY TasksGrow DEF TypeOK, Request, Known, Requests
<1>4. QED
  BY <1>1, <1>2, <1>3, Settled DEF AlarmOf, EventOf

-----------------------------------------------------------------------------
\* Environment e has sent nothing for the job it holds.
Unsending(e) ==
    pc[e] \in {"route", "client"} \/ (pc[e] = "send" /\ reason[e] \in Untried)

\* An environment that has sent nothing had sent nothing before, or has only
\* just taken its job up.
LEMMA UnsendingBefore ==
    ASSUME TypeOK, [Next]_vars, NEW e \in Env, Unsending(e)'
    PROVE  \/ Unsending(e) /\ job'[e] = job[e]
           \/ fate[job'[e]] = "none"
<1>1. ASSUME NEW x \in Env, x # e, OthersStand(x)
      PROVE  Unsending(e) /\ job'[e] = job[e]
  BY <1>1 DEF OthersStand, Unsending
<1>2. ASSUME Step(e) \/ Kill(e)
      PROVE  Unsending(e) /\ job'[e] = job[e]
  <2>1. ASSUME NEW f, Finish(e, f)
        PROVE  FALSE
    BY <2>1 DEF TypeOK, Finish, Unsending
  <2>2. ASSUME Park(e, "investigation_creation_failed")
        PROVE  FALSE
    BY <2>1, <2>2 DEF TypeOK, Park, StartSend, Unsending, Untried
  <2>3. CASE Route(e)
    <3>1. job'[e] = job[e]
      BY <2>1, <2>3 DEF Route, Park, StartSend
    <3>2. QED
      BY <2>3, <3>1 DEF Route, Unsending
  <2>4. CASE StartCall(e) \/ Retry(e) \/ Fail(e)
    BY <2>2, <2>4 DEF TypeOK, StartCall, Retry, Fail, Unsending
  <2>5. QED
    BY <1>2, <2>1, <2>3, <2>4 DEF Step, Succeed, Suppress, SendPark, Kill
<1>3. ASSUME NEW j, NEW ev, Begin(e, j, ev)
      PROVE  \/ Unsending(e) /\ job'[e] = job[e]
             \/ fate[job'[e]] = "none"
  BY <1>3 DEF TypeOK, Begin, Unsending, envVars
<1>4. ASSUME UNCHANGED <<pc, job, reason>>
      PROVE  Unsending(e) /\ job'[e] = job[e]
  BY <1>4 DEF Unsending
<1>5. ASSUME NEW x \in Env, Step(x) \/ Kill(x)
      PROVE  Unsending(e) /\ job'[e] = job[e]
  BY <1>1, <1>2, <1>5, StepStands
<1>6. ASSUME NEW x \in Env, NEW j, NEW ev, Begin(x, j, ev)
      PROVE  \/ Unsending(e) /\ job'[e] = job[e]
             \/ fate[job'[e]] = "none"
  BY <1>1, <1>3, <1>6, BeginStands
<1>7. QED
  BY <1>4, <1>5, <1>6
  DEF Next, Receive, Serve, Tick, RedriveDirectly, RedriveThroughHandler, vars

\* No step sends a request for a job that still counts as unsent.
LEMMA UnsentStep ==
    TypeOK /\ Holding /\ Known /\ Unsent /\ [Next]_vars => Unsent'
<1> SUFFICES ASSUME TypeOK, Holding, Known, Unsent, [Next]_vars,
                    NEW e \in Env, Unsending(e)', NEW r \in Requests', r.job = job'[e]
             PROVE  FALSE
  BY DEF Unsent, Unsending
<1>1. pc'[e] \notin {"idle", "wait"}
  BY DEF Unsending
<1>2. job'[e] \in Job /\ fate'[job'[e]] = "open"
  BY <1>1, HoldingStep DEF Holding
<1>3. r \in Requests
  <2>1. ~FromCall(r)
    BY <1>1, HoldingStep DEF Holding, FromCall
  <2>2. ~FromOperator(r)
    BY <1>2 DEF FromOperator
  <2>3. QED
    BY <2>1, <2>2, NewTraces DEF NewRequest
<1>4. QED
  BY <1>3, UnsendingBefore DEF Unsent, Unsending, Known

\* No step makes a message wrong that says nothing was sent.
LEMMA UntriedStep ==
    TypeOK /\ Holding /\ Known /\ Unsent /\ UntriedIsUnsent /\ [Next]_vars
        => UntriedIsUnsent'
<1> SUFFICES ASSUME TypeOK, Holding, Known, Unsent, UntriedIsUnsent, [Next]_vars,
                    NEW m \in dlq', m.reason \in Untried,
                    NEW r \in Requests', r.job = m.job
             PROVE  FALSE
  BY DEF UntriedIsUnsent, Untried, Requests
<1>1. fate'[r.job] \notin {"none", "open"}
  BY KnownStep DEF Known
<1>2. fate[m.job] # "none"
  <2>1. CASE m \in dlq
    BY <2>1 DEF Known
  <2>2. CASE FromPark(m)
    BY <2>2 DEF FromPark, MessageOf, Holding
  <2>3. QED
    BY <2>1, <2>2, NewTraces DEF NewMessage
<1>3. r \in Requests
  <2>1. ~FromCall(r)
    BY <1>1, HoldingStep DEF Holding, FromCall
  <2>2. ~FromOperator(r)
    BY <1>2 DEF FromOperator
  <2>3. QED
    BY <2>1, <2>2, NewTraces DEF NewRequest
<1>4. FromPark(m)
  BY <1>3, NewTraces DEF NewMessage, UntriedIsUnsent, Untried, Requests
<1>5. QED
  BY <1>3, <1>4 DEF FromPark, MessageOf, Unsent

-----------------------------------------------------------------------------
LEMMA InitIInv == Init => IInv
<1> SUFFICES ASSUME Init
             PROVE  IInv
  OBVIOUS
<1>1. TypeOK
  BY BoundAssumption DEF Init, TypeOK, Token
<1>2. Holding /\ Known /\ Awaited /\ TokensUnique /\ Answered
  BY DEF Init, Holding, Known, Awaited, TokensUnique, Answered, Requests
<1>3. TokensFit
  BY DEF Init, TokensFit, Requests
<1>4. AcceptedIsInvestigated /\ Unsent /\ UntriedIsUnsent
  BY DEF Init, AcceptedIsInvestigated, Unsent, UntriedIsUnsent, Requests
<1>5. QED
  BY <1>1, <1>2, <1>3, <1>4 DEF IInv

LEMMA StepIInv == IInv /\ [Next]_vars => IInv'
BY TypeStep, HoldingStep, KnownStep, AwaitedStep, TokensFitStep, TokensUniqueStep,
   AnsweredStep, AcceptedStep, UnsentStep, UntriedStep DEF IInv

THEOREM Invariance == Spec => []IInv
BY InitIInv, StepIInv, PTL DEF Spec

\* Type correctness: every variable of the pipeline stays within its type.
THEOREM TypeCorrect == Spec => []TypeOK
<1>1. IInv => TypeOK
  BY DEF IInv
<1>2. QED
  BY <1>1, Invariance, PTL

\* An alarm answered 200 as dealt with has a task for its own sensor and
\* state, made in a window no older than its arrival: handler() never
\* suppresses an alarm that nobody investigates.
THEOREM AcceptedAreInvestigated == Spec => []AcceptedIsInvestigated
<1>1. IInv => AcceptedIsInvestigated
  BY DEF IInv
<1>2. QED
  BY <1>1, Invariance, PTL

\* A dead-letter message whose reason says that the call was not attempted
\* is right about it.
THEOREM UntriedAreUnsent == Spec => []UntriedIsUnsent
<1>1. IInv => UntriedIsUnsent
  BY DEF IInv
<1>2. QED
  BY <1>1, Invariance, PTL

LEMMA WindowsShareTask == IInv => OneInvestigationPerWindow
<1> SUFFICES ASSUME IInv, Dedup, NEW t1 \in tasks, NEW t2 \in tasks,
                    AlarmOf(t1.job) = AlarmOf(t2.job), t1.space = t2.space,
                    arrived[t1.job] = bucket, arrived[t2.job] = bucket,
                    fate[t1.job] # "direct", fate[t2.job] # "direct"
             PROVE  t1 = t2
  BY DEF OneInvestigationPerWindow
<1>1. ASSUME NEW t \in tasks, arrived[t.job] = bucket, fate[t.job] # "direct"
      PROVE  t.token = <<AlarmOf(t.job), bucket>>
  <2>1. t.token \in Token /\ t.token # NoToken
    BY DEF IInv, TypeOK, Request, TokensFit, Requests
  <2>2. t.token[1] = AlarmOf(t.job) /\ t.token[2] <= bucket /\ bucket <= t.token[2]
    BY <1>1, <2>1 DEF IInv, TokensFit, Identifies, Requests
  <2>3. t.token[2] \in Nat /\ bucket \in Nat
    BY <2>1, BoundAssumption DEF IInv, TypeOK, Token
  <2>4. QED
    BY <2>1, <2>2, <2>3 DEF Token
<1>2. t1.token # NoToken
  BY DEF IInv, TokensFit, Requests
<1>3. QED
  BY <1>1, <1>2 DEF IInv, TokensUnique

\* Notifications of one alarm that arrived in the window in force share one
\* task, whatever was retried, repeated or redriven.
THEOREM OnePerWindow == Spec => []OneInvestigationPerWindow
BY WindowsShareTask, Invariance, PTL

\* The tasks of one alarm in one Agent Space differ in the windows their
\* tokens were cut from, and no window is later than the one in force.
LEMMA TasksCountWindows == IInv => BacklogIsBounded
<1> SUFFICES ASSUME IInv, Dedup, NEW a \in Alarm, NEW s \in Space
             PROVE  Cardinality({t \in tasks : AlarmOf(t.job) = a /\ t.space = s})
                        <= bucket + 1
  BY DEF BacklogIsBounded
<1> DEFINE T == {t \in tasks : AlarmOf(t.job) = a /\ t.space = s}
           window == [t \in T |-> t.token[2]]
<1>1. bucket \in Nat /\ tasks \subseteq Request
  BY BoundAssumption DEF IInv, TypeOK
<1>2. ASSUME NEW t \in T
      PROVE  /\ t.token # NoToken
             /\ t.token = <<a, t.token[2]>>
             /\ t.token[2] \in 0 .. bucket
  <2>1. t.token \in Token /\ t.token # NoToken /\ Identifies(t.token, t.job)
    BY <1>1 DEF IInv, TokensFit, Requests, Request
  <2>2. t.token \in Alarm \X (0 .. MaxBucket)
    BY <2>1 DEF Token
  <2>3. t.token[1] = a /\ t.token[2] <= bucket
    BY <2>1 DEF Identifies
  <2> QED BY <1>1, <2>1, <2>2, <2>3, BoundAssumption
<1>3. ASSUME NEW t \in T, NEW u \in T, t.token[2] = u.token[2]
      PROVE  t = u
  <2>1. t.token = u.token
    BY <1>2, <1>3
  <2> QED BY <1>2, <2>1 DEF IInv, TokensUnique
<1>4. window \in Injection(T, 0 .. bucket)
  BY <1>2, <1>3 DEF Injection, IsInjective
<1>5. IsFiniteSet(0 .. bucket) /\ Cardinality(0 .. bucket) = bucket + 1
  BY <1>1, FS_Interval
<1> HIDE DEF window
<1>6. Cardinality(T) <= Cardinality(0 .. bucket)
  BY <1>4, <1>5, FS_Injection
<1> QED BY <1>5, <1>6

\* However many notifications, retries and redrives of both kinds: an alarm
\* never has more tasks in an Agent Space than windows have begun.
THEOREM BacklogsAreBounded == Spec => []BacklogIsBounded
BY TasksCountWindows, Invariance, PTL
=============================================================================
