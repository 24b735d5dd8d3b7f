-------------------------- MODULE OperationsProofs --------------------------
(***************************************************************************)
(* The pipeline in operation, for every set of sensors and notifications,  *)
(* every number of environments and periods: each alarm answered 200 has a *)
(* task of its sensor and state, and of the urgency of a Down, and no      *)
(* period that left an alarm behind ends without an alarm.                 *)
(***************************************************************************)
EXTENDS Operations, AlarmPipelineProofs, SequenceTheorems

\* What a real notification is parsed into: the values PRTG substituted, and
\* nothing for those it did not know.
LEMMA RealNote ==
    ASSUME NEW n \in Notes, Delivered(n).kind = "real"
    PROVE  /\ ~n.test /\ ~Parsed(n).isTest
           /\ Parsed(n).status = n.status
           /\ Parsed(n).sensor = n.sensor.name
           /\ Parsed(n).device = n.sensor.device
           /\ Parsed(n).sensorId = IF "sensorId" \in Unsupported THEN Blank ELSE n.sensor.id
           /\ Parsed(n).deviceId = IF "deviceId" \in Unsupported THEN Blank ELSE n.sensor.deviceId
           /\ Parsed(n).priority = IF "priority" \in Unsupported THEN Blank ELSE n.sensor.priority
<1>1. /\ n.sensor \in Sensor /\ n.status \in Status /\ n.test \in BOOLEAN
  BY PrtgAssumption DEF Note
<1>2. ~Parsed(n).isTest /\ Parsed(n).isTest = IsTest(Render(n))
  BY DEF Delivered, Parsed, ParseAlarm
<1>3. ~n.test
  BY <1>2, PrtgAssumption DEF IsTest, Render, CoreFields, Fields
<1>4. \A k \in CoreFields : k \in Fields /\ k \notin Unsupported
  BY PrtgAssumption DEF Fields
<1>5. /\ Render(n)["sensor"] = n.sensor.name /\ Render(n)["device"] = n.sensor.device
      /\ Render(n)["status"] = n.status
  BY <1>3, <1>4 DEF Render, CoreFields
<1>6. {n.status, n.sensor.name, n.sensor.device} \intersect Percent = {}
  BY <1>2, <1>5 DEF IsTest, CoreFields
<1>7. /\ {n.status, n.sensor.id, n.sensor.deviceId} \intersect (Percent \union {Blank}) = {}
      /\ n.sensor.priority \notin Percent /\ Blank \notin {n.sensor.name, n.sensor.device}
  BY <1>1, NamesAssumption
<1>8. /\ Render(n)["sensorId"] = IF "sensorId" \in Unsupported THEN Unsubstituted
                                 ELSE n.sensor.id
      /\ Render(n)["deviceId"] = IF "deviceId" \in Unsupported THEN Unsubstituted
                                 ELSE n.sensor.deviceId
      /\ Render(n)["priority"] = IF "priority" \in Unsupported THEN Unsubstituted
                                 ELSE n.sensor.priority
  BY <1>3 DEF Render, Fields
<1>9. Unsubstituted \in Percent /\ Blank \notin Percent
  BY PrtgAssumption, ValueAssumption
<1>10. ~IsTest(Render(n))
  BY <1>2
<1>11. /\ Blank # n.sensor.name /\ Blank # n.sensor.device /\ Blank # n.status
       /\ n.sensor.name \notin Percent /\ n.sensor.device \notin Percent
       /\ n.status \notin Percent /\ n.sensor.id \notin Percent
       /\ n.sensor.deviceId \notin Percent
  BY <1>6, <1>7
<1>12. \A k \in Fields : Present(Render(n), k) = IF Render(n)[k] \in Percent THEN Blank
                                                 ELSE Render(n)[k]
  BY <1>10 DEF Present
<1>13. /\ Present(Render(n), "sensor") = n.sensor.name
       /\ Present(Render(n), "device") = n.sensor.device
       /\ Present(Render(n), "status") = n.status
  BY <1>4, <1>5, <1>11, <1>12 DEF CoreFields
<1>14. {"sensorId", "deviceId", "priority"} \subseteq Fields
  BY DEF Fields
<1>15. /\ Present(Render(n), "sensorId") = IF "sensorId" \in Unsupported THEN Blank
                                           ELSE n.sensor.id
       /\ Present(Render(n), "deviceId") = IF "deviceId" \in Unsupported THEN Blank
                                           ELSE n.sensor.deviceId
       /\ Present(Render(n), "priority") = IF "priority" \in Unsupported THEN Blank
                                           ELSE n.sensor.priority
  BY <1>7, <1>8, <1>9, <1>11, <1>12, <1>14
<1>16. /\ Parsed(n).status = OrElse(Present(Render(n), "status"), UnknownStatus)
       /\ Parsed(n).sensor = OrElse(Present(Render(n), "sensor"), UnknownSensor)
       /\ Parsed(n).device = OrElse(Present(Render(n), "device"), UnknownDevice)
       /\ Parsed(n).sensorId = Present(Render(n), "sensorId")
       /\ Parsed(n).deviceId = Present(Render(n), "deviceId")
       /\ Parsed(n).priority = Present(Render(n), "priority")
  BY DEF Parsed, ParseAlarm
<1>17. /\ Parsed(n).status = n.status /\ Parsed(n).sensor = n.sensor.name
       /\ Parsed(n).device = n.sensor.device
  BY <1>11, <1>13, <1>16 DEF OrElse
<1> QED BY <1>2, <1>3, <1>15, <1>16, <1>17

\* A value without a bar is one segment, and two of them are told apart by it.
LEMMA OneSegment ==
    /\ \A v \in Value : Segments[v] \in Seq(Value) /\ Len(Segments[v]) \in Nat \ {0}
    /\ \A v \in Value : ~Barred(v) => Len(Segments[v]) = 1
    /\ \A u, v \in Value : ~Barred(u) /\ ~Barred(v) /\ Segments[u][1] = Segments[v][1] => u = v
<1>1. ASSUME NEW v \in Value
      PROVE  /\ Segments[v] \in Seq(Value)
             /\ Len(Segments[v]) \in Nat \ {0} /\ Len(Segments[v]) >= 1
  <2>1. Segments[v] \in Seq(Value) /\ Segments[v] # << >>
    BY ValueAssumption
  <2>2. Len(Segments[v]) \in Nat \ {0}
    BY <2>1, EmptySeq
  <2> QED BY <2>1, <2>2
<1>2. ASSUME NEW v \in Value, ~Barred(v) PROVE Len(Segments[v]) = 1
  <2> DEFINE l == Len(Segments[v])
  <2>1. l \in Nat /\ l >= 1 /\ ~(l > 1)
    BY <1>1, <1>2 DEF Barred
  <2> HIDE DEF l
  <2>2. l = 1
    BY <2>1
  <2> QED BY <2>2 DEF l
<1>3. ASSUME NEW u \in Value, NEW v \in Value, ~Barred(u), ~Barred(v),
             Segments[u][1] = Segments[v][1]
      PROVE  u = v
  <2>1. /\ Segments[u] \in Seq(Value) /\ Segments[v] \in Seq(Value)
        /\ Len(Segments[u]) = 1 /\ Len(Segments[v]) = 1
    BY <1>1, <1>2, <1>3
  <2>2. \A i \in 1 .. Len(Segments[u]) : Segments[u][i] = Segments[v][i]
    BY <1>3, <2>1
  <2>3. Segments[u] = Segments[v]
    BY <2>1, <2>2, SeqEqual
  <2> QED BY <2>3, ValueAssumption
<1> QED BY <1>1, <1>2, <1>3

\* One text followed by a word without a bar is told from another by that word
\* and by what stands before it.
LEMMA LastSegment ==
    ASSUME NEW s \in Seq(Value), NEW r \in Seq(Value), NEW u \in Value, NEW v \in Value,
           ~Barred(u), ~Barred(v), s \o Segments[u] = r \o Segments[v]
    PROVE  s = r /\ u = v
<1> DEFINE su == Segments[u]
           sv == Segments[v]
<1>1. su \in Seq(Value) /\ sv \in Seq(Value) /\ Len(su) = 1 /\ Len(sv) = 1
  BY OneSegment
<1> HIDE DEF su, sv
<1>2. s \o su = r \o sv
  BY DEF su, sv
<1>3. /\ Len(s) \in Nat /\ Len(r) \in Nat
      /\ Len(s \o su) = Len(s) + 1 /\ Len(r \o sv) = Len(r) + 1
  <2>1. Len(s) \in Nat /\ Len(r) \in Nat
    BY LenProperties
  <2>2. Len(s \o su) = Len(s) + Len(su) /\ Len(r \o sv) = Len(r) + Len(sv)
    BY <1>1, ConcatProperties
  <2> QED BY <1>1, <2>1, <2>2
<1>4. Len(s) = Len(r)
  <2>1. Len(s) + 1 = Len(r) + 1
    BY <1>2, <1>3
  <2> QED BY <1>3, <2>1
<1>5. /\ \A i \in 1 .. Len(s) + 1 :
             (s \o su)[i] = IF i <= Len(s) THEN s[i] ELSE su[i - Len(s)]
      /\ \A i \in 1 .. Len(r) + 1 :
             (r \o sv)[i] = IF i <= Len(r) THEN r[i] ELSE sv[i - Len(r)]
  BY <1>1, ConcatProperties
<1>6. s = r
  <2>1. ASSUME NEW i \in 1 .. Len(s) PROVE s[i] = r[i]
    <3>1. i \in 1 .. Len(s) + 1 /\ i \in 1 .. Len(r) + 1 /\ i <= Len(s) /\ i <= Len(r)
      BY <1>3, <1>4
    <3> QED BY <1>2, <1>5, <3>1
  <2> QED BY <1>4, <2>1, SeqEqual
<1>7. su[1] = sv[1]
  <2>1. /\ Len(s) + 1 \in 1 .. Len(s) + 1 /\ ~(Len(s) + 1 <= Len(s))
        /\ (Len(s) + 1) - Len(s) = 1
    BY <1>3
  <2>2. (s \o su)[Len(s) + 1] = su[1] /\ (r \o sv)[Len(s) + 1] = sv[1]
    BY <1>4, <1>5, <2>1
  <2> QED BY <1>2, <2>2
<1> QED BY <1>6, <1>7, OneSegment DEF su, sv

\* Two real notifications with the same identity are of one state, and of one
\* sensor or two that what arrived does not tell apart.
LEMMA IdentityIsSensor ==
    ASSUME NEW n \in Notes, NEW o \in Notes,
           Delivered(n).kind = "real", Delivered(o).kind = "real",
           Delivered(n).alarm = Delivered(o).alarm
    PROVE  n.status = o.status /\ (n.sensor = o.sensor \/ Alike(n.sensor, o.sensor))
<1> DEFINE X(m) == IF "sensorId" \in Unsupported THEN m.sensor.name ELSE m.sensor.id
           Y(m) == IF "deviceId" \in Unsupported THEN m.sensor.device ELSE m.sensor.deviceId
<1>1. \A m \in {n, o} :
          /\ m.sensor \in Sensor /\ m.status \in Value
          /\ {m.sensor.id, m.sensor.name, m.sensor.deviceId, m.sensor.device} \subseteq Value
          /\ ~Barred(m.status) /\ ~Barred(m.sensor.id) /\ ~Barred(m.sensor.deviceId)
          /\ m.sensor.id # Blank /\ m.sensor.deviceId # Blank
  BY PrtgAssumption, NamesAssumption DEF Note
<1>2. \A m \in {n, o} :
          Identity(Parsed(m)) = Segments[X(m)] \o Segments[Y(m)] \o Segments[m.status]
  BY <1>1, RealNote DEF Identity, OrElse
<1>3. \A m \in {n, o} : X(m) \in Value /\ Y(m) \in Value
  BY <1>1
<1>4. \A m \in {n, o} : /\ Segments[X(m)] \in Seq(Value) /\ Segments[Y(m)] \in Seq(Value)
                        /\ Segments[X(m)] \o Segments[Y(m)] \in Seq(Value)
  BY <1>3, OneSegment
<1>5. Identity(Parsed(n)) = Identity(Parsed(o))
  BY DEF Delivered
<1>6. /\ n.status = o.status
      /\ Segments[X(n)] \o Segments[Y(n)] = Segments[X(o)] \o Segments[Y(o)]
  <2>1. Segments[X(n)] \o Segments[Y(n)] \o Segments[n.status]
            = Segments[X(o)] \o Segments[Y(o)] \o Segments[o.status]
    BY <1>2, <1>5
  <2>2. /\ n.status \in Value /\ o.status \in Value
        /\ ~Barred(n.status) /\ ~Barred(o.status)
    BY <1>1
  <2>3. /\ Segments[X(n)] \o Segments[Y(n)] \in Seq(Value)
        /\ Segments[X(o)] \o Segments[Y(o)] \in Seq(Value)
    BY <1>4
  <2> DEFINE a == Segments[X(n)] \o Segments[Y(n)]
             b == Segments[X(o)] \o Segments[Y(o)]
  <2>4. a \o Segments[n.status] = b \o Segments[o.status] /\ a \in Seq(Value) /\ b \in Seq(Value)
    BY <2>1, <2>3
  <2> HIDE DEF X, Y, a, b
  <2>5. a = b /\ n.status = o.status
    BY <2>2, <2>4, LastSegment
  <2> QED BY <2>5 DEF a, b
<1>7. CASE "sensorId" \notin Unsupported
  <2>1. ~Barred(X(n)) /\ ~Barred(X(o)) /\ X(n) = n.sensor.id /\ X(o) = o.sensor.id
    BY <1>1, <1>7
  <2>2. Segments[X(n)][1] = Segments[X(o)][1]
    <3> HIDE DEF X, Y
    <3>1. ASSUME NEW m \in {n, o}
          PROVE  (Segments[X(m)] \o Segments[Y(m)])[1] = Segments[X(m)][1]
      <4>1. /\ Segments[X(m)] \in Seq(Value) /\ Segments[Y(m)] \in Seq(Value)
            /\ Len(Segments[X(m)]) = 1 /\ Len(Segments[Y(m)]) \in Nat
        BY <1>3, <1>4, <2>1, OneSegment, LenProperties
      <4>2. 1 \in 1 .. Len(Segments[X(m)]) + Len(Segments[Y(m)]) /\ 1 <= Len(Segments[X(m)])
        BY <4>1
      <4> QED BY <4>1, <4>2, ConcatProperties
    <3> QED BY <1>6, <3>1
  <2>3. X(n) = X(o)
    BY <1>3, <2>1, <2>2, OneSegment
  <2> QED BY <1>1, <1>6, <2>1, <2>3, NamesAssumption
<1>8. CASE "sensorId" \in Unsupported /\ "deviceId" \notin Unsupported
  <2>1. ~Barred(Y(n)) /\ ~Barred(Y(o)) /\ Y(n) = n.sensor.deviceId /\ Y(o) = o.sensor.deviceId
    BY <1>1, <1>8
  <2>2. Segments[X(n)] = Segments[X(o)] /\ Y(n) = Y(o)
    <3>1. /\ Segments[X(n)] \in Seq(Value) /\ Segments[X(o)] \in Seq(Value)
          /\ Y(n) \in Value /\ Y(o) \in Value /\ ~Barred(Y(n)) /\ ~Barred(Y(o))
      BY <1>3, <1>4, <2>1
    <3> DEFINE a == Segments[X(n)]
               b == Segments[X(o)]
               c == Y(n)
               d == Y(o)
    <3>2. /\ a \in Seq(Value) /\ b \in Seq(Value) /\ a \o Segments[c] = b \o Segments[d]
          /\ c \in Value /\ d \in Value /\ ~Barred(c) /\ ~Barred(d)
      BY <1>6, <3>1
    <3> HIDE DEF X, Y, a, b, c, d
    <3>3. a = b /\ c = d
      BY <3>2, LastSegment
    <3> QED BY <3>3 DEF a, b, c, d
  <2>3. X(n) = X(o)
    BY <1>3, <2>2, ValueAssumption
  <2> QED BY <1>6, <1>8, <2>1, <2>2, <2>3 DEF Alike
<1>9. CASE "sensorId" \in Unsupported /\ "deviceId" \in Unsupported
  BY <1>6, <1>9 DEF Alike, Written
<1> QED BY <1>7, <1>8, <1>9

\* The ranks resolve_priority may return.
LEMMA Ranking ==
    ASSUME NEW v \in Value
    PROVE  FieldRank(v) \in Ranks
<1>1. \A k \in Nat : StarRank(k) \in Ranks
  BY DEF StarRank, Ranks, Minimal, Medium, Critical
<1>2. FirstDigit[v] \in Nat /\ StarCount[v] \in Nat
  <2>1. FirstDigit \in [Value -> 0 .. 10] /\ StarCount \in [Value -> Nat]
    BY ValueAssumption DEF NoDigit
  <2> QED BY <2>1
<1>3. AtMost(StarCount[v], 5) \in Nat
  BY <1>2 DEF AtMost
<1> QED BY <1>1, <1>2, <1>3 DEF FieldRank

\* A live Down is at least HIGH, whatever PRTG substituted.
LEMMA UrgencyOf ==
    ASSUME NEW n \in Notes, Delivered(n).kind = "real", n.status \in DownStates
    PROVE  Priority(Parsed(n)) >= High
<1>1. n.sensor.priority \in Value
  BY PrtgAssumption DEF Note
<1>2. Parsed(n).priority \in Value
  BY <1>1, RealNote, ValueAssumption
<1>3. n.status \notin AckStates
  BY StateAssumption
<1>4. FieldRank(Parsed(n).priority) \in Nat
  BY <1>2, Ranking DEF Ranks, Minimal, Critical
<1> QED BY <1>3, <1>4, RealNote DEF Priority, High

\* What is taken for a test is one, but for a text that begins with a percent
\* sign.
LEMMA TestIsTest ==
    ASSUME NEW n \in Notes, Delivered(n).kind = "test"
    PROVE  n.test \/ LooksLikeTest(n)
<1> SUFFICES ASSUME ~n.test, ~LooksLikeTest(n) PROVE ~IsTest(Render(n))
  BY DEF Delivered, Parsed, ParseAlarm
<1>1. n.sensor \in Sensor /\ n.status \in Status
  BY PrtgAssumption DEF Note
<1>2. {n.status, n.message, n.sensor.name, n.sensor.device} \intersect Percent = {}
  BY <1>1, NamesAssumption DEF LooksLikeTest
<1>3. \A k \in CoreFields : k \in Fields /\ k \notin Unsupported
  BY PrtgAssumption DEF Fields
<1>4. /\ Render(n)["sensor"] = n.sensor.name /\ Render(n)["device"] = n.sensor.device
      /\ Render(n)["status"] = n.status /\ Render(n)["message"] = n.message
  BY <1>3 DEF Render, CoreFields
<1> QED BY <1>2, <1>4 DEF IsTest, CoreFields

-----------------------------------------------------------------------------
\* In operation the pipeline does what it does alone, or the queue drops a
\* message.
LEMMA OpsStepIsStep == [OpsNext]_opsVars => [Next]_vars \/ \E m \in dlq : Expire(m)
BY DEF OpsNext, opsVars, Operate, Refuse, EndPeriod

LEMMA ExpireKeepsIInv == ASSUME IInv, NEW m \in dlq, Expire(m) PROVE IInv'
<1>1. UNCHANGED <<bucket, event, arrived, fate, pc, job, target, token, tries, reply, reason,
                  wire, tasks, created>> /\ dlq' \subseteq dlq
  BY DEF Expire
<1>2. TypeOK' /\ Holding' /\ Awaited' /\ TokensUnique' /\ Answered'
  BY <1>1 DEF IInv, TypeOK, Holding, Awaited, TokensUnique, Answered, AlarmOf, EventOf
<1>3. Known' /\ TokensFit'
  BY <1>1 DEF IInv, Known, TokensFit, Identifies, AlarmOf, EventOf, Requests
<1>4. AcceptedIsInvestigated' /\ Unsent' /\ UntriedIsUnsent'
  BY <1>1 DEF IInv, AcceptedIsInvestigated, Unsent, UntriedIsUnsent, AlarmOf, EventOf, Requests
<1> QED BY <1>2, <1>3, <1>4 DEF IInv

\* An invocation ends once, and only one taken up as a real alarm goes on.
LEMMA FateStep ==
    ASSUME IInv, [Next]_vars, NEW j \in Job
    PROVE  \/ fate'[j] = fate[j]
           \/ fate[j] = "open" /\ fate'[j] \notin {"none", "open", "rejected", "acknowledged", "direct"}
           \/ fate[j] = "none" /\ fate'[j] \in {"rejected", "direct"}
           \/ fate[j] = "none" /\ fate'[j] = "open" /\ EventOf(j)'.kind = "real"
           \/ fate[j] = "none" /\ fate'[j] = "acknowledged" /\ EventOf(j)'.kind = "test"
<1> USE DEF IInv
<1>1. fate \in [Job -> Ended \union {"none", "open"}] /\ event \in [Notification -> Events \union {NoEvent}]
  BY DEF TypeOK
<1>2. ASSUME NEW e \in Env, NEW k \in Job, NEW ev \in Events, Begin(e, k, ev), event'[k[1]] = ev
      PROVE  \/ fate'[j] = fate[j]
             \/ fate[j] = "none" /\ fate'[j] = "rejected"
             \/ fate[j] = "none" /\ fate'[j] = "open" /\ EventOf(j)'.kind = "real"
             \/ fate[j] = "none" /\ fate'[j] = "acknowledged" /\ EventOf(j)'.kind = "test"
  <2>1. ev.kind \in {"real", "test", "malformed"}
    BY EventsAssumption DEF Event
  <2> QED BY <1>1, <1>2, <2>1, StackAssumption DEF Begin, Parses, EventOf
<1>3. ASSUME NEW e \in Env, Step(e) \/ Kill(e)
      PROVE  \/ fate'[j] = fate[j]
             \/ fate[j] = "open" /\ fate'[j] \notin {"none", "open", "rejected", "acknowledged", "direct"}
  <2>1. job[e] \in Job /\ fate[job[e]] = "open"
    BY <1>3, StepShape DEF Holding
  <2>2. \/ UNCHANGED fate
        \/ \E f \in Ended \ {"rejected", "acknowledged", "direct"} : fate' = [fate EXCEPT ![job[e]] = f]
    BY <1>3 DEF Step, Route, StartCall, Retry, Succeed, Suppress, Fail, SendPark, Kill, Park,
                StartSend, Finish, Ended
  <2> QED BY <1>1, <2>1, <2>2 DEF Ended
<1>4. ASSUME NEW e \in Env, NEW n \in Notification, NEW ev \in Events, Receive(e, n, ev)
      PROVE  \/ fate'[j] = fate[j]
             \/ fate[j] = "none" /\ fate'[j] = "rejected"
             \/ fate[j] = "none" /\ fate'[j] = "open" /\ EventOf(j)'.kind = "real"
             \/ fate[j] = "none" /\ fate'[j] = "acknowledged" /\ EventOf(j)'.kind = "test"
  <2>1. <<n, 0>> \in Job /\ event'[n] = ev
    BY <1>1, <1>4, BoundAssumption DEF Job, Receive
  <2> QED BY <1>2, <1>4, <2>1 DEF Receive
<1>5. ASSUME NEW m \in dlq, NEW k \in 0 .. MaxRedrives,
             RedriveDirectly(m, k) \/ \E e \in Env : RedriveThroughHandler(e, m, k)
      PROVE  \/ fate'[j] = fate[j]
             \/ fate[j] = "none" /\ fate'[j] \in {"rejected", "direct"}
             \/ fate[j] = "none" /\ fate'[j] = "open" /\ EventOf(j)'.kind = "real"
             \/ fate[j] = "none" /\ fate'[j] = "acknowledged" /\ EventOf(j)'.kind = "test"
  <2>1. m.job \in Job /\ fate[m.job] # "none" /\ event[m.job[1]] \in Events
    BY DEF TypeOK, Message, Known
  <2>2. <<m.job[1], k>> \in Job
    BY <2>1 DEF Job
  <2>3. CASE RedriveDirectly(m, k)
    BY <1>1, <2>2, <2>3 DEF RedriveDirectly, NextRun
  <2>4. ASSUME NEW e \in Env, RedriveThroughHandler(e, m, k)
        PROVE  \/ fate'[j] = fate[j]
               \/ fate[j] = "none" /\ fate'[j] = "rejected"
               \/ fate[j] = "none" /\ fate'[j] = "open" /\ EventOf(j)'.kind = "real"
               \/ fate[j] = "none" /\ fate'[j] = "acknowledged" /\ EventOf(j)'.kind = "test"
    BY <1>2, <2>1, <2>2, <2>4 DEF RedriveThroughHandler, EventOf
  <2> QED BY <1>5, <2>3, <2>4
<1>6. CASE (\E r \in wire : Serve(r)) \/ Tick \/ UNCHANGED vars
  BY <1>6 DEF Serve, Tick, vars
<1> QED BY <1>3, <1>4, <1>5, <1>6 DEF Next

\* Only real alarms come past the test check, so only they are asked for or
\* parked; and what was acknowledged was a test.
KindsFit ==
    /\ \A j \in Job : fate[j] \notin {"none", "rejected", "acknowledged", "direct"} =>
           EventOf(j).kind = "real"
    /\ \A j \in Job : fate[j] = "acknowledged" => EventOf(j).kind = "test"
    /\ \A r \in Requests : EventOf(r.job).kind = "real"
    /\ \A m \in dlq : EventOf(m.job).kind = "real"

LEMMA KindsStep == ASSUME IInv, KindsFit, [Next]_vars PROVE KindsFit'
<1>1. ASSUME NEW j \in Job, fate[j] # "none"
      PROVE  EventOf(j)' = EventOf(j)
  BY <1>1, Settled DEF IInv, EventOf
<1>2. ASSUME NEW j \in Job
      PROVE  /\ fate'[j] \notin {"none", "rejected", "acknowledged", "direct"} =>
                    EventOf(j)'.kind = "real"
             /\ fate'[j] = "acknowledged" => EventOf(j)'.kind = "test"
  BY <1>1, FateStep DEF KindsFit
<1>3. ASSUME NEW r \in Requests'
      PROVE  EventOf(r.job)'.kind = "real"
  <2>1. CASE r \in Requests
    <3>1. r.job \in Job /\ fate[r.job] # "none" /\ EventOf(r.job).kind = "real"
      BY <2>1 DEF IInv, TypeOK, Request, Requests, Known, KindsFit
    <3> QED BY <1>1, <3>1
  <2>2. CASE FromCall(r)
    <3>1. PICK e \in Env : r.job = job'[e] /\ pc'[e] = "wait"
      BY <2>2 DEF FromCall
    <3>2. job'[e] \in Job /\ fate'[job'[e]] = "open"
      BY <3>1, StepIInv DEF IInv, Holding
    <3>3. EventOf(r.job)'.kind = "real"
      <4>1. \A j \in Job : fate'[j] = "open" => EventOf(j)'.kind = "real"
        BY <1>2
      <4> QED BY <3>1, <3>2, <4>1
    <3> QED BY <3>3
  <2>3. CASE FromOperator(r)
    <3>1. PICK m \in dlq : r.job[1] = m.job[1]
      BY <2>3 DEF FromOperator
    <3>2. m.job \in Job /\ fate[m.job] # "none" /\ EventOf(m.job).kind = "real"
      BY DEF IInv, TypeOK, Message, Known, KindsFit
    <3>3. EventOf(m.job)' = EventOf(m.job)
      BY <1>1, <3>2
    <3> QED BY <3>1, <3>2, <3>3 DEF EventOf
  <2> QED BY <2>1, <2>2, <2>3, NewTraces DEF NewRequest, IInv
<1>4. ASSUME NEW m \in dlq'
      PROVE  EventOf(m.job)'.kind = "real"
  <2>1. CASE m \in dlq
    <3>1. m.job \in Job /\ fate[m.job] # "none" /\ EventOf(m.job).kind = "real"
      BY <2>1 DEF IInv, TypeOK, Message, Known, KindsFit
    <3> QED BY <1>1, <3>1
  <2>2. CASE FromPark(m)
    <3>1. PICK e \in Env : pc[e] = "send" /\ m.job = job[e]
      BY <2>2 DEF FromPark, MessageOf
    <3>2. job[e] \in Job /\ fate[job[e]] = "open"
      BY <3>1 DEF IInv, Holding
    <3>3. EventOf(job[e]).kind = "real" /\ EventOf(job[e])' = EventOf(job[e])'
      BY <3>2 DEF KindsFit
    <3>4. event'[job[e][1]] = event[job[e][1]]
      BY <1>1, <3>2 DEF EventOf
    <3> QED BY <3>1, <3>3, <3>4 DEF EventOf
  <2> QED BY <2>1, <2>2, NewTraces DEF NewMessage, IInv
<1> QED BY <1>2, <1>3, <1>4 DEF KindsFit

\* What the numbers of a period, and of the last one, say of the pipeline.
FiveHundreds == "ApiServerErrors"
FourHundreds == "ApiClientErrors"
PeriodInv ==
    /\ refused \subseteq Notification
    /\ lost \in BOOLEAN /\ calm \in BOOLEAN /\ wasCalm \in BOOLEAN
    /\ turned \in 0 .. ManyTurned /\ turned <= sample[FourHundreds]
    /\ closed \in [lost : BOOLEAN, turned : 0 .. ManyTurned, calmBefore : BOOLEAN,
                   standing : SUBSET Message]
    /\ closed.turned >= ManyTurned => InAlarm(FourHundreds)
    /\ lost => sample[FiveHundreds] = 1
    /\ calm => sample[FiveHundreds] = 0
    /\ wasCalm => ~InAlarm(FiveHundreds)
    /\ dlq # {} => sample["DeadLetters"] = 1
    /\ closed.lost => InAlarm(FiveHundreds)
    /\ Topic /\ closed.lost /\ closed.calmBefore => told # {}
    /\ \A m \in closed.standing : fate[m.job] \notin {"none", "open"}
    /\ closed.standing \intersect dlq # {} => InAlarm("DeadLetters")

OpsInv == IInv /\ KindsFit /\ ObsTypeOK /\ PeriodInv

\* Recording keeps the numbers in range, and those of these two at one.
LEMMA RecordStep ==
    ASSUME ObsTypeOK, NEW ws, Record(ws)
    PROVE  /\ ObsTypeOK'
           /\ \A w \in {"DeadLetters", FiveHundreds} :
                  /\ w \in ws \/ sample[w] = 1 => sample'[w] = 1
                  /\ w \notin ws => sample'[w] = sample[w]
           /\ sample[FourHundreds] \in 0 .. ManyTurned
           /\ sample'[FourHundreds] = IF FourHundreds \in ws THEN OneMore(sample[FourHundreds])
                                     ELSE sample[FourHundreds]
<1>1. \A w \in Watch : Threshold[w] \in Nat /\ Periods[w] \in Nat
  BY WatchAssumption
<1>2. ObsTypeOK'
  BY <1>1 DEF ObsTypeOK, Record
<1>3. \A w \in {"DeadLetters", FiveHundreds} :
          w \in Watch /\ Threshold[w] = 1 /\ w \notin LogMetric /\ sample[w] \in 0 .. 1
  BY StackAssumption DEF ObsTypeOK, FiveHundreds
<1>4. /\ FourHundreds \in Watch /\ FourHundreds \notin LogMetric
      /\ ManyTurned = Threshold[FourHundreds] /\ ManyTurned \in Nat
      /\ sample[FourHundreds] \in 0 .. ManyTurned
  BY <1>1, StackAssumption DEF ObsTypeOK, FourHundreds, ManyTurned
<1>5. sample'[FourHundreds] = IF FourHundreds \in ws THEN OneMore(sample[FourHundreds])
                                ELSE sample[FourHundreds]
  BY <1>4 DEF Record, Counted, OneMore
<1> QED BY <1>2, <1>3, <1>4, <1>5 DEF Record, Counted

\* The alarm on 4xx answers has a threshold.
LEMMA ManyIsNat == ManyTurned \in Nat \ {0}
BY StackAssumption, WatchAssumption DEF ManyTurned

\* Counting one more on either side keeps the order of two counts.
LEMMA CountsKeepOrder ==
    ASSUME NEW i \in 0 .. ManyTurned, NEW k \in 0 .. ManyTurned, i <= k, ManyTurned \in Nat
    PROVE  /\ OneMore(i) \in 0 .. ManyTurned /\ OneMore(i) <= OneMore(k) /\ i <= OneMore(k)
BY DEF OneMore

\* A step of the pipeline that leaves an alarm behind is answered 5xx.
LEMMA LeftBehindIsCounted ==
    ASSUME IInv, KindsFit, [Next]_vars, KindsFit', LeftBehind
    PROVE  Causes(FiveHundreds)
<1>1. PICK j \in EndsNow({"parked", "parkFailed", "escaped", "killed", "acknowledged"}) :
          ~event'[j[1]].body.test /\ ~LooksLikeTest(event'[j[1]].body)
  BY DEF LeftBehind
<1>2. j \in Job /\ fate[j] # fate'[j]
      /\ fate'[j] \in {"parked", "parkFailed", "escaped", "killed", "acknowledged"}
  BY <1>1 DEF EndsNow
<1>3. fate'[j] # "acknowledged"
  <2> SUFFICES ASSUME fate'[j] = "acknowledged" PROVE FALSE
    OBVIOUS
  <2>1. event'[j[1]].kind = "test"
    BY <1>2 DEF KindsFit, EventOf
  <2>2. event'[j[1]] \in Events
    BY <1>2, StepIInv DEF IInv, Known
  <2>3. PICK n \in Notes : event'[j[1]] = Delivered(n)
    BY <2>2, DeliveryAssumption DEF Deliveries
  <2>4. event'[j[1]].body = n
    BY <2>3 DEF Delivered
  <2> QED BY <1>1, <2>1, <2>3, <2>4, TestIsTest
<1>4. j \in EndsNow({"parked", "parkFailed", "escaped", "killed"})
  BY <1>2, <1>3 DEF EndsNow
<1> QED BY <1>4 DEF Causes, StatusCounted, FiveHundreds

LEMMA OperateStep == ASSUME OpsInv, Operate PROVE OpsInv'
<1> USE DEF OpsInv
<1>1. [Next]_vars /\ IInv' /\ KindsFit'
  BY StepIInv, KindsStep DEF Operate
<1> DEFINE ws == {w \in Watch : Causes(w)}
<1>2. /\ Record(ws) /\ UNCHANGED <<refused, wasCalm, closed>>
      /\ lost' = (lost \/ LeftBehind)
      /\ turned' = IF RealRejected THEN OneMore(turned) ELSE turned
      /\ calm' = (calm /\ \A w \in Watch \ {"DeadLetters"} : ~Causes(w))
  BY DEF Operate
<1>3. /\ FiveHundreds \in ws <=> Causes(FiveHundreds)
      /\ "DeadLetters" \in ws <=> dlq' # {}
      /\ FiveHundreds \in Watch \ {"DeadLetters"}
      /\ RealRejected => FourHundreds \in ws
  BY StackAssumption DEF Causes, StatusCounted, RealRejected, FiveHundreds, FourHundreds
<1> HIDE DEF ws
<1>4. ObsTypeOK' /\ UNCHANGED <<breached, told, prefixed>>
  BY <1>2, RecordStep DEF Record
<1>5. LeftBehind \in BOOLEAN /\ calm' \in BOOLEAN /\ lost' \in BOOLEAN
  BY <1>2 DEF LeftBehind, PeriodInv
<1>6. lost' => sample'[FiveHundreds] = 1
  BY <1>1, <1>2, <1>3, RecordStep, LeftBehindIsCounted DEF PeriodInv
<1>7. calm' => sample'[FiveHundreds] = 0
  BY <1>2, <1>3, RecordStep DEF PeriodInv
<1>8. dlq' # {} => sample'["DeadLetters"] = 1
  BY <1>2, <1>3, RecordStep DEF PeriodInv
<1>9. \A m \in closed.standing : m.job \in Job
  BY DEF PeriodInv, Message
<1>10. \A m \in closed.standing : fate'[m.job] \notin {"none", "open"}
  BY <1>1, <1>9, FateStep DEF PeriodInv
<1>11. closed.standing \intersect dlq' # {} => closed.standing \intersect dlq # {}
  <2> SUFFICES ASSUME NEW m \in closed.standing, m \in dlq', m \notin dlq PROVE FALSE
    OBVIOUS
  <2>1. FromPark(m)
    BY <1>1, NewTraces DEF NewMessage, IInv
  <2>2. PICK e \in Env : pc[e] = "send" /\ m.job = job[e]
    BY <2>1 DEF FromPark, MessageOf
  <2>3. fate[m.job] = "open"
    BY <2>2 DEF IInv, Holding
  <2> QED BY <2>3 DEF PeriodInv
<1>12. turned' \in 0 .. ManyTurned /\ turned' <= sample'[FourHundreds]
  BY <1>2, <1>3, ManyIsNat, RecordStep, CountsKeepOrder DEF PeriodInv
<1>13. PeriodInv'
  BY <1>2, <1>4, <1>5, <1>6, <1>7, <1>8, <1>10, <1>11, <1>12 DEF PeriodInv, InAlarm
<1> QED BY <1>1, <1>4, <1>13

LEMMA RefuseStep ==
    ASSUME OpsInv, NEW n \in Notification, NEW why \in Refusals, Refuse(n, why)
    PROVE  OpsInv'
<1> USE DEF OpsInv
<1>1. UNCHANGED vars
  BY DEF Refuse
<1>2. IInv' /\ KindsFit'
  <2>1. IInv'
    BY <1>1, StepIInv
  <2>2. KindsFit'
    BY <1>1, KindsStep
  <2> QED BY <2>1, <2>2
<1> DEFINE ws == {w \in {"DeadLetters"} : dlq # {}} \union RefusalCounted(why)
<1>3. /\ Record(ws) /\ UNCHANGED <<wasCalm, closed>> /\ refused' = refused \union {n}
      /\ lost' = (lost \/ why = "concurrency") /\ calm' = FALSE
      /\ turned' = IF why = "concurrency" THEN turned ELSE OneMore(turned)
  BY DEF Refuse
<1>4. /\ why = "concurrency" => FiveHundreds \in ws
      /\ why # "concurrency" => FourHundreds \in ws
      /\ dlq # {} => "DeadLetters" \in ws
  BY DEF RefusalCounted, FiveHundreds, FourHundreds
<1> HIDE DEF ws
<1>5. ObsTypeOK' /\ UNCHANGED <<breached, told, prefixed>>
  BY <1>3, RecordStep DEF Record
<1>6. lost' \in BOOLEAN /\ (lost' => sample'[FiveHundreds] = 1)
  BY <1>3, <1>4, RecordStep DEF PeriodInv
<1>7. dlq' # {} => sample'["DeadLetters"] = 1
  BY <1>1, <1>3, <1>4, RecordStep DEF PeriodInv, vars
<1>8. turned' \in 0 .. ManyTurned /\ turned' <= sample'[FourHundreds]
  BY <1>3, <1>4, ManyIsNat, RecordStep, CountsKeepOrder DEF PeriodInv
<1>9. PeriodInv'
  BY <1>1, <1>3, <1>5, <1>6, <1>7, <1>8 DEF PeriodInv, InAlarm, vars
<1> QED BY <1>2, <1>5, <1>9

LEMMA ExpireStep == ASSUME OpsInv, NEW m \in dlq, Expire(m) PROVE OpsInv'
<1> USE DEF OpsInv
<1>1. IInv'
  BY ExpireKeepsIInv
<1>2. dlq' \subseteq dlq /\ UNCHANGED <<event, fate, wire, tasks>>
      /\ UNCHANGED <<obsVars, refused, lost, turned, calm, wasCalm, closed>>
  BY DEF Expire
<1>3. KindsFit'
  BY <1>2 DEF KindsFit, EventOf, Requests
<1>4. ObsTypeOK' /\ PeriodInv'
  BY <1>2 DEF obsVars, ObsTypeOK, PeriodInv, InAlarm
<1> QED BY <1>1, <1>3, <1>4

LEMMA EndPeriodStep == ASSUME OpsInv, EndPeriod PROVE OpsInv'
<1> USE DEF OpsInv
<1>1. UNCHANGED <<vars, refused>> /\ wasCalm' = calm /\ calm' = TRUE /\ lost' = FALSE
      /\ turned' = 0
      /\ closed' = [lost |-> lost, turned |-> turned, calmBefore |-> wasCalm, standing |-> dlq]
      /\ sample' = AtStart /\ UNCHANGED prefixed
      /\ breached' = [w \in Watch |-> Evaluated(w)]
      /\ told' = {w \in Watch : Topic /\ ~InAlarm(w) /\ Evaluated(w) = Periods[w]}
  BY DEF EndPeriod, ClosePeriod
<1>2. IInv' /\ KindsFit'
  <2>1. IInv'
    BY <1>1, StepIInv
  <2>2. KindsFit'
    BY <1>1, KindsStep
  <2> QED BY <2>1, <2>2
<1>3. \A w \in Watch : Threshold[w] \in Nat \ {0} /\ Periods[w] \in Nat \ {0}
  BY WatchAssumption
<1>4. \A w \in Watch : Evaluated(w) \in 0 .. Periods[w]
  BY <1>3 DEF ObsTypeOK, Evaluated, InAlarm
<1>5. \A w \in Watch : AtStart[w] \in 0 .. Threshold[w]
  BY <1>3 DEF AtStart
<1>6. ObsTypeOK'
  BY <1>1, <1>4, <1>5 DEF ObsTypeOK
<1>7. \A w \in {"DeadLetters", FiveHundreds} :
          /\ w \in Watch /\ Threshold[w] = 1 /\ Periods[w] = 1
          /\ sample[w] \in 0 .. 1 /\ breached[w] \in 0 .. 1
          /\ breached'[w] = Evaluated(w) /\ InAlarm(w)' = (Evaluated(w) = 1)
          /\ sample[w] = 1 => Evaluated(w) = 1
          /\ sample[w] = 0 => Evaluated(w) = 0
  BY <1>1, StackAssumption DEF ObsTypeOK, FiveHundreds, Evaluated, InAlarm
<1>8. /\ sample'["DeadLetters"] = IF dlq # {} THEN 1 ELSE 0
      /\ sample'[FiveHundreds] = 0
  BY <1>1, <1>7 DEF AtStart, FiveHundreds
<1>9. Topic /\ lost /\ wasCalm => told' # {}
  <2> SUFFICES ASSUME Topic, lost, wasCalm PROVE FiveHundreds \in told'
    OBVIOUS
  <2>1. ~InAlarm(FiveHundreds) /\ Evaluated(FiveHundreds) = 1
    BY <1>7 DEF PeriodInv
  <2> QED BY <1>1, <1>7, <2>1
<1>10. closed' \in [lost : BOOLEAN, turned : 0 .. ManyTurned, calmBefore : BOOLEAN,
                     standing : SUBSET Message]
  BY <1>1 DEF PeriodInv, IInv, TypeOK
<1>11. /\ lost => InAlarm(FiveHundreds)'
       /\ calm => ~InAlarm(FiveHundreds)'
       /\ dlq # {} => InAlarm("DeadLetters")'
  <2>1. /\ lost => sample[FiveHundreds] = 1
        /\ calm => sample[FiveHundreds] = 0
        /\ dlq # {} => sample["DeadLetters"] = 1
    BY DEF PeriodInv
  <2>2. \A w \in {"DeadLetters", FiveHundreds} :
            /\ sample[w] = 1 => InAlarm(w)'
            /\ sample[w] = 0 => ~InAlarm(w)'
    BY <1>1, <1>7, StackAssumption DEF InAlarm
  <2> QED BY <2>1, <2>2
<1>12. \A m \in dlq : fate[m.job] \notin {"none", "open"}
  BY DEF IInv, Known
<1>13. UNCHANGED <<dlq, fate>>
  BY <1>1 DEF vars
<1>14. /\ closed'.lost = lost /\ closed'.turned = turned
       /\ closed'.calmBefore = wasCalm /\ closed'.standing = dlq
  BY <1>1
<1>15. refused' \subseteq Notification /\ calm \in BOOLEAN
  BY <1>1 DEF PeriodInv
<1>16. turned' \in 0 .. ManyTurned /\ turned' <= sample'[FourHundreds]
  <2>1. sample'[FourHundreds] = 0
    BY <1>1, StackAssumption DEF AtStart, FourHundreds
  <2> QED BY <1>1, <2>1, ManyIsNat
<1>17. turned >= ManyTurned => InAlarm(FourHundreds)'
  <2>1. /\ FourHundreds \in Watch /\ Periods[FourHundreds] = 1
        /\ ManyTurned = Threshold[FourHundreds] /\ sample[FourHundreds] \in 0 .. ManyTurned
        /\ breached[FourHundreds] \in 0 .. 1
    BY StackAssumption DEF ObsTypeOK, FourHundreds, ManyTurned
  <2>2. turned >= ManyTurned => ~(sample[FourHundreds] < ManyTurned)
    BY <2>1, ManyIsNat DEF PeriodInv
  <2>3. turned >= ManyTurned => Evaluated(FourHundreds) = 1
    BY <2>1, <2>2 DEF Evaluated, InAlarm
  <2> QED BY <1>1, <2>1, <2>3 DEF InAlarm
<1>18. PeriodInv'
  BY <1>1, <1>8, <1>9, <1>10, <1>11, <1>12, <1>13, <1>14, <1>15, <1>16, <1>17 DEF PeriodInv
<1> QED BY <1>2, <1>6, <1>18

LEMMA OpsInitially == OpsInit => OpsInv
<1> SUFFICES ASSUME OpsInit PROVE OpsInv
  OBVIOUS
<1>1. IInv
  BY InitIInv DEF OpsInit
<1>2. KindsFit
  BY DEF OpsInit, Init, KindsFit, Requests
<1>3. ObsTypeOK
  BY WatchAssumption DEF OpsInit, ObsInit, ObsTypeOK
<1>4. PeriodInv
  <2>1. {"DeadLetters", FiveHundreds} \subseteq Watch
        /\ Periods["DeadLetters"] = 1 /\ Periods[FiveHundreds] = 1
    BY StackAssumption DEF FiveHundreds
  <2>2. \A w \in Watch : sample[w] = 0 /\ breached[w] = 0
    BY DEF OpsInit, ObsInit
  <2>3. /\ dlq = {} /\ refused = {} /\ lost = FALSE /\ calm = TRUE /\ wasCalm = TRUE
        /\ turned = 0
        /\ closed = [lost |-> FALSE, turned |-> 0, calmBefore |-> TRUE, standing |-> {}]
    BY DEF OpsInit, Init
  <2>4. /\ closed \in [lost : BOOLEAN, turned : 0 .. ManyTurned, calmBefore : BOOLEAN,
                       standing : SUBSET Message]
        /\ turned \in 0 .. ManyTurned /\ ~(closed.turned >= ManyTurned)
    BY <2>3, ManyIsNat
  <2>6. sample[FourHundreds] = 0
    BY <2>2, StackAssumption DEF FourHundreds
  <2>5. ~InAlarm("DeadLetters") /\ ~InAlarm(FiveHundreds)
    BY <2>1, <2>2 DEF InAlarm
  <2>7. FiveHundreds \in Watch
    BY StackAssumption DEF FiveHundreds
  <2>8. sample[FiveHundreds] = 0
    BY <2>2, <2>7
  <2>9. turned <= sample[FourHundreds] /\ refused \subseteq Notification
    BY <2>3, <2>6
  <2>10. ~closed.lost /\ closed.standing = {}
    BY <2>3
  <2> QED BY <2>3, <2>4, <2>5, <2>8, <2>9, <2>10 DEF PeriodInv
<1> QED BY <1>1, <1>2, <1>3, <1>4 DEF OpsInv

THEOREM OpsInductive == OpsSpec => []OpsInv
<1>1. OpsInit => OpsInv
  BY OpsInitially
<1>2. OpsInv /\ [OpsNext]_opsVars => OpsInv'
  <2> SUFFICES ASSUME OpsInv, [OpsNext]_opsVars PROVE OpsInv'
    OBVIOUS
  <2>1. CASE UNCHANGED opsVars
    <3>1. UNCHANGED vars /\ UNCHANGED <<obsVars, refused, lost, turned, calm, wasCalm, closed>>
      BY <2>1 DEF opsVars
    <3>2. IInv' /\ KindsFit'
      <4>1. IInv'
        BY <3>1, StepIInv DEF OpsInv
      <4>2. KindsFit'
        BY <3>1, KindsStep DEF OpsInv
      <4> QED BY <4>1, <4>2
    <3>3. ObsTypeOK' /\ PeriodInv'
      BY <3>1 DEF OpsInv, obsVars, vars, ObsTypeOK, PeriodInv, InAlarm
    <3> QED BY <3>2, <3>3 DEF OpsInv
  <2> QED BY <2>1, OperateStep, RefuseStep, ExpireStep, EndPeriodStep DEF OpsNext
<1> QED BY <1>1, <1>2, PTL DEF OpsSpec

\* The pipeline and the alarms on it keep their types.
THEOREM OpsTypeCorrect == OpsSpec => []OpsTypeOK
<1>1. OpsInv => OpsTypeOK
  BY DEF OpsInv, IInv, PeriodInv, OpsTypeOK
<1> QED BY <1>1, OpsInductive, PTL

\* A task stands for a notification that was sent, as it was sent.
LEMMA TaskIsOfNote ==
    ASSUME OpsInv, NEW j \in Job, fate[j] # "none", EventOf(j).kind = "real"
    PROVE  /\ EventOf(j).body \in Notes /\ EventOf(j) = Delivered(EventOf(j).body)
           /\ Delivered(EventOf(j).body).kind = "real"
<1>1. EventOf(j) \in Events
  BY DEF OpsInv, IInv, Known, EventOf
<1>2. PICK n \in Notes : EventOf(j) = Delivered(n)
  BY <1>1, DeliveryAssumption DEF Deliveries
<1>3. EventOf(j).body = n
  BY <1>2 DEF Delivered
<1> QED BY <1>2, <1>3

LEMMA TasksAreOfNotes ==
    ASSUME OpsInv, NEW t \in tasks
    PROVE  t.job \in Job /\ fate[t.job] # "none" /\ EventOf(t.job).kind = "real"
BY DEF OpsInv, IInv, TypeOK, Request, Known, Requests, KindsFit

\* An alarm answered 200 has a task of its own identity, and so in its own state
\* and of a sensor that it is not told from.
LEMMA OwnTask ==
    ASSUME OpsInv, NEW j \in Job, fate[j] \in {"created", "suppressed"}
    PROVE  \E t \in tasks :
               LET other == EventOf(t.job).body
                   own   == EventOf(j).body
               IN  /\ other \in Notes /\ Delivered(other).kind = "real"
                   /\ other.status = own.status
                   /\ other.sensor = own.sensor \/ Alike(other.sensor, own.sensor)
<1>1. PICK t \in tasks : AlarmOf(t.job) = AlarmOf(j)
  BY DEF OpsInv, IInv, AcceptedIsInvestigated
<1>2. EventOf(j).kind = "real"
  BY DEF OpsInv, KindsFit
<1>3. Delivered(EventOf(t.job).body).alarm = Delivered(EventOf(j).body).alarm
  BY <1>1, <1>2, TaskIsOfNote, TasksAreOfNotes DEF AlarmOf
<1> QED BY <1>2, <1>3, TaskIsOfNote, TasksAreOfNotes, IdentityIsSensor

\* An alarm answered 200 has a task made of a notification of its own sensor,
\* or of one that is not told from it, in its own state (deduplication_token,
\* parse_alarm and handler together).
THEOREM SensorsAreInvestigated == OpsSpec => []SensorIsInvestigated
<1>1. OpsInv => SensorIsInvestigated
  BY OwnTask DEF SensorIsInvestigated
<1> QED BY <1>1, OpsInductive, PTL

\* A live Down answered 200 has a task that is at least HIGH, whoever's
\* notification it was made of (deduplication_token and resolve_priority).
THEOREM DownsAreUrgent == OpsSpec => []DownIsUrgent
<1>1. OpsInv => DownIsUrgent
  <2> SUFFICES ASSUME OpsInv, NEW j \in Job, fate[j] \in {"created", "suppressed"},
                      EventOf(j).body.status \in DownStates
               PROVE  \E t \in tasks :
                          LET other == EventOf(t.job).body
                              own   == EventOf(j).body
                          IN  /\ other.sensor = own.sensor \/ Alike(other.sensor, own.sensor)
                              /\ Priority(Parsed(other)) >= High
    BY DEF DownIsUrgent
  <2> QED BY OwnTask, UrgencyOf
<1> QED BY <1>1, OpsInductive, PTL

\* A period that left a real alarm behind, or turned many away, ends with an
\* alarm on, though the log filters match nothing (watch_api).
THEOREM LossesRaiseAlarms == OpsSpec => []LossRaisesAlarm
<1>1. OpsInv => LossRaisesAlarm
  BY StackAssumption DEF OpsInv, PeriodInv, LossRaisesAlarm, FiveHundreds, FourHundreds
<1> QED BY <1>1, OpsInductive, PTL

\* After a calm period a loss is notified, whatever stands on the queue.
THEOREM LossesAreTold == OpsSpec => []LossIsTold
<1>1. OpsInv => LossIsTold
  BY DEF OpsInv, PeriodInv, LossIsTold
<1> QED BY <1>1, OpsInductive, PTL

\* The alarm on the queue stays on for as long as an alarm stands there.
THEOREM StandingQueuesStayInAlarm == OpsSpec => []StandingQueueStaysInAlarm
<1>1. OpsInv => StandingQueueStaysInAlarm
  BY DEF OpsInv, PeriodInv, StandingQueueStaysInAlarm
<1> QED BY <1>1, OpsInductive, PTL

-----------------------------------------------------------------------------
\* What was acknowledged without an investigation was a test, or its own text
\* looks like one.
OnlyTestsAreAcknowledged ==
    \A j \in Job :
        LET note == EventOf(j).body
        IN  fate[j] = "acknowledged" => note.test \/ LooksLikeTest(note)

\* What parse_alarm takes for a test (payload.py is_test) is one, unless a real
\* message or name begins with a percent sign.
THEOREM OnlyTestsAcknowledged == OpsSpec => []OnlyTestsAreAcknowledged
<1>1. OpsInv => OnlyTestsAreAcknowledged
  <2> SUFFICES ASSUME OpsInv, NEW j \in Job, fate[j] = "acknowledged"
               PROVE  EventOf(j).body.test \/ LooksLikeTest(EventOf(j).body)
    BY DEF OnlyTestsAreAcknowledged
  <2>1. EventOf(j) \in Events /\ EventOf(j).kind = "test"
    BY DEF OpsInv, IInv, Known, KindsFit, EventOf
  <2>2. PICK n \in Notes : EventOf(j) = Delivered(n)
    BY <2>1, DeliveryAssumption DEF Deliveries
  <2>3. EventOf(j).body = n
    BY <2>2 DEF Delivered
  <2> QED BY <2>1, <2>2, <2>3, TestIsTest
<1> QED BY <1>1, OpsInductive, PTL

\* In operation, with the queue dropping messages, the pipeline keeps what it
\* promises alone: answers of 200 are justified, a window has one task, a
\* state no more tasks than windows, and an untried message nothing sent.
THEOREM PipelineKeepsItsWord ==
    OpsSpec => [](/\ AcceptedIsInvestigated /\ OneInvestigationPerWindow
                  /\ BacklogIsBounded /\ UntriedIsUnsent)
<1>1. OpsInv => /\ AcceptedIsInvestigated /\ OneInvestigationPerWindow
                /\ BacklogIsBounded /\ UntriedIsUnsent
  BY WindowsShareTask, TasksCountWindows DEF OpsInv, IInv
<1> QED BY <1>1, OpsInductive, PTL

-----------------------------------------------------------------------------
\* Every notification that arrives is as PRTG sent it, not encoded again.
LEMMA Plain == ASSUME NEW ev \in Events PROVE ~ev.encoded
BY DeliveryAssumption DEF Deliveries, Delivered

\* What was delivered stays.
LEMMA EventStays ==
    ASSUME TypeOK, Holding, [Next]_vars, NEW n \in Notification, event[n] # NoEvent
    PROVE  event'[n] = event[n]
<1>1. \A e \in Env : Step(e) \/ Kill(e) => event' = event
  BY StepShape
<1>2. ASSUME NEW e \in Env, NEW i \in Notification, NEW ev \in Events, Receive(e, i, ev)
      PROVE  event'[n] = event[n]
  BY <1>2 DEF Receive, TypeOK
<1> QED BY <1>1, <1>2 DEF Next, Serve, Tick, RedriveDirectly, RedriveThroughHandler, vars

\* The fate of a job that was taken up changes only by the environment that
\* has it in hand.
LEMMA FateChanges ==
    ASSUME OpsInv, [Next]_vars, NEW j \in Job, fate[j] # "none", fate'[j] # fate[j]
    PROVE  \E e \in Env : job[e] = j /\ (Step(e) \/ Kill(e))
<1> USE DEF OpsInv, IInv
<1>1. fate \in [Job -> Ended \union {"none", "open"}]
  BY DEF TypeOK
<1>2. ASSUME NEW e \in Env, Step(e) \/ Kill(e)
      PROVE  job[e] = j
  BY <1>1, <1>2, StepShape DEF Holding, Ends, Moves, Finish
<1>3. ASSUME NEW e \in Env, NEW k \in Job, NEW ev, Begin(e, k, ev)
      PROVE  FALSE
  BY <1>1, <1>3 DEF Begin
<1>4. ASSUME NEW e \in Env, NEW n \in Notification, NEW ev \in Events, Receive(e, n, ev)
      PROVE  FALSE
  BY <1>3, <1>4, BoundAssumption DEF Receive, Job
<1>5. ASSUME NEW m \in dlq, NEW k \in 0 .. MaxRedrives,
             RedriveDirectly(m, k) \/ \E e \in Env : RedriveThroughHandler(e, m, k)
      PROVE  FALSE
  <2>1. <<m.job[1], k>> \in Job
    BY DEF TypeOK, Message, Job
  <2> QED BY <1>1, <1>3, <1>5, <2>1 DEF RedriveDirectly, RedriveThroughHandler, NextRun
<1>6. ~(UNCHANGED vars \/ Tick \/ \E r \in wire : Serve(r))
  BY DEF vars, Tick, Serve
<1> QED BY <1>2, <1>4, <1>5, <1>6 DEF Next

\* The invocation of a real alarm leaves it investigated, kept, or reported.
LEMMA StepLeaves ==
    ASSUME OpsInv, OpsInv', NEW e \in Env, Step(e) \/ Kill(e), [Next]_vars
    PROVE  \/ fate'[job[e]] = "open"
           \/ fate'[job[e]] \in {"created", "suppressed"} \union Reported
           \/ \E m \in dlq' : m.job = job[e]
<1> USE DEF OpsInv, IInv
<1>1. /\ pc[e] # "idle" /\ job[e] \in Job /\ fate[job[e]] = "open"
      /\ fate \in [Job -> Ended \union {"none", "open"}]
  BY StepShape DEF Holding, TypeOK
<1>2. EventOf(job[e]).kind = "real" /\ QueueConfigured
  BY <1>1, StackAssumption DEF KindsFit
<1>3. ASSUME NEW why, Park(e, why)
      PROVE  fate'[job[e]] = "open"
  BY <1>1, <1>2, <1>3 DEF Park, StartSend
<1>4. CASE Route(e)
  BY <1>1, <1>3, <1>4 DEF Route, Finish, Reported
<1>5. CASE StartCall(e) \/ Retry(e) \/ Fail(e)
  BY <1>1, <1>3, <1>5 DEF StartCall, Retry, Fail
<1>6. CASE Succeed(e) \/ Suppress(e)
  BY <1>1, <1>6 DEF Succeed, Suppress, Finish
<1>7. CASE SendPark(e)
  <2>1. CASE dlq' = dlq \union {MessageOf(e)}
    <3>1. MessageOf(e) \in dlq' /\ MessageOf(e).job = job[e]
      BY <2>1 DEF MessageOf
    <3> QED BY <3>1
  <2>2. CASE Finish(e, "parkFailed")
    BY <1>1, <2>2 DEF Finish, Reported
  <2> QED BY <1>7, <2>1, <2>2 DEF SendPark
<1>8. CASE Kill(e)
  BY <1>1, <1>8 DEF Kill, Finish, Reported
<1> QED BY <1>4, <1>5, <1>6, <1>7, <1>8 DEF Step

\* What takes a message off the queue takes its alarm up again.
LEMMA RedriveTakesUp ==
    ASSUME OpsInv, [Next]_vars, NEW m \in dlq, m \notin dlq'
    PROVE  \E k \in 0 .. MaxRedrives : fate'[<<m.job[1], k>>] \in {"open", "direct"}
<1> USE DEF OpsInv, IInv
<1>1. \A x \in dlq : /\ x.job \in Job /\ EventOf(x.job) \in Events
                     /\ EventOf(x.job).kind = "real"
  BY DEF TypeOK, Message, Known, KindsFit, EventOf
<1>2. fate \in [Job -> Ended \union {"none", "open"}]
  BY DEF TypeOK
<1>3. PICK x \in dlq, k \in 0 .. MaxRedrives :
          /\ RedriveDirectly(x, k) \/ \E e \in Env : RedriveThroughHandler(e, x, k)
  <2>1. \A e \in Env : Step(e) \/ Kill(e) => m \in dlq'
    BY DEF Step, Route, StartCall, Retry, Succeed, Suppress, Fail, SendPark, Kill
  <2> QED BY <2>1 DEF Next, Receive, Serve, Tick, vars
<1>4. x = m
  BY <1>3 DEF RedriveDirectly, RedriveThroughHandler, TakeOff
<1>5. <<m.job[1], k>> \in Job
  BY <1>1 DEF Job
<1>6. CASE RedriveDirectly(m, k)
  BY <1>2, <1>5, <1>6 DEF RedriveDirectly
<1>7. ASSUME NEW e \in Env, RedriveThroughHandler(e, m, k)
      PROVE  fate'[<<m.job[1], k>>] = "open"
  <2>1. Parses(<<m.job[1], k>>, EventOf(m.job))
    BY <1>1, Plain DEF Parses
  <2> QED BY <1>1, <1>2, <1>5, <1>7, <2>1 DEF RedriveThroughHandler, Begin
<1> QED BY <1>3, <1>4, <1>6, <1>7

\* A step of the pipeline keeps a real alarm where someone can find it, and a
\* new one is taken up.
LEMMA AccountedStep ==
    ASSUME OpsInv, OpsInv', [Next]_vars, NEW n \in Notification,
           event'[n] # NoEvent, event'[n].kind = "real",
           event[n] # NoEvent => Accounted(n)
    PROVE  Accounted(n)'
<1> USE DEF OpsInv, IInv
<1>a. /\ event \in [Notification -> Events \union {NoEvent}]
      /\ fate \in [Job -> Ended \union {"none", "open"}]
      /\ \A k \in 0 .. MaxRedrives : <<n, k>> \in Job
  BY DEF TypeOK, Job
<1>1. CASE event[n] = NoEvent
  <2>1. PICK e \in Env, ev \in Events : Receive(e, n, ev)
    <3>1. \A e \in Env : Step(e) \/ Kill(e) => event' = event
      BY StepShape
    <3>2. ASSUME NEW e \in Env, NEW i \in Notification, NEW ev \in Events, Receive(e, i, ev)
          PROVE  i = n
      BY <1>1, <1>a, <3>2 DEF Receive
    <3> QED BY <1>1, <3>1, <3>2
            DEF Next, Serve, Tick, RedriveDirectly, RedriveThroughHandler, vars
  <2>2. event'[n] = ev /\ ev.kind = "real" /\ Begin(e, <<n, 0>>, ev)
    BY <1>a, <2>1 DEF Receive
  <2>3. Parses(<<n, 0>>, ev)
    BY <2>2 DEF Parses
  <2>4. 0 \in 0 .. MaxRedrives
    BY BoundAssumption
  <2>5. fate'[<<n, 0>>] = "open"
    BY <1>a, <2>2, <2>3, <2>4 DEF Begin
  <2> QED BY <2>4, <2>5 DEF Accounted
<1>2. ASSUME event[n] # NoEvent, Investigated(n)
      PROVE  Accounted(n)'
  <2>1. PICK t \in tasks : AlarmOf(t.job) = event[n].alarm
    BY <1>2 DEF Investigated
  <2>2. t \in tasks' /\ t.job \in Job /\ fate[t.job] # "none"
    BY TasksGrow DEF TypeOK, Request, Known, Requests
  <2>3. event'[t.job[1]] = event[t.job[1]]
    BY <2>2, Settled
  <2>4. event'[n] = event[n]
    BY <1>2, EventStays
  <2> QED BY <2>1, <2>2, <2>3, <2>4 DEF Accounted, Investigated, AlarmOf, EventOf
<1>3. ASSUME NEW m \in dlq, m.job[1] = n
      PROVE  Accounted(n)'
  BY <1>3, RedriveTakesUp DEF Accounted
<1>4. ASSUME NEW k \in 0 .. MaxRedrives, fate[<<n, k>>] \in {"open", "direct"} \union Reported
      PROVE  Accounted(n)'
  <2>1. <<n, k>> \in Job /\ fate[<<n, k>>] # "none"
    BY <1>4, <1>a DEF Reported
  <2>2. CASE fate'[<<n, k>>] = fate[<<n, k>>]
    BY <1>4, <2>2 DEF Accounted
  <2>3. CASE fate'[<<n, k>>] # fate[<<n, k>>]
    <3>1. PICK e \in Env : job[e] = <<n, k>> /\ (Step(e) \/ Kill(e))
      BY <2>1, <2>3, FateChanges
    <3>2. CASE fate'[<<n, k>>] \in {"open"} \union Reported
      BY <3>2 DEF Accounted
    <3>3. CASE fate'[<<n, k>>] \in {"created", "suppressed"}
      <4>1. PICK t \in tasks' : AlarmOf(t.job)' = AlarmOf(<<n, k>>)'
        BY <2>1, <3>3 DEF AcceptedIsInvestigated
      <4> QED BY <4>1 DEF Accounted, Investigated, AlarmOf, EventOf
    <3>4. CASE \E m \in dlq' : m.job = <<n, k>>
      BY <3>4 DEF Accounted
    <3> QED BY <3>1, <3>2, <3>3, <3>4, StepLeaves
  <2> QED BY <2>2, <2>3
<1> QED BY <1>1, <1>2, <1>3, <1>4 DEF Accounted

\* A real alarm that no one can find any more was dropped by the retention of
\* the queue, while the alarm on the queue was on (watch_dead_letter_queue).
THEOREM NothingVanishes == OpsSpec => NothingVanishesUnseen
<1>1. ASSUME OpsInv, OpsInv', [OpsNext]_opsVars, NEW n \in Notification,
             event'[n] # NoEvent, event'[n].kind = "real", ~Accounted(n)',
             event[n] # NoEvent => Accounted(n)
      PROVE  InAlarm("DeadLetters")
  <2>1. ~[Next]_vars
    BY <1>1, AccountedStep
  <2>2. PICK m \in dlq : Expire(m)
    BY <1>1, <2>1, OpsStepIsStep
  <2> QED BY <1>1, <2>2 DEF Expire, OpsInv, PeriodInv
<1>2. OpsInv /\ OpsInv' /\ [OpsNext]_opsVars =>
          \A n \in Notification :
              /\ event'[n] # NoEvent /\ event'[n].kind = "real" /\ ~Accounted(n)'
              /\ event[n] # NoEvent => Accounted(n)
              => InAlarm("DeadLetters")
  BY <1>1
<1> QED BY <1>2, OpsInductive, PTL DEF OpsSpec, NothingVanishesUnseen
=============================================================================
