------------------------------ MODULE Payload ------------------------------
(***************************************************************************)
(* alarm_pipeline/payload.py: what the handler makes of a notification's   *)
(* fields. A value is told apart only by what the code asks of it: whether *)
(* it is blank, whether it begins with a percent sign (a placeholder PRTG  *)
(* left as it was, or real text), which digit or how many stars it has,    *)
(* and what stands between the vertical bars in it. Statuses are values up *)
(* to case, as the code compares them.                                     *)
(***************************************************************************)
EXTENDS Naturals, Sequences

CONSTANTS
    Value,          \* what a field may hold, stripped
    Blank,          \* nothing: the key is absent, null or white space
    Percent,        \* values that begin with a percent sign
    FirstDigit,     \* the first digit in a value, or NoDigit
    StarCount,      \* how many star characters it has
    Segments,       \* what stands before, between and after its vertical bars
    DownStates,     \* _DOWN_STATES
    AckStates,      \* _ACKNOWLEDGED_STATES
    UnknownSensor, UnknownDevice, UnknownStatus  \* what an absent one is called

NoDigit == 10

CoreFields == {"sensor", "device", "status", "message"}

\* The other fields that decide something, and one for all that are only
\* passed on to the agent.
Fields == CoreFields \union {"sensorId", "deviceId", "priority", "rest"}

ASSUME ValueAssumption ==
    /\ {Blank, UnknownSensor, UnknownDevice, UnknownStatus} \subseteq Value
    /\ Percent \subseteq Value /\ Blank \notin Percent
    /\ UnknownSensor # Blank /\ UnknownDevice # Blank /\ UnknownStatus # Blank
    /\ {UnknownSensor, UnknownDevice, UnknownStatus} \intersect Percent = {}
    /\ FirstDigit \in [Value -> 0 .. NoDigit] /\ StarCount \in [Value -> Nat]
    /\ FirstDigit[Blank] = NoDigit /\ StarCount[Blank] = 0
    /\ Segments \in [Value -> Seq(Value)]
    /\ \A u, v \in Value : Segments[u] = Segments[v] => u = v
    /\ \A v \in Value : Segments[v] # << >>

\* The two tuples of payload.py:48-51.
ASSUME StateAssumption ==
    /\ DownStates \union AckStates \subseteq Value \ (Percent \union {Blank, UnknownStatus})
    /\ DownStates \intersect AckStates = {}

\* How a body arrives: as a JSON document, percent-encoded JSON, form fields
\* or a single form field that holds JSON; or cut off by a line break.
Encodings == {"json", "quoted", "form", "nested", "broken"}

Bodies == [Fields -> Value]

\* _extract_body and the check that any field is there at all.
Understood(encoding, body) ==
    encoding # "broken" /\ \E k \in Fields : body[k] # Blank

\* PRTG substitutes nothing in a test, and the four core placeholders always
\* otherwise: is_test of parse_alarm.
IsTest(body) == \E k \in CoreFields : body[k] \in Percent

OrElse(v, default) == IF v = Blank THEN default ELSE v

\* A placeholder left in a real notification is no value.
Present(body, k) ==
    IF ~IsTest(body) /\ body[k] \in Percent THEN Blank ELSE body[k]

\* parse_alarm, for a body that was understood.
ParseAlarm(body) ==
    [sensor   |-> OrElse(Present(body, "sensor"), UnknownSensor),
     device   |-> OrElse(Present(body, "device"), UnknownDevice),
     status   |-> OrElse(Present(body, "status"), UnknownStatus),
     sensorId |-> Present(body, "sensorId"),
     deviceId |-> Present(body, "deviceId"),
     priority |-> Present(body, "priority"),
     isTest   |-> IsTest(body)]

PrtgAlarm ==
    [sensor : Value, device : Value, status : Value, sensorId : Value,
     deviceId : Value, priority : Value, isTest : BOOLEAN]

-----------------------------------------------------------------------------
\* Task priorities by rank, _ORDER: MINIMAL, LOW, MEDIUM, HIGH, CRITICAL.
Minimal == 0
Medium == 2
High == 3
Critical == 4
Ranks == Minimal .. Critical

\* PRIORITY_BY_PRTG_STARS, and MEDIUM for a number of stars it does not have.
StarRank(n) == IF n \in 1 .. 5 THEN n - 1 ELSE Medium

AtMost(n, limit) == IF n <= limit THEN n ELSE limit

\* _priority_from_prtg_field: the first digit, or else the stars.
FieldRank(v) ==
    IF FirstDigit[v] # NoDigit THEN StarRank(FirstDigit[v])
    ELSE StarRank(AtMost(StarCount[v], 5))

\* _shift by -1.
OneLower(rank) == IF rank = Minimal THEN Minimal ELSE rank - 1

\* resolve_priority.
Priority(a) ==
    IF a.isTest THEN Minimal
    ELSE IF a.status \in AckStates THEN OneLower(FieldRank(a.priority))
    ELSE IF a.status \in DownStates /\ FieldRank(a.priority) < High THEN High
    ELSE FieldRank(a.priority)

\* Two values with a bar between them read as the segments of the one and then
\* those of the other.
Barred(v) == Len(Segments[v]) > 1

\* Mutant of Identity: an absent id is an id like any other.
IdentityById(a) == Segments[a.sensorId] \o Segments[a.deviceId] \o Segments[a.status]

\* Mutant of Identity: the state is left out.
IdentityWithoutState(a) ==
    Segments[OrElse(a.sensorId, a.sensor)] \o Segments[OrElse(a.deviceId, a.device)]

\* What deduplication_token cuts the token from, the time bucket aside: the
\* three joined by bars, as the segments of the text that makes.
Identity(a) ==
    Segments[OrElse(a.sensorId, a.sensor)] \o Segments[OrElse(a.deviceId, a.device)]
        \o Segments[a.status]
=============================================================================
