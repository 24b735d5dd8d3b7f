------------------------------ MODULE McpCall ------------------------------
(***************************************************************************)
(* One MCP tool call through prtg_mcp/handler.py: the tool is looked up,   *)
(* its arguments are checked against its schema in tools.py, PRTG is asked *)
(* and retried, get_server_status may fall back to a second query, and an  *)
(* envelope is returned, unless the function timeout comes first.          *)
(*                                                                         *)
(* Time is counted in seconds. An argument is the class of its value: what *)
(* the schema and the conversions tell apart.                              *)
(***************************************************************************)
EXTENDS Naturals

CONSTANTS
    Calls,           \* the calls considered
    Timeout,         \* the tool function's timeout
    ConnectTimeout,  \* PRTG_CONNECT_TIMEOUT_SECONDS
    ReadTimeout,     \* PRTG_READ_TIMEOUT_SECONDS
    MaxRetries,      \* PRTG_MAX_RETRIES
    LongestPause,    \* longest backoff of urllib3 between two attempts
    RetryAfter,      \* longest pause PRTG asks for, with 429 or 503
    SlowestSecret    \* longest read of credentials and CA bundle, 0 when warm

ASSUME NumberAssumption ==
    /\ Timeout \in Nat /\ ConnectTimeout \in Nat /\ ReadTimeout \in Nat
    /\ MaxRetries \in Nat /\ LongestPause \in Nat /\ RetryAfter \in Nat
    /\ SlowestSecret \in Nat

-----------------------------------------------------------------------------
\* TOOL_SPECS: what each tool accepts and requires.
Tool == {"get_sensors", "get_sensor_details", "get_channels", "get_devices",
         "get_groups", "get_sensor_history", "get_server_status", "get_messages",
         "search"}

Accepted ==
    [get_sensors |-> {"id", "status", "tags", "text_filter", "count"},
     get_sensor_details |-> {"id"},
     get_channels |-> {"id"},
     get_devices |-> {"id", "text_filter", "count"},
     get_groups |-> {"id", "count"},
     get_sensor_history |-> {"id", "sdate", "edate", "avg", "count"},
     get_server_status |-> {},
     get_messages |-> {"id", "count", "date_range"},
     search |-> {"query", "type", "count"}]

Required ==
    [t \in Tool |->
        CASE t \in {"get_sensor_details", "get_channels"} -> {"id"}
          [] t = "get_sensor_history" -> {"id", "sdate", "edate"}
          [] t = "search" -> {"query"}
          [] OTHER -> {}]

Parameter == UNION {Accepted[t] : t \in Tool} \union {"invented"}

IntegerParameter == {"id", "count", "avg"}
Bounded == {"count", "avg"}                       \* integers with a maximum
Optional == {"tags", "text_filter"}               \* strings that may be empty

\* Classes of JSON values: a number in bounds; a string of digits; a number
\* with a fraction; one below the minimum or above the maximum; 1e999, which
\* Python reads as infinity; a boolean; a string the schema takes, "", and one
\* it does not; and null. For a parameter that is a string, digits are text.
Class == {"number", "numeral", "fraction", "low", "high", "infinite", "boolean",
          "text", "empty", "badText", "null"}

ASSUME CallAssumption ==
    \A c \in Calls :
        /\ DOMAIN c.args \subseteq Parameter
        /\ \A p \in DOMAIN c.args : c.args[p] \in Class
        /\ \A p \in DOMAIN c.args : c.args[p] = "numeral" => p \in IntegerParameter

\* _validate_value: the classes it lets through for parameter p.
Valid(p) ==
    IF p \in IntegerParameter
    THEN {"number", "numeral", "fraction"} \union (IF p \in Bounded THEN {} ELSE {"high"})
    ELSE {"text"} \union (IF p \in Optional THEN {"empty"} ELSE {})

\* What handler() keeps of the event: null arguments are dropped.
Given(c) == {p \in DOMAIN c.args : c.args[p] # "null"}

\* int() of an infinity raises an OverflowError, which is no ValidationError.
Overflows(c, p) == p \in IntegerParameter /\ c.args[p] = "infinite"

-----------------------------------------------------------------------------
VARIABLES
    call,      \* the tool name and the arguments
    reachable, \* whether PRTG accepts connections
    pc,        \* the step in hand
    elapsed,   \* time spent so far
    began,     \* when the first request was sent
    request,   \* 1, or 2 for the fallback of get_server_status
    attempts,  \* attempts of this request that failed
    refused,   \* attempts PRTG answered with 401 or 403
    outcome    \* the envelope, "cut" or "raised"

vars == <<call, reachable, pc, elapsed, began, request, attempts, refused, outcome>>

Envelope == {"unknownTool", "invalid", "auth", "failed", "unexpected", "ok"}

TypeOK ==
    /\ call \in Calls
    /\ reachable \in BOOLEAN
    /\ pc \in {"dispatch", "client", "request"}
    /\ elapsed \in 0 .. Timeout
    /\ began \in 0 .. Timeout
    /\ request \in {1, 2}
    /\ attempts \in 0 .. MaxRetries
    /\ refused \in 0 .. 2
    /\ outcome \in Envelope \union {"none", "cut", "raised"}

Init ==
    /\ call \in Calls
    /\ reachable \in BOOLEAN
    /\ pc = "dispatch"
    /\ elapsed = 0 /\ began = 0 /\ request = 1 /\ attempts = 0 /\ refused = 0
    /\ outcome = "none"

At(step) == pc = step /\ outcome = "none"

\* A step takes d and is over before the timeout, or is cut off by it.
Takes(d) == elapsed + d <= Timeout /\ elapsed' = elapsed + d
Cut(d) ==
    /\ elapsed + d > Timeout
    /\ elapsed' = Timeout
    /\ outcome' = "cut"
    /\ UNCHANGED <<call, reachable, pc, began, request, attempts, refused>>

\* extract_tool_name and validate_arguments. With several bad arguments the
\* first decides, and their order is the agent's.
Dispatch ==
    /\ At("dispatch")
    /\ \/ call.tool \notin Tool /\ outcome' = "unknownTool" /\ UNCHANGED pc
       \/ /\ call.tool \in Tool
          /\ LET unknown == Given(call) \ Accepted[call.tool]
                 missing == Required[call.tool] \ Given(call)
                 bad == {p \in Given(call) : call.args[p] \notin Valid(p)}
             IN  \/ /\ unknown \union missing # {}
                    /\ outcome' = "invalid" /\ UNCHANGED pc
                 \/ /\ unknown \union missing = {}
                    /\ \E p \in bad :
                           outcome' = IF Overflows(call, p) THEN "raised" ELSE "invalid"
                    /\ UNCHANGED pc
                 \/ /\ unknown \union missing \union bad = {}
                    /\ pc' = "client"
                    /\ UNCHANGED outcome
    /\ UNCHANGED <<call, reachable, elapsed, began, request, attempts, refused>>

\* request begins: _load_credentials and _http, cached or read now. An error
\* is a PrtgError without a status, or an exception nobody foresaw.
Prepare ==
    /\ At("client")
    /\ \E d \in 0 .. SlowestSecret :
          \/ Cut(d)
          \/ /\ Takes(d)
             /\ \/ /\ pc' = "request"
                   /\ began' = IF request = 1 THEN elapsed' ELSE began
                   /\ UNCHANGED outcome
                \/ /\ outcome' \in {"failed", "unexpected"}
                   /\ UNCHANGED <<pc, began>>
             /\ UNCHANGED <<call, reachable, request, attempts, refused>>

\* How long one attempt may take: without a connection it ends at the first
\* of the two timeouts.
AttemptTime == 0 .. (ConnectTimeout + IF reachable THEN ReadTimeout ELSE 0)

\* The pause after it: a backoff, or what a Retry-After header says, which
\* urllib3 obeys and does not bound.
Pause == 0 .. LongestPause \union (IF reachable THEN 0 .. RetryAfter ELSE {})

\* Mutants of FallsBack: whatever the error; whatever the tool.
FallsBackAlways(answered) == call.tool = "get_server_status" /\ request = 1
FallsBackForAll(answered) == request = 1 /\ answered

\* get_server_status asks for the sensor table when PRTG answered the first
\* request, and only then.
FallsBack(answered) == call.tool = "get_server_status" /\ request = 1 /\ answered

\* request raises a PrtgError.
Fail(answered) ==
    \/ /\ FallsBack(answered)
       /\ pc' = "client" /\ request' = 2 /\ attempts' = 0
       /\ UNCHANGED outcome
    \/ /\ ~FallsBack(answered)
       /\ outcome' = "failed"
       /\ UNCHANGED <<pc, request, attempts>>

\* Mutant of Refuse: the fallback is tried for a refused credential too.
RefuseAndFallBack ==
    /\ At("request") /\ reachable
    /\ \E d \in AttemptTime : Takes(d)
    /\ refused' = refused + 1
    /\ IF call.tool = "get_server_status" /\ request = 1
       THEN pc' = "client" /\ request' = 2 /\ attempts' = 0 /\ UNCHANGED outcome
       ELSE outcome' = "auth" /\ UNCHANGED <<pc, request, attempts>>
    /\ UNCHANGED <<call, reachable, began>>

\* 401 or 403: a PrtgAuthError, neither retried nor followed by the fallback.
Refuse ==
    /\ At("request") /\ reachable
    /\ \E d \in AttemptTime : Takes(d)
    /\ refused' = refused + 1
    /\ outcome' = "auth"
    /\ UNCHANGED <<call, reachable, pc, began, request, attempts>>

\* An answer: a result, which the handler may still fail to handle; another
\* status that is not retried; or a page that is not JSON.
Answer ==
    /\ At("request") /\ reachable
    /\ \E d \in AttemptTime : Takes(d)
    /\ \/ outcome' \in {"ok", "unexpected"} /\ UNCHANGED <<pc, request, attempts>>
       \/ \E status \in BOOLEAN : Fail(status)
    /\ UNCHANGED <<call, reachable, began, refused>>

\* Mutant of Retry: the attempts are not limited.
RetryWithoutLimit ==
    /\ At("request")
    /\ \E d \in AttemptTime, pause \in Pause : Takes(d + pause)
    /\ attempts' = attempts + 1
    /\ UNCHANGED <<call, reachable, pc, began, request, refused, outcome>>

\* No connection, no answer in time, or a status that is retried: urllib3
\* pauses and sends the request again.
Retry ==
    /\ At("request") /\ attempts < MaxRetries
    /\ \E d \in AttemptTime, pause \in Pause : Takes(d + pause)
    /\ attempts' = attempts + 1
    /\ UNCHANGED <<call, reachable, pc, began, request, refused, outcome>>

\* The last attempt failed, with a status when PRTG answered it.
GiveUp ==
    /\ At("request") /\ attempts = MaxRetries
    /\ \E d \in AttemptTime : Takes(d)
    /\ \E status \in BOOLEAN : (status => reachable) /\ Fail(status)
    /\ UNCHANGED <<call, reachable, began, refused>>

\* The timeout strikes during an attempt or the pause after it.
Expire ==
    /\ At("request")
    /\ \E d \in AttemptTime :
          \/ Cut(d)
          \/ attempts < MaxRetries /\ \E pause \in Pause : Cut(d + pause)

Next == Dispatch \/ Prepare \/ Refuse \/ Answer \/ Retry \/ GiveUp \/ Expire

Spec == Init /\ [][Next]_vars

-----------------------------------------------------------------------------
\* The longest one request takes when PRTG accepts no connection.
UnreachableWorst == (MaxRetries + 1) * ConnectTimeout + MaxRetries * LongestPause

\* "It cannot help when PRTG is unreachable": with a timeout that holds one
\* request, a PRTG nobody can connect to is explained in an envelope and
\* never ends in the timeout, by get_server_status too, the likeliest first
\* call.
UnreachableIsExplained ==
    ~reachable /\ pc = "request" /\ began + UnreachableWorst <= Timeout => outcome # "cut"

\* "Retrying it just multiplies failed logins": PRTG refuses the credential
\* of one call once at most, retries and fallback included.
RefusedOnce == refused <= 1

\* The longest call: get_server_status may send two requests, each may read
\* the secrets and be attempted once more than it is retried, and every pause
\* is the longest that a backoff or a Retry-After header makes it.
AttemptWorst == ConnectTimeout + ReadTimeout
PauseWorst == IF LongestPause >= RetryAfter THEN LongestPause ELSE RetryAfter
RequestWorst == SlowestSecret + MaxRetries * (AttemptWorst + PauseWorst) + AttemptWorst
CallWorst ==
    IF call.tool = "get_server_status" THEN RequestWorst + RequestWorst ELSE RequestWorst

\* "Always returns an MCP response envelope" (handler): a call whose
\* longest course fits into the function timeout is never cut off without
\* one, whatever PRTG, Secrets Manager and the retries do meanwhile.
FittingCallIsAnswered == CallWorst <= Timeout => outcome # "cut"
=============================================================================
