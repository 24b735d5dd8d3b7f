--------------------------- MODULE McpCallProofs ---------------------------
(***************************************************************************)
(* Theorems about McpCall, for every set of calls, function timeout, limit *)
(* of the attempts and number of retries, and however long PRTG asks the   *)
(* client to wait.                                                         *)
(***************************************************************************)
EXTENDS McpCall, TLAPS

\* How a call got to where it is: a refusal ends it, without a connection
\* there is no fallback, and the attempts so far account for the time since
\* the first.
Traced ==
    /\ refused = 0 \/ (refused = 1 /\ outcome = "auth")
    /\ pc = "dispatch" => outcome # "cut"
    /\ ~reachable => request = 1
    /\ pc # "request" => attempts = 0
    /\ ~reachable /\ pc = "request" /\ outcome = "none" =>
           elapsed <= began + attempts * (ConnectTimeout + LongestPause)

CInv == TypeOK /\ Traced /\ UnreachableIsExplained

-----------------------------------------------------------------------------
\* n attempts of x each with one more of them fit into m + 1.
LEMMA Attempts ==
    ASSUME NEW n \in Nat, NEW m \in Nat, NEW x \in Nat, n <= m
    PROVE  n * x \in Nat /\ m * x \in Nat /\ (n + 1) * x = n * x + x /\ n * x <= m * x
<1>1. PICK k \in Nat : m = n + k
  <2> WITNESS m - n \in Nat
  <2> QED
    OBVIOUS
<1>2. m * x = n * x + k * x /\ k * x \in Nat /\ n * x \in Nat /\ (n + 1) * x = n * x + x
  BY <1>1
<1> QED BY <1>2

\* The last attempt at an unreachable PRTG ends within the worst case.
LEMMA WorstCase ==
    ASSUME NEW n \in 0 .. MaxRetries
    PROVE  /\ n * (ConnectTimeout + LongestPause) \in Nat
           /\ (n + 1) * (ConnectTimeout + LongestPause)
                  = n * (ConnectTimeout + LongestPause) + (ConnectTimeout + LongestPause)
           /\ n * (ConnectTimeout + LongestPause) + ConnectTimeout <= UnreachableWorst
           /\ n < MaxRetries =>
                  n * (ConnectTimeout + LongestPause) + ConnectTimeout + LongestPause
                      <= UnreachableWorst
           /\ UnreachableWorst \in Nat
<1> DEFINE x == ConnectTimeout + LongestPause
<1>1. x \in Nat /\ MaxRetries \in Nat /\ n \in Nat /\ n <= MaxRetries
  BY NumberAssumption
<1>2. UnreachableWorst = MaxRetries * x + ConnectTimeout /\ MaxRetries * x \in Nat
  BY NumberAssumption DEF UnreachableWorst
<1> HIDE DEF x
<1>3. n * x \in Nat /\ (n + 1) * x = n * x + x /\ n * x <= MaxRetries * x
  BY <1>1, Attempts
<1>4. n < MaxRetries => (n + 1) * x <= MaxRetries * x
  BY <1>1, Attempts
<1>5. ConnectTimeout \in Nat /\ LongestPause \in Nat
  BY NumberAssumption
<1> QED BY <1>1, <1>2, <1>3, <1>4, <1>5 DEF x

LEMMA InitCInv == Init => CInv
<1> SUFFICES ASSUME Init PROVE CInv
  OBVIOUS
<1>1. TypeOK
  BY NumberAssumption DEF Init, TypeOK
<1>2. Traced /\ UnreachableIsExplained
  BY DEF Init, Traced, UnreachableIsExplained
<1> QED BY <1>1, <1>2 DEF CInv

-----------------------------------------------------------------------------
LEMMA DispatchStep == ASSUME CInv, Dispatch PROVE CInv'
<1>1. /\ UNCHANGED <<call, reachable, elapsed, began, request, attempts, refused>>
      /\ pc = "dispatch" /\ outcome = "none"
      /\ \/ pc' = pc /\ outcome' \in {"unknownTool", "invalid", "raised"}
         \/ pc' = "client" /\ outcome' = outcome
  BY DEF Dispatch, At
<1>2. TypeOK'
  BY <1>1 DEF CInv, TypeOK, Envelope
<1>3. Traced' /\ UnreachableIsExplained'
  BY <1>1 DEF CInv, TypeOK, Traced, UnreachableIsExplained
<1> QED BY <1>2, <1>3 DEF CInv

LEMMA PrepareStep == ASSUME CInv, Prepare PROVE CInv'
<1>1. /\ UNCHANGED <<call, reachable, request, attempts, refused>>
      /\ pc = "client" /\ outcome = "none"
      /\ elapsed' \in 0 .. Timeout
      /\ \/ pc' = "client" /\ began' = began /\ outcome' \in {"failed", "unexpected", "cut"}
         \/ /\ pc' = "request" /\ outcome' = outcome
            /\ began' = IF request = 1 THEN elapsed' ELSE began
  BY NumberAssumption DEF Prepare, At, Takes, Cut, CInv, TypeOK
<1>2. TypeOK'
  BY <1>1 DEF CInv, TypeOK, Envelope
<1>3. 0 * (ConnectTimeout + LongestPause) = 0
  BY NumberAssumption
<1>4. Traced'
  BY <1>1, <1>2, <1>3 DEF CInv, TypeOK, Traced
<1>5. UnreachableIsExplained'
  BY <1>1 DEF UnreachableIsExplained
<1> QED BY <1>2, <1>4, <1>5 DEF CInv

\* How long an attempt takes, and the pause after it, without a connection.
LEMMA Durations ==
    ASSUME TypeOK
    PROVE  /\ AttemptTime \subseteq Nat /\ Pause \subseteq Nat
           /\ ~reachable => AttemptTime = 0 .. ConnectTimeout /\ Pause = 0 .. LongestPause
BY NumberAssumption DEF AttemptTime, Pause, TypeOK

\* An answer of PRTG: it is reachable, which is all the time bounds ask.
LEMMA AnswerSteps == ASSUME CInv, Refuse \/ Answer PROVE CInv'
<1>1. PICK d \in AttemptTime : Takes(d)
  BY DEF Refuse, Answer
<1>2. elapsed' \in 0 .. Timeout
  BY <1>1, Durations, NumberAssumption DEF Takes, CInv, TypeOK
<1>3. /\ UNCHANGED <<call, reachable, began>>
      /\ pc = "request" /\ outcome = "none" /\ reachable
      /\ \/ refused' = refused + 1 /\ outcome' = "auth" /\ UNCHANGED <<pc, request, attempts>>
         \/ /\ refused' = refused
            /\ \/ /\ outcome' \in {"ok", "unexpected", "failed"}
                  /\ UNCHANGED <<pc, request, attempts>>
               \/ pc' = "client" /\ request' = 2 /\ attempts' = 0 /\ outcome' = outcome
  BY DEF Refuse, Answer, At, Fail
<1>4. TypeOK'
  BY <1>2, <1>3, NumberAssumption DEF CInv, TypeOK, Traced, Envelope
<1>5. Traced' /\ UnreachableIsExplained'
  BY <1>3 DEF CInv, TypeOK, Traced, UnreachableIsExplained
<1> QED BY <1>4, <1>5 DEF CInv

LEMMA RetryStep == ASSUME CInv, Retry PROVE CInv'
<1>1. PICK d \in AttemptTime, pause \in Pause : Takes(d + pause)
  BY DEF Retry
<1>2. /\ UNCHANGED <<call, reachable, pc, began, request, refused, outcome>>
      /\ pc = "request" /\ outcome = "none"
      /\ attempts < MaxRetries /\ attempts' = attempts + 1
  BY DEF Retry, At
<1>3. elapsed' = elapsed + d + pause /\ elapsed' \in 0 .. Timeout
  BY <1>1, Durations, NumberAssumption DEF Takes, CInv, TypeOK
<1>4. TypeOK'
  BY <1>2, <1>3, NumberAssumption DEF CInv, TypeOK
<1>5. ASSUME ~reachable
      PROVE  elapsed' <= began + attempts' * (ConnectTimeout + LongestPause)
  <2>1. d <= ConnectTimeout /\ pause <= LongestPause /\ d \in Nat /\ pause \in Nat
    BY <1>5, Durations DEF CInv
  <2>2. attempts \in 0 .. MaxRetries /\ elapsed \in Nat /\ began \in Nat
        /\ elapsed <= began + attempts * (ConnectTimeout + LongestPause)
    BY <1>2, <1>5 DEF CInv, TypeOK, Traced
  <2>3. /\ attempts * (ConnectTimeout + LongestPause) \in Nat
        /\ (attempts + 1) * (ConnectTimeout + LongestPause)
               = attempts * (ConnectTimeout + LongestPause) + (ConnectTimeout + LongestPause)
    BY <2>2, WorstCase
  <2> DEFINE y == attempts * (ConnectTimeout + LongestPause)
             z == (attempts + 1) * (ConnectTimeout + LongestPause)
  <2>4. y \in Nat /\ z = y + (ConnectTimeout + LongestPause) /\ elapsed <= began + y
    BY <2>2, <2>3
  <2> HIDE DEF y, z
  <2>5. elapsed' <= began + z
    BY <1>3, <2>1, <2>2, <2>4, NumberAssumption
  <2> QED BY <1>2, <2>5 DEF z
<1>6. Traced'
  BY <1>2, <1>5 DEF CInv, TypeOK, Traced
<1>7. UnreachableIsExplained'
  BY <1>2 DEF UnreachableIsExplained
<1> QED BY <1>4, <1>6, <1>7 DEF CInv

\* Only a PRTG that answered is asked again.
LEMMA GiveUpStep == ASSUME CInv, GiveUp PROVE CInv'
<1>1. PICK d \in AttemptTime : Takes(d)
  BY DEF GiveUp
<1>2. elapsed' \in 0 .. Timeout
  BY <1>1, Durations, NumberAssumption DEF Takes, CInv, TypeOK
<1>3. /\ UNCHANGED <<call, reachable, began, refused>>
      /\ pc = "request" /\ outcome = "none"
      /\ \/ outcome' = "failed" /\ UNCHANGED <<pc, request, attempts>>
         \/ /\ reachable /\ pc' = "client" /\ request' = 2 /\ attempts' = 0
            /\ outcome' = outcome
  BY DEF GiveUp, At, Fail, FallsBack
<1>4. TypeOK'
  BY <1>2, <1>3, NumberAssumption DEF CInv, TypeOK, Envelope
<1>5. Traced' /\ UnreachableIsExplained'
  BY <1>3 DEF CInv, TypeOK, Traced, UnreachableIsExplained
<1> QED BY <1>4, <1>5 DEF CInv

\* Without a connection the timeout strikes only beyond the worst case.
LEMMA ExpireStep == ASSUME CInv, Expire PROVE CInv'
<1>1. PICK d \in AttemptTime :
          \/ Cut(d)
          \/ attempts < MaxRetries /\ \E pause \in Pause : Cut(d + pause)
  BY DEF Expire
<1>2. /\ UNCHANGED <<call, reachable, pc, began, request, attempts, refused>>
      /\ pc = "request" /\ outcome = "none"
      /\ elapsed' = Timeout /\ outcome' = "cut"
  BY <1>1 DEF Expire, At, Cut
<1>3. TypeOK'
  BY <1>2, NumberAssumption DEF CInv, TypeOK
<1>4. Traced'
  BY <1>2 DEF CInv, TypeOK, Traced
<1>5. ASSUME ~reachable
      PROVE  began + UnreachableWorst > Timeout
  <2> DEFINE y == attempts * (ConnectTimeout + LongestPause)
  <2>1. attempts \in 0 .. MaxRetries /\ elapsed \in Nat /\ began \in Nat
        /\ elapsed <= began + y
    BY <1>2, <1>5 DEF CInv, TypeOK, Traced
  <2>2. y \in Nat /\ UnreachableWorst \in Nat /\ y + ConnectTimeout <= UnreachableWorst
        /\ (attempts < MaxRetries => y + ConnectTimeout + LongestPause <= UnreachableWorst)
    BY <2>1, WorstCase
  <2> HIDE DEF y
  <2>3. d \in 0 .. ConnectTimeout
    BY <1>5, Durations DEF CInv
  <2>4. CASE Cut(d)
    BY <2>1, <2>2, <2>3, <2>4, NumberAssumption DEF Cut
  <2>5. CASE attempts < MaxRetries /\ \E pause \in Pause : Cut(d + pause)
    <3>1. PICK pause \in 0 .. LongestPause : Cut(d + pause)
      BY <1>5, <2>5, Durations DEF CInv
    <3> QED BY <2>1, <2>2, <2>3, <2>5, <3>1, NumberAssumption DEF Cut
  <2> QED BY <1>1, <2>4, <2>5
<1>6. UnreachableIsExplained'
  <2>1. began \in Nat /\ Timeout \in Nat /\ UnreachableWorst \in Nat
    BY NumberAssumption DEF CInv, TypeOK, UnreachableWorst
  <2>2. UnreachableWorst' = UnreachableWorst
    BY DEF UnreachableWorst
  <2> QED BY <1>2, <1>5, <2>1, <2>2 DEF UnreachableIsExplained
<1> QED BY <1>3, <1>4, <1>6 DEF CInv

LEMMA CallInvStep == CInv /\ [Next]_vars => CInv'
<1>1. CInv /\ UNCHANGED vars => CInv'
  BY DEF CInv, TypeOK, Traced, UnreachableIsExplained, UnreachableWorst, vars
<1> QED BY <1>1, DispatchStep, PrepareStep, AnswerSteps, RetryStep, GiveUpStep, ExpireStep
        DEF Next

THEOREM CallInductive == Spec => []CInv
BY CallInvStep, InitCInv, PTL DEF Spec

\* Every variable of a call keeps its type.
THEOREM CallTypeCorrect == Spec => []TypeOK
BY CallInductive, PTL DEF CInv

\* For every timeout and number of retries: a PRTG nobody can connect to is
\* explained in an envelope when one request fits into the function timeout,
\* the fallback of get_server_status notwithstanding.
THEOREM UnreachablesAreExplained == Spec => []UnreachableIsExplained
BY CallInductive, PTL DEF CInv

\* One call presents a refused credential once at most.
THEOREM RefusedAtMostOnce == Spec => []RefusedOnce
<1>1. CInv => RefusedOnce
  BY DEF CInv, Traced, RefusedOnce
<1> QED BY <1>1, CallInductive, PTL

-----------------------------------------------------------------------------
\* What the first request may have taken when the second begins.
Earlier == IF request = 1 THEN 0 ELSE RequestWorst

\* Each request accounts for its time by its attempts.
Timed ==
    /\ request = 2 => call.tool = "get_server_status"
    /\ outcome = "none" /\ pc # "request" => elapsed <= Earlier
    /\ outcome = "none" /\ pc = "request" =>
           elapsed <= Earlier + SlowestSecret + attempts * (AttemptWorst + PauseWorst)

TInv == CInv /\ Timed /\ FittingCallIsAnswered

LEMMA Numbers ==
    /\ AttemptWorst \in Nat /\ PauseWorst \in Nat /\ RequestWorst \in Nat
    /\ SlowestSecret \in Nat /\ SlowestSecret <= RequestWorst
    /\ Timeout \in Nat /\ MaxRetries \in Nat
<1>1. AttemptWorst \in Nat /\ PauseWorst \in Nat /\ MaxRetries \in Nat
  BY NumberAssumption DEF AttemptWorst, PauseWorst
<1>2. MaxRetries * (AttemptWorst + PauseWorst) \in Nat
  BY <1>1
<1> HIDE DEF AttemptWorst, PauseWorst
<1> QED BY <1>1, <1>2, NumberAssumption DEF RequestWorst

\* An attempt after n others, and a pause if it is not the last, end within
\* the longest request.
LEMMA AttemptFits ==
    ASSUME NEW n \in 0 .. MaxRetries
    PROVE  LET y == n * (AttemptWorst + PauseWorst)
           IN  /\ y \in Nat
               /\ (n + 1) * (AttemptWorst + PauseWorst) = y + AttemptWorst + PauseWorst
               /\ SlowestSecret + y + AttemptWorst <= RequestWorst
               /\ n < MaxRetries =>
                      SlowestSecret + y + AttemptWorst + PauseWorst <= RequestWorst
<1> DEFINE x == AttemptWorst + PauseWorst
<1>1. x \in Nat /\ n \in Nat /\ n <= MaxRetries
  BY Numbers
<1>2. RequestWorst = SlowestSecret + MaxRetries * x + AttemptWorst
  BY DEF RequestWorst
<1>3. x = AttemptWorst + PauseWorst
  OBVIOUS
<1> HIDE DEF x
<1>4. n * x \in Nat /\ MaxRetries * x \in Nat /\ (n + 1) * x = n * x + x
      /\ n * x <= MaxRetries * x
  BY <1>1, Numbers, Attempts
<1>5. n < MaxRetries => (n + 1) * x <= MaxRetries * x
  BY <1>1, Numbers, Attempts
<1>6. /\ n * x \in Nat
      /\ (n + 1) * x = n * x + AttemptWorst + PauseWorst
      /\ SlowestSecret + n * x + AttemptWorst <= RequestWorst
      /\ n < MaxRetries => SlowestSecret + n * x + AttemptWorst + PauseWorst <= RequestWorst
  BY <1>2, <1>3, <1>4, <1>5, Numbers
<1> QED BY <1>6 DEF x

LEMMA LongestDurations ==
    /\ AttemptTime \subseteq 0 .. AttemptWorst
    /\ Pause \subseteq 0 .. PauseWorst
BY NumberAssumption DEF AttemptTime, Pause, AttemptWorst, PauseWorst

\* How much time a call had, when it is in the request with number request.
LEMMA CallFits ==
    ASSUME CInv, Timed, CallWorst <= Timeout
    PROVE  Earlier \in Nat /\ Earlier + RequestWorst <= Timeout
<1>1. request \in {1, 2}
  BY DEF CInv, TypeOK
<1> QED BY <1>1, Numbers DEF Timed, CallWorst, Earlier

\* The last step of a call is never the timeout, if it fits.
LEMMA NotCut ==
    ASSUME TInv, NEW d \in Nat, Cut(d),
           \/ pc = "client" /\ d <= SlowestSecret
           \/ pc = "request" /\ d <= AttemptWorst
           \/ pc = "request" /\ attempts < MaxRetries /\ d <= AttemptWorst + PauseWorst,
           CallWorst <= Timeout, outcome = "none"
    PROVE  FALSE
<1>1. Earlier \in Nat /\ Earlier + RequestWorst <= Timeout
  BY CallFits DEF TInv
<1>2. elapsed \in Nat /\ elapsed + d > Timeout /\ attempts \in 0 .. MaxRetries
  BY Numbers DEF Cut, TInv, CInv, TypeOK
<1>3. CASE pc = "client" /\ d <= SlowestSecret
  BY <1>1, <1>2, <1>3, Numbers DEF TInv, Timed
<1>4. CASE pc = "request"
  <2> DEFINE y == attempts * (AttemptWorst + PauseWorst)
  <2>1. /\ y \in Nat /\ SlowestSecret + y + AttemptWorst <= RequestWorst
        /\ attempts < MaxRetries =>
               SlowestSecret + y + AttemptWorst + PauseWorst <= RequestWorst
    BY <1>2, AttemptFits
  <2>2. elapsed <= Earlier + SlowestSecret + y
    BY <1>4 DEF TInv, Timed
  <2> HIDE DEF y
  <2> QED BY <1>1, <1>2, <1>4, <2>1, <2>2, Numbers
<1> QED BY <1>3, <1>4

LEMMA TimedStep == TInv /\ [Next]_vars => TInv'
<1> SUFFICES ASSUME TInv, [Next]_vars PROVE TInv'
  OBVIOUS
<1> USE DEF TInv
<1>a. CInv'
  BY CallInvStep
<1>b. /\ elapsed \in Nat /\ attempts \in 0 .. MaxRetries /\ request \in {1, 2}
      /\ Earlier \in Nat
  BY Numbers DEF CInv, TypeOK, Earlier
<1>c. ASSUME UNCHANGED call, outcome' # "cut" PROVE FittingCallIsAnswered'
  BY <1>c DEF FittingCallIsAnswered
<1>1. CASE Dispatch
  BY <1>1, <1>a, <1>c DEF Dispatch, At, Timed, Earlier
<1>2. CASE Prepare
  <2>1. PICK d \in 0 .. SlowestSecret :
            \/ Cut(d)
            \/ /\ Takes(d)
               /\ \/ pc' = "request" /\ outcome' = outcome
                  \/ outcome' \in {"failed", "unexpected"}
               /\ UNCHANGED <<call, request, attempts>>
    BY <1>2 DEF Prepare
  <2>2. pc = "client" /\ outcome = "none" /\ d \in Nat /\ d <= SlowestSecret
    BY <1>2, Numbers DEF Prepare, At
  <2>3. CASE Cut(d)
    <3>1. outcome' = "cut" /\ UNCHANGED <<call, request>>
      BY <2>3 DEF Cut
    <3>2. ~(CallWorst <= Timeout)
      BY <2>2, <2>3, NotCut
    <3> QED BY <1>a, <3>1, <3>2 DEF Timed, FittingCallIsAnswered, CallWorst
  <2>4. CASE Takes(d) /\ UNCHANGED <<call, request, attempts>>
             /\ \/ pc' = "request" /\ outcome' = outcome
                \/ outcome' \in {"failed", "unexpected"}
    <3>1. outcome' # "cut"
      BY <2>2, <2>4
    <3>2. attempts = 0 /\ attempts * (AttemptWorst + PauseWorst) = 0
      BY <2>2, Numbers DEF CInv, Traced
    <3>3. elapsed' <= Earlier + SlowestSecret
      BY <1>b, <2>2, <2>4, Numbers DEF Takes, Timed
    <3>4. outcome' # "none" \/ pc' = "request"
      BY <2>4
    <3>5. Timed'
      BY <1>b, <2>4, <3>2, <3>3, <3>4, Numbers DEF Timed, Earlier
    <3> QED BY <1>a, <1>c, <2>4, <3>1, <3>5
  <2> QED BY <2>1, <2>3, <2>4
<1>3. ASSUME NEW d \in AttemptTime, Takes(d), At("request"), UNCHANGED call,
             \/ outcome' \in Envelope /\ UNCHANGED request
             \/ /\ pc' = "client" /\ request' = 2 /\ request = 1
                /\ call.tool = "get_server_status" /\ outcome' = outcome
      PROVE  TInv'
  <2> DEFINE y == attempts * (AttemptWorst + PauseWorst)
  <2>1. y \in Nat /\ SlowestSecret + y + AttemptWorst <= RequestWorst
    BY <1>b, AttemptFits
  <2>2. elapsed <= Earlier + SlowestSecret + y
    BY <1>3 DEF At, Timed
  <2> HIDE DEF y
  <2>3. d \in Nat /\ d <= AttemptWorst /\ elapsed' = elapsed + d
    BY <1>3, LongestDurations, Numbers DEF Takes
  <2>4. elapsed' <= Earlier + RequestWorst
    BY <1>b, <2>1, <2>2, <2>3, Numbers
  <2>5. outcome' # "cut"
    BY <1>3 DEF Envelope, At
  <2>6. CASE outcome' \in Envelope /\ UNCHANGED request
    BY <1>3, <1>a, <1>c, <2>5, <2>6 DEF Timed, Envelope
  <2>7. CASE pc' = "client" /\ request' = 2 /\ request = 1
             /\ call.tool = "get_server_status" /\ outcome' = outcome
    <3>1. Earlier = 0 /\ Earlier' = RequestWorst
      BY <2>7 DEF Earlier, RequestWorst, AttemptWorst, PauseWorst
    <3>2. elapsed' <= RequestWorst
      BY <2>4, <3>1, Numbers
    <3> QED BY <1>3, <1>a, <1>c, <2>5, <2>7, <3>1, <3>2 DEF Timed
  <2> QED BY <1>3, <2>6, <2>7
<1>4. CASE Refuse \/ Answer \/ GiveUp
  <2>1. PICK d \in AttemptTime : Takes(d)
    BY <1>4 DEF Refuse, Answer, GiveUp
  <2>2. /\ At("request") /\ UNCHANGED call
        /\ \/ outcome' \in Envelope /\ UNCHANGED request
           \/ /\ pc' = "client" /\ request' = 2 /\ request = 1
              /\ call.tool = "get_server_status" /\ outcome' = outcome
    BY <1>4 DEF Refuse, Answer, GiveUp, Fail, FallsBack, Envelope
  <2> QED BY <1>3, <2>1, <2>2
<1>5. CASE Retry
  <2>1. PICK d \in AttemptTime, pause \in Pause : Takes(d + pause)
    BY <1>5 DEF Retry
  <2>2. /\ UNCHANGED <<call, pc, request, outcome>> /\ pc = "request" /\ outcome = "none"
        /\ attempts' = attempts + 1
    BY <1>5 DEF Retry, At
  <2> DEFINE y == attempts * (AttemptWorst + PauseWorst)
             z == (attempts + 1) * (AttemptWorst + PauseWorst)
  <2>3. y \in Nat /\ z = y + AttemptWorst + PauseWorst
    BY <1>b, AttemptFits
  <2>4. elapsed <= Earlier + SlowestSecret + y
    BY <2>2 DEF Timed
  <2>5. d \in 0 .. AttemptWorst /\ pause \in 0 .. PauseWorst
        /\ elapsed' = elapsed + (d + pause)
    BY <2>1, LongestDurations DEF Takes
  <2> HIDE DEF y, z
  <2>6. elapsed' <= Earlier + SlowestSecret + z
    BY <1>b, <2>3, <2>4, <2>5, Numbers
  <2>7. Timed'
    BY <2>2, <2>6 DEF z, Timed, Earlier, RequestWorst, AttemptWorst, PauseWorst
  <2> QED BY <1>a, <1>c, <2>2, <2>7
<1>6. CASE Expire
  <2>1. PICK d \in AttemptTime :
            \/ Cut(d)
            \/ attempts < MaxRetries /\ \E pause \in Pause : Cut(d + pause)
    BY <1>6 DEF Expire
  <2>2. d \in Nat /\ d <= AttemptWorst /\ pc = "request" /\ outcome = "none"
    BY <1>6, LongestDurations, Numbers DEF Expire, At
  <2>3. outcome' = "cut" /\ UNCHANGED <<call, request>>
    BY <2>1 DEF Cut
  <2>4. ~(CallWorst <= Timeout)
    <3>1. CASE Cut(d)
      BY <2>2, <3>1, NotCut
    <3>2. CASE attempts < MaxRetries /\ \E pause \in Pause : Cut(d + pause)
      <4>1. PICK pause \in Pause : Cut(d + pause)
        BY <3>2
      <4>2. d + pause \in Nat /\ d + pause <= AttemptWorst + PauseWorst
        BY <2>2, LongestDurations, Numbers
      <4> QED BY <2>2, <3>2, <4>1, <4>2, NotCut
    <3> QED BY <2>1, <3>1, <3>2
  <2> QED BY <1>a, <2>3, <2>4 DEF Timed, FittingCallIsAnswered, CallWorst
<1>7. CASE UNCHANGED vars
  BY <1>7, <1>a DEF vars, Timed, Earlier, FittingCallIsAnswered, CallWorst
<1> QED BY <1>1, <1>2, <1>4, <1>5, <1>6, <1>7 DEF Next

\* With a function timeout that holds the longest course of a call, which the
\* 30 s of the stack with the default settings do not, no call ends in it: a
\* slow PRTG, one that answers 429 with a Retry-After, the retries of request
\* and the fallback of get_server_status included.
THEOREM FittingCallsAreAnswered == Spec => []FittingCallIsAnswered
<1>1. Init => TInv
  BY InitCInv DEF Init, TInv, Timed, FittingCallIsAnswered, Earlier
<1> QED BY <1>1, TimedStep, PTL DEF Spec, TInv
=============================================================================
