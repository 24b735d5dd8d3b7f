----------------------- MODULE InvocationBudgetProofs -----------------------
(***************************************************************************)
(* Theorems about InvocationBudget, for every function timeout, however    *)
(* slow the route and the client are, however often the SDK sends a call   *)
(* and, but for the last, however long it pauses.                          *)
(***************************************************************************)
EXTENDS InvocationBudget, TLAPS

\* The time spent so far is accounted for by the step in hand.
Accounted ==
    /\ pc \in {"route", "check", "client"} => tries = 0
    /\ pc # "send" => sends = 0
    /\ pc = "client" /\ hasClock => elapsed + ParkReserve <= timeout \/ outcome = "cut"
    /\ hasClock /\ tries > 0 => callStart + ParkReserve <= timeout + SlowestClient
    /\ pc = "call" =>
           /\ hasClock => callStart + ParkReserve <= timeout + SlowestClient
           /\ outcome = "none" => elapsed <= callStart + tries * (PerAttempt + SdkBackoff)
           /\ outcome = "cut" =>
                timeout < callStart + tries * (PerAttempt + SdkBackoff) + (PerAttempt + SdkBackoff)
    /\ pc = "send" =>
           /\ tries = 1 => parkStart <= callStart + PerAttempt
           /\ tries = 2 => parkStart <= callStart + PerAttempt + SdkBackoff + PerAttempt
           /\ outcome = "none" => elapsed <= parkStart + sends * (SqsPerAttempt + SdkBackoff)
           /\ outcome = "cut" =>
                timeout < parkStart + sends * (SqsPerAttempt + SdkBackoff)
                              + (SqsPerAttempt + SdkBackoff)

BInv == TypeOK /\ Accounted

-----------------------------------------------------------------------------
\* n attempts that take x each, and the next one.
LEMMA Attempts ==
    ASSUME NEW n \in Nat, NEW x \in Nat
    PROVE  n * x \in Nat /\ (n + 1) * x = n * x + x
OBVIOUS

\* The code's quantities are natural numbers, and two attempts fit into the
\* budget.
LEMMA BudgetTypes ==
    ASSUME TypeOK
    PROVE  /\ timeout \in Nat /\ FunctionTimeout \in Nat
           /\ AgentCallBudget \in Nat /\ PerAttempt \in Nat
           /\ PerAttempt + PerAttempt <= AgentCallBudget
           /\ SqsPerAttempt \in Nat
<1>1. timeout \in Nat /\ FunctionTimeout \in Nat
  BY TimeAssumption DEF TypeOK, FunctionTimeout, DefaultTimeout, Seconds
<1>2. AgentCallBudget \in Nat
  BY <1>1 DEF AgentCallBudget, Seconds, ParkReserve
<1>3. QED
  BY <1>1, <1>2 DEF PerAttempt, AgentMaxAttempts, SqsPerAttempt, Seconds

\* A step does not change them.
LEMMA BudgetFixed ==
    ASSUME UNCHANGED timeout
    PROVE  PerAttempt' = PerAttempt
BY DEF AgentCallBudget, PerAttempt, FunctionTimeout, DefaultTimeout, Seconds, ParkReserve,
       AgentMaxAttempts

LEMMA InitBInv == Init => BInv
<1> SUFFICES ASSUME Init PROVE BInv
  OBVIOUS
<1>1. TypeOK
  BY TimeAssumption DEF Init, TypeOK
<1>2. Accounted
  BY DEF Init, Accounted
<1>3. QED
  BY <1>1, <1>2 DEF BInv

\* Before the call, parking starts with nothing tried.
LEMMA StepEarly ==
    ASSUME BInv, Resolve \/ CheckTime \/ GetClient
    PROVE  BInv'
<1> DEFINE X == PerAttempt + SdkBackoff
           Y == SqsPerAttempt + SdkBackoff
<1>1. timeout' = timeout /\ X \in Nat /\ Y \in Nat /\ PerAttempt' = PerAttempt
      /\ 0 * X = 0 /\ 0 * Y = 0
  BY BudgetTypes, BudgetFixed, TimeAssumption
     DEF BInv, Resolve, CheckTime, GetClient, StartPark, Cut
<1> HIDE DEF X, Y
<1> USE <1>1, BudgetTypes, TimeAssumption
    DEF BInv, TypeOK, At, Returns, Cut, StartPark, Remaining, Endings,
        ParkReserve, Seconds
<1>2. TypeOK'
  BY DEF Accounted, Resolve, CheckTime, GetClient
<1>3. Accounted'
  <2>1. (pc \in {"route", "check", "client"} => tries = 0)'
        /\ (pc # "send" => sends = 0)'
        /\ (pc = "client" /\ hasClock =>
              elapsed + ParkReserve <= timeout \/ outcome = "cut")'
        /\ (hasClock /\ tries > 0 => callStart + ParkReserve <= timeout + SlowestClient)'
        /\ (pc = "call" /\ hasClock =>
              callStart + ParkReserve <= timeout + SlowestClient)'
    BY DEF Accounted, Resolve, CheckTime, GetClient
  <2>2. (pc = "call" /\ outcome = "none" => elapsed <= callStart + tries * X)'
    BY DEF Accounted, Resolve, CheckTime, GetClient, X
  <2>3. (pc = "send" => tries = 0)'
    BY DEF Accounted, Resolve, CheckTime, GetClient
  <2>4. (pc = "send" /\ outcome = "none" => elapsed <= parkStart + sends * Y)'
    BY DEF Accounted, Resolve, CheckTime, GetClient, Y
  <2>5. (pc \in {"call", "send"} => outcome # "cut")'
    BY DEF Accounted, Resolve, CheckTime, GetClient
  <2>6. QED
    BY <2>1, <2>2, <2>3, <2>4, <2>5 DEF Accounted, X, Y
<1>4. QED
  BY <1>2, <1>3

\* Every attempt of the call adds at most its share to the account.
LEMMA StepAttempt ==
    ASSUME BInv, Attempt
    PROVE  BInv'
<1> DEFINE X == PerAttempt + SdkBackoff
           Y == SqsPerAttempt + SdkBackoff
<1>1. timeout' = timeout /\ X \in Nat /\ Y \in Nat /\ 0 * Y = 0
      /\ PerAttempt' = PerAttempt
  BY BudgetTypes, BudgetFixed, TimeAssumption DEF BInv, Attempt, StartPark, Cut
<1>2. /\ tries * X \in Nat /\ (tries + 1) * X = tries * X + X
      /\ tries \in Nat /\ tries + 1 <= SdkAttempts
  <2>1. tries \in Nat /\ SdkAttempts \in Nat /\ tries + 1 <= SdkAttempts
    BY TimeAssumption DEF Attempt, BInv, TypeOK
  <2> HIDE DEF X
  <2>2. QED
    BY <1>1, <2>1, Attempts
<1>3. elapsed <= callStart + tries * X /\ elapsed \in Nat /\ callStart \in Nat
  BY DEF BInv, Accounted, TypeOK, Attempt, At
<1>4. PICK d \in 0 .. PerAttempt, pause \in 0 .. SdkBackoff :
          \/ Cut(d) \/ Cut(d + pause)
          \/ /\ Returns(d) /\ outcome' = "answered" /\ tries' = tries + 1
             /\ UNCHANGED <<timeout, hasClock, pc, sends, callStart, parkStart>>
          \/ Returns(d) /\ tries' = tries + 1 /\ StartPark /\ UNCHANGED callStart
          \/ /\ Returns(d + pause) /\ tries' = tries + 1
             /\ UNCHANGED <<timeout, hasClock, pc, sends, callStart, parkStart, outcome>>
  BY DEF Attempt
<1>5. d \in Nat /\ pause \in Nat /\ d + pause <= X
  BY <1>4, BudgetTypes, TimeAssumption DEF BInv
<1>6. pc = "call" /\ outcome = "none" /\ sends = 0
      /\ (hasClock => callStart + ParkReserve <= timeout + SlowestClient)
  BY DEF Attempt, At, BInv, Accounted
<1> HIDE DEF X, Y
<1> USE <1>1, <1>2, <1>3, <1>5, <1>6, BudgetTypes, TimeAssumption
    DEF BInv, TypeOK, Returns, Cut, StartPark, Remaining, Endings
<1>7. TypeOK'
  BY <1>4
<1>8. Accounted'
  <2>1. (pc = "call" /\ outcome = "none" => elapsed <= callStart + tries * X)'
    BY <1>4 DEF X
  <2>3. (pc = "send" /\ outcome = "none" => elapsed <= parkStart + sends * Y)'
    BY <1>4 DEF Y
  <2>4. (pc \in {"route", "check", "client"} => tries = 0)'
        /\ (pc # "send" => sends = 0)'
        /\ (pc = "client" => FALSE)'
        /\ (hasClock => callStart + ParkReserve <= timeout + SlowestClient)'
    BY <1>4 DEF ParkReserve, Seconds
  <2>5. (pc = "call" /\ outcome = "cut" => timeout < callStart + tries * X + X)'
        /\ (pc = "send" => outcome # "cut")'
    <3>1. CASE Cut(d) \/ Cut(d + pause)
      <4>1. timeout < elapsed + X
        BY <3>1
      <4>2. QED
        BY <3>1, <4>1 DEF X
    <3>2. CASE outcome' # "cut"
      BY <3>2
    <3>3. QED
      BY <1>4, <3>1, <3>2
  <2>6. (pc = "send" =>
           /\ tries = 1 => parkStart <= callStart + PerAttempt
           /\ tries = 2 => parkStart <= callStart + PerAttempt + SdkBackoff + PerAttempt)'
    <3> SUFFICES ASSUME pc' = "send"
                 PROVE  (/\ tries = 1 => parkStart <= callStart + PerAttempt
                         /\ tries = 2 => parkStart <= callStart + PerAttempt + SdkBackoff + PerAttempt)'
      OBVIOUS
    <3>1. /\ tries' = tries + 1 /\ parkStart' = elapsed + d /\ callStart' = callStart
          /\ d <= PerAttempt /\ PerAttempt \in Nat
      BY <1>4
    <3>2. (tries = 0 => tries * X = 0) /\ (tries = 1 => tries * X = PerAttempt + SdkBackoff)
      BY DEF X
    <3>3. tries' = 1 => parkStart' <= callStart + PerAttempt
      BY <3>1, <3>2
    <3>4. tries' = 2 => parkStart' <= callStart + PerAttempt + SdkBackoff + PerAttempt
      BY <3>1, <3>2
    <3>5. QED
      BY <3>1, <3>3, <3>4, <1>1
  <2>7. QED
    BY <2>1, <2>3, <2>4, <2>5, <2>6 DEF Accounted, X, Y
<1>9. QED
  BY <1>7, <1>8

\* And so does every attempt of SendMessage.
LEMMA StepSend ==
    ASSUME BInv, Send
    PROVE  BInv'
<1> DEFINE Y == SqsPerAttempt + SdkBackoff
<1>1. timeout' = timeout /\ Y \in Nat
      /\ PerAttempt' = PerAttempt
  BY BudgetTypes, BudgetFixed, TimeAssumption DEF BInv, Send, Cut
<1>2. /\ sends * Y \in Nat /\ (sends + 1) * Y = sends * Y + Y
      /\ sends \in Nat /\ sends + 1 <= SdkAttempts
  <2>1. sends \in Nat /\ SdkAttempts \in Nat /\ sends + 1 <= SdkAttempts
    BY TimeAssumption DEF Send, BInv, TypeOK
  <2> HIDE DEF Y
  <2>2. QED
    BY <1>1, <2>1, Attempts
<1>3. elapsed <= parkStart + sends * Y /\ elapsed \in Nat /\ parkStart \in Nat
  BY DEF BInv, Accounted, TypeOK, Send, At
<1>4. PICK d \in 0 .. SqsPerAttempt, pause \in 0 .. SdkBackoff :
          \/ Cut(d) \/ Cut(d + pause)
          \/ /\ Returns(d) /\ sends' = sends + 1
             /\ outcome' \in {"parked", "parkFailed"}
             /\ UNCHANGED <<timeout, hasClock, pc, tries, callStart, parkStart>>
          \/ /\ Returns(d + pause) /\ sends' = sends + 1
             /\ UNCHANGED <<timeout, hasClock, pc, tries, callStart, parkStart, outcome>>
  BY DEF Send
<1>5. d \in Nat /\ pause \in Nat /\ d + pause <= Y
  BY <1>4, BudgetTypes, TimeAssumption DEF BInv
<1>6. pc = "send" /\ outcome = "none"
      /\ (hasClock /\ tries > 0 => callStart + ParkReserve <= timeout + SlowestClient)
      /\ (tries = 1 => parkStart <= callStart + PerAttempt)
      /\ (tries = 2 => parkStart <= callStart + PerAttempt + SdkBackoff + PerAttempt)
  BY DEF Send, At, BInv, Accounted
<1> HIDE DEF Y
<1> USE <1>1, <1>2, <1>3, <1>5, <1>6, BudgetTypes, TimeAssumption
    DEF BInv, TypeOK, Returns, Cut, Remaining, Endings
<1>7. TypeOK'
  BY <1>4
<1>8. Accounted'
  <2>1. (outcome = "none" => elapsed <= parkStart + sends * Y)'
    BY <1>4 DEF Y
  <2>2. (pc = "send")'
        /\ (hasClock /\ tries > 0 => callStart + ParkReserve <= timeout + SlowestClient)'
    BY <1>4 DEF ParkReserve, Seconds
  <2>3. (outcome = "cut" => timeout < parkStart + sends * Y + Y)'
    BY <1>4
  <2>4. (/\ tries = 1 => parkStart <= callStart + PerAttempt
         /\ tries = 2 => parkStart <= callStart + PerAttempt + SdkBackoff + PerAttempt)'
    BY <1>4, <1>6
  <2>5. QED
    BY <2>1, <2>2, <2>3, <2>4 DEF Accounted, Y
<1>9. QED
  BY <1>7, <1>8

THEOREM BudgetInvariance == Spec => []BInv
<1>1. BInv /\ [Next]_vars => BInv'
  <2> SUFFICES ASSUME BInv, [Next]_vars PROVE BInv'
    OBVIOUS
  <2>1. CASE UNCHANGED vars
    BY <2>1, BudgetFixed
       DEF vars, BInv, TypeOK, Accounted, SqsPerAttempt
  <2>2. QED
    BY <2>1, StepEarly, StepAttempt, StepSend DEF Next
<1>2. QED
  BY <1>1, InitBInv, PTL DEF Spec

\* Every variable of an invocation keeps its type: it never runs past the
\* function timeout, nor sends more often than the SDK does.
THEOREM BudgetTypeCorrect == Spec => []TypeOK
<1>1. BInv => TypeOK
  BY DEF BInv
<1>2. QED
  BY <1>1, BudgetInvariance, PTL

\* A call that the deadline cuts off was begun with less time left than the
\* sends so far may take, whatever the timeout: the attempts never overrun.
THEOREM CutCallsStartedLate == Spec => []CutCallStartedLate
<1>1. ASSUME BInv PROVE CutCallStartedLate
  <2>1. (tries + 1) * (PerAttempt + SdkBackoff)
            = tries * (PerAttempt + SdkBackoff) + (PerAttempt + SdkBackoff)
    BY <1>1, BudgetTypes, TimeAssumption, Attempts DEF BInv, TypeOK
  <2>2. QED
    BY <1>1, <2>1, BudgetTypes, TimeAssumption, Attempts
       DEF BInv, TypeOK, Accounted, CutCallStartedLate, CutIn, CallTime
<1>2. QED
  BY <1>1, BudgetInvariance, PTL

\* Parking that is begun in time ends in parked or parkFailed.
THEOREM CutParksStartedLate == Spec => []CutParkStartedLate
<1>1. ASSUME BInv PROVE CutParkStartedLate
  <2>1. (sends + 1) * (SqsPerAttempt + SdkBackoff)
            = sends * (SqsPerAttempt + SdkBackoff) + (SqsPerAttempt + SdkBackoff)
    BY <1>1, BudgetTypes, TimeAssumption, Attempts DEF BInv, TypeOK
  <2>2. QED
    BY <1>1, <2>1, BudgetTypes, TimeAssumption, Attempts
       DEF BInv, TypeOK, Accounted, CutParkStartedLate, CutIn, SendTime
<1>2. QED
  BY <1>1, BudgetInvariance, PTL

\* The check leaves a call no less than the reserve, but for what building
\* the client took after it.
THEOREM CheckedCallsHaveReserve == Spec => []CheckedCallHasReserve
<1>1. BInv => CheckedCallHasReserve
  BY DEF BInv, Accounted, CheckedCallHasReserve
<1>2. QED
  BY <1>1, BudgetInvariance, PTL

\* However often the SDK sends, if it pauses no longer than half of what one
\* attempt at SendMessage may take (2 s, and the first two pauses of its
\* standard mode are no longer), two sends of the call fit into the budget,
\* and the pause between them leaves enough of the reserve for one attempt at
\* SendMessage: an alarm whose call began at once is cut off only later than that, for any
\* timeout of at least the smallest budget and the reserve.
THEOREM PromptAlarmsAreCutLate ==
    ASSUME SdkBackoff + SdkBackoff <= SqsPerAttempt, TimeoutPassed
    PROVE  Spec => []PromptAlarmIsCutLate
<1>1. BInv => PromptAlarmIsCutLate
  <2> SUFFICES ASSUME BInv, Prompt, timeout >= Seconds(6) + ParkReserve
               PROVE  /\ CutIn("call") => tries >= 2
                      /\ CutIn("send") => tries > 2 \/ sends > 0
    BY DEF PromptAlarmIsCutLate, AgentMaxAttempts
  <2>1. /\ timeout \in Nat /\ PerAttempt \in Nat /\ SqsPerAttempt = 8
        /\ PerAttempt + PerAttempt <= timeout - 16 /\ timeout >= 28
        /\ SdkBackoff \in Nat /\ SdkBackoff <= 4 /\ tries \in Nat /\ sends \in Nat
        /\ callStart = 0 /\ tries > 0
    BY BudgetTypes, TimeAssumption
       DEF BInv, TypeOK, AgentCallBudget, FunctionTimeout, Seconds, ParkReserve,
           SqsPerAttempt, Prompt
  <2>2. CutIn("call") => tries >= 2
    <3> SUFFICES ASSUME CutIn("call"), tries = 1
                 PROVE  FALSE
      BY <2>1
    <3>1. tries * (PerAttempt + SdkBackoff) = PerAttempt + SdkBackoff
      BY <2>1
    <3>2. timeout < callStart + PerAttempt + SdkBackoff + PerAttempt + SdkBackoff
      BY <2>1, <3>1 DEF BInv, Accounted, CutIn
    <3>3. QED
      BY <2>1, <3>2
  <2>3. CutIn("send") => tries > 2 \/ sends > 0
    <3> SUFFICES ASSUME CutIn("send"), tries \in {1, 2}, sends = 0
                 PROVE  FALSE
      BY <2>1
    <3>1. parkStart \in Nat /\ parkStart <= PerAttempt + SdkBackoff + PerAttempt
      BY <2>1 DEF BInv, TypeOK, Accounted, CutIn
    <3>2. timeout < parkStart + SqsPerAttempt + SdkBackoff
      <4>1. sends * (SqsPerAttempt + SdkBackoff) = 0
        BY <2>1
      <4>2. QED
        BY <4>1, <2>1, <3>1 DEF BInv, Accounted, CutIn
    <3>3. QED
      BY <2>1, <3>1, <3>2
  <2>4. QED
    BY <2>2, <2>3
<1>2. QED
  BY <1>1, BudgetInvariance, PTL
=============================================================================
