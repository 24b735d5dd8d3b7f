-------------------------- MODULE PrtgClientProofs --------------------------
(***************************************************************************)
(* Theorems about PrtgClient, for every TTL, number of retries, rotations  *)
(* and renewals, and whatever the operator writes into the secret.         *)
(***************************************************************************)
EXTENDS PrtgClient, TLAPS

\* The secret's past: its last version is in force, the others were
\* overwritten by now, and only those are withdrawn.
History ==
    /\ until[rotations] = Never
    /\ \A v \in 0 .. rotations : v < rotations => until[v] <= now
    /\ \A v \in withdrawn : v < rotations

\* What is cached was complete, and in force until a Ttl before it expires.
Cached ==
    /\ cached # None =>
           /\ cached \in 0 .. rotations
           /\ content[cached] = "complete"
           /\ expires <= until[cached] + Ttl
           /\ expires <= now + Ttl
    /\ since <= now

KInv == TypeOK /\ History /\ Cached /\ SentCredentialIsFresh /\ RotationConverges

USE DEF Version, Certificate, None, Never

-----------------------------------------------------------------------------
LEMMA InitKInv == Init => KInv
<1> SUFFICES ASSUME Init PROVE KInv
  OBVIOUS
<1>1. TypeOK
  BY NumberAssumption DEF Init, TypeOK, Kind
<1>2. History /\ Cached /\ SentCredentialIsFresh /\ RotationConverges
  BY NumberAssumption DEF Init, History, Cached, SentCredentialIsFresh, RotationConverges
<1> QED BY <1>1, <1>2 DEF KInv

\* A request that ends: what PRTG refused was cached, and was in force within
\* a Ttl of its beginning.
LEMMA AnswerStep ==
    ASSUME KInv, NEW kind \in Kind, Answer(kind),
           kind = "auth" => pc = "send" /\ cached \in withdrawn,
           UNCHANGED <<now, secret, prtg, cached, expires, pool>>
    PROVE  KInv'
<1>1. TypeOK'
  BY NumberAssumption DEF KInv, TypeOK, Answer, secret, prtg
<1>2. History' /\ Cached' /\ SentCredentialIsFresh'
  BY NumberAssumption
     DEF KInv, TypeOK, History, Cached, SentCredentialIsFresh, Answer, secret, prtg
<1>3. answer'.kind = kind /\ answer'.began = since /\ until' = until /\ withdrawn' = withdrawn
  BY DEF Answer, secret
<1>4. RotationConverges'
  <2>1. CASE kind = "auth"
    <3>1. cached \in 0 .. rotations /\ expires <= until[cached] + Ttl /\ since <= expires
      BY <2>1 DEF KInv, Cached, SentCredentialIsFresh
    <3>2. until[cached] \in Nat /\ since \in Nat /\ expires \in Nat /\ Ttl \in Nat
      BY <3>1, NumberAssumption DEF KInv, TypeOK
    <3>3. until[cached] + Ttl >= since
      BY <3>1, <3>2
    <3> QED BY <1>3, <2>1, <3>3 DEF RotationConverges
  <2>2. CASE kind # "auth"
    BY <1>3, <2>2 DEF RotationConverges
  <2> QED BY <2>1, <2>2
<1> QED BY <1>1, <1>2, <1>4 DEF KInv

\* The steps of a request before it ends.
LEMMA BeginStep == ASSUME KInv, Begin PROVE KInv'
<1>1. UNCHANGED <<now, rotations, content, until, withdrawn, renewals, renewedAt, cached,
                  expires, pool, attempts, answer>>
      /\ since' = now
      /\ (pc' = "credentials" \/ (pc' \in {"trust", "send"} /\ Fresh))
  BY DEF Begin, AfterCredentials, secret, prtg
<1>2. TypeOK' /\ History' /\ Cached'
  BY <1>1, NumberAssumption DEF KInv, TypeOK, History, Cached
<1>3. SentCredentialIsFresh' /\ RotationConverges'
  BY <1>1, NumberAssumption
     DEF KInv, TypeOK, Cached, SentCredentialIsFresh, RotationConverges, Fresh
<1> QED BY <1>2, <1>3 DEF KInv

LEMMA CredentialsArriveStep == ASSUME KInv, CredentialsArrive PROVE KInv'
<1>1. CASE content[rotations] = "unusable"
  <2>1. Answer("failed") /\ UNCHANGED <<now, secret, prtg, cached, expires, pool>>
    BY <1>1 DEF CredentialsArrive
  <2> QED BY <2>1, AnswerStep DEF Kind
<1>2. CASE content[rotations] = "complete"
  <2>1. UNCHANGED <<now, rotations, content, until, withdrawn, renewals, renewedAt, pool,
                    since, attempts, answer>>
        /\ cached' = rotations /\ expires' = since + Ttl /\ pc' \in {"trust", "send"}
    BY <1>2 DEF CredentialsArrive, AfterCredentials, secret, prtg
  <2>2. TypeOK'
    BY <2>1, NumberAssumption DEF KInv, TypeOK
  <2>3. History' /\ Cached'
    BY <1>2, <2>1, NumberAssumption DEF KInv, TypeOK, History, Cached
  <2>4. SentCredentialIsFresh' /\ RotationConverges'
    BY <1>2, <2>1, NumberAssumption DEF KInv, TypeOK, SentCredentialIsFresh, RotationConverges
  <2> QED BY <2>2, <2>3, <2>4 DEF KInv
<1> QED BY <1>1, <1>2 DEF CredentialsArrive

LEMMA OnItsWayStep ==
    ASSUME KInv, TrustArrives \/ Again
    PROVE  KInv'
<1>1. UNCHANGED <<now, rotations, content, until, withdrawn, renewals, renewedAt, cached,
                  expires, since, answer>>
      /\ pc \in {"trust", "send"} /\ pc' = "send"
      /\ \/ pool' = renewals /\ attempts' = attempts
         \/ pool' = pool /\ attempts < MaxRetries /\ attempts' = attempts + 1
  BY DEF TrustArrives, Again, secret, prtg
<1>2. TypeOK'
  <2>1. pool' \in Certificate \union {None}
    BY <1>1 DEF KInv, TypeOK
  <2>2. attempts' \in 0 .. MaxRetries + 1
    BY <1>1, NumberAssumption DEF KInv, TypeOK
  <2> QED BY <1>1, <2>1, <2>2 DEF KInv, TypeOK
<1>3. History' /\ Cached' /\ SentCredentialIsFresh' /\ RotationConverges'
  BY <1>1 DEF KInv, History, Cached, SentCredentialIsFresh, RotationConverges
<1> QED BY <1>2, <1>3 DEF KInv

\* Overwriting the secret ends the last version now, when what is cached of
\* it has no more than a Ttl to live.
LEMMA RotateStep == ASSUME KInv, NEW c \in Contents, Rotate(c) PROVE KInv'
<1>1. UNCHANGED <<now, withdrawn, renewals, renewedAt, cached, expires, pool, pc, since,
                  attempts, answer>>
      /\ rotations < MaxRotations /\ rotations' = rotations + 1
      /\ content' = [v \in 0 .. rotations + 1 |-> IF v <= rotations THEN content[v] ELSE c]
      /\ until' = [v \in 0 .. rotations + 1 |->
                      IF v < rotations THEN until[v]
                      ELSE IF v = rotations THEN now ELSE Never]
  BY DEF Rotate, prtg, request
<1>2. rotations \in 0 .. MaxRotations /\ now \in 0 .. MaxTime
      /\ \A v \in 0 .. rotations : content[v] \in Contents /\ until[v] \in 0 .. Never
  BY DEF KInv, TypeOK
<1>3. /\ \A v \in 0 .. rotations : content'[v] = content[v]
      /\ \A v \in 0 .. rotations : v < rotations => until'[v] = until[v]
      /\ until'[rotations] = now /\ until'[rotations + 1] = Never
      /\ content'[rotations + 1] = c
  BY <1>1, <1>2, NumberAssumption
<1>4. TypeOK'
  <2>1. DOMAIN content' = 0 .. rotations' /\ DOMAIN until' = 0 .. rotations'
    BY <1>1
  <2>2. \A v \in 0 .. rotations' : content'[v] \in Contents /\ until'[v] \in 0 .. Never
    BY <1>1, <1>2, NumberAssumption
  <2> QED BY <1>1, <2>1, <2>2, NumberAssumption DEF KInv, TypeOK
<1>5. History'
  BY <1>1, <1>2, <1>3, NumberAssumption DEF KInv, TypeOK, History
<1>6. Cached'
  <2>1. ASSUME cached # None
        PROVE  cached \in 0 .. rotations' /\ content'[cached] = "complete"
               /\ expires <= until'[cached] + Ttl
    <3>1. cached \in 0 .. rotations /\ content[cached] = "complete"
          /\ expires <= until[cached] + Ttl /\ expires <= now + Ttl
      BY <2>1 DEF KInv, Cached
    <3> QED BY <1>1, <1>2, <1>3, <3>1, NumberAssumption
  <2> QED BY <1>1, <2>1 DEF KInv, Cached
<1>7. SentCredentialIsFresh'
  BY <1>1, <1>3 DEF KInv, Cached, SentCredentialIsFresh
<1>8. RotationConverges'
  BY <1>1, <1>2, <1>3, NumberAssumption DEF KInv, TypeOK, History, RotationConverges
<1> QED BY <1>4, <1>5, <1>6, <1>7, <1>8 DEF KInv

\* What ends within a time t of m ends within t of any later moment.
LEMMA Later ==
    ASSUME NEW m \in Nat, NEW n \in Nat, NEW t \in Nat, NEW x \in Nat, m <= n, x <= m + t
    PROVE  x <= n + t
OBVIOUS

\* The rest of the environment's surroundings.
LEMMA SurroundingsStep ==
    ASSUME KInv, Recycle \/ (\E v \in Version : Withdraw(v)) \/ Renew \/ Tick
    PROVE  KInv'
<1> HIDE DEF None, Certificate, Version, Never
<1>1. UNCHANGED <<rotations, content, until, answer>>
  BY DEF Recycle, Withdraw, Renew, Tick, secret, request
<1>2. now' \in 0 .. MaxTime /\ now <= now' /\ now' \in {now, now + 1}
  BY NumberAssumption DEF Recycle, Withdraw, Renew, Tick, secret, KInv, TypeOK
<1>3. withdrawn \subseteq withdrawn' /\ \A v \in withdrawn' : v \in Version /\ v < rotations
  BY DEF Recycle, Withdraw, Renew, Tick, secret, KInv, TypeOK, History
<1>4. \/ /\ cached' = None /\ expires' = 0 /\ pool' = None
         /\ pc' = "idle" /\ since' = 0 /\ attempts' = 0
      \/ /\ cached' = cached /\ expires' = expires /\ pool' = pool
         /\ pc' = pc /\ since' = since /\ attempts' = attempts
  BY DEF Recycle, Withdraw, Renew, Tick, request
<1>5. renewals' \in Certificate /\ renewedAt' \in 0 .. MaxTime
  BY NumberAssumption DEF Recycle, Withdraw, Renew, Tick, prtg, KInv, TypeOK, Certificate
<1>6. TypeOK'
  <2>1. cached' \in Version \union {None} /\ expires' \in Nat
        /\ pool' \in Certificate \union {None}
        /\ pc' \in {"idle", "credentials", "trust", "send"} /\ since' \in 0 .. MaxTime
        /\ attempts' \in 0 .. MaxRetries + 1
    BY <1>4, NumberAssumption DEF KInv, TypeOK
  <2>2. withdrawn' \subseteq Version
    BY <1>3
  <2> QED BY <1>1, <1>2, <1>5, <2>1, <2>2 DEF KInv, TypeOK
<1>7. History' /\ SentCredentialIsFresh' /\ RotationConverges'
  BY <1>1, <1>2, <1>3, <1>4, NumberAssumption
     DEF KInv, TypeOK, History, SentCredentialIsFresh, RotationConverges
<1>8. Cached'
  <2>1. now \in Nat /\ now' \in Nat /\ now <= now' /\ Ttl \in Nat /\ since \in Nat
        /\ expires \in Nat
    BY <1>2, NumberAssumption DEF KInv, TypeOK
  <2>2. CASE cached' = None /\ since' = 0
    BY <2>1, <2>2 DEF Cached
  <2>3. CASE UNCHANGED <<cached, expires, since>>
    <3>1. since' <= now' /\ (cached # None => expires <= now' + Ttl)
      <4>1. since <= now /\ (cached # None => expires <= now + Ttl)
        BY DEF KInv, Cached
      <4>2. since' = since
        BY <2>3
      <4>3. since' <= now'
        <5>1. since <= now
          BY <4>1
        <5> QED BY <2>1, <4>2, <5>1
      <4>4. ASSUME cached # None PROVE expires <= now' + Ttl
        <5>1. expires <= now + Ttl
          BY <4>1, <4>4
        <5> QED BY <2>1, <5>1, Later
      <4> QED BY <4>3, <4>4
    <3>2. cached' = cached /\ expires' = expires /\ until' = until /\ content' = content
          /\ rotations' = rotations
      BY <1>1, <2>3
    <3> QED BY <3>1, <3>2 DEF KInv, Cached
  <2> QED BY <1>4, <2>2, <2>3
<1> QED BY <1>6, <1>7, <1>8 DEF KInv

THEOREM ClientInductive == Spec => []KInv
<1>1. KInv /\ UNCHANGED vars => KInv'
  BY DEF KInv, TypeOK, History, Cached, SentCredentialIsFresh, RotationConverges, vars
<1>2. ASSUME KInv, SecretFails PROVE KInv'
  BY <1>2, AnswerStep DEF SecretFails, Kind
<1>3. ASSUME KInv, Rejected PROVE KInv'
  BY <1>3, AnswerStep DEF Rejected, Kind
<1>4. ASSUME KInv, Answered PROVE KInv'
  BY <1>4, AnswerStep DEF Answered, Kind
<1>5. ASSUME KInv, GiveUp PROVE KInv'
  BY <1>5, AnswerStep DEF GiveUp, Kind
<1>6. KInv /\ [Next]_vars => KInv'
  BY <1>1, <1>2, <1>3, <1>4, <1>5, BeginStep, CredentialsArriveStep, OnItsWayStep,
     RotateStep, SurroundingsStep DEF Next
<1> QED BY <1>6, InitKInv, PTL DEF Spec

\* Every variable of the client and its surroundings keeps its type.
THEOREM ClientTypeCorrect == Spec => []TypeOK
BY ClientInductive, PTL DEF KInv

\* For every TTL and however reads, rotations, withdrawals and retries fall:
\* PRTG refuses a request only for a credential that was the secret's less
\* than a TTL before it began.
THEOREM RotationsConverge == Spec => []RotationConverges
BY ClientInductive, PTL DEF KInv

\* No request is sent with a credential that had expired when it began, or
\* that came from a document that cannot be used.
THEOREM SentCredentialsAreFresh == Spec => []SentCredentialIsFresh
BY ClientInductive, PTL DEF KInv

-----------------------------------------------------------------------------
\* PrtgClient implements LeasedCopy, with one holder that may not put a
\* renewal off.
LEMMA LeaseInitially == Init => Lease!Init
<1> SUFFICES ASSUME Init PROVE Lease!Init
  OBVIOUS
<1>1. Overwritten = [v \in {} |-> 0]
  <2>1. 0 .. rotations - 1 = {}
    BY DEF Init
  <2> QED BY <2>1 DEF Overwritten
<1>2. Reading = [h \in Client |-> Never]
  BY DEF Init, Reading
<1> QED BY <1>1, <1>2 DEF Init, Lease!Init, Copy, Until, PutOff

\* What is read off the client for its one holder.
LEMMA Held ==
    /\ Copy["client"] = cached /\ Until["client"] = expires
    /\ Reading["client"] = IF pc = "credentials" THEN since ELSE Never
BY DEF Copy, Until, Reading, Client

\* The one holder's copy, lease and read change as the client's do.
LEMMA Holding ==
    /\ Copy' = [Copy EXCEPT !["client"] = cached']
    /\ Until' = [Until EXCEPT !["client"] = expires']
    /\ PutOff' = [PutOff EXCEPT !["client"] = FALSE]
    /\ Reading' = [Reading EXCEPT !["client"] = IF pc' = "credentials" THEN since' ELSE Never]
BY DEF Copy, Until, PutOff, Reading, Client

\* Every step of the client, its operator or the clock is one of LeasedCopy,
\* or leaves the lease alone.
LEMMA LeaseStep == KInv /\ [Next]_vars => [Lease!Next]_(Lease!vars)
<1> SUFFICES ASSUME KInv, [Next]_vars PROVE [Lease!Next]_(Lease!vars)
  OBVIOUS
<1>a. /\ now \in 0 .. MaxTime /\ since \in 0 .. MaxTime /\ MaxTime \in Nat
      /\ rotations \in Nat
  BY NumberAssumption DEF KInv, TypeOK
<1>b. PutOff' = PutOff /\ "client" \in Client
  BY DEF PutOff, Client
<1>1. ASSUME UNCHANGED <<now, rotations, until, cached, expires>>,
             (pc' = pc /\ since' = since) \/ "credentials" \notin {pc, pc'}
      PROVE  UNCHANGED Lease!vars
  BY <1>1 DEF Lease!vars, Overwritten, Copy, Until, PutOff, Reading
<1>2. CASE Begin
  <2>1. CASE Fresh /\ AfterCredentials
    <3>1. UNCHANGED Lease!vars
      BY <1>1, <1>2, <2>1 DEF Begin, AfterCredentials, secret
    <3> QED BY <3>1
  <2>2. CASE ~Fresh /\ pc' = "credentials"
    <3>1. UNCHANGED <<now, rotations, Overwritten, Copy, Until>> /\ since' = now
      BY <1>2 DEF Begin, secret, Overwritten, Copy, Until
    <3>2. Reading["client"] = Never /\ ~Lease!Leased("client")
      BY <1>2, <2>2, Held DEF Begin, Fresh, Lease!Leased
    <3>3. Reading' = [Reading EXCEPT !["client"] = now]
      BY <2>2, <3>1, Holding
    <3>4. Lease!StartRead("client")
      BY <1>b, <3>1, <3>2, <3>3 DEF Lease!StartRead, Lease!source
    <3> QED BY <1>b, <3>4 DEF Lease!Next
  <2> QED BY <1>2, <2>1, <2>2 DEF Begin
<1>3. ASSUME pc = "credentials", pc' # "credentials",
             UNCHANGED <<now, rotations, until>>
      PROVE  /\ Reading["client"] = since /\ Reading["client"] # Never
             /\ Reading' = [Reading EXCEPT !["client"] = Never]
             /\ UNCHANGED <<now, rotations, Overwritten>>
  BY <1>3, <1>a, Held, Holding DEF Overwritten
<1>4. CASE CredentialsArrive
  <2>1. pc = "credentials" /\ pc' # "credentials" /\ UNCHANGED <<now, rotations, until>>
    BY <1>4 DEF CredentialsArrive, AfterCredentials, Answer, secret
  <2>2. CASE cached' = rotations /\ expires' = since + Ttl
    <3>1. Lease!Renew("client")
      BY <1>3, <2>1, <2>2, Holding DEF Lease!Renew, Lease!source
    <3> QED BY <1>b, <3>1 DEF Lease!Next
  <2>3. CASE UNCHANGED <<cached, expires>>
    <3>1. Lease!Fail("client")
      BY <1>3, <1>b, <2>1, <2>3 DEF Lease!Fail, Lease!source, Copy, Until
    <3> QED BY <1>b, <3>1 DEF Lease!Next
  <2> QED BY <1>4, <2>2, <2>3 DEF CredentialsArrive
<1>5. CASE SecretFails
  <2>1. pc' # "credentials" /\ UNCHANGED <<now, rotations, until, cached, expires>>
    BY <1>5 DEF SecretFails, Answer, secret
  <2>2. CASE pc = "credentials"
    <3>1. Lease!Fail("client")
      BY <1>3, <1>b, <2>1, <2>2 DEF Lease!Fail, Lease!source, Copy, Until
    <3> QED BY <1>b, <3>1 DEF Lease!Next
  <2>3. CASE pc # "credentials"
    BY <1>1, <2>1, <2>3
  <2> QED BY <2>2, <2>3
<1>6. CASE TrustArrives \/ Rejected \/ Answered \/ Again \/ GiveUp
  BY <1>1, <1>6 DEF TrustArrives, Rejected, Answered, Again, GiveUp, Answer, secret
<1>7. CASE Recycle
  <2>1. UNCHANGED <<now, rotations, Overwritten>>
    BY <1>7 DEF Recycle, secret, Overwritten
  <2>2. Lease!Forget("client")
    BY <1>7, <2>1, Holding DEF Recycle, Lease!Forget, Lease!source
  <2> QED BY <1>b, <2>2 DEF Lease!Next
<1>8. ASSUME NEW c \in Contents, Rotate(c)
      PROVE  Lease!Next
  <2>1. rotations' = rotations + 1
    BY <1>8 DEF Rotate
  <2>2. Overwritten' = [v \in 0 .. rotations |-> IF v = rotations THEN now ELSE Overwritten[v]]
    <3>1. 0 .. rotations' - 1 = 0 .. rotations
      BY <1>a, <2>1
    <3>2. \A v \in 0 .. rotations :
              until'[v] = IF v = rotations THEN now ELSE Overwritten[v]
      BY <1>8, <1>a, <2>1 DEF Rotate, Overwritten
    <3>3. Overwritten' = [v \in 0 .. rotations |-> until'[v]]
      BY <3>1 DEF Overwritten
    <3> QED BY <3>2, <3>3
  <2>3. UNCHANGED <<now, Copy, Until, Reading>>
    BY <1>8 DEF Rotate, request, Copy, Until, Reading
  <2>4. Lease!Overwrite
    BY <1>b, <2>1, <2>2, <2>3 DEF Lease!Overwrite, Lease!holders
  <2> QED BY <2>4 DEF Lease!Next
<1>9. ASSUME (\E v \in Version : Withdraw(v)) \/ Renew
      PROVE  UNCHANGED Lease!vars
  BY <1>1, <1>9 DEF Withdraw, Renew, secret, request
<1>10. CASE Tick
  <2>1. UNCHANGED <<rotations, Overwritten, Copy, Until, Reading>> /\ now' = now + 1
    BY <1>10 DEF Tick, secret, request, Overwritten, Copy, Until, Reading
  <2>2. Lease!Tick
    BY <1>b, <2>1 DEF Lease!Tick, Lease!source, Lease!holders
  <2> QED BY <2>2 DEF Lease!Next
<1>11. CASE UNCHANGED vars
  BY <1>1, <1>11 DEF vars
<1> QED BY <1>2, <1>4, <1>5, <1>6, <1>7, <1>8, <1>9, <1>10, <1>11 DEF Next

\* The credential is a leased copy of the secret whose renewal is never put
\* off, for every TTL and however rotations, reads, failures and recycling
\* fall (_load_credentials).
THEOREM CredentialIsLeased == Spec => ImplementsLease
BY LeaseInitially, LeaseStep, ClientInductive, PTL DEF Spec, ImplementsLease, Lease!Spec
=============================================================================
