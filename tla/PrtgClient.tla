----------------------------- MODULE PrtgClient -----------------------------
(***************************************************************************)
(* prtg_mcp/prtg_client.py in one warm environment of the MCP tool         *)
(* function: the credential cached for a TTL and the connection pool with  *)
(* its trust store, while the operator rotates the credential, withdraws   *)
(* old ones, and renews PRTG's certificate together with the CA bundle.    *)
(*                                                                         *)
(* A Lambda environment serves one call at a time, so what interleaves     *)
(* with a request is the operator, the clock and the recycling of the      *)
(* environment. Renewing the certificate restarts PRTG's web server, so no *)
(* connection made before it survives.                                     *)
(***************************************************************************)
EXTENDS Naturals

CONSTANTS
    Contents,      \* what the operator writes into the secret
    Ttl,           \* PRTG_CREDENTIAL_TTL_SECONDS
    MaxRetries,    \* PRTG_MAX_RETRIES
    VerifyTls,     \* PRTG_VERIFY_TLS
    MaxTime,       \* bound: the clock
    MaxRotations,  \* bound: credentials after the first
    MaxRenewals    \* bound: certificates after the first

\* A secret document the client accepts, or one that is not JSON, lacks the
\* URL or the credential, or has an http:// URL.
ASSUME ContentAssumption == Contents \subseteq {"complete", "unusable"}

ASSUME NumberAssumption ==
    /\ Ttl \in Nat /\ MaxRetries \in Nat /\ MaxTime \in Nat
    /\ MaxRotations \in Nat /\ MaxRenewals \in Nat /\ VerifyTls \in BOOLEAN

Version == 0 .. MaxRotations
Certificate == 0 .. MaxRenewals
None == MaxRotations + MaxRenewals + 1
Never == MaxTime + 1

VARIABLES
    now,        \* time.time()
    rotations,  \* versions the secret has had, less one
    content,    \* content[v]: what version v of the secret says
    until,      \* until[v]: when version v was overwritten
    withdrawn,  \* versions PRTG no longer accepts
    renewals,   \* the certificate PRTG presents, and the CA bundle holds
    renewedAt,  \* when it was renewed last
    cached,     \* _credentials: a version, or None
    expires,    \* its expires_at
    pool,       \* _pool: the certificate its trust store holds, or None
    pc,         \* the step of the request in hand
    since,      \* when the request began
    attempts,   \* attempts sent
    answer      \* how the last request ended, and when it had begun

vars == <<now, rotations, content, until, withdrawn, renewals, renewedAt, cached,
          expires, pool, pc, since, attempts, answer>>
secret == <<rotations, content, until, withdrawn>>
prtg == <<renewals, renewedAt>>
request == <<pc, since, attempts, answer>>

Kind == {"none", "ok", "auth", "tls", "failed"}

TypeOK ==
    /\ now \in 0 .. MaxTime
    /\ rotations \in Version
    /\ DOMAIN content = 0 .. rotations /\ DOMAIN until = 0 .. rotations
    /\ \A v \in 0 .. rotations : content[v] \in Contents /\ until[v] \in 0 .. Never
    /\ withdrawn \subseteq Version
    /\ renewals \in Certificate /\ renewedAt \in 0 .. MaxTime
    /\ cached \in Version \union {None}
    /\ expires \in Nat
    /\ pool \in Certificate \union {None}
    /\ pc \in {"idle", "credentials", "trust", "send"}
    /\ since \in 0 .. MaxTime
    /\ attempts \in 0 .. MaxRetries + 1
    /\ answer \in [kind : Kind, began : 0 .. MaxTime]

Init ==
    /\ now = 0
    /\ rotations = 0
    /\ content \in [{0} -> Contents]
    /\ until = [v \in {0} |-> Never]
    /\ withdrawn = {}
    /\ renewals = 0 /\ renewedAt = 0
    /\ cached = None /\ expires = 0 /\ pool = None
    /\ pc = "idle" /\ since = 0 /\ attempts = 0
    /\ answer = [kind |-> "none", began |-> 0]

-----------------------------------------------------------------------------
Fresh == cached # None /\ now < expires

\* request returns or raises; what it has cached stays.
Answer(kind) ==
    /\ answer' = [kind |-> kind, began |-> since]
    /\ pc' = "idle"
    /\ since' = 0 /\ attempts' = 0

\* With credentials in hand, the pool is created on first use: its CA bundle
\* is read, unless verification is off.
AfterCredentials ==
    pc' = IF pool = None /\ VerifyTls THEN "trust" ELSE "send"

\* request is entered: the cached credential is used while it is fresh.
Begin ==
    /\ pc = "idle"
    /\ since' = now
    /\ \/ Fresh /\ AfterCredentials
       \/ ~Fresh /\ pc' = "credentials"
    /\ UNCHANGED <<now, secret, prtg, cached, expires, pool, attempts, answer>>

\* Mutant of CredentialsArrive: the credential is kept until one fails.
CredentialsArriveForGood ==
    /\ pc = "credentials" /\ content[rotations] = "complete"
    /\ cached' = rotations
    /\ expires' = Never
    /\ AfterCredentials
    /\ UNCHANGED <<now, secret, prtg, pool, since, attempts, answer>>

\* GetSecretValue returns the secret as it stands. A document that cannot be
\* used is an error and leaves the cache alone. The expiry counts from the
\* time the request began.
CredentialsArrive ==
    /\ pc = "credentials"
    /\ \/ /\ content[rotations] = "complete"
          /\ cached' = rotations
          /\ expires' = since + Ttl
          /\ AfterCredentials
          /\ UNCHANGED <<since, attempts, answer>>
       \/ /\ content[rotations] = "unusable"
          /\ Answer("failed")
          /\ UNCHANGED <<cached, expires>>
    /\ UNCHANGED <<now, secret, prtg, pool>>

\* Mutant of SecretFails: an expired credential is used on, as the router
\* uses an expired table on.
SecretFailsServingStale ==
    /\ pc = "credentials"
    /\ \/ cached # None /\ AfterCredentials /\ UNCHANGED <<since, attempts, answer>>
       \/ cached = None /\ Answer("failed")
    /\ UNCHANGED <<now, secret, prtg, cached, expires, pool>>

\* GetSecretValue raises, for the credential or for the CA bundle. Unlike the
\* router's table, an expired credential is not used on.
SecretFails ==
    /\ pc \in {"credentials", "trust"}
    /\ Answer("failed")
    /\ UNCHANGED <<now, secret, prtg, cached, expires, pool>>

\* The CA bundle arrives and the pool is built from it.
TrustArrives ==
    /\ pc = "trust"
    /\ pool' = renewals
    /\ pc' = "send"
    /\ UNCHANGED <<now, secret, prtg, cached, expires, since, attempts, answer>>

\* PRTG's certificate is not the one the pool trusts.
Untrusted == VerifyTls /\ pool # renewals

\* An attempt reaches PRTG, which refuses a credential it no longer accepts:
\* 401 and 403 are not among the statuses that are retried.
Rejected ==
    /\ pc = "send" /\ ~Untrusted /\ cached \in withdrawn
    /\ Answer("auth")
    /\ UNCHANGED <<now, secret, prtg, cached, expires, pool>>

\* It answers, with a result, a 404, a page that is not JSON, or a status
\* that is not retried or was retried too often.
Answered ==
    /\ pc = "send" /\ ~Untrusted /\ cached \notin withdrawn
    /\ \E kind \in {"ok", "failed"} : Answer(kind)
    /\ UNCHANGED <<now, secret, prtg, cached, expires, pool>>

\* Mutant of Again: the attempts are not limited.
AgainForever ==
    /\ pc = "send"
    /\ attempts' = attempts + 1
    /\ UNCHANGED <<now, secret, prtg, cached, expires, pool, pc, since, answer>>

\* An attempt fails and is sent again: no connection, no certificate the pool
\* trusts, no answer in time, or 429 or 5xx.
Again ==
    /\ pc = "send" /\ attempts < MaxRetries
    /\ attempts' = attempts + 1
    /\ UNCHANGED <<now, secret, prtg, cached, expires, pool, pc, since, answer>>

\* Or was the last, and MaxRetryError is answered by its cause.
GiveUp ==
    /\ pc = "send" /\ attempts = MaxRetries
    /\ \/ Untrusted /\ Answer("tls")
       \/ Answer("failed")
    /\ UNCHANGED <<now, secret, prtg, cached, expires, pool>>

\* The environment is recycled, or the invocation is cut off.
Recycle ==
    /\ cached' = None /\ expires' = 0 /\ pool' = None
    /\ pc' = "idle" /\ since' = 0 /\ attempts' = 0
    /\ UNCHANGED <<now, secret, prtg, answer>>

\* The operator writes a new credential into the secret, and withdraws an
\* old one in PRTG.
Rotate(c) ==
    /\ rotations < MaxRotations
    /\ rotations' = rotations + 1
    /\ content' = [v \in 0 .. rotations + 1 |-> IF v <= rotations THEN content[v] ELSE c]
    /\ until' = [v \in 0 .. rotations + 1 |->
                    IF v < rotations THEN until[v] ELSE IF v = rotations THEN now ELSE Never]
    /\ UNCHANGED <<now, withdrawn, prtg, cached, expires, pool, request>>

Withdraw(v) ==
    /\ v < rotations
    /\ withdrawn' = withdrawn \union {v}
    /\ UNCHANGED <<now, rotations, content, until, prtg, cached, expires, pool, request>>

\* PRTG gets a new certificate and the CA bundle secret its issuer.
Renew ==
    /\ renewals < MaxRenewals
    /\ renewals' = renewals + 1
    /\ renewedAt' = now
    /\ UNCHANGED <<now, secret, cached, expires, pool, request>>

Tick ==
    /\ now < MaxTime
    /\ now' = now + 1
    /\ UNCHANGED <<secret, prtg, cached, expires, pool, request>>

Next ==
    \/ Begin \/ CredentialsArrive \/ SecretFails \/ TrustArrives
    \/ Rejected \/ Answered \/ Again \/ GiveUp \/ Recycle
    \/ \E c \in Contents : Rotate(c)
    \/ \E v \in Version : Withdraw(v)
    \/ Renew \/ Tick

Spec == Init /\ [][Next]_vars

-----------------------------------------------------------------------------
\* "Rotation converges on its own within PRTG_CREDENTIAL_TTL_SECONDS": PRTG
\* refuses a request only for a credential that was the secret's less than a
\* Ttl before the request began, however the reads, the rotations and the
\* retries fell.
RotationConverges ==
    answer.kind = "auth" =>
        \E v \in withdrawn : until[v] + Ttl >= answer.began

\* What is sent is a credential from a complete document, and was fresh when
\* the request began: neither a failed read nor a bad document lets an old
\* one pass, nor is a bad document remembered.
SentCredentialIsFresh ==
    pc \in {"trust", "send"} =>
        cached # None /\ content[cached] = "complete" /\ since <= expires

\* "Credentials and the TLS trust store are resolved on first use and
\* refreshed on expiry": verification fails only within a Ttl of a renewal.
TrustConverges ==
    answer.kind = "tls" => renewedAt + Ttl >= answer.began

\* The cached credential as a leased copy of the secret.
Client == {"client"}
Overwritten == [v \in 0 .. rotations - 1 |-> until[v]]
Copy == [h \in Client |-> cached]
Until == [h \in Client |-> expires]
PutOff == [h \in Client |-> FALSE]
Reading == [h \in Client |-> IF pc = "credentials" THEN since ELSE Never]

Lease == INSTANCE LeasedCopy WITH
    Holder <- Client, NoCopy <- None, NoRead <- Never, Term <- Ttl, Grace <- 0,
    MayPutOff <- FALSE, latest <- rotations, overwritten <- Overwritten, copy <- Copy,
    lease <- Until, putOff <- PutOff, reading <- Reading

\* Whatever happens to a request, the credential is held as LeasedCopy allows
\* to one who may not put a renewal off: _load_credentials reads again when
\* the lease is over and not before, the lease counts from the beginning of
\* the request, and a read that fails does not extend it.
ImplementsLease == Lease!Spec
=============================================================================
