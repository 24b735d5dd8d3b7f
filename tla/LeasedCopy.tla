----------------------------- MODULE LeasedCopy -----------------------------
(***************************************************************************)
(* What a cache with a TTL promises, with no parameters, secrets, alarms   *)
(* or requests in sight: holders keep copies of a source that is           *)
(* overwritten now and then, each on a lease, and renew a copy only when   *)
(* its lease is over. A holder may be allowed to put a renewal off when    *)
(* reading the source fails. Router is shown to implement this with, and   *)
(* PrtgClient without that permission.                                     *)
(***************************************************************************)
EXTENDS Naturals

CONSTANTS
    Holder,     \* who keeps copies
    NoCopy,     \* a holder has none
    NoRead,     \* a holder is not reading
    Term,       \* the length of a lease
    Grace,      \* the length of one that was put off
    MayPutOff   \* whether a failed read extends the lease of an old copy

VARIABLES
    now,          \* the time
    latest,       \* the version of the source in force; versions count from 0
    overwritten,  \* overwritten[v]: when version v, older than latest, ended
    copy,         \* copy[h]: the version h has, or NoCopy
    lease,        \* lease[h]: when the lease on it is over
    putOff,       \* putOff[h]: that lease was extended by a failed read
    reading       \* reading[h]: when the read h is waiting for began, or NoRead

vars == <<now, latest, overwritten, copy, lease, putOff, reading>>
source == <<latest, overwritten>>
holders == <<copy, lease, putOff, reading>>

Leased(h) == copy[h] # NoCopy /\ now < lease[h]

Init ==
    /\ now = 0 /\ latest = 0
    /\ overwritten = [v \in {} |-> 0]
    /\ copy = [h \in Holder |-> NoCopy]
    /\ lease = [h \in Holder |-> 0]
    /\ putOff = [h \in Holder |-> FALSE]
    /\ reading = [h \in Holder |-> NoRead]

\* The source gets a new version.
Overwrite ==
    /\ latest' = latest + 1
    /\ overwritten' = [v \in 0 .. latest |-> IF v = latest THEN now ELSE overwritten[v]]
    /\ UNCHANGED <<now, holders>>

\* A holder reads the source, though only without a lease.
StartRead(h) ==
    /\ ~Leased(h) /\ reading[h] = NoRead
    /\ reading' = [reading EXCEPT ![h] = now]
    /\ UNCHANGED <<now, source, copy, lease, putOff>>

\* It gets the version in force, on a lease from when it began to read.
Renew(h) ==
    /\ reading[h] # NoRead
    /\ copy' = [copy EXCEPT ![h] = latest]
    /\ lease' = [lease EXCEPT ![h] = reading[h] + Term]
    /\ putOff' = [putOff EXCEPT ![h] = FALSE]
    /\ reading' = [reading EXCEPT ![h] = NoRead]
    /\ UNCHANGED <<now, source>>

\* It gets nothing, and keeps the copy it may have as it was.
Fail(h) ==
    /\ reading[h] # NoRead
    /\ reading' = [reading EXCEPT ![h] = NoRead]
    /\ UNCHANGED <<now, source, copy, lease, putOff>>

\* It gets nothing, and uses the old copy on for a while.
PutOff(h) ==
    /\ MayPutOff /\ reading[h] # NoRead /\ copy[h] # NoCopy
    /\ lease' = [lease EXCEPT ![h] = reading[h] + Grace]
    /\ putOff' = [putOff EXCEPT ![h] = TRUE]
    /\ reading' = [reading EXCEPT ![h] = NoRead]
    /\ UNCHANGED <<now, source, copy>>

\* A holder forgets what it has.
Forget(h) ==
    /\ copy' = [copy EXCEPT ![h] = NoCopy]
    /\ lease' = [lease EXCEPT ![h] = 0]
    /\ putOff' = [putOff EXCEPT ![h] = FALSE]
    /\ reading' = [reading EXCEPT ![h] = NoRead]
    /\ UNCHANGED <<now, source>>

Tick == now' = now + 1 /\ UNCHANGED <<source, holders>>

Next ==
    \/ \E h \in Holder : StartRead(h) \/ Renew(h) \/ Fail(h) \/ PutOff(h) \/ Forget(h)
    \/ Overwrite
    \/ Tick

Spec == Init /\ [][Next]_vars

-----------------------------------------------------------------------------
TypeOK ==
    /\ now \in Nat /\ latest \in Nat
    /\ overwritten \in [0 .. latest - 1 -> 0 .. now]
    /\ copy \in [Holder -> (0 .. latest) \union {NoCopy}]
    /\ lease \in [Holder -> Nat]
    /\ putOff \in [Holder -> BOOLEAN]
    /\ reading \in [Holder -> (0 .. now) \union {NoRead}]

\* A copy on a lease is of a version that was in force within the last Term,
\* or its renewal was put off. Two holders differ for no longer than that.
Recent ==
    \A h \in Holder :
        Leased(h) /\ ~putOff[h] =>
            copy[h] = latest \/ now < overwritten[copy[h]] + Term

\* Putting off is for those who may, and never for longer than Grace.
PutOffBriefly ==
    \A h \in Holder : putOff[h] => MayPutOff /\ lease[h] <= now + Grace

\* No holder goes back to an older version than it has.
NeverBack ==
    [][\A h \in Holder :
          copy[h] # NoCopy /\ copy'[h] # NoCopy => copy[h] <= copy'[h]]_vars
=============================================================================
