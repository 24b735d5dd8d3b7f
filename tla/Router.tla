------------------------------- MODULE Router -------------------------------
(***************************************************************************)
(* alarm_pipeline/routing.py: every warm environment has a Router, and in  *)
(* fan-out mode each Router caches the routing table it last read from the *)
(* SSM parameter. Operators edit the parameter meanwhile, reads fail, and  *)
(* an edit may be unusable.                                                *)
(***************************************************************************)
EXTENDS Naturals

CONSTANTS
    Env,           \* Lambda execution environments
    Route,         \* the keys a table may have, DefaultRoute among them
    DefaultRoute,  \* DEFAULT_ROUTE_KEY
    NoName,        \* an empty group, probe or device prefix
    Space,         \* Agent Spaces
    NoSpace,       \* an entry with neither agentSpaceId nor space
    NotDict,       \* an entry that is not a JSON object
    Alarms,        \* alarms, as <<group, probe, device prefix>>
    Contents,      \* what operators write into the parameter
    NoTable,       \* content that is not JSON, or JSON but no object
    Modes,         \* configurations, see mode below
    Ttl,           \* ROUTING_TTL_SECONDS
    StaleRetry,    \* the 30 s a table is served on after a failed refresh
    MaxTime,       \* bound: the clock
    MaxEdits       \* bound: edits to the parameter

Entry == Space \union {NoSpace, NotDict}

\* A JSON object: some keys, each with an entry.
Tables == UNION {[keys -> Entry] : keys \in SUBSET Route}

ASSUME NameAssumption ==
    /\ DefaultRoute \in Route /\ NoName \notin Route
    /\ Alarms \subseteq
           ((Route \union {NoName}) \X (Route \union {NoName}) \X (Route \union {NoName}))

ASSUME TimeAssumption ==
    /\ Ttl \in Nat /\ StaleRetry \in Nat
    /\ MaxTime \in Nat /\ MaxEdits \in 0 .. MaxTime

ASSUME ContentAssumption == Contents \subseteq Tables \union {NoTable}

Version == 0 .. MaxEdits
Never == MaxTime + 1
Kind == {"Target", "RoutingError", "AttributeError"}

VARIABLES
    now,      \* time.time()
    mode,     \* "fanout", "single", or "unset": neither setting is there
    edits,    \* versions the parameter has had so far, less one
    content,  \* content[v]: what version v of the parameter says
    until,    \* until[v]: when version v was overwritten
    table,    \* table[e]: the version e has cached, or Never for none
    expires,  \* expires[e]: _table_expires_at
    stale,    \* stale[e]: that expiry was set by a failed refresh
    asked,    \* asked[e]: the alarm e is reading the table for, or <<>>
    since,    \* since[e]: when it began to read
    answer    \* what resolve did in the last step: kind, alarm, and whether
              \* a failed read explains it

vars == <<now, mode, edits, content, until, table, expires, stale, asked, since, answer>>
world == <<mode, edits, content, until>>

Answer == [kind : Kind \union {"none"}, alarm : Alarms \union {<<>>}, excused : BOOLEAN]
NoAnswer == [kind |-> "none", alarm |-> <<>>, excused |-> FALSE]

TypeOK ==
    /\ now \in 0 .. MaxTime
    /\ mode \in Modes
    /\ edits \in Version
    /\ DOMAIN content = 0 .. edits /\ DOMAIN until = 0 .. edits
    /\ \A v \in 0 .. edits : content[v] \in Contents /\ until[v] \in 0 .. Never
    /\ table \in [Env -> Version \union {Never}]
    /\ expires \in [Env -> Nat]
    /\ stale \in [Env -> BOOLEAN]
    /\ asked \in [Env -> Alarms \union {<<>>}]
    /\ since \in [Env -> 0 .. MaxTime]
    /\ answer \in Answer

Init ==
    /\ now = 0
    /\ mode \in Modes
    /\ edits = 0
    /\ content \in [{0} -> Contents]
    /\ until = [v \in {0} |-> Never]
    /\ table = [e \in Env |-> Never]
    /\ expires = [e \in Env |-> 0]
    /\ stale = [e \in Env |-> FALSE]
    /\ asked = [e \in Env |-> <<>>]
    /\ since = [e \in Env |-> 0]
    /\ answer = NoAnswer

-----------------------------------------------------------------------------
IsTable(c) == c # NoTable

\* The route resolve takes for alarm a in table t: the first of group, probe
\* and device prefix the table has, or the default. NoName when there is none.
MatchedRoute(t, a) ==
    LET explicit == {i \in 1 .. 3 : a[i] # NoName /\ a[i] \in DOMAIN t}
    IN  IF explicit # {}
        THEN a[CHOOSE i \in explicit : \A k \in explicit : i <= k]
        ELSE IF DefaultRoute \in DOMAIN t THEN DefaultRoute ELSE NoName

\* Mutant of Lookup: an alarm without a route gets no target and no error.
LookupQuietly(t, a) ==
    LET r == MatchedRoute(t, a)
    IN  IF r = NoName THEN "None"
        ELSE IF t[r] \in Space THEN "Target" ELSE "RoutingError"

\* resolve with the table in hand, _to_target included: an entry without a
\* space is a RoutingError, and one that is no object has no get method.
Lookup(t, a) ==
    LET r == MatchedRoute(t, a)
    IN  CASE r = NoName -> "RoutingError"
          [] r # NoName /\ t[r] = NoSpace -> "RoutingError"
          [] r # NoName /\ t[r] = NotDict -> "AttributeError"
          [] r # NoName /\ t[r] \in Space -> "Target"

Respond(kind, a, excused) ==
    answer' = [kind |-> kind, alarm |-> a, excused |-> excused]

\* Single-target mode: the setting decides, and nothing is read.
ResolveSingle(e, a) ==
    /\ mode # "fanout"
    /\ Respond(IF mode = "single" THEN "Target" ELSE "RoutingError", a, FALSE)
    /\ UNCHANGED <<now, world, table, expires, stale, asked, since>>

\* Mutant of ResolveCached: a cached table is served for ever.
ResolveCachedForever(e, a) ==
    /\ mode = "fanout" /\ asked[e] = <<>>
    /\ table[e] # Never
    /\ Respond(Lookup(content[table[e]], a), a, stale[e])
    /\ UNCHANGED <<now, world, table, expires, stale, asked, since>>

\* The cached table has not expired.
ResolveCached(e, a) ==
    /\ mode = "fanout" /\ asked[e] = <<>>
    /\ table[e] # Never /\ now < expires[e]
    /\ Respond(Lookup(content[table[e]], a), a, stale[e])
    /\ UNCHANGED <<now, world, table, expires, stale, asked, since>>

\* It has, or there is none: GetParameter is called.
StartRead(e, a) ==
    /\ mode = "fanout" /\ asked[e] = <<>>
    /\ table[e] = Never \/ now >= expires[e]
    /\ asked' = [asked EXCEPT ![e] = a]
    /\ since' = [since EXCEPT ![e] = now]
    /\ answer' = NoAnswer
    /\ UNCHANGED <<now, world, table, expires, stale>>

\* Mutant of ReadReturns: the table lives from when the answer arrived.
ReadReturnsLateExpiry(e) ==
    /\ asked[e] # <<>> /\ IsTable(content[edits])
    /\ Respond(Lookup(content[edits], asked[e]), asked[e], FALSE)
    /\ table' = [table EXCEPT ![e] = edits]
    /\ expires' = [expires EXCEPT ![e] = now + Ttl + 1]
    /\ stale' = [stale EXCEPT ![e] = FALSE]
    /\ asked' = [asked EXCEPT ![e] = <<>>]
    /\ since' = [since EXCEPT ![e] = 0]
    /\ UNCHANGED <<now, world>>

\* GetParameter returns the parameter as it stands. The expiry counts from
\* the time the read began. Content that is no table is a RoutingError even
\* when an expired table is at hand, and leaves cache and expiry alone.
ReadReturns(e) ==
    /\ asked[e] # <<>>
    /\ asked' = [asked EXCEPT ![e] = <<>>]
    /\ \/ /\ IsTable(content[edits])
          /\ Respond(Lookup(content[edits], asked[e]), asked[e], FALSE)
          /\ table' = [table EXCEPT ![e] = edits]
          /\ expires' = [expires EXCEPT ![e] = since[e] + Ttl]
          /\ stale' = [stale EXCEPT ![e] = FALSE]
       \/ /\ ~IsTable(content[edits])
          /\ Respond("RoutingError", asked[e], FALSE)
          /\ UNCHANGED <<table, expires, stale>>
    /\ since' = [since EXCEPT ![e] = 0]
    /\ UNCHANGED <<now, world>>

\* Mutants of ReadFails: a failed refresh gives the old table another Ttl; a
\* failed refresh fails the alarm, table or no table.
ReadFailsRenewing(e) ==
    /\ asked[e] # <<>> /\ table[e] # Never
    /\ asked' = [asked EXCEPT ![e] = <<>>]
    /\ Respond(Lookup(content[table[e]], asked[e]), asked[e], TRUE)
    /\ expires' = [expires EXCEPT ![e] = since[e] + Ttl]
    /\ stale' = [stale EXCEPT ![e] = TRUE]
    /\ since' = [since EXCEPT ![e] = 0]
    /\ UNCHANGED <<now, world, table>>
ReadFailsHard(e) ==
    /\ asked[e] # <<>>
    /\ asked' = [asked EXCEPT ![e] = <<>>]
    /\ Respond("RoutingError", asked[e], TRUE)
    /\ since' = [since EXCEPT ![e] = 0]
    /\ UNCHANGED <<now, world, table, expires, stale>>

\* GetParameter raises: an expired table is served on, and another read is
\* put off; without one it is a RoutingError.
ReadFails(e) ==
    /\ asked[e] # <<>>
    /\ asked' = [asked EXCEPT ![e] = <<>>]
    /\ \/ /\ table[e] # Never
          /\ Respond(Lookup(content[table[e]], asked[e]), asked[e], TRUE)
          /\ expires' = [expires EXCEPT ![e] = since[e] + StaleRetry]
          /\ stale' = [stale EXCEPT ![e] = TRUE]
       \/ /\ table[e] = Never
          /\ Respond("RoutingError", asked[e], TRUE)
          /\ UNCHANGED <<expires, stale>>
    /\ since' = [since EXCEPT ![e] = 0]
    /\ UNCHANGED <<now, world, table>>

\* The environment is recycled, or its invocation is cut off at the timeout.
Recycle(e) ==
    /\ table' = [table EXCEPT ![e] = Never]
    /\ expires' = [expires EXCEPT ![e] = 0]
    /\ stale' = [stale EXCEPT ![e] = FALSE]
    /\ asked' = [asked EXCEPT ![e] = <<>>]
    /\ since' = [since EXCEPT ![e] = 0]
    /\ answer' = NoAnswer
    /\ UNCHANGED <<now, world>>

\* An operator overwrites the parameter.
Edit(c) ==
    /\ mode = "fanout"
    /\ edits < MaxEdits
    /\ edits' = edits + 1
    /\ content' = [v \in 0 .. edits + 1 |-> IF v <= edits THEN content[v] ELSE c]
    /\ until' = [v \in 0 .. edits + 1 |->
                    IF v < edits THEN until[v] ELSE IF v = edits THEN now ELSE Never]
    /\ answer' = NoAnswer
    /\ UNCHANGED <<now, mode, table, expires, stale, asked, since>>

Tick ==
    /\ now < MaxTime
    /\ now' = now + 1
    /\ answer' = NoAnswer
    /\ UNCHANGED <<world, table, expires, stale, asked, since>>

Next ==
    \/ \E e \in Env : ReadReturns(e) \/ ReadFails(e) \/ Recycle(e)
    \/ \E e \in Env, a \in Alarms :
           ResolveSingle(e, a) \/ ResolveCached(e, a) \/ StartRead(e, a)
    \/ \E c \in Contents : Edit(c)
    \/ Tick

Spec == Init /\ [][Next]_vars

-----------------------------------------------------------------------------
\* Version v was in force at some time in the Ttl before t.
InForceWithin(v, t) == v <= edits /\ until[v] + Ttl >= t

\* "The routing table is re-read on a TTL, so once an operator fixes the
\* entry a redrive succeeds": an alarm fails only if, in the Ttl before its
\* answer, the parameter said something that fails it, or a read failed.
\* The table that failed it may be long gone from the parameter, cached in
\* this environment alone, and read before the last edit.
FixTakesEffect ==
    /\ mode = "fanout" /\ ~answer.excused
    /\ answer.kind \in {"RoutingError", "AttributeError"}
    => \E v \in Version :
           /\ InForceWithin(v, now)
           /\ \/ ~IsTable(content[v])
              \/ Lookup(content[v], answer.alarm) = answer.kind

\* Every environment follows the parameter within a Ttl: none routes by a
\* table that was overwritten longer ago, unless a failed refresh keeps it
\* alive, so two of them disagree for no longer either.
EnvironmentsConverge ==
    \A e \in Env :
        table[e] # Never /\ now < expires[e] /\ ~stale[e]
        => now < until[table[e]] + Ttl

\* "A transient SSM problem should not stop investigations being created":
\* while an environment holds a table that routes the alarm, a read that
\* fails does not fail the alarm.
OutageKeepsRouting ==
    [][\A e \in Env :
          /\ asked[e] # <<>> /\ asked'[e] = <<>>
          /\ table[e] # Never /\ table'[e] # Never /\ answer'.excused
          /\ Lookup(content[table[e]], asked[e]) = "Target"
          => answer'.kind = "Target"]_vars

\* The tables of the environments as leased copies of the parameter.
Overwritten == [v \in 0 .. edits - 1 |-> until[v]]
Reading == [e \in Env |-> IF asked[e] = <<>> THEN Never ELSE since[e]]

Leases == INSTANCE LeasedCopy WITH
    Holder <- Env, NoCopy <- Never, NoRead <- Never, Term <- Ttl, Grace <- StaleRetry,
    MayPutOff <- TRUE, latest <- edits, overwritten <- Overwritten, copy <- table,
    lease <- expires, putOff <- stale, reading <- Reading

\* Whatever resolve does, environments hold their tables as LeasedCopy allows:
\* a table is read again when its lease is over and not before, the lease
\* counts from the beginning of the read, and a read that fails puts the next
\* one off by StaleRetry at most (_load_table).
ImplementsLeases == Leases!Spec
=============================================================================
