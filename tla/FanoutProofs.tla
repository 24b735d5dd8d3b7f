---------------------------- MODULE FanoutProofs ----------------------------
(***************************************************************************)
(* Router and Fanout for every set of environments, routes, tables and     *)
(* roles, every TTL and every bound: routing decides by a table that was   *)
(* in force within the TTL, and requests go where it said.                 *)
(***************************************************************************)
EXTENDS Fanout, TLAPS

\* What a cached table and its expiry owe to the parameter.
CacheInv ==
    /\ until[edits] = Never
    /\ \A e \in Env :
        /\ since[e] <= now
        /\ table[e] # Never =>
               table[e] \in 0 .. edits /\ IsTable(content[table[e]])
        /\ table[e] # Never /\ ~stale[e] =>
               expires[e] <= now + Ttl /\ expires[e] <= until[table[e]] + Ttl
        /\ stale[e] => expires[e] <= now + StaleRetry

RouterInv == TypeOK /\ CacheInv

\* The route of an alarm is a key of the table, or there is none.
LEMMA MatchedRouteIsKey ==
    ASSUME NEW t, NEW a \in Alarms
    PROVE  MatchedRoute(t, a) = NoName \/ MatchedRoute(t, a) \in DOMAIN t
<1> DEFINE explicit == {i \in 1 .. 3 : a[i] # NoName /\ a[i] \in DOMAIN t}
<1>1. CASE explicit # {}
  <2>1. \E i \in explicit : \A k \in explicit : i <= k
    <3>1. explicit \subseteq {1, 2, 3}
      OBVIOUS
    <3> QED BY <1>1, <3>1
  <2>2. (CHOOSE i \in explicit : \A k \in explicit : i <= k) \in explicit
    BY <2>1
  <2> QED BY <1>1, <2>2 DEF MatchedRoute
<1>2. CASE explicit = {}
  BY <1>2 DEF MatchedRoute
<1> QED BY <1>1, <1>2

\* Looking an alarm up in a table gives one of the three kinds of answer, and
\* a target only where the table has one.
LEMMA LookupKinds ==
    ASSUME NEW t \in Contents, IsTable(t), NEW a \in Alarms
    PROVE  /\ Lookup(t, a) \in Kind
           /\ Lookup(t, a) = "Target" => EntryFor(t, a) \in Space
<1>1. PICK keys \in SUBSET Route : t \in [keys -> Entry]
  BY ContentAssumption DEF IsTable, Tables
<1>2. MatchedRoute(t, a) # NoName => t[MatchedRoute(t, a)] \in Entry
  BY <1>1, MatchedRouteIsKey
<1> QED BY <1>2 DEF Lookup, EntryFor, Entry, Kind

LEMMA RouterInitially == Init => RouterInv
<1> SUFFICES ASSUME Init PROVE RouterInv
  OBVIOUS
<1> USE DEF Init
<1>1. DOMAIN content = 0 .. edits /\ DOMAIN until = 0 .. edits
  OBVIOUS
<1>2. TypeOK
  BY <1>1, TimeAssumption DEF TypeOK, Version, Never, Answer, NoAnswer, Kind
<1>3. CacheInv
  BY TimeAssumption DEF CacheInv, Never
<1> QED BY <1>2, <1>3 DEF RouterInv

\* Answering an alarm leaves the type of the answer right.
LEMMA RespondType ==
    ASSUME NEW kind \in Kind, NEW a \in Alarms, NEW excused \in BOOLEAN,
           Respond(kind, a, excused)
    PROVE  answer' \in Answer
BY DEF Respond, Answer

LEMMA RouterStep == RouterInv /\ [Next]_vars => RouterInv'
<1> SUFFICES ASSUME RouterInv, [Next]_vars PROVE RouterInv'
  OBVIOUS
<1> USE DEF RouterInv
<1>a. asked \in [Env -> Alarms \union {<<>>}] /\ now \in Nat /\ Ttl \in Nat /\ StaleRetry \in Nat
  BY TimeAssumption DEF TypeOK
<1>b. /\ table \in [Env -> Version \union {Never}] /\ expires \in [Env -> Nat]
      /\ stale \in [Env -> BOOLEAN] /\ since \in [Env -> 0 .. MaxTime] /\ 0 \in 0 .. MaxTime
  BY TimeAssumption DEF TypeOK
<1>1. ASSUME NEW e \in Env, NEW a \in Alarms, ResolveSingle(e, a)
      PROVE  RouterInv'
  <2>1. answer' \in Answer
    BY <1>1 DEF ResolveSingle, Respond, Answer, Kind
  <2> QED BY <1>1, <2>1 DEF ResolveSingle, TypeOK, CacheInv, world
<1>2. ASSUME NEW e \in Env, NEW a \in Alarms, ResolveCached(e, a)
      PROVE  RouterInv'
  <2>1. Lookup(content[table[e]], a) \in Kind
    BY <1>2, LookupKinds DEF ResolveCached, CacheInv, TypeOK
  <2>2. answer' \in Answer
    BY <1>2, <2>1, RespondType DEF ResolveCached, TypeOK
  <2> QED BY <1>2, <2>2 DEF ResolveCached, TypeOK, CacheInv, world
<1>3. ASSUME NEW e \in Env, NEW a \in Alarms, StartRead(e, a)
      PROVE  RouterInv'
  BY <1>3 DEF StartRead, TypeOK, CacheInv, world, Answer, NoAnswer
<1>4. ASSUME NEW e \in Env, ReadReturns(e)
      PROVE  RouterInv'
  <2>1. asked[e] \in Alarms /\ content[edits] \in Contents /\ edits \in 0 .. edits
        /\ edits \in Version
    BY <1>4, TimeAssumption DEF ReadReturns, TypeOK, Version
  <2>2. answer' \in Answer
    BY <1>4, <2>1, LookupKinds, RespondType DEF ReadReturns, Kind
  <2>3. since[e] + Ttl \in Nat /\ since[e] <= now /\ since[e] <= until[edits]
    BY <1>a, TimeAssumption DEF TypeOK, CacheInv, Never
  <2>4. /\ table' \in [Env -> Version \union {Never}] /\ expires' \in [Env -> Nat]
        /\ stale' \in [Env -> BOOLEAN] /\ asked' \in [Env -> Alarms \union {<<>>}]
        /\ since' \in [Env -> 0 .. MaxTime]
    <3>1. asked' \in [Env -> Alarms \union {<<>>}] /\ since' \in [Env -> 0 .. MaxTime]
      BY <1>4, <1>a, <1>b DEF ReadReturns
    <3>2. CASE IsTable(content[edits])
      <4>1. table' = [table EXCEPT ![e] = edits] /\ table' \in [Env -> Version \union {Never}]
        BY <1>4, <1>b, <2>1, <3>2 DEF ReadReturns
      <4>2. expires' \in [Env -> Nat] /\ stale' \in [Env -> BOOLEAN]
        BY <1>4, <1>b, <2>3, <3>2 DEF ReadReturns
      <4> QED BY <3>1, <4>1, <4>2
    <3>3. CASE ~IsTable(content[edits])
      BY <1>4, <1>b, <3>1, <3>3 DEF ReadReturns
    <3> QED BY <3>2, <3>3
  <2>5. UNCHANGED <<now, mode, edits, content, until>>
    BY <1>4 DEF ReadReturns, world
  <2>6. TypeOK'
    BY <2>2, <2>4, <2>5 DEF TypeOK
  <2>7. CacheInv'
    <3> SUFFICES ASSUME NEW x \in Env
                 PROVE  /\ since'[x] <= now
                        /\ table'[x] # Never =>
                               table'[x] \in 0 .. edits /\ IsTable(content[table'[x]])
                        /\ table'[x] # Never /\ ~stale'[x] =>
                               /\ expires'[x] <= now + Ttl
                               /\ expires'[x] <= until[table'[x]] + Ttl
                        /\ stale'[x] => expires'[x] <= now + StaleRetry
      BY <2>5 DEF CacheInv
    <3>1. since'[x] <= now
      BY <1>4, <1>a DEF ReadReturns, TypeOK, CacheInv
    <3>2. CASE x = e /\ IsTable(content[edits])
      <4>1. /\ table'[x] = edits /\ expires'[x] = since[e] + Ttl /\ ~stale'[x]
        BY <1>4, <3>2 DEF ReadReturns, TypeOK
      <4>2. /\ since[e] \in Nat /\ until[edits] \in Nat
            /\ since[e] <= now /\ since[e] <= until[edits]
        BY <2>3, TimeAssumption DEF TypeOK, Never, CacheInv
      <4>3. since[e] + Ttl <= now + Ttl /\ since[e] + Ttl <= until[edits] + Ttl
        BY <4>2, <1>a
      <4> QED BY <3>1, <3>2, <4>1, <4>3, <2>1
    <3>3. CASE ~(x = e /\ IsTable(content[edits]))
      <4>1. table'[x] = table[x] /\ expires'[x] = expires[x] /\ stale'[x] = stale[x]
        BY <1>4, <3>3 DEF ReadReturns, TypeOK
      <4> QED BY <3>1, <4>1 DEF CacheInv
    <3> QED BY <3>2, <3>3
  <2> QED BY <2>6, <2>7
<1>5. ASSUME NEW e \in Env, ReadFails(e)
      PROVE  RouterInv'
  <2>1. asked[e] \in Alarms
    BY <1>5 DEF ReadFails, TypeOK
  <2>2. answer' \in Answer
    <3>1. CASE table[e] # Never
      <4>1. Lookup(content[table[e]], asked[e]) \in Kind
        BY <2>1, <3>1, LookupKinds DEF CacheInv, TypeOK
      <4> QED BY <1>5, <2>1, <3>1, <4>1, RespondType DEF ReadFails
    <3>2. CASE table[e] = Never
      BY <1>5, <2>1, <3>2, RespondType DEF ReadFails, Kind
    <3> QED BY <3>1, <3>2
  <2>3. since[e] + StaleRetry \in Nat /\ since[e] <= now
    BY <1>a DEF TypeOK, CacheInv
  <2>4. /\ expires' \in [Env -> Nat] /\ stale' \in [Env -> BOOLEAN]
        /\ asked' \in [Env -> Alarms \union {<<>>}] /\ since' \in [Env -> 0 .. MaxTime]
    <3>1. asked' \in [Env -> Alarms \union {<<>>}] /\ since' \in [Env -> 0 .. MaxTime]
      BY <1>5, <1>a, <1>b DEF ReadFails
    <3>2. expires' \in [Env -> Nat] /\ stale' \in [Env -> BOOLEAN]
      BY <1>5, <1>b, <2>3 DEF ReadFails
    <3> QED BY <3>1, <3>2
  <2>5. UNCHANGED <<now, mode, edits, content, until, table>>
    BY <1>5 DEF ReadFails, world
  <2>6. TypeOK'
    BY <2>2, <2>4, <2>5 DEF TypeOK
  <2>7. CacheInv'
    <3> SUFFICES ASSUME NEW x \in Env
                 PROVE  /\ since'[x] <= now
                        /\ table[x] # Never /\ ~stale'[x] =>
                               /\ expires'[x] <= now + Ttl
                               /\ expires'[x] <= until[table[x]] + Ttl
                        /\ stale'[x] => expires'[x] <= now + StaleRetry
      BY <2>5 DEF CacheInv
    <3>1. since'[x] <= now
      BY <1>5, <1>a DEF ReadFails, TypeOK, CacheInv
    <3>2. CASE x = e /\ table[e] # Never
      <4>1. expires'[x] = since[e] + StaleRetry /\ stale'[x]
        BY <1>5, <3>2 DEF ReadFails, TypeOK
      <4>2. since[e] \in Nat /\ since[e] + StaleRetry <= now + StaleRetry
        BY <2>3, <1>a, TimeAssumption DEF TypeOK
      <4> QED BY <3>1, <4>1, <4>2
    <3>3. CASE ~(x = e /\ table[e] # Never)
      <4>1. expires'[x] = expires[x] /\ stale'[x] = stale[x]
        BY <1>5, <3>3 DEF ReadFails, TypeOK
      <4> QED BY <3>1, <4>1 DEF CacheInv
    <3> QED BY <3>2, <3>3
  <2> QED BY <2>6, <2>7
<1>6. ASSUME NEW e \in Env, Recycle(e)
      PROVE  RouterInv'
  BY <1>6, <1>a, TimeAssumption
     DEF Recycle, TypeOK, CacheInv, world, Answer, NoAnswer
<1>7. ASSUME NEW c \in Contents, Edit(c)
      PROVE  RouterInv'
  <2>1. edits \in Nat /\ edits + 1 \in Version /\ now \in 0 .. Never /\ Never \in 0 .. Never
    BY <1>7, TimeAssumption DEF Edit, TypeOK, Version, Never
  <2>2. TypeOK'
    BY <1>7, <2>1, TimeAssumption DEF Edit, TypeOK, Answer, NoAnswer, Version
  <2>3. \A e \in Env : table[e] # Never =>
            /\ table[e] \in 0 .. edits + 1 /\ content'[table[e]] = content[table[e]]
            /\ until'[table[e]] = IF table[e] = edits THEN now ELSE until[table[e]]
    BY <1>7, <2>1 DEF Edit, CacheInv
  <2>4. CacheInv'
    BY <1>7, <2>1, <2>3, <1>a DEF Edit, CacheInv
  <2> QED BY <2>2, <2>4
<1>8. CASE Tick
  <2>1. TypeOK'
    BY <1>8, <1>a, TimeAssumption DEF Tick, TypeOK, world, Answer, NoAnswer
  <2>2. now' \in Nat /\ now <= now'
    BY <1>8, <1>a DEF Tick
  <2>3. CacheInv'
    <3> SUFFICES ASSUME NEW e \in Env
                 PROVE  /\ since[e] <= now'
                        /\ table[e] # Never /\ ~stale[e] => expires[e] <= now' + Ttl
                        /\ stale[e] => expires[e] <= now' + StaleRetry
      BY <1>8 DEF Tick, CacheInv, world
    <3>1. expires[e] \in Nat /\ since[e] \in Nat
      BY TimeAssumption DEF TypeOK
    <3> QED BY <3>1, <2>2, <1>a DEF CacheInv
  <2> QED BY <2>1, <2>3
<1>9. CASE UNCHANGED vars
  BY <1>9 DEF vars, TypeOK, CacheInv
<1> QED BY <1>1, <1>2, <1>3, <1>4, <1>5, <1>6, <1>7, <1>8, <1>9 DEF Next

THEOREM RouterInductive == Spec => []RouterInv
<1>1. Init => RouterInv
  BY RouterInitially
<1>2. RouterInv /\ [Next]_vars => RouterInv'
  BY RouterStep
<1> QED BY <1>1, <1>2, PTL DEF Spec

\* A table in use, unless a failed refresh keeps it alive, was overwritten
\* less than a Ttl ago: the expiry set by _load_table counts from when the
\* read began, and the read saw the parameter no earlier.
LEMMA InUseIsRecent ==
    ASSUME RouterInv, NEW e \in Env, table[e] # Never, now < expires[e], ~stale[e]
    PROVE  now < until[table[e]] + Ttl
<1>1. expires[e] \in Nat /\ until[table[e]] \in Nat /\ now \in Nat /\ Ttl \in Nat
  BY TimeAssumption DEF RouterInv, TypeOK, CacheInv, Never
<1> QED BY <1>1 DEF RouterInv, CacheInv

\* Every environment follows the parameter within a Ttl (_load_table).
THEOREM Convergence == Spec => []EnvironmentsConverge
<1>1. RouterInv => EnvironmentsConverge
  BY InUseIsRecent DEF EnvironmentsConverge
<1> QED BY <1>1, RouterInductive, PTL

-----------------------------------------------------------------------------
\* Router implements LeasedCopy: what is in the environments are leased
\* copies of the parameter.
LEMMA LeasesInitially == Init => Leases!Init
<1> SUFFICES ASSUME Init PROVE Leases!Init
  OBVIOUS
<1>1. Overwritten = [v \in {} |-> 0]
  <2>1. 0 .. edits - 1 = {}
    BY DEF Init
  <2> QED BY <2>1 DEF Overwritten
<1>2. Reading = [e \in Env |-> Never]
  BY DEF Init, Reading
<1> QED BY <1>1, <1>2 DEF Init, Leases!Init

\* An environment is reading while there is an alarm it reads for.
LEMMA ReadingFor ==
    ASSUME RouterInv, NEW e \in Env
    PROVE  /\ asked[e] # <<>> => Reading[e] = since[e] /\ Reading[e] # Never
           /\ asked[e] = <<>> => Reading[e] = Never
<1>1. since[e] \in 0 .. MaxTime /\ MaxTime \in Nat
  BY TimeAssumption DEF RouterInv, TypeOK
<1> QED BY <1>1 DEF Reading, Never

\* When the read of one environment begins or ends, that of no other does.
LEMMA ReadingOf ==
    ASSUME RouterInv, NEW e \in Env, NEW a \in Alarms \union {<<>>}, NEW t \in Nat,
           asked' = [asked EXCEPT ![e] = a], since' = [since EXCEPT ![e] = t]
    PROVE  Reading' = [Reading EXCEPT ![e] = IF a = <<>> THEN Never ELSE t]
<1>1. \A x \in Env : /\ asked'[x] = IF x = e THEN a ELSE asked[x]
                     /\ since'[x] = IF x = e THEN t ELSE since[x]
  BY DEF RouterInv, TypeOK
<1> QED BY <1>1 DEF Reading

\* Every step of the router is one of LeasedCopy, or leaves the leases alone.
LEMMA LeasesStep == RouterInv /\ [Next]_vars => [Leases!Next]_(Leases!vars)
<1> SUFFICES ASSUME RouterInv, [Next]_vars PROVE [Leases!Next]_(Leases!vars)
  OBVIOUS
<1>a. TypeOK /\ 0 \in Nat /\ MaxTime \in Nat
  BY TimeAssumption DEF RouterInv
<1>1. ASSUME UNCHANGED <<now, edits, until, table, expires, stale, asked, since>>
      PROVE  UNCHANGED Leases!vars
  BY <1>1 DEF Leases!vars, Overwritten, Reading
<1>2. ASSUME NEW e \in Env, NEW a \in Alarms, StartRead(e, a)
      PROVE  Leases!Next
  <2>1. a # <<>>
    BY NameAssumption
  <2>2. Reading' = [Reading EXCEPT ![e] = now]
    <3>1. now \in Nat
      BY <1>a DEF TypeOK
    <3> QED BY <1>2, <2>1, <3>1, ReadingOf DEF StartRead
  <2>3. Reading[e] = Never /\ ~Leases!Leased(e)
    BY <1>2, <1>a, ReadingFor DEF StartRead, Leases!Leased, TypeOK
  <2>4. UNCHANGED <<now, edits, Overwritten, table, expires, stale>>
    BY <1>2 DEF StartRead, world, Overwritten
  <2>5. Leases!StartRead(e)
    BY <2>2, <2>3, <2>4 DEF Leases!StartRead, Leases!source
  <2> QED BY <2>5 DEF Leases!Next
<1>3. ASSUME NEW e \in Env, ReadReturns(e) \/ ReadFails(e)
      PROVE  /\ Reading[e] = since[e] /\ Reading[e] # Never
             /\ Reading' = [Reading EXCEPT ![e] = Never]
             /\ UNCHANGED <<now, edits, Overwritten>>
  <2>1. /\ asked[e] # <<>>
        /\ asked' = [asked EXCEPT ![e] = <<>>] /\ since' = [since EXCEPT ![e] = 0]
        /\ UNCHANGED <<now, edits, until>>
    BY <1>3 DEF ReadReturns, ReadFails, world
  <2>2. Reading' = [Reading EXCEPT ![e] = Never]
    BY <1>a, <2>1, ReadingOf
  <2> QED BY <2>1, <2>2, ReadingFor DEF Overwritten
<1>4. ASSUME NEW e \in Env, ReadReturns(e)
      PROVE  Leases!Next
  <2>1. CASE IsTable(content[edits])
    <3>1. /\ table' = [table EXCEPT ![e] = edits]
          /\ expires' = [expires EXCEPT ![e] = since[e] + Ttl]
          /\ stale' = [stale EXCEPT ![e] = FALSE]
      BY <1>4, <2>1 DEF ReadReturns
    <3>2. Leases!Renew(e)
      BY <1>3, <1>4, <3>1 DEF Leases!Renew, Leases!source
    <3> QED BY <3>2 DEF Leases!Next
  <2>2. CASE ~IsTable(content[edits])
    <3>1. UNCHANGED <<table, expires, stale>>
      BY <1>4, <2>2 DEF ReadReturns
    <3>2. Leases!Fail(e)
      BY <1>3, <1>4, <3>1 DEF Leases!Fail, Leases!source
    <3> QED BY <3>2 DEF Leases!Next
  <2> QED BY <2>1, <2>2
<1>5. ASSUME NEW e \in Env, ReadFails(e)
      PROVE  Leases!Next
  <2>1. CASE table[e] # Never
    <3>1. /\ expires' = [expires EXCEPT ![e] = since[e] + StaleRetry]
          /\ stale' = [stale EXCEPT ![e] = TRUE] /\ UNCHANGED table
      BY <1>5, <2>1 DEF ReadFails
    <3>2. Leases!PutOff(e)
      BY <1>3, <1>5, <2>1, <3>1 DEF Leases!PutOff, Leases!source
    <3> QED BY <3>2 DEF Leases!Next
  <2>2. CASE table[e] = Never
    <3>1. UNCHANGED <<table, expires, stale>>
      BY <1>5, <2>2 DEF ReadFails
    <3>2. Leases!Fail(e)
      BY <1>3, <1>5, <3>1 DEF Leases!Fail, Leases!source
    <3> QED BY <3>2 DEF Leases!Next
  <2> QED BY <2>1, <2>2
<1>6. ASSUME NEW e \in Env, Recycle(e)
      PROVE  Leases!Next
  <2>1. Reading' = [Reading EXCEPT ![e] = Never]
    BY <1>6, <1>a, ReadingOf DEF Recycle
  <2>2. Leases!Forget(e)
    BY <1>6, <2>1 DEF Recycle, world, Overwritten, Leases!Forget, Leases!source
  <2> QED BY <2>2 DEF Leases!Next
<1>7. ASSUME NEW c \in Contents, Edit(c)
      PROVE  Leases!Next
  <2>1. edits \in Nat /\ edits' = edits + 1
    BY <1>7, TimeAssumption DEF Edit, RouterInv, TypeOK, Version
  <2>2. Overwritten' = [v \in 0 .. edits |-> IF v = edits THEN now ELSE Overwritten[v]]
    <3>1. 0 .. edits' - 1 = 0 .. edits
      BY <2>1
    <3>2. \A v \in 0 .. edits : until'[v] = IF v = edits THEN now ELSE Overwritten[v]
      BY <1>7, <2>1 DEF Edit, Overwritten
    <3>3. Overwritten' = [v \in 0 .. edits |-> until'[v]]
      BY <3>1 DEF Overwritten
    <3> QED BY <3>2, <3>3
  <2>3. UNCHANGED <<now, table, expires, stale, Reading>>
    BY <1>7 DEF Edit, Reading
  <2>4. Leases!Overwrite
    BY <2>1, <2>2, <2>3 DEF Leases!Overwrite, Leases!holders
  <2> QED BY <2>4 DEF Leases!Next
<1>8. CASE Tick
  <2>1. UNCHANGED <<edits, Overwritten, table, expires, stale, Reading>> /\ now' = now + 1
    BY <1>8 DEF Tick, world, Overwritten, Reading
  <2>2. Leases!Tick
    BY <2>1 DEF Leases!Tick, Leases!source, Leases!holders
  <2> QED BY <2>2 DEF Leases!Next
<1>9. ASSUME NEW e \in Env, NEW a \in Alarms, ResolveSingle(e, a) \/ ResolveCached(e, a)
      PROVE  UNCHANGED Leases!vars
  BY <1>1, <1>9 DEF ResolveSingle, ResolveCached, world
<1>10. CASE UNCHANGED vars
  BY <1>1, <1>10 DEF vars
<1> QED BY <1>2, <1>4, <1>5, <1>6, <1>7, <1>8, <1>9, <1>10 DEF Next

\* The routing tables are leased copies of the parameter, for every set of
\* environments, every TTL and however edits, reads, failures and recycling
\* fall (_load_table).
THEOREM TablesAreLeased == Spec => ImplementsLeases
BY LeasesInitially, LeasesStep, RouterInductive, PTL DEF Spec, ImplementsLeases, Leases!Spec

-----------------------------------------------------------------------------
\* What LeasedCopy keeps of every holder: its copy is of a version that was
\* there when the lease began, or the lease was put off.
LeaseInv ==
    /\ Leases!TypeOK
    /\ \A h \in Env :
        /\ table[h] # Never /\ ~stale[h] =>
               /\ expires[h] <= now + Ttl
               /\ table[h] = edits \/ expires[h] <= Overwritten[table[h]] + Ttl
        /\ stale[h] => expires[h] <= now + StaleRetry

LEMMA LeaseInvInitially == Leases!Init => LeaseInv
BY TimeAssumption DEF Leases!Init, LeaseInv, Leases!TypeOK

LEMMA LeaseInvStep == LeaseInv /\ [Leases!Next]_(Leases!vars) => LeaseInv'
<1> SUFFICES ASSUME LeaseInv, [Leases!Next]_(Leases!vars) PROVE LeaseInv'
  OBVIOUS
<1>a. Ttl \in Nat /\ StaleRetry \in Nat
  BY TimeAssumption
<1> USE DEF LeaseInv, Leases!TypeOK
<1>1. ASSUME NEW h \in Env, Leases!StartRead(h) PROVE LeaseInv'
  BY <1>1 DEF Leases!StartRead, Leases!source
<1>2. ASSUME NEW h \in Env, Leases!Renew(h) PROVE LeaseInv'
  <2>1. Reading[h] \in 0 .. now
    BY <1>2 DEF Leases!Renew
  <2> QED BY <1>2, <1>a, <2>1 DEF Leases!Renew, Leases!source
<1>3. ASSUME NEW h \in Env, Leases!Fail(h) PROVE LeaseInv'
  BY <1>3 DEF Leases!Fail, Leases!source
<1>4. ASSUME NEW h \in Env, Leases!PutOff(h) PROVE LeaseInv'
  <2>1. Reading[h] \in 0 .. now
    BY <1>4 DEF Leases!PutOff
  <2> QED BY <1>4, <1>a, <2>1 DEF Leases!PutOff, Leases!source
<1>5. ASSUME NEW h \in Env, Leases!Forget(h) PROVE LeaseInv'
  BY <1>5 DEF Leases!Forget, Leases!source
<1>6. CASE Leases!Overwrite
  BY <1>6, <1>a DEF Leases!Overwrite, Leases!holders
<1>7. CASE Leases!Tick
  BY <1>7, <1>a DEF Leases!Tick, Leases!source, Leases!holders
<1>8. CASE UNCHANGED Leases!vars
  BY <1>8 DEF Leases!vars
<1> QED BY <1>1, <1>2, <1>3, <1>4, <1>5, <1>6, <1>7, <1>8 DEF Leases!Next

\* What LeasedCopy allows keeps what it is for: a copy on a lease is of a
\* version in force within the term or its renewal was put off, that is never
\* for longer than the grace, and no holder goes back to an older version.
THEOREM LeasesKept ==
    Leases!Spec => [](Leases!Recent /\ Leases!PutOffBriefly) /\ Leases!NeverBack
<1>1. LeaseInv => Leases!Recent /\ Leases!PutOffBriefly
  <2> SUFFICES ASSUME LeaseInv, NEW h \in Env
               PROVE  /\ Leases!Leased(h) /\ ~stale[h] =>
                             table[h] = edits \/ now < Overwritten[table[h]] + Ttl
                      /\ stale[h] => expires[h] <= now + StaleRetry
    BY DEF Leases!Recent, Leases!PutOffBriefly
  <2>1. table[h] # Never => table[h] \in 0 .. edits
    BY DEF LeaseInv, Leases!TypeOK
  <2>2. table[h] # Never /\ table[h] # edits => Overwritten[table[h]] \in 0 .. now
    BY <2>1 DEF LeaseInv, Leases!TypeOK
  <2> QED BY <2>2, TimeAssumption DEF LeaseInv, Leases!TypeOK, Leases!Leased
<1>2. LeaseInv /\ [Leases!Next]_(Leases!vars)
      => \A h \in Env : table[h] # Never /\ table'[h] # Never => table[h] <= table'[h]
  <2> SUFFICES ASSUME LeaseInv, [Leases!Next]_(Leases!vars), NEW h \in Env,
                      table[h] # Never, table'[h] # Never
               PROVE  table[h] <= table'[h]
    OBVIOUS
  <2>1. table[h] \in 0 .. edits /\ edits \in Nat
    BY DEF LeaseInv, Leases!TypeOK
  <2>2. table'[h] = table[h] \/ table'[h] = edits
    BY DEF LeaseInv, Leases!TypeOK, Leases!Next, Leases!vars, Leases!holders, Leases!StartRead,
           Leases!Renew, Leases!Fail, Leases!PutOff, Leases!Forget, Leases!Overwrite, Leases!Tick
  <2> QED BY <2>1, <2>2
<1> QED BY <1>1, <1>2, LeaseInvInitially, LeaseInvStep, PTL
        DEF Leases!Spec, Leases!NeverBack

\* Read through the refinement: no environment ever goes back to an older
\* table than the one it routes by.
THEOREM TablesNeverGoBack == Spec => Leases!NeverBack
BY TablesAreLeased, LeasesKept, PTL DEF ImplementsLeases

-----------------------------------------------------------------------------
\* The version an answer that no failed read explains was given by was in
\* force within the Ttl: the parameter as it stands, or a table in use.
LEMMA AnsweredByRecent ==
    ASSUME RouterInv, NEW e \in Env, NEW a \in Alarms,
           \/ ResolveCached(e, a)
           \/ ReadReturns(e) /\ asked[e] = a,
           ~answer'.excused
    PROVE  \E v \in Version :
               /\ InForceWithin(v, now)
               /\ answer'.kind \in {"RoutingError", "AttributeError"} =>
                      ~IsTable(content[v]) \/ Lookup(content[v], a) = answer'.kind
               /\ answer'.kind = "Target" =>
                      /\ IsTable(content[v]) /\ Lookup(content[v], a) = "Target"
                      /\ v = table'[e]
               /\ answer'.alarm = a
<1>1. now \in Nat /\ now < Never /\ Ttl \in Nat /\ edits \in Version
  BY TimeAssumption DEF RouterInv, TypeOK, Never
<1>2. CASE ResolveCached(e, a)
  <2>1. ~stale[e] /\ answer'.kind = Lookup(content[table[e]], a) /\ answer'.alarm = a
    BY <1>2 DEF ResolveCached, Respond
  <2>2. table[e] \in 0 .. edits /\ IsTable(content[table[e]]) /\ table'[e] = table[e]
    BY <1>2 DEF ResolveCached, RouterInv, CacheInv
  <2>3. now < until[table[e]] + Ttl
    BY <1>2, <2>1, InUseIsRecent DEF ResolveCached
  <2>4. table[e] \in Version /\ until[table[e]] \in Nat /\ table[e] <= edits
    BY <1>1, <2>2, TimeAssumption DEF RouterInv, TypeOK, Version, Never
  <2>5. InForceWithin(table[e], now)
    BY <1>1, <2>3, <2>4 DEF InForceWithin
  <2> QED BY <2>1, <2>2, <2>4, <2>5
<1>3. CASE ReadReturns(e) /\ asked[e] = a
  <2>1. InForceWithin(edits, now)
    <3>1. until[edits] = Never /\ Never \in Nat /\ edits \in Nat
      BY <1>1, TimeAssumption DEF RouterInv, CacheInv, Version, Never
    <3> QED BY <1>1, <3>1 DEF InForceWithin
  <2>2. CASE IsTable(content[edits])
    <3>1. answer'.kind = Lookup(content[edits], a) /\ answer'.alarm = a
      BY <1>3, <2>2 DEF ReadReturns, Respond
    <3>2. table'[e] = edits
      BY <1>3, <2>2 DEF ReadReturns, RouterInv, TypeOK
    <3> QED BY <1>1, <2>1, <2>2, <3>1, <3>2
  <2>3. CASE ~IsTable(content[edits])
    <3>1. answer'.kind = "RoutingError" /\ answer'.alarm = a
      BY <1>3, <2>3 DEF ReadReturns, Respond
    <3> QED BY <1>1, <2>1, <2>3, <3>1
  <2> QED BY <2>2, <2>3
<1> QED BY <1>2, <1>3

\* What resolve answered in the last step is explained by the parameter.
LEMMA FixStep == RouterInv /\ FixTakesEffect /\ [Next]_vars => FixTakesEffect'
<1> SUFFICES ASSUME RouterInv, FixTakesEffect, [Next]_vars PROVE FixTakesEffect'
  OBVIOUS
<1>1. ASSUME NEW e \in Env, NEW a \in Alarms, ResolveCached(e, a)
      PROVE  FixTakesEffect'
  BY <1>1, AnsweredByRecent DEF FixTakesEffect, InForceWithin, ResolveCached, world
<1>2. ASSUME NEW e \in Env, ReadReturns(e)
      PROVE  FixTakesEffect'
  <2>1. asked[e] \in Alarms
    BY <1>2 DEF ReadReturns, RouterInv, TypeOK
  <2> QED BY <1>2, <2>1, AnsweredByRecent DEF FixTakesEffect, InForceWithin, ReadReturns, world
<1>3. ASSUME NEW e \in Env, ReadFails(e)
      PROVE  FixTakesEffect'
  <2>1. answer'.excused
    BY <1>3 DEF ReadFails, Respond
  <2> QED BY <2>1 DEF FixTakesEffect
<1>4. ASSUME NEW e \in Env, NEW a \in Alarms, ResolveSingle(e, a)
      PROVE  FixTakesEffect'
  BY <1>4 DEF ResolveSingle, FixTakesEffect, world
<1>5. ASSUME answer' = NoAnswer
      PROVE  FixTakesEffect'
  BY <1>5 DEF FixTakesEffect, NoAnswer
<1>6. CASE UNCHANGED vars
  BY <1>6 DEF vars, FixTakesEffect, InForceWithin
<1> QED BY <1>1, <1>2, <1>3, <1>4, <1>5, <1>6 DEF Next, StartRead, Recycle, Edit, Tick

\* An alarm fails only if the parameter said something that fails it in the
\* Ttl before its answer, or a read failed (resolve, _load_table, _to_target).
THEOREM FixesTakeEffect == Spec => []FixTakesEffect
<1>1. Init => FixTakesEffect
  BY DEF Init, FixTakesEffect, NoAnswer
<1> QED BY <1>1, FixStep, RouterInductive, PTL DEF Spec

\* A read that fails does not fail an alarm that a cached table routes
\* (_load_table serving an expired table).
THEOREM OutagesKeepRouting == Spec => OutageKeepsRouting
<1> DEFINE Kept(e) ==
        /\ asked[e] # <<>> /\ asked'[e] = <<>>
        /\ table[e] # Never /\ table'[e] # Never /\ answer'.excused
        /\ Lookup(content[table[e]], asked[e]) = "Target"
        => answer'.kind = "Target"
<1>1. RouterInv /\ [Next]_vars => [\A e \in Env : Kept(e)]_vars
  <2> SUFFICES ASSUME RouterInv, Next, NEW e \in Env, asked[e] # <<>>, asked'[e] = <<>>,
                      table[e] # Never, answer'.excused,
                      Lookup(content[table[e]], asked[e]) = "Target"
               PROVE  answer'.kind = "Target"
    OBVIOUS
  <2>1. asked \in [Env -> Alarms \union {<<>>}]
    BY DEF RouterInv, TypeOK
  <2>2. PICK x \in Env : ReadFails(x) \/ ReadReturns(x) \/ Recycle(x) \/ UNCHANGED asked
                           \/ \E a \in Alarms : StartRead(x, a)
    BY DEF Next, ResolveSingle, ResolveCached, Edit, Tick
  <2>3. ~Recycle(x)
    BY DEF Recycle, NoAnswer
  <2>4. ~ReadReturns(x)
    BY DEF ReadReturns, Respond
  <2>5. ~ \E a \in Alarms : StartRead(x, a)
    BY <2>1 DEF StartRead, NoAnswer
  <2>6. ReadFails(x) /\ x = e
    BY <2>1, <2>2, <2>3, <2>4, <2>5 DEF ReadFails
  <2> QED BY <2>6 DEF ReadFails, Respond
<1> QED BY <1>1, RouterInductive, PTL DEF Spec, OutageKeepsRouting

-----------------------------------------------------------------------------
\* Every step of Fanout is a step of Router, or leaves it alone.
LEMMA FanoutStepIsRouterStep == [FanoutNext]_fanoutVars => [Next]_vars
BY DEF FanoutNext, fanoutVars, Next, Read, ReuseClient, BuildClient, FailToAssume, Call,
       RecycleAll, Resolve, TickAll

\* Composed with the clients, the router does nothing it would not do alone.
THEOREM FanoutIsRouter == FanoutSpec => Spec
<1>1. FanoutInit => Init
  BY DEF FanoutInit
<1> QED BY <1>1, FanoutStepIsRouterStep, PTL DEF FanoutSpec, Spec

LEMMA TargetRoles ==
    \A s \in Target : s.role \in Role \union {Local} /\ ClientKey(s) \in Keys
BY EntryAssumption DEF Target, Keys, ClientKey

\* Routed(g): the parameter sent the alarm of goal g to its target within the
\* Ttl before it was routed, unless a failed read explains it.
Routed(g) ==
    \/ mode # "fanout" \/ g.excused
    \/ \E v \in Version :
           /\ InForceWithin(v, g.at)
           /\ IsTable(content[v])
           /\ Lookup(content[v], g.alarm) = "Target"
           /\ EntryFor(content[v], g.alarm) = g.target

\* A cached client is of the role that is its key, the one in use of the role
\* of the target, and the target of the route; and an environment that reads
\* the table has no target yet.
ClientInv ==
    /\ \A e \in Env : \A k \in Keys : clients[e][k] # None => clients[e][k].role = k
    /\ \A e \in Env : held[e] # None => held[e].role = goal[e].target.role
    /\ \A e \in Env : asked[e] # <<>> => mode = "fanout" /\ goal[e] = None
    /\ \A e \in Env, g \in Goal : goal[e] = g /\ g # None => g.at <= now /\ Routed(g)

FanoutInv == RouterInv /\ FanoutTypeOK /\ ClientInv

LEMMA FanoutInitially == FanoutInit => FanoutInv
<1> SUFFICES ASSUME FanoutInit PROVE FanoutInv
  OBVIOUS
<1>1. RouterInv
  BY RouterInitially DEF FanoutInit
<1>2. FanoutTypeOK
  BY <1>1 DEF FanoutInit, FanoutTypeOK, RouterInv
<1>3. ClientInv
  BY DEF FanoutInit, ClientInv, Init
<1> QED BY <1>1, <1>2, <1>3 DEF FanoutInv

\* What was routed stays routed as the parameter is overwritten and time
\* passes.
LEMMA RoutedStays ==
    ASSUME RouterInv, [Next]_vars, NEW g \in Goal, g.at <= now, Routed(g)
    PROVE  g.at <= now' /\ Routed(g)'
<1>1. now \in Nat /\ g.at \in Nat /\ Ttl \in Nat /\ g.at < Never /\ edits \in Nat
  BY TimeAssumption DEF RouterInv, TypeOK, Goal, Never, Version
<1>2. now' = now \/ now' = now + 1
  BY DEF Next, vars, ResolveSingle, ResolveCached, StartRead, ReadReturns, ReadFails,
         Recycle, Edit, Tick
<1>3. g.at <= now'
  BY <1>1, <1>2
<1>4. UNCHANGED world \/ \E c \in Contents : Edit(c)
  BY DEF Next, vars, world, ResolveSingle, ResolveCached, StartRead, ReadReturns,
         ReadFails, Recycle, Tick
<1>5. CASE UNCHANGED world
  BY <1>3, <1>5 DEF Routed, InForceWithin, world
<1>6. CASE \E c \in Contents : Edit(c)
  <2>1. UNCHANGED mode /\ edits' = edits + 1
    BY <1>6 DEF Edit
  <2>2. ASSUME NEW v \in Version, InForceWithin(v, g.at)
        PROVE  content'[v] = content[v] /\ InForceWithin(v, g.at)'
    <3>1. v \in 0 .. edits /\ v \in 0 .. edits + 1
      BY <1>1, <2>2 DEF InForceWithin, Version
    <3>2. content'[v] = content[v] /\ until'[v] = IF v = edits THEN now ELSE until[v]
      BY <1>1, <1>6, <3>1 DEF Edit
    <3>3. v <= edits' /\ until'[v] + Ttl >= g.at
      BY <1>1, <2>1, <2>2, <3>1, <3>2 DEF InForceWithin
    <3> QED BY <3>2, <3>3 DEF InForceWithin
  <2> QED BY <1>3, <2>1, <2>2 DEF Routed
<1> QED BY <1>4, <1>5, <1>6

\* Routing hands over a target it was told of.
LEMMA RoutingStep ==
    ASSUME FanoutInv, NEW e \in Env, NEW a \in Alarms, NEW target,
           \/ ResolveSingle(e, a) /\ target = Own
           \/ ResolveCached(e, a) /\ target = EntryFor(content[table[e]], a)
           \/ /\ ReadReturns(e) \/ ReadFails(e)
              /\ asked[e] = a /\ target = EntryFor(content[table'[e]], a),
           answer'.kind = "Target",
           NEW g, g = [target |-> target, alarm |-> a, at |-> now, excused |-> answer'.excused]
    PROVE  g \in Goal /\ g.at <= now' /\ Routed(g)'
<1>0. now' = now /\ UNCHANGED world
  BY DEF ResolveSingle, ResolveCached, ReadReturns, ReadFails
<1>1. now \in 0 .. MaxTime /\ now \in Nat /\ now' = now /\ UNCHANGED world
  BY <1>0, TimeAssumption DEF FanoutInv, RouterInv, TypeOK
<1>2. \A t \in 0 .. edits : t = table[e] /\ table[e] # Never =>
          content[t] \in Contents /\ IsTable(content[t])
  BY DEF FanoutInv, RouterInv, CacheInv, TypeOK
<1>3. CASE ResolveSingle(e, a) /\ target = Own
  BY <1>1, <1>3 DEF ResolveSingle, Respond, Goal, Target, Routed, world
<1>4. CASE ReadFails(e) /\ asked[e] = a /\ target = EntryFor(content[table'[e]], a)
  <2>1. table[e] # Never /\ table' = table /\ answer'.excused = TRUE
        /\ Lookup(content[table[e]], a) = "Target"
    BY <1>4 DEF ReadFails, Respond
  <2>2. target \in Space
    BY <1>2, <1>4, <2>1, LookupKinds DEF FanoutInv, RouterInv, CacheInv
  <2>3. g \in Goal
    BY <1>1, <2>1, <2>2 DEF Goal, Target
  <2>4. g.excused = TRUE /\ g.at = now
    BY <2>1
  <2> QED BY <1>1, <2>3, <2>4 DEF Routed
<1>5. CASE \/ ResolveCached(e, a) /\ target = EntryFor(content[table[e]], a)
           \/ ReadReturns(e) /\ asked[e] = a /\ target = EntryFor(content[table'[e]], a)
  <2>1. answer'.excused \in BOOLEAN /\ target = EntryFor(content[table'[e]], a)
    <3>1. CASE ResolveCached(e, a) /\ target = EntryFor(content[table[e]], a)
      <4>1. answer'.excused = stale[e] /\ table' = table
        BY <3>1 DEF ResolveCached, Respond
      <4> QED BY <3>1, <4>1 DEF FanoutInv, RouterInv, TypeOK
    <3>2. CASE ReadReturns(e) /\ asked[e] = a /\ target = EntryFor(content[table'[e]], a)
      <4>1. answer'.excused = FALSE
        BY <3>2 DEF ReadReturns, Respond
      <4> QED BY <3>2, <4>1
    <3> QED BY <1>5, <3>1, <3>2
  <2>2. table'[e] \in 0 .. edits /\ IsTable(content[table'[e]])
        /\ Lookup(content[table'[e]], a) = "Target"
    <3>1. CASE ResolveCached(e, a)
      BY <3>1 DEF ResolveCached, Respond, FanoutInv, RouterInv, CacheInv
    <3>2. CASE ReadReturns(e) /\ asked[e] = a
      <4>1. edits \in 0 .. edits
        BY TimeAssumption DEF FanoutInv, RouterInv, TypeOK, Version
      <4>2. IsTable(content[edits]) /\ table'[e] = edits
            /\ Lookup(content[edits], a) = "Target"
        BY <3>2 DEF ReadReturns, Respond, FanoutInv, RouterInv, TypeOK
      <4> QED BY <4>1, <4>2
    <3> QED BY <1>5, <3>1, <3>2
  <2>3. target \in Space
    BY <2>1, <2>2, LookupKinds DEF FanoutInv, RouterInv, TypeOK
  <2>4. ~answer'.excused => Routed(g)'
    BY <1>1, <1>5, <2>1, AnsweredByRecent DEF FanoutInv, Routed, InForceWithin, world
  <2> QED BY <1>1, <2>1, <2>3, <2>4 DEF Goal, Target, Routed
<1> QED BY <1>3, <1>4, <1>5

\* After routing, the goal of the environment is nothing or one it was given.
LEMMA ProceedStep ==
    ASSUME FanoutInv, RouterInv', [Next]_vars,
           NEW e \in Env, NEW a \in Alarms, NEW target,
           \/ ResolveSingle(e, a) /\ target = Own
           \/ ResolveCached(e, a) /\ target = EntryFor(content[table[e]], a)
           \/ /\ ReadReturns(e) \/ ReadFails(e)
              /\ asked[e] = a /\ target = EntryFor(content[table'[e]], a),
           Proceed(e, a, target), goal[e] = None
    PROVE  FanoutInv'
<1>1. \A g : /\ g = [target |-> target, alarm |-> a, at |-> now, excused |-> answer'.excused]
             /\ answer'.kind = "Target"
             => g \in Goal /\ g.at <= now' /\ Routed(g)'
  BY RoutingStep
<1>2. PICK g : g = [target |-> target, alarm |-> a, at |-> now, excused |-> answer'.excused]
  OBVIOUS
<1>3. /\ goal' = [goal EXCEPT ![e] = IF answer'.kind = "Target" THEN g ELSE None]
      /\ UNCHANGED <<clients, held>> /\ result' = None
  BY <1>2 DEF Proceed
<1>4. answer'.kind = "Target" => g \in Goal /\ g.at <= now' /\ Routed(g)'
  BY <1>1, <1>2
<1>5. goal' \in [Env -> Goal \union {None}]
  BY <1>3, <1>4 DEF FanoutInv, FanoutTypeOK
<1>6. held[e] = None
  BY DEF FanoutInv, FanoutTypeOK
<1>7. FanoutTypeOK'
  BY <1>3, <1>5, <1>6 DEF FanoutInv, FanoutTypeOK, RouterInv
<1>8. \A x \in Env, h \in Goal : goal'[x] = h /\ h # None => h.at <= now' /\ Routed(h)'
  <2> SUFFICES ASSUME NEW x \in Env, NEW h \in Goal, goal'[x] = h, h # None
               PROVE  h.at <= now' /\ Routed(h)'
    OBVIOUS
  <2>1. CASE x = e
    BY <1>3, <1>4, <2>1 DEF FanoutInv, FanoutTypeOK
  <2>2. CASE x # e
    <3>1. goal[x] = h
      BY <1>3, <2>2 DEF FanoutInv, FanoutTypeOK
    <3>2. h.at <= now /\ Routed(h)
      BY <3>1 DEF FanoutInv, ClientInv
    <3> QED BY <3>2, RoutedStays DEF FanoutInv
  <2> QED BY <2>1, <2>2
<1>9. \A x \in Env : asked'[x] # <<>> => mode' = "fanout" /\ goal'[x] = None
  <2>1. asked \in [Env -> Alarms \union {<<>>}] /\ goal \in [Env -> Goal \union {None}]
    BY DEF FanoutInv, FanoutTypeOK, RouterInv, TypeOK
  <2>2. mode' = mode
    BY DEF ResolveSingle, ResolveCached, ReadReturns, ReadFails, world
  <2>3. asked'[e] = <<>>
    BY <2>1 DEF ResolveSingle, ResolveCached, ReadReturns, ReadFails, FanoutInv, ClientInv
  <2>4. \A x \in Env \ {e} : asked'[x] = asked[x] /\ goal'[x] = goal[x]
    BY <1>3, <2>1 DEF ResolveSingle, ResolveCached, ReadReturns, ReadFails
  <2> QED BY <2>2, <2>3, <2>4 DEF FanoutInv, ClientInv
<1>10. \A x \in Env : held'[x] # None => held'[x].role = goal'[x].target.role
  BY <1>3, <1>6 DEF FanoutInv, ClientInv, FanoutTypeOK
<1>11. ClientInv'
  BY <1>3, <1>8, <1>9, <1>10 DEF FanoutInv, ClientInv
<1> QED BY <1>7, <1>11 DEF FanoutInv

\* The steps that leave the goals alone, or forget one.
LEMMA GoalsKept ==
    ASSUME FanoutInv, [Next]_vars, \A e \in Env : goal'[e] = goal[e] \/ goal'[e] = None
    PROVE  \A e \in Env, g \in Goal :
               goal'[e] = g /\ g # None => g.at <= now' /\ Routed(g)'
<1> SUFFICES ASSUME NEW e \in Env, NEW g \in Goal, goal'[e] = g, g # None
             PROVE  g.at <= now' /\ Routed(g)'
  OBVIOUS
<1>1. g.at <= now /\ Routed(g)
  BY DEF FanoutInv, ClientInv
<1> QED BY <1>1, RoutedStays DEF FanoutInv

LEMMA FanoutStep == FanoutInv /\ [FanoutNext]_fanoutVars => FanoutInv'
<1> SUFFICES ASSUME FanoutInv, [FanoutNext]_fanoutVars PROVE FanoutInv'
  OBVIOUS
<1>a. [Next]_vars
  BY FanoutStepIsRouterStep
<1>b. RouterInv'
  BY <1>a, RouterStep DEF FanoutInv
<1>c. /\ clients \in [Env -> [Keys -> Session \union {None}]]
      /\ goal \in [Env -> Goal \union {None}] /\ held \in [Env -> Session \union {None}]
      /\ asked \in [Env -> Alarms \union {<<>>}] /\ now \in Nat /\ SessionLife \in Nat
  BY TimeAssumption, SessionAssumption DEF FanoutInv, FanoutTypeOK, RouterInv, TypeOK
<1>d. \A e \in Env : goal[e] # None =>
          goal[e].target \in Target /\ ClientKey(goal[e].target) \in Keys
          /\ goal[e].target.role \in Role \union {Local}
          /\ ClientKey(goal[e].target) = goal[e].target.role
  BY <1>c, TargetRoles DEF Goal, ClientKey
<1>1. ASSUME NEW e \in Env, NEW a \in Alarms, Resolve(e, a)
      PROVE  FanoutInv'
  <2>1. CASE ResolveSingle(e, a) /\ Proceed(e, a, Own)
    BY <1>a, <1>b, <1>1, <2>1, ProceedStep DEF Resolve
  <2>2. CASE ResolveCached(e, a) /\ Proceed(e, a, EntryFor(content[table[e]], a))
    BY <1>a, <1>b, <1>1, <2>2, ProceedStep DEF Resolve
  <2>3. CASE StartRead(e, a) /\ UNCHANGED invocation /\ result' = None
    <3>1. UNCHANGED <<clients, goal, held>> /\ result' = None
      BY <2>3 DEF invocation
    <3>2. FanoutTypeOK'
      BY <1>b, <3>1 DEF FanoutInv, FanoutTypeOK, RouterInv
    <3>3. \A x \in Env : asked'[x] # <<>> => mode' = "fanout" /\ goal'[x] = None
      BY <1>1, <1>c, <2>3, <3>1 DEF Resolve, StartRead, world, FanoutInv, ClientInv
    <3>4. \A x \in Env, g \in Goal : goal'[x] = g /\ g # None => g.at <= now' /\ Routed(g)'
      BY <1>a, <3>1, GoalsKept
    <3>5. ClientInv'
      BY <3>1, <3>3, <3>4 DEF FanoutInv, ClientInv
    <3> QED BY <1>b, <3>2, <3>5 DEF FanoutInv
  <2> QED BY <1>1, <2>1, <2>2, <2>3 DEF Resolve
<1>2. ASSUME NEW e \in Env, Read(e)
      PROVE  FanoutInv'
  <2>1. asked[e] \in Alarms /\ asked[e] # <<>>
    BY <1>2, <1>c DEF Read, ReadReturns, ReadFails
  <2>2. goal[e] = None
    BY <2>1 DEF FanoutInv, ClientInv
  <2> QED BY <1>a, <1>b, <1>2, <2>1, <2>2, ProceedStep DEF Read
<1>3. ASSUME NEW e \in Env, End(e, goal[e].target.role, "assumeFailed") \/ Call(e),
             UNCHANGED <<vars, clients>>, goal[e] # None,
             held[e] # None => held[e].role \in Role \union {Local}
      PROVE  FanoutInv'
  <2>1. goal' = [goal EXCEPT ![e] = None] /\ held' = [held EXCEPT ![e] = None]
    BY <1>3 DEF End, Call
  <2>2. result' \in [goal : Goal, role : Role \union {Local}, outcome : Outcome]
    BY <1>3, <1>c, <1>d DEF End, Call, Outcome
  <2>3. goal' \in [Env -> Goal \union {None}] /\ held' \in [Env -> Session \union {None}]
    BY <2>1, <1>c
  <2>4. FanoutTypeOK'
    BY <1>3, <1>b, <1>c, <2>1, <2>2, <2>3 DEF FanoutInv, FanoutTypeOK, RouterInv
  <2>5. \A x \in Env, g \in Goal : goal'[x] = g /\ g # None => g.at <= now' /\ Routed(g)'
    BY <1>a, <1>c, <2>1, GoalsKept
  <2>6. ClientInv'
    BY <1>3, <1>c, <2>1, <2>5 DEF FanoutInv, ClientInv, vars
  <2> QED BY <1>b, <2>4, <2>6 DEF FanoutInv
<1>4. ASSUME NEW e \in Env, ReuseClient(e)
      PROVE  FanoutInv'
  <2> DEFINE key == ClientKey(goal[e].target)
  <2>1. /\ held' = [held EXCEPT ![e] = clients[e][key]] /\ clients[e][key] # None
        /\ UNCHANGED <<vars, clients, goal>> /\ result' = None
        /\ goal[e] # None /\ key \in Keys /\ key = goal[e].target.role
    BY <1>4, <1>d DEF ReuseClient
  <2>2. clients[e][key] \in Session /\ clients[e][key].role = key
    BY <1>c, <2>1 DEF FanoutInv, ClientInv
  <2>3. held' \in [Env -> Session \union {None}]
    BY <1>c, <2>1, <2>2
  <2>4. FanoutTypeOK'
    BY <1>b, <1>c, <2>1, <2>3 DEF FanoutInv, FanoutTypeOK, RouterInv
  <2>5. \A x \in Env, g \in Goal : goal'[x] = g /\ g # None => g.at <= now' /\ Routed(g)'
    BY <1>a, <2>1, GoalsKept
  <2>6. ClientInv'
    BY <1>c, <2>1, <2>2, <2>5 DEF FanoutInv, ClientInv, vars
  <2> QED BY <1>b, <2>4, <2>6 DEF FanoutInv
<1>5. ASSUME NEW e \in Env, BuildClient(e)
      PROVE  FanoutInv'
  <2> DEFINE key == ClientKey(goal[e].target)
             session == [role |-> goal[e].target.role, until |-> now + SessionLife]
  <2>1. /\ held' = [held EXCEPT ![e] = session]
        /\ clients' = [clients EXCEPT ![e][key] = session]
        /\ UNCHANGED <<vars, goal>> /\ result' = None
        /\ goal[e] # None /\ key \in Keys /\ key = goal[e].target.role
    BY <1>5, <1>d DEF BuildClient
  <2>2. session \in Session /\ session.role = key
    BY <1>c, <1>d, <2>1 DEF Session
  <2>3. held' \in [Env -> Session \union {None}]
    BY <1>c, <2>1, <2>2
  <2>4. clients' \in [Env -> [Keys -> Session \union {None}]]
    BY <1>c, <2>1, <2>2
  <2>5. FanoutTypeOK'
    BY <1>b, <1>c, <2>1, <2>3, <2>4 DEF FanoutInv, FanoutTypeOK, RouterInv
  <2>6. \A x \in Env, g \in Goal : goal'[x] = g /\ g # None => g.at <= now' /\ Routed(g)'
    BY <1>a, <2>1, GoalsKept
  <2>7. \A x \in Env : \A k \in Keys : clients'[x][k] # None => clients'[x][k].role = k
    BY <1>c, <2>1, <2>2 DEF FanoutInv, ClientInv
  <2>8. \A x \in Env : held'[x] # None => held'[x].role = goal'[x].target.role
    BY <1>c, <2>1, <2>2 DEF FanoutInv, ClientInv
  <2>9. ClientInv'
    BY <2>1, <2>6, <2>7, <2>8 DEF FanoutInv, ClientInv, vars
  <2> QED BY <1>b, <2>5, <2>9 DEF FanoutInv
<1>6. ASSUME NEW e \in Env, FailToAssume(e) \/ Call(e)
      PROVE  FanoutInv'
  <2>1. held[e] # None => held[e].role \in Role \union {Local}
    BY <1>c DEF Session
  <2> QED BY <1>3, <1>6, <2>1 DEF FailToAssume, Call
<1>7. ASSUME NEW e \in Env, RecycleAll(e)
      PROVE  FanoutInv'
  <2>1. /\ clients' = [clients EXCEPT ![e] = [k \in Keys |-> None]]
        /\ goal' = [goal EXCEPT ![e] = None] /\ held' = [held EXCEPT ![e] = None]
        /\ result' = None
        /\ asked' = [asked EXCEPT ![e] = <<>>] /\ UNCHANGED mode
    BY <1>7 DEF RecycleAll, Recycle, world
  <2>2. FanoutTypeOK'
    BY <1>b, <1>c, <2>1 DEF FanoutInv, FanoutTypeOK, RouterInv
  <2>3. \A x \in Env, g \in Goal : goal'[x] = g /\ g # None => g.at <= now' /\ Routed(g)'
    BY <1>a, <1>c, <2>1, GoalsKept
  <2>4. ClientInv'
    BY <1>c, <2>1, <2>3 DEF FanoutInv, ClientInv
  <2> QED BY <1>b, <2>2, <2>4 DEF FanoutInv
<1>8. ASSUME UNCHANGED <<clients, goal, held, asked, mode>>,
             result' = None \/ result' = result
      PROVE  FanoutInv'
  <2>1. FanoutTypeOK'
    BY <1>b, <1>8 DEF FanoutInv, FanoutTypeOK, RouterInv
  <2>2. \A x \in Env, g \in Goal : goal'[x] = g /\ g # None => g.at <= now' /\ Routed(g)'
    BY <1>a, <1>8, GoalsKept
  <2>3. ClientInv'
    BY <1>8, <2>2 DEF FanoutInv, ClientInv
  <2> QED BY <1>b, <2>1, <2>3 DEF FanoutInv
<1>9. ASSUME NEW c \in Contents, Edit(c), UNCHANGED invocation, result' = None
      PROVE  FanoutInv'
  BY <1>8, <1>9, <1>c DEF Edit, invocation
<1>10. CASE TickAll
  BY <1>8, <1>10, <1>c DEF TickAll, Tick, invocation, world
<1>11. CASE UNCHANGED fanoutVars
  BY <1>8, <1>11, <1>c DEF fanoutVars, vars
<1> QED BY <1>1, <1>2, <1>4, <1>5, <1>6, <1>7, <1>9, <1>10, <1>11 DEF FanoutNext

THEOREM FanoutInductive == FanoutSpec => []FanoutInv
<1>1. FanoutInit => FanoutInv
  BY FanoutInitially
<1>2. FanoutInv /\ [FanoutNext]_fanoutVars => FanoutInv'
  BY FanoutStep
<1> QED BY <1>1, <1>2, PTL DEF FanoutSpec

\* Every variable of the router and of the clients keeps its type.
THEOREM FanoutTypeCorrect == FanoutSpec => []FanoutTypeOK
<1>1. FanoutInv => FanoutTypeOK
  BY DEF FanoutInv
<1> QED BY <1>1, FanoutInductive, PTL

LEMMA SentStep ==
    FanoutInv /\ SentAsRouted /\ [FanoutNext]_fanoutVars => SentAsRouted'
<1> SUFFICES ASSUME FanoutInv, SentAsRouted, [FanoutNext]_fanoutVars, result' # None
             PROVE  SentAsRouted'
  BY DEF SentAsRouted
<1>1. CASE UNCHANGED fanoutVars
  BY <1>1 DEF fanoutVars, vars, SentAsRouted, InForceWithin
<1>2. ASSUME NEW e \in Env, NEW role, NEW outcome, End(e, role, outcome), UNCHANGED vars,
             goal[e] # None, role = goal[e].target.role
      PROVE  SentAsRouted'
  <2>1. goal[e] \in Goal /\ Routed(goal[e])
    BY <1>2 DEF FanoutInv, FanoutTypeOK, ClientInv
  <2>2. result'.goal = goal[e] /\ result'.role = goal[e].target.role
    BY <1>2 DEF End
  <2> QED BY <1>2, <2>1, <2>2 DEF SentAsRouted, Routed, InForceWithin, vars
<1>3. ASSUME NEW e \in Env, FailToAssume(e)
      PROVE  SentAsRouted'
  BY <1>2, <1>3 DEF FailToAssume
<1>4. ASSUME NEW e \in Env, Call(e)
      PROVE  SentAsRouted'
  <2>1. held[e].role = goal[e].target.role
    BY <1>4 DEF Call, FanoutInv, ClientInv
  <2> QED BY <1>2, <1>4, <2>1 DEF Call
<1> QED BY <1>1, <1>3, <1>4
        DEF FanoutNext, Read, Resolve, Proceed, ReuseClient, BuildClient, RecycleAll,
            TickAll

\* Requests go where the parameter sent the alarm in the Ttl before it was
\* routed, with the role it named (_agent_client and _load_table together).
THEOREM RequestsGoAsRouted == FanoutSpec => []SentAsRouted
<1>1. FanoutInit => SentAsRouted
  BY DEF FanoutInit, SentAsRouted
<1> QED BY <1>1, SentStep, FanoutInductive, PTL DEF FanoutSpec
=============================================================================
