------------------------------- MODULE Fanout -------------------------------
(***************************************************************************)
(* What an environment does with the target routing gave it: _agent_client *)
(* of alarm_pipeline/handler.py keeps one client per role for the life of  *)
(* the environment, each with the session it assumed when it was built,    *)
(* and _create_investigation calls with it. Router is composed with it:    *)
(* its steps hand a route over, and its table moves meanwhile. Whether a   *)
(* role may be assumed is up to its account and STS: AssumeRole may fail   *)
(* at any time.                                                            *)
(***************************************************************************)
EXTENDS Router

CONSTANTS
    Role,           \* IAM roles of other accounts (roleArn of an entry)
    Local,          \* no role: the function's own
    Own,            \* the target of single-target mode (AGENT_SPACE_ID)
    None,           \* no client, no invocation in progress
    SessionLife,    \* DurationSeconds
    InvocationTime  \* a bound of the function timeout

\* An entry that names an Agent Space names a role, or none.
ASSUME EntryAssumption ==
    /\ \A s \in Space \union {Own} : s.role \in Role \union {Local}
    /\ Own.role = Local /\ Local \notin Role

\* "The session only has to outlive one API call".
ASSUME SessionAssumption ==
    /\ SessionLife \in Nat /\ InvocationTime \in Nat /\ InvocationTime < SessionLife

VARIABLES
    clients,  \* clients[e][k]: the session of the client e has cached, or None
    goal,     \* goal[e]: the target e works on, or None
    held,     \* held[e]: the session of the client e is about to call with
    result    \* how the invocation ended that ended in the last step, or None

fanoutVars == <<vars, clients, goal, held, result>>
invocation == <<clients, goal, held>>
router == <<table, expires, stale, asked, since, answer>>

Target == Space \union {Own}
Session == [role : Role \union {Local}, until : Nat]
Goal == [target : Target, alarm : Alarms, at : 0 .. MaxTime, excused : BOOLEAN]
Outcome == {"created", "expired", "assumeFailed"}

\* Mutant of ClientKey: one client per Agent Space.
ClientKeyBySpace(s) == s.space

\* cache_key of _agent_client.
ClientKey(s) == s.role

Keys == {ClientKey(s) : s \in Target}

FanoutTypeOK ==
    /\ TypeOK
    /\ clients \in [Env -> [Keys -> Session \union {None}]]
    /\ goal \in [Env -> Goal \union {None}]
    /\ held \in [Env -> Session \union {None}]
    /\ result = None \/ result \in
           [goal : Goal, role : Role \union {Local}, outcome : Outcome]
    /\ \A e \in Env : held[e] # None => goal[e] # None

FanoutInit ==
    /\ Init
    /\ clients = [e \in Env |-> [k \in Keys |-> None]]
    /\ goal = [e \in Env |-> None]
    /\ held = [e \in Env |-> None]
    /\ result = None

-----------------------------------------------------------------------------
\* Routing ended: with a target it goes on, otherwise the alarm is parked.
Proceed(e, a, target) ==
    /\ goal' = [goal EXCEPT ![e] =
                   IF answer'.kind = "Target"
                   THEN [target |-> target, alarm |-> a, at |-> now,
                         excused |-> answer'.excused]
                   ELSE None]
    /\ UNCHANGED <<clients, held>>
    /\ result' = None

\* The entry a table gives an alarm.
EntryFor(t, a) == t[MatchedRoute(t, a)]

Resolve(e, a) ==
    /\ goal[e] = None
    /\ \/ ResolveSingle(e, a) /\ Proceed(e, a, Own)
       \/ ResolveCached(e, a) /\ Proceed(e, a, EntryFor(content[table[e]], a))
       \/ StartRead(e, a) /\ UNCHANGED invocation /\ result' = None

Read(e) ==
    /\ ReadReturns(e) \/ ReadFails(e)
    /\ Proceed(e, asked[e], EntryFor(content[table'[e]], asked[e]))

End(e, role, outcome) ==
    /\ result' = [goal |-> goal[e], role |-> role, outcome |-> outcome]
    /\ goal' = [goal EXCEPT ![e] = None]
    /\ held' = [held EXCEPT ![e] = None]

\* A client for this key was built before.
ReuseClient(e) ==
    /\ goal[e] # None /\ held[e] = None
    /\ clients[e][ClientKey(goal[e].target)] # None
    /\ held' = [held EXCEPT ![e] = clients[e][ClientKey(goal[e].target)]]
    /\ UNCHANGED <<vars, clients, goal>>
    /\ result' = None

\* One is built, with a session that AssumeRole began, and kept.
BuildClient(e) ==
    LET role == goal[e].target.role
        session == [role |-> role, until |-> now + SessionLife]
    IN  /\ goal[e] # None /\ held[e] = None
        /\ clients[e][ClientKey(goal[e].target)] = None
        /\ held' = [held EXCEPT ![e] = session]
        /\ clients' = [clients EXCEPT ![e][ClientKey(goal[e].target)] = session]
        /\ UNCHANGED <<vars, goal>>
        /\ result' = None

\* AssumeRole raises, because the role cannot be assumed or because STS is
\* slow or throttles: the alarm is parked and no client is kept.
FailToAssume(e) ==
    /\ goal[e] # None /\ held[e] = None
    /\ clients[e][ClientKey(goal[e].target)] = None
    /\ goal[e].target.role # Local
    /\ End(e, goal[e].target.role, "assumeFailed")
    /\ UNCHANGED <<vars, clients>>

\* create_backlog_task with that client. boto3 renews the function's own
\* credentials, and never the ones of a session it was given.
Call(e) ==
    /\ goal[e] # None /\ held[e] # None
    /\ End(e, held[e].role,
           IF held[e].role = Local \/ now < held[e].until THEN "created" ELSE "expired")
    /\ UNCHANGED <<vars, clients>>

\* The environment is recycled; what it was doing is cut off.
RecycleAll(e) ==
    /\ Recycle(e)
    /\ clients' = [clients EXCEPT ![e] = [k \in Keys |-> None]]
    /\ goal' = [goal EXCEPT ![e] = None]
    /\ held' = [held EXCEPT ![e] = None]
    /\ result' = None

\* An invocation does not outlast the function timeout.
TickAll ==
    /\ \A e \in Env :
           /\ asked[e] # <<>> => now < since[e] + InvocationTime
           /\ goal[e] # None => now < goal[e].at + InvocationTime
    /\ Tick
    /\ UNCHANGED invocation
    /\ result' = None

FanoutNext ==
    \/ \E e \in Env :
           \/ Read(e) \/ ReuseClient(e) \/ BuildClient(e) \/ FailToAssume(e)
           \/ Call(e) \/ RecycleAll(e)
    \/ \E e \in Env, a \in Alarms : Resolve(e, a)
    \/ \E c \in Contents : Edit(c) /\ UNCHANGED invocation /\ result' = None
    \/ TickAll

FanoutSpec == FanoutInit /\ [][FanoutNext]_fanoutVars

-----------------------------------------------------------------------------
JustEnded(outcomes) == result # None /\ result.outcome \in outcomes

\* A request goes where the routing parameter sent it in the Ttl before the
\* alarm was routed, with a session of the very role it named there, through
\* a table that may be stale and a client that may be older than the table;
\* unless a failed read kept the table alive. The code behaviour: the
\* cache_key of _agent_client and the expiry of _load_table.
SentAsRouted ==
    result # None /\ mode = "fanout" =>
        /\ result.role = result.goal.target.role
        /\ result.goal.excused \/ \E v \in Version :
               /\ InForceWithin(v, result.goal.at)
               /\ IsTable(content[v])
               /\ Lookup(content[v], result.goal.alarm) = "Target"
               /\ EntryFor(content[v], result.goal.alarm) = result.goal.target

\* "The assumed-role credential is not refreshed here because the function's
\* lifetime is far shorter than the session" (_agent_client): no call is made
\* with a session that has expired.
SessionOutlivesFunction == ~JustEnded({"expired"})
=============================================================================
