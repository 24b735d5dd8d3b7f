# Verification of the PRTG alarm pipeline and MCP tools

This directory holds TLA+ models of the two Lambda functions of this repository
and of the deployment that configures them, TLC configurations that check the models
on small instances, and TLAPS proofs of the safety properties of every one of them,
for every value of their constants. Paths below are relative to the
repository; line numbers are those of the commit modelled.

1. The system
2. The modules and how they correspond to the code
3. What each run checks, its bounds and its fairness
4. What is proved
5. Disagreements between code and documentation
6. Not modelled, and the plan

## 1. The system

| Component | State it keeps | Operations | Interacts with |
|---|---|---|---|
| Alarm pipeline handler, `src/alarm_pipeline/handler.py` | per warm environment: `_router`, `_sqs`, the cache of DevOps Agent clients. Nothing of an alarm survives an invocation except its dead-letter message | `handler`, `_create_investigation`, `_park_alarm`, `_agent_client` | called by API Gateway, synchronously; calls the router, STS, DevOps Agent, SQS |
| Time budget, same file | constants, the environment variable of the function timeout, the remaining time | `_agent_call_budget_seconds`, `_remaining_seconds`, the check in `handler` | bounds every outgoing call |
| Routing, `src/alarm_pipeline/routing.py` | `_table`, `_expires_at` per environment | `resolve`, `_load_table`, `_to_target` | SSM Parameter Store |
| Payload, `src/alarm_pipeline/payload.py` | none | `parse_alarm`, `resolve_priority`, `deduplication_token` | used by the handler; its input is what PRTG's notification template renders |
| Alarms on metrics, `infrastructure/constructs/observability.py` and `alarm_pipeline_stack.py` | none in the code; CloudWatch keeps samples and alarm states | `watch_function`, `watch_dead_letter_queue`, `watch_api`, `_log_metric`, `_alarm` | read answers, exceptions, log lines and queue depth of the pipeline; notify a topic |
| MCP tool handler, `src/prtg_mcp/handler.py`, `tools.py` | the client | `handler`, `validate_arguments`, nine tools | called by AgentCore Gateway |
| PRTG client, `src/prtg_mcp/prtg_client.py` | `_credentials` with their expiry, `_pool` with its trust store | `request`, `table`, `_load_credentials`, `_http` | Secrets Manager, PRTG |
| Configuration, `infrastructure/config.py` | none | `load_config`, the validators, `required_vpc_endpoints`, `agent_endpoint_url`, `routing_table` | read when the stacks are synthesised |
| Stacks and constructs, `infrastructure/`, `app.py` | what stands in the account: the shared stack, the two halves, the routing parameter | synthesis, deployment of some or all stacks | configure the functions, the network, the queue, the alarms; CloudFormation updates them one by one |

What is hard in this system is not in any one function:

- **An unanswered request.** `CreateBacklogTask` may be processed although the
  answer is lost or comes too late. The SDK sends the request again, the handler
  parks the alarm, an operator redrives it, PRTG notifies again. Deduplication by a
  `clientToken` cut from the wall clock is what keeps these from becoming several
  investigations, and a suppressed duplicate must never be a missed incident.
- **A deadline that raises nothing.** At the function timeout the sandbox is ended
  where it stands. Whatever was not parked by then is gone. Parking must fit
  into what routing, AssumeRole and the call leave over.
- **Caches.** Every environment holds its own routing table, credential, trust
  store and assumed-role clients, each stale in its own way, while operators edit
  their sources. A route may come from an old table and the client that follows it
  from a still older invocation.
- **Names for sensors.** What tells two sensors apart is what PRTG could substitute
  into the template. Where it does not know an id, names must do.
- **Silence.** When an alarm fails to be investigated PRTG may not look at the answer.
  Somebody learns of it only if some metric breaches some alarm.
- **Stacks built at different times.** The network is one stack and each half another,
  every one from the configuration of its own last deployment. What a function calls
  and what its network serves can come from different files.
- **Handling of partial failure.** Each outgoing call can fail, some after having taken
  effect, and what is done about it differs: an expired table is used on, an expired
  credential is not; a routing failure parks, an unexpected exception does not.

What makes the components correct:

- *Pipeline*: an alarm answered 200 has an investigation; no alarm is lost without
  PRTG having been told; one investigation per sensor, state and window; what is
  parked as not attempted was not attempted; every invocation ends.
- *Budget*: the deadline strikes only in steps that were begun too late.
- *Routing*: a corrected table takes effect within its TTL in every environment, and
  an outage of Parameter Store neither stops routing nor suspends re-reading.
- *Fan-out*: a request goes to the target the table routed it to, as the role named
  there.
- *Payload*: no two sensors that the parser can tell apart share an investigation, and a
  sensor that is down has an urgent one, though another notification made it.
- *Alarms on metrics*: a real alarm left without an investigation puts a metric alarm
  on, after a quiet time notifies someone, and what stands on the queue is never
  without its alarm.
- *PRTG client*: a rotated credential is picked up within its TTL.
- *Deployment*: what an accepted configuration can fail in synthesis is known, and
  whatever was deployed in part or edited since, the functions that stand can reach
  what they call exactly where the shared stack fits them, and every alarm has a target.
- *MCP call*: an unreachable PRTG is explained in an envelope; a refused credential
  is not presented twice; a call that fits the function timeout gets its envelope.

## 2. The modules

### AlarmPipeline

The core. An *environment* is a warm Lambda sandbox; it runs one invocation at a time,
and several run at once. A *job* is the first delivery of a notification or one redrive
of it. The actions are the handler between two calls that leave the process:

| Action | Code |
|---|---|
| `Receive` (`Begin`) | `handler` to the test check: parse, 400, 200 for a test, or go on |
| `Route` | `_get_router().resolve` returns, raises `RoutingError`, or raises something else; then the time check |
| `StartCall` | `_agent_client`, which may raise, the token, the first attempt |
| `Retry` | the SDK's further attempts, with the same token |
| `Succeed`, `Suppress`, `Fail` | what `_create_investigation` makes of the answer, and the `except` of `handler` |
| `SendPark` | `send_message` returns or raises, and a raise may have enqueued |
| `Kill` | the function timeout, in any step |
| `Serve`, `Deliver` | the service processes a request whenever it likes, and the answer arrives or does not |
| `Tick` | the next deduplication window |
| `RedriveThroughHandler`, `RedriveDirectly` | the two ways `docs/troubleshooting.md` describes |

The service is modelled from how the code uses it: in one Agent Space a token names at
most one task, the same token and body replays the task, the same token and another body
is a `ConflictException`. `Route` chooses the Agent Space anew for each run, so an alarm
that is routed elsewhere within a window may have a task in each space
(`OneInvestigationPerWindow` and `BacklogIsBounded` are stated per space). Anything may also fail, and a call without a token may meet a
conflict for reasons of its own, which `Suppress` must not take for a duplicate.
`fate[j]` is how a job ended, named for the log event that tells it.

Abstractions: an alarm's identity (sensor, device and state) is one value, the rest of
the payload another, so two notifications of one still-Down sensor have one identity
and may differ in body (`lastValue` does). Whether a body parses, and whether it is a
test, are attributes of the event. The seconds are in InvocationBudget and the table
in Router; here the time check and `resolve` are choices. `QueueConfigured`, `SkipTests`,
`Dedup` and `RouteOutcomes` are what the stack and the parameter configure.

### AlarmPromise and PipelineRefinement

AlarmPromise is what the pipeline owes its users: every alarm taken up is owed, kept,
told about or investigated, and steps move it only between these. It knows nothing of
environments, requests, tokens or messages. PipelineRefinement maps AlarmPipeline
onto it: owed is an open job, kept a message on the queue, told an ending PRTG saw as
an error (or a direct redrive, which is in the operator's hands), investigated a task.

### InvocationBudget

One invocation in half seconds, the unit in which every value the code derives from a
whole number of seconds is exact. `Resolve`, `CheckTime`, `GetClient`, `Attempt` and
`Send` each take any time up to their limit and may be cut off. The limits of the
attempts are the code's (`_agent_call_budget_seconds` split in two, and 1 + 3 s for
SQS); those of `resolve` and `_agent_client` are constants, because the code gives
neither its SSM nor its STS client a timeout. `SdkAttempts` is how often the SDK sends
a call and `SdkBackoff` its longest pause between two sends. `AgentMaxAttempts` is the
constant of that name, by which the code divides the budget and which it gives botocore
as `max_attempts`: botocore takes it as the number of retries, so two is three sends.

### Router

`resolve` in several environments: the single-target mode, the cached table, a read
that returns what the parameter said when it was processed, a read that fails, use of an expired
table on with a shorter expiry (`stale`), recycling, and an operator who overwrites
the parameter. A version number stands for a table, `until[v]` for when it was
overwritten. Tables include ones that are not JSON objects, entries without a space,
and entries that are not objects. Router is run and proved inside Fanout.

### LeasedCopy

What a cache with a TTL promises, whatever is cached: holders keep copies of a source
that is overwritten now and then, each on a lease that counts from the beginning of the
read; a copy is renewed only when its lease is over, and a failed read may put that off
for a while, for those who may. Its promise: a copy on a lease was in force within the
last term or its renewal was put off (`Recent`), putting off is brief (`PutOffBriefly`),
and no holder goes back to an older version (`NeverBack`).

The code has two such caches, written apart from each other, and both are shown to
implement it. In Router the holders are the environments, the copies their tables, and a
failed read puts the next one off by the retry delay (`ImplementsLeases`). In PrtgClient
there is one holder, its copy is the credential, and nobody may put off
(`ImplementsLease`): a read that fails, or returns a document that cannot be used,
gives nothing, and the expired credential is not used. That is the one difference
between the two caches, and the parameter `MayPutOff` is all of it.

### Fanout

Router composed with what follows it in `handler`: `_agent_client` and the call.
`clients[e]` is the cache under `cache_key`, each client with the role and the end of its
session.

| Action | Code |
|---|---|
| `Resolve`, `Read` | `resolve` with a table at hand, or the end of `_load_table`'s read, and the target handed to `_create_investigation` |
| `ReuseClient`, `BuildClient`, `FailToAssume` | `_agent_client`: a client found in the cache; one built, with a session of `SessionLife`, and kept; `assume_role` raises, whatever the reason, and nothing is kept |
| `Call` | `create_backlog_task` with the session at hand, which may have expired |
| `RecycleAll` | the environment is recycled and every cache with it |
| `TickAll` | a clock that no invocation outruns for longer than `InvocationTime` |

Several invocations of one environment share its caches and several environments share
the parameter. What the request says, and its retries, are
AlarmPipeline's.

### Payload

Operators, no state: `Understood` (`_extract_body`), `IsTest`, `ParseAlarm`,
`Priority` with `FieldRank`, and `Identity`, the part of `deduplication_token` besides
the bucket. A value is an element of a set, of which `Percent`, `Blank`, `FirstDigit`,
`StarCount` and `Segments` tell all the code asks. The token is cut from a text joined
with bars, and a name may hold one: `Segments` is what stands between the bars of a
value, and `Identity` the segments of the joined text, so that `A|B` and `C` read like
`A` and `B|C`, as they do in the code. Title and description are formatting and are
left out; so is the hash of the token, which keeps distinct identities distinct.

### Observability

The alarms of `observability.py` as `_alarm` declares them: each is a metric, a
threshold and a number of periods, missing data does not breach, and an alarm notifies
the topic only when it goes off. `prefixed` says whether log lines stand behind the
prefix the Lambda runtime writes in its text format; if so, the filters for JSON
documents match nothing. The code does not set the format, so either is possible.

### Operations

AlarmPipeline, Payload and Observability together. `Render` is PRTG filling in the
template for a sensor in a state, `Delivered` the event of AlarmPipeline that the
parser makes of it, so that an alarm's identity, and whether it is a test or
malformed, are computed and no longer given. `Causes` says what each metric counts.

| Action | Code |
|---|---|
| `Operate` | a step of AlarmPipeline, and what it answers, logs, raises and leaves on the queue |
| `Refuse` | a notification throttled by the reserved concurrency (5xx) or by the stage (429), or not admitted by the resource policy (403): the function never sees it |
| `EndPeriod` | CloudWatch closes a period and evaluates the alarms |
| `Expire` | the queue drops a message at the end of its retention; there is time for the end of a period before |

`lost`, `turned`, `calm`, `wasCalm` and `closed` are history: whether this period left a
real alarm behind, how many were answered 4xx in it, whether anything failed in it and in
the one before, and the same of the last period that ended. Alarms answered 400, 403 or
429 are `turned` away, not `lost`: the code waits for five of them in a period before the
alarm on 4xx goes off (`ManyTurned`), and what stays below goes untold.

Two sensors are `Alike` when what arrives does not tell them apart: PRTG knows no sensor
id, and they have one name on one device, or a bar in the names makes them read the same.
Such sensors share a task, as the code means to where ids are missing;
`SensorIsInvestigated` says that no others do.

A real alarm is `Accounted` for (AlarmPipeline) as long as its first delivery or a
redrive is open, has a task or a message on the queue, ended in an error PRTG saw, or was
redriven by hand. An invocation that was killed or escaped is such an error, for API
Gateway answers 5xx: the alarm is not investigated, and that somebody learns of it is
`LossRaisesAlarm`, not `NoSilentLoss`. The pipeline by itself never leaves this (`NoSilentLoss`); the queue's
retention does. `NothingVanishesUnseen` is about that step: it is taken only while the
alarm on the queue is on.

### PrtgClient

One warm environment of the tool function: `_load_credentials` with its TTL, `_http`
with its pool and trust store, the attempts of urllib3 and what `_parse` makes of the
answer, while an operator writes the secret (documents that cannot be used included),
withdraws old credentials in PRTG, and renews PRTG's certificate together with the CA
bundle. One environment is enough: the function shares nothing between environments.

### McpCall

One tool call in seconds, from `extract_tool_name` to the envelope. The schema of
`tools.py` and `_validate_value` are operators on classes of values (a number in
bounds, a string of digits, `1e999`, a boolean, ...). `Prepare` is the credential and
the trust store, `Retry` and `GiveUp` urllib3's attempts, `Fail` the fallback of
`get_server_status`. A call is cut off by the function timeout, or raises where
`handler` does not catch. The query that a tool builds from its arguments is left out.
`Pause` is the time between two attempts:
the backoff, or what a Retry-After header of PRTG says, which only a PRTG that
answers can send.

### Deployment

A configuration is a record of settings; a setting's value is one of the classes its
rules tell apart (`Unset`, `Malformed`, a host, an account, ...). `Interpolate` replaces
the references to variables as the shell at hand has them, `Allowed` is
`PrtgMcpConfig.validate` with one operator per section, `Endpoints`, `AgentUrl`,
`Egress`, `Placement`, `RoutingTable`, `MayAssume` are what the stacks are built with.
`AssertionFails` collects the assertions of the constructs, `CdkRefuses` what CDK itself
does not take: an address that Python reads as a network and `ec2.Peer.ipv4` does not
(`Odd`: a bare address, or IPv6), a look-up of a VPC in no account, or one that finds no
subnets of the kind needed. An empty string is a value of its own (`Empty`) where the
code asks `is None`. The state is what stands:

| Action | Code |
|---|---|
| `Refuse`, `Raise`, `Start` | `app.py` with a refused file, with an assertion that fails, and otherwise, for the stacks the operator names |
| `UpdateShared`, `UpdateHalf` | CloudFormation's updates in the order of `add_stack_dependency`; an export that is still imported is not deleted, and a parameter is written only when its template value (the routes in their order, with account, space and role) changed |
| `GiveUp`, `Destroy` | a stack that fails, and `cdk destroy` of a half |
| `Onboard` | the edit of the routing parameter that its description invites to |

`Calls` are the services the code of each function talks to, `Reaches` whether the
network that stands answers under the name the client uses, for a function in the
subnets it was placed in: through an endpoint, or through NAT from subnets of kind
`egress`. Endpoints answer to the default name, the one of DevOps Agent only to the name
in `DEVOPS_ENDPOINT_URL`. STS is taken to be asked under its regional name. Settings
whose rules concern nothing else (region, prefix, port, retention, ...) are the attribute
`others`; external ID and deduplication window, looked at with the pipeline only, are
`external`. Warnings are left out: they have no effect on what is deployed.

`CallsHaveRoutes` says when the calls of a half can be made, and when not: exactly where
the shared stack as last deployed `Fits` it. Under `nat` the half runs in subnets with a
NAT route, under `private` the shared stack was built for a pipeline, and for fan-out if
the half fans out, and the agent is asked under the endpoint's name. One file fits
itself, unless it names subnets or an endpoint URL by hand. A file changed and deployed
for the other half only may break the half left behind, and no rule of the code prevents
it; that it fails there and nowhere else takes the endpoints, the names, the egress rules
and the placement together.

### MC modules and proof modules

`MCX.tla` instantiates `X` for TLC; Router, Payload and Observability are run within
Fanout and Operations. Each module has its proofs in `XProofs.tla`: AlarmPipeline,
PipelineRefinement (with AlarmPromise), InvocationBudget, Deployment, Fanout (with
Router), Operations (with Payload and Observability), PrtgClient and McpCall. Operators
named as mutants in comments are changed versions of the definition below them; they
belong to no specification and are there to show that a property would notice.

## 3. The runs

| Run | Shows |
|---|---|
| `pipeline_concurrent` | the invariants and `InvocationEnds` with two environments, two notifications, two attempts, a window boundary; a state never has more tasks than windows have begun |
| `pipeline_refinement` | parking and redriving, with alarms, tests that are not skipped and malformed bodies; the pipeline implements the promise |
| `budget` | where the deadline can strike, for eight timeouts |
| `fanout` | a warm environment, its table and its clients, while the parameter is edited, reads and AssumeRole fail; the tables are leased copies of the parameter |
| `operations` | sensors of one name and sensors a bar makes alike, every kind of notification and refusal, the alarms on metrics period by period, and what the queue drops |
| `prtg_client` | rotation, spoiled documents, failed reads; the credential is a leased copy of the secret |
| `mcp_call` | every tool, every class of argument, reachable or not |
| `deployment` | every shape of deployment and every rule broken, two deployments in a row, in part, given up, destroyed, edited |
| `budget_straddle`, `pipeline_token_at_park`, `fanout_session`, `prtg_client_trust` | find the disagreements of section 5 |

**Bounds.** Two environments and two notifications: every interaction of the pipeline
is of two parties, over one token, one message or one clock; a third only repeats what
the second does. Two attempts are enough for a request that is processed while a later
one is on its way. `MaxBucket = 1` has an alarm on each side of a boundary and a
request that crosses it. One redrive (`MaxRedrives = 1`) of each of two notifications
may cross with the other's first delivery; that run stays in one window and has one
attempt per call, and two Agent Spaces, so that a redrive may be routed to the other;
`pipeline_concurrent` has one. What no run has is left to the theorems about
AlarmPipeline, which hold for it: deduplication switched off (and a conflict met without
a token), no queue wired, and retries, redrives across a window boundary and several
Agent Spaces together.

Budget: timeouts about the smallest budget (14 s), the default of 30 s and one above;
routing and client up to 22 s and 6 s, less than the reserve, so that every sum that
matters is reached; three sends with pauses of up to 2 s. The run for
`StartedCallIsRecoverable` keeps two sends and no pause, so that what it finds does not
rest on the third. Fanout: environments share only the parameter, which
changes by itself, so one is enough; three units of time against a TTL and a
session of two, and two edits, so that a table outlives its version and its TTL and a
client its session; `InvocationTime = 1` has an invocation that straddles both. Operations:
one environment, two notifications of which one may meet the task of the other, one
attempt, no redrive, an alarm on 4xx that waits for two: retries and redrives are AlarmPipeline's own runs, and no property
here depends on who sent a request again. The local PRTG knows no ids, the worst case
for identities, and that names differ is not assumed. Periods are not bounded; what the alarms remember of them is finite.
PrtgClient: two rotations and one renewal in five units of time against a TTL of two.
McpCall: the function timeout and the number of retries of the code, with a connection
attempt of four seconds, an answer of three, pauses of one, a Retry-After of two and a
secret read of three, so that the longest course of every tool but `get_server_status`
just fits the timeout, and that one's does not; the defaults (5 s, 20 s) fit for no tool,
and the theorem is about every choice. Deployment: two deployments, since a stack remembers only its
last one and every hazard is between the files of two stacks; the files are every
combination of halves, network, API and targeting, and beside them each rule broken
once; two shells, with and without the variables a file refers to.

**Deadlock** is not checked: notifications, windows, edits and time are bounded, and
a system in which nothing more arrives rightly stops.

**Fairness.** Only `InvocationEnds` needs any: weak fairness of `Step(e)`. The code
justifies it, as every call of a step is bounded by the timeouts of its client and
after it Python goes on. The service gets none: that it may never answer is the point.
Nor does `Kill`: an invocation must end by itself.

**Symmetry** of environments and notifications is used in runs without liveness
properties. Values told apart by the events (`a1`, `b1`, the notes of two sensors) are
not permuted.

## 4. What is proved

Every safety property of a passing run, action properties and the three refinements
included, is a theorem, for every value of the constants
(environments, notifications, attempts, windows, redrives, timeouts, TTLs, tables,
sensors, thresholds, files):

| Module | Theorems |
|---|---|
| AlarmPipelineProofs | `TypeCorrect`, `AcceptedAreInvestigated`, `OnePerWindow`, `BacklogsAreBounded`, `UntriedAreUnsent` |
| PipelineRefinementProofs | `Implements`, `PromiseKept`, and from the two `NothingSilentlyLost` |
| InvocationBudgetProofs | `BudgetTypeCorrect`, `CutCallsStartedLate`, `CutParksStartedLate`, `CheckedCallsHaveReserve`, `PromptAlarmsAreCutLate` |
| FanoutProofs | of Router: `FixesTakeEffect`, `Convergence`, `OutagesKeepRouting`, `TablesAreLeased`; `FanoutIsRouter`, which carries them over; of LeasedCopy: `LeasesKept`, and from it and the refinement `TablesNeverGoBack`; of Fanout: `FanoutTypeCorrect`, `RequestsGoAsRouted` |
| OperationsProofs | `OpsTypeCorrect`, `SensorsAreInvestigated`, `DownsAreUrgent`, `LossesRaiseAlarms`, `LossesAreTold`, `StandingQueuesStayInAlarm`, `NothingVanishes`; of the pipeline inside: `PipelineKeepsItsWord`, `OnlyTestsAcknowledged` |
| PrtgClientProofs | `ClientTypeCorrect`, `RotationsConverge`, `SentCredentialsAreFresh`, `CredentialIsLeased` |
| McpCallProofs | `CallTypeCorrect`, `UnreachablesAreExplained`, `RefusedAtMostOnce`, `FittingCallsAreAnswered` |
| DeploymentProofs | `TypeCorrect`, `RoutesForCalls`, `TargetsForAlarms`, `Assertions` |

The invariants are not inductive as stated. What the strengthening adds:

- *Ownership of requests*. A request on the wire or a task belongs to a job that was
  taken up, carries the token of its job's alarm, and was cut from a bucket between the
  job's arrival and now. At most one task holds a token. Without this `OnePerWindow`
  says nothing of a request still on its way.
- *An environment that waits* runs an open job that no other environment runs; its token
  is the one its requests carry. An answer `ok` or a `conflict` with a token in hand
  means that a holder of that token exists: an answer is only ever delivered to the
  environment that waits for that very request. `AcceptedIsInvestigated` follows when
  the answer is acted upon.
- *Counting tasks*. The tasks of one state have distinct tokens, one for each bucket,
  and no token is of a bucket that has not begun; so the tasks inject into the windows
  (`TasksCountWindows`). That there are finitely many is part of the result.
- *A job is sent once*. Requests exist only for jobs past the client step, and a
  message that says the call was not attempted is for a job that ended without one.
- *Refinement*. The invariant relates open jobs to environments and every message to a
  notification taken up. Each action is then a `Take`, `Investigate`, `Settle` or
  `Redrive` of the promise, or changes nothing it sees.
- *Budget*. `elapsed` never exceeds the start of the step plus what the attempts so far
  can have taken; at the deadline the difference is the statement.
- *Router*. The last version is the one in force. A table an environment holds was
  in force until at most a TTL before it expires, unless a failed read prolonged it, and
  then it expires within the retry delay. `FixTakesEffect` follows from where the
  answer's table comes from.
- *Leases*. The refinement needs no more than the invariants of Router and PrtgClient:
  each of their actions that touches a cache is the read, renewal, failure or putting
  off of one holder (`LeasesStep`, `LeaseStep`). The promise needs `LeaseInv`: a lease
  ends at most a term from now and a term after its version was overwritten, one that
  was put off at most the retry delay from now.
- *Fanout*. A session in the cache, or in hand, is of the role that is its key; a target
  in hand is an entry of a table that was in force within a TTL of the routing, or the
  routing is excused. `RequestsGoAsRouted` joins the two when the call ends.
- *Operations*. The invariant of AlarmPipeline holds, since no step here does anything
  else to it but drop messages. A period that left an alarm behind has a sample in
  `ApiServerErrors`; a message on the queue has one in `DeadLetters`; a period that
  began calm began with that first alarm off; the alarms turned away are no more than the
  sample of the 4xx alarm. The identity of a notification, and hence the token, tells
  states apart, and sensors that are not `Alike` (`IdentityIsSensor`): of two equal joined
  texts the last segment is the state, and an id, which has no bar, is split off before.
  A task with the token of a Down is therefore of a Down, and urgent. An alarm that was accounted for and is not any more was on the
  queue only (`AccountedStep`): steps of the pipeline end or redrive a job only into
  something that accounts for it, so the step is `Expire`, and that is taken
  only after the end of a period in which the message had put the alarm on.
- *PrtgClient*. What is cached expires no later than a TTL after the moment its version
  stopped being the secret's, and a version that was withdrawn has been replaced.
- *McpCall*. The elapsed time is accounted for by the secret and the attempts made; a
  refusal ends the attempts. For
  `FittingCallsAreAnswered` (`TInv`): what has elapsed is at most the reading of
  the secret, the attempts and pauses made so far at their longest, and a whole request
  more if the fallback is under way. A call whose longest course fits the timeout
  therefore never meets it; with the 30 s of the stack no tool's does, by the code's
  defaults.
- *Deployment*. What stands and what is under way was accepted, by the rules as they
  are, for the half in question, with the shared stack first; and the parameter has an
  entry for every route of the pipeline that stands. That part needs the remark that
  CloudFormation leaves an unchanged parameter alone only when both configurations
  have the same routes. `RoutesForCalls` goes through the four cases of the two network
  modes, with the subnets each puts a function in. The rest are facts about one accepted
  configuration.

Assumptions beyond the types of the constants, each named in its module:

- `PlainEvents` (PipelineRefinement): no event is base64-encoded, which the REST API of
  the stack never makes one, having no binary media types; and a test names no real
  sensor, since its placeholders are not substituted.
- `NamesAssumption` (Operations), of PRTG: ids are unique numbers, states and priorities
  are its own words, and an object has a name. Names are free: they may be equal, hold
  bars and begin with a percent sign.
- `StateAssumption` (Payload): the two tuples of states at `payload.py:48-51` have no state
  in common, a fact of that file.
- `StackAssumption` (Operations): the queue is wired, tests are skipped, and the
  alarms on the queue and on 5xx answers go off at one, that on 4xx answers at its
  threshold, each in one period, as the stack declares them.
  `DeliveryAssumption`: what arrives is a notification rendered by PRTG.
- `SessionAssumption`, `EntryAssumption` (Fanout): a session outlives an invocation; an
  entry names a role or none. `TimeAssumption` (Router): there is time for the edits.
- DeploymentProofs needs that no configuration is the value that stands for no stack.

Only model-checked: `InvocationEnds` (liveness is beyond the prover). The disagreements
of section 5 are found by TLC and refute a statement, so there is nothing to prove.

## 5. Disagreements

Each is found by a run with `expect: violation` and quoted in `PROJECT.json`.

- `StartedCallIsRecoverable`: the time check compares with the reserve only. A route
  that takes long leaves more than the reserve and less than the call may take.
- `OneInvestigationPerNotification`: the parked token is computed when the alarm is
  parked, and may belong to the next window.
- `SessionOutlivesFunction`: a client is cached for the life of the environment with
  a session of 900 s. A comment says that the function's lifetime is far shorter; the
  environment's is not, and a busy one parks every alarm of that account when the
  session is over.
- `TrustConverges`: the trust store is never refreshed.

Seen while modelling, without a run:

- botocore's `retries={"max_attempts": n}` counts retries, so two means three sends, with
  pauses between them: 33 s and more of the default 30 s for the call, 12 s and more for a
  park. The comments that say the worst case leaves the reserve
  (`src/alarm_pipeline/handler.py:595`) and that a park takes 8 s at most
  (`src/alarm_pipeline/handler.py:432`) do not hold for any timeout. What does hold is
  `PromptAlarmIsCutLate`: the third send is the one that is cut off.
- The metric filters `{ $.event = ... }` of `observability.py` match lines that are JSON
  documents. Behind the prefix of the runtime's text format a line is none, and the
  alarms on routing failures and lost alarms stay silent. `LossRaisesAlarm` holds
  without them: the answers and the queue tell.
- The description of the alarm on errors of the tool function names an unreachable PRTG
  and an unpopulated secret as its causes (`observability.py:149`); both end in an
  envelope, which the metric does not count.
- A replayed task is logged as created again (`src/alarm_pipeline/handler.py:262`): the
  count of that event is of answers, not of investigations.
- `infrastructure/config.py:1101` says that with less than about 20 s alarms are parked without
  trying; in fact the call is attempted above 8 s, and below 14 s a park may be cut off.
- A redrive through the function ignores the parked token and, after the window,
  creates a second investigation (`docs/troubleshooting.md:407`).
- A routing entry that is not an object makes `resolve` raise `AttributeError`, which
  is not the `RoutingError` that `handler` catches: the invocation ends with nothing
  parked, while `docs/architecture.md:107` says that the alarm is parked either way.
  AlarmPipeline has it as the ending `escaped`; `NoSilentLoss` holds, as PRTG sees an
  error.
- A parameter that is not JSON raises, although an expired table that works may be at
  hand; a read that fails does not.
- With a private alarm API and no source addresses the endpoint's security group
  admits nobody, and the warning `docs/deployment-matrix.md:529` promises is not
  printed: the condition in `infrastructure/config.py:970` asks for a list that is not
  empty.
- `register_with_agent_space` without a pipeline skips `targeting.validate`, and an
  unset Agent Space fails an assertion of the stack instead (`AssertionsHold` names it as
  its one exception).
- `app.py:19` says that configuration problems are reported before any resource is created, naming
  the field. What `CdkRefuses` lists is not: a bare or an IPv6 address of PRTG, of a new
  VPC or of a caller of the private API, which `_validate_cidr` accepts and CDK refuses;
  a VPC looked up without an account; a look-up without subnets of the kind needed. No
  field is named.
- Given subnets are used as they are: a `nat` network whose `subnet_ids` are isolated
  leaves its functions without a route to any AWS service, and nothing checks it.
- An account onboarded by editing the parameter, as the stack output says, is not in
  the policy of the pipeline's role unless `organization_id` is set.
- `originalEvent` drops `isBase64Encoded`: an encoded event would be rejected when
  redriven. The stack as it is delivers none.
- `int()` of an infinity raises `OverflowError` out of the MCP `handler`.
- A PRTG that accepts connections and never answers, or that answers 429 or 503 with a
  long Retry-After, takes longer than the default timeout of the tool function, and the
  agent gets no envelope. `FittingCallsAreAnswered` says how long the timeout must be
  for this not to happen.

## 6. Not modelled, and the plan

Not modelled:

- formatting: titles, descriptions, the template's text, log scrubbing and redaction,
  the decoding of PRTG's answers into tables;
- the environment fallback of the PRTG client for local development;
- the query a tool makes of its arguments, and what PRTG makes of it;
- resources of the stacks that no rule relates to another setting: keys, policies, the gateway and its authoriser, the dashboard;
- the alarms on the MCP half, which count what McpCall ends in;
- warnings of the configuration, which change nothing that is deployed, and whether a
  secret of another account needs a key, which depends on the credentials `cdk` runs
  with;
- the demonstration stack, a host for trying things out, and the scripts.

What could follow:

1. The alarms on the MCP half, composed with McpCall as Operations is with AlarmPipeline.
2. Operations with two environments and redrives, so that a redriven message and its
   new task are seen by the alarms.
3. Fanout composed with AlarmPipeline, and there the liveness of a redrive once a table
   or role is repaired.
4. Proofs: that InvocationBudget, with `SdkAttempts` sends, implements an abstract
   budget shared by calls in a row, of which McpCall would be another instance; and that
   the Fanout of one environment projects from that of several.
