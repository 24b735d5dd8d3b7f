----------------------------- MODULE Deployment -----------------------------
(***************************************************************************)
(* What the operator deploys and what stands in the account afterwards:    *)
(* infrastructure/config.py reads and validates a configuration file,      *)
(* app.py synthesises the stacks it asks for, CloudFormation updates them  *)
(* one after the other, and between deployments the operator edits the     *)
(* routing parameter, changes the file, exports other variables, deploys   *)
(* one half only or destroys a half.                                       *)
(*                                                                         *)
(* A configuration is a record with one field per setting. The value of a  *)
(* setting is the class that the rules tell apart; Malformed stands for    *)
(* every text that a rule's pattern does not match, Unset for null. The    *)
(* field others stands for the settings whose rules concern nothing else   *)
(* and are always looked at: region, name prefix, TTL, port, timeouts,     *)
(* retention, ...; external for those looked at with the pipeline only:    *)
(* external ID and deduplication window. The field kinds is not in the     *)
(* file: it says what the account has behind it, the kinds of the subnets  *)
(* given, or found in the VPC that is looked up.                           *)
(***************************************************************************)
EXTENDS Naturals, Sequences

CONSTANTS
    Files,        \* the configuration files considered
    Shells,       \* the environments cdk is started in: Var -> value or Unset
    Unset,        \* None, or an empty string where the code treats both alike
    Empty,        \* an empty string where it does not
    Malformed,    \* a value its pattern rejects
    Odd,          \* an address that Python reads as a network and CDK does not
    Nothing,      \* a stack that does not stand
    Anywhere,     \* 0.0.0.0/0
    Hosts,        \* addresses of single hosts
    DefaultMatch, \* the match of the fallback route
    Onboarded,    \* routes an operator may put into the parameter
    MaxDeploys,   \* bound: deployments started
    Half          \* {"mcp", "pipeline"}

ASSUME HalfAssumption == Half = {"mcp", "pipeline"} /\ MaxDeploys \in Nat
ASSUME UnsetAssumption == Unset # "api.aws"

VARIABLES
    deploys,   \* deployments started so far
    outcome,   \* how the last one left synthesis
    synth,     \* the configuration under deployment
    pending,   \* the stacks it has still to update
    shared,    \* configuration of the shared stack, or Nothing
    half,      \* half[h]: configuration of the stack of half h, or Nothing
    table      \* the routing parameter: match -> role and account

vars == <<deploys, outcome, synth, pending, shared, half, table>>

-----------------------------------------------------------------------------
(***************************************************************************)
(* load_config: references to environment variables are replaced, then     *)
(* keys are checked.                                                       *)
(***************************************************************************)
Given(ref, shell) == IF shell[ref.var] # Unset THEN shell[ref.var] ELSE ref.fallback

\* interpolate_environment. A file refers to variables in two settings; a
\* literal is a reference whose variable nobody exports.
Interpolate(file, shell) ==
    [file EXCEPT !.space = Given(file.space, shell), !.host = Given(file.host, shell)]

ASSUME FileAssumption ==
    \A file \in Files, shell \in Shells : Interpolate(file, shell) # Nothing

\* A variable that is missing, or empty, and has no fallback.
Interpolates(file, shell) ==
    \A ref \in {file.space, file.host} : ref.required => Given(ref, shell) # Unset

Forbidden == {"prtg_passhash", "passhash", "prtg_password", "password", "prtg_username",
              "username", "prtg_api_key", "api_key", "apikey", "apitoken"}

TopLevel == {"region", "account", "name_prefix", "deploy_mcp_server",
             "deploy_alarm_pipeline", "network", "auth", "secret", "prtg", "targeting",
             "observability", "mcp_lambda", "pipeline_lambda",
             "alarm_allowed_source_ips", "alarm_api_private", "tags"}

\* _reject_inline_credentials and the first half of build_config.
KeysAllowed(c) ==
    /\ (c.keys \union c.inner) \intersect Forbidden = {}
    /\ c.keys \subseteq TopLevel
    /\ "region" \in c.keys

-----------------------------------------------------------------------------
(***************************************************************************)
(* The validate methods: a configuration is accepted when none reports an  *)
(* error.                                                                  *)
(***************************************************************************)
IsPrivate(c) == c.network = "private"
EgressCidr(c) == IF c.host # Unset THEN c.host ELSE c.cidr
CreatesVpc(c) == c.vpc = Unset

NetworkAllowed(c) ==
    /\ c.network \in {"nat", "private"}
    /\ c.vpc # Malformed
    /\ c.subnets = c.zones
    /\ c.vpc \in {Unset, Empty} =>
           c.subnets = 0 /\ c.vpcCidr # Malformed /\ c.azs \in 1 .. 3

AuthAllowed(c) ==
    \/ /\ c.auth = "sigv4"
       /\ c.discovery = Unset /\ ~ c.audience /\ ~ c.clients
    \/ /\ c.auth = "oidc" /\ c.provider = "cognito"
       /\ c.discovery = Unset
    \/ /\ c.auth = "oidc" /\ c.provider \in {"entra", "generic"}
       /\ c.discovery \notin {Unset, Malformed}
       /\ c.audience \/ c.clients

SecretAllowed(c) ==
    /\ c.secret \in {"local", "external"}
    /\ c.secret = "external" => c.secretAccount \notin {Unset, Malformed}
    /\ c.secret = "local" => c.secretAccount = Unset
    /\ c.key # Malformed

PrtgAllowed(c) ==
    /\ c.cidr # Unset \/ c.host # Unset
    /\ c.cidr # Malformed
    /\ c.host # Unset => c.host \in Hosts \union {Odd}

SizeAllowed(size) ==
    /\ size.memory \in 128 .. 10240
    /\ size.timeout \in 1 .. 900
    /\ size.reserved # Unset => size.reserved >= 1
    /\ size.provisioned # Unset =>
           /\ size.provisioned >= 1
           /\ size.reserved # Unset => size.provisioned <= size.reserved

Matches(c) == {c.routes[i].match : i \in DOMAIN c.routes}

TargetingAllowed(c) ==
    /\ c.external # Malformed
    /\ \/ /\ c.targeting = "single"
          /\ c.space \notin {Unset, Empty, Malformed}
          /\ c.routes = <<>>
       \/ /\ c.targeting = "fanout"
          /\ ~ c.register
          /\ \A i \in DOMAIN c.routes :
                 /\ c.routes[i].match # Unset
                 /\ c.routes[i].account # Malformed
                 /\ c.routes[i].space # Malformed
          /\ DefaultMatch \in Matches(c)
          /\ \A i, k \in DOMAIN c.routes : c.routes[i].match = c.routes[k].match => i = k

\* _validate_alarm_ingress; the addresses are looked at only when the API is
\* public.
IngressAllowed(c) ==
    ~ c.apiPrivate => c.sources # {} /\ c.sources \intersect {Anywhere, Malformed} = {}

\* _validate_cross_account_secret: skipped when the file names no account.
SecretKeyAllowed(c) ==
    c.secret = "external" /\ c.account # Unset /\ c.secretAccount # c.account
        => c.key # Unset

\* Mutant of RegistrationAllowed: any gateway may be registered.
RegistrationUnchecked(c) == c.register => c.mcp

RegistrationAllowed(c) == c.register => c.auth = "sigv4" /\ c.mcp

\* PrtgMcpConfig.validate. Targeting and ingress are looked at only when the
\* pipeline is deployed.
Allowed(c) ==
    /\ c.account # Malformed /\ c.others # Malformed
    /\ c.mcp \/ c.pipeline
    /\ NetworkAllowed(c) /\ AuthAllowed(c) /\ SecretAllowed(c) /\ PrtgAllowed(c)
    /\ SizeAllowed(c.mcpSize) /\ SizeAllowed(c.pipelineSize)
    /\ c.pipeline => TargetingAllowed(c) /\ IngressAllowed(c)
    /\ SecretKeyAllowed(c) /\ RegistrationAllowed(c)

Accepted(file, shell) ==
    /\ KeysAllowed(file)
    /\ Interpolates(file, shell)
    /\ Allowed(Interpolate(file, shell))

-----------------------------------------------------------------------------
(***************************************************************************)
(* What the stacks are built with.                                         *)
(***************************************************************************)
FullyPrivateEndpoints == {"secretsmanager", "logs", "lambda", "sts", "sqs"}

\* Mutant of Endpoints: what a private fan-out reads its table through is
\* forgotten.
EndpointsWithoutSsm(c) ==
    (IF IsPrivate(c)
     THEN FullyPrivateEndpoints \union (IF c.pipeline THEN {"aidevops-dataplane"} ELSE {})
     ELSE {})
    \union (IF c.apiPrivate /\ c.pipeline THEN {"execute-api"} ELSE {})

\* required_vpc_endpoints
Endpoints(c) ==
    (IF IsPrivate(c)
     THEN FullyPrivateEndpoints
          \union (IF c.auth = "oidc" /\ c.provider = "cognito" THEN {"cognito-idp"} ELSE {})
          \union (IF c.pipeline THEN {"aidevops-dataplane"} ELSE {})
          \union (IF c.pipeline /\ c.targeting = "fanout" THEN {"ssm"} ELSE {})
     ELSE {})
    \union (IF c.apiPrivate /\ c.pipeline THEN {"execute-api"} ELSE {})

\* _wire_egress: where the functions' security group lets them go.
Egress(c) ==
    {"PRTG"} \union (IF Endpoints(c) # {} THEN {"endpoints"} ELSE {})
             \union (IF IsPrivate(c) THEN {} ELSE {"internet"})

\* agent_endpoint_url, and DEVOPS_ENDPOINT_URL in the function.
AgentUrl(c) ==
    IF c.url # Unset THEN c.url
    ELSE IF IsPrivate(c) /\ c.pipeline THEN "api.aws" ELSE Unset

\* What the functions run in. Given subnets are used as they are.
NeededKind(c) == IF IsPrivate(c) THEN "isolated" ELSE "egress"
Placement(c) == IF c.subnets > 0 THEN c.kinds ELSE {NeededKind(c)}

\* routing_table. The rules leave one route for a match.
Entry(route) == [account |-> route.account, space |-> route.space, role |-> route.role]
RoutingTable(c) ==
    [m \in Matches(c) |->
        Entry(c.routes[CHOOSE i \in DOMAIN c.routes : c.routes[i].match = m])]

NoTable == [m \in {} |-> Nothing]
ParameterOf(c) == IF c.targeting = "fanout" THEN RoutingTable(c) ELSE NoTable

\* The text of the parameter in the template: the routes in their order.
Template(c) == IF c.targeting = "fanout" THEN c.routes ELSE <<>>

\* Mutant of MayAssume: with an organisation the policy names the default role.
MayAssumeDefaultRole(c, e) ==
    IF c.organization # Unset
    THEN /\ e.role = "PrtgDevOpsAgentInvestigationRole"
         /\ e.account.organization = c.organization
    ELSE \E i \in DOMAIN c.routes : c.routes[i].role = e.role /\ c.routes[i].account = e.account

\* _grant_investigation_permissions: whether the role of the pipeline may
\* assume the role of entry e. With an organisation every account in it is
\* allowed, under the role names of the routes.
MayAssume(c, e) ==
    \E i \in DOMAIN c.routes :
        /\ c.routes[i].role = e.role
        /\ IF c.organization # Unset THEN e.account.organization = c.organization
           ELSE c.routes[i].account = e.account

\* An assertion of a construct fails.
AssertionFails(c) ==
    \/ EgressCidr(c) = Unset
    \/ c.mcp /\ c.secret = "external" /\ c.secretAccount = Unset
    \/ c.mcp /\ c.register /\ (c.auth # "sigv4" \/ c.space = Unset)
    \/ c.pipeline /\ c.apiPrivate /\ "execute-api" \notin Endpoints(c)

\* A VPC that is only named is looked up in the account of the file.
LooksUp(c) == ~ CreatesVpc(c) /\ c.subnets = 0

\* CDK refuses what it is given: an address of PRTG, of the new VPC (which may
\* also be too small for its subnets) or of a caller of the private API that it
\* does not read; a look-up in no account, or one that does not find the
\* subnets needed.
CdkRefuses(c) ==
    \/ EgressCidr(c) = Odd
    \/ CreatesVpc(c) /\ c.vpcCidr = Odd
    \/ LooksUp(c) /\ (c.account = Unset \/ NeededKind(c) \notin c.kinds)
    \/ c.pipeline /\ c.apiPrivate /\ c.sources \intersect {Odd, Malformed} # {}

SynthesisRaises(c) == AssertionFails(c) \/ CdkRefuses(c)

\* The stacks app.py adds for c.
Enabled(c) == {h \in Half : (h = "mcp" /\ c.mcp) \/ (h = "pipeline" /\ c.pipeline)}

-----------------------------------------------------------------------------
(***************************************************************************)
(* What a function that stands can reach. The calls are those of           *)
(* prtg_client.py, handler.py and routing.py; an interface endpoint        *)
(* answers to the name the SDK asks for, but the one of DevOps Agent to    *)
(* the name in DEVOPS_ENDPOINT_URL only. STS is asked under its regional   *)
(* name.                                                                   *)
(***************************************************************************)
Calls(h, c) ==
    IF h = "mcp" THEN {"secretsmanager"}
    ELSE {"devops-agent", "sqs"} \union (IF c.targeting = "fanout" THEN {"ssm", "sts"} ELSE {})

AnsweredBy(service, url) ==
    IF service # "devops-agent" THEN service
    ELSE IF url = "api.aws" THEN "aidevops-dataplane" ELSE "none"

\* A function built with c has a route to service, in the network of net: an
\* endpoint, or the NAT gateway of the subnets it was placed in.
Reaches(net, c, service) ==
    \/ /\ "endpoints" \in Egress(net)
       /\ AnsweredBy(service, AgentUrl(c)) \in Endpoints(net)
    \/ "internet" \in Egress(net) /\ Placement(c) = {"egress"}

-----------------------------------------------------------------------------
Init ==
    /\ deploys = 0
    /\ outcome = "none"
    /\ synth = Nothing /\ pending = {}
    /\ shared = Nothing
    /\ half = [h \in Half |-> Nothing]
    /\ table = NoTable

stacks == <<shared, half, table>>

\* app.py with a configuration that load_config refuses.
Refuse(file, shell) ==
    /\ pending = {} /\ deploys < MaxDeploys
    /\ ~ Accepted(file, shell)
    /\ deploys' = deploys + 1
    /\ outcome' = "refused"
    /\ UNCHANGED <<synth, pending, stacks>>

\* app.py raises while it builds the stacks.
Raise(file, shell) ==
    /\ pending = {} /\ deploys < MaxDeploys
    /\ Accepted(file, shell) /\ SynthesisRaises(Interpolate(file, shell))
    /\ deploys' = deploys + 1
    /\ outcome' = "raised"
    /\ synth' = Interpolate(file, shell)
    /\ UNCHANGED <<pending, stacks>>

\* make deploy, deploy-mcp or deploy-pipeline: the chosen stacks and the
\* shared one, on which they depend.
Start(file, shell, chosen) ==
    /\ pending = {} /\ deploys < MaxDeploys
    /\ Accepted(file, shell) /\ ~ SynthesisRaises(Interpolate(file, shell))
    /\ chosen # {} /\ chosen \subseteq Enabled(Interpolate(file, shell))
    /\ deploys' = deploys + 1
    /\ outcome' = "synthesised"
    /\ synth' = Interpolate(file, shell)
    /\ pending' = chosen \union {"shared"}
    /\ UNCHANGED stacks

\* CloudFormation refuses to delete or replace an export that another stack
\* imports: the VPC with the security group and the subnets of both halves,
\* the endpoint of a private API.
StillImported ==
    \E h \in Half :
        /\ half[h] # Nothing
        /\ \/ shared.vpc # synth.vpc
           \/ /\ CreatesVpc(shared)
              /\ \/ shared.network # synth.network \/ shared.vpcCidr # synth.vpcCidr
                 \/ synth.azs < shared.azs
           \/ /\ h = "pipeline" /\ half[h].apiPrivate
              /\ "execute-api" \notin Endpoints(synth)

UpdateShared ==
    /\ "shared" \in pending
    /\ ~ StillImported
    /\ pending' = pending \ {"shared"}
    /\ shared' = synth
    /\ UNCHANGED <<deploys, outcome, synth, half, table>>

\* Mutant of UpdateHalf: the halves do not depend on the shared stack.
UpdateHalfAtOnce(h) ==
    /\ h \in pending
    /\ pending' = pending \ {h}
    /\ half' = [half EXCEPT ![h] = synth]
    /\ table' = IF h = "pipeline" THEN ParameterOf(synth) ELSE table
    /\ UNCHANGED <<deploys, outcome, synth, shared>>

\* CloudFormation writes the parameter only when the template's value for it
\* has changed, so an operator's edit outlives other updates.
UpdateHalf(h) ==
    /\ h \in pending /\ "shared" \notin pending
    /\ pending' = pending \ {h}
    /\ half' = [half EXCEPT ![h] = synth]
    /\ table' = IF \/ h # "pipeline"
                   \/ /\ half[h] # Nothing
                      /\ Template(half[h]) = Template(synth)
                THEN table ELSE ParameterOf(synth)
    /\ UNCHANGED <<deploys, outcome, synth, shared>>

\* A stack fails and is rolled back: the rest of the deployment is given up.
GiveUp ==
    /\ pending # {}
    /\ pending' = {}
    /\ UNCHANGED <<deploys, outcome, synth, stacks>>

\* cdk destroy of one half.
Destroy(h) ==
    /\ pending = {} /\ half[h] # Nothing
    /\ half' = [half EXCEPT ![h] = Nothing]
    /\ table' = IF h = "pipeline" THEN NoTable ELSE table
    /\ UNCHANGED <<deploys, outcome, synth, pending, shared>>

Fanout == half["pipeline"] # Nothing /\ half["pipeline"].targeting = "fanout"

\* The operator onboards a workload account by editing the parameter.
Onboard(route) ==
    /\ Fanout
    /\ table' = [m \in DOMAIN table \union {route.match} |->
                    IF m = route.match THEN Entry(route) ELSE table[m]]
    /\ UNCHANGED <<deploys, outcome, synth, pending, shared, half>>

Next ==
    \/ \E file \in Files, shell \in Shells :
           \/ Refuse(file, shell)
           \/ Raise(file, shell)
           \/ \E chosen \in SUBSET Half : Start(file, shell, chosen)
    \/ UpdateShared
    \/ \E h \in Half : UpdateHalf(h) \/ Destroy(h)
    \/ GiveUp
    \/ \E route \in Onboarded : Onboard(route)

Spec == Init /\ [][Next]_vars

-----------------------------------------------------------------------------
TypeOK ==
    /\ deploys \in 0 .. MaxDeploys
    /\ outcome \in {"none", "refused", "raised", "synthesised"}
    /\ pending \subseteq {"shared"} \union Half
    /\ pending # {} => synth # Nothing /\ pending \ {"shared"} \subseteq Enabled(synth)
    /\ DOMAIN half = Half
    /\ \A h \in Half : half[h] # Nothing => shared # Nothing /\ h \in Enabled(half[h])

\* The settings, of the shared stack and of half h, that decide whether half h
\* can make its calls. Under a nat network it runs in subnets with a NAT route;
\* under a private one a pipeline asks for the agent under the name of the
\* endpoint, and the network was built for a pipeline, and for fan-out if it
\* fans out.
Fits(h) ==
    LET c == half[h]
    IN  IF IsPrivate(shared)
        THEN h = "pipeline" =>
                 /\ shared.pipeline
                 /\ c.url = "api.aws" \/ (c.url = Unset /\ IsPrivate(c))
                 /\ c.targeting = "fanout" => shared.targeting = "fanout"
        ELSE IF c.subnets > 0 THEN c.kinds = {"egress"} ELSE ~ IsPrivate(c)

\* However the halves were deployed, redeployed and given up halfway, a
\* function that stands has a route, and a name that is answered, for every AWS
\* call it makes (required_vpc_endpoints, agent_endpoint_url, _select_subnets
\* and _wire_egress together) exactly when the settings of the shared stack, as
\* last deployed, fit its own; and those of one configuration fit each other,
\* subnets and endpoint URL given by hand apart.
CallsHaveRoutes ==
    \A h \in Half :
        half[h] # Nothing =>
            /\ (\A service \in Calls(h, half[h]) : Reaches(shared, half[h], service)) <=> Fits(h)
            /\ shared = half[h] /\ shared.subnets = 0 /\ shared.url = Unset => Fits(h)

\* A pipeline that stands has somewhere to send every alarm: a space or, in
\* fan-out, a default route; and it may assume the role of each route that
\* is as the file has it and in the organisation (_build_routing_parameter
\* and _grant_investigation_permissions), edits and redeployments besides. The
\* edits are those of Onboard: none removes the default route, and a route that
\* was edited may name a role the pipeline may not assume.
AlarmsHaveTarget ==
    half["pipeline"] # Nothing =>
        LET c == half["pipeline"]
        IN  IF c.targeting = "single" THEN c.space \notin {Unset, Empty, Malformed}
            ELSE /\ DefaultMatch \in DOMAIN table
                 /\ \A m \in Matches(c) :
                        /\ m \in DOMAIN table
                        /\ \/ table[m] # RoutingTable(c)[m]
                           \/ c.organization \notin {Unset, table[m].account.organization}
                           \/ MayAssume(c, table[m])

\* What the constructs assert of an accepted configuration, and say that
\* validation guarantees, holds, except where a gateway is registered without a
\* pipeline and so without a look at the space. What CDK refuses is another
\* matter: validation reads addresses with another eye, and knows no account.
AssertionsHold ==
    outcome = "raised" =>
        CdkRefuses(synth) \/ (~ synth.pipeline /\ synth.register /\ synth.space = Unset)
=============================================================================
