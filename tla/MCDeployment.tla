---------------------------- MODULE MCDeployment ----------------------------
(***************************************************************************)
(* Instances of Deployment for TLC.                                        *)
(***************************************************************************)
EXTENDS Deployment

CONSTANTS prtg, public, range, vpc, arn, org, default, team

Literal(value) == [var |-> "none", fallback |-> value, required |-> FALSE]
WithFallback(value) == [var |-> "PRTG_PRIVATE_IP", fallback |-> value, required |-> FALSE]
Required == [var |-> "DEVOPS_AGENT_SPACE_ID", fallback |-> Unset, required |-> TRUE]

\* A shell with the space exported, and a fresh one; PRTG's address is left to
\* the fallback in both.
SomeShells ==
    {[none |-> Unset, PRTG_PRIVATE_IP |-> Unset, DEVOPS_AGENT_SPACE_ID |-> s] : s \in {"as-1", Unset}}

Account(n, o) == [id |-> n, organization |-> o]
Own == Account("own", org)
Workload == Account("workload", org)
Outsider == Account("outsider", Unset)

Route(m, a, r) == [match |-> m, account |-> a, space |-> "as-1", role |-> r]
DefaultRole == "PrtgDevOpsAgentInvestigationRole"
Routes == <<Route(default, Own, DefaultRole), Route(team, Workload, "TeamRole")>>

\* A new account under the default role, and one that is in no organisation.
SomeOnboarded == {Route("new", Workload, DefaultRole), Route(team, Outsider, DefaultRole)}

Size(memory, timeout, reserved, provisioned) ==
    [memory |-> memory, timeout |-> timeout, reserved |-> reserved, provisioned |-> provisioned]

\* config/default.yaml, into a VPC that exists and is looked up.
Base ==
    [keys |-> {"region", "network", "tags"}, inner |-> {"mode"}, others |-> "fine", external |-> "fine",
     account |-> Own, mcp |-> TRUE, pipeline |-> TRUE,
     network |-> "nat", vpc |-> vpc, subnets |-> 0, zones |-> 0, azs |-> 2,
     vpcCidr |-> range, kinds |-> {"egress", "isolated"},
     auth |-> "sigv4", provider |-> Unset, discovery |-> Unset,
     audience |-> FALSE, clients |-> FALSE,
     secret |-> "local", secretAccount |-> Unset, key |-> Unset,
     cidr |-> Unset, host |-> WithFallback(prtg),
     targeting |-> "single", space |-> Required, routes |-> <<>>, organization |-> Unset,
     register |-> FALSE, url |-> Unset,
     apiPrivate |-> FALSE, sources |-> {public},
     mcpSize |-> Size(256, 30, 10, Unset), pipelineSize |-> Size(256, 30, 10, Unset)]

Targetings ==
    {[Base EXCEPT !.space = Required],
     [Base EXCEPT !.targeting = "fanout", !.routes = Routes, !.space = Literal(Unset)],
     [Base EXCEPT !.targeting = "fanout", !.routes = Routes, !.space = Literal(Unset),
                  !.organization = org]}

\* The halves, the network, the API and the targeting in every combination.
Shapes ==
    {[c EXCEPT !.mcp = halves[1], !.pipeline = halves[2], !.network = n, !.apiPrivate = p] :
        c \in Targetings, halves \in {<<TRUE, TRUE>>, <<TRUE, FALSE>>, <<FALSE, TRUE>>},
        n \in {"nat", "private"}, p \in BOOLEAN}

\* One rule broken, or one setting changed, at a time.
Variants ==
    {[Base EXCEPT !.keys = @ \union {"regions"}], [Base EXCEPT !.inner = {"prtg_api_key"}],
     [Base EXCEPT !.keys = @ \ {"region"}], [Base EXCEPT !.others = Malformed],
     [Base EXCEPT !.account = Malformed], [Base EXCEPT !.mcp = FALSE, !.pipeline = FALSE],
     [Base EXCEPT !.network = "public"], [Base EXCEPT !.subnets = 2],
     [Base EXCEPT !.subnets = 2, !.zones = 2, !.kinds = {"egress"}],
     [Base EXCEPT !.subnets = 2, !.zones = 2, !.kinds = {"isolated"}],
     [Base EXCEPT !.subnets = 2, !.zones = 2, !.kinds = {"isolated"}, !.network = "private"],
     [Base EXCEPT !.vpc = Unset], [Base EXCEPT !.vpc = Unset, !.azs = 1],
     [Base EXCEPT !.vpc = Unset, !.network = "private"], [Base EXCEPT !.vpc = Unset, !.azs = 4],
     [Base EXCEPT !.vpc = Unset, !.vpcCidr = Odd], [Base EXCEPT !.vpc = Unset, !.vpcCidr = Malformed],
     [Base EXCEPT !.vpc = Empty], [Base EXCEPT !.vpc = Empty, !.subnets = 2, !.zones = 2],
     [Base EXCEPT !.account = Unset], [Base EXCEPT !.kinds = {"isolated"}],
     [Base EXCEPT !.external = Malformed], [Base EXCEPT !.external = Malformed, !.pipeline = FALSE],
     [Base EXCEPT !.host = Literal(Odd)],
     [Base EXCEPT !.clients = TRUE], [Base EXCEPT !.auth = "oidc"],
     [Base EXCEPT !.auth = "oidc", !.provider = "cognito", !.network = "private"],
     [Base EXCEPT !.auth = "oidc", !.provider = "entra", !.discovery = "url"],
     [Base EXCEPT !.auth = "oidc", !.provider = "entra", !.discovery = "url", !.clients = TRUE],
     [Base EXCEPT !.secret = "external"], [Base EXCEPT !.secretAccount = Own],
     [Base EXCEPT !.secret = "external", !.secretAccount = Workload],
     [Base EXCEPT !.secret = "external", !.secretAccount = Workload, !.vpc = Unset, !.account = Unset],
     [Base EXCEPT !.secret = "external", !.secretAccount = Workload, !.key = arn],
     [Base EXCEPT !.host = Literal(Unset)], [Base EXCEPT !.host = Literal(range)],
     [Base EXCEPT !.host = Literal(Unset), !.cidr = range],
     [Base EXCEPT !.mcpSize.provisioned = 11], [Base EXCEPT !.pipelineSize.timeout = 901],
     [Base EXCEPT !.mcpSize.reserved = Unset, !.mcpSize.provisioned = 11],
     [Base EXCEPT !.space = Literal(Malformed)], [Base EXCEPT !.space = Literal("as-2")],
     [Base EXCEPT !.register = TRUE],
     [Base EXCEPT !.register = TRUE, !.auth = "oidc", !.provider = "cognito"],
     [Base EXCEPT !.register = TRUE, !.pipeline = FALSE, !.space = Literal(Unset)],
     [Base EXCEPT !.register = TRUE, !.pipeline = FALSE, !.space = Literal(Empty)],
     [Base EXCEPT !.register = TRUE, !.mcp = FALSE],
     [Base EXCEPT !.routes = Routes], [Base EXCEPT !.targeting = "fanout"],
     [Base EXCEPT !.targeting = "fanout", !.space = Literal(Unset), !.routes = SubSeq(Routes, 2, 2)],
     [Base EXCEPT !.targeting = "fanout", !.space = Literal(Unset), !.routes = Routes \o Routes],
     [Base EXCEPT !.targeting = "fanout", !.space = Literal(Unset), !.routes = SubSeq(Routes, 1, 1)],
     [Base EXCEPT !.targeting = "fanout", !.space = Literal(Unset), !.routes = <<Routes[2], Routes[1]>>],
     [Base EXCEPT !.sources = {}], [Base EXCEPT !.sources = {Anywhere}],
     [Base EXCEPT !.apiPrivate = TRUE, !.sources = {Malformed}],
     [Base EXCEPT !.apiPrivate = TRUE, !.sources = {Odd}], [Base EXCEPT !.sources = {Odd}],
     [Base EXCEPT !.apiPrivate = TRUE, !.sources = {prtg}],
     [Base EXCEPT !.apiPrivate = TRUE, !.sources = {}],
     [Base EXCEPT !.network = "private", !.url = "fips"], [Base EXCEPT !.url = "api.aws"]}

SomeFiles == Shapes \union Variants
=============================================================================
