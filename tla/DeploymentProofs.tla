-------------------------- MODULE DeploymentProofs --------------------------
(***************************************************************************)
(* Proofs about Deployment, for every set of files and shells and any      *)
(* number of deployments.                                                  *)
(***************************************************************************)
EXTENDS Deployment, TLAPS

(***************************************************************************)
(* The invariant: what stands, and what is under way, passed validation    *)
(* and was synthesised for the half in question; the shared stack comes    *)
(* first; and the parameter has an entry for every route of the pipeline   *)
(* that stands.                                                            *)
(***************************************************************************)
UnderWay ==
    pending # {} =>
        /\ synth # Nothing /\ Allowed(synth)
        /\ pending \ {"shared"} \subseteq Enabled(synth)
        /\ "shared" \notin pending => shared # Nothing

Standing ==
    \A h \in Half :
        half[h] # Nothing =>
            shared # Nothing /\ h \in Enabled(half[h]) /\ Allowed(half[h])

Parameter ==
    Fanout => Matches(half["pipeline"]) \subseteq DOMAIN table

IInv ==
    /\ TypeOK
    /\ outcome = "raised" => Allowed(synth) /\ SynthesisRaises(synth)
    /\ UnderWay
    /\ Standing
    /\ Parameter

-----------------------------------------------------------------------------
(***************************************************************************)
(* Facts about an accepted configuration.                                  *)
(***************************************************************************)
\* An accepted fan-out has a default route, and no two routes of one match.
LEMMA FanoutRoutes ==
    ASSUME NEW c, Allowed(c), c.pipeline, c.targeting = "fanout"
    PROVE  /\ DefaultMatch \in Matches(c)
           /\ \A i, k \in DOMAIN c.routes : c.routes[i].match = c.routes[k].match => i = k
BY DEF Allowed, TargetingAllowed

\* The function's role may assume the role of every route of the table it
\* was deployed with, unless the account is outside the organisation.
LEMMA RoutesAreAssumable ==
    ASSUME NEW c, Allowed(c), c.pipeline, c.targeting = "fanout", NEW m \in Matches(c)
    PROVE  \/ c.organization \notin {Unset, RoutingTable(c)[m].account.organization}
           \/ MayAssume(c, RoutingTable(c)[m])
<1> DEFINE i == CHOOSE i \in DOMAIN c.routes : c.routes[i].match = m
<1>1. i \in DOMAIN c.routes /\ c.routes[i].match = m
  BY DEF Matches
<1>2. RoutingTable(c)[m] = Entry(c.routes[i])
  BY DEF RoutingTable
<1>3. /\ RoutingTable(c)[m].role = c.routes[i].role
      /\ RoutingTable(c)[m].account = c.routes[i].account
  BY <1>2 DEF Entry
<1> HIDE DEF i
<1>4. c.organization \notin {Unset, RoutingTable(c)[m].account.organization}
          \/ (c.organization # Unset => RoutingTable(c)[m].account.organization = c.organization)
  OBVIOUS
<1> QED BY <1>1, <1>3, <1>4 DEF MayAssume

\* The assertions of the constructs hold, but for a gateway registered without
\* a pipeline.
LEMMA AcceptedAsserts ==
    ASSUME NEW c, Allowed(c), AssertionFails(c)
    PROVE  ~ c.pipeline /\ c.register /\ c.space = Unset
<1>1. EgressCidr(c) # Unset
  BY DEF Allowed, PrtgAllowed, EgressCidr
<1>2. ~ (c.secret = "external" /\ c.secretAccount = Unset)
  BY DEF Allowed, SecretAllowed
<1>3. c.register => c.auth = "sigv4"
  BY DEF Allowed, RegistrationAllowed
<1>4. c.register /\ c.pipeline => c.space # Unset
  BY DEF Allowed, TargetingAllowed
<1>5. c.pipeline /\ c.apiPrivate => "execute-api" \in Endpoints(c)
  BY DEF Endpoints
<1> QED BY <1>1, <1>2, <1>3, <1>4, <1>5 DEF AssertionFails

\* Where the functions run.
LEMMA Placed ==
    ASSUME NEW c
    PROVE  Placement(c) = {"egress"} <=>
               IF c.subnets > 0 THEN c.kinds = {"egress"} ELSE ~ IsPrivate(c)
BY DEF Placement, NeededKind

\* A private network answers half h exactly when it was built for its calls.
LEMMA RoutesInPrivate ==
    ASSUME NEW h \in Half, NEW c, NEW net, h \in Enabled(c), IsPrivate(net)
    PROVE  (\A service \in Calls(h, c) : Reaches(net, c, service)) <=>
               (h = "pipeline" =>
                    /\ net.pipeline
                    /\ c.url = "api.aws" \/ (c.url = Unset /\ IsPrivate(c))
                    /\ c.targeting = "fanout" => net.targeting = "fanout")
<1>1. /\ FullyPrivateEndpoints \subseteq Endpoints(net)
      /\ "aidevops-dataplane" \in Endpoints(net) <=> net.pipeline
      /\ "ssm" \in Endpoints(net) <=> net.pipeline /\ net.targeting = "fanout"
      /\ "none" \notin Endpoints(net)
  BY DEF Endpoints, FullyPrivateEndpoints
<1>2. "endpoints" \in Egress(net) /\ "internet" \notin Egress(net)
  <2>1. "sqs" \in Endpoints(net)
    BY <1>1 DEF FullyPrivateEndpoints
  <2> QED BY <2>1 DEF Egress
<1>3. ASSUME NEW service
      PROVE  Reaches(net, c, service) <=> AnsweredBy(service, AgentUrl(c)) \in Endpoints(net)
  BY <1>2 DEF Reaches
<1>4. CASE h = "mcp"
  BY <1>1, <1>3, <1>4 DEF Calls, AnsweredBy, FullyPrivateEndpoints
<1>5. CASE h = "pipeline"
  <2>1. c.pipeline
    BY <1>5 DEF Enabled
  <2>2. AgentUrl(c) = "api.aws" <=> c.url = "api.aws" \/ (c.url = Unset /\ IsPrivate(c))
    BY <2>1, UnsetAssumption DEF AgentUrl
  <2>3. Reaches(net, c, "devops-agent") <=>
            net.pipeline /\ (c.url = "api.aws" \/ (c.url = Unset /\ IsPrivate(c)))
    BY <1>1, <1>3, <2>2 DEF AnsweredBy
  <2>4. Reaches(net, c, "sqs") /\ Reaches(net, c, "sts")
    BY <1>1, <1>3 DEF AnsweredBy, FullyPrivateEndpoints
  <2>5. Reaches(net, c, "ssm") <=> net.pipeline /\ net.targeting = "fanout"
    BY <1>1, <1>3 DEF AnsweredBy
  <2> QED BY <1>5, <2>3, <2>4, <2>5 DEF Calls
<1> QED BY <1>4, <1>5, HalfAssumption

\* A nat network answers half h exactly when it runs behind the NAT gateway.
LEMMA RoutesThroughNat ==
    ASSUME NEW h \in Half, NEW c, NEW net, ~ IsPrivate(net)
    PROVE  (\A service \in Calls(h, c) : Reaches(net, c, service)) <=> Placement(c) = {"egress"}
<1>1. "internet" \in Egress(net)
  BY DEF Egress
<1>2. ASSUME NEW service \in Calls(h, c)
      PROVE  AnsweredBy(service, AgentUrl(c)) \notin Endpoints(net)
  BY DEF Calls, AnsweredBy, Endpoints
<1>3. \E service : service \in Calls(h, c)
  BY DEF Calls
<1> QED BY <1>1, <1>2, <1>3 DEF Reaches

-----------------------------------------------------------------------------
LEMMA InitEstablishes == Init => IInv
BY HalfAssumption DEF Init, IInv, TypeOK, UnderWay, Standing, Parameter, Fanout

\* Starting a deployment, or failing to, leaves what stands as it is.
LEMMA StartsKeep ==
    ASSUME IInv, NEW file \in Files, NEW shell \in Shells, NEW chosen \in SUBSET Half,
           Refuse(file, shell) \/ Raise(file, shell) \/ Start(file, shell, chosen)
    PROVE  IInv'
<1> DEFINE c == Interpolate(file, shell)
<1>1. deploys' \in 0 .. MaxDeploys
  <2>1. deploys < MaxDeploys /\ deploys' = deploys + 1
    BY DEF Refuse, Raise, Start
  <2>2. deploys \in 0 .. MaxDeploys
    BY DEF IInv, TypeOK
  <2> QED BY <2>1, <2>2, HalfAssumption
<1>3. UNCHANGED stacks
  BY DEF Refuse, Raise, Start
<1>4. Standing' /\ Parameter'
  BY <1>3 DEF IInv, Standing, Parameter, Fanout, stacks
<1>5. DOMAIN half' = Half
      /\ \A h \in Half : half'[h] # Nothing => shared' # Nothing /\ h \in Enabled(half'[h])
  BY <1>3 DEF IInv, TypeOK, stacks
<1>6. CASE Refuse(file, shell)
  BY <1>1, <1>4, <1>5, <1>6 DEF Refuse, IInv, TypeOK, UnderWay
<1>7. c # Nothing
  BY FileAssumption
<1>8. CASE Raise(file, shell)
  <2>1. Allowed(c) /\ SynthesisRaises(c) /\ synth' = c
    BY <1>8 DEF Raise, Accepted
  <2> QED BY <1>1, <1>4, <1>5, <1>8, <2>1 DEF Raise, IInv, TypeOK, UnderWay
<1>9. CASE Start(file, shell, chosen)
  <2>1. Allowed(c) /\ synth' = c /\ chosen \subseteq Enabled(c)
    BY <1>9 DEF Start, Accepted
  <2>2. pending' = chosen \union {"shared"} /\ outcome' = "synthesised"
    BY <1>9 DEF Start
  <2>3. UnderWay'
    BY <1>7, <2>1, <2>2 DEF UnderWay
  <2> HIDE DEF c
  <2> QED BY <1>1, <1>4, <1>5, <1>7, <2>1, <2>2, <2>3 DEF IInv, TypeOK
<1> QED BY <1>6, <1>8, <1>9

LEMMA UpdateSharedKeeps == ASSUME IInv, UpdateShared PROVE IInv'
<1>1. shared' = synth /\ shared' # Nothing
  BY DEF IInv, UpdateShared, UnderWay
<1>2. Standing' /\ Parameter'
  BY <1>1 DEF IInv, UpdateShared, Standing, Parameter, Fanout
<1>3. UnderWay'
  BY <1>1 DEF IInv, UpdateShared, UnderWay
<1> QED BY <1>1, <1>2, <1>3 DEF IInv, TypeOK, UpdateShared

\* The parameter is left alone only when the routes it was written from are
\* those of the new configuration.
LEMMA UpdateHalfKeeps == ASSUME IInv, NEW h \in Half, UpdateHalf(h) PROVE IInv'
<1>1. h # "shared"
  BY HalfAssumption
<1>2. /\ synth # Nothing /\ Allowed(synth) /\ h \in Enabled(synth)
      /\ shared # Nothing
  BY <1>1 DEF IInv, UpdateHalf, UnderWay
<1>3. half' = [half EXCEPT ![h] = synth] /\ DOMAIN half = Half
  BY DEF IInv, TypeOK, UpdateHalf
<1>4. UNCHANGED <<deploys, outcome, synth, shared>> /\ pending' = pending \ {h}
  BY DEF UpdateHalf
<1>5. Standing'
  BY <1>2, <1>3, <1>4 DEF IInv, Standing
<1>6. UnderWay'
  BY <1>2, <1>4 DEF IInv, UnderWay
<1>7. Parameter'
  <2>1. CASE h # "pipeline"
    <3>1. half'["pipeline"] = half["pipeline"] /\ table' = table
      BY <1>3, <2>1, HalfAssumption DEF UpdateHalf
    <3> QED BY <3>1 DEF IInv, Parameter, Fanout
  <2>2. CASE h = "pipeline" /\ synth.targeting = "fanout"
    <3>1. half'["pipeline"] = synth /\ DOMAIN RoutingTable(synth) = Matches(synth)
      BY <1>3, <2>2 DEF RoutingTable
    <3>2. CASE table' = ParameterOf(synth)
      BY <2>2, <3>1, <3>2 DEF Parameter, ParameterOf
    <3>3. CASE table' # ParameterOf(synth)
      <4>1. /\ half[h] # Nothing /\ table' = table
            /\ Template(half[h]) = synth.routes
        BY <2>2, <3>3 DEF UpdateHalf, Template
      <4>2. synth.pipeline
        BY <1>2, <2>2 DEF Enabled
      <4>3. synth.routes # << >>
        <5>1. DefaultMatch \in Matches(synth)
          BY <1>2, <2>2, <4>2, FanoutRoutes
        <5> QED BY <5>1 DEF Matches
      <4>4. half[h].targeting = "fanout" /\ half[h].routes = synth.routes
        BY <4>1, <4>3 DEF Template
      <4>6. Matches(half[h]) = Matches(synth)
        BY <4>4 DEF Matches
      <4> QED BY <2>2, <3>1, <4>1, <4>4, <4>6 DEF IInv, Parameter, Fanout
    <3> QED BY <3>2, <3>3
  <2>3. CASE h = "pipeline" /\ synth.targeting # "fanout"
    BY <1>3, <2>3 DEF Parameter, Fanout
  <2> QED BY <2>1, <2>2, <2>3
<1> QED BY <1>2, <1>3, <1>4, <1>5, <1>6, <1>7 DEF IInv, TypeOK

LEMMA DestroyKeeps == ASSUME IInv, NEW h \in Half, Destroy(h) PROVE IInv'
<1>1. half' = [half EXCEPT ![h] = Nothing] /\ DOMAIN half = Half
  BY DEF IInv, TypeOK, Destroy
<1>2. UNCHANGED <<deploys, outcome, synth, pending, shared>>
  BY DEF Destroy
<1>3. Standing' /\ UnderWay'
  BY <1>1, <1>2 DEF IInv, Standing, UnderWay
<1>4. Parameter'
  BY <1>1, HalfAssumption DEF IInv, Destroy, Parameter, Fanout
<1> QED BY <1>1, <1>2, <1>3, <1>4 DEF IInv, TypeOK

LEMMA OnboardKeeps == ASSUME IInv, NEW route \in Onboarded, Onboard(route) PROVE IInv'
<1>1. DOMAIN table \subseteq DOMAIN table'
  BY DEF Onboard
<1>2. UNCHANGED <<deploys, outcome, synth, pending, shared, half>>
  BY DEF Onboard
<1> QED BY <1>1, <1>2 DEF IInv, TypeOK, UnderWay, Standing, Parameter, Fanout

LEMMA NextKeeps == IInv /\ [Next]_vars => IInv'
<1> SUFFICES ASSUME IInv, [Next]_vars PROVE IInv'
  OBVIOUS
<1>1. CASE \E file \in Files, shell \in Shells :
               \/ Refuse(file, shell) \/ Raise(file, shell)
               \/ \E chosen \in SUBSET Half : Start(file, shell, chosen)
  <2>1. PICK file \in Files, shell \in Shells, chosen \in SUBSET Half :
            Refuse(file, shell) \/ Raise(file, shell) \/ Start(file, shell, chosen)
    BY <1>1
  <2> QED BY <2>1, StartsKeep
<1>2. CASE UpdateShared
  BY <1>2, UpdateSharedKeeps
<1>3. CASE \E h \in Half : UpdateHalf(h) \/ Destroy(h)
  BY <1>3, UpdateHalfKeeps, DestroyKeeps
<1>4. CASE GiveUp
  BY <1>4 DEF GiveUp, stacks, IInv, TypeOK, UnderWay, Standing, Parameter, Fanout
<1>5. CASE \E route \in Onboarded : Onboard(route)
  BY <1>5, OnboardKeeps
<1>6. CASE UNCHANGED vars
  BY <1>6 DEF vars, IInv, TypeOK, UnderWay, Standing, Parameter, Fanout
<1> QED BY <1>1, <1>2, <1>3, <1>4, <1>5, <1>6 DEF Next

-----------------------------------------------------------------------------
\* Every state of Deployment satisfies the invariant.
THEOREM Invariant == Spec => []IInv
BY InitEstablishes, NextKeeps, PTL DEF Spec

\* The variables keep their types; in particular a half stands only on a
\* shared stack and only when its configuration asks for it.
THEOREM TypeCorrect == Spec => []TypeOK
<1>1. IInv => TypeOK
  BY DEF IInv
<1> QED BY <1>1, Invariant, PTL

\* Whatever files were deployed, in part, given up and destroyed, a function
\* that stands has a route for every call exactly when the shared stack fits it.
THEOREM RoutesForCalls == Spec => []CallsHaveRoutes
<1>1. IInv => CallsHaveRoutes
  <2> SUFFICES ASSUME IInv, NEW h \in Half, half[h] # Nothing
               PROVE  /\ (\A service \in Calls(h, half[h]) : Reaches(shared, half[h], service))
                             <=> Fits(h)
                      /\ shared = half[h] /\ shared.subnets = 0 /\ shared.url = Unset => Fits(h)
    BY DEF CallsHaveRoutes
  <2>1. h \in Enabled(half[h])
    BY DEF IInv, Standing
  <2>2. CASE IsPrivate(shared)
    <3>1. ASSUME shared = half[h], shared.url = Unset PROVE Fits(h)
      BY <2>1, <2>2, <3>1 DEF Fits, Enabled
    <3> QED BY <2>1, <2>2, <3>1, RoutesInPrivate DEF Fits
  <2>3. CASE ~ IsPrivate(shared)
    BY <2>3, RoutesThroughNat, Placed DEF Fits
  <2> QED BY <2>2, <2>3
<1> QED BY <1>1, Invariant, PTL

\* A pipeline that stands has a target for every alarm, and the roles of the
\* routes in its file.
THEOREM TargetsForAlarms == Spec => []AlarmsHaveTarget
<1>1. IInv => AlarmsHaveTarget
  <2> SUFFICES ASSUME IInv, half["pipeline"] # Nothing PROVE AlarmsHaveTarget
    BY DEF AlarmsHaveTarget
  <2> DEFINE c == half["pipeline"]
  <2>1. Allowed(c) /\ c.pipeline
    BY HalfAssumption DEF IInv, Standing, Enabled
  <2>2. CASE c.targeting = "single"
    <3>1. c.space \notin {Unset, Empty, Malformed}
      BY <2>1, <2>2 DEF Allowed, TargetingAllowed
    <3> QED BY <2>2, <3>1 DEF AlarmsHaveTarget
  <2>3. CASE c.targeting = "fanout"
    <3>1. Matches(c) \subseteq DOMAIN table /\ DefaultMatch \in Matches(c)
      BY <2>1, <2>3, FanoutRoutes DEF IInv, Parameter, Fanout
    <3>2. ASSUME NEW m \in Matches(c)
          PROVE  \/ table[m] # RoutingTable(c)[m]
                 \/ c.organization \notin {Unset, table[m].account.organization}
                 \/ MayAssume(c, table[m])
      BY <2>1, <2>3, RoutesAreAssumable
    <3> HIDE DEF c
    <3>3. /\ DefaultMatch \in DOMAIN table
          /\ \A m \in Matches(c) :
                 /\ m \in DOMAIN table
                 /\ \/ table[m] # RoutingTable(c)[m]
                    \/ c.organization \notin {Unset, table[m].account.organization}
                    \/ MayAssume(c, table[m])
      BY <3>1, <3>2
    <3> QED BY <2>3, <3>3 DEF AlarmsHaveTarget, c
  <2> QED BY <2>1, <2>2, <2>3 DEF Allowed, TargetingAllowed
<1> QED BY <1>1, Invariant, PTL

\* An accepted configuration that CDK takes fails an assertion in one case only.
THEOREM Assertions == Spec => []AssertionsHold
<1>1. IInv => AssertionsHold
  BY AcceptedAsserts DEF IInv, AssertionsHold, SynthesisRaises
<1> QED BY <1>1, Invariant, PTL
=============================================================================
