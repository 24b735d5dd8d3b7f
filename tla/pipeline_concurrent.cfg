SPECIFICATION FairSpec
CONSTANTS
    Env = {e1, e2}
    Notification = {n1, n2}
    Alarm = {a1, a2}
    Body = {b1, b2}
    a1 = a1
    a2 = a2
    b1 = b1
    b2 = b2
    NoEvent = NoEvent
    NoJob = NoJob
    NoToken = NoToken
    NoSpace = NoSpace
    Space = {s1}
    Events <- CoreEvents
    Dedup = TRUE
    SkipTests = TRUE
    QueueConfigured = TRUE
    RouteOutcomes = {"Target", "RoutingError", "AttributeError"}
    RedriveWays = {}
    SdkAttempts = 2
    MaxBucket = 1
    MaxRedrives = 0

INVARIANTS TypeOK AcceptedIsInvestigated OneInvestigationPerWindow BacklogIsBounded
PROPERTY InvocationEnds
CHECK_DEADLOCK FALSE
