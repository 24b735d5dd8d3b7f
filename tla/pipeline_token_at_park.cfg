SPECIFICATION Spec
CONSTANTS
    Env = {e1}
    Notification = {n1}
    Alarm = {a1, a2}
    Body = {b1, b2}
    a1 = a1
    a2 = a2
    b1 = b1
    b2 = b2
    NoEvent = NoEvent
    NoJob = NoJob
    NoToken = NoToken
    NoSpace = NoSpace
    Space = {s1}
    Events <- OneEvent
    Dedup = TRUE
    SkipTests = TRUE
    QueueConfigured = TRUE
    RouteOutcomes = {"Target", "RoutingError"}
    RedriveWays = {"direct"}
    SdkAttempts = 1
    MaxBucket = 1
    MaxRedrives = 1
SYMMETRY Symmetry
INVARIANT OneInvestigationPerNotification
CHECK_DEADLOCK FALSE
