SPECIFICATION Spec
CONSTANTS
    Env = {e1, e2}
    Notification = {n1, n2}
    Alarm = {a1, a2}
    Body = {b1, b2}
    a1 = a1
    a2 = a2
    b1 = b1
    b2 = b2
    NoEvent = NoEvent
    NoJob = NoJob
    NoToken = NoToken
    NoSpace = NoSpace
    Space = {s1, s2}
    Events <- MixedEvents
    NoAlarm = NoAlarm
    Dedup = TRUE
    SkipTests = FALSE
    QueueConfigured = TRUE
    RouteOutcomes = {"Target", "RoutingError", "AttributeError"}
    RedriveWays = {"handler", "direct"}
    SdkAttempts = 1
    MaxBucket = 0
    MaxRedrives = 1
INVARIANTS NoSilentLoss UntriedIsUnsent
PROPERTY ImplementsPromise
CHECK_DEADLOCK FALSE
SYMMETRY Symmetry
