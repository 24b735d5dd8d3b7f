SPECIFICATION OpsSpec
CONSTANTS
    Env = {e1}
    Notification = {n1, n2}
    Alarm <- Identities
    Body <- SomeNotes
    Events <- Deliveries
    NoEvent = NoEvent
    NoJob = NoJob
    NoToken = NoToken
    NoSpace = NoSpace
    Space = {s1}
    Dedup = TRUE
    SkipTests = TRUE
    QueueConfigured = TRUE
    RouteOutcomes = {"Target", "RoutingError"}
    RedriveWays = {"handler"}
    SdkAttempts = 1
    MaxBucket = 0
    MaxRedrives = 0
    Value <- SomeValues
    Blank = ""
    Percent = {"%x", "%cpu"}
    FirstDigit <- Digits
    StarCount <- Stars
    Segments <- Split
    DownStates = {"down"}
    AckStates = {"down (acknowledged)"}
    UnknownSensor = "unknown"
    UnknownDevice = "unknown"
    UnknownStatus = "unknown"
    Sensor <- SomeSensors
    Status = {"down", "down (acknowledged)", "warning"}
    Text = {"no answer", "%cpu"}
    Unsupported = {"sensorId", "deviceId"}
    Unsubstituted = "%x"
    Notes <- SomeNotes
    Watch <- AllAlarms
    Threshold <- Thresholds
    Periods <- OnePeriod
    LogMetric = {"RoutingFailures", "AlarmsLost"}
    Topic = TRUE
INVARIANTS OpsTypeOK SensorIsInvestigated DownIsUrgent LossRaisesAlarm LossIsTold StandingQueueStaysInAlarm
PROPERTIES NothingVanishesUnseen
SYMMETRY Symmetry
CHECK_DEADLOCK FALSE
