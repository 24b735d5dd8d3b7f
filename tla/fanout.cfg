SPECIFICATION FanoutSpec
CONSTANTS
    Env = {e1}
    grp = grp
    prefix = prefix
    space = space
    r1 = r1
    r2 = r2
    Role = {r1, r2}
    Local = Local
    Own <- Mine
    None = None
    SessionLife = 2
    InvocationTime = 1
    DefaultRoute = DefaultRoute
    Route = {grp, prefix, DefaultRoute}
    NoName = NoName
    Space <- ThreeTargets
    NoSpace = NoSpace
    NotDict = NotDict
    NoTable = NoTable
    Alarms <- TwoAlarms
    Contents <- SomeContents
    Modes = {"fanout", "single", "unset"}
    Ttl = 2
    StaleRetry = 1
    MaxTime = 4
    MaxEdits = 2
INVARIANTS FanoutTypeOK FixTakesEffect EnvironmentsConverge SentAsRouted
PROPERTIES OutageKeepsRouting ImplementsLeases
CHECK_DEADLOCK FALSE
