SPECIFICATION Spec
CONSTANTS
    Unset = Unset
    Empty = Empty
    Malformed = Malformed
    Odd = Odd
    Nothing = Nothing
    Anywhere = Anywhere
    prtg = prtg
    public = public
    range = range
    vpc = vpc
    arn = arn
    org = org
    default = default
    team = team
    DefaultMatch = default
    Hosts = {prtg}
    Half = {"mcp", "pipeline"}
    Files <- SomeFiles
    Shells <- SomeShells
    Onboarded <- SomeOnboarded
    MaxDeploys = 2
INVARIANTS TypeOK CallsHaveRoutes AlarmsHaveTarget 
CHECK_DEADLOCK FALSE
