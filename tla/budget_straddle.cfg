SPECIFICATION Spec
CONSTANTS
    Timeouts <- DefaultOnly
    SlowestRoute = 44
    SlowestClient = 12
    SdkAttempts = 2
    SdkBackoff = 0
    Clocks = {TRUE}
    TimeoutPassed = TRUE
INVARIANT StartedCallIsRecoverable
CHECK_DEADLOCK FALSE
