SPECIFICATION Spec
CONSTANTS
    Timeouts <- SomeTimeouts
    SlowestRoute = 44
    SlowestClient = 12
    SdkAttempts = 3
    SdkBackoff = 4
    Clocks = {TRUE, FALSE}
    TimeoutPassed = TRUE
INVARIANTS TypeOK PromptAlarmIsCutLate CutCallStartedLate CutParkStartedLate CheckedCallHasReserve
CHECK_DEADLOCK FALSE
