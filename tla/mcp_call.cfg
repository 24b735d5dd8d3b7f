SPECIFICATION Spec
CONSTANTS
    Calls <- SomeCalls
    Timeout = 30
    ConnectTimeout = 4
    ReadTimeout = 3
    MaxRetries = 2
    LongestPause = 1
    RetryAfter = 2
    SlowestSecret = 3
INVARIANTS TypeOK UnreachableIsExplained RefusedOnce 
CHECK_DEADLOCK FALSE
