SPECIFICATION Spec
CONSTANTS
    Contents = {"complete", "unusable"}
    Ttl = 2
    MaxRetries = 2
    VerifyTls = TRUE
    MaxTime = 5
    MaxRotations = 2
    MaxRenewals = 1
INVARIANTS TypeOK RotationConverges SentCredentialIsFresh
PROPERTIES ImplementsLease
CHECK_DEADLOCK FALSE
