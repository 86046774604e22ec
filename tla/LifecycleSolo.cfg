SPECIFICATION FairLifecycleSpec
CONSTANTS
    a = a
    b = b
    Owners = {a}
    NoOwner = NoOwner
    TTL = 1
    MaxLeaseEpoch = 4
    MaxFenceEpoch = 4
    MaxVersion = 8
    DriverResults = {"completed", "failed", "waiting", "authorize"}
    MaxAttempts = 1
    MaxStalls = 2
    MaxLate = 0
    MaxCrashes = 1
    MayPause = TRUE
INVARIANTS OpenDecisionIsAwaited
PROPERTIES CancelIsNotForgotten RunningIsDriven CancelIsCarriedOut
CHECK_DEADLOCK FALSE
