SPECIFICATION LifecycleSpec
CONSTANTS
    a = a
    b = b
    Owners = {a}
    NoOwner = NoOwner
    TTL = 1
    MaxLeaseEpoch = 3
    MaxFenceEpoch = 3
    MaxVersion = 8
    DriverResults = {"completed", "waiting", "unknown"}
    MaxAttempts = 1
    MaxStalls = 0
    MaxLate = 0
    MaxCrashes = 0
    MayPause = TRUE
PROPERTIES CancelIsNotForgotten
CHECK_DEADLOCK FALSE
