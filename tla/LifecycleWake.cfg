SPECIFICATION FairLifecycleSpec
CONSTANTS
    a = a
    b = b
    Owners = {a, b}
    NoOwner = NoOwner
    TTL = 1
    MaxLeaseEpoch = 4
    MaxFenceEpoch = 4
    MaxVersion = 8
    DriverResults = {"completed", "waiting", "unknown"}
    MaxAttempts = 1
    MaxStalls = 1
    MaxLate = 0
    MaxCrashes = 0
    MayPause = TRUE
INVARIANT LifecycleInv
PROPERTIES ResolvedWaitIsWoken TerminalIsFinal
CHECK_DEADLOCK FALSE
