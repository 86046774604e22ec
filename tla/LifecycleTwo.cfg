SPECIFICATION LifecycleSpec
CONSTANTS
    a = a
    b = b
    Owners = {a, b}
    NoOwner = NoOwner
    TTL = 1
    MaxLeaseEpoch = 3
    MaxFenceEpoch = 3
    MaxVersion = 8
    DriverResults = {"completed", "waiting", "authorize"}
    MaxAttempts = 1
    MaxStalls = 1
    MaxLate = 1
    MaxCrashes = 1
    MayPause = FALSE
SYMMETRY OwnerSymmetry
PROPERTIES TerminalIsFinal Spec
CHECK_DEADLOCK FALSE
