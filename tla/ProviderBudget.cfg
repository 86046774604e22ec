SPECIFICATION FairProviderSpec
CONSTANTS
    a = a
    b = b
    c1 = c1
    c2 = c2
    Owners = {a}
    NoOwner = NoOwner
    TTL = 1
    MaxLeaseEpoch = 2
    MaxFenceEpoch = 1
    MaxVersion = 1
    Calls = {c1, c2}
    Models = {"target"}
    Costs = {1, 2}
    Estimate = 2
    Cap = 3
    MaxCallVersion = 6
INVARIANT HardCapHolds
PROPERTY LostHandoffIsRecovered
CHECK_DEADLOCK FALSE
