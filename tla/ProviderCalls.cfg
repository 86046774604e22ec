SPECIFICATION ProviderSpec
CONSTANTS
    a = a
    b = b
    c1 = c1
    c2 = c2
    Owners = {a, b}
    NoOwner = NoOwner
    TTL = 1
    MaxLeaseEpoch = 2
    MaxFenceEpoch = 2
    MaxVersion = 1
    Calls = {c1}
    Models = {"target", "other"}
    Costs = {1}
    Estimate = 2
    Cap = 2
    MaxCallVersion = 6
SYMMETRY OwnerSymmetry
INVARIANTS ProviderInv LiveCallKeepsItsRow
PROPERTIES CallsAreOneShot
CHECK_DEADLOCK FALSE
