SPECIFICATION EffectSpec
CONSTANTS
    a = a
    b = b
    Owners = {a, b}
    NoOwner = NoOwner
    TTL = 1
    MaxLeaseEpoch = 2
    MaxFenceEpoch = 2
    MaxVersion = 1
    MaxEffectVersion = 5
SYMMETRY OwnerSymmetry
INVARIANTS EffectInv AtMostOnce
PROPERTIES ImplementsOneShot
CHECK_DEADLOCK FALSE
