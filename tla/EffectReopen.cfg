SPECIFICATION FairEffectSpec
CONSTANTS
    a = a
    b = b
    Owners = {a}
    NoOwner = NoOwner
    TTL = 1
    MaxLeaseEpoch = 2
    MaxFenceEpoch = 2
    MaxVersion = 1
    MaxEffectVersion = 5
PROPERTIES HandedOffIsReset
CHECK_DEADLOCK FALSE
