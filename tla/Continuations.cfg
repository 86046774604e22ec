SPECIFICATION QueueSpec
CONSTANTS
    a = a
    b = b
    Owners = {a, b}
    NoOwner = NoOwner
    TTL = 1
    MaxLeaseEpoch = 2
    MaxFenceEpoch = 2
    MaxVersion = 3
    MaxInputs = 2
    MaxClaims = 2
SYMMETRY OwnerSymmetry
INVARIANTS AuthorityInv ServedFromFront ClaimIsWorked
PROPERTIES ImplementsFifo StaleAuthorityNeverRevives TakeoverRaisesEpoch
CHECK_DEADLOCK FALSE
