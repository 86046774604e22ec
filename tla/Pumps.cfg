SPECIFICATION PumpsSpec
CONSTANTS
    a = a
    b = b
    go = go
    more = more
    stop = stop
    said = said
    k1 = k1
    k2 = k2
    p1 = p1
    p2 = p2
    p3 = p3
    Owners = {a, b}
    NoOwner = NoOwner
    StartCommand = go
    Continues = {more}
    Cancels = {stop}
    MaxAttempts = 2
    MaxDeliveries = 2
    Turns = {said}
    Children = {k1, k2}
    Calls = {p1, p2, p3}
    Weight <- CallWeight
    MaxSlots = 2
    MaxTokens = 2
    Workloads <- SmallWorkloads
INVARIANTS PumpsInv CommandsInOrder DeliveredAsOften ToldInOrder CapacityHolds
PROPERTIES CancelIsFinal OutcomeIsFinal EveryCommandSettles EveryDeliveryArrives EveryTurnSettles EverySignalArrives ToldParentIsDriven CapacityComesBack NobodyWaitsInVain
CHECK_DEADLOCK FALSE
