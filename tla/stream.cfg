SPECIFICATION FairSpec
CONSTANTS
    w1 = w1
    w2 = w2
    c1 = c1
    Writer = {w1, w2}
    Creator = w1
    Consumer = {c1}
    Capacity = 2
    DefaultLimit = 2
    Limits = {0, 1}
    ChannelMayFail = TRUE
    DbMayFail = TRUE
    ConsumerMayFail = TRUE
    MaxEvents = 2
    MaxRequests = 1
    MaxCrashes = 1
CHECK_DEADLOCK FALSE
INVARIANTS
    TypeOK
    NoGap
    KnownIsStored
    NoStepSkipped
PROPERTIES
    EmitReturns
    Delivered
