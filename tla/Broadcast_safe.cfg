SPECIFICATION FairSpec
CONSTANTS
    a = a
    b = b
    c = c
    Nobody = Nobody
    Clients <- ThreeClients
    Events <- AllKinds
    Matching <- Mixed
    Restricted = TRUE
    Authenticated <- AC
    MayDie <- B1
    MayChange <- B1
    NewEventCap = 1
    ChEMCap = 1
    MsgwtCap = 1
    MaxEvents = 2
    MaxGen = 2
CHECK_DEADLOCK FALSE
INVARIANTS TypeOK OnlyLegal NothingLost
CONSTRAINT OneAtATime
PROPERTIES Delivered DeliveredOrStalled
