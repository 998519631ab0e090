SPECIFICATION Spec
CONSTANTS
    a = a
    b = b
    c = c
    Nobody = Nobody
    Clients <- ThreeClients
    Events <- Dms
    Matching <- Mixed
    Restricted = FALSE
    Authenticated <- AC
    MayDie <- B1
    MayChange <- B1
    NewEventCap = 1
    ChEMCap = 1
    MsgwtCap = 1
    MaxEvents = 1
    MaxGen = 2
CHECK_DEADLOCK FALSE
INVARIANTS DmOnlyAuthenticated
