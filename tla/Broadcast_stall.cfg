SPECIFICATION FairSpec
CONSTANTS
    a = a
    b = b
    c = c
    Nobody = Nobody
    Clients <- ThreeClients
    Events <- Notes
    Matching <- TwoMatch
    Restricted = FALSE
    Authenticated <- AC
    MayDie <- B1
    MayChange <- NoClients
    NewEventCap = 1
    ChEMCap = 1
    MsgwtCap = 1
    MaxEvents = 1
    MaxGen = 1
CHECK_DEADLOCK FALSE
PROPERTIES HealthySupplied
