SPECIFICATION FairSpec
CONSTANTS
    s1 = s1
    s2 = s2
    NoSub = NoSub
    Sids <- TwoSids
    PeerMsgs <- LiveMsgs
    RelayAccess = {"public"}
    Leftover = {NoSub}
    InmsgCap = 1
    MsgwtCap = 1
    NewEventCap = 1
    MayStop = TRUE
    MaxMsgs = 2
    MaxBcasts = 1
CHECK_DEADLOCK FALSE
PROPERTIES HandledOrWedged WrittenOrFailed DisconnectEnds
