SPECIFICATION FairSpec
CONSTANTS
    s1 = s1
    s2 = s2
    NoSub = NoSub
    Sids <- TwoSids
    PeerMsgs <- CloseMsgs
    RelayAccess = {"public"}
    Leftover = {NoSub}
    InmsgCap = 1
    MsgwtCap = 2
    NewEventCap = 1
    MayStop = FALSE
    MaxMsgs = 2
    MaxBcasts = 0
CHECK_DEADLOCK FALSE
PROPERTIES CloseClosesConnection
