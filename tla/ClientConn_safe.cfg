SPECIFICATION Spec
CONSTANTS
    s1 = s1
    s2 = s2
    NoSub = NoSub
    Sids <- TwoSids
    PeerMsgs <- AllMsgs
    RelayAccess = {"public", "authenticated", "unknown"}
    Leftover = {NoSub, s1}
    InmsgCap = 2
    MsgwtCap = 2
    NewEventCap = 1
    MayStop = FALSE
    MaxMsgs = 3
    MaxBcasts = 1
CHECK_DEADLOCK FALSE
CONSTRAINT OneTopic
INVARIANTS TypeOK OkMeansKept RepliesInOrder EoseIsLast NoSubNoFilters
    HandoverQuiescent
PROPERTIES RequestsNeedAuth
