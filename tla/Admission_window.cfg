SPECIFICATION Spec
CONSTANTS
    a1 = a1
    a2 = a2
    w1 = w1
    s1 = s1
    s2 = s2
    s3 = s3
    Requests = {1, 2, 3, 4}
    IPs = {a1, a2, w1}
    White <- Lists
    NoEntry = NoEntry
    NoSlot = NoSlot
    Slots = {s1, s2, s3}
    RateLimits = {1, 2}
    Duration = 2
    WhiteMax = 1
    MaxInFlight = 2
    MaxTime = 3
    MaxStarts = 2
CONSTRAINT OneTopic
SYMMETRY Alike
CHECK_DEADLOCK FALSE
INVARIANT BlockedForExcess
