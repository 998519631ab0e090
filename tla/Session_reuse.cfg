SPECIFICATION Spec
CONSTANTS
    r1 = r1
    r2 = r2
    r3 = r3
    o1 = o1
    o2 = o2
    o3 = o3
    c1 = c1
    c2 = c2
    c3 = c3
    a1 = a1
    a2 = a2
    n1 = n1
    n2 = n2
    NoClient = NoClient
    NoConn = NoConn
    NoWorker = NoWorker
    Waiting = Waiting
    Requests = {r1, r2, r3}
    IPs = {a1, a2}
    Names = {n1, n2}
    Clients = {o1, o2, o3}
    Conns = {c1, c2, c3}
    ChCap = 1
    Tasks <- AllTasks
    Size = 2
    Queue = 1
    Spawn = 1
SYMMETRY Alike
CONSTRAINT OneTopic
CHECK_DEADLOCK FALSE
INVARIANT OnlyInactiveReleased
