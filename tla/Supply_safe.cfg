SPECIFICATION Spec
CONSTANTS
    n1 = n1
    n2 = n2
    n3 = n3
    n4 = n4
    n5 = n5
    n6 = n6
    p1 = p1
    p2 = p2
    junk = junk
    h1 = h1
    h2 = h2
    NoHandler = NoHandler
    Ids = {n1, n2, n3, n4, n5, n6}
    Pubkeys = {p1, p2}
    Kinds = {1, 3, 4, 22242}
    Times = {0, 1, 2, 3}
    Malformed = {junk}
    Handlers = {h1, h2}
    Incoming <- Mixed
    ContactList = 3
    AuthKind = 22242
    MaxSubmits = 3
    DefaultLimit = 3
    MaxLimit = 5
    Short = {p1}
    AuthorsCut = 10
    KindsCut = 3
    Requests <- AllRequests
CHECK_DEADLOCK FALSE
CONSTRAINT OneTopic
INVARIANTS TypeOK AckedStays ListSurvives SuppliedMatch NoGap
PROPERTIES Archived
