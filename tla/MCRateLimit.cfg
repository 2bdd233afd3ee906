SPECIFICATION Spec
CONSTANTS
    c1 = c1
    c2 = c2
    r1 = r1
    r2 = r2
    r3 = r3
    r4 = r4
    Clients <- MCClients
    Requests <- MCRequests
    NoClient = NoClient
    Limit = 2
    LastWindow = 1
SYMMETRY MCSymmetry
INVARIANTS
    TypeOK
    WindowLimit
    OwnRequestsOnly
    CountersExpire
CHECK_DEADLOCK FALSE
