CONSTANTS
    c1 = c1
    c2 = c2
    u = u
    p = p
    h = h
    Requests = {c1, c2, u, p, h}
    KindOf <- Endpoints
    Connections = {1, 2}
    ThreadLimit = 2
    None = None
SPECIFICATION FairSpec
INVARIANTS TypeOK NoLeak NoStallWithinCapacity
PROPERTIES RequestsEnd
