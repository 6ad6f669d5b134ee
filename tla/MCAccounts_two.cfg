CONSTANTS
    Users = {u1, u2}
    Organizations = {o1, o2}
    Clients = {}
    Workers = {w1, w2}
    Suspendable = {o1, o2}
    MaxRotations = 0
    NoRow = NoRow
    NoOrg = NoOrg
    NoTask = NoTask
    Nobody = Nobody
SPECIFICATION Spec
SYMMETRY Symmetry
CHECK_DEADLOCK FALSE
INVARIANTS AdminsInCharge IInv
PROPERTIES ArchiveIsFinal
