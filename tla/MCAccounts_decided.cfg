CONSTANTS
    Users = {u1, u2}
    Organizations = {o1}
    Clients = {}
    Workers = {w1, w2}
    Suspendable = {}
    MaxRotations = 0
    NoRow = NoRow
    NoOrg = NoOrg
    NoTask = NoTask
    Nobody = Nobody
SPECIFICATION Spec
SYMMETRY Symmetry
CHECK_DEADLOCK FALSE
PROPERTIES DecisionsAreFinal
