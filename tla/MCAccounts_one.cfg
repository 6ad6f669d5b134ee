CONSTANTS
    Users = {u1, u2, u3}
    Organizations = {o1, o2}
    Clients = {c1}
    Workers = {w1}
    Suspendable = {}
    MaxRotations = 1
    NoRow = NoRow
    NoOrg = NoOrg
    NoTask = NoTask
    Nobody = Nobody
SPECIFICATION Spec
SYMMETRY Symmetry
INVARIANTS TypeOK AuditDescribesRows ArchivedOwnNoClient FoundersBelong SoloInv
PROPERTIES ImplementsMembership RotatedCodesAdmitNobody
