CONSTANTS
    Ids = {c1, c2}
    Companies = {o1, o2}
    Staff = {u1, u2}
    Legacy = {u1}
    Phones = {p1, p2}
    Statuses = {s1, s2}
    Workers = {w1}
    Payloads <- AllPayloads
    MaxChanges = 2
    NoRow = NoRow
    NoCompany = NoCompany
    NoJob = NoJob
SPECIFICATION Spec
SYMMETRY Symmetry
INVARIANTS TypeOK
PROPERTIES ImplementsClientBook
