CONSTANTS
    a = a
    b = b
    p = p
    q = q
    Runners = {p, q}
    NMigrations = 2
    Texts = {a, b}
    Checkouts <- Releases
    NoRow = NoRow
    None = None
    MaxRuns = 3
    MaxReplacements = 1
    MaxInterrupts = 1
SPECIFICATION Spec
INVARIANTS WorksUnderLock
CHECK_DEADLOCK FALSE
