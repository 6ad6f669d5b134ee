CONSTANTS
    a = a
    b = b
    p = p
    q = q
    Runners = {p, q}
    NMigrations = 2
    Texts = {a, b}
    Checkouts <- Releases
    NoRow = NoRow
    None = None
    MaxRuns = 3
    MaxReplacements = 1
    MaxInterrupts = 1
SPECIFICATION FairSpec
INVARIANTS TypeOK AppliedOnce SuccessIsCurrent PlansStayFresh
PROPERTIES RecordedStaysDone RunsEnd ImplementsSchemaHistory
CHECK_DEADLOCK FALSE
