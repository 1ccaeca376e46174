SPECIFICATION StartsSpec
CONSTANTS
    c1 = c1
    c2 = c2
    p1 = p1
    p2 = p2
    p3 = p3
    d1 = d1
    NoCert = NoCert
    CertIds = {c1}
    Dirs = {d1}
    DirOf <- OneDir
    Requests = {p1, p2, p3}
    AutoRenewChoices = {TRUE}
    MaxOps = 4
    Faults = {"db", "engine", "io", "restore", "crash"}
SYMMETRY Slots
INVARIANTS TypeOK LockExclusive LockHeldByHandler ActiveMatchesDisk FailedJobPublishedNothing
PROPERTIES HistoryKept
CHECK_DEADLOCK FALSE
