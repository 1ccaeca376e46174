SPECIFICATION Spec
CONSTANTS
    c1 = c1
    c2 = c2
    p1 = p1
    p2 = p2
    p3 = p3
    d1 = d1
    NoCert = NoCert
    CertIds = {c1}
    Dirs = {d1}
    DirOf <- OneDir
    Requests = {p1, p2}
    AutoRenewChoices = {TRUE}
    MaxOps = 2
    Faults = {}
PROPERTIES BackupBeforeRemove
CHECK_DEADLOCK FALSE
