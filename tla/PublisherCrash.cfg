SPECIFICATION Spec
CONSTANTS
    cert = cert
    key = key
    v1 = v1
    v2 = v2
    v3 = v3
    w1 = w1
    w2 = w2
    r1 = r1
    Missing = Missing
    NoDir = NoDir
    Files = {cert, key}
    Versions = {v1, v2, v3}
    Workers = {w1}
    Readers = {r1}
    Faults = {"io", "restore", "crash"}
SYMMETRY Symmetry
INVARIANTS PublishedSurvives BackupsWhole FailedPublishKeepsTarget
PROPERTIES ImplementsDirectory
CHECK_DEADLOCK FALSE
