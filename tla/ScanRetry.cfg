SPECIFICATION Spec
CONSTANTS
    c1 = c1
    c2 = c2
    CertIds = {c1}
    MaxConcurrency = 1
    RetryCount = 1
    StatementsFail = FALSE
INVARIANTS RetriesReachEngine
CHECK_DEADLOCK FALSE
