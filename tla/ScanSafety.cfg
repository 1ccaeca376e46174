SPECIFICATION FairSpec
CONSTANTS
    c1 = c1
    c2 = c2
    CertIds = {c1, c2}
    MaxConcurrency = 1
    RetryCount = 1
    StatementsFail = TRUE
INVARIANTS ConcurrencyBounded RenewsWhatIsShown FailuresReported
PROPERTIES ScanReturns
CHECK_DEADLOCK FALSE
