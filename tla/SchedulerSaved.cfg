SPECIFICATION Spec
CONSTANTS
    daily = daily
    off = off
    bad = bad
    a1 = a1
    a2 = a2
    s1 = s1
    s2 = s2
    Policies = {daily, off, bad}
    Valid = {daily, off}
    Enabled = {daily, bad}
    Installed = daily
    NoPolicy = NoPolicy
    Admins = {a1, a2}
    Scans = {s1, s2}
    MaxCrons = 3
    MaxFired = 1
    Drains = TRUE
INVARIANTS SavedIsInEffect
CHECK_DEADLOCK FALSE
