SPECIFICATION Spec
CONSTANTS
    k1 = k1
    k2 = k2
    a1 = a1
    a2 = a2
    r1 = r1
    Keys = {k1, k2}
    AdminKeys = {k1}
    Attempts = {a1, a2}
    MaxFailures = 2
    Window = 2
    Lockout = 1
    MaxStates = 1
    MaxTime = 4
    Calls = {r1}
    SessionTTL = 2
    ReauthTTL = 1
    MaxLogins = 2
SYMMETRY Slots
INVARIANTS TypeOK LockoutHolds LockEarned
PROPERTIES PasswordInSession SessionEnds
CHECK_DEADLOCK FALSE
