SPECIFICATION Spec
CONSTANTS
    c1 = c1
    c2 = c2
    k1 = k1
    n1 = n1
    n2 = n2
    s1 = s1
    e1 = e1
    example = example
    NoCred = NoCred
    NoCert = NoCert
    Certs = {c1, c2}
    DomainOf <- OneDomain
    KeyTypeOf <- EccAndRsa
    DnsCerts = {c1}
    CredIds = {k1}
    CredNames = {n1, n2}
    Secrets = {s1}
    Renamers = {e1}
    MaxSerial = 3
INVARIANTS ReferencesExist OwnDomains
PROPERTIES RevokesWhatIsShown
CHECK_DEADLOCK FALSE
