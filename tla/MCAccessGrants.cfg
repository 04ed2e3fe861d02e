SPECIFICATION Spec
CONSTANTS
    Credentials = {c1, c2, c3}
    Sessions = {s1}
    Requests = {r1, r2}
    None = None
    Lifetime = 3
    Overlap = 2
    MaxTime = 3
    MaxRequests = 4
SYMMETRY CredentialIds
INVARIANTS
    RevocationIsFinal
    IssuedIsKept
PROPERTIES
    ImplementsLifecycle
CHECK_DEADLOCK FALSE
