SPECIFICATION Spec
CONSTANTS
    w1 = w1
    w2 = w2
    NoOwner = NoOwner
    Workers = {w1, w2}
    FailureThreshold = 2
    BaseCooldown = 4
    MaxCooldown = 6
    ProbeLease = 3
    Retention = 5
    LockLease = 1
    LockWait = 0
    AttemptTimeout = 1
    MaxStall = 1
    MaxTime = 12
    MaxFailures = 3
SYMMETRY WorkerSymmetry
INVARIANTS
    SingleProbe
    RepeatedFailuresOpen
    NeverWedged
