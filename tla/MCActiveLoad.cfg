SPECIFICATION Spec
CONSTANTS
    t1 = t1
    t2 = t2
    Tunnels = {t1, t2}
    Slots = {1, 2}
    NoSlot = 0
    SoftLimit = 1
    TTL = 6
    HeartbeatEvery = 1
    PollDelay = 1
    AttemptTimeout = 1
    MaxLost = 1
    MaxTime = 9
SYMMETRY TunnelSymmetry
INVARIANTS
    EstablishedCounted
    LeakBounded
CHECK_DEADLOCK FALSE
