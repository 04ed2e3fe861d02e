SPECIFICATION CacheSpec
CONSTANTS
    Connections = {c1, c2}
    Admins = {a1, a2}
    LocalAdmins = {a1}
    Ttl = 2
    Refresh = 1
    MaxEpoch = 2
INVARIANTS
    NoticedLossIsRefused
    ClosedAdmitsNobody
PROPERTY
    LossTakesHold
CHECK_DEADLOCK FALSE
