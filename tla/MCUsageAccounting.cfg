SPECIFICATION UsageSpec
CONSTANTS
    none = none
    k1 = k1
    k2 = k2
    Unallocated = "Unallocated"
    Providers = {"mobile", "gateway"}
    Unresolved = "unresolved"
    Undefined = none
    IntervalLength <- MCIntervalLength
    SoftConnections = 2
    PlannedBytes = 1
    Tasks = {k1, k2}
    Retiring = {k2}
    Traffic <- MCTraffic
    Publications <- MCPublications
    SlotPeriods <- MCSlotPeriods
    Window = 4
    HistoryWindow = 4
    Floor = 1
    WarningPercent = 5
    ErrorPercent = 15
    RecordDelay = 1
    StartTime = 4
    LastInstant = 5
INVARIANTS
    CostsConserved
    MetricsAgree
    NoSilentVariance
PROPERTIES
    RunSettles
