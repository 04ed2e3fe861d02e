SPECIFICATION Spec
CONSTANTS
    none = none
    o1 = o1
    o2 = o2
    Undefined = none
    Descriptor <- MCDescriptor
    Order <- MCOrder
    SoftConnections = 1
    PlannedMbps = 2
    PrioritizedGb = 8
    HalfLife = 1
    Freshness = 2
    ReferenceWait = 4
    ReferenceCost <- MCReferenceCost
    Weights <- MCWeights
    PerProvider = 2
    PerOperation = 3
    RankedIds = {"gateway", "mobile", "other"}
    RankedLoads = {0, 1}
    ScoredRecords <- MCScoredRecords
    Ops = {o1, o2}
    Mobile = "mobile"
    Gateway = "gateway"
    Slots = {"s1", "s2"}
    SlotInfo <- MCSlotInfo
    Profiles <- MCProfiles
    Recent <- MCRecent
    Modes = {"managed", "stateless"}
    CallBudgets = {2}
    InitialSessions <- MCInitialSessions
    Stabilization = 1
    Quiescence = 1
    CacheTTL = 1
    RebindRetries = 2
    MaxTime = 1
    MaxChanges = 1
SYMMETRY MCSymmetry
CHECK_DEADLOCK FALSE
INVARIANTS
    PlacementFollowsPolicy
    LoadNeverImproves
PROPERTIES
    AnswersAreBound
    StickyBinding
    FailbackIsQuiet
