SPECIFICATION Spec
CONSTANTS
    d1 = d1
    r1 = r1
    us = us
    de = de
    r_1 = r_1
    r_2 = r_2
    c1 = c1
    Providers <- MCProviders
    ClassOf <- MCClassOf
    Geographies <- MCGeographies
    Refreshes <- MCRefreshes
    Reports <- MCReports
    Signals <- MCSignals
    Delays = {0}
    Scopes <- MCScopes
    Canaries <- MCCanaries
    PassiveMaxAge = 0
    PressureMaxAge = 0
    Cooldown = 1
    Minute = 1
    RequestsPerMinute = 1
    Lifetime = 1
    MaximumLifetime = 10
    MaxTime = 2
    MaxRefreshes = 3
    MaxEvents = 1
    MaxHandled = 2
    MaxExits = 1
SYMMETRY Symmetry
CHECK_DEADLOCK FALSE
INVARIANTS
    ChallengesCompleteOnce
    GeographiesAreWitnessed
    StatusFollowsEvidence
PROPERTIES
    VerdictsAreGrounded
