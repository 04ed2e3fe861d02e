SPECIFICATION Spec
CONSTANTS
    r1 = r1
    r2 = r2
    d1 = d1
    d2 = d2
    Refreshes = {r1}
    Destinations = {d1, d2}
    Configured = {d1}
    DegradedDelay = 1
    MaxAttempts = 2
    MaxTime = 3
    MaxStops = 1
INVARIANTS
    OneEventPerEpisode
    AlertedIsDurable
PROPERTIES
    DeliverySettles
    DeliveriesEnd
CHECK_DEADLOCK FALSE
