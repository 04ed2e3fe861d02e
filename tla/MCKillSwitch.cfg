SPECIFICATION SwitchSpec
CONSTANTS
    route = route
    grant = grant
    s1 = s1
    c1 = c1
    c2 = c2
    a1 = a1
    a2 = a2
    Connections = {c1, c2}
    Admins = {a1, a2}
    Route = route
    GrantList <- OneGrant
    SessionsOf <- OneSession
    ScopesOf <- SharedSession
    Operations <- EndsAndCloses
    Faults = {"poll_error", "check_error", "admin_crash"}
    AdminLocal = {TRUE, FALSE}
    MaxActive = 2
    CheckEvery = 0
    MaxOperations = 2
    MaxDisturbances = 1
CHECK_DEADLOCK FALSE
INVARIANTS
    RoutineRevocationDrains
PROPERTIES
    EstablishedEnd
