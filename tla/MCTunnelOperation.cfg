SPECIFICATION Spec
CONSTANTS
    Protocols = {"https", "socks5"}
    UpstreamProtocols = {"http"}
    MaxAttempts = 3
    AttemptTimeout = 2
    OperationTimeout = 5
    MaxTime = 7
INVARIANTS
    OneOutcome
    LeasesSettled
PROPERTIES
    EstablishmentEnds
    TunnelEnds
CHECK_DEADLOCK FALSE
