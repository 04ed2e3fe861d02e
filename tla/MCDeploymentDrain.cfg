SPECIFICATION Spec
CONSTANTS
    A = A
    B = B
    C = C
    hook = hook
    cron = cron
    Processes = {A, B}
    First = A
    Modes <- MCModes
    Tunnels = {1}
    Runs = {hook, cron}
    NotifyAfter = 1
    EscalateAfter = 1
    TerminateAfter = 1
    MaxTime = 3
    MaxShifts = 2
    MaxExtensions = 2
CHECK_DEADLOCK FALSE
INVARIANTS
    OrderlyShutdown
PROPERTIES
    CutsAreDue
    RetiredTunnelsEnd
