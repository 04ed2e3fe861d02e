\* Three attempts: a first, a middle and a last one.
CONSTANT
    MaxAttempts = 3

SPECIFICATION RequestSpec

INVARIANTS
    OneAnswer
    RequestLeasesSettled

PROPERTY
    LeftExchangeEnds

\* A request that was answered or refused is over.
CHECK_DEADLOCK FALSE
