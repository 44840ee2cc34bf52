SPECIFICATION FairSpec
CONSTANTS
    Runs = {r1, r2}
    Calls = {c1, c2}
    MaxDelay = 1
    MaxOperations = 2
    MaxFaults = 1
INVARIANTS
    TypeOK
    BannerIsTrue
PROPERTIES
    QueueCatchesUp
\* A page without work to do may stop.
CHECK_DEADLOCK FALSE
