SPECIFICATION Spec
CONSTANTS
    PlaceIDs = {p1}
    Handlers = {h1, h2}
    TTL = 2
    CacheMax = 2
    Cooldown = 1
    Budget = 3
    Day = 1
    MaxNames = 2
    MaxTime = 2
    MaxFaults = 1
INVARIANTS
    TypeOK
    ServedUrlsAreFresh
    ReportedUrlStaysGone
PROPERTIES
    RefreshesAreRationed
SYMMETRY Symmetry
\* The clock runs out: the system may stop.
CHECK_DEADLOCK FALSE
