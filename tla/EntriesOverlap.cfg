SPECIFICATION TracedSpec
CONSTANTS
    MaxRuns = 2
    Urls = {u1}
    Places = {p1}
    NoPlace = NoPlace
    Admins = {a1, a2}
    Operations <- Moving
    Tasks = {t1}
    Concurrency = 1
    Providers <- OnlyResolver
    MaxRetry = 0
    ListLimit = 1
    MaxRequests = 5
    MaxFaults = 1
SYMMETRY Symmetry
INVARIANTS
    DuplicatesAreExplained
    HiddenIsExplained
    OrphansAreExplained
\* Budgets of requests and faults run out: the system may stop.
CHECK_DEADLOCK FALSE
