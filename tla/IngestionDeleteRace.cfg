SPECIFICATION Spec
CONSTANTS
    MaxRuns = 2
    Urls = {u1}
    Places = {p1}
    NoPlace = NoPlace
    Admins = {a1, a2}
    Operations <- ForcedAndDelete
    Tasks = {t1}
    Concurrency = 1
    Providers <- OnlyResolver
    MaxRetry = 0
    ListLimit = 200
    MaxRequests = 5
    MaxFaults = 0
INVARIANTS
    DeletesSpareForAThird
\* Budgets of requests and faults run out: the system may stop.
CHECK_DEADLOCK FALSE
