SPECIFICATION Spec
CONSTANTS
    MaxRuns = 1
    Urls = {u1}
    Places = {p1}
    NoPlace = NoPlace
    Admins = {a1, a2}
    Operations <- OneRecord
    Tasks = {t1, t2}
    Concurrency = 2
    Providers <- OnlyResolver
    MaxRetry = 1
    ListLimit = 200
    MaxRequests = 3
    MaxFaults = 1
SYMMETRY Symmetry
INVARIANTS
    TypeOK
    DeletedStaysDeleted
    PublishedIsPublishable
    EnrichingIsOwned
\* Budgets of requests and faults run out: the system may stop.
CHECK_DEADLOCK FALSE
