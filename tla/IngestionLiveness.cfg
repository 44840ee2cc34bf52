SPECIFICATION FairSpec
CONSTANTS
    MaxRuns = 1
    Urls = {u1}
    Places = {p1}
    NoPlace = NoPlace
    Admins = {a1}
    Operations <- Crawling
    Tasks = {t1, t2}
    Concurrency = 1
    Providers <- AllProviders
    MaxRetry = 1
    ListLimit = 200
    MaxRequests = 3
    MaxFaults = 1
PROPERTIES
    CrawlEnds
\* Budgets of requests and faults run out: the system may stop.
CHECK_DEADLOCK FALSE
