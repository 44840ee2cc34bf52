SPECIFICATION Spec
CONSTANTS
    Keys <- CafeKeys
    Values <- CafeValues
    Blank = "blank"
    Sources <- CafeSources
    NoSource = "none"
    Crawled <- CafeCrawled
    Crawls <- CafeCrawls
    MaxFields = 7
    MaxCrawls = 1
INVARIANTS
    TypeOK
    PublishedIsServed
    ContradictionsFollowGoogle
PROPERTIES
    ReviewerDecides
    ReviewsRun
