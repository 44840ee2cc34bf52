SPECIFICATION Spec
CONSTANTS
    NoSource = "unsourced"
    Pages <- CafePages
    Places <- CafePlaces
    Items <- CafeItems
    Claims <- CafeClaims
    none = none
    maps_title = maps_title
    Blank = none
    Generic = maps_title
    Host = "host"
    Terms <- CafeTerms
    HostOf <- CafeHosts
    Signals <- CafeSignals
    Bands = {"noisy"}
    Crowds = {"noisy"}
    Providers = {"google", "exa", "model"}
    MaxResults = 3
    MaxDocuments = 4
    MaxCharacters = 6
    MaxAnswer = 2
INVARIANTS
    TypeOK
    CitationsHold
    OnlyThePageNames
    SourcesDistinct
    IndexedListingsYield
    GapsAreExplained
\* A crawl ends.
CHECK_DEADLOCK FALSE
