SPECIFICATION Spec
CONSTANTS
    Scopes = {"Kemang", "Tebet"}
    CentreOf <- Centres
    Jakarta = 0
    Distance <- Between
    DistanceFit <- Decay
    OverBudgetFit <- Excess
    NearbyRadius = 5
    Places = {"kopi", "kedai"}
    Records <- CafeRecords
    Queries <- CafeQueries
    Answers <- JevAnswers
    Users = {{}, {2}}
    Invalid = {}
    Limits = {0, 1}
    DefaultLimit = 2
    MinLimit = 1
    MaxLimit = 2
    JevEnabled = TRUE
    MaxRows = 3
INVARIANTS
    TypeOK
    HardFiltersHold
    SearchStaysInPlace
    PiecesWereCurrent
    NoCafeIsLost
    BetterCafesRankHigher
