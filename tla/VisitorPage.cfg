SPECIFICATION FairSpec
CONSTANTS
    Queries <- VisitorQueries
    Kind <- VisitorKinds
    Cafes = {p1}
    Urls = {u1, u2}
    none = none
    MaxTyped = 4
    MaxFaults = 2
INVARIANTS
    TypeOK
    AnswersTheQuery
PROPERTIES
    SearchEnds
    CardsSettle
\* A page whose visitor has stopped typing may stop.
CHECK_DEADLOCK FALSE
