SPECIFICATION FairRunSpec
CONSTANTS
    Expected <- MCExpected
    MaxErrors = 2
INVARIANTS
    NodesStayAligned
    CompleteRunIsTrue
    StockRefuses
    ReplayReproduces
PROPERTY
    Completes
CHECK_DEADLOCK FALSE
