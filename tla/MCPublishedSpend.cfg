SPECIFICATION Spec
CONSTANTS
    Radix = 10
    Direct = 7
    SmallMax = 4
    Entries = 4
    Layout <- MCLayout
    Searched <- MCSearched
    Tried <- MCTried
    Leaves = {1, 2, 3, 4, 5}
INVARIANTS
    ParsedIsCanonical
    IncludedIsInBlock
    SelectionsOpenTheirCommitments
    ExecutesTheSearched
    PublishedIsReported
CHECK_DEADLOCK FALSE
