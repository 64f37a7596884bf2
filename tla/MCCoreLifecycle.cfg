SPECIFICATION FairSpec
CONSTANTS
    Polls = 4
    Calls = 2
INVARIANTS
    NothingOutlives
PROPERTIES
    Leaves
CHECK_DEADLOCK FALSE
