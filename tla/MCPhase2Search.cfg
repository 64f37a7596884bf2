SPECIFICATION FairSpec
CONSTANTS
    Space = 3
    Limits = {1, 2, 3, 4}
    Interval = 2
    NSubsets = 3
INVARIANTS
    TypeOK
    AttemptsChain
    BudgetIsSpent
    DeadlineBinds
PROPERTIES
    FindsLeastSolution
    LatePinIsDiscarded
    Terminates
CHECK_DEADLOCK FALSE
