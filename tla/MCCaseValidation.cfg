SPECIFICATION FairSpec
CONSTANTS
    Expected <- MCExpected
    MaxErrors = 2
    MaxReplays = 1
INVARIANTS
    CasesAreIndependent
    CompleteRunIsTrue
    ReplayReproduces
PROPERTY
    Completes
CHECK_DEADLOCK FALSE
