SPECIFICATION DirSpec
CONSTANTS
    NSetup = 1
    NFixtures = 3
    MaxRuns = 3
INVARIANTS
    GuardedResultsReplay
    PartialIsOwn
PROPERTY
    ResultsAreFinal
CHECK_DEADLOCK FALSE
