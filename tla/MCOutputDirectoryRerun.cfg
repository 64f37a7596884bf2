SPECIFICATION DirSpec
CONSTANTS
    NSetup = 1
    NFixtures = 3
    MaxRuns = 2
INVARIANT
    SavedChainReplays
CHECK_DEADLOCK FALSE
