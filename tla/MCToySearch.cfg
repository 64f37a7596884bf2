SPECIFICATION Spec
CONSTANTS
    Space = 3
    Interval = 2
    Entries = 4
    Selections = 2
    Maxima = {2, 6}
    MaxHits = 2
    Trials = 1
INVARIANTS
    ExhaustionIsExact
    WitnessSignsTx
    FrozenFindsLeast
PROPERTIES
    FindsLeastSolution
CHECK_DEADLOCK FALSE
