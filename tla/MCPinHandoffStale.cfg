SPECIFICATION Spec
CONSTANTS
    Space = 3
    BranchSets <- MCBranchSets
    Limits = {1, 2, 4}
    Interval = 2
    EventCap = 2
    Samples = {vector}
    Gaps = 1
    vector = vector
INVARIANTS
    HitSignsItsCounter
CHECK_DEADLOCK FALSE
