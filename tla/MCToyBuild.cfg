SPECIFICATION BuildSpec
CONSTANTS
    f = f
    g = g
    Own = own
    Versions = {1, 2, 3}
    OwnVersions = {1, 2}
    Files = {f, g}
    Touches <- MCTouches
INVARIANTS
    AcceptedBuildIsCurrent
    StampTellsSource
