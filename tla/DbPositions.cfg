SPECIFICATION Spec

CONSTANTS
    Keys = {k1, k2}
    Names = {n1}
    EmptyName = empty
    Sessions = {s1, s2}
    None = None
    ShortMin = 0
    ShortMax = 2
    Times = {1, 2}
    MaxUpdates = 2
    MaxWatchers = 1
    MaxPositions = 2

SYMMETRY Symmetry

INVARIANTS
    BehindMeansNotified

PROPERTIES
    WatcherTimeGrows

CHECK_DEADLOCK FALSE
