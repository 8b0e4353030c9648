SPECIFICATION RestartSpec

CONSTANTS
    Keys = {k1, k2}
    Names = {n1}
    EmptyName = empty
    Sessions = {s1, s2}
    None = None
    Torn = Torn
    ShortMin = 0
    ShortMax = 3
    Times = {}
    MaxUpdates = 1
    MaxWatchers = 1
    MaxPositions = 0
    MaxStarts = 2

SYMMETRY Symmetry

INVARIANTS
    DatabaseSound
    IdsUnique

PROPERTIES
    StartsFromLastSave

CHECK_DEADLOCK FALSE
