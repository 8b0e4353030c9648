SPECIFICATION Spec

CONSTANTS
    Keys = {k1, k2}
    Names = {n1, n2}
    EmptyName = empty
    Sessions = {s1, s2, s3}
    None = None
    ShortMin = 0
    ShortMax = 2
    Times = {}
    MaxUpdates = 1
    MaxWatchers = 1
    MaxPositions = 0

SYMMETRY Symmetry

INVARIANTS
    NameIndex
    FollowDuality
    QueueLive
    IdsKnown

PROPERTIES
    NameNotStolen

CHECK_DEADLOCK FALSE
