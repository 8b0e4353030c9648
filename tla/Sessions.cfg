SPECIFICATION FairSpec

CONSTANTS
    a = a
    b = b
    Clients = {a, b}
    None = None
    PipeCapacity = 2
    Times = {1, 2}
    MaxPackets = 2
    MaxSessions = 3
    Starts <- TwoStarts

CHECK_DEADLOCK FALSE

INVARIANTS
    NewsOnTheWay
    LostForCause

PROPERTIES
    ImplementsFeed
    FollowersCatchUp
