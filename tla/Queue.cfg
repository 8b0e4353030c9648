SPECIFICATION FairSpec

CONSTANTS
    Producers = {p1, p2}
    Consumers = {c1, c2}
    MaxQueueSize = 2
    PipeCapacity = 2
    MaxMessages = 2

INVARIANTS
    PipeTracksMessages
    FifoOrder

PROPERTIES
    ImplementsMailbox
    PushReturns
    EverythingPopped
