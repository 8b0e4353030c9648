CONSTANTS
    Conns = {c1, c2}
    Fds = {f1}
    None = None
    Operator = Operator
    QueueSize = 2
    MaxPackets = 1
    MaxMail = 1
    MaxErase = 2
    MaxCommands = 1
SPECIFICATION Spec
SYMMETRY Symmetry
INVARIANTS EraseHitsIssuer DescriptorOwned RegisteredOnce ServerRegistersLive NoSelfBlock
PROPERTIES ImplementsConnection
CHECK_DEADLOCK FALSE
