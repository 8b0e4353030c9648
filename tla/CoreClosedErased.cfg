CONSTANTS
    Conns = {c1}
    Fds = {f1}
    None = None
    Operator = Operator
    QueueSize = 2
    MaxPackets = 1
    MaxMail = 3
    MaxErase = 3
    MaxCommands = 0
SPECIFICATION FairSpec
PROPERTY ClosedClientErased
CHECK_DEADLOCK FALSE
