CONSTANTS
    Conns = {c1, c2}
    Fds = {f1, f2}
    None = None
    Operator = Operator
    QueueSize = 1
    MaxPackets = 0
    MaxMail = 1
    MaxErase = 1
    MaxCommands = 0
SPECIFICATION FairSpec
PROPERTY Shutdown
CHECK_DEADLOCK FALSE
