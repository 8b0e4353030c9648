SPECIFICATION FairSpec
CONSTANT None = None
INVARIANT KeysMatch
PROPERTIES HandshakeOrStall ClosedClientStops
CHECK_DEADLOCK FALSE
