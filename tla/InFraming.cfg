SPECIFICATION FairSpec
CONSTANTS
    Packets <- ShortAndLong
    Base = 3
    MaxPackets = 2
    MaxOthers = 1
INVARIANTS WholeReadsIntact BordersKept NoticeIffFull
PROPERTY SentArrives
CHECK_DEADLOCK FALSE
