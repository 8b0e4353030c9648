SPECIFICATION Spec
CONSTANTS
    MaxPackets = 2
    Lengths = {1, 2}
    MaxRoom = 3
VIEW View
INVARIANTS NothingLost FramedUnlessDisturbed NoticesCount RestHasEdge
CHECK_DEADLOCK FALSE
