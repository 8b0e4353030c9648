SPECIFICATION LayersSpec

CONSTANTS
    NameLengths = {0, 1, 14, 15, 16, 1022, 1023}
    Wide = {0, 1}

CHECK_DEADLOCK FALSE

INVARIANTS
    RoundTrip
    TypeKept
    FailsForCause
