SPECIFICATION Spec
CONSTANTS
    MAX_LEN_COMM_TRM_DATA = 128
    Bus <- MCBus
INVARIANTS
    TypeOK
    FrameIntact
    SavedInBounds
PROPERTIES
    GoodFrameKept
    LedFromReport
