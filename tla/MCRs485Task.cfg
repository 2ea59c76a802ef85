SPECIFICATION FairSpec
CONSTANTS
    MAX_LEN_COMM_TRM_DATA = 128
    Byte <- MCByte
    Chunks <- MCChunks
    FifoSize = 19
    SRB_SIZE = 5
INVARIANTS
    LampCommand
    FirmwareFrameTaken
    Resynced
PROPERTIES
    LampServed
    PortBServed
    Recovers
