SPECIFICATION FairSpec
CONSTANTS
    AtTries = 1
    SetTries = 2
    BootTries = 2
    NetTries = 3
    LineSize = 2
INVARIANTS
    TypeOK
    NetResultTrue
    EndsAfterAllRounds
    RebootAfterConfig
PROPERTIES
    BringUpEnds
    UploadsGoOn
CHECK_DEADLOCK FALSE
