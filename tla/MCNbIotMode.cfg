SPECIFICATION Spec
CONSTANTS
    AtTries = 1
    SetTries = 2
    BootTries = 2
    NetTries = 3
    LineSize = 2
INVARIANT ModeChecked
