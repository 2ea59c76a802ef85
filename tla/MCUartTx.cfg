SPECIFICATION FairSpec
CONSTANTS
    None = None
    Byte = {0, 1}
    Size = 3
    BufLen = 3
    User = {u1, u2}
    u1 = u1
    u2 = u2
    NonBlock = {u2}
INVARIANTS
    NoStuckWriter
    OutputGoesOn
PROPERTIES
    OutputKept
    WriteReturns
