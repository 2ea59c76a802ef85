SPECIFICATION FairSpec
CONSTANTS
    None = None
    Byte = {0, 1}
    Size = 3
    BufLen = 2
    NPOLLWAITERS = 2
    User = {u1}
    u1 = u1
    NonBlock = {}
    Flusher = {u1}
INVARIANT ReadyMeansData
PROPERTY FifoKept
