SPECIFICATION FairSpec
CONSTANTS
    None = None
    Byte = {0, 1}
    Size = 3
    BufLen = 2
    NPOLLWAITERS = 1
    User = {u1, u2}
    u1 = u1
    u2 = u2
    NonBlock = {u2}
    Flusher = {}
INVARIANTS
    NoLostWakeup
    NoLostEvent
PROPERTIES
    QueueKept
    DataReturned
    PollReturns
