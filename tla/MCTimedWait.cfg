SPECIFICATION FairSpec
CONSTANTS
    Task = {t1, t2, t3}
    t1 = t1
    t2 = t2
    t3 = t3
    Delay = {0, 2}
    Forever = Forever
    MaxCount = 1
    Prealloc = 2
    IntReserve = 1
INVARIANTS
    WaitersCounted
    OnTime
    WatchdogsOwned
PROPERTIES
    SemKept
    WaitReturns
