SPECIFICATION FairSpec
CONSTANTS
    d1 = d1
    d2 = d2
    e1 = e1
    e2 = e2
    i1 = i1
    i2 = i2
    Session = {s1}
    Dir = {d1}
    Entry = {}
    ParentOf <- NoEntry
    Inode = {i1, i2}
    Producer = {p1, p2}
    Prober = {t1}
    FuseKinds = {}
    MaxGeneration = 1
    MaxEpoch = 1
    MaxRequests = 3
    QueueLimit = 1
    CriticalReserve = 0
    ParentSweepsLimit = 1
    InodeCompensationLimit = 2
CHECK_DEADLOCK FALSE
INVARIANT OutstandingCoversTasks
PROPERTY DestroyTerminates
PROPERTY CountedTasksDrain
