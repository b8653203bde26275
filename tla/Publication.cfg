SPECIFICATION PublicationSpec
CONSTANTS
    i1 = i1
    i2 = i2
    Session = {s1}
    Dir = {}
    Entry = {}
    ParentOf <- NoEntry
    Inode = {i1}
    Producer = {r1, r2, w1}
    Reloader = {r1, r2}
    Watcher = {w1}
    Prober = {}
    FuseKinds = {"Inode"}
    MaxGeneration = 1
    MaxEpoch = 2
    MaxRequests = 0
    MaxPackageChanges = 1
    QueueLimit = 2
    CriticalReserve = 1
    ParentSweepsLimit = 1
    InodeCompensationLimit = 1
CHECK_DEADLOCK FALSE
SYMMETRY ReloaderSymmetry
INVARIANT SchedulesOwnEpochOnly
PROPERTY AcknowledgedAloneMeansForgotten
PROPERTY PromiseKept
