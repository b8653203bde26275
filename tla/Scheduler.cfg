SPECIFICATION Spec
CONSTANTS
    d1 = d1
    d2 = d2
    e1 = e1
    e2 = e2
    i1 = i1
    i2 = i2
    Session = {s1}
    Dir = {d1, d2}
    Entry = {e1, e2}
    ParentOf <- OneDirPerEntry
    Inode = {i1, i2}
    Producer = {p1}
    Prober = {t1}
    FuseKinds = {"Entry", "Inode"}
    MaxGeneration = 2
    MaxEpoch = 2
    MaxRequests = 2
    QueueLimit = 2
    CriticalReserve = 1
    ParentSweepsLimit = 1
    InodeCompensationLimit = 1
CHECK_DEADLOCK FALSE
SYMMETRY InodeSymmetry
INVARIANT OutstandingIsExact
INVARIANT CompleteMeansNotified
INVARIANT RootAbsorbedOnlyBehindSweep
INVARIANT UsesOnlyLiveSession
