SPECIFICATION FairSpec
CONSTANTS
    Worker = Worker
    Task = {t1, t2, t3}
    Session = {s1, s2}
    t1 = t1
    t2 = t2
    t3 = t3
    s1 = s1
    s2 = s2
    SessionOf <- Owner
    Waiter = {w1}
    Publisher = {p1}
    Reader = {r1}
    QueueLimit = 1
    InodeCompensationLimit = 1
CHECK_DEADLOCK FALSE
INVARIANT NobodySleepsInVain
INVARIANT SleepingWorkerIsOwedAWakeup
PROPERTY SleepingWorkerIsWoken
