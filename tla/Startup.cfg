SPECIFICATION StartupSpec
CONSTANTS
    Thread = {main, watcher, loader}
    Main = main
    Watcher = watcher
    Host = {vector, zygisk}
    StrictHost = {zygisk}
    Zygisk = zygisk
    Vector = vector
    NoHost = NoHost
    MaxEntrants = 2
    MaxAttachFailures = 1
INVARIANT GateIsExact
INVARIANT BoundHostIsWhole
INVARIANT RuntimeStartsOnce
INVARIANT LoaderReplacementHasOriginal
INVARIANT OneBackend
PROPERTY LoadedIsHandled
CHECK_DEADLOCK FALSE
