SPECIFICATION Spec
CONSTANTS
    S = S
    s = s
    z = z
    b = b
    d = d
    v = v
    Emulated = Emulated
    Elsewhere = Elsewhere
    App = App
    Restrained = Restrained
    Free = Free
    Symbol <- Symbols
    Ignorable = {z}
    Undecodable = {b}
    Fold <- Lower
    Root = {Emulated}
    Primary = Emulated
    OtherRoot = Elsewhere
    Package = {App}
    Thread = {t1}
    Uid = {Restrained, Free}
    PackagesOf <- Packages
    Configs <- Published
    RequestName <- Names
    InitialFiles <- OnDiskFirst
    Order <- DirectoryOrder
    Full <- NonEmptyDirectories
    PageSize = 2
    RemapMax = 1
    MaxCached = 1
    Continues = TRUE
    MaxRemovals = 1
    Workloads = {{"list", "rmdir"}, {"stat", "mkdir", "rmdir"}, {"getattr", "mkdir"}}
INVARIANT SharedDentriesAreSafe
INVARIANT HiddenNamesAnswerAlike
INVARIANT VisibleNamesAnswerTruly
INVARIANT ListingIsWholeAndClean
INVARIANT ClassIsFresh
