SPECIFICATION Spec
CONSTANTS
    Thread = {t1, t2}
    Ino = {root, i1}
    Root = root
    Name = {n1}
    NoName = NoName
    Path = {rootPath, p1, p2}
    RootPath = rootPath
    Unknown = Unknown
    PublicVolume = FALSE
    HideAll = TRUE
    MaxTracked = 2
    MaxDeferred = 1
    EntryIno = {i1}
    Waits = TRUE
SYMMETRY Symmetry
INVARIANT ReverseAgrees
INVARIANT RequestsAreKept
INVARIANT RootRequestIsKept
INVARIANT AcknowledgedIsSettledOrInHand
