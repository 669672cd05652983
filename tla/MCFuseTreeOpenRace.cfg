SPECIFICATION MCSpec
CONSTANTS
    Thread = {t1, t2}
    NodeId = {n1, n2, n3}
    na = n1
    nb = n2
    MaxRequests = 0
    RememberOps = {}
    LateOps = {}
    Root = Root
    Null = Null
    Name = {"a", "b"}
    HiddenName = {"h"}
    r0 = r0
    d1 = d1
    d2 = d2
    f1 = f1
    f2 = f2
    DirObj = {r0, d1}
    FileObj = {f1, f2}
    InitFs <- MCDirFile
    Implemented <- AllCallbacks
    Unfailing <- AllCallbacks
    Ops = {"lookup", "forget", "open", "release", "unlink", "rename"}
    Abandoned = {}
    MaxLookup = 1
    MaxOpen = 1
    MaxAbandon = 0
    Remember = {FALSE}
    HardRemove = FALSE
    NoPath = FALSE
INVARIANT OpenFilesKept
SYMMETRY SymmetricThreads
