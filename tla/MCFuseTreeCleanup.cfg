SPECIFICATION WarmSpec
CONSTANTS
    Thread = {1, 2, 3}
    NodeId = {na, nb, n3}
    na = na
    nb = nb
    Root = Root
    Null = Null
    Name = {"a", "b"}
    HiddenName = {"h"}
    r0 = r0
    d1 = d1
    d2 = d2
    f1 = f1
    f2 = f2
    DirObj = {r0, d1, d2}
    FileObj = {f1, f2}
    InitFs <- MCDirFile
    Implemented <- AllCallbacks
    Unfailing <- AllCallbacks
    Ops = {"open", "forget"}
    RememberOps = {"open", "forget"}
    LateOps = {}
    Abandoned = {"reply_open"}
    MaxLookup = 3
    MaxOpen = 2
    MaxAbandon = 1
    MaxRequests = 2
    Remember = {TRUE}
    HardRemove = FALSE
    NoPath = FALSE
CHECK_DEADLOCK FALSE
INVARIANT NoAbort
