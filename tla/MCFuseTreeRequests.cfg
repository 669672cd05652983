SPECIFICATION WarmSpec
CONSTANTS
    Thread = {1, 2, 3}
    NodeId = {na, nb, n3}
    na = na
    nb = nb
    Root = Root
    Null = Null
    Name = {"a", "b"}
    HiddenName = {"h"}
    r0 = r0
    d1 = d1
    d2 = d2
    f1 = f1
    f2 = f2
    DirObj = {r0, d1, d2}
    FileObj = {f1, f2}
    InitFs <- MCDirFile
    Implemented <- AllCallbacks
    Unfailing <- AllCallbacks
    Ops = {"lookup", "lookup_dot", "lookup_dotdot", "forget", "getattr", "open", "opendir", "read", "release_flush", "create", "link", "unlink", "rmdir", "rename"}
    RememberOps = {"lookup", "lookup_dot", "lookup_dotdot", "forget", "getattr", "read", "release_flush", "link", "unlink", "rmdir", "rename"}
    LateOps = {"getattr", "rename"}
    Abandoned = {"reply_open", "reply_opendir"}
    MaxLookup = 3
    MaxOpen = 2
    MaxAbandon = 1
    MaxRequests = 3
    Remember = {FALSE, TRUE}
    HardRemove = FALSE
    NoPath = FALSE
CHECK_DEADLOCK FALSE
INVARIANTS
    LocksSound
PROPERTIES
    RequestsAnswered
