INIT PartsInit
NEXT PartsNext
CONSTANTS
    Jobs = 2
    MaxPages = 3
    Owner = {o1, o2}
    OFFSET_MAX = 2
    MaxCalls = 2
    SrcVecs <- MCSrcVecs
    DstVecs <- MCDstVecs
    TmpSize = 2
    Key = {1, 2, 3, 4, 5, 6, 7, 8}
    HashOf <- MCHashOf
    NODE_TABLE_MIN_SIZE = 4
    RemergeIter = 2
    MaxTableSize = 16
    Page = {p1, p2, p3}
    NodesPerSlab = 3
    Entry = {"a", "b", "c"}
    EntrySize <- MCEntrySize
    RequestSizes = {2, 3}
    MaxChanges = 2
    Options <- MCOptions
    Owners <- MCOwners
    Subtype <- MCSubtype
    CommandLines <- MCLines
    SetupOptions <- OptionSpace
    Bases <- MCBases
    SubdirPaths <- MCSubdirPaths
    SubdirLinks <- MCSubdirLinks
    LinkSizes = {6, 12}
    Caller = {"first", "second"}
    OpsOf <- MCOpsOf
    IconvNames <- MCIconvNames
    IconvDir <- MCIconvDir
    Grown = 14
    IconvLinkSize = 3
    Thread = {t1, t2}
    NodeId = {n1, n2, n3}
    Root = Root
    Null = Null
    r0 = r0
    d1 = d1
    f1 = f1
    f2 = f2
SYMMETRY OwnersAndThreadsAlike
CHECK_DEADLOCK FALSE
INVARIANTS
    PipeInv
    LockListRight
    CopyRight
    TableRight
    SlabsRight
    ListingRight
    OptionsRight
    SetupRight
    SubdirRight
    IconvRight
    LocksSound
    HeldPathsCurrent
    CountsAccounted
    TreeMirrorsFs
    HiddenFilesOpen
