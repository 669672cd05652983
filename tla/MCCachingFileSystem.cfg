SPECIFICATION MCSpec
CONSTANTS
    Scenes = {"reads", "renames", "names"}
    BlockID <- MCBlockID
    NullID = NullID
    Buff <- MCBuff
    NullPtr = NullPtr
    Path <- MCPath
    Dir <- MCDir
    Node = {n1, n2, n3, n4}
    NoNode = NoNode
    numberOfBlocks = 3
    fOld = 2
    fNew = 1
    fScale = 3
    MaxRefCount = 2
    File <- MCFile
    fileSize <- MCFileSize
    inode <- MCInode
    filePath <- MCFilePath
    LogPath <- MCLogPath
    block_size = 3
    IntHalf = 8
    MaxOffset = 7
    MaxSize = 7
    Garbage = Garbage
    Directory = {"root", "D"}
    LogFile = "L"
    rootTree <- MCRootTree
    Fd = {3, 4}
    Closed = Closed
VIEW MCView
CHECK_DEADLOCK FALSE
INVARIANTS
    CFSInv
    LogHidden
    CachedPathsCurrent
    ReadInv
    ReadCountExact
    AlignedReadsCorrect
    CachedBlocksHoldFileData
    CacheInv
PROPERTIES
    FirstListingComplete
    BuffersStable
