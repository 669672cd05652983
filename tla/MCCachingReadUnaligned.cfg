SPECIFICATION MCSpec
CONSTANTS
    BlockID <- MCBlockID
    NullID = NullID
    Buff <- MCBuff
    NullPtr = NullPtr
    Path <- MCPath
    Dir = {}
    Node = {n1, n2, n3, n4}
    NoNode = NoNode
    numberOfBlocks = 3
    fOld = 1
    fNew = 1
    fScale = 3
    MaxRefCount = 3
    File <- MCFile
    fileSize <- MCFileSize
    inode <- MCInode
    filePath <- MCFilePath
    LogPath <- MCLogPath
    block_size = 3
    IntHalf = 8
    MaxOffset = 7
    MaxSize = 7
    Garbage = Garbage
VIEW MCView
INVARIANT
    ReadsCorrect
CHECK_DEADLOCK FALSE
