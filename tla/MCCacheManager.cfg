SPECIFICATION MCSpec
CONSTANTS
    BlockID = {b1, b2, b3, b4, b5, b6}
    NullID = NullID
    Buff = {x}
    NullPtr = NullPtr
    Path <- MCPathFlat
    Dir = {}
    Node = {n1, n2, n3, n4, n5, n6}
    NoNode = NoNode
    numberOfBlocks = 5
    fOld = 2
    fNew = 2
    fScale = 5
    MaxRefCount = 2
VIEW MCView
INVARIANTS
    CacheTypeOK
    BoundariesMarkSections
    SectionTagsMatchPositions
    MapMatchesChain
    NullBlocksLast
    RecentlyUsedAreCached
PROPERTIES
    ImplementsFBR
CHECK_DEADLOCK FALSE
