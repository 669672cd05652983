SPECIFICATION MCSpec
CONSTANTS
    BlockID = {b1, b2, b3, b4}
    NullID = NullID
    Buff = {x}
    NullPtr = NullPtr
    Path <- MCPathFlat
    Dir = {}
    Node = {n1, n2, n3, n4}
    NoNode = NoNode
    numberOfBlocks = 3
    fOld = 1
    fNew = 1
    fScale = 3
    MaxRefCount = 2
VIEW MCView
INVARIANT
    BoundariesAlwaysMarkSections
CHECK_DEADLOCK FALSE
