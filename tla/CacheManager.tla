---------------------------- MODULE CacheManager ----------------------------
(***************************************************************************)
(* The buffer cache: class CacheManager with its CacheBlocks.              *)
(*                                                                         *)
(* The cache is a doubly linked list of CacheBlocks, most recently used    *)
(* first, a map from block IDs to list iterators, and two iterators that   *)
(* mark the first block of the middle and of the old section.  List nodes  *)
(* have an identity here, because the map and the boundaries hold          *)
(* iterators: every hit and every insertion allocates a node at the head   *)
(* and frees another one.                                                  *)
(*                                                                         *)
(* FUSE runs with "-s", so one call of an operation is one atomic step.    *)
(***************************************************************************)
EXTENDS Integers, Sequences

CONSTANTS
    BlockID,         \* pairs (file ID, block number) that can be asked for
    NullID,          \* the ID (-1, -1) of a null block
    Buff,            \* block contents
    NullPtr,         \* the null pointer, the buff of a null block
    Path,            \* file paths, as sequences of names; bounds UpdatePaths
    Dir,             \* paths of directories
    Node,            \* addresses of list nodes
    NoNode,          \* end(), an absent map entry, a link that is no node
    numberOfBlocks,  \* constructor argument
    fOld, fNew,      \* constructor arguments, in units of 1 / fScale
    fScale,
    MaxRefCount      \* bound on the reference counts (an int in the code)

VARIABLES
    cacheChain,         \* the list: position 1 is begin()
    block,              \* block[n]: the CacheBlock node n points at
    blocksMap,          \* block ID -> iterator, NoNode when there is no entry
    middleSectionIter,  \* boundary iterators
    oldSectionIter,
    status              \* "running", "exited" (exit(1)) or "corrupt": a
                        \* pointer was read out of freed memory

cacheVars == <<cacheChain, block, blocksMap, middleSectionIter, oldSectionIter, status>>

-----------------------------------------------------------------------------
(***************************************************************************)
(* Construction.                                                           *)
(***************************************************************************)
Positions == 1 .. numberOfBlocks

newSectionSize    == (fNew * numberOfBlocks) \div fScale
oldSectionSize    == (fOld * numberOfBlocks) \div fScale
middleSectionSize == numberOfBlocks - newSectionSize - oldSectionSize

\* The checks main makes before it constructs the cache.
argsValidity ==
    /\ oldSectionSize >= 1 /\ fOld < fScale
    /\ newSectionSize >= 1 /\ fNew < fScale
    /\ fOld + fNew <= fScale
    /\ numberOfBlocks > 0

ASSUME ArgsAssumption ==
    /\ numberOfBlocks \in Int /\ fOld \in Int /\ fNew \in Int
    /\ fScale \in Nat \ {0}
    /\ argsValidity

ASSUME ValuesAssumption ==
    /\ NullID \notin BlockID
    /\ NullPtr \notin Buff
    /\ NoNode \notin Node
    /\ MaxRefCount \in Nat \ {0}

Section == {"newSection", "middleSection", "oldSection"}

CacheBlock ==
    [id : BlockID \cup {NullID}, refCount : 1 .. MaxRefCount, section : Section,
     buff : Buff \cup {NullPtr}, path : Path \cup {<<>>}]

M_NewCacheBlock(id, buff, path) ==
    [id |-> id, refCount |-> 0, section |-> "newSection", buff |-> buff, path |-> path]
NewCacheBlock(id, buff, path) ==
    [id |-> id, refCount |-> 1, section |-> "newSection", buff |-> buff, path |-> path]

NullBlock == NewCacheBlock(NullID, NullPtr, <<>>)

IsNull(b) == b.id = NullID

\* Any numberOfBlocks nodes of the heap form the first list.
CacheInit ==
    /\ cacheChain \in [Positions -> Node]
    /\ \A i, j \in Positions : cacheChain[i] = cacheChain[j] => i = j
    /\ block = [n \in Node |-> NullBlock]
    /\ blocksMap = [id \in BlockID |-> NoNode]
    /\ middleSectionIter = cacheChain[newSectionSize + 1]
    /\ oldSectionIter = cacheChain[newSectionSize + middleSectionSize + 1]
    /\ status = "running"

-----------------------------------------------------------------------------
(***************************************************************************)
(* The list.                                                               *)
(***************************************************************************)
FreeNodes == {n \in Node : \A i \in Positions : cacheChain[i] # n}

PositionOf(chain, it) == CHOOSE i \in Positions : chain[i] = it

\* push_front of node n, and the node at position k of the old list erased.
M_PushFrontErase(chain, n, k) ==
    [i \in Positions |-> IF i = numberOfBlocks THEN n
                         ELSE IF i >= k THEN chain[i + 1] ELSE chain[i]]
PushFrontErase(chain, n, k) ==
    [i \in Positions |-> IF i = 1 THEN n ELSE IF i <= k THEN chain[i - 1] ELSE chain[i]]

\* The prev link of node it; the one of begin() leads to end().
PrevNode(chain, it) ==
    LET i == PositionOf(chain, it) IN IF i = 1 THEN NoNode ELSE chain[i - 1]

\* (*n)->setSection(s)
M_SetSection(blk, n, s) == blk
SetSection(blk, n, s) == [blk EXCEPT ![n].section = s]

-----------------------------------------------------------------------------
(***************************************************************************)
(* findBlock.  On a hit the block is counted and the boundaries move       *)
(* according to its section; then a node that points at the same           *)
(* CacheBlock is pushed to the head and the old one is erased.  A freed    *)
(* node is NullBlock in the model: its contents are never used again.      *)
(***************************************************************************)
M_MoveToHead(id, blk) ==
    LET it == blocksMap[id] IN
    \E head \in FreeNodes :
        /\ cacheChain' = PushFrontErase(cacheChain, head, PositionOf(cacheChain, it))
        /\ block' = [blk EXCEPT ![head] = [blk[it] EXCEPT !.section = "newSection"],
                                ![it]   = NullBlock]
        /\ blocksMap' = blocksMap
MoveToHead(id, blk) ==
    LET it == blocksMap[id] IN
    \E head \in FreeNodes :
        /\ cacheChain' = PushFrontErase(cacheChain, head, PositionOf(cacheChain, it))
        /\ block' = [blk EXCEPT ![head] = [blk[it] EXCEPT !.section = "newSection"],
                                ![it]   = NullBlock]
        /\ blocksMap' = [blocksMap EXCEPT ![id] = head]

Cached(id) == blocksMap[id] # NoNode

CanCount(id) == block[blocksMap[id]].refCount < MaxRefCount

IncrementRefCount(blk, n) == [blk EXCEPT ![n].refCount = @ + 1]

FindInNew(id) ==
    /\ Cached(id)
    /\ block[blocksMap[id]].section = "newSection"
    /\ MoveToHead(id, block)
    /\ UNCHANGED <<middleSectionIter, oldSectionIter>>

FindInMiddle(id) ==
    /\ Cached(id)
    /\ block[blocksMap[id]].section = "middleSection"
    /\ CanCount(id)
    /\ middleSectionIter' = PrevNode(cacheChain, middleSectionIter)
    /\ MoveToHead(id, SetSection(IncrementRefCount(block, blocksMap[id]),
                                 middleSectionIter', "middleSection"))
    /\ UNCHANGED oldSectionIter

FindInOld(id) ==
    /\ Cached(id)
    /\ block[blocksMap[id]].section = "oldSection"
    /\ CanCount(id)
    /\ middleSectionIter' = PrevNode(cacheChain, middleSectionIter)
    /\ oldSectionIter' = PrevNode(cacheChain, oldSectionIter)
    /\ MoveToHead(id, SetSection(SetSection(IncrementRefCount(block, blocksMap[id]),
                                            middleSectionIter', "middleSection"),
                                 oldSectionIter', "oldSection"))

FindBlock(id) == FindInNew(id) \/ FindInMiddle(id) \/ FindInOld(id)

-----------------------------------------------------------------------------
(***************************************************************************)
(* retrieveBuffer: the buffer a hit returns is that of the block at the    *)
(* head; a miss returns nullptr and changes nothing.                       *)
(***************************************************************************)
RetrieveHit(id) ==
    /\ status = "running"
    /\ FindBlock(id)
    /\ UNCHANGED status

RetrieveMiss(id) ==
    /\ status = "running"
    /\ ~Cached(id)
    /\ UNCHANGED cacheVars

-----------------------------------------------------------------------------
(***************************************************************************)
(* insertBlock.                                                            *)
(***************************************************************************)
\* The block the scan of the old section settles on: a least referenced one,
\* and by "<=" the last of these.
M_EraseCandidate ==
    CHOOSE k \in PositionOf(cacheChain, oldSectionIter) .. numberOfBlocks :
        \A j \in PositionOf(cacheChain, oldSectionIter) .. numberOfBlocks :
            LET ref(i) == block[cacheChain[i]].refCount
            IN  ref(k) <= ref(j) /\ (ref(k) = ref(j) => k <= j)
EraseCandidate ==
    CHOOSE k \in PositionOf(cacheChain, oldSectionIter) .. numberOfBlocks :
        \A j \in PositionOf(cacheChain, oldSectionIter) .. numberOfBlocks :
            LET ref(i) == block[cacheChain[i]].refCount
            IN  ref(k) <= ref(j) /\ (ref(k) = ref(j) => j <= k)

\* The position of the list to erase: the last one while it is a null block.
ErasePosition ==
    IF IsNull(block[cacheChain[numberOfBlocks]]) THEN numberOfBlocks ELSE EraseCandidate

\* blocksMap[id] = begin(), and the entry of an evicted block erased.
M_MapAfterInsert(id, head, gone) == [blocksMap EXCEPT ![id] = head]
MapAfterInsert(id, head, gone) ==
    [i \in BlockID |-> IF i = block[gone].id THEN NoNode
                       ELSE IF i = id THEN head ELSE blocksMap[i]]

(***************************************************************************)
(* Both boundaries are decremented after the node was erased, and the      *)
(* erased node may be the one a boundary points at.  Its prev link is then *)
(* read out of freed memory: it is still the old link when the allocator   *)
(* left it in place, and no node at all when the allocator wrote its own   *)
(* data there.                                                             *)
(***************************************************************************)
InsertNew(id, buff, path) ==
    \E head \in FreeNodes :
    LET k     == ErasePosition
        gone  == cacheChain[k]
        chain == PushFrontErase(cacheChain, head, k)
    IN \E freedLink \in {IF k = 1 THEN head ELSE cacheChain[k - 1], NoNode} :
       LET prev(it) == IF it = gone THEN freedLink ELSE PrevNode(chain, it)
           mid      == prev(middleSectionIter)
           old      == prev(oldSectionIter)
           filled   == [block EXCEPT ![head] = NewCacheBlock(id, buff, path),
                                     ![gone] = NullBlock]
       IN /\ cacheChain' = chain
          /\ blocksMap' = MapAfterInsert(id, head, gone)
          /\ middleSectionIter' = mid
          /\ oldSectionIter' = old
          /\ block' = SetSection(SetSection(filled, mid, "middleSection"), old, "oldSection")
          /\ status' = IF NoNode \in {mid, old} THEN "corrupt" ELSE "running"

\* Inserting a block that is cached already ends the program, after the
\* look-up has moved that block to the head.
InsertCached(id) ==
    /\ FindBlock(id)
    /\ status' = "exited"

InsertBlock(id, buff, path) ==
    /\ status = "running"
    /\ \/ Cached(id) /\ InsertCached(id)
       \/ ~Cached(id) /\ InsertNew(id, buff, path)

-----------------------------------------------------------------------------
(***************************************************************************)
(* updatePaths: with a '/' appended to both, a prefix of the string is a   *)
(* prefix in whole names.                                                  *)
(***************************************************************************)
IsPathPrefix(p, path) == Len(p) <= Len(path) /\ SubSeq(path, 1, Len(p)) = p

ReplacePrefix(path, pathPrefix, newPathPrefix) ==
    IF IsPathPrefix(pathPrefix, path)
    THEN newPathPrefix \o SubSeq(path, Len(pathPrefix) + 1, Len(path))
    ELSE path

M_UpdatePaths(pathPrefix, newPathPrefix) ==
    /\ status = "running"
    /\ block' = [n \in Node |-> IF IsNull(block[n]) \/ block[n].path # pathPrefix THEN block[n]
                                ELSE [block[n] EXCEPT !.path = newPathPrefix]]
    /\ UNCHANGED <<cacheChain, blocksMap, middleSectionIter, oldSectionIter, status>>
UpdatePaths(pathPrefix, newPathPrefix) ==
    LET renamed(b) == [b EXCEPT !.path = ReplacePrefix(@, pathPrefix, newPathPrefix)]
    IN  /\ status = "running"
        /\ \A n \in Node : ~IsNull(block[n]) => renamed(block[n]).path \in Path
        /\ block' = [n \in Node |-> IF IsNull(block[n]) THEN block[n] ELSE renamed(block[n])]
        /\ UNCHANGED <<cacheChain, blocksMap, middleSectionIter, oldSectionIter, status>>

(***************************************************************************)
(* cacheToString: the lines it prints, without their layout.               *)
(***************************************************************************)
CacheToString ==
    LET fromBack == [i \in Positions |-> block[cacheChain[numberOfBlocks + 1 - i]]]
        printed(b) == ~IsNull(b)
    IN  SelectSeq(fromBack, printed)

-----------------------------------------------------------------------------
CacheNext ==
    \/ \E id \in BlockID : RetrieveHit(id) \/ RetrieveMiss(id)
    \/ \E id \in BlockID, buff \in Buff, path \in Path : InsertBlock(id, buff, path)
    \/ \E p, q \in Path : UpdatePaths(p, q)
    \/ \E p, q \in Dir : UpdatePaths(p, q)

CacheSpec == CacheInit /\ [][CacheNext]_cacheVars
-----------------------------------------------------------------------------
(***************************************************************************)
(* Properties.                                                             *)
(***************************************************************************)
\* The variables have their types; a reference count starts at 1 and only grows.
CacheTypeOK ==
    /\ cacheChain \in [Positions -> Node]
    /\ block \in [Node -> CacheBlock]
    /\ blocksMap \in [BlockID -> Node \cup {NoNode}]
    /\ middleSectionIter \in Node \cup {NoNode}
    /\ oldSectionIter \in Node \cup {NoNode}
    /\ status \in {"running", "exited", "corrupt"}

\* The boundary iterators stand on the first block of the middle and of the old
\* section, however hits and insertions moved them (findBlock, insertBlock), unless
\* a link was read out of freed memory and was not there any more.
BoundariesMarkSections ==
    status # "corrupt" =>
        /\ middleSectionIter = cacheChain[newSectionSize + 1]
        /\ oldSectionIter = cacheChain[newSectionSize + middleSectionSize + 1]

\* CacheManager.h documents the iterators as "the first block in the middle
\* section" and "the first block in te old section", without exception.
BoundariesAlwaysMarkSections ==
    /\ middleSectionIter = cacheChain[newSectionSize + 1]
    /\ oldSectionIter = cacheChain[newSectionSize + middleSectionSize + 1]

SectionAt(i) ==
    IF i <= newSectionSize THEN "newSection"
    ELSE IF i <= newSectionSize + middleSectionSize THEN "middleSection" ELSE "oldSection"

\* The section stored in a cached block, which findBlock trusts when it counts the
\* hit and moves the boundaries, is the section the block's position is in.
SectionTagsMatchPositions ==
    status # "corrupt" =>
        \A i \in Positions : LET b == block[cacheChain[i]]
                             IN  ~IsNull(b) => b.section = SectionAt(i)

\* The map and the list agree: an entry's iterator is a node of the list that holds
\* the block of that ID, never a node that a hit or an eviction erased, and every
\* cached block has an entry.
MapMatchesChain ==
    /\ \A i \in Positions : LET b == block[cacheChain[i]]
                            IN  ~IsNull(b) => blocksMap[b.id] = cacheChain[i]
    /\ \A id \in BlockID : Cached(id) =>
           /\ \E i \in Positions : cacheChain[i] = blocksMap[id]
           /\ block[blocksMap[id]].id = id

\* Null blocks stay behind all cached blocks, so insertBlock, which looks at back()
\* only, never evicts a block while a slot of the cache is unused.
NullBlocksLast ==
    \A i, j \in Positions :
        i < j /\ IsNull(block[cacheChain[i]]) => IsNull(block[cacheChain[j]])

\* No node is in the list twice.
NodesDistinct == \A i, j \in Positions : cacheChain[i] = cacheChain[j] => i = j

\* The inductive invariant: the boundaries are right because the tags are, the tags
\* because the boundaries are, and both because the map leads to the block it names.
CacheInv ==
    /\ CacheTypeOK
    /\ NodesDistinct
    /\ MapMatchesChain
    /\ NullBlocksLast
    /\ BoundariesMarkSections
    /\ SectionTagsMatchPositions

\* While a block stays cached, moving it around never changes the buffer that
\* retrieveBuffer returns for its ID.
BuffersStable ==
    [][\A id \in BlockID :
          Cached(id) /\ Cached(id)' =>
              block'[blocksMap'[id]].buff = block[blocksMap[id]].buff]_cacheVars

-----------------------------------------------------------------------------
(***************************************************************************)
(* The cache implements frequency-based replacement.                       *)
(***************************************************************************)
StackOfChain == [i \in Positions |-> block[cacheChain[i]].id]
CountOfChain ==
    [id \in BlockID |-> IF Cached(id) THEN block[blocksMap[id]].refCount ELSE 0]

Policy == INSTANCE FBR WITH
    Block <- BlockID, None <- NullID, Size <- numberOfBlocks,
    NewSize <- newSectionSize, OldSize <- oldSectionSize,
    stack <- StackOfChain, count <- CountOfChain

\* Seen through the IDs in the list and their reference counts, every step of the
\* cache is a step of frequency-based replacement: hits count outside the new section
\* only, and the victim is the least recently used of the least referenced old blocks.
ImplementsFBR == Policy!FBRSpec
=============================================================================
