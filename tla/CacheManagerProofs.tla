------------------------- MODULE CacheManagerProofs -------------------------
(***************************************************************************)
(* Proofs about CacheManager, for every cache size, every split into       *)
(* sections that main accepts and every set of blocks: its inductive       *)
(* invariant; then what its operations do to the blocks as a caller sees   *)
(* them, by ID, and from that: buffers are stable, CacheManager implements *)
(* frequency-based replacement (FBR), and the blocks used last are cached. *)
(***************************************************************************)
EXTENDS CacheManager, CacheHistory, ListLemmas, WellFoundedInduction, TLAPS

-----------------------------------------------------------------------------
(***************************************************************************)
(* Arithmetic.                                                             *)
(***************************************************************************)
\* The floor of a quotient does not exceed it.
LEMMA DivBound ==
    ASSUME NEW x \in Int, NEW s \in Nat \ {0}
    PROVE  (x \div s) \in Int /\ s * (x \div s) <= x
  BY SMT

\* A positive factor can be cancelled.
LEMMA CancelFactor ==
    ASSUME NEW a \in Int, NEW b \in Int, NEW s \in Nat \ {0}, s * a <= s * b
    PROVE  a <= b
  BY SMT

\* Multiplication by a natural number is monotone.
LEMMA TimesMonotone ==
    ASSUME NEW a \in Int, NEW b \in Int, NEW n \in Nat, a <= b
    PROVE  a * n <= b * n
  BY SMT

\* A nonempty set of natural numbers has a least element.
LEMMA LeastElement ==
    ASSUME NEW T \in SUBSET Nat, T # {}
    PROVE  \E x \in T : \A y \in T : x <= y
  <1>1. PICK x \in T : \A y \in T : ~(<<y, x>> \in OpToRel(<, Nat))
    BY NatLessThanWellFounded, WFMin, Zenon
  <1>2. \A y \in T : ~(y < x)
    BY <1>1, Zenon DEF OpToRel
  <1> QED
    BY <1>2, SMT

\* What main checks of its arguments makes the constructor cut the list into a new and
\* an old section of at least one block each and a middle section that may be empty.
THEOREM SectionSizes ==
    /\ newSectionSize \in Nat /\ newSectionSize >= 1
    /\ oldSectionSize \in Nat /\ oldSectionSize >= 1
    /\ middleSectionSize \in Nat
    /\ numberOfBlocks \in Nat
    /\ numberOfBlocks = newSectionSize + middleSectionSize + oldSectionSize
  <1> DEFINE N == numberOfBlocks
  <1>1. N \in Nat /\ N >= 1 /\ fScale \in Nat \ {0} /\ fOld \in Int /\ fNew \in Int
    BY ArgsAssumption DEF argsValidity
  <1>2. newSectionSize \in Int /\ fScale * newSectionSize <= fNew * N
    BY <1>1, DivBound DEF newSectionSize
  <1>3. oldSectionSize \in Int /\ fScale * oldSectionSize <= fOld * N
    BY <1>1, DivBound DEF oldSectionSize
  <1>4. newSectionSize >= 1 /\ oldSectionSize >= 1
    BY ArgsAssumption DEF argsValidity
  <1>5. newSectionSize + oldSectionSize <= N
    <2>1. (fOld + fNew) * N <= fScale * N
      BY <1>1, TimesMonotone, ArgsAssumption DEF argsValidity
    <2>2. (fOld + fNew) * N = fOld * N + fNew * N
      BY <1>1, SMT
    <2>3. fScale * (newSectionSize + oldSectionSize)
              = fScale * newSectionSize + fScale * oldSectionSize
      BY <1>1, <1>2, <1>3, SMT
    <2> DEFINE a == fScale * newSectionSize
               b == fScale * oldSectionSize
               c == fNew * N
               d == fOld * N
               e == fScale * N
    <2>4. a \in Int /\ b \in Int /\ c \in Int /\ d \in Int /\ e \in Int
      BY <1>1, <1>2, <1>3
    <2>5. a + b <= e
      <3> HIDE DEF a, b, c, d, e
      <3>1. a <= c /\ b <= d /\ d + c <= e
        BY <1>2, <1>3, <2>1, <2>2 DEF a, b, c, d, e
      <3> QED
        BY <2>4, <3>1
    <2>6. fScale * (newSectionSize + oldSectionSize) <= fScale * N
      BY <2>3, <2>5
    <2> QED
      BY <2>6, <1>1, <1>2, <1>3, CancelFactor
  <1> HIDE DEF N
  <1>6. middleSectionSize = N - newSectionSize - oldSectionSize
    BY DEF middleSectionSize, N
  <1> QED
    BY <1>1, <1>2, <1>3, <1>4, <1>5, <1>6 DEF N
-----------------------------------------------------------------------------
(***************************************************************************)
(* The list.                                                               *)
(***************************************************************************)
Injective(chain) == \A i, j \in Positions : chain[i] = chain[j] => i = j

\* The position of the node at position i is i.
LEMMA PositionOfNode ==
    ASSUME NEW chain \in [Positions -> Node], Injective(chain), NEW i \in Positions
    PROVE  PositionOf(chain, chain[i]) = i
  BY DEF PositionOf, Injective

\* The prev link of a node that is not the first leads to the node before it.
LEMMA PrevOfNode ==
    ASSUME NEW chain \in [Positions -> Node], Injective(chain),
           NEW i \in Positions, i # 1
    PROVE  PrevNode(chain, chain[i]) = chain[i - 1]
  BY PositionOfNode DEF PrevNode

\* c is the list chain after push_front of n and erase of position k: the nodes before
\* the erased one move back by one place, the others stay, no node appears twice, and
\* the erased one is gone.
PushedAndErased(chain, n, k, c) ==
    /\ c \in [Positions -> Node] /\ Injective(c)
    /\ c[1] = n
    /\ \A i \in Positions : i # 1 /\ i <= k => c[i] = chain[i - 1]
    /\ \A i \in Positions : i > k => c[i] = chain[i]
    /\ \A i \in Positions : c[i] # chain[k]
    /\ \A i \in Positions : i < k => c[i + 1] = chain[i]

\* PushFrontErase of a node that was not in the list does that.
LEMMA PushFrontEraseList ==
    ASSUME NEW chain \in [Positions -> Node], Injective(chain),
           NEW n \in Node, \A i \in Positions : chain[i] # n,
           NEW k \in Positions
    PROVE  PushedAndErased(chain, n, k, PushFrontErase(chain, n, k))
  <1> DEFINE c == PushFrontErase(chain, n, k)
  <1> USE SectionSizes DEF Positions
  <1>1. c = [i \in Positions |-> IF i = 1 THEN n ELSE IF i <= k THEN chain[i - 1] ELSE chain[i]]
    BY DEF PushFrontErase
  <1> HIDE DEF c
  <1>2. c \in [Positions -> Node]
    BY <1>1
  <1>3. c[1] = n
    BY <1>1
  <1>4. \A i \in Positions : i # 1 /\ i <= k => c[i] = chain[i - 1]
    BY <1>1
  <1>5. \A i \in Positions : i > k => c[i] = chain[i]
    BY <1>1
  <1>6. \A i \in Positions : c[i] # chain[k]
    <2> SUFFICES ASSUME NEW i \in Positions PROVE c[i] # chain[k]
      OBVIOUS
    <2>1. CASE i = 1
      BY <2>1, <1>3
    <2>2. CASE i # 1 /\ i <= k
      BY <2>2, <1>4 DEF Injective
    <2>3. CASE i > k
      BY <2>3, <1>5 DEF Injective
    <2> QED
      BY <2>1, <2>2, <2>3
  <1>7. Injective(c)
    <2> SUFFICES ASSUME NEW i \in Positions, NEW j \in Positions, c[i] = c[j], i < j
                 PROVE  FALSE
      BY DEF Injective
    <2>1. CASE i = 1 /\ j <= k
      BY <2>1, <1>3, <1>4
    <2>2. CASE i = 1 /\ j > k
      BY <2>2, <1>3, <1>5
    <2>3. CASE i # 1 /\ j <= k
      BY <2>3, <1>4 DEF Injective
    <2>4. CASE i # 1 /\ i <= k /\ j > k
      BY <2>4, <1>4, <1>5 DEF Injective
    <2>5. CASE i > k
      BY <2>5, <1>5 DEF Injective
    <2> QED
      BY <2>1, <2>2, <2>3, <2>4, <2>5
  <1>8. \A i \in Positions : i < k => c[i + 1] = chain[i]
    BY <1>1
  <1>9. PushedAndErased(chain, n, k, c)
    BY <1>2, <1>3, <1>4, <1>5, <1>6, <1>7, <1>8 DEF PushedAndErased
  <1> QED
    BY <1>9 DEF c

\* Null blocks and new blocks are CacheBlocks.
LEMMA NewBlocksAreBlocks ==
    /\ NullBlock \in CacheBlock /\ IsNull(NullBlock)
    /\ \A id \in BlockID, buff \in Buff, path \in Path :
           NewCacheBlock(id, buff, path) \in CacheBlock
  BY ValuesAssumption DEF NullBlock, NewCacheBlock, CacheBlock, Section, IsNull
\* setSection, incrementRefCount and setPath keep a CacheBlock one, and its ID.
LEMMA ChangedBlocksAreBlocks ==
    ASSUME NEW b \in CacheBlock
    PROVE  /\ \A sec \in Section :
                  LET c == [b EXCEPT !.section = sec]
                  IN  /\ c \in CacheBlock /\ c.id = b.id /\ c.section = sec
                      /\ c.refCount = b.refCount /\ c.buff = b.buff
           /\ b.refCount < MaxRefCount =>
                  LET c == [b EXCEPT !.refCount = @ + 1]
                  IN  /\ c \in CacheBlock /\ c.id = b.id /\ c.section = b.section
                      /\ c.refCount = b.refCount + 1 /\ c.buff = b.buff /\ c.path = b.path
           /\ \A path \in Path :
                  LET c == [b EXCEPT !.path = path]
                  IN  /\ c \in CacheBlock /\ c.id = b.id /\ c.section = b.section
                      /\ c.refCount = b.refCount /\ c.buff = b.buff
  BY ValuesAssumption DEF CacheBlock

\* setSection changes one section tag and nothing else, if it is called on a node.
LEMMA SetSectionOfNode ==
    ASSUME NEW blk \in [Node -> CacheBlock], NEW n \in Node \cup {NoNode}, NEW sec \in Section
    PROVE  LET new == SetSection(blk, n, sec)
           IN  /\ new \in [Node -> CacheBlock]
               /\ \A m \in Node : /\ new[m].id = blk[m].id
                                  /\ new[m].refCount = blk[m].refCount
                                  /\ new[m].buff = blk[m].buff
                                  /\ new[m].path = blk[m].path
                                  /\ m # n => new[m].section = blk[m].section
               /\ n \in Node => new[n].section = sec
  BY DEF SetSection, CacheBlock

\* incrementRefCount changes one reference count and nothing else.
LEMMA IncrementRefCountOfNode ==
    ASSUME NEW blk \in [Node -> CacheBlock], NEW n \in Node, blk[n].refCount < MaxRefCount
    PROVE  LET new == IncrementRefCount(blk, n)
           IN  /\ new \in [Node -> CacheBlock]
               /\ \A m \in Node : /\ new[m].id = blk[m].id
                                  /\ new[m].section = blk[m].section
                                  /\ new[m].buff = blk[m].buff
                                  /\ new[m].path = blk[m].path
                                  /\ m # n => new[m].refCount = blk[m].refCount
               /\ new[n].refCount = blk[n].refCount + 1
  BY ChangedBlocksAreBlocks DEF IncrementRefCount

\* Every node of the new list but the first was in the old one, at a place that is
\* not the erased one, and the order of the old list is kept.
LEMMA ShiftedNode ==
    ASSUME NEW chain \in [Positions -> Node], NEW n \in Node, NEW k \in Positions,
           NEW c, PushedAndErased(chain, n, k, c), NEW i \in Positions, i # 1
    PROVE  \E a \in Positions : /\ a # k /\ c[i] = chain[a]
                                /\ (a = i - 1 /\ i <= k) \/ (a = i /\ i > k)
  <1> USE SectionSizes DEF Positions
  <1>1. CASE i <= k
    <2>1. i - 1 \in Positions /\ i - 1 # k /\ c[i] = chain[i - 1]
      BY <1>1 DEF PushedAndErased
    <2> QED
      BY <1>1, <2>1
  <1>2. CASE i > k
    <2>1. c[i] = chain[i]
      BY <1>2 DEF PushedAndErased
    <2> QED
      BY <1>2, <2>1
  <1> QED
    BY <1>1, <1>2

\* Conversely, every node but the erased one is still in the list.
LEMMA KeptNode ==
    ASSUME NEW chain \in [Positions -> Node], NEW n \in Node, NEW k \in Positions,
           NEW c, PushedAndErased(chain, n, k, c), NEW j \in Positions, j # k
    PROVE  \E i \in Positions : i # 1 /\ c[i] = chain[j]
  <1> USE SectionSizes DEF Positions
  <1>1. CASE j < k
    <2>1. j + 1 \in Positions /\ j + 1 # 1 /\ c[j + 1] = chain[j]
      BY <1>1 DEF PushedAndErased
    <2> QED
      BY <2>1
  <1>2. CASE j > k
    BY <1>2 DEF PushedAndErased
  <1> QED
    BY <1>1, <1>2

\* MapMatchesChain and NullBlocksLast of a list, its blocks and its map.
NullsLast(chain, blk) ==
    \A i, j \in Positions : i < j /\ IsNull(blk[chain[i]]) => IsNull(blk[chain[j]])

MapMatches(chain, blk, map) ==
    /\ \A i \in Positions : ~IsNull(blk[chain[i]]) => map[blk[chain[i]].id] = chain[i]
    /\ \A x \in BlockID : map[x] # NoNode => /\ \E i \in Positions : chain[i] = map[x]
                                             /\ blk[map[x]].id = x

\* Null blocks stay last when a block that is not null is pushed to the head.
LEMMA NullsStayLast ==
    ASSUME NEW chain \in [Positions -> Node], NEW n \in Node, NEW k \in Positions,
           NEW c, PushedAndErased(chain, n, k, c),
           NEW blk, NEW blk2, NullsLast(chain, blk), ~IsNull(blk2[c[1]]),
           \A i \in Positions : i # 1 => blk2[c[i]].id = blk[c[i]].id
    PROVE  NullsLast(c, blk2)
  <1> USE SectionSizes DEF Positions
  <1> SUFFICES ASSUME NEW i \in Positions, NEW j \in Positions, i < j, IsNull(blk2[c[i]])
               PROVE  IsNull(blk2[c[j]])
    BY DEF NullsLast
  <1>1. i # 1 /\ j # 1
    OBVIOUS
  <1>2. PICK a \in Positions : /\ a # k /\ c[i] = chain[a]
                               /\ (a = i - 1 /\ i <= k) \/ (a = i /\ i > k)
    BY <1>1, ShiftedNode
  <1>3. PICK b \in Positions : /\ b # k /\ c[j] = chain[b]
                               /\ (b = j - 1 /\ j <= k) \/ (b = j /\ j > k)
    BY <1>1, ShiftedNode
  <1>4. a <= b
    BY <1>2, <1>3
  <1>5. IsNull(blk[chain[a]])
    BY <1>1, <1>2 DEF IsNull
  <1>6. IsNull(blk[chain[b]])
    BY <1>4, <1>5 DEF NullsLast
  <1> QED
    BY <1>1, <1>3, <1>6 DEF IsNull

\* The block of the new head is the only one with ID id and gets the entry of id; a
\* block that left the list loses its entry.
MapFollows(id, k, chain, blk, map, c, blk2, map2) ==
    /\ \A i \in Positions : i # k => blk[chain[i]].id # id
    /\ blk2[c[1]].id = id
    /\ \A i \in Positions : i # 1 => blk2[c[i]].id = blk[c[i]].id
    /\ map2[id] = c[1]
    /\ \A x \in BlockID : x # id =>
           map2[x] = IF x = blk[chain[k]].id THEN NoNode ELSE map[x]

\* Then the map stays in step with the list.
LEMMA MapStaysMatched ==
    ASSUME NEW chain \in [Positions -> Node], Injective(chain),
           NEW n \in Node, NEW k \in Positions,
           NEW c, PushedAndErased(chain, n, k, c),
           NEW blk \in [Node -> CacheBlock], NEW map, MapMatches(chain, blk, map),
           NEW id \in BlockID, NEW blk2, NEW map2,
           MapFollows(id, k, chain, blk, map, c, blk2, map2)
    PROVE  MapMatches(c, blk2, map2)
  <1> USE DEF MapFollows
  <1>1. ASSUME NEW i \in Positions, ~IsNull(blk2[c[i]])
        PROVE  map2[blk2[c[i]].id] = c[i]
    <2>1. CASE i = 1
      BY <2>1
    <2>2. CASE i # 1
      <3>1. PICK a \in Positions : a # k /\ c[i] = chain[a]
        BY <2>2, ShiftedNode
      <3>2. blk2[c[i]].id = blk[chain[a]].id
        BY <2>2, <3>1
      <3>3. map[blk[chain[a]].id] = chain[a]
        BY <1>1, <3>1, <3>2 DEF MapMatches, IsNull
      <3>4. blk[chain[a]].id \in BlockID /\ blk[chain[a]].id # id
        BY <1>1, <3>1, <3>2 DEF IsNull, CacheBlock
      <3>5. blk[chain[a]].id # blk[chain[k]].id
        <4>1. SUFFICES ASSUME blk[chain[k]].id = blk[chain[a]].id
                       PROVE  FALSE
          OBVIOUS
        <4>2. map[blk[chain[k]].id] = chain[k]
          BY <1>1, <3>2, <4>1 DEF MapMatches, IsNull
        <4>3. chain[k] = chain[a]
          BY <3>3, <4>1, <4>2
        <4> QED
          BY <3>1, <4>3 DEF Injective
      <3> QED
        BY <3>1, <3>2, <3>3, <3>4, <3>5
    <2> QED
      BY <2>1, <2>2
  <1>2. ASSUME NEW x \in BlockID, map2[x] # NoNode
        PROVE  (\E i \in Positions : c[i] = map2[x]) /\ blk2[map2[x]].id = x
    <2>1. CASE x = id
      <3>1. 1 \in Positions
        BY SectionSizes DEF Positions
      <3> QED
        BY <2>1, <3>1
    <2>2. CASE x # id
      <3>1. x # blk[chain[k]].id /\ map2[x] = map[x]
        BY <1>2, <2>2
      <3>2. PICK j \in Positions : chain[j] = map[x] /\ blk[chain[j]].id = x
        BY <1>2, <3>1 DEF MapMatches
      <3>3. PICK i \in Positions : i # 1 /\ c[i] = chain[j]
        BY <3>1, <3>2, KeptNode
      <3> QED
        BY <3>1, <3>2, <3>3
    <2> QED
      BY <2>1, <2>2
  <1> QED
    BY <1>1, <1>2 DEF MapMatches

-----------------------------------------------------------------------------
(***************************************************************************)
(* findBlock.                                                              *)
(***************************************************************************)
\* A cached block is at some position of the list.
LEMMA CachedPosition ==
    ASSUME CacheInv, NEW id \in BlockID, Cached(id)
    PROVE  \E k \in Positions : /\ cacheChain[k] = blocksMap[id]
                                /\ block[cacheChain[k]].id = id
                                /\ ~IsNull(block[cacheChain[k]])
  BY ValuesAssumption DEF CacheInv, MapMatchesChain, IsNull

\* Moving a block to the head keeps list and map in step, if nothing but counts and
\* section tags have changed before.
LEMMA MoveToHeadStep ==
    ASSUME CacheInv, NEW id \in BlockID, Cached(id),
           NEW k \in Positions, cacheChain[k] = blocksMap[id],
           NEW blk \in [Node -> CacheBlock], \A n \in Node : blk[n].id = block[n].id,
           MoveToHead(id, blk)
    PROVE  /\ cacheChain' \in [Positions -> Node] /\ Injective(cacheChain')
           /\ \A i \in Positions : i # 1 /\ i <= k => cacheChain'[i] = cacheChain[i - 1]
           /\ \A i \in Positions : i > k => cacheChain'[i] = cacheChain[i]
           /\ block' \in [Node -> CacheBlock]
           /\ blocksMap' \in [BlockID -> Node \cup {NoNode}]
           /\ block'[cacheChain'[1]] = [blk[cacheChain[k]] EXCEPT !.section = "newSection"]
           /\ \A i \in Positions : i # 1 => block'[cacheChain'[i]] = blk[cacheChain'[i]]
           /\ blocksMap' = [blocksMap EXCEPT ![id] = cacheChain'[1]]
           /\ MapMatchesChain'
           /\ NullBlocksLast'
  <1>1. /\ cacheChain \in [Positions -> Node] /\ Injective(cacheChain)
        /\ block \in [Node -> CacheBlock]
        /\ blocksMap \in [BlockID -> Node \cup {NoNode}]
    BY DEF CacheInv, CacheTypeOK, NodesDistinct, Injective
  <1>2. PICK head \in FreeNodes :
           /\ cacheChain' = PushFrontErase(cacheChain, head, PositionOf(cacheChain, blocksMap[id]))
           /\ block' = [blk EXCEPT
                          ![head] = [blk[blocksMap[id]] EXCEPT !.section = "newSection"],
                          ![blocksMap[id]] = NullBlock]
           /\ blocksMap' = [blocksMap EXCEPT ![id] = head]
    BY DEF MoveToHead
  <1>3. head \in Node /\ \A i \in Positions : cacheChain[i] # head
    BY <1>2 DEF FreeNodes
  <1>4. cacheChain' = PushFrontErase(cacheChain, head, k)
    BY <1>1, <1>2, PositionOfNode
  <1>5. PushedAndErased(cacheChain, head, k, cacheChain')
    <2>1. PushedAndErased(cacheChain, head, k, PushFrontErase(cacheChain, head, k))
      BY <1>1, <1>3, PushFrontEraseList
    <2> QED
      BY <1>4, <2>1
  <1>6. block' \in [Node -> CacheBlock]
    <2>1. [blk[cacheChain[k]] EXCEPT !.section = "newSection"] \in CacheBlock
      BY <1>1, ChangedBlocksAreBlocks DEF Section
    <2> QED
      BY <1>1, <1>2, <1>3, <2>1, NewBlocksAreBlocks
  <1>7. blocksMap' \in [BlockID -> Node \cup {NoNode}]
    BY <1>1, <1>2, <1>3
  <1>8. block'[cacheChain'[1]] = [blk[cacheChain[k]] EXCEPT !.section = "newSection"]
    BY <1>1, <1>2, <1>3, <1>5, SectionSizes DEF PushedAndErased, Positions
  <1>9. \A i \in Positions : i # 1 => block'[cacheChain'[i]] = blk[cacheChain'[i]]
    <2> SUFFICES ASSUME NEW i \in Positions, i # 1
                 PROVE  block'[cacheChain'[i]] = blk[cacheChain'[i]]
      OBVIOUS
    <2>1. 1 \in Positions
      BY SectionSizes DEF Positions
    <2>2. cacheChain'[i] \in Node /\ cacheChain'[i] # head /\ cacheChain'[i] # cacheChain[k]
      BY <1>5, <2>1 DEF PushedAndErased, Injective
    <2> QED
      BY <1>2, <2>2
  <1>10. block[cacheChain[k]].id = id /\ block'[cacheChain'[1]].id = id
    BY <1>1, <1>8 DEF CacheInv, MapMatchesChain, Cached, CacheBlock
  <1>11. \A i \in Positions : i # 1 => block'[cacheChain'[i]].id = block[cacheChain'[i]].id
    BY <1>5, <1>9 DEF PushedAndErased
  <1>12. MapMatchesChain'
    <2>1. MapMatches(cacheChain, block, blocksMap)
      BY DEF CacheInv, MapMatchesChain, MapMatches, Cached
    <2>2. \A i \in Positions : i # k => block[cacheChain[i]].id # id
      BY <1>1, ValuesAssumption DEF CacheInv, MapMatchesChain, IsNull, Injective
    <2>3. blocksMap'[id] = cacheChain'[1]
          /\ \A x \in BlockID : x # id => blocksMap'[x] = blocksMap[x]
      BY <1>1, <1>2, <1>5 DEF PushedAndErased
    <2>4. MapFollows(id, k, cacheChain, block, blocksMap, cacheChain', block', blocksMap')
      BY <1>10, <1>11, <2>2, <2>3 DEF MapFollows
    <2>5. MapMatches(cacheChain', block', blocksMap')
      BY <1>1, <1>3, <1>5, <2>1, <2>4, MapStaysMatched
    <2> QED
      BY <2>5 DEF MapMatchesChain, MapMatches, Cached
  <1>13. NullBlocksLast'
    <2>1. NullsLast(cacheChain, block)
      BY DEF CacheInv, NullBlocksLast, NullsLast
    <2>2. ~IsNull(block'[cacheChain'[1]])
      BY <1>10, ValuesAssumption DEF IsNull
    <2>3. NullsLast(cacheChain', block')
      BY <1>1, <1>3, <1>5, <1>11, <2>1, <2>2, NullsStayLast
    <2> QED
      BY <2>3 DEF NullBlocksLast, NullsLast
  <1> QED
    BY <1>2, <1>5, <1>6, <1>7, <1>8, <1>9, <1>12, <1>13 DEF PushedAndErased

\* The boundaries and tags a move to the head needs: every node that crosses a
\* boundary has its tag set in blk, and the boundaries step back if they are not
\* behind the moved block.
LEMMA MoveToHeadInv ==
    ASSUME CacheInv, NEW id \in BlockID, Cached(id),
           NEW k \in Positions, cacheChain[k] = blocksMap[id],
           NEW blk \in [Node -> CacheBlock], \A n \in Node : blk[n].id = block[n].id,
           MoveToHead(id, blk),
           \A i \in Positions : i < k /\ ~IsNull(block[cacheChain[i]])
                               => blk[cacheChain[i]].section = SectionAt(i + 1),
           \A i \in Positions : i > k /\ ~IsNull(block[cacheChain[i]])
                               => blk[cacheChain[i]].section = SectionAt(i),
           middleSectionIter' = cacheChain'[newSectionSize + 1],
           oldSectionIter' = cacheChain'[newSectionSize + middleSectionSize + 1],
           status' \in {"running", "exited"}
    PROVE  CacheInv'
  <1> USE SectionSizes DEF Positions
  <1>1. /\ cacheChain' \in [Positions -> Node] /\ Injective(cacheChain')
        /\ \A i \in Positions : i # 1 /\ i <= k => cacheChain'[i] = cacheChain[i - 1]
        /\ \A i \in Positions : i > k => cacheChain'[i] = cacheChain[i]
        /\ block' \in [Node -> CacheBlock]
        /\ blocksMap' \in [BlockID -> Node \cup {NoNode}]
        /\ block'[cacheChain'[1]] = [blk[cacheChain[k]] EXCEPT !.section = "newSection"]
        /\ \A i \in Positions : i # 1 => block'[cacheChain'[i]] = blk[cacheChain'[i]]
        /\ MapMatchesChain'
        /\ NullBlocksLast'
    BY MoveToHeadStep, SMTT(30)
  <1>2. CacheTypeOK'
    BY <1>1 DEF CacheTypeOK
  <1>3. NodesDistinct'
    BY <1>1 DEF NodesDistinct, Injective
  <1>4. BoundariesMarkSections'
    BY DEF BoundariesMarkSections
  <1>5. SectionTagsMatchPositions'
    <2> SUFFICES ASSUME NEW i \in Positions, ~IsNull(block'[cacheChain'[i]])
                 PROVE  block'[cacheChain'[i]].section = SectionAt(i)
      BY DEF SectionTagsMatchPositions
    <2>1. cacheChain \in [Positions -> Node]
      BY DEF CacheInv, CacheTypeOK
    <2>2. CASE i = 1
      <3>1. blk[cacheChain[k]] \in CacheBlock
        BY <2>1
      <3> QED
        BY <1>1, <2>2, <3>1 DEF SectionAt, CacheBlock
    <2>3. CASE i # 1 /\ i <= k
      <3>1. cacheChain'[i] = cacheChain[i - 1] /\ i - 1 \in Positions /\ i - 1 < k
        BY <1>1, <2>3, SMTT(30)
      <3>2. block'[cacheChain'[i]] = blk[cacheChain[i - 1]]
        BY <1>1, <2>3, <3>1
      <3>3. ~IsNull(block[cacheChain[i - 1]])
        BY <2>1, <3>1, <3>2 DEF IsNull
      <3>4. (i - 1) + 1 = i
        OBVIOUS
      <3> QED
        BY <3>1, <3>2, <3>3, <3>4
    <2>4. CASE i > k
      <3>1. cacheChain'[i] = cacheChain[i] /\ block'[cacheChain'[i]] = blk[cacheChain[i]]
        BY <1>1, <2>4
      <3>2. ~IsNull(block[cacheChain[i]])
        BY <2>1, <3>1 DEF IsNull
      <3> QED
        BY <2>4, <3>1, <3>2
    <2> QED
      BY <2>2, <2>3, <2>4
  <1> QED
    BY <1>1, <1>2, <1>3, <1>4, <1>5 DEF CacheInv

\* A hit keeps the invariant, whichever section the block is found in.
LEMMA FindBlockInv ==
    ASSUME CacheInv, status = "running", NEW id \in BlockID, FindBlock(id),
           status' \in {"running", "exited"}
    PROVE  CacheInv'
  <1> USE SectionSizes DEF Positions
  <1> DEFINE mid == newSectionSize + 1
             old == newSectionSize + middleSectionSize + 1
  <1>1. Cached(id)
    BY DEF FindBlock, FindInNew, FindInMiddle, FindInOld
  <1>2. PICK k \in Positions : cacheChain[k] = blocksMap[id] /\ ~IsNull(block[cacheChain[k]])
    BY <1>1, CachedPosition
  <1>3. /\ cacheChain \in [Positions -> Node] /\ Injective(cacheChain)
        /\ block \in [Node -> CacheBlock]
    BY DEF CacheInv, CacheTypeOK, NodesDistinct, Injective
  <1>4. /\ mid \in Positions /\ mid # 1 /\ middleSectionIter = cacheChain[mid]
        /\ old \in Positions /\ old # 1 /\ oldSectionIter = cacheChain[old]
    BY DEF CacheInv, BoundariesMarkSections
  <1>5. \A i \in Positions : ~IsNull(block[cacheChain[i]])
                             => block[cacheChain[i]].section = SectionAt(i)
    BY DEF CacheInv, SectionTagsMatchPositions
  <1>6. PrevNode(cacheChain, middleSectionIter) = cacheChain[newSectionSize]
    <2>1. PrevNode(cacheChain, cacheChain[mid]) = cacheChain[mid - 1]
      <3> HIDE DEF mid, old
      <3> QED
        BY <1>3, <1>4, PrevOfNode
    <2> QED
      BY <1>4, <2>1
  <1>7. PrevNode(cacheChain, oldSectionIter) = cacheChain[newSectionSize + middleSectionSize]
    <2>1. PrevNode(cacheChain, cacheChain[old]) = cacheChain[old - 1]
      <3> HIDE DEF mid, old
      <3> QED
        BY <1>3, <1>4, PrevOfNode
    <2> QED
      BY <1>4, <2>1
  <1>8. ASSUME NEW blk \in [Node -> CacheBlock], \A n \in Node : blk[n].id = block[n].id,
               MoveToHead(id, blk)
        PROVE  /\ \A i \in Positions : i # 1 /\ i <= k => cacheChain'[i] = cacheChain[i - 1]
               /\ \A i \in Positions : i > k => cacheChain'[i] = cacheChain[i]
    BY <1>1, <1>2, <1>8, MoveToHeadStep
  <1>9. CASE FindInNew(id)
    <2>1. MoveToHead(id, block) /\ UNCHANGED <<middleSectionIter, oldSectionIter>>
      BY <1>9 DEF FindInNew
    <2>2. k <= newSectionSize
      BY <1>2, <1>5, <1>9 DEF FindInNew, SectionAt
    <2>3. middleSectionIter' = cacheChain'[mid] /\ oldSectionIter' = cacheChain'[old]
      BY <1>3, <1>4, <1>8, <2>1, <2>2
    <2>4. \A i \in Positions : i < k /\ ~IsNull(block[cacheChain[i]])
                               => block[cacheChain[i]].section = SectionAt(i + 1)
      BY <1>5, <2>2 DEF SectionAt
    <2> QED
      BY <1>1, <1>2, <1>3, <1>5, <2>1, <2>3, <2>4, MoveToHeadInv
  <1>10. CASE FindInMiddle(id)
    <2> DEFINE blk1 == IncrementRefCount(block, cacheChain[k])
               blk2 == SetSection(blk1, cacheChain[newSectionSize], "middleSection")
    <2>1. /\ MoveToHead(id, blk2)
          /\ middleSectionIter' = cacheChain[newSectionSize] /\ UNCHANGED oldSectionIter
      BY <1>2, <1>6, <1>10 DEF FindInMiddle
    <2>2. newSectionSize < k /\ k <= newSectionSize + middleSectionSize
      BY <1>2, <1>5, <1>10 DEF FindInMiddle, SectionAt
    <2>3. blk1 \in [Node -> CacheBlock]
          /\ \A m \in Node : blk1[m].id = block[m].id /\ blk1[m].section = block[m].section
      BY <1>2, <1>3, <1>10, IncrementRefCountOfNode DEF FindInMiddle, CanCount
    <2> HIDE DEF blk1
    <2>4. /\ blk2 \in [Node -> CacheBlock]
          /\ \A m \in Node : blk2[m].id = block[m].id
          /\ \A m \in Node : m # cacheChain[newSectionSize] => blk2[m].section = block[m].section
          /\ blk2[cacheChain[newSectionSize]].section = "middleSection"
      <3>1. cacheChain[newSectionSize] \in Node
        BY <1>3
      <3> QED
        BY <2>3, <3>1, SetSectionOfNode DEF Section
    <2> HIDE DEF blk2
    <2>5. middleSectionIter' = cacheChain'[mid] /\ oldSectionIter' = cacheChain'[old]
      <3>1. mid <= k /\ old > k /\ mid - 1 = newSectionSize
        BY <2>2
      <3>2. cacheChain'[mid] = cacheChain[mid - 1]
        BY <1>4, <1>8, <2>1, <2>4, <3>1
      <3>3. cacheChain'[old] = cacheChain[old]
        BY <1>4, <1>8, <2>1, <2>4, <3>1
      <3> QED
        BY <1>4, <2>1, <3>1, <3>2, <3>3
    <2>6. \A i \in Positions : i # newSectionSize => blk2[cacheChain[i]].section = block[cacheChain[i]].section
      BY <1>3, <2>4 DEF Injective
    <2>7. \A i \in Positions : i < k /\ ~IsNull(block[cacheChain[i]])
                               => blk2[cacheChain[i]].section = SectionAt(i + 1)
      BY <1>5, <2>2, <2>4, <2>6 DEF SectionAt
    <2>8. \A i \in Positions : i > k /\ ~IsNull(block[cacheChain[i]])
                               => blk2[cacheChain[i]].section = SectionAt(i)
      BY <1>5, <2>2, <2>6
    <2> QED
      BY <1>1, <1>2, <2>1, <2>4, <2>5, <2>7, <2>8, MoveToHeadInv
  <1>11. CASE FindInOld(id)
    <2> DEFINE m1 == cacheChain[newSectionSize]
               m2 == cacheChain[newSectionSize + middleSectionSize]
               blk1 == IncrementRefCount(block, cacheChain[k])
               blk2 == SetSection(blk1, m1, "middleSection")
               blk3 == SetSection(blk2, m2, "oldSection")
    <2>1. MoveToHead(id, blk3) /\ middleSectionIter' = m1 /\ oldSectionIter' = m2
      BY <1>2, <1>6, <1>7, <1>11 DEF FindInOld
    <2>2. newSectionSize + middleSectionSize < k
      BY <1>2, <1>5, <1>11 DEF FindInOld, SectionAt
    <2>3. blk1 \in [Node -> CacheBlock]
          /\ \A m \in Node : blk1[m].id = block[m].id /\ blk1[m].section = block[m].section
      BY <1>2, <1>3, <1>11, IncrementRefCountOfNode DEF FindInOld, CanCount
    <2> HIDE DEF blk1
    <2>4. m1 \in Node /\ m2 \in Node
      BY <1>3
    <2>5. /\ blk2 \in [Node -> CacheBlock]
          /\ \A m \in Node : blk2[m].id = block[m].id
          /\ \A m \in Node : m # m1 => blk2[m].section = block[m].section
          /\ blk2[m1].section = "middleSection"
      BY <2>3, <2>4, SetSectionOfNode DEF Section
    <2> HIDE DEF blk2
    <2>6. /\ blk3 \in [Node -> CacheBlock]
          /\ \A m \in Node : blk3[m].id = block[m].id
          /\ \A m \in Node : m # m1 /\ m # m2 => blk3[m].section = block[m].section
          /\ m1 # m2 => blk3[m1].section = "middleSection"
          /\ blk3[m2].section = "oldSection"
      BY <2>4, <2>5, SetSectionOfNode DEF Section
    <2> HIDE DEF blk3
    <2>7. middleSectionIter' = cacheChain'[mid] /\ oldSectionIter' = cacheChain'[old]
      BY <1>3, <1>4, <1>8, <2>1, <2>2, <2>6
    <2>8. \A i \in Positions : i # newSectionSize /\ i # newSectionSize + middleSectionSize
              => blk3[cacheChain[i]].section = block[cacheChain[i]].section
      BY <1>3, <2>6 DEF Injective
    <2>9. ASSUME NEW i \in Positions, i < k, ~IsNull(block[cacheChain[i]])
          PROVE  blk3[cacheChain[i]].section = SectionAt(i + 1)
      <3>1. CASE i = newSectionSize + middleSectionSize
        BY <2>2, <2>6, <3>1 DEF SectionAt
      <3>2. CASE i = newSectionSize /\ middleSectionSize # 0
        <4>1. m1 # m2
          BY <1>3, <3>2 DEF Injective
        <4> QED
          BY <2>6, <3>2, <4>1 DEF SectionAt
      <3>3. CASE i # newSectionSize /\ i # newSectionSize + middleSectionSize
        BY <1>5, <2>2, <2>8, <2>9, <3>3 DEF SectionAt
      <3> QED
        BY <3>1, <3>2, <3>3
    <2>10. \A i \in Positions : i > k /\ ~IsNull(block[cacheChain[i]])
                                => blk3[cacheChain[i]].section = SectionAt(i)
      BY <1>5, <2>2, <2>8
    <2> QED
      BY <1>1, <1>2, <2>1, <2>6, <2>7, <2>9, <2>10, MoveToHeadInv
  <1> QED
    BY <1>9, <1>10, <1>11 DEF FindBlock
-----------------------------------------------------------------------------
(***************************************************************************)
(* insertBlock.                                                            *)
(***************************************************************************)
\* The scan of the old section settles on a block of it: there is a least reference
\* count, and a last block that has it.
LEMMA EraseCandidateFound ==
    ASSUME NEW f \in Positions, NEW ref \in [Positions -> Nat]
    PROVE  \E k \in f .. numberOfBlocks : \A j \in f .. numberOfBlocks :
               ref[k] <= ref[j] /\ (ref[k] = ref[j] => j <= k)
  <1> USE SectionSizes DEF Positions
  <1> DEFINE S == f .. numberOfBlocks
  <1>1. PICK m \in {ref[j] : j \in S} : \A y \in {ref[j] : j \in S} : m <= y
    <2>1. {ref[j] : j \in S} \in SUBSET Nat /\ ref[f] \in {ref[j] : j \in S}
      OBVIOUS
    <2> QED
      BY <2>1, LeastElement
  <1>2. m \in Nat /\ (\E j \in S : ref[j] = m) /\ \A j \in S : m <= ref[j]
    BY <1>1
  <1> DEFINE D == {d \in Nat : numberOfBlocks - d \in S /\ ref[numberOfBlocks - d] = m}
  <1>3. PICK d \in D : \A y \in D : d <= y
    <2>1. PICK j \in S : ref[j] = m
      BY <1>2
    <2>2. numberOfBlocks - j \in Nat /\ numberOfBlocks - (numberOfBlocks - j) = j
      OBVIOUS
    <2>3. numberOfBlocks - j \in D
      BY <2>1, <2>2
    <2>4. D \in SUBSET Nat /\ D # {}
      BY <2>3
    <2> HIDE DEF D
    <2> QED
      BY <2>4, LeastElement
  <1> DEFINE k == numberOfBlocks - d
  <1>4. k \in S /\ ref[k] = m /\ d \in Nat
    BY <1>3
  <1>5. ASSUME NEW j \in S, ref[j] = m
        PROVE  j <= k
    <2>1. numberOfBlocks - j \in Nat /\ numberOfBlocks - (numberOfBlocks - j) = j
      OBVIOUS
    <2>2. numberOfBlocks - j \in D
      BY <1>5, <2>1
    <2>3. d <= numberOfBlocks - j
      BY <1>3, <2>2
    <2> QED
      BY <1>4, <2>1, <2>3
  <1>6. \A j \in S : ref[k] <= ref[j] /\ (ref[k] = ref[j] => j <= k)
    BY <1>2, <1>4, <1>5
  <1> QED
    BY <1>4, <1>6

\* The position insertBlock erases is in the old section; unless back() is a null block
\* it is the last of the least referenced ones there.
LEMMA ErasePositionIsOld ==
    ASSUME CacheInv, status = "running"
    PROVE  /\ ErasePosition \in Positions
           /\ ErasePosition > newSectionSize + middleSectionSize
           /\ ~IsNull(block[cacheChain[numberOfBlocks]]) =>
                 \A j \in Positions : j > newSectionSize + middleSectionSize =>
                    LET r(i) == block[cacheChain[i]].refCount
                    IN  r(ErasePosition) <= r(j) /\ (r(ErasePosition) = r(j) => j <= ErasePosition)
  <1> USE SectionSizes DEF Positions
  <1> DEFINE f == newSectionSize + middleSectionSize + 1
             ref == [i \in Positions |-> block[cacheChain[i]].refCount]
  <1>1. /\ cacheChain \in [Positions -> Node] /\ Injective(cacheChain)
        /\ block \in [Node -> CacheBlock]
    BY DEF CacheInv, CacheTypeOK, NodesDistinct, Injective
  <1>2. f \in Positions /\ oldSectionIter = cacheChain[f]
    BY DEF CacheInv, BoundariesMarkSections
  <1>3. PositionOf(cacheChain, oldSectionIter) = f
    <2> HIDE DEF f
    <2> QED
      BY <1>1, <1>2, PositionOfNode
  <1>4. ref \in [Positions -> Nat]
    BY <1>1, ValuesAssumption DEF CacheBlock
  <1>5. \E k \in f .. numberOfBlocks : \A j \in f .. numberOfBlocks :
            ref[k] <= ref[j] /\ (ref[k] = ref[j] => j <= k)
    <2> HIDE DEF f, ref
    <2> QED
      BY <1>2, <1>4, EraseCandidateFound
  <1>6. /\ EraseCandidate \in f .. numberOfBlocks
        /\ \A j \in f .. numberOfBlocks :
               LET r(i) == block[cacheChain[i]].refCount
               IN  r(EraseCandidate) <= r(j) /\ (r(EraseCandidate) = r(j) => j <= EraseCandidate)
    <2>1. EraseCandidate =
            CHOOSE k \in f .. numberOfBlocks : \A j \in f .. numberOfBlocks :
               LET r(i) == block[cacheChain[i]].refCount
               IN  r(k) <= r(j) /\ (r(k) = r(j) => j <= k)
      BY <1>3 DEF EraseCandidate
    <2>2. \E k \in f .. numberOfBlocks : \A j \in f .. numberOfBlocks :
               LET r(i) == block[cacheChain[i]].refCount
               IN  r(k) <= r(j) /\ (r(k) = r(j) => j <= k)
      <3>1. PICK k \in f .. numberOfBlocks : \A j \in f .. numberOfBlocks :
                ref[k] <= ref[j] /\ (ref[k] = ref[j] => j <= k)
        BY <1>5
      <3>2. \A j \in f .. numberOfBlocks : ref[j] = block[cacheChain[j]].refCount
        BY <1>2
      <3> HIDE DEF f, ref
      <3> QED
        BY <3>1, <3>2
    <2> HIDE DEF f
    <2> QED
      BY <2>1, <2>2, Zenon
  <1> QED
    BY <1>2, <1>6 DEF ErasePosition

\* What the decrement of a boundary leads to after a node of the old section was
\* erased: to the node that is now at the boundary's place, or, if the boundary stood
\* on the erased node and its link was overwritten, to no node.
LEMMA BoundaryAfterErase ==
    ASSUME NEW chain \in [Positions -> Node], Injective(chain),
           NEW n \in Node, NEW k \in Positions,
           NEW c, PushedAndErased(chain, n, k, c),
           NEW b \in Positions, b # 1, b <= k,
           NEW link \in {IF k = 1 THEN n ELSE chain[k - 1], NoNode}
    PROVE  (IF chain[b] = chain[k] THEN link ELSE PrevNode(c, chain[b])) \in {c[b], NoNode}
  <1> USE SectionSizes DEF Positions
  <1>1. CASE b = k
    <2>1. c[b] = chain[b - 1]
      BY <1>1 DEF PushedAndErased
    <2> QED
      BY <1>1, <2>1
  <1>2. CASE b # k
    <2>1. chain[b] # chain[k]
      BY <1>2 DEF Injective
    <2>2. b + 1 \in Positions /\ b + 1 # 1 /\ c[b + 1] = chain[b] /\ (b + 1) - 1 = b
      BY <1>2 DEF PushedAndErased
    <2>3. c \in [Positions -> Node] /\ Injective(c)
      BY DEF PushedAndErased
    <2>4. PrevNode(c, c[b + 1]) = c[(b + 1) - 1]
      <3> HIDE DEF Positions
      <3> QED
        BY <2>2, <2>3, PrevOfNode
    <2> QED
      BY <2>1, <2>2, <2>4
  <1> QED
    BY <1>1, <1>2

\* Inserting a block that is not cached keeps the invariant.
LEMMA InsertNewInv ==
    ASSUME CacheInv, status = "running",
           NEW id \in BlockID, NEW buff \in Buff, NEW path \in Path,
           ~Cached(id), InsertNew(id, buff, path)
    PROVE  CacheInv'
  <1> DEFINE k == ErasePosition
             gone == cacheChain[k]
             m == newSectionSize + 1
             o == newSectionSize + middleSectionSize + 1
  <1>1. /\ cacheChain \in [Positions -> Node] /\ Injective(cacheChain)
        /\ block \in [Node -> CacheBlock]
        /\ blocksMap \in [BlockID -> Node \cup {NoNode}]
    BY DEF CacheInv, CacheTypeOK, NodesDistinct, Injective
  <1>2. /\ k \in Positions /\ m \in Positions /\ o \in Positions
        /\ m # 1 /\ m <= o /\ o # 1 /\ o <= k
    BY ErasePositionIsOld, SectionSizes DEF Positions
  <1>3. middleSectionIter = cacheChain[m] /\ oldSectionIter = cacheChain[o]
    BY DEF CacheInv, BoundariesMarkSections
  <1>4. PICK head \in FreeNodes : \E freedLink \in {IF k = 1 THEN head ELSE cacheChain[k - 1], NoNode} :
          LET chain == PushFrontErase(cacheChain, head, k)
              prev(it) == IF it = gone THEN freedLink ELSE PrevNode(chain, it)
              mid      == prev(middleSectionIter)
              old      == prev(oldSectionIter)
              filled   == [block EXCEPT ![head] = NewCacheBlock(id, buff, path),
                                        ![gone] = NullBlock]
          IN  /\ cacheChain' = chain
              /\ blocksMap' = MapAfterInsert(id, head, gone)
              /\ middleSectionIter' = mid
              /\ oldSectionIter' = old
              /\ block' = SetSection(SetSection(filled, mid, "middleSection"), old, "oldSection")
              /\ status' = IF NoNode \in {mid, old} THEN "corrupt" ELSE "running"
    BY DEF InsertNew
  <1> HIDE DEF k
  <1>5. PICK freedLink \in {IF k = 1 THEN head ELSE cacheChain[k - 1], NoNode} :
          LET prev(it) == IF it = gone THEN freedLink ELSE PrevNode(cacheChain', it)
              filled   == [block EXCEPT ![head] = NewCacheBlock(id, buff, path),
                                        ![gone] = NullBlock]
          IN  /\ cacheChain' = PushFrontErase(cacheChain, head, k)
              /\ blocksMap' = MapAfterInsert(id, head, gone)
              /\ middleSectionIter' = prev(middleSectionIter)
              /\ oldSectionIter' = prev(oldSectionIter)
              /\ block' = SetSection(SetSection(filled, middleSectionIter', "middleSection"),
                                     oldSectionIter', "oldSection")
              /\ status' = IF NoNode \in {middleSectionIter', oldSectionIter'}
                           THEN "corrupt" ELSE "running"
    BY <1>4
  <1>6. head \in Node /\ \A i \in Positions : cacheChain[i] # head
    BY DEF FreeNodes
  <1>7. PushedAndErased(cacheChain, head, k, cacheChain')
    <2>1. PushedAndErased(cacheChain, head, k, PushFrontErase(cacheChain, head, k))
      BY <1>1, <1>2, <1>6, PushFrontEraseList
    <2> QED
      BY <1>5, <2>1
  <1>8. 1 \in Positions /\ gone \in Node /\ gone # head
    BY <1>1, <1>2, <1>6, SectionSizes DEF Positions
  <1>9. /\ middleSectionIter' \in {cacheChain'[m], NoNode}
        /\ oldSectionIter' \in {cacheChain'[o], NoNode}
    <2>1. m <= k
      BY <1>2, SectionSizes DEF Positions
    <2> HIDE DEF m, o
    <2>2. (IF cacheChain[m] = gone THEN freedLink ELSE PrevNode(cacheChain', cacheChain[m]))
            \in {cacheChain'[m], NoNode}
      BY <1>1, <1>2, <1>6, <1>7, <2>1, BoundaryAfterErase
    <2>3. (IF cacheChain[o] = gone THEN freedLink ELSE PrevNode(cacheChain', cacheChain[o]))
            \in {cacheChain'[o], NoNode}
      BY <1>1, <1>2, <1>6, <1>7, BoundaryAfterErase
    <2> QED
      BY <1>3, <1>5, <2>2, <2>3
  <1> HIDE DEF m, o
  <1>10. cacheChain' \in [Positions -> Node] /\ Injective(cacheChain') /\ cacheChain'[1] = head
    BY <1>7 DEF PushedAndErased
  <1>11. /\ middleSectionIter' \in Node \cup {NoNode} /\ oldSectionIter' \in Node \cup {NoNode}
         /\ status' \in {"running", "corrupt"}
         /\ status' # "corrupt" => /\ middleSectionIter' = cacheChain'[m]
                                   /\ oldSectionIter' = cacheChain'[o]
    BY <1>2, <1>5, <1>9, <1>10
  <1> DEFINE filled == [block EXCEPT ![head] = NewCacheBlock(id, buff, path),
                                     ![gone] = NullBlock]
             tagged == SetSection(filled, middleSectionIter', "middleSection")
  <1>12. /\ filled \in [Node -> CacheBlock]
         /\ filled[head] = NewCacheBlock(id, buff, path)
         /\ \A i \in Positions : i # 1 => filled[cacheChain'[i]] = block[cacheChain'[i]]
    <2>1. \A i \in Positions : i # 1 => /\ cacheChain'[i] \in Node
                                        /\ cacheChain'[i] # head /\ cacheChain'[i] # gone
      BY <1>7, <1>8, <1>10 DEF PushedAndErased, Injective
    <2>2. NewCacheBlock(id, buff, path) \in CacheBlock /\ NullBlock \in CacheBlock
      BY NewBlocksAreBlocks
    <2> QED
      BY <1>1, <1>6, <1>8, <2>1, <2>2
  <1>13. block' = SetSection(tagged, oldSectionIter', "oldSection")
    BY <1>5
  <1> HIDE DEF filled
  <1>14. /\ tagged \in [Node -> CacheBlock]
         /\ \A x \in Node : tagged[x].id = filled[x].id
         /\ \A x \in Node : x # middleSectionIter' => tagged[x].section = filled[x].section
         /\ middleSectionIter' \in Node => tagged[middleSectionIter'].section = "middleSection"
    BY <1>11, <1>12, SetSectionOfNode DEF Section
  <1> HIDE DEF tagged
  <1>15. /\ block' \in [Node -> CacheBlock]
         /\ \A x \in Node : block'[x].id = filled[x].id
         /\ \A x \in Node : x # middleSectionIter' /\ x # oldSectionIter'
                                 => block'[x].section = filled[x].section
         /\ middleSectionIter' \in Node /\ middleSectionIter' # oldSectionIter'
                                 => block'[middleSectionIter'].section = "middleSection"
         /\ oldSectionIter' \in Node => block'[oldSectionIter'].section = "oldSection"
    BY <1>11, <1>13, <1>14, SetSectionOfNode DEF Section
  <1>16. /\ block'[cacheChain'[1]].id = id
         /\ \A i \in Positions : i # 1 => block'[cacheChain'[i]].id = block[cacheChain'[i]].id
    BY <1>6, <1>10, <1>12, <1>15 DEF NewCacheBlock
  <1>17. CacheTypeOK'
    <2>1. blocksMap' \in [BlockID -> Node \cup {NoNode}]
      BY <1>1, <1>5, <1>6 DEF MapAfterInsert
    <2> QED
      BY <1>10, <1>11, <1>15, <2>1 DEF CacheTypeOK
  <1>18. NodesDistinct'
    BY <1>10 DEF NodesDistinct, Injective
  <1>19. MapMatchesChain'
    <2>1. MapMatches(cacheChain, block, blocksMap)
      BY DEF CacheInv, MapMatchesChain, MapMatches, Cached
    <2>2. \A i \in Positions : block[cacheChain[i]].id # id
      <3> SUFFICES ASSUME NEW i \in Positions, block[cacheChain[i]].id = id
                   PROVE  FALSE
        OBVIOUS
      <3>1. blocksMap[id] = cacheChain[i]
        BY <2>1, ValuesAssumption DEF MapMatches, IsNull
      <3> QED
        BY <1>1, <3>1, ValuesAssumption DEF Cached
    <2>3. /\ blocksMap'[id] = cacheChain'[1]
          /\ \A x \in BlockID : x # id =>
                 blocksMap'[x] = IF x = block[gone].id THEN NoNode ELSE blocksMap[x]
      BY <1>2, <1>5, <1>10, <2>2 DEF MapAfterInsert
    <2>4. MapFollows(id, k, cacheChain, block, blocksMap, cacheChain', block', blocksMap')
      BY <1>16, <2>2, <2>3 DEF MapFollows
    <2>5. MapMatches(cacheChain', block', blocksMap')
      BY <1>1, <1>2, <1>6, <1>7, <2>1, <2>4, MapStaysMatched
    <2> QED
      BY <2>5 DEF MapMatchesChain, MapMatches, Cached
  <1>20. NullBlocksLast'
    <2>1. NullsLast(cacheChain, block)
      BY DEF CacheInv, NullBlocksLast, NullsLast
    <2>2. ~IsNull(block'[cacheChain'[1]])
      BY <1>16, ValuesAssumption DEF IsNull
    <2>3. \A i \in Positions : i # 1 => block'[cacheChain'[i]].id = block[cacheChain'[i]].id
      BY <1>16
    <2>4. cacheChain \in [Positions -> Node] /\ head \in Node /\ k \in Positions
      BY <1>1, <1>2, <1>6
    <2>5. NullsLast(cacheChain', block')
      BY <1>7, <2>1, <2>2, <2>3, <2>4, NullsStayLast
    <2> QED
      BY <2>5 DEF NullBlocksLast, NullsLast
  <1>21. BoundariesMarkSections'
    BY <1>11 DEF BoundariesMarkSections, m, o
  <1>22. SectionTagsMatchPositions'
    <2> SUFFICES ASSUME status' # "corrupt",
                        NEW i \in Positions, ~IsNull(block'[cacheChain'[i]])
                 PROVE  block'[cacheChain'[i]].section = SectionAt(i)
      BY DEF SectionTagsMatchPositions
    <2>1. /\ middleSectionIter' = cacheChain'[m] /\ middleSectionIter' \in Node
          /\ oldSectionIter' = cacheChain'[o] /\ oldSectionIter' \in Node
      BY <1>2, <1>10, <1>11
    <2>2. CASE i = o
      <3>1. SectionAt(o) = "oldSection"
        BY SectionSizes DEF SectionAt, o
      <3> QED
        BY <1>15, <2>1, <2>2, <3>1
    <2>3. CASE i = m /\ i # o
      <3>1. SectionAt(m) = "middleSection"
        BY <1>2, <2>3, SectionSizes DEF SectionAt, m, o
      <3>2. cacheChain'[m] # cacheChain'[o]
        BY <1>2, <1>10, <2>3 DEF Injective
      <3> QED
        BY <1>15, <2>1, <2>3, <3>1, <3>2
    <2>4. CASE i # m /\ i # o
      <3>1. block'[cacheChain'[i]].section = filled[cacheChain'[i]].section
        <4>1. cacheChain'[i] # cacheChain'[m] /\ cacheChain'[i] # cacheChain'[o]
          BY <1>2, <1>10, <2>4 DEF Injective
        <4> QED
          BY <1>10, <1>15, <2>1, <4>1
      <3>2. CASE i = 1
        <4>1. filled[cacheChain'[1]].section = "newSection"
          BY <1>10, <1>12 DEF NewCacheBlock
        <4>2. SectionAt(1) = "newSection"
          BY SectionSizes DEF SectionAt
        <4> QED
          BY <3>1, <3>2, <4>1, <4>2
      <3>3. CASE i # 1
        <4>1. PICK a \in Positions : /\ a # k /\ cacheChain'[i] = cacheChain[a]
                                     /\ (a = i - 1 /\ i <= k) \/ (a = i /\ i > k)
          BY <1>1, <1>2, <1>6, <1>7, <3>3, ShiftedNode
        <4>2. filled[cacheChain'[i]] = block[cacheChain[a]] /\ ~IsNull(block[cacheChain[a]])
          BY <1>12, <1>16, <3>3, <4>1 DEF IsNull
        <4>3. block[cacheChain[a]].section = SectionAt(a)
          BY <4>2 DEF CacheInv, SectionTagsMatchPositions
        <4>4. SectionAt(a) = SectionAt(i)
          BY <1>2, <2>4, <4>1, SectionSizes DEF SectionAt, Positions, m, o
        <4> QED
          BY <3>1, <4>2, <4>3, <4>4
      <3> QED
        BY <3>2, <3>3
    <2> QED
      BY <2>2, <2>3, <2>4
  <1> QED
    BY <1>17, <1>18, <1>19, <1>20, <1>21, <1>22 DEF CacheInv
-----------------------------------------------------------------------------
(***************************************************************************)
(* updatePaths.                                                            *)
(***************************************************************************)
\* Rewriting paths changes no ID, count, tag or buffer.
LEMMA UpdatePathsBlocks ==
    ASSUME CacheInv, NEW p, NEW q, UpdatePaths(p, q)
    PROVE  /\ block' \in [Node -> CacheBlock]
           /\ \A n \in Node : /\ block'[n].id = block[n].id
                              /\ block'[n].section = block[n].section
                              /\ block'[n].refCount = block[n].refCount
                              /\ block'[n].buff = block[n].buff
           /\ UNCHANGED <<cacheChain, blocksMap, middleSectionIter, oldSectionIter, status>>
  <1>1. block \in [Node -> CacheBlock]
    BY DEF CacheInv, CacheTypeOK
  <1> DEFINE r(n) == ReplacePrefix(block[n].path, p, q)
  <1>2. /\ \A n \in Node : ~IsNull(block[n]) => [block[n] EXCEPT !.path = r(n)].path \in Path
        /\ block' = [n \in Node |-> IF IsNull(block[n]) THEN block[n]
                                     ELSE [block[n] EXCEPT !.path = r(n)]]
        /\ UNCHANGED <<cacheChain, blocksMap, middleSectionIter, oldSectionIter, status>>
    BY DEF UpdatePaths
  <1> HIDE DEF r
  <1>3. \A n \in Node : ~IsNull(block[n]) => r(n) \in Path
    BY <1>1, <1>2 DEF CacheBlock
  <1>4. ASSUME NEW n \in Node
        PROVE  /\ block'[n] \in CacheBlock
               /\ block'[n].id = block[n].id /\ block'[n].section = block[n].section
               /\ block'[n].refCount = block[n].refCount /\ block'[n].buff = block[n].buff
    <2>1. CASE IsNull(block[n])
      BY <1>1, <1>2, <2>1
    <2>2. CASE ~IsNull(block[n])
      BY <1>1, <1>2, <1>3, <2>2 DEF CacheBlock
    <2> QED
      BY <2>1, <2>2
  <1> QED
    BY <1>2, <1>4

\* Rewriting paths keeps the invariant.
LEMMA UpdatePathsInv ==
    ASSUME CacheInv, NEW p, NEW q, UpdatePaths(p, q)
    PROVE  CacheInv'
  <1>1. /\ block' \in [Node -> CacheBlock]
        /\ \A n \in Node : block'[n].id = block[n].id /\ block'[n].section = block[n].section
        /\ UNCHANGED <<cacheChain, blocksMap, middleSectionIter, oldSectionIter, status>>
    BY UpdatePathsBlocks
  <1>2. cacheChain \in [Positions -> Node] /\ blocksMap \in [BlockID -> Node \cup {NoNode}]
    BY DEF CacheInv, CacheTypeOK
  <1>3. CacheTypeOK' /\ NodesDistinct' /\ BoundariesMarkSections'
    BY <1>1 DEF CacheInv, CacheTypeOK, NodesDistinct, BoundariesMarkSections
  <1>4. \A i \in Positions : /\ block'[cacheChain'[i]].id = block[cacheChain[i]].id
                             /\ block'[cacheChain'[i]].section = block[cacheChain[i]].section
    BY <1>1, <1>2
  <1>5. NullBlocksLast'
    BY <1>4 DEF CacheInv, NullBlocksLast, IsNull
  <1>6. SectionTagsMatchPositions'
    BY <1>1, <1>4 DEF CacheInv, SectionTagsMatchPositions, IsNull
  <1>7. MapMatchesChain'
    <2>1. ASSUME NEW i \in Positions, ~IsNull(block'[cacheChain'[i]])
          PROVE  blocksMap'[block'[cacheChain'[i]].id] = cacheChain'[i]
      BY <1>1, <1>4, <2>1 DEF CacheInv, MapMatchesChain, IsNull
    <2>2. ASSUME NEW x \in BlockID, blocksMap'[x] # NoNode
          PROVE  /\ \E i \in Positions : cacheChain'[i] = blocksMap'[x]
                 /\ block'[blocksMap'[x]].id = x
      <3>1. blocksMap'[x] = blocksMap[x] /\ Cached(x) /\ blocksMap[x] \in Node
        BY <1>1, <1>2, <2>2 DEF Cached
      <3> QED
        BY <1>1, <3>1 DEF CacheInv, MapMatchesChain
    <2> QED
      BY <2>1, <2>2 DEF MapMatchesChain, Cached
  <1> QED
    BY <1>3, <1>5, <1>6, <1>7 DEF CacheInv
-----------------------------------------------------------------------------
(***************************************************************************)
(* The invariant.                                                          *)
(***************************************************************************)
\* The constructor establishes the invariant.
LEMMA InitInv == CacheInit => CacheInv
  <1> SUFFICES ASSUME CacheInit PROVE CacheInv
    OBVIOUS
  <1>1. /\ newSectionSize + 1 \in Positions
        /\ newSectionSize + middleSectionSize + 1 \in Positions
    BY SectionSizes DEF Positions
  <1>2. CacheTypeOK
    BY <1>1, NewBlocksAreBlocks DEF CacheInit, CacheTypeOK
  <1>3. NodesDistinct
    BY DEF CacheInit, NodesDistinct
  <1>4. \A i \in Positions : IsNull(block[cacheChain[i]])
    BY NewBlocksAreBlocks DEF CacheInit
  <1>5. MapMatchesChain
    BY <1>4 DEF CacheInit, MapMatchesChain, Cached
  <1>6. NullBlocksLast
    BY <1>4 DEF NullBlocksLast
  <1>7. BoundariesMarkSections
    BY DEF CacheInit, BoundariesMarkSections
  <1>8. SectionTagsMatchPositions
    BY <1>4 DEF SectionTagsMatchPositions
  <1> QED
    BY <1>2, <1>3, <1>5, <1>6, <1>7, <1>8 DEF CacheInv

\* Every operation keeps the invariant.
LEMMA NextInv == CacheInv /\ [CacheNext]_cacheVars => CacheInv'
  <1> SUFFICES ASSUME CacheInv, [CacheNext]_cacheVars PROVE CacheInv'
    OBVIOUS
  <1>1. ASSUME NEW id \in BlockID, RetrieveHit(id) PROVE CacheInv'
    BY <1>1, FindBlockInv DEF RetrieveHit
  <1>2. ASSUME UNCHANGED cacheVars PROVE CacheInv'
    BY <1>2 DEF cacheVars, CacheInv, CacheTypeOK, NodesDistinct, MapMatchesChain,
                NullBlocksLast, BoundariesMarkSections, SectionTagsMatchPositions, Cached
  <1>3. ASSUME NEW id \in BlockID, RetrieveMiss(id) PROVE CacheInv'
    BY <1>2, <1>3 DEF RetrieveMiss
  <1>4. ASSUME NEW id \in BlockID, NEW buff \in Buff, NEW path \in Path,
               InsertBlock(id, buff, path)
        PROVE  CacheInv'
    <2>1. CASE Cached(id) /\ InsertCached(id)
      BY <1>4, <2>1, FindBlockInv DEF InsertBlock, InsertCached
    <2>2. CASE ~Cached(id) /\ InsertNew(id, buff, path)
      BY <1>4, <2>2, InsertNewInv DEF InsertBlock
    <2> QED
      BY <1>4, <2>1, <2>2 DEF InsertBlock
  <1>5. ASSUME NEW p, NEW q, UpdatePaths(p, q) PROVE CacheInv'
    BY <1>5, UpdatePathsInv
  <1> QED
    BY <1>1, <1>2, <1>3, <1>4, <1>5 DEF CacheNext

\* The inductive invariant holds of every behaviour of the cache.
THEOREM CacheInvHolds == CacheSpec => []CacheInv
  BY InitInv, NextInv, PTL DEF CacheSpec

\* The variables keep their types.
THEOREM CacheTypeCorrect == CacheSpec => []CacheTypeOK
  <1>1. CacheInv => CacheTypeOK
    BY DEF CacheInv
  <1> QED
    BY <1>1, CacheInvHolds, PTL

\* For every cache size and every split main accepts, the boundary iterators stand on
\* the first blocks of their sections until a dangling link is followed.
THEOREM BoundariesCorrect == CacheSpec => []BoundariesMarkSections
  <1>1. CacheInv => BoundariesMarkSections
    BY DEF CacheInv
  <1> QED
    BY <1>1, CacheInvHolds, PTL

\* Until then the section tag of every cached block is the section it is in.
THEOREM SectionTagsCorrect == CacheSpec => []SectionTagsMatchPositions
  <1>1. CacheInv => SectionTagsMatchPositions
    BY DEF CacheInv
  <1> QED
    BY <1>1, CacheInvHolds, PTL

\* The map and the list always agree.
THEOREM MapCorrect == CacheSpec => []MapMatchesChain
  <1>1. CacheInv => MapMatchesChain
    BY DEF CacheInv
  <1> QED
    BY <1>1, CacheInvHolds, PTL

\* No block is evicted while there is an unused slot.
THEOREM NullBlocksAreLast == CacheSpec => []NullBlocksLast
  <1>1. CacheInv => NullBlocksLast
    BY DEF CacheInv
  <1> QED
    BY <1>1, CacheInvHolds, PTL

-----------------------------------------------------------------------------
(***************************************************************************)
(* The effect of a hit and of an insertion on the list.                    *)
(***************************************************************************)
\* The blocks b and c are the same but for their section tag.
SameButTag(b, c) ==
    b.id = c.id /\ b.refCount = c.refCount /\ b.buff = c.buff /\ b.path = c.path

\* A hit of a block at position k: it is counted outside the new section only.
Counted(k) == IF k <= newSectionSize THEN 0 ELSE 1

\* What blk, the blocks after count and tags have been set, may differ in from block.
Touched(k, blk) ==
    /\ blk \in [Node -> CacheBlock]
    /\ \A n \in Node : /\ blk[n].id = block[n].id /\ blk[n].buff = block[n].buff
                       /\ blk[n].path = block[n].path
                       /\ n # cacheChain[k] => blk[n].refCount = block[n].refCount
    /\ blk[cacheChain[k]].refCount = block[cacheChain[k]].refCount + Counted(k)

\* The effect of a hit on list, blocks and map.
HitOf(id, k) ==
    /\ cacheChain[k] = blocksMap[id]
    /\ \E head \in Node :
          /\ PushedAndErased(cacheChain, head, k, cacheChain')
          /\ blocksMap' = [blocksMap EXCEPT ![id] = head]
    /\ block'[cacheChain'[1]].id = id
    /\ block'[cacheChain'[1]].refCount = block[cacheChain[k]].refCount + Counted(k)
    /\ block'[cacheChain'[1]].buff = block[cacheChain[k]].buff
    /\ block'[cacheChain'[1]].path = block[cacheChain[k]].path
    /\ \A i \in Positions : i # 1 => SameButTag(block'[cacheChain'[i]], block[cacheChain'[i]])

\* Moving a block to the head does that, whichever tags were set before.
LEMMA MoveToHeadEffect ==
    ASSUME CacheInv, NEW id \in BlockID, Cached(id),
           NEW k \in Positions, cacheChain[k] = blocksMap[id],
           NEW blk, Touched(k, blk), MoveToHead(id, blk)
    PROVE  HitOf(id, k)
  <1>1. /\ cacheChain \in [Positions -> Node] /\ Injective(cacheChain)
        /\ block \in [Node -> CacheBlock]
        /\ blk \in [Node -> CacheBlock]
        /\ \A n \in Node : blk[n].id = block[n].id
    BY DEF CacheInv, CacheTypeOK, NodesDistinct, Injective, Touched
  <1>2. /\ cacheChain' \in [Positions -> Node] /\ Injective(cacheChain')
        /\ \A i \in Positions : i # 1 /\ i <= k => cacheChain'[i] = cacheChain[i - 1]
        /\ \A i \in Positions : i > k => cacheChain'[i] = cacheChain[i]
        /\ block'[cacheChain'[1]] = [blk[cacheChain[k]] EXCEPT !.section = "newSection"]
        /\ \A i \in Positions : i # 1 => block'[cacheChain'[i]] = blk[cacheChain'[i]]
    BY <1>1, MoveToHeadStep
  <1>3. PICK head \in FreeNodes :
           /\ cacheChain' = PushFrontErase(cacheChain, head, PositionOf(cacheChain, blocksMap[id]))
           /\ blocksMap' = [blocksMap EXCEPT ![id] = head]
    BY DEF MoveToHead
  <1>4. head \in Node /\ \A i \in Positions : cacheChain[i] # head
    BY DEF FreeNodes
  <1>5. PushedAndErased(cacheChain, head, k, cacheChain')
    <2>1. PositionOf(cacheChain, blocksMap[id]) = k
      BY <1>1, PositionOfNode
    <2> QED
      BY <1>1, <1>3, <1>4, <2>1, PushFrontEraseList
  <1>6. /\ block'[cacheChain'[1]].id = blk[cacheChain[k]].id
        /\ block'[cacheChain'[1]].refCount = blk[cacheChain[k]].refCount
        /\ block'[cacheChain'[1]].buff = blk[cacheChain[k]].buff
        /\ block'[cacheChain'[1]].path = blk[cacheChain[k]].path
    <2>1. blk[cacheChain[k]] \in CacheBlock
      BY <1>1
    <2> QED
      BY <1>2, <2>1 DEF CacheBlock
  <1>7. block[cacheChain[k]].id = id
    BY DEF CacheInv, MapMatchesChain
  <1>8. ASSUME NEW i \in Positions, i # 1
        PROVE  SameButTag(block'[cacheChain'[i]], block[cacheChain'[i]])
    <2>1. cacheChain'[i] \in Node /\ cacheChain'[i] # cacheChain[k]
      BY <1>2, <1>5 DEF PushedAndErased
    <2> QED
      BY <1>2, <1>8, <2>1 DEF Touched, SameButTag
  <1>9. cacheChain[k] \in Node
    BY <1>1
  <1> QED
    BY <1>3, <1>4, <1>5, <1>6, <1>7, <1>8, <1>9 DEF HitOf, Touched

\* findBlock of a cached block does that: the stored tag, which decides whether the hit
\* is counted, is the section of the block's position.
LEMMA FindBlockEffect ==
    ASSUME CacheInv, status = "running", NEW id \in BlockID, FindBlock(id)
    PROVE  \E k \in Positions : HitOf(id, k)
  <1> USE SectionSizes DEF Positions
  <1>1. Cached(id)
    BY DEF FindBlock, FindInNew, FindInMiddle, FindInOld
  <1>2. PICK k \in Positions : cacheChain[k] = blocksMap[id] /\ ~IsNull(block[cacheChain[k]])
    BY <1>1, CachedPosition
  <1>3. cacheChain \in [Positions -> Node] /\ block \in [Node -> CacheBlock]
    BY DEF CacheInv, CacheTypeOK
  <1>4. cacheChain[k] \in Node /\ block[cacheChain[k]].section = SectionAt(k)
        /\ block[cacheChain[k]].refCount \in Nat
    BY <1>2, <1>3, ValuesAssumption DEF CacheInv, SectionTagsMatchPositions, CacheBlock
  <1>5. ASSUME NEW blk, Touched(k, blk), NEW n, NEW sec \in Section
        PROVE  Touched(k, SetSection(blk, n, sec))
    <2>1. CASE n \in Node
      BY <1>5, <2>1, <1>4, SetSectionOfNode DEF Touched
    <2>2. CASE n \notin Node
      <3>1. SetSection(blk, n, sec) = blk
        BY <1>5, <2>2 DEF SetSection, Touched
      <3> QED
        BY <1>5, <3>1
    <2> QED
      BY <2>1, <2>2
  <1>6. ASSUME k > newSectionSize, CanCount(id)
        PROVE  Touched(k, IncrementRefCount(block, blocksMap[id]))
    BY <1>2, <1>3, <1>4, <1>6, IncrementRefCountOfNode DEF Touched, Counted, CanCount
  <1>7. CASE FindInNew(id)
    <2>1. k <= newSectionSize
      BY <1>2, <1>4, <1>7 DEF FindInNew, SectionAt
    <2>2. Touched(k, block)
      BY <1>3, <1>4, <2>1 DEF Touched, Counted
    <2> QED
      BY <1>1, <1>2, <1>7, <2>2, MoveToHeadEffect DEF FindInNew
  <1>8. CASE FindInMiddle(id)
    <2>1. k > newSectionSize
      BY <1>2, <1>4, <1>8 DEF FindInMiddle, SectionAt
    <2>2. Touched(k, SetSection(IncrementRefCount(block, blocksMap[id]),
                                middleSectionIter', "middleSection"))
      BY <1>5, <1>6, <1>8, <2>1 DEF FindInMiddle, Section
    <2> QED
      BY <1>1, <1>2, <1>8, <2>2, MoveToHeadEffect DEF FindInMiddle
  <1>9. CASE FindInOld(id)
    <2>1. k > newSectionSize
      BY <1>2, <1>4, <1>9 DEF FindInOld, SectionAt
    <2>2. Touched(k, SetSection(SetSection(IncrementRefCount(block, blocksMap[id]),
                                           middleSectionIter', "middleSection"),
                                oldSectionIter', "oldSection"))
      BY <1>5, <1>6, <1>9, <2>1 DEF FindInOld, Section
    <2> QED
      BY <1>1, <1>2, <1>9, <2>2, MoveToHeadEffect DEF FindInOld
  <1> QED
    BY <1>7, <1>8, <1>9 DEF FindBlock

\* The effect of an insertion at the cost of the block at position k.
InsertOf(id, buff, path, k) ==
    /\ \E head \in Node :
          /\ PushedAndErased(cacheChain, head, k, cacheChain')
          /\ blocksMap' = MapAfterInsert(id, head, cacheChain[k])
    /\ block'[cacheChain'[1]].id = id /\ block'[cacheChain'[1]].refCount = 1
    /\ block'[cacheChain'[1]].buff = buff /\ block'[cacheChain'[1]].path = path
    /\ \A i \in Positions : i # 1 => SameButTag(block'[cacheChain'[i]], block[cacheChain'[i]])

\* insertBlock of a block that is not cached does that, also when a boundary was lost.
LEMMA InsertNewEffect ==
    ASSUME CacheInv, status = "running",
           NEW id \in BlockID, NEW buff \in Buff, NEW path \in Path,
           InsertNew(id, buff, path)
    PROVE  InsertOf(id, buff, path, ErasePosition)
  <1> DEFINE k == ErasePosition
             gone == cacheChain[k]
  <1>1. /\ cacheChain \in [Positions -> Node] /\ Injective(cacheChain)
        /\ block \in [Node -> CacheBlock]
    BY DEF CacheInv, CacheTypeOK, NodesDistinct, Injective
  <1>2. k \in Positions /\ 1 \in Positions
    BY ErasePositionIsOld, SectionSizes DEF Positions
  <1>3. PICK head, mid, old :
           /\ head \in FreeNodes
           /\ cacheChain' = PushFrontErase(cacheChain, head, k)
           /\ blocksMap' = MapAfterInsert(id, head, gone)
           /\ block' = SetSection(SetSection([block EXCEPT ![head] = NewCacheBlock(id, buff, path),
                                                           ![gone] = NullBlock],
                                             mid, "middleSection"), old, "oldSection")
    BY DEF InsertNew
  <1> HIDE DEF k
  <1>4. head \in Node /\ \A i \in Positions : cacheChain[i] # head
    BY <1>3 DEF FreeNodes
  <1>5. PushedAndErased(cacheChain, head, k, cacheChain')
    BY <1>1, <1>2, <1>3, <1>4, PushFrontEraseList
  <1> DEFINE filled == [block EXCEPT ![head] = NewCacheBlock(id, buff, path), ![gone] = NullBlock]
  <1>6. /\ filled \in [Node -> CacheBlock]
        /\ filled[head] = NewCacheBlock(id, buff, path)
        /\ \A n \in Node : n # head /\ n # gone => filled[n] = block[n]
    BY <1>1, <1>2, <1>4, NewBlocksAreBlocks
  <1>7. block' = SetSection(SetSection(filled, mid, "middleSection"), old, "oldSection")
    BY <1>3
  <1> HIDE DEF filled
  <1>8. ASSUME NEW blk \in [Node -> CacheBlock], NEW n, NEW sec \in Section
        PROVE  /\ SetSection(blk, n, sec) \in [Node -> CacheBlock]
               /\ \A x \in Node : SameButTag(SetSection(blk, n, sec)[x], blk[x])
    <2>1. CASE n \in Node
      BY <2>1, SetSectionOfNode DEF SameButTag
    <2>2. CASE n \notin Node
      <3>1. SetSection(blk, n, sec) = blk
        BY <2>2 DEF SetSection
      <3> QED
        BY <3>1 DEF SameButTag
    <2> QED
      BY <2>1, <2>2
  <1>9. \A x \in Node : SameButTag(block'[x], filled[x])
    <2>1. "middleSection" \in Section /\ "oldSection" \in Section
      BY DEF Section
    <2> DEFINE tagged == SetSection(filled, mid, "middleSection")
    <2>2. tagged \in [Node -> CacheBlock] /\ \A x \in Node : SameButTag(tagged[x], filled[x])
      BY <1>6, <1>8, <2>1
    <2>3. block' = SetSection(tagged, old, "oldSection")
      BY <1>7
    <2> HIDE DEF tagged
    <2>4. \A x \in Node : SameButTag(block'[x], tagged[x])
      BY <1>8, <2>1, <2>2, <2>3
    <2> QED
      BY <2>2, <2>4 DEF SameButTag
  <1>10. cacheChain' \in [Positions -> Node] /\ cacheChain'[1] = head
         /\ \A i \in Positions : i # 1 => cacheChain'[i] # head /\ cacheChain'[i] # gone
    BY <1>2, <1>5 DEF PushedAndErased, Injective
  <1>11. SameButTag(block'[cacheChain'[1]], NewCacheBlock(id, buff, path))
    BY <1>4, <1>6, <1>9, <1>10
  <1>12. \A i \in Positions : i # 1 => SameButTag(block'[cacheChain'[i]], block[cacheChain'[i]])
    BY <1>6, <1>9, <1>10
  <1>13. InsertOf(id, buff, path, k)
    BY <1>3, <1>4, <1>5, <1>11, <1>12 DEF InsertOf, SameButTag, NewCacheBlock
  <1> QED
    BY <1>13 DEF k

-----------------------------------------------------------------------------
(***************************************************************************)
(* The same by ID, as the callers of the cache see it.                     *)
(***************************************************************************)
\* The cached block of ID x.
BlockOf(x) == block[blocksMap[x]]

\* Before a step, the block of ID x is at a position of the list, and no other block is.
LEMMA PositionOfID ==
    ASSUME CacheInv, NEW x \in BlockID
    PROVE  /\ Cached(x) => \E i \in Positions : cacheChain[i] = blocksMap[x]
           /\ \A i \in Positions : block[cacheChain[i]].id = x
                 => Cached(x) /\ cacheChain[i] = blocksMap[x]
           /\ Cached(x) => BlockOf(x).id = x
  <1>1. cacheChain \in [Positions -> Node]
    BY DEF CacheInv, CacheTypeOK
  <1> QED
    BY <1>1, ValuesAssumption DEF CacheInv, MapMatchesChain, IsNull, Cached, BlockOf

\* A block that is not the one at position k is at a place after the first in the new list.
LEMMA KeptBlock ==
    ASSUME CacheInv, NEW k \in Positions, NEW head \in Node,
           PushedAndErased(cacheChain, head, k, cacheChain'),
           \A i \in Positions : i # 1 => SameButTag(block'[cacheChain'[i]], block[cacheChain'[i]]),
           NEW x \in BlockID, Cached(x), x # block[cacheChain[k]].id
    PROVE  SameButTag(block'[blocksMap[x]], BlockOf(x))
  <1>1. PICK j \in Positions : cacheChain[j] = blocksMap[x]
    BY PositionOfID
  <1>2. j # k
    BY <1>1, PositionOfID DEF BlockOf
  <1>3. cacheChain \in [Positions -> Node]
    BY DEF CacheInv, CacheTypeOK
  <1>4. PICK i \in Positions : i # 1 /\ cacheChain'[i] = cacheChain[j]
    BY <1>2, <1>3, KeptNode
  <1> QED
    BY <1>1, <1>4 DEF BlockOf

\* A hit leaves the same blocks cached; only the count of the block that was hit changes.
LEMMA HitByID ==
    ASSUME CacheInv, NEW id \in BlockID, Cached(id), NEW k \in Positions, HitOf(id, k)
    PROVE  /\ \A x \in BlockID : Cached(x)' <=> Cached(x)
           /\ \A x \in BlockID : x # id /\ Cached(x) => SameButTag(BlockOf(x)', BlockOf(x))
           /\ BlockOf(id)'.refCount = BlockOf(id).refCount + Counted(k)
           /\ BlockOf(id)'.buff = BlockOf(id).buff
           /\ BlockOf(id)'.path = BlockOf(id).path
  <1>1. PICK head \in Node : /\ PushedAndErased(cacheChain, head, k, cacheChain')
                             /\ blocksMap' = [blocksMap EXCEPT ![id] = head]
    BY DEF HitOf
  <1>2. blocksMap \in [BlockID -> Node \cup {NoNode}]
    BY DEF CacheInv, CacheTypeOK
  <1>3. blocksMap'[id] = cacheChain'[1] /\ \A x \in BlockID : x # id => blocksMap'[x] = blocksMap[x]
    BY <1>1, <1>2 DEF PushedAndErased
  <1>4. Cached(id)'
    BY <1>1, <1>3, ValuesAssumption DEF Cached, PushedAndErased
  <1>5. \A x \in BlockID : Cached(x)' <=> Cached(x)
    BY <1>3, <1>4 DEF Cached
  <1>6. ASSUME NEW x \in BlockID, x # id, Cached(x)
        PROVE  SameButTag(BlockOf(x)', BlockOf(x))
    <2>1. block[cacheChain[k]].id = id
      BY PositionOfID DEF HitOf, BlockOf
    <2>2. SameButTag(block'[blocksMap[x]], BlockOf(x))
      BY <1>1, <1>6, <2>1, KeptBlock DEF HitOf
    <2> QED
      BY <1>3, <1>6, <2>2 DEF BlockOf
  <1> QED
    BY <1>3, <1>5, <1>6 DEF HitOf, BlockOf

\* An insertion caches the new block, drops the one it replaces and leaves the others.
LEMMA InsertByID ==
    ASSUME CacheInv, NEW id \in BlockID, ~Cached(id), NEW buff, NEW path,
           NEW k \in Positions, InsertOf(id, buff, path, k)
    PROVE  /\ Cached(id)'
           /\ BlockOf(id)'.refCount = 1 /\ BlockOf(id)'.buff = buff /\ BlockOf(id)'.path = path
           /\ \A x \in BlockID : x # id =>
                 /\ Cached(x)' <=> Cached(x) /\ x # block[cacheChain[k]].id
                 /\ Cached(x)' => SameButTag(BlockOf(x)', BlockOf(x))
           /\ block[cacheChain[k]].id # id
  <1>1. PICK head \in Node : /\ PushedAndErased(cacheChain, head, k, cacheChain')
                             /\ blocksMap' = MapAfterInsert(id, head, cacheChain[k])
    BY DEF InsertOf
  <1>2. block[cacheChain[k]].id # id
    BY PositionOfID
  <1>3. /\ blocksMap'[id] = cacheChain'[1]
        /\ \A x \in BlockID : x # id =>
              blocksMap'[x] = IF x = block[cacheChain[k]].id THEN NoNode ELSE blocksMap[x]
    BY <1>1, <1>2 DEF MapAfterInsert, PushedAndErased
  <1>4. Cached(id)'
    BY <1>1, <1>3, ValuesAssumption DEF Cached, PushedAndErased
  <1>5. ASSUME NEW x \in BlockID, x # id
        PROVE  /\ Cached(x)' <=> Cached(x) /\ x # block[cacheChain[k]].id
               /\ Cached(x)' => SameButTag(BlockOf(x)', BlockOf(x))
    <2>1. Cached(x)' <=> Cached(x) /\ x # block[cacheChain[k]].id
      BY <1>3, <1>5 DEF Cached
    <2>2. ASSUME Cached(x)' PROVE SameButTag(BlockOf(x)', BlockOf(x))
      <3>1. SameButTag(block'[blocksMap[x]], BlockOf(x))
        BY <1>1, <2>1, <2>2, KeptBlock DEF InsertOf
      <3> QED
        BY <1>3, <1>5, <2>1, <2>2, <3>1 DEF BlockOf
    <2> QED
      BY <2>1, <2>2
  <1> QED
    BY <1>2, <1>3, <1>4, <1>5 DEF InsertOf, BlockOf

\* Rewriting paths leaves the same blocks cached with the same counts and buffers.
LEMMA UpdatePathsByID ==
    ASSUME CacheInv, NEW p, NEW q, UpdatePaths(p, q), NEW x \in BlockID
    PROVE  /\ Cached(x)' <=> Cached(x)
           /\ Cached(x) => /\ BlockOf(x)'.refCount = BlockOf(x).refCount
                           /\ BlockOf(x)'.buff = BlockOf(x).buff
  <1>1. blocksMap \in [BlockID -> Node \cup {NoNode}]
    BY DEF CacheInv, CacheTypeOK
  <1>2. /\ blocksMap' = blocksMap
        /\ \A n \in Node : /\ block'[n].refCount = block[n].refCount
                           /\ block'[n].buff = block[n].buff
    BY UpdatePathsBlocks
  <1> QED
    BY <1>1, <1>2 DEF Cached, BlockOf

-----------------------------------------------------------------------------
(***************************************************************************)
(* Buffers.                                                                *)
(***************************************************************************)
BuffersKept ==
    \A id \in BlockID :
        Cached(id) /\ Cached(id)' => block'[blocksMap'[id]].buff = block[blocksMap[id]].buff

\* A look-up that finds its block keeps every buffer.
LEMMA FindBlockKeepsBuffers ==
    ASSUME CacheInv, status = "running", NEW id \in BlockID, FindBlock(id)
    PROVE  BuffersKept
  <1>1. Cached(id)
    BY DEF FindBlock, FindInNew, FindInMiddle, FindInOld
  <1>2. PICK k \in Positions : HitOf(id, k)
    BY FindBlockEffect
  <1> QED
    BY <1>1, <1>2, HitByID DEF BuffersKept, BlockOf, SameButTag

\* Whatever hits, insertions, evictions and renames do to the list and the map, the buffer
\* retrieveBuffer returns for an ID changes only when its block has been evicted.
THEOREM BuffersAreStable == CacheSpec => BuffersStable
  <1>1. CacheInv /\ [CacheNext]_cacheVars => [BuffersKept]_cacheVars
    <2> SUFFICES ASSUME CacheInv, CacheNext PROVE BuffersKept \/ UNCHANGED cacheVars
      OBVIOUS
    <2>1. ASSUME NEW id \in BlockID, RetrieveHit(id) PROVE BuffersKept
      BY <2>1, FindBlockKeepsBuffers DEF RetrieveHit
    <2>2. ASSUME NEW id \in BlockID, RetrieveMiss(id) PROVE UNCHANGED cacheVars
      BY <2>2 DEF RetrieveMiss
    <2>3. ASSUME NEW id \in BlockID, NEW buff \in Buff, NEW path \in Path,
                 InsertBlock(id, buff, path)
          PROVE  BuffersKept
      <3>1. CASE Cached(id) /\ InsertCached(id)
        BY <2>3, <3>1, FindBlockKeepsBuffers DEF InsertBlock, InsertCached
      <3>2. CASE ~Cached(id) /\ InsertNew(id, buff, path)
        <4>1. ErasePosition \in Positions /\ InsertOf(id, buff, path, ErasePosition)
          BY <2>3, <3>2, InsertNewEffect, ErasePositionIsOld DEF InsertBlock
        <4>2. \A x \in BlockID : x # id /\ Cached(x)' => SameButTag(BlockOf(x)', BlockOf(x))
          BY <3>2, <4>1, InsertByID
        <4> QED
          BY <3>2, <4>2 DEF BuffersKept, BlockOf, SameButTag
      <3> QED
        BY <2>3, <3>1, <3>2 DEF InsertBlock
    <2>4. ASSUME NEW p, NEW q, UpdatePaths(p, q) PROVE BuffersKept
      BY <2>4, UpdatePathsByID DEF BuffersKept, BlockOf
    <2> QED
      BY <2>1, <2>2, <2>3, <2>4 DEF CacheNext
  <1> QED
    BY <1>1, CacheInvHolds, PTL DEF CacheSpec, BuffersStable, BuffersKept

-----------------------------------------------------------------------------
(***************************************************************************)
(* CacheManager implements FBR.                                            *)
(***************************************************************************)
\* Seen by IDs, pushing a node and erasing position k is ToFront of k.
LEMMA StackAfterPush ==
    ASSUME NEW id, NEW k \in Positions, NEW head,
           PushedAndErased(cacheChain, head, k, cacheChain'),
           block'[cacheChain'[1]].id = id,
           \A i \in Positions : i # 1 => SameButTag(block'[cacheChain'[i]], block[cacheChain'[i]])
    PROVE  StackOfChain' = Policy!ToFront(id, k)
  <1> USE SectionSizes DEF Positions
  <1>1. ASSUME NEW i \in Positions
        PROVE  block'[cacheChain'[i]].id =
                  IF i = 1 THEN id
                  ELSE IF i <= k THEN StackOfChain[i - 1] ELSE StackOfChain[i]
    <2>1. CASE i = 1
      BY <2>1
    <2>2. CASE i # 1 /\ i <= k
      BY <2>2 DEF PushedAndErased, SameButTag, StackOfChain
    <2>3. CASE i # 1 /\ i > k
      BY <2>3 DEF PushedAndErased, SameButTag, StackOfChain
    <2> QED
      BY <2>1, <2>2, <2>3
  <1>2. StackOfChain' = [i \in Positions |-> block'[cacheChain'[i]].id]
    BY DEF StackOfChain
  <1>3. Policy!ToFront(id, k) =
          [i \in Positions |-> IF i = 1 THEN id
                               ELSE IF i <= k THEN StackOfChain[i - 1] ELSE StackOfChain[i]]
    BY DEF Policy!ToFront, Policy!Slots
  <1> QED
    BY <1>1, <1>2, <1>3

\* The counts the policy sees.
LEMMA CountOfID ==
    /\ CountOfChain = [x \in BlockID |-> IF Cached(x) THEN BlockOf(x).refCount ELSE 0]
    /\ CountOfChain' = [x \in BlockID |-> IF Cached(x)' THEN BlockOf(x)'.refCount ELSE 0]
  BY DEF CountOfChain, BlockOf

\* A look-up that finds its block is a hit of the policy: the tag that decides whether it
\* is counted says where the block is.
LEMMA FindBlockIsHit ==
    ASSUME CacheInv, status = "running", NEW id \in BlockID, FindBlock(id)
    PROVE  Policy!Hit(id)
  <1>1. Cached(id)
    BY DEF FindBlock, FindInNew, FindInMiddle, FindInOld
  <1>2. PICK k \in Positions : HitOf(id, k)
    BY FindBlockEffect
  <1>3. StackOfChain[k] = id
    BY <1>1, <1>2, PositionOfID DEF StackOfChain, HitOf, BlockOf
  <1>4. StackOfChain' = Policy!ToFront(id, k)
    BY <1>2, StackAfterPush DEF HitOf
  <1>5. CountOfChain' = IF k <= newSectionSize THEN CountOfChain
                        ELSE [CountOfChain EXCEPT ![id] = @ + 1]
    <2>1. /\ \A x \in BlockID : Cached(x)' <=> Cached(x)
          /\ \A x \in BlockID : x # id /\ Cached(x) => BlockOf(x)'.refCount = BlockOf(x).refCount
          /\ BlockOf(id)'.refCount = BlockOf(id).refCount + Counted(k)
      BY <1>1, <1>2, HitByID DEF SameButTag
    <2>2. BlockOf(id).refCount \in Nat
      <3>1. block \in [Node -> CacheBlock] /\ blocksMap \in [BlockID -> Node \cup {NoNode}]
        BY DEF CacheInv, CacheTypeOK
      <3>2. BlockOf(id) \in CacheBlock
        BY <1>1, <3>1 DEF BlockOf, Cached
      <3> QED
        BY <3>2, ValuesAssumption DEF CacheBlock
    <2>3. CASE k <= newSectionSize
      <3>1. \A x \in BlockID : Cached(x) => BlockOf(x)'.refCount = BlockOf(x).refCount
        BY <2>1, <2>2, <2>3 DEF Counted
      <3> QED
        BY <2>1, <2>3, <3>1, CountOfID
    <2>4. CASE ~(k <= newSectionSize)
      <3>1. BlockOf(id)'.refCount = CountOfChain[id] + 1
        BY <1>1, <2>1, <2>4, CountOfID DEF Counted
      <3> QED
        BY <1>1, <2>1, <2>4, <3>1, CountOfID
    <2> QED
      BY <2>3, <2>4
  <1> QED
    BY <1>2, <1>3, <1>4, <1>5 DEF Policy!Hit, Policy!Slots, Positions

\* An insertion fills an unused slot or replaces the least recently used of the least
\* referenced old blocks, also when it is the insertion that loses a boundary.
LEMMA InsertNewIsFillOrReplace ==
    ASSUME CacheInv, status = "running", NEW id \in BlockID, NEW buff \in Buff,
           NEW path \in Path, ~Cached(id), InsertNew(id, buff, path)
    PROVE  Policy!Fill(id) \/ Policy!Replace(id)
  <1> DEFINE k == ErasePosition
             gone == block[cacheChain[k]].id
  <1>1. k \in Positions /\ k > newSectionSize + middleSectionSize
    BY ErasePositionIsOld
  <1>2. InsertOf(id, buff, path, k)
    BY InsertNewEffect
  <1>3. StackOfChain' = Policy!ToFront(id, k)
    BY <1>1, <1>2, StackAfterPush DEF InsertOf
  <1>4. \A i \in Positions : StackOfChain[i] # id
    BY PositionOfID DEF StackOfChain
  <1>5. CountOfChain' = [x \in BlockID |-> IF x = id THEN 1
                                           ELSE IF x = gone THEN 0 ELSE CountOfChain[x]]
    <2>1. /\ Cached(id)' /\ BlockOf(id)'.refCount = 1
          /\ \A x \in BlockID : x # id =>
                /\ Cached(x)' <=> Cached(x) /\ x # gone
                /\ Cached(x)' => BlockOf(x)'.refCount = BlockOf(x).refCount
      BY <1>1, <1>2, InsertByID DEF SameButTag
    <2> HIDE DEF gone
    <2> QED
      BY <2>1, CountOfID
  <1>6. CASE IsNull(block[cacheChain[numberOfBlocks]])
    <2>1. k = numberOfBlocks /\ gone = NullID
      BY <1>6 DEF ErasePosition, IsNull
    <2>2. StackOfChain[numberOfBlocks] = NullID
      BY <1>6, SectionSizes DEF StackOfChain, IsNull, Positions
    <2>3. CountOfChain' = [CountOfChain EXCEPT ![id] = 1]
      BY <1>5, <2>1, ValuesAssumption DEF CountOfChain
    <2> QED
      BY <1>3, <1>4, <2>1, <2>2, <2>3 DEF Policy!Fill, Policy!Slots, Positions
  <1>7. CASE ~IsNull(block[cacheChain[numberOfBlocks]])
    <2>1. \A i \in Positions : ~IsNull(block[cacheChain[i]])
      BY <1>7, SectionSizes DEF CacheInv, NullBlocksLast, Positions
    <2>2. \A i \in Positions : StackOfChain[i] \in BlockID
      <3>1. cacheChain \in [Positions -> Node] /\ block \in [Node -> CacheBlock]
        BY DEF CacheInv, CacheTypeOK
      <3> QED
        BY <2>1, <3>1 DEF StackOfChain, IsNull, CacheBlock
    <2>3. \A i \in Positions : CountOfChain[StackOfChain[i]] = block[cacheChain[i]].refCount
      <3> SUFFICES ASSUME NEW i \in Positions
                   PROVE  CountOfChain[StackOfChain[i]] = block[cacheChain[i]].refCount
        OBVIOUS
      <3>1. StackOfChain[i] \in BlockID /\ block[cacheChain[i]].id = StackOfChain[i]
        BY <2>2 DEF StackOfChain
      <3>2. Cached(StackOfChain[i]) /\ cacheChain[i] = blocksMap[StackOfChain[i]]
        BY <3>1, PositionOfID
      <3> QED
        BY <3>1, <3>2, CountOfID DEF BlockOf
    <2>4. Policy!OldSlots = {j \in Positions : j > newSectionSize + middleSectionSize}
      BY SectionSizes DEF Policy!OldSlots, Positions
    <2>5. Policy!LeastReferencedOldest(k)
      <3>1. \A j \in Positions : j > newSectionSize + middleSectionSize =>
               /\ block[cacheChain[k]].refCount <= block[cacheChain[j]].refCount
               /\ block[cacheChain[k]].refCount = block[cacheChain[j]].refCount => j <= k
        BY <1>7, ErasePositionIsOld
      <3> HIDE DEF k
      <3> QED
        BY <1>1, <2>3, <2>4, <3>1 DEF Policy!LeastReferencedOldest
    <2>6. CountOfChain' = [CountOfChain EXCEPT ![id] = 1, ![StackOfChain[k]] = 0]
      <3>1. StackOfChain[k] = gone /\ gone # id /\ gone \in BlockID
        BY <1>1, <1>4, <2>2 DEF StackOfChain
      <3> HIDE DEF gone, k
      <3> QED
        BY <1>5, <3>1 DEF CountOfChain
    <2>7. \A i \in Positions : StackOfChain[i] \notin {id, NullID}
      BY <1>4, <2>2, ValuesAssumption
    <2>8. k \in Policy!OldSlots
      BY <1>1, <2>4
    <2> HIDE DEF k
    <2> QED
      BY <1>3, <2>5, <2>6, <2>7, <2>8 DEF Policy!Replace, Policy!Slots, Positions
  <1> QED
    BY <1>6, <1>7

\* Rewriting paths is no step of the policy.
LEMMA UpdatePathsIsStutter ==
    ASSUME CacheInv, NEW p, NEW q, UpdatePaths(p, q)
    PROVE  UNCHANGED Policy!fbrVars
  <1>1. /\ cacheChain' = cacheChain
        /\ \A n \in Node : block'[n].id = block[n].id
    BY UpdatePathsBlocks
  <1>2. cacheChain \in [Positions -> Node]
    BY DEF CacheInv, CacheTypeOK
  <1>3. StackOfChain' = StackOfChain
    BY <1>1, <1>2 DEF StackOfChain
  <1>4. CountOfChain' = CountOfChain
    BY CountOfID, UpdatePathsByID
  <1> QED
    BY <1>3, <1>4 DEF Policy!fbrVars

\* For every size of the cache, every split main accepts and every sequence of look-ups,
\* insertions and renames, CacheManager is an implementation of frequency-based replacement.
THEOREM ImplementsPolicy == CacheSpec => ImplementsFBR
  <1>1. CacheInit => Policy!FBRInit
    <2> SUFFICES ASSUME CacheInit PROVE Policy!FBRInit
      OBVIOUS
    <2>1. \A i \in Positions : block[cacheChain[i]].id = NullID
      BY DEF CacheInit, NullBlock, NewCacheBlock
    <2>2. StackOfChain = [i \in Positions |-> NullID]
      BY <2>1 DEF StackOfChain
    <2>3. CountOfChain = [x \in BlockID |-> 0]
      BY DEF CountOfChain, Cached, CacheInit
    <2> QED
      BY <2>2, <2>3 DEF Policy!FBRInit, Policy!Slots, Positions
  <1>2. CacheInv /\ [CacheNext]_cacheVars => [Policy!FBRNext]_(Policy!fbrVars)
    <2> SUFFICES ASSUME CacheInv, [CacheNext]_cacheVars
                 PROVE  Policy!FBRNext \/ UNCHANGED Policy!fbrVars
      OBVIOUS
    <2>1. ASSUME NEW id \in BlockID, RetrieveHit(id) PROVE Policy!FBRNext
      BY <2>1, FindBlockIsHit DEF RetrieveHit, Policy!FBRNext
    <2>2. ASSUME UNCHANGED cacheVars PROVE UNCHANGED Policy!fbrVars
      BY <2>2 DEF cacheVars, Policy!fbrVars, StackOfChain, CountOfChain, Cached
    <2>3. ASSUME NEW id \in BlockID, RetrieveMiss(id) PROVE UNCHANGED Policy!fbrVars
      BY <2>2, <2>3 DEF RetrieveMiss
    <2>4. ASSUME NEW id \in BlockID, NEW buff \in Buff, NEW path \in Path,
                 InsertBlock(id, buff, path)
          PROVE  Policy!FBRNext
      <3>1. CASE Cached(id) /\ InsertCached(id)
        BY <2>4, <3>1, FindBlockIsHit DEF InsertBlock, InsertCached, Policy!FBRNext
      <3>2. CASE ~Cached(id) /\ InsertNew(id, buff, path)
        BY <2>4, <3>2, InsertNewIsFillOrReplace DEF InsertBlock, Policy!FBRNext
      <3> QED
        BY <2>4, <3>1, <3>2 DEF InsertBlock
    <2>5. ASSUME NEW p, NEW q, UpdatePaths(p, q) PROVE UNCHANGED Policy!fbrVars
      BY <2>5, UpdatePathsIsStutter
    <2> QED
      BY <2>1, <2>2, <2>3, <2>4, <2>5 DEF CacheNext
  <1> QED
    BY <1>1, <1>2, CacheInvHolds, PTL DEF CacheSpec, ImplementsFBR, Policy!FBRSpec
-----------------------------------------------------------------------------
(***************************************************************************)
(* The blocks used last are cached.                                        *)
(***************************************************************************)
\* The IDs at the head of the list st are those of rec.
StartsWith(st, rec) ==
    /\ rec \in Seq(BlockID) /\ Len(rec) <= newSectionSize
    /\ \A i \in 1..Len(rec) : st[i] = rec[i]

\* used is rec with id moved from place k to the front, or put there if rec has no place k.
UsedIs(used, rec, id, k) ==
    /\ used \in Seq(BlockID)
    /\ Len(used) = IF k <= Len(rec) THEN Len(rec) ELSE Len(rec) + 1
    /\ \A i \in 1..Len(used) :
          used[i] = IF i = 1 THEN id ELSE IF i <= k THEN rec[i - 1] ELSE rec[i]

\* The history after a use of id, which is at place k of rec or not in it.
LEMMA UsedList ==
    ASSUME NEW rec \in Seq(BlockID), NEW id \in BlockID, NEW k \in Nat, k >= 1,
           \A i \in 1..Len(rec) : rec[i] = id <=> i = k
    PROVE  UsedIs(<<id>> \o RemoveFirst(rec, id), rec, id, k)
  <1> DEFINE rest == RemoveFirst(rec, id)
             used == <<id>> \o rest
  <1>1. PICK L \in Nat : L = Len(rec)
    OBVIOUS
  <1>2. /\ rest \in Seq(BlockID) /\ Len(rest) = IF k <= L THEN L - 1 ELSE L
        /\ \A j \in 1..Len(rest) : rest[j] = IF j < k THEN rec[j] ELSE rec[j + 1]
    <2>1. CASE k <= L
      <3>1. k \in 1..Len(rec) /\ rec[k] = id
        BY <1>1, <2>1
      <3>2. {j \in 1..Len(rec) : rec[j] = id} = {k}
        BY <3>1
      <3>3. Min({k}) = k
        BY DEF Min
      <3>4. SelectInSeq(rec, LAMBDA v : v = id) = k
        BY <3>2, <3>3 DEF SelectInSeq
      <3>5. rest = RemoveAt(rec, k)
        BY <3>1, <3>4 DEF RemoveFirst
      <3>6. /\ RemoveAt(rec, k) \in Seq(BlockID) /\ Len(RemoveAt(rec, k)) = Len(rec) - 1
            /\ \A j \in 1..(Len(rec) - 1) : RemoveAt(rec, k)[j] = IF j < k THEN rec[j] ELSE rec[j + 1]
        BY <3>1, RemoveAtIs
      <3> HIDE DEF rest
      <3> QED
        BY <1>1, <2>1, <3>5, <3>6
    <2>2. CASE ~(k <= L)
      <3>1. ~(\E i \in 1..Len(rec) : rec[i] = id)
        BY <1>1, <2>2
      <3>2. rest = rec
        BY <3>1 DEF RemoveFirst
      <3> HIDE DEF rest
      <3> QED
        BY <1>1, <2>2, <3>2
    <2> QED
      BY <2>1, <2>2
  <1> HIDE DEF rest
  <1>3. /\ used \in Seq(BlockID) /\ Len(used) = Len(rest) + 1 /\ used[1] = id
        /\ \A j \in 1..Len(rest) : used[j + 1] = rest[j]
    BY <1>2
  <1> HIDE DEF used
  <1>4. ASSUME NEW i \in 1..Len(used)
        PROVE  used[i] = IF i = 1 THEN id ELSE IF i <= k THEN rec[i - 1] ELSE rec[i]
    <2>1. CASE i = 1
      BY <1>3, <2>1
    <2>2. CASE i # 1
      <3>1. PICK j \in 1..Len(rest) : j = i - 1 /\ j + 1 = i /\ (j < k <=> i <= k)
        BY <1>2, <1>3, <2>2
      <3>2. used[i] = rest[j] /\ rest[j] = IF j < k THEN rec[j] ELSE rec[j + 1]
        BY <1>2, <1>3, <3>1
      <3> QED
        BY <2>2, <3>1, <3>2
    <2> QED
      BY <2>1, <2>2
  <1>5. Len(used) = IF k <= L THEN L ELSE L + 1
    BY <1>1, <1>2, <1>3
  <1> QED
    <2>1. UsedIs(used, rec, id, k)
      BY <1>1, <1>3, <1>4, <1>5 DEF UsedIs
    <2> QED
      BY <2>1 DEF used, rest

\* A use of id, found at position k or put in the place of what was there, keeps them in step.
LEMMA UsedStartsWith ==
    ASSUME NEW id \in BlockID, NEW k \in Positions, StartsWith(StackOfChain, recent),
           \A i \in 1..Len(recent) : recent[i] = id <=> i = k,
           StackOfChain' = Policy!ToFront(id, k), Used(id)
    PROVE  StartsWith(StackOfChain', recent')
  <1> USE SectionSizes
  <1>1. recent \in Seq(BlockID) /\ Len(recent) <= newSectionSize /\ \A i \in 1..Len(recent) : StackOfChain[i] = recent[i]
    BY DEF StartsWith
  <1>2. PICK used \in Seq(BlockID) :
           /\ used = <<id>> \o RemoveFirst(recent, id)
           /\ Len(used) = IF k <= Len(recent) THEN Len(recent) ELSE Len(recent) + 1
           /\ \A i \in 1..Len(used) :
                 used[i] = IF i = 1 THEN id ELSE IF i <= k THEN recent[i - 1] ELSE recent[i]
    <2>1. k \in Nat /\ k >= 1
      BY DEF Positions
    <2>2. UsedIs(<<id>> \o RemoveFirst(recent, id), recent, id, k)
      BY <1>1, <2>1, UsedList
    <2> QED
      BY <2>2 DEF UsedIs
  <1>3. PICK n \in Nat : n = IF Len(used) < newSectionSize THEN Len(used) ELSE newSectionSize
    OBVIOUS
  <1>4. recent' = SubSeq(used, 1, n)
    BY <1>2, <1>3 DEF Used
  <1>5. n <= Len(used) /\ n <= newSectionSize /\ 1 \in 1..(Len(used) + 1) /\ n \in 0..Len(used) /\ 1 <= n + 1
    BY <1>3
  <1>6. recent' \in Seq(BlockID) /\ Len(recent') = n /\ \A i \in 1..n : recent'[i] = used[i]
    <2>1. /\ SubSeq(used, 1, n) \in Seq(BlockID) /\ Len(SubSeq(used, 1, n)) = n - 1 + 1
          /\ \A j \in 1..(n - 1 + 1) : SubSeq(used, 1, n)[j] = used[1 + j - 1]
      BY <1>5, PartIs
    <2>2. n - 1 + 1 = n /\ \A j \in 1..n : 1 + j - 1 = j
      OBVIOUS
    <2> QED
      BY <1>4, <2>1, <2>2
  <1>7. ASSUME NEW i \in 1..n
        PROVE  StackOfChain'[i] = used[i]
    <2>1. i \in 1..Len(used) /\ i \in Positions
      BY <1>5 DEF Positions
    <2>2. StackOfChain'[i] = IF i = 1 THEN id ELSE IF i <= k THEN StackOfChain[i - 1] ELSE StackOfChain[i]
      BY <2>1 DEF Policy!ToFront, Policy!Slots, Positions
    <2>3. CASE i = 1
      BY <1>2, <2>1, <2>2, <2>3
    <2>4. CASE i # 1 /\ i <= k
      <3>1. i - 1 \in 1..Len(recent)
        BY <1>1, <1>2, <2>1, <2>4
      <3>2. StackOfChain[i - 1] = recent[i - 1] /\ used[i] = recent[i - 1]
        BY <1>1, <1>2, <2>1, <2>4, <3>1
      <3> QED
        BY <2>2, <2>4, <3>2
    <2>5. CASE i # 1 /\ ~(i <= k)
      <3>1. i \in 1..Len(recent)
        BY <1>1, <1>2, <2>1, <2>5 DEF Positions
      <3>2. StackOfChain[i] = recent[i] /\ used[i] = recent[i]
        BY <1>1, <1>2, <2>1, <2>5, <3>1
      <3> QED
        BY <2>2, <2>5, <3>2
    <2> QED
      BY <2>3, <2>4, <2>5
  <1> QED
    BY <1>5, <1>6, <1>7 DEF StartsWith

\* A hit is a use of the block.
LEMMA HitStartsWith ==
    ASSUME CacheInv, status = "running", StartsWith(StackOfChain, recent),
           NEW id \in BlockID, FindBlock(id), Used(id)
    PROVE  StartsWith(StackOfChain', recent')
  <1>1. Cached(id)
    BY DEF FindBlock, FindInNew, FindInMiddle, FindInOld
  <1>2. PICK k \in Positions : HitOf(id, k)
    BY FindBlockEffect
  <1>3. StackOfChain[k] = id
    BY <1>1, <1>2, PositionOfID DEF StackOfChain, HitOf, BlockOf
  <1>4. StackOfChain' = Policy!ToFront(id, k)
    BY <1>2, StackAfterPush DEF HitOf
  <1>5. ASSUME NEW i \in Positions, StackOfChain[i] = id
        PROVE  i = k
    <2>1. cacheChain[i] = blocksMap[id] /\ cacheChain[k] = blocksMap[id]
      BY <1>2, <1>5, PositionOfID DEF StackOfChain, HitOf
    <2> QED
      BY <2>1 DEF CacheInv, NodesDistinct
  <1>6. \A i \in 1..Len(recent) : i \in Positions /\ StackOfChain[i] = recent[i]
    BY SectionSizes DEF StartsWith, Positions
  <1>7. \A i \in 1..Len(recent) : recent[i] = id <=> i = k
    BY <1>3, <1>5, <1>6
  <1> QED
    BY <1>4, <1>7, UsedStartsWith

\* An insertion takes its place from the old section.
LEMMA InsertStartsWith ==
    ASSUME CacheInv, status = "running", StartsWith(StackOfChain, recent),
           NEW id \in BlockID, NEW buff \in Buff, NEW path \in Path, ~Cached(id),
           InsertNew(id, buff, path), Used(id)
    PROVE  StartsWith(StackOfChain', recent')
  <1>1. PICK k \in Positions : k > newSectionSize + middleSectionSize /\ InsertOf(id, buff, path, k)
    BY ErasePositionIsOld, InsertNewEffect
  <1>2. StackOfChain' = Policy!ToFront(id, k)
    BY <1>1, StackAfterPush DEF InsertOf
  <1>3. \A i \in Positions : StackOfChain[i] # id
    BY PositionOfID DEF StackOfChain
  <1>4. \A i \in 1..Len(recent) : i \in Positions /\ StackOfChain[i] = recent[i] /\ i # k
    BY <1>1, SectionSizes DEF StartsWith, Positions
  <1>5. \A i \in 1..Len(recent) : recent[i] = id <=> i = k
    BY <1>3, <1>4
  <1> QED
    BY <1>2, <1>5, UsedStartsWith

\* However hits, insertions and renames follow each other, the blocks used last, as many as
\* the new section has places, are cached, in the order of their use.
THEOREM RecentStaysCached == HistorySpec => []RecentlyUsedAreCached
  <1> DEFINE Inv == CacheInv /\ StartsWith(StackOfChain, recent)
  <1>1. HistoryInit => Inv
    <2> SUFFICES ASSUME HistoryInit PROVE Inv
      OBVIOUS
    <2>1. CacheInv
      BY InitInv DEF HistoryInit
    <2>2. StartsWith(StackOfChain, recent)
      BY SectionSizes DEF HistoryInit, StartsWith
    <2> QED
      BY <2>1, <2>2
  <1>2. Inv /\ [HistoryNext]_historyVars => Inv'
    <2> SUFFICES ASSUME Inv, [HistoryNext]_historyVars PROVE Inv'
      OBVIOUS
    <2>1. CacheInv'
      <3>1. [CacheNext]_cacheVars
        BY DEF HistoryNext, CacheNext, historyVars, cacheVars
      <3> QED
        BY <3>1, NextInv
    <2>2. ASSUME StackOfChain' = StackOfChain, recent' = recent
          PROVE  StartsWith(StackOfChain', recent')
      BY <2>2
    <2>3. ASSUME UNCHANGED cacheVars
          PROVE  StackOfChain' = StackOfChain
      BY <2>3 DEF cacheVars, StackOfChain
    <2>4. ASSUME UNCHANGED historyVars
          PROVE  StartsWith(StackOfChain', recent')
      <3>1. UNCHANGED cacheVars /\ recent' = recent
        BY <2>4 DEF historyVars, cacheVars
      <3>2. StackOfChain' = StackOfChain
        BY <3>1, <2>3
      <3> QED
        BY <2>2, <3>1, <3>2
    <2>5. ASSUME NEW id \in BlockID, RetrieveHit(id), Used(id)
          PROVE  StartsWith(StackOfChain', recent')
      BY <2>5, HitStartsWith DEF RetrieveHit
    <2>6. ASSUME NEW id \in BlockID, RetrieveMiss(id), UNCHANGED recent
          PROVE  StartsWith(StackOfChain', recent')
      BY <2>2, <2>3, <2>6 DEF RetrieveMiss
    <2>7. ASSUME NEW id \in BlockID, NEW buff \in Buff, NEW path \in Path,
                 InsertBlock(id, buff, path), Used(id)
          PROVE  StartsWith(StackOfChain', recent')
      <3>1. CASE Cached(id) /\ InsertCached(id)
        BY <2>7, <3>1, HitStartsWith DEF InsertBlock, InsertCached
      <3>2. CASE ~Cached(id) /\ InsertNew(id, buff, path)
        BY <2>7, <3>2, InsertStartsWith DEF InsertBlock
      <3> QED
        BY <2>7, <3>1, <3>2 DEF InsertBlock
    <2>8. ASSUME NEW p, NEW q, UpdatePaths(p, q), UNCHANGED recent
          PROVE  StartsWith(StackOfChain', recent')
      BY <2>2, <2>8, UpdatePathsIsStutter DEF Policy!fbrVars
    <2> QED
      BY <2>1, <2>4, <2>5, <2>6, <2>7, <2>8 DEF HistoryNext
  <1>3. Inv => RecentlyUsedAreCached
    <2> SUFFICES ASSUME Inv, NEW i \in 1..newSectionSize, i <= Len(recent)
                 PROVE  block[cacheChain[i]].id = recent[i]
      BY DEF RecentlyUsedAreCached
    <2>1. i \in 1..Len(recent) /\ i \in Positions
      BY SectionSizes DEF StartsWith, Positions
    <2> QED
      BY <2>1 DEF StartsWith, StackOfChain
  <1> QED
    BY <1>1, <1>2, <1>3, PTL DEF HistorySpec
=============================================================================
