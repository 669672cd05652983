--------------------------- MODULE MCCachingRead ---------------------------
(***************************************************************************)
(* CachingRead on small files.                                             *)
(***************************************************************************)
EXTENDS CachingRead, FiniteSets, TLC

MCFile     == {"f", "g"}
MCFileSize == [f \in File |-> IF f = "f" THEN 7 ELSE 3]
MCInode    == [f \in File |-> IF f = "f" THEN 2 ELSE 3]
MCFilePath == [f \in File |-> <<f>>]
MCPath     == {<<"f">>, <<"g">>, <<"log">>}
MCLogPath  == <<"log">>
MCBlockID  == UNION {{<<FileId(f), n>> : n \in BlocksOf(f)} : f \in File}
MCBuff     == UNION {{DiskBlock(f, n) : n \in BlocksOf(f)} : f \in File}

\* Nodes are interchangeable, so the first list is one fixed choice of them.
MCInit ==
    /\ cacheChain = CHOOSE c \in [Positions -> Node] :
                       \A i, j \in Positions : c[i] = c[j] => i = j
    /\ ReadInit

MCSpec == MCInit /\ [][ReadNext]_vars

\* Node addresses only matter up to renaming (see MCCacheManager).
IteratorView(it) ==
    IF it = NoNode THEN 0
    ELSE IF it \in FreeNodes THEN -1 ELSE PositionOf(cacheChain, it)

MCView ==
    <<[i \in Positions |-> block[cacheChain[i]]],
      [id \in BlockID |-> IteratorView(blocksMap[id])],
      IteratorView(middleSectionIter), IteratorView(oldSectionIter), status, readVars>>
=============================================================================
