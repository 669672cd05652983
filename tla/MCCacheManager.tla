--------------------------- MODULE MCCacheManager ---------------------------
(***************************************************************************)
(* CacheManager, with the history of its use, on small instances.          *)
(***************************************************************************)
EXTENDS CacheHistory, FiniteSets, TLC

MCPathFlat == {<<"a">>}

\* Nodes are interchangeable, so the first list is one fixed choice of them.
MCInit ==
    /\ cacheChain = CHOOSE c \in [Positions -> Node] :
                       \A i, j \in Positions : c[i] = c[j] => i = j
    /\ CacheInit
    /\ recent = <<>>

MCSpec == MCInit /\ [][HistoryNext]_historyVars

(***************************************************************************)
(* Node addresses only matter up to renaming, so a state is identified by  *)
(* what stands at each position of the list, with an iterator given as the *)
(* position of its node, 0 for NoNode and -1 for a node off the list.      *)
(***************************************************************************)
IteratorView(it) ==
    IF it = NoNode THEN 0
    ELSE IF it \in FreeNodes THEN -1 ELSE PositionOf(cacheChain, it)

MCView ==
    <<[i \in Positions |-> block[cacheChain[i]]],
      [id \in BlockID |-> IteratorView(blocksMap[id])],
      IteratorView(middleSectionIter), IteratorView(oldSectionIter), status, recent>>
=============================================================================
