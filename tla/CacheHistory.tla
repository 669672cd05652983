---------------------------- MODULE CacheHistory ----------------------------
(***************************************************************************)
(* CacheManager with the history of its use: recent holds the IDs in the   *)
(* order of their last use, most recent first.                             *)
(***************************************************************************)
EXTENDS CacheManager, SequencesExt

VARIABLE recent

historyVars == <<cacheChain, block, blocksMap, middleSectionIter, oldSectionIter, status, recent>>

\* Only as many IDs as the new section has places matter.
Used(id) ==
    LET used == <<id>> \o RemoveFirst(recent, id)
    IN  recent' = SubSeq(used, 1, IF Len(used) < newSectionSize THEN Len(used)
                                                                ELSE newSectionSize)

HistoryInit == CacheInit /\ recent = <<>>

HistoryNext ==
    \/ \E id \in BlockID : RetrieveHit(id) /\ Used(id)
    \/ \E id \in BlockID : RetrieveMiss(id) /\ UNCHANGED recent
    \/ \E id \in BlockID, buff \in Buff, path \in Path : InsertBlock(id, buff, path) /\ Used(id)
    \/ \E p, q \in Path : UpdatePaths(p, q) /\ UNCHANGED recent
    \/ \E p, q \in Dir : UpdatePaths(p, q) /\ UNCHANGED recent

HistorySpec == HistoryInit /\ [][HistoryNext]_historyVars

\* The blocks used most recently, as many as the new section has places, are cached and
\* stand in the new section in the order of their use: no insertion evicts them.
RecentlyUsedAreCached ==
    \A i \in 1 .. newSectionSize :
        i <= Len(recent) => block[cacheChain[i]].id = recent[i]
=============================================================================
