------------------------ MODULE MCCachingFileSystem ------------------------
(***************************************************************************)
(* CachingFileSystem on a root directory with a file of three blocks, the  *)
(* log, and a directory that holds a small file with the name of the log.  *)
(*                                                                         *)
(* A behaviour plays one of three scenes, so that the ranges of the reads  *)
(* do not multiply with everything the handlers do to names.               *)
(***************************************************************************)
EXTENDS CachingFileSystem, FiniteSets, TLC

CONSTANT Scenes
VARIABLE scene

MCFile     == {"F", "G"}
MCFileSize == [f \in File |-> IF f = "F" THEN 7 ELSE 3]
MCInode    == [f \in File |-> IF f = "F" THEN 2 ELSE 3]
MCFilePath == [f \in File |-> IF f = "F" THEN <<"f">> ELSE <<"d", "log">>]
MCPath     == {<<"f">>, <<"d", "log">>, <<"e", "log">>, <<"log">>}
MCDir      == {<<"d">>, <<"e">>}
MCLogPath  == <<"log">>
MCRootTree ==
    (<<>> :> "root") @@ (<<"f">> :> "F") @@ (<<"d">> :> "D") @@ (<<"d", "log">> :> "G")
    @@ (<<"log">> :> "L")
MCBlockID  == UNION {{<<FileId(f), n>> : n \in BlocksOf(f)} : f \in File}
MCBuff     == UNION {{DiskBlock(f, n) : n \in BlocksOf(f)} : f \in File}

\* Both files are open.
OpenFd == CHOOSE open \in [File -> Fd] : \A f, g \in File : open[f] = open[g] => f = g

\* Nodes are interchangeable, so the first list is one fixed choice of them.
MCInit ==
    /\ cacheChain = CHOOSE c \in [Positions -> Node] :
                       \A i, j \in Positions : c[i] = c[j] => i = j
    /\ scene \in Scenes
    /\ ReadInit
    /\ tree = rootTree
    /\ IF scene = "renames"
       THEN /\ held = {OpenFd[f] : f \in File}
            /\ fds = [fd \in Fd |-> IF fd \in held THEN CHOOSE f \in File : OpenFd[f] = fd
                                                   ELSE Closed]
       ELSE held = {} /\ fds = [fd \in Fd |-> Closed]
    /\ streams = [d \in Directory |-> "closed"]
    /\ line = "init" /\ output = {}

\* Reads of every range of files that stay where they are.
Reads == ReadNext /\ UNCHANGED fsVars

\* Reads of whole blocks of two open files and renames.
Renames ==
    /\ CFSNext
    /\ line' \in {"init", "read", "rename"}
    /\ call'.offset % block_size = 0 /\ call'.size \in {0, block_size}

\* Every handler; reads of one byte of the small file.
Names ==
    /\ CFSNext
    /\ call'.offset = 0 /\ call'.size <= 1
    /\ line' = "read" => call'.file = "G"

MCNext ==
    /\ UNCHANGED scene
    /\ \/ scene = "reads" /\ Reads
       \/ scene = "renames" /\ Renames
       \/ scene = "names" /\ Names

MCSpec == MCInit /\ [][MCNext]_<<cfsVars, scene>>

\* Node addresses only matter up to renaming (see MCCacheManager).
IteratorView(it) ==
    IF it = NoNode THEN 0
    ELSE IF it \in FreeNodes THEN -1 ELSE PositionOf(cacheChain, it)

MCView ==
    <<[i \in Positions |-> block[cacheChain[i]]],
      [id \in BlockID |-> IteratorView(blocksMap[id])],
      IteratorView(middleSectionIter), IteratorView(oldSectionIter), status, readVars, fsVars,
      scene>>
=============================================================================
