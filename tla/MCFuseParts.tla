---------------------------- MODULE MCFuseParts ----------------------------
(***************************************************************************)
(* The self-contained parts of the library, and the node tree from the     *)
(* mount on, each on its own instance: in a behaviour one of them moves    *)
(* and the others stay in an initial state.                                *)
(***************************************************************************)
EXTENDS FusePipe, FuseLocks, FuseBuf, FuseNodeTable, FuseSlab, FuseDir, MCFuseOpt, FuseSetup,
        FuseSubdir, FuseIconv, TLC

CONSTANTS
    Thread, NodeId, Root, Null,     \* of FuseTree
    r0, d1, f1, f2                  \* directories and files

VARIABLES
    which,      \* the part that moves
    tab, lockq, rq, fs, klook, kopen, abandons  \* of FuseTree

\* The library mounted over a directory "a" with a file "b" in it: two threads serve any
\* number of these requests.  Opening and renaming may fail (a hidden file whose removal
\* fails would stay).
MCCallbacks == {"getattr", "open", "release", "rename", "unlink"}
Tree == INSTANCE FuseTree WITH
            Name <- {"a", "b"}, HiddenName <- {"h"}, DirObj <- {r0, d1}, FileObj <- {f1, f2},
            InitFs <- <<>> :> r0 @@ <<"a">> :> d1 @@ <<"a", "b">> :> f1,
            Implemented <- MCCallbacks, Unfailing <- MCCallbacks \ {"open", "rename"},
            Ops <- {"lookup", "forget", "open", "release", "unlink", "rename"}, Abandoned <- {},
            MaxLookup <- 1, MaxOpen <- 1, MaxAbandon <- 0,
            Remember <- {FALSE}, HardRemove <- FALSE, NoPath <- FALSE

treevars == <<tab, lockq, rq, fs, klook, kopen, abandons>>

pwvars == <<pw, bc, tbl, hashed, ol, su>>
modvars == <<sd, icvars, treevars>>

Part == {"pipe", "locks", "buf", "table", "slab", "dir", "opt", "setup", "subdir", "iconv", "tree"}

\* All the starts of the part that moves, one of each other part.
Starts(part, all) == IF which = part THEN all ELSE {CHOOSE s \in all : TRUE}

\* Bounds of the locks.  Two calls are not in the list yet; a call that is made while another
\* one is on its way, or by an owner whose list may be out of date (which happens to an
\* owner that is alone), locks the first byte for writing or unlocks the whole file.
LocksBounded ==
    LET Underway == UNION {{o} \X DOMAIN granted[o] : o \in Owner}
        Absent(o) == granted[o] = <<>> /\ calm[o] /\ \A b \in Byte : held[o][b] = UNLCK /\ told[o][b] = UNLCK
    IN  /\ \A o \in Owner : \A i \in DOMAIN granted'[o] \ DOMAIN granted[o] :
              LET lock == granted'[o][i].lock
              IN  /\ Cardinality(Underway) < 2
                  /\ Underway # {} \/ ~calm[o] =>
                        /\ lock.type # "RDLCK" /\ lock.start = 0
                        /\ lock.end = IF lock.type = UNLCK THEN OFFSET_MAX ELSE 0
        /\ (\E o \in Owner : ~calm'[o]) => \E o \in Owner : \A p \in Owner \ {o} : Absent(p)'

PartsInit ==
    /\ which \in Part
    /\ Tree!Init /\ PipeInit /\ LocksInit /\ TableInit /\ SlabInit
    /\ bc \in Starts("buf", BufStarts)
    /\ ol \in Starts("opt", OptStarts)
    /\ su \in Starts("setup", SetupStarts)
    /\ sd \in Starts("subdir", SubdirStarts)
    /\ IconvInit /\ ic.locale \in Starts("iconv", BOOLEAN)
    /\ DirInit /\ dir \in Starts("dir", DirStarts) /\ style \in Starts("dir", {"whole", "offset"})

PartsNext ==
    /\ UNCHANGED which
    /\ \/ which = "pipe" /\ PipeNext /\ UNCHANGED <<bc, tbl, hashed, ol, su, lkvars, slabvars, dirvars, modvars>>
       \/ which = "locks" /\ LocksNext /\ LocksBounded /\ UNCHANGED <<pwvars, slabvars, dirvars, modvars>>
       \/ which = "buf" /\ BufNext /\ UNCHANGED <<pw, tbl, hashed, ol, su, lkvars, slabvars, dirvars, modvars>>
       \/ which = "table" /\ TableNext /\ UNCHANGED <<pw, bc, ol, su, lkvars, slabvars, dirvars, modvars>>
       \/ which = "slab" /\ SlabNext /\ UNCHANGED <<pwvars, lkvars, dirvars, modvars>>
       \/ which = "dir" /\ DirNext /\ UNCHANGED <<pwvars, lkvars, slabvars, modvars>>
       \/ which = "opt" /\ OptNext /\ UNCHANGED <<pw, bc, tbl, hashed, su, lkvars, slabvars, dirvars, modvars>>
       \/ which = "setup" /\ SetupNext /\ UNCHANGED <<pw, bc, tbl, hashed, ol, lkvars, slabvars, dirvars, modvars>>
       \/ which = "subdir" /\ SubdirNext /\ UNCHANGED <<pwvars, lkvars, slabvars, dirvars, icvars, treevars>>
       \/ which = "iconv" /\ IconvNext /\ UNCHANGED <<pwvars, lkvars, slabvars, dirvars, sd, treevars>>
       \/ which = "tree" /\ Tree!Next /\ UNCHANGED <<pwvars, lkvars, slabvars, dirvars, sd, icvars>>

-----------------------------------------------------------------------------
(* Values.                                                                   *)

\* A copy of three bytes into four: in one piece or in two on each side, from and to
\* memory, files and pipes, with and without the retry flag; also from no or an empty
\* buffer, and to none.
Bufs(sizes) == [kind : {"mem"}, size : sizes, retry : {FALSE}]
               \cup [kind : {"seek", "stream"}, size : sizes, retry : BOOLEAN]
MCSrcVecs == {<<b>> : b \in Bufs({3})} \cup {<<b, c>> : b \in Bufs({1}), c \in Bufs({2})}
             \cup {<<>>} \cup {<<b, c>> : b \in Bufs({0}), c \in Bufs({1})}
MCDstVecs == {<<b>> : b \in Bufs({3})} \cup {<<b, c>> : b \in Bufs({2}), c \in Bufs({2})} \cup {<<>>}

\* Eight keys that collide in a table of 4, 8 and 16.
MCHashOf == <<1, 3, 5, 9, 4, 0, 13, 8>>

MCEntrySize == [e \in Entry |-> IF e = "b" THEN 2 ELSE 1]

\* No base, the root, b, a relative b; the links lead to the base and its directories, to
\* b's neighbours (one of them with more slashes), to c, and to x beside the link.
MCBases == {<<>>, <<"/">>, <<"/", "b">>, <<"/", "b", "/">>, <<"b">>}
MCSubdirPaths == {<<"/">>, <<"/", "l">>, <<"/", "d", "/", "l">>}
MCSubdirLinks ==
    {<<"/", "b">>, <<"/", "b", "/">>, <<"/", "b", "/", "d">>, <<"/", "b", "/", "d", "/", "l">>,
     <<"/", "b", "/", "d", "/", "/", "x">>, <<"/", "b", "/", "x", "/", "y">>, <<"/", "b", "b", "/", "x">>,
     <<"/", "/", "/", "b", "b">>, <<"/", "c">>, <<"x">>}

\* One operation of each kind: with a path, perhaps without, with two, with an answer.
MCOpsOf == [t \in Caller |-> IF t = "first" THEN {"flush", "rename", "readlink", "readdir"} ELSE {"getattr"}]
MCIconvNames == {<<"<", "a", ">">>, <<"<", "a">>, <<"g">>, <<"<", "!">>}
MCIconvDir == << <<"<", "a">>, <<"b">>, <<"<", "!">>, <<"<", "g", ">", "b">> >>

OwnersAndThreadsAlike == Permutations(Owner) \cup Permutations(Thread)

-----------------------------------------------------------------------------
(* What FuseTree says of the tree.                                           *)

\* No assert of the library fails and the tree locks are those of the running requests.
LocksSound == Tree!LocksSound

\* A path stays the path of its node while a request holds it.
HeldPathsCurrent == Tree!HeldPathsCurrent

\* A node lives exactly as long as the kernel, a child or a request refers to it.
CountsAccounted == Tree!CountsAccounted

\* Between requests the node of a name stands for the file of that name.
TreeMirrorsFs == Tree!TreeMirrorsFs

\* Between requests a hidden file is there only for those who have it open.
HiddenFilesOpen == Tree!HiddenFilesOpen
=============================================================================
