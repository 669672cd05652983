------------------------------- MODULE FuseDir -------------------------------
(***************************************************************************)
(* Listing a directory in pieces: fill_dir, extend_contents, readdir_fill  *)
(* and fuse_lib_readdir of src/resources/fuse-2.9.6/lib/fuse.c, between    *)
(* the file system's readdir callback and the kernel.                      *)
(*                                                                         *)
(* A file system may ignore the offset and hand over the whole directory   *)
(* at once ("whole": entries with offset 0, as caching_readdir does), or   *)
(* start at the offset it is asked for and give each entry one ("offset"). *)
(* The kernel asks for size units from an offset it has seen, takes the    *)
(* entries that are complete, and goes on from the last one's offset.      *)
(***************************************************************************)
EXTENDS Integers, Sequences, FiniteSets, FiniteSetsExt, SequencesExt

CONSTANTS
    Entry,          \* names
    EntrySize,      \* Entry -> the units fuse_add_direntry needs
    RequestSizes,   \* what the kernel asks for; an entry always fits
    MaxChanges      \* bound: changes of the directory

ASSUME DirAssumption ==
    /\ IsFiniteSet(Entry) /\ EntrySize \in [Entry -> Nat \ {0}]
    /\ RequestSizes \subseteq Nat
    /\ \A s \in RequestSizes, e \in Entry : EntrySize[e] <= s

VARIABLES
    style,          \* "whole" or "offset"
    dir,            \* the directory, a sequence of entries (external)
    dh,             \* struct fuse_dh: what was filled in
    kpos,           \* the kernel: the offset to go on from, and earlier ones
    scan,           \* what it has read since the beginning
    changes

dirvars == <<style, dir, dh, kpos, scan, changes>>

NoScan == [got |-> <<>>, of |-> <<>>, whole |-> FALSE, done |-> FALSE]

DirStarts == {d \in SetToAllKPermutations(Entry) : Len(d) + 1 = Cardinality(Entry)}
DirInit ==
    /\ style \in {"whole", "offset"}
    /\ dir \in DirStarts
    /\ dh = [contents |-> <<>>, filled |-> FALSE, ended |-> FALSE]
    /\ kpos = [at |-> 0, seen |-> {0}] /\ scan = NoScan /\ changes = 0

\* The units the first i entries of s take.
End(s, i) ==
    LET end[k \in 0..Len(s)] == IF k = 0 THEN 0 ELSE end[k - 1] + EntrySize[s[k]] IN end[i]

\* How many entries of s lie in its first n units.
Within(s, n) == Max({i \in 0..Len(s) : End(s, i) <= n})

\* The entries of s that lie in units from+1..to: what the kernel makes of such a
\* piece (a piece starts with an entry, and one that is cut off is ignored).
Piece(s, from, to) == SubSeq(s, Within(s, from) + 1, Within(s, to))

\* fill_dir called for the entries of the directory: with offset 0 all of them,
\* and the offset of an entry is where it ends.  In the other style those behind
\* the offset, until one does not fit in what the kernel asked for.
FilledWhole == [contents |-> dir, filled |-> TRUE, ended |-> FALSE]

FilledFrom(off, size) ==
    [contents |-> Piece(dir, End(dir, off), End(dir, off) + size), filled |-> off >= Len(dir),
     ended |-> off >= Len(dir)]

\* Mutant: the contents of an earlier listing are kept at offset 0.
M_NeedsFill(off) == ~dh.filled

\* fuse_lib_readdir fills in the contents at offset 0 (rewinddir) and when they
\* are not all there.
NeedsFill(off) == off = 0 \/ ~dh.filled

\* What the kernel gets: entries of the directory or of the filled contents, and
\* the offset behind the last one.
Answer(d, off, size) ==
    LET part == Piece(d.contents, off, off + size)
    IN  CASE d.filled ->
               [got |-> part,
                at |-> IF part = <<>> THEN off ELSE End(d.contents, Within(d.contents, off + size))]
          [] ~d.filled -> [got |-> d.contents, at |-> off + Len(d.contents)]

\* The contents an answer is made from.
Contents(off, size) ==
    IF ~NeedsFill(off) THEN dh ELSE IF style = "whole" THEN FilledWhole ELSE FilledFrom(off, size)

\* fuse_lib_readdir, with the kernel's reading of the answer.
fuse_lib_readdir(off, size) ==
    LET d == Contents(off, size)
        a == Answer(d, off, size)
        s0 == IF off = 0 THEN [got |-> <<>>, of |-> dir, whole |-> TRUE, done |-> FALSE] ELSE scan
        inOrder == off = 0 \/ off = kpos.at
    IN  /\ dh' = d
        /\ kpos' = [at |-> a.at, seen |-> (IF off = 0 THEN {0} ELSE kpos.seen) \cup {a.at}]
        /\ scan' = IF s0.whole /\ inOrder THEN [s0 EXCEPT !.got = @ \o a.got, !.done = a.got = <<>>]
                   ELSE [NoScan EXCEPT !.of = s0.of]
        /\ UNCHANGED <<style, dir, changes>>

\* The callback returns an error after some entries, or memory runs out: the
\* contents are not valid, the error is the answer, and the caller gives up.
ReaddirFails(off) ==
    /\ NeedsFill(off)
    /\ \E n \in 0..Len(dir) : dh' = [contents |-> SubSeq(dir, 1, n), filled |-> FALSE, ended |-> FALSE]
    /\ kpos' = [at |-> 0, seen |-> {0}]
    /\ scan' = NoScan
    /\ UNCHANGED <<style, dir, changes>>

\* The directory changes (external).  A position of the "offset" style stays
\* valid only while entries are added behind it.
ChangeDir(d) ==
    /\ changes < MaxChanges /\ d # dir
    /\ style = "offset" => IsPrefix(dir, d)
    /\ dir' = d /\ changes' = changes + 1
    /\ scan' = IF style = "whole" THEN scan ELSE NoScan
    /\ UNCHANGED <<style, dh, kpos>>

DirNext ==
    \/ \E size \in RequestSizes : \E off \in kpos.seen : fuse_lib_readdir(off, size)
    \/ \E off \in kpos.seen : ReaddirFails(off)
    \/ \E d \in SetToAllKPermutations(Entry) : ChangeDir(d)

DirSpec == DirInit /\ [][DirNext]_dirvars

-----------------------------------------------------------------------------

\* A listing that is read from its beginning to its end in pieces of any size is
\* the directory: each entry once, in order.  For a file system that hands over
\* the whole directory this is the one at the time of the first piece, whatever
\* happened to it since.
ListingInPieces == scan.whole /\ scan.done => scan.got = scan.of

\* got is what follows the first i entries of the listing: as many as fit in size.
Follow(listing, i, size, got) ==
    \E j \in i..Len(listing) :
       /\ got = SubSeq(listing, i + 1, j)
       /\ End(listing, j) <= End(listing, i) + size
       /\ j < Len(listing) => End(listing, j + 1) > End(listing, i) + size

\* Going back to an earlier position (seekdir) leads to the entries that follow
\* it, unless the end of a listing by offsets has been read: dh->filled then stays
\* set on empty contents, and every position but 0 reads as the end.
SeekFindsRest ==
    ~dh.ended => \A off \in kpos.seen \ {0}, size \in RequestSizes :
       LET listing == IF style = "whole" THEN scan.of ELSE dir
       IN  \E i \in 0..Len(listing) :
              /\ off = IF style = "whole" THEN End(listing, i) ELSE i
              /\ Follow(listing, i, size, Answer(Contents(off, size), off, size).got)

\* Reading a directory in pieces, with seeks and rewinds, gives what the callback gave.
ListingRight == ListingInPieces /\ SeekFindsRest
=============================================================================
