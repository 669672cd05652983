---------------------- MODULE CachingFileSystemProofs ----------------------
(***************************************************************************)
(* Proofs about the handlers around the cache, for every tree of files and *)
(* directories: however things are renamed, the log keeps its name and is  *)
(* never opened, descriptors are closed when FUSE releases them, and the   *)
(* paths in the cache are those the files have now.                        *)
(***************************************************************************)
EXTENDS CachingFileSystem, CachingReadProofs

InTree(x) == \E p \in DOMAIN tree : tree[p] = x

\* The tree is one: every path leads through directories, files and directories are where
\* the bounds allow them, and nothing has two names.
TreeInv ==
    /\ IsTree(tree) /\ WithinBounds(tree) /\ tree[<<>>] \in Directory
    /\ \A p \in DOMAIN tree : tree[p] \in File \cup Directory \cup {LogFile}
    /\ \A p, q \in DOMAIN tree : tree[p] = tree[q] => p = q

\* A file FUSE holds a descriptor of has a name.
HeldInv == \A fd \in held : fds[fd] \in File /\ InTree(fds[fd])

\* While a file is read it keeps the name the handler was called with.
ReadingInv == pc = "loop" => InTree(call.file) /\ call.path = PathOf(call.file)

\* The inductive invariant.
CFSIInv ==
    /\ HandlerInv /\ CFSTypeOK /\ TreeInv /\ LogHidden /\ HeldInv /\ DescriptorsReleased
    /\ ReadingInv

-----------------------------------------------------------------------------
(***************************************************************************)
(* Paths.                                                                  *)
(***************************************************************************)
\* The first n names of a path.
LEMMA SubPath ==
    ASSUME NEW s \in Seq(STRING), NEW n \in 0 .. Len(s)
    PROVE  /\ SubSeq(s, 1, n) \in Seq(STRING) /\ Len(SubSeq(s, 1, n)) = n
           /\ \A i \in 1 .. n : SubSeq(s, 1, n)[i] = s[i]
  <1>1. Len(s) \in Nat /\ n \in Nat /\ \A i \in 1 .. n : s[i] \in STRING
    BY LenProperties, ElementOfSeq
  <1>2. /\ SubSeq(s, 1, n) \in Seq(STRING)
        /\ Len(SubSeq(s, 1, n)) = IF 1 <= n THEN n - 1 + 1 ELSE 0
        /\ \A i \in 1 .. n - 1 + 1 : SubSeq(s, 1, n)[i] = s[1 + i - 1]
    BY <1>1, SubSeqProperties
  <1> QED
    BY <1>1, <1>2

\* A path is a prefix of another one if the other begins with its names.
LEMMA PrefixByNames ==
    ASSUME NEW p \in Seq(STRING), NEW s \in Seq(STRING)
    PROVE  IsPathPrefix(p, s) <=> Len(p) <= Len(s) /\ \A i \in 1 .. Len(p) : s[i] = p[i]
  <1>1. Len(p) \in Nat /\ Len(s) \in Nat
    BY LenProperties
  <1> SUFFICES ASSUME Len(p) <= Len(s)
               PROVE  SubSeq(s, 1, Len(p)) = p <=> \A i \in 1 .. Len(p) : s[i] = p[i]
    BY DEF IsPathPrefix
  <1>2. /\ SubSeq(s, 1, Len(p)) \in Seq(STRING) /\ Len(SubSeq(s, 1, Len(p))) = Len(p)
        /\ \A i \in 1 .. Len(p) : SubSeq(s, 1, Len(p))[i] = s[i]
    BY <1>1, SubPath
  <1>3. ASSUME \A i \in 1 .. Len(p) : s[i] = p[i] PROVE SubSeq(s, 1, Len(p)) = p
    BY <1>2, <1>3, SeqEqual
  <1> QED
    BY <1>2, <1>3

\* It is a prefix of what lies below it, and that is moved from below p to below q.
LEMMA PrefixOfConcat ==
    ASSUME NEW p \in Seq(STRING), NEW q \in Seq(STRING), NEW t \in Seq(STRING)
    PROVE  IsPathPrefix(p, p \o t) /\ ReplacePrefix(p \o t, p, q) = q \o t
  <1>1. /\ p \o t \in Seq(STRING) /\ Len(p \o t) = Len(p) + Len(t)
        /\ Len(p) \in Nat /\ Len(t) \in Nat
        /\ \A i \in 1 .. Len(p) + Len(t) :
              (p \o t)[i] = IF i <= Len(p) THEN p[i] ELSE t[i - Len(p)]
    BY ConcatProperties, LenProperties
  <1> DEFINE s == p \o t
             u == SubSeq(s, Len(p) + 1, Len(s))
  <1>2. IsPathPrefix(p, s)
    <2>1. s \in Seq(STRING) /\ Len(p) <= Len(s) /\ \A i \in 1 .. Len(p) : s[i] = p[i]
      BY <1>1
    <2> HIDE DEF s
    <2> QED
      BY <2>1, PrefixByNames
  <1>3. u = t
    <2>1. \A i \in Len(p) + 1 .. Len(s) : s[i] \in STRING
      BY <1>1, ElementOfSeq
    <2>2. /\ u \in Seq(STRING)
          /\ Len(u) = IF Len(p) + 1 <= Len(s) THEN Len(s) - (Len(p) + 1) + 1 ELSE 0
          /\ \A i \in 1 .. Len(s) - (Len(p) + 1) + 1 : u[i] = s[Len(p) + 1 + i - 1]
      BY <1>1, <2>1, SubSeqProperties
    <2>3. Len(u) = Len(t) /\ \A i \in 1 .. Len(t) : u[i] = t[i]
      BY <1>1, <2>2
    <2> QED
      BY <2>2, <2>3, SeqEqual
  <1> QED
    BY <1>2, <1>3 DEF ReplacePrefix

\* What has a prefix p is p and something below it.
LEMMA PrefixSplit ==
    ASSUME NEW p \in Seq(STRING), NEW s \in Seq(STRING), IsPathPrefix(p, s)
    PROVE  \E t \in Seq(STRING) : s = p \o t
  <1>1. Len(p) \in Nat /\ Len(s) \in Nat /\ Len(p) <= Len(s) /\ SubSeq(s, 1, Len(p)) = p
    BY LenProperties DEF IsPathPrefix
  <1> DEFINE t == SubSeq(s, Len(p) + 1, Len(s))
  <1>2. t \in Seq(STRING)
    <2>1. \A i \in Len(p) + 1 .. Len(s) : s[i] \in STRING
      BY <1>1, ElementOfSeq
    <2> QED
      BY <1>1, <2>1, SubSeqProperties
  <1>3. SubSeq(s, 1, Len(p)) \o t = SubSeq(s, 1, Len(s))
    <2>1. 1 \in 1 .. Len(s) + 1 /\ Len(p) \in 1 - 1 .. Len(s) /\ Len(s) \in Len(p) .. Len(s)
      BY <1>1
    <2> QED
      BY <2>1, ConcatAdjacentSubSeq
  <1> QED
    BY <1>1, <1>2, <1>3, SubSeqFull

\* The first names of q \o t are those of q, and then those of t.
LEMMA SubPathOfConcat ==
    ASSUME NEW q \in Seq(STRING), NEW t \in Seq(STRING), NEW n \in 0 .. Len(q \o t)
    PROVE  /\ n <= Len(q) => SubSeq(q \o t, 1, n) = SubSeq(q, 1, n)
           /\ n >= Len(q) => /\ n - Len(q) \in 0 .. Len(t)
                             /\ SubSeq(q \o t, 1, n) = q \o SubSeq(t, 1, n - Len(q))
  <1>1. /\ q \o t \in Seq(STRING) /\ Len(q \o t) = Len(q) + Len(t)
        /\ Len(q) \in Nat /\ Len(t) \in Nat /\ n \in Nat
        /\ \A i \in 1 .. Len(q) + Len(t) :
              (q \o t)[i] = IF i <= Len(q) THEN q[i] ELSE t[i - Len(q)]
    BY ConcatProperties, LenProperties
  <1> DEFINE u == SubSeq(q \o t, 1, n)
  <1>2. u \in Seq(STRING) /\ Len(u) = n /\ \A i \in 1 .. n : u[i] = (q \o t)[i]
    BY <1>1, SubPath
  <1> HIDE DEF u
  <1>3. ASSUME n <= Len(q) PROVE u = SubSeq(q, 1, n)
    <2>1. /\ SubSeq(q, 1, n) \in Seq(STRING) /\ Len(SubSeq(q, 1, n)) = n
          /\ \A i \in 1 .. n : SubSeq(q, 1, n)[i] = q[i]
      BY <1>1, <1>3, SubPath
    <2>2. \A i \in 1 .. n : u[i] = SubSeq(q, 1, n)[i]
      BY <1>1, <1>2, <1>3, <2>1
    <2> QED
      BY <1>2, <2>1, <2>2, SeqEqual
  <1>4. ASSUME n >= Len(q)
        PROVE  n - Len(q) \in 0 .. Len(t) /\ u = q \o SubSeq(t, 1, n - Len(q))
    <2> DEFINE m == n - Len(q)
               v == SubSeq(t, 1, m)
    <2>1. m \in 0 .. Len(t)
      BY <1>1, <1>4
    <2>2. v \in Seq(STRING) /\ Len(v) = m /\ \A i \in 1 .. m : v[i] = t[i]
      BY <2>1, SubPath
    <2> HIDE DEF v
    <2>3. /\ q \o v \in Seq(STRING) /\ Len(q \o v) = Len(q) + Len(v)
          /\ \A i \in 1 .. Len(q) + Len(v) :
                (q \o v)[i] = IF i <= Len(q) THEN q[i] ELSE v[i - Len(q)]
      BY <2>2, ConcatProperties
    <2>4. Len(q \o v) = n
      BY <1>1, <2>1, <2>2, <2>3
    <2>5. ASSUME NEW i \in 1 .. n PROVE u[i] = (q \o v)[i]
      <3>1. CASE i <= Len(q)
        BY <1>1, <1>2, <1>4, <2>2, <2>3, <2>4, <3>1
      <3>2. CASE i > Len(q)
        <4>1. i - Len(q) \in 1 .. m /\ i \in 1 .. Len(q) + Len(t) /\ i \in 1 .. Len(q) + Len(v)
          BY <1>1, <1>4, <2>1, <2>2, <3>2
        <4>2. u[i] = t[i - Len(q)] /\ (q \o v)[i] = v[i - Len(q)]
          BY <1>1, <1>2, <2>3, <3>2, <4>1
        <4> QED
          BY <2>2, <4>1, <4>2
      <3>3. i <= Len(q) \/ i > Len(q)
        BY <1>1
      <3> QED
        BY <3>1, <3>2, <3>3
    <2>6. u = q \o v
      BY <1>2, <2>3, <2>4, <2>5, SeqEqual
    <2> QED
      BY <2>1, <2>6 DEF v
  <1> QED
    BY <1>3, <1>4 DEF u

-----------------------------------------------------------------------------
(***************************************************************************)
(* rename(2) on the tree.                                                  *)
(***************************************************************************)
\* The paths of a tree.
LEMMA TreePaths ==
    ASSUME TreeInv
    PROVE  /\ \A r \in DOMAIN tree : r \in Seq(STRING) /\ Len(r) \in Nat
           /\ \A r \in DOMAIN tree : r # <<>> => r \in Path \cup Dir
           /\ <<>> \in DOMAIN tree
           /\ \A r \in Path \cup Dir : r \in Seq(STRING) /\ Len(r) \in Nat \ {0} /\ r # <<>>
  <1>1. /\ <<>> \in DOMAIN tree
        /\ \A r \in DOMAIN tree : r # <<>> => r \in Path \cup Dir
    BY DEF TreeInv, IsTree, WithinBounds
  <1>2. \A r \in Path \cup Dir : r \in Seq(STRING) /\ Len(r) \in Nat \ {0} /\ r # <<>>
    <2>1. \A r \in Path \cup Dir : r \in Seq(STRING) /\ r # <<>>
      BY TreeAssumption
    <2> QED
      BY <2>1, EmptySeq
  <1>3. <<>> \in Seq(STRING) /\ Len(<<>>) = 0
    BY EmptySeq
  <1>4. ASSUME NEW r \in DOMAIN tree PROVE r \in Seq(STRING) /\ Len(r) \in Nat
    <2>1. CASE r = <<>>
      BY <2>1, <1>3
    <2>2. CASE r # <<>>
      BY <2>2, <1>1, <1>2
    <2> QED
      BY <2>1, <2>2
  <1> QED
    BY <1>1, <1>2, <1>4

\* Nothing is below what a rename replaces, or below a name that is not there.
LEMMA NothingBelow ==
    ASSUME TreeInv, NEW p \in DOMAIN tree, NEW q \in Seq(STRING), CanRename(p, q),
           NEW r \in DOMAIN tree, IsPathPrefix(q, r)
    PROVE  r = q
  <1>1. r \in Seq(STRING) /\ Len(r) \in Nat /\ Len(q) \in Nat /\ Len(q) <= Len(r)
    BY TreePaths, LenProperties DEF IsPathPrefix
  <1>2. CASE Len(q) = Len(r)
    BY <1>1, <1>2, SubSeqFull DEF IsPathPrefix
  <1>3. CASE Len(q) # Len(r)
    <2>1. Len(q) \in 0 .. Len(r) - 1 /\ Len(q) + 1 \in 1 .. Len(r) /\ Len(q) + 1 \in 0 .. Len(r)
      BY <1>1, <1>3
    <2>2. q \in DOMAIN tree
      <3>1. SubSeq(r, 1, Len(q)) = q
        BY DEF IsPathPrefix
      <3>2. SubSeq(r, 1, Len(q)) \in DOMAIN tree
        BY <2>1 DEF TreeInv, IsTree
      <3> QED
        BY <3>1, <3>2
    <2> DEFINE c == SubSeq(r, 1, Len(q) + 1)
    <2>3. c \in DOMAIN tree
      <3>1. CASE Len(q) + 1 = Len(r)
        BY <1>1, <3>1, SubSeqFull
      <3>2. CASE Len(q) + 1 # Len(r)
        <4>1. Len(q) + 1 \in 0 .. Len(r) - 1
          BY <1>1, <2>1, <3>2
        <4> QED
          BY <4>1 DEF TreeInv, IsTree
      <3> QED
        BY <3>1, <3>2
    <2>4. /\ c \in Seq(STRING) /\ Len(c) = Len(q) + 1
          /\ \A i \in 1 .. Len(q) + 1 : c[i] = r[i]
      BY <1>1, <2>1, SubPath
    <2> HIDE DEF c
    <2>5. IsPathPrefix(q, c)
      <3>1. \A i \in 1 .. Len(q) : r[i] = q[i]
        BY <1>1, PrefixByNames
      <3>2. Len(q) <= Len(c) /\ \A i \in 1 .. Len(q) : c[i] = q[i]
        BY <1>1, <2>4, <3>1
      <3> QED
        BY <2>4, <3>2, PrefixByNames
    <2>6. Parent(c) = q
      <3>1. Len(c) - 1 = Len(q)
        BY <1>1, <2>4
      <3> QED
        BY <2>5, <3>1 DEF Parent, IsPathPrefix
    <2>7. c # <<>>
      BY <1>1, <2>4, EmptySeq
    <2> QED
      BY <2>2, <2>3, <2>6, <2>7 DEF CanRename, Children
  <1> QED
    BY <1>2, <1>3

\* A rename gives every path but the replaced one a name of its own, and what it led to is
\* found there.
LEMMA RenamedTreePaths ==
    ASSUME TreeInv, NEW p \in DOMAIN tree, NEW q \in Seq(STRING), CanRename(p, q)
    PROVE  /\ DOMAIN RenamedTree(p, q) = {ReplacePrefix(s, p, q) : s \in DOMAIN tree \ {q}}
           /\ \A s \in DOMAIN tree \ {q} :
                 RenamedTree(p, q)[ReplacePrefix(s, p, q)] = tree[s]
           /\ \A s, t \in DOMAIN tree \ {q} :
                 ReplacePrefix(s, p, q) = ReplacePrefix(t, p, q) => s = t
  <1> DEFINE D == DOMAIN tree
             move(s) == ReplacePrefix(s, p, q)
             moved == {r \in D : IsPathPrefix(p, r)}
             kept == D \ (moved \cup {q})
             from(r) == CHOOSE s \in moved : move(s) = r
             R == RenamedTree(p, q)
  <1>1. R = [r \in kept \cup {move(s) : s \in moved} |->
                IF r \in kept THEN tree[r] ELSE tree[from(r)]]
    BY DEF RenamedTree
  <1>2. p \in Seq(STRING) /\ \A r \in D : r \in Seq(STRING)
    BY TreePaths
  <1>3. ASSUME NEW s \in moved, NEW t \in moved, move(s) = move(t) PROVE s = t
    <2>1. PICK u \in Seq(STRING) : s = p \o u
      BY <1>2, PrefixSplit
    <2>2. PICK v \in Seq(STRING) : t = p \o v
      BY <1>2, PrefixSplit
    <2>3. q \o u = q \o v
      <3>1. move(p \o u) = q \o u /\ move(p \o v) = q \o v
        BY <1>2, PrefixOfConcat, ZenonT(30)
      <3> HIDE DEF move
      <3> QED
        BY <1>3, <2>1, <2>2, <3>1
    <2>4. u = v
      <3>1. \A a, b, d \in Seq(STRING) : a \o b = a \o d => b = d
        BY ConcatSimplifications
      <3> QED
        BY <2>3, <3>1
    <2> QED
      BY <2>1, <2>2, <2>4
  <1>4. ASSUME NEW s \in moved PROVE move(s) \notin kept
    <2>1. PICK u \in Seq(STRING) : s = p \o u
      BY <1>2, PrefixSplit
    <2>2. move(s) = q \o u /\ IsPathPrefix(q, move(s))
      BY <1>2, <2>1, PrefixOfConcat, ZenonT(30)
    <2>3. move(s) \in D => move(s) = q
      BY <2>2, NothingBelow
    <2> QED
      BY <2>3
  <1>5. \A s \in kept : move(s) = s
    BY DEF ReplacePrefix
  <1>6. q \notin moved
    BY DEF CanRename
  <1>7. D \ {q} = kept \cup moved
    BY <1>6
  <1>8. \A s \in moved : from(move(s)) = s
    BY <1>3
  <1>9. \A s \in kept : R[move(s)] = tree[s]
    BY <1>1, <1>5
  <1>10. \A s \in moved : R[move(s)] = tree[s]
    <2> SUFFICES ASSUME NEW s \in moved PROVE R[move(s)] = tree[s]
      OBVIOUS
    <2>1. move(s) \in {move(x) : x \in moved} /\ move(s) \notin kept /\ from(move(s)) = s
      BY <1>4, <1>8
    <2> HIDE DEF R, kept, moved, from, move
    <2> QED
      BY <1>1, <2>1
  <1>11. DOMAIN R = {move(s) : s \in D \ {q}}
    <2>1. DOMAIN R = kept \cup {move(s) : s \in moved}
      BY <1>1
    <2> HIDE DEF R, kept, moved, from, move, D
    <2> QED
      BY <1>5, <1>7, <2>1
  <1>12. ASSUME NEW s \in D \ {q}, NEW t \in D \ {q}, move(s) = move(t) PROVE s = t
    <2> HIDE DEF R, kept, moved, from, move, D
    <2> QED
      BY <1>3, <1>4, <1>5, <1>7, <1>12
  <1> QED
    BY <1>7, <1>9, <1>10, <1>11, <1>12

\* Nothing has two names.
LEMMA PathOfName ==
    /\ TreeInv => \A r \in DOMAIN tree : PathOf(tree[r]) = r
    /\ TreeInv' => \A x : \A r \in DOMAIN tree' : tree'[r] = x => PathOf(x)' = r
  BY DEF TreeInv, PathOf

\* The log is in the root directory, so it is moved by no rename but its own.
LEMMA OnlyItsOwnRenameMovesTheLog ==
    ASSUME TreeInv, NEW p \in Path \cup Dir, p # LogPath
    PROVE  ~IsPathPrefix(p, LogPath)
  <1>1. /\ LogPath \in Seq(STRING) /\ Len(LogPath) \in Nat \ {0}
        /\ p \in Seq(STRING) /\ Len(p) \in Nat \ {0}
    BY TreePaths, FilesAssumption
  <1>2. Len(LogPath) = 1
    <2>1. SubSeq(LogPath, 1, Len(LogPath) - 1) = <<>>
      BY TreeAssumption DEF Parent
    <2>2. Len(SubSeq(LogPath, 1, Len(LogPath) - 1)) = Len(LogPath) - 1
      <3>1. Len(LogPath) - 1 \in 0 .. Len(LogPath)
        BY <1>1
      <3> QED
        BY <1>1, <3>1, SubPath
    <2>3. Len(<<>>) = 0
      BY EmptySeq
    <2>4. Len(LogPath) - 1 = 0
      BY <2>1, <2>2, <2>3, Zenon
    <2> QED
      BY <1>1, <2>4
  <1> SUFFICES ASSUME IsPathPrefix(p, LogPath) PROVE p = LogPath
    OBVIOUS
  <1>3. Len(p) = Len(LogPath)
    BY <1>1, <1>2 DEF IsPathPrefix
  <1> QED
    BY <1>1, <1>3, SubSeqFull DEF IsPathPrefix

\* After a rename every path still leads through directories.
LEMMA RenamedTreeIsTree ==
    ASSUME TreeInv, NEW p \in DOMAIN tree, NEW q \in Seq(STRING), q # <<>>, CanRename(p, q)
    PROVE  IsTree(RenamedTree(p, q)) /\ RenamedTree(p, q)[<<>>] = tree[<<>>]
  <1> DEFINE D == DOMAIN tree
             move(s) == ReplacePrefix(s, p, q)
             R == RenamedTree(p, q)
  <1>1. /\ DOMAIN R = {move(s) : s \in D \ {q}}
        /\ \A s \in D \ {q} : R[move(s)] = tree[s]
    BY RenamedTreePaths
  <1> HIDE DEF R
  <1>2. /\ \A r \in D : r \in Seq(STRING) /\ Len(r) \in Nat
        /\ p \in Seq(STRING) /\ Len(p) \in Nat /\ Len(q) \in Nat
    BY TreePaths, LenProperties
  \* A directory that is neither q nor below p is left where it is.
  <1>3. ASSUME NEW u \in D, tree[u] \in Directory, u # q, ~IsPathPrefix(p, u)
        PROVE  u \in DOMAIN R /\ R[u] \in Directory
    <2>1. move(u) = u
      BY <1>3 DEF ReplacePrefix
    <2> QED
      BY <1>1, <1>3, <2>1
  <1>4. <<>> \in DOMAIN R /\ R[<<>>] = tree[<<>>]
    <2>1. <<>> \in D \ {q} /\ Len(<<>>) = 0
      BY TreePaths, EmptySeq
    <2>2. ~IsPathPrefix(p, <<>>)
      <3>1. Len(p) \in Nat \ {0}
        BY <1>2, EmptySeq DEF CanRename
      <3> QED
        BY <2>1, <3>1 DEF IsPathPrefix
    <2>3. move(<<>>) = <<>>
      BY <2>2 DEF ReplacePrefix
    <2> QED
      BY <1>1, <2>1, <2>3
  <1>5. ASSUME NEW s \in D \ {q}, NEW n \in 0 .. Len(move(s)) - 1
        PROVE  LET u == SubSeq(move(s), 1, n) IN u \in DOMAIN R /\ R[u] \in Directory
    <2> DEFINE u == SubSeq(move(s), 1, n)
    <2>1. CASE ~IsPathPrefix(p, s)
      <3>1. move(s) = s
        BY <2>1 DEF ReplacePrefix
      <3>2. u \in D /\ tree[u] \in Directory
        BY <3>1 DEF TreeInv, IsTree
      <3>3. n \in 0 .. Len(s)
        BY <1>2, <3>1
      <3>4. /\ u \in Seq(STRING) /\ Len(u) = n /\ \A i \in 1 .. n : u[i] = s[i]
        BY <1>2, <3>1, <3>3, SubPath
      <3> HIDE DEF u
      <3>5. u # q
        <4>1. IsPathPrefix(u, s)
          <5>1. s \in Seq(STRING) /\ Len(s) \in Nat
            BY <1>2
          <5>2. Len(u) <= Len(s)
            BY <3>3, <3>4, <5>1
          <5>3. \A i \in 1 .. Len(u) : s[i] = u[i]
            BY <3>4
          <5> QED
            BY <3>4, <5>1, <5>2, <5>3, PrefixByNames
        <4> QED
          BY <4>1, NothingBelow
      <3>6. ~IsPathPrefix(p, u)
        <4> SUFFICES ASSUME IsPathPrefix(p, u) PROVE IsPathPrefix(p, s)
          BY <2>1
        <4>1. Len(p) <= n /\ \A i \in 1 .. Len(p) : u[i] = p[i]
          BY <1>2, <3>4, PrefixByNames
        <4>2. Len(p) <= Len(s) /\ \A i \in 1 .. Len(p) : s[i] = p[i]
          BY <1>2, <3>3, <3>4, <4>1
        <4> QED
          BY <1>2, <4>2, PrefixByNames
      <3> QED
        BY <1>3, <3>2, <3>5, <3>6 DEF u
    <2>2. CASE IsPathPrefix(p, s)
      <3>1. PICK t \in Seq(STRING) : s = p \o t
        BY <1>2, <2>2, PrefixSplit
      <3>2. move(s) = q \o t
        BY <1>2, <3>1, PrefixOfConcat
      <3>3. /\ Len(q \o t) = Len(q) + Len(t) /\ Len(s) = Len(p) + Len(t) /\ Len(t) \in Nat
            /\ n \in Nat /\ n < Len(q) + Len(t) /\ n \in 0 .. Len(q \o t)
        <4>1. Len(q \o t) = Len(q) + Len(t) /\ Len(s) = Len(p) + Len(t) /\ Len(t) \in Nat
          BY <1>2, <3>1, ConcatProperties, LenProperties
        <4> HIDE DEF move
        <4> QED
          BY <1>2, <3>2, <4>1
      <3>4. CASE n < Len(q)
        <4>1. u = SubSeq(q, 1, n)
          BY <1>2, <3>2, <3>3, <3>4, SubPathOfConcat
        <4> DEFINE d == Parent(q)
        <4>2. d \in D /\ tree[d] \in Directory
          BY DEF CanRename
        <4>3. n \in 0 .. Len(q) /\ Len(q) - 1 \in 0 .. Len(q)
          BY <1>2, <3>3, <3>4
        <4>4. /\ d \in Seq(STRING) /\ Len(d) = Len(q) - 1
              /\ \A i \in 1 .. Len(q) - 1 : d[i] = q[i]
          BY <4>3, SubPath DEF Parent
        <4>5. u \in Seq(STRING) /\ Len(u) = n /\ \A i \in 1 .. n : u[i] = q[i]
          BY <4>1, <4>3, SubPath
        <4> HIDE DEF u, d
        <4>6. u \in D /\ tree[u] \in Directory
          <5>1. CASE n = Len(q) - 1
            BY <4>1, <4>2, <5>1 DEF Parent, d
          <5>2. CASE n # Len(q) - 1
            <6>1. n \in 0 .. Len(d) - 1 /\ n \in 0 .. Len(d)
              BY <1>2, <3>3, <3>4, <4>4, <5>2
            <6>2. /\ SubSeq(d, 1, n) \in Seq(STRING) /\ Len(SubSeq(d, 1, n)) = n
                  /\ \A i \in 1 .. n : SubSeq(d, 1, n)[i] = d[i]
              BY <4>4, <6>1, SubPath
            <6>3. \A i \in 1 .. n : SubSeq(d, 1, n)[i] = u[i]
              <7>1. \A i \in 1 .. n : i \in 1 .. Len(q) - 1
                BY <1>2, <3>3, <3>4
              <7> QED
                BY <4>4, <4>5, <6>2, <7>1
            <6>4. SubSeq(d, 1, n) = u
              BY <4>5, <6>2, <6>3, SeqEqual
            <6>5. SubSeq(d, 1, n) \in D /\ tree[SubSeq(d, 1, n)] \in Directory
              BY <4>2, <6>1 DEF TreeInv, IsTree
            <6> QED
              BY <6>4, <6>5
          <5> QED
            BY <5>1, <5>2
        <4>7. u # q
          BY <1>2, <3>4, <4>5
        <4>8. ~IsPathPrefix(p, u)
          <5> SUFFICES ASSUME IsPathPrefix(p, u) PROVE IsPathPrefix(p, q)
            BY DEF CanRename
          <5>1. Len(p) <= n /\ \A i \in 1 .. Len(p) : u[i] = p[i]
            BY <1>2, <4>5, PrefixByNames
          <5>2. Len(p) <= Len(q) /\ \A i \in 1 .. Len(p) : q[i] = p[i]
            BY <1>2, <4>3, <4>5, <5>1
          <5> QED
            BY <1>2, <5>2, PrefixByNames
        <4> QED
          BY <1>3, <4>6, <4>7, <4>8 DEF u
      <3>5. CASE n >= Len(q)
        <4> DEFINE m == n - Len(q)
                   v == SubSeq(t, 1, m)
                   w == p \o v
        <4>1. m \in 0 .. Len(t) /\ u = q \o v
          BY <1>2, <3>2, <3>3, <3>5, SubPathOfConcat, SMTT(30)
        <4>2. v \in Seq(STRING)
          BY <4>1, SubPath
        <4>3. move(w) = u /\ IsPathPrefix(p, w)
          BY <1>2, <4>1, <4>2, PrefixOfConcat, ZenonT(30)
        <4>4. w \in D /\ tree[w] \in Directory
          <5> DEFINE k == Len(p) + m
          <5>1. k \in 0 .. Len(s) - 1 /\ k \in 0 .. Len(s) /\ k >= Len(p) /\ k - Len(p) = m
            BY <1>2, <3>3, <3>5
          <5>2. SubSeq(p \o t, 1, k) = p \o SubSeq(t, 1, k - Len(p))
            BY <1>2, <3>1, <5>1, SubPathOfConcat
          <5>3. SubSeq(s, 1, k) = w
            BY <3>1, <5>1, <5>2
          <5>4. SubSeq(s, 1, k) \in D /\ tree[SubSeq(s, 1, k)] \in Directory
            BY <5>1 DEF TreeInv, IsTree
          <5> QED
            BY <5>3, <5>4
        <4>5. w # q
          BY <4>3 DEF CanRename
        <4> HIDE DEF w, u, move
        <4> QED
          BY <1>1, <4>3, <4>4, <4>5 DEF u
      <3> QED
        BY <1>2, <3>3, <3>4, <3>5
    <2> QED
      BY <2>1, <2>2
  <1>6. ASSUME NEW r \in DOMAIN R, NEW n \in 0 .. Len(r) - 1
        PROVE  SubSeq(r, 1, n) \in DOMAIN R /\ R[SubSeq(r, 1, n)] \in Directory
    <2>1. PICK s \in D \ {q} : r = move(s)
      BY <1>1
    <2> HIDE DEF move
    <2> QED
      BY <1>5, <2>1
  <1> QED
    BY <1>4, <1>6 DEF IsTree, R

\* What a rename that succeeds does to the tree: everything but what it replaces keeps
\* its identity and gets its new name, and the log stays where it is.
LEMMA RenameKeepsTree ==
    ASSUME TreeInv, LogHidden, NEW p \in Path \cup Dir, p \in DOMAIN tree, p # LogPath,
           NEW q \in Path \cup Dir, CanRename(p, q), WithinBounds(RenamedTree(p, q)),
           tree' = RenamedTree(p, q)
    PROVE  /\ TreeInv'
           /\ \A r \in DOMAIN tree' : tree'[r] = LogFile => r = LogPath
           /\ LogInPlace' => LogInPlace
           /\ \A x : InTree(x)' => InTree(x) /\ PathOf(x)' = ReplacePrefix(PathOf(x), p, q)
           /\ \A x : InTree(x) /\ (q \in DOMAIN tree => tree[q] # x) => InTree(x)'
  <1> DEFINE D == DOMAIN tree
             move(s) == ReplacePrefix(s, p, q)
  <1>1. q \in Seq(STRING) /\ q # <<>>
    BY TreePaths
  <1>2. /\ DOMAIN tree' = {move(s) : s \in D \ {q}}
        /\ \A s \in D \ {q} : tree'[move(s)] = tree[s]
        /\ \A s, t \in D \ {q} : move(s) = move(t) => s = t
    BY <1>1, RenamedTreePaths
  <1>3. IsTree(tree') /\ tree'[<<>>] \in Directory
    BY <1>1, RenamedTreeIsTree DEF TreeInv
  <1>4. ~IsPathPrefix(p, LogPath)
    BY OnlyItsOwnRenameMovesTheLog
  <1>5. move(LogPath) = LogPath
    BY <1>4 DEF ReplacePrefix
  <1> HIDE DEF move
  <1>6. /\ \A r \in DOMAIN tree' : tree'[r] \in File \cup Directory \cup {LogFile}
        /\ \A r, s \in DOMAIN tree' : tree'[r] = tree'[s] => r = s
    BY <1>2 DEF TreeInv
  <1>7. TreeInv'
    BY <1>3, <1>6 DEF TreeInv, IsTree, WithinBounds
  <1>8. \A r \in DOMAIN tree' : tree'[r] = LogFile => r = LogPath
    BY <1>2, <1>5 DEF LogHidden
  <1>9. LogInPlace' => LogInPlace
    <2> SUFFICES ASSUME LogPath \in DOMAIN tree', tree'[LogPath] = LogFile
                 PROVE  LogPath \in D /\ tree[LogPath] = LogFile
      BY DEF LogInPlace
    <2>1. PICK s \in D \ {q} : LogPath = move(s)
      BY <1>2
    <2>2. tree[s] = LogFile
      BY <1>2, <2>1
    <2> QED
      BY <2>2 DEF LogHidden
  <1>10. ASSUME NEW x, InTree(x)'
         PROVE  InTree(x) /\ PathOf(x)' = move(PathOf(x))
    <2>1. PICK r \in DOMAIN tree' : tree'[r] = x
      BY <1>10 DEF InTree
    <2>2. PICK s \in D \ {q} : r = move(s)
      BY <1>2, <2>1
    <2>3. tree[s] = x
      BY <1>2, <2>1, <2>2
    <2>4. PathOf(x) = s
      BY <2>3, PathOfName
    <2>5. PathOf(x)' = r
      BY <1>7, <2>1, PathOfName
    <2> QED
      BY <2>2, <2>3, <2>4, <2>5 DEF InTree
  <1>11. ASSUME NEW x, InTree(x), q \in DOMAIN tree => tree[q] # x
         PROVE  InTree(x)'
    <2>1. PICK s \in D : tree[s] = x
      BY <1>11 DEF InTree
    <2>2. s \in D \ {q} /\ move(s) \in DOMAIN tree' /\ tree'[move(s)] = x
      BY <1>2, <1>11, <2>1
    <2> QED
      BY <2>2 DEF InTree
  <1> QED
    BY <1>7, <1>8, <1>9, <1>10, <1>11 DEF move

-----------------------------------------------------------------------------
(***************************************************************************)
(* The handlers keep the inductive invariant.                              *)
(***************************************************************************)
\* A handler that answers at once leaves no read under way.
LEMMA ServeKeepsHandler ==
    ASSUME HandlerInv, NEW name, NEW p, NEW r, Serve(name, p, r),
           CacheInv', BlocksFromDisk', InsertNeverExits'
    PROVE  HandlerInv' /\ ReadingInv'
  BY DEF HandlerInv, Serve, Return, LoopInv, IdleInv, ReadingInv

\* A handler that changes neither the cache nor the tree nor the descriptors.
LEMMA QuietHandler ==
    ASSUME CFSIInv, NEW name, NEW p, NEW r, Serve(name, p, r),
           UNCHANGED <<cacheVars, tree, fds, held>>,
           streams' \in [Directory -> {"closed", "start", "broken", "end"}]
    PROVE  CFSIInv'
  <1>1. HandlerInv
    BY DEF CFSIInv
  <1>2. CacheInv' /\ CacheTypeOK' /\ BlocksFromDisk' /\ InsertNeverExits'
    BY <1>1, CacheUntouched
  <1>3. HandlerInv' /\ ReadingInv'
    BY <1>1, <1>2, ServeKeepsHandler
  <1>4. CFSTypeOK'
    BY <1>2 DEF CFSIInv, CFSTypeOK
  <1>5. TreeInv' /\ LogHidden' /\ HeldInv' /\ DescriptorsReleased'
    BY DEF CFSIInv, TreeInv, LogHidden, HeldInv, DescriptorsReleased, InTree, LogInPlace
  <1> QED
    BY <1>3, <1>4, <1>5 DEF CFSIInv

\* open gives FUSE a descriptor of a file that has a name and is not the log.
LEMMA OpenKeeps ==
    ASSUME CFSIInv, NEW p \in Path, NEW forWriting \in BOOLEAN, caching_open(p, forWriting)
    PROVE  CFSIInv'
  <1>1. HandlerInv /\ CFSTypeOK /\ TreeInv /\ LogHidden /\ HeldInv /\ DescriptorsReleased
    BY DEF CFSIInv
  <1>2. UNCHANGED <<cacheVars, tree, streams, output>> /\ Known(p) /\ tree[p] \notin Directory
    BY DEF caching_open
  <1>3. CASE OpenRefused(p, forWriting) /\ UNCHANGED <<fds, held>>
    <2>1. \E r : Serve("open", p, r)
      BY <1>3 DEF OpenRefused
    <2> QED
      BY <1>1, <1>2, <1>3, <2>1, QuietHandler DEF CFSTypeOK
  <1>4. CASE /\ ~refering_logfile(p) /\ Serve("open", p, 0)
             /\ \E fd \in Fd : /\ IsLowestFree(fd)
                               /\ fds' = [fds EXCEPT ![fd] = tree[p]]
                               /\ held' = held \cup {fd}
    <2>1. PICK fd \in Fd : fds' = [fds EXCEPT ![fd] = tree[p]] /\ held' = held \cup {fd}
      BY <1>4
    <2>2. CacheInv' /\ CacheTypeOK' /\ BlocksFromDisk' /\ InsertNeverExits'
      BY <1>1, <1>2, CacheUntouched
    <2>3. HandlerInv' /\ ReadingInv'
      BY <1>1, <1>4, <2>2, ServeKeepsHandler
    <2>4. p \in DOMAIN tree /\ tree[p] \in File
      <3>1. p \in DOMAIN tree /\ p # LogPath
        BY <1>2, <1>4 DEF Known, refering_logfile
      <3> QED
        BY <1>1, <1>2, <3>1 DEF TreeInv, LogHidden
    <2>5. fds \in [Fd -> File \cup {Closed, LogFile}] /\ held \subseteq Fd
      BY <1>1 DEF CFSTypeOK
    <2>6. /\ fds' \in [Fd -> File \cup {Closed, LogFile}] /\ held' \subseteq Fd
          /\ fds'[fd] = tree[p] /\ \A e \in Fd : e # fd => fds'[e] = fds[e]
      BY <2>1, <2>4, <2>5
    <2>7. CFSTypeOK'
      BY <1>1, <1>2, <2>2, <2>6 DEF CFSTypeOK
    <2>8. TreeInv'
      BY <1>1, <1>2 DEF TreeInv
    <2>9. LogHidden'
      BY <1>1, <1>2, <2>4, <2>6, TreeAssumption DEF LogHidden
    <2>10. HeldInv'
      BY <1>1, <1>2, <2>1, <2>4, <2>5, <2>6 DEF HeldInv, InTree
    <2>11. DescriptorsReleased'
      BY <1>1, <1>2, <2>1, <2>6 DEF DescriptorsReleased, LogInPlace
    <2> QED
      BY <2>3, <2>7, <2>8, <2>9, <2>10, <2>11 DEF CFSIInv
  <1> QED
    BY <1>3, <1>4 DEF caching_open

\* release closes the descriptor as long as nothing else is where the log was.
LEMMA ReleaseKeeps ==
    ASSUME CFSIInv, NEW fd \in Fd, caching_release(fd)
    PROVE  CFSIInv'
  <1>1. HandlerInv /\ CFSTypeOK /\ TreeInv /\ LogHidden /\ HeldInv /\ DescriptorsReleased
    BY DEF CFSIInv
  <1> DEFINE p == PathOf(fds[fd])
  <1>2. /\ UNCHANGED <<cacheVars, tree, streams, output>> /\ fd \in held
        /\ fds' = ClosedBy(fd, p) /\ held' = held \ {fd}
        /\ \E r : Serve("release", p, r)
    BY DEF caching_release
  <1>3. CacheInv' /\ CacheTypeOK' /\ BlocksFromDisk' /\ InsertNeverExits'
    BY <1>1, <1>2, CacheUntouched
  <1>4. HandlerInv' /\ ReadingInv'
    BY <1>1, <1>2, <1>3, ServeKeepsHandler
  <1>5. fds \in [Fd -> File \cup {Closed, LogFile}] /\ held \subseteq Fd
    BY <1>1 DEF CFSTypeOK
  <1>6. PICK r \in DOMAIN tree : tree[r] = fds[fd]
    BY <1>1, <1>2 DEF HeldInv, InTree
  <1>7. p = r
    BY <1>1, <1>6, PathOfName
  <1>8. LogInPlace => ~refering_logfile(p)
    BY <1>1, <1>2, <1>6, <1>7, TreeAssumption DEF LogInPlace, refering_logfile, HeldInv
  <1> HIDE DEF p
  <1>9. /\ fds' \in [Fd -> File \cup {Closed, LogFile}]
        /\ \A e \in Fd : e # fd => fds'[e] = fds[e]
        /\ LogInPlace => fds'[fd] = Closed
        /\ fds'[fd] \in {fds[fd], Closed}
    BY <1>2, <1>5, <1>8 DEF ClosedBy
  <1>10. CFSTypeOK'
    BY <1>1, <1>2, <1>3, <1>9 DEF CFSTypeOK
  <1>11. TreeInv'
    BY <1>1, <1>2 DEF TreeInv
  <1>12. LogHidden'
    BY <1>1, <1>2, <1>9, TreeAssumption DEF LogHidden
  <1>13. HeldInv'
    BY <1>1, <1>2, <1>5, <1>9 DEF HeldInv, InTree
  <1>14. DescriptorsReleased'
    BY <1>1, <1>2, <1>9 DEF DescriptorsReleased, LogInPlace
  <1> QED
    BY <1>4, <1>10, <1>11, <1>12, <1>13, <1>14 DEF CFSIInv

\* Changing the paths in the cache changes nothing else there.
LEMMA UpdatePathsKeepsDisk ==
    ASSUME CacheInv, BlocksFromDisk, InsertNeverExits, NEW p, NEW q, UpdatePaths(p, q)
    PROVE  CacheInv' /\ CacheTypeOK' /\ BlocksFromDisk' /\ InsertNeverExits'
  <1>1. CacheInv'
    BY UpdatePathsInv
  <1>2. InsertNeverExits'
    BY DEF UpdatePaths, InsertNeverExits
  <1>3. \A x \in BlockID : /\ Cached(x)' <=> Cached(x)
                           /\ Cached(x) => BlockOf(x)'.buff = BlockOf(x).buff
    BY UpdatePathsByID
  <1>4. BlocksFromDisk'
    <2> SUFFICES ASSUME NEW id \in BlockID, Cached(id)'
                 PROVE  \E f \in File, n \in Nat : /\ id = BlockKey(f, n)
                                                   /\ BlockOf(id)'.buff = DiskBlock(f, n)
      BY DEF BlocksFromDisk
    <2> QED
      BY <1>3 DEF BlocksFromDisk
  <1> QED
    BY <1>1, <1>2, <1>4 DEF CacheInv

\* rename keeps the invariant: what FUSE holds is not replaced.
LEMMA RenameKeeps ==
    ASSUME CFSIInv, NEW p \in Path \cup Dir, NEW q \in Path \cup Dir, caching_rename(p, q)
    PROVE  CFSIInv'
  <1>1. /\ HandlerInv /\ CFSTypeOK /\ TreeInv /\ LogHidden /\ HeldInv /\ DescriptorsReleased
        /\ CacheInv /\ BlocksFromDisk /\ InsertNeverExits
    BY DEF CFSIInv, HandlerInv
  <1>2. Known(p) /\ UNCHANGED <<fds, held, streams, output>>
    BY DEF caching_rename
  <1>3. CASE (\E r : Serve("rename", p, r)) /\ UNCHANGED <<cacheVars, tree>>
    <2>1. streams' \in [Directory -> {"closed", "start", "broken", "end"}]
      BY <1>1, <1>2 DEF CFSTypeOK
    <2> QED
      BY <1>2, <1>3, <2>1, QuietHandler
  <1>4. CASE /\ ~refering_logfile(p) /\ CanRename(p, q) /\ WithinBounds(RenamedTree(p, q))
             /\ Serve("rename", p, 0) /\ tree' = RenamedTree(p, q) /\ UpdatePaths(p, q)
    <2>1. p \in DOMAIN tree /\ p # LogPath
      BY <1>2, <1>4 DEF Known, refering_logfile
    <2>2. CacheInv' /\ CacheTypeOK' /\ BlocksFromDisk' /\ InsertNeverExits'
      BY <1>1, <1>4, UpdatePathsKeepsDisk
    <2>3. HandlerInv' /\ ReadingInv'
      BY <1>1, <1>4, <2>2, ServeKeepsHandler
    <2>4. /\ TreeInv'
          /\ \A r \in DOMAIN tree' : tree'[r] = LogFile => r = LogPath
          /\ LogInPlace' => LogInPlace
          /\ \A x : InTree(x) /\ (q \in DOMAIN tree => tree[q] # x) => InTree(x)'
      BY <1>1, <1>4, <2>1, RenameKeepsTree
    <2>5. CFSTypeOK'
      BY <1>1, <1>2, <2>2, <2>4 DEF CFSTypeOK, TreeInv, WithinBounds
    <2>6. LogHidden' /\ DescriptorsReleased'
      BY <1>1, <1>2, <2>4 DEF LogHidden, DescriptorsReleased
    <2>7. HeldInv'
      <3>1. \A fd \in held : q \in DOMAIN tree => tree[q] # fds[fd]
        BY <1>4 DEF CanRename
      <3> QED
        BY <1>1, <1>2, <2>4, <3>1 DEF HeldInv
    <2> QED
      BY <2>3, <2>4, <2>5, <2>6, <2>7 DEF CFSIInv
  <1> QED
    BY <1>3, <1>4 DEF caching_rename

\* A descriptor FUSE holds leads to a file, at a path of a file.
LEMMA HeldFile ==
    ASSUME CFSIInv, NEW fd \in held
    PROVE  /\ fds[fd] \in File /\ InTree(fds[fd])
           /\ PathOf(fds[fd]) \in Path
  <1>1. TreeInv /\ HeldInv
    BY DEF CFSIInv
  <1>2. fds[fd] \in File /\ InTree(fds[fd])
    BY <1>1 DEF HeldInv
  <1>3. PICK r \in DOMAIN tree : tree[r] = fds[fd]
    BY <1>2 DEF InTree
  <1>4. PathOf(fds[fd]) = r
    BY <1>1, <1>3, PathOfName
  <1>5. tree[r] \notin Directory
    BY <1>2, <1>3, TreeAssumption
  <1> QED
    BY <1>1, <1>2, <1>3, <1>4, <1>5 DEF TreeInv, WithinBounds

\* What does not touch the file system leaves its part of the invariant alone.
LEMMA FileSystemUntouched ==
    ASSUME CFSIInv, UNCHANGED <<tree, fds, held, streams>>, HandlerInv'
    PROVE  CFSTypeOK' /\ TreeInv' /\ LogHidden' /\ HeldInv' /\ DescriptorsReleased'
  <1>1. CacheTypeOK'
    BY DEF HandlerInv, CacheInv
  <1> QED
    BY <1>1 DEF CFSIInv, CFSTypeOK, TreeInv, LogHidden, HeldInv, DescriptorsReleased,
                InTree, LogInPlace

\* A read begins with the name the file has, and keeps it.
LEMMA ReadKeeps ==
    ASSUME CFSIInv,
           \/ \E fd \in Fd, offset \in 0 .. MaxOffset, size \in 0 .. MaxSize :
                 caching_read(fd, offset, size)
           \/ ReadStep /\ UNCHANGED fsVars
           \/ HandlerReturns
    PROVE  CFSIInv'
  <1>1. HandlerInv /\ ReadingInv
    BY DEF CFSIInv
  <1>2. ASSUME NEW fd \in Fd, NEW offset \in 0 .. MaxOffset, NEW size \in 0 .. MaxSize,
               caching_read(fd, offset, size)
        PROVE  CFSIInv'
    <2>1. /\ fd \in held /\ UNCHANGED <<tree, fds, held, streams>>
          /\ BeginRead(fds[fd], PathOf(fds[fd]), offset, size)
      BY <1>2 DEF caching_read
    <2>2. fds[fd] \in File /\ InTree(fds[fd]) /\ PathOf(fds[fd]) \in Path
      BY <2>1, HeldFile
    <2>3. offset \in -1 .. MaxOffset
      BY FilesAssumption
    <2>4. HandlerInv'
      BY <1>1, <2>1, <2>2, <2>3, BeginReadKeeps
    <2>5. ReadingInv'
      <3>1. call'.file = fds[fd] /\ call'.path = PathOf(fds[fd])
        BY <2>1 DEF BeginRead
      <3>2. InTree(call.file)' /\ PathOf(call.file)' = PathOf(fds[fd])
        BY <2>1, <2>2, <3>1 DEF InTree, PathOf
      <3> QED
        BY <3>1, <3>2 DEF ReadingInv
    <2> QED
      BY <2>1, <2>4, <2>5, FileSystemUntouched DEF CFSIInv
  <1>3. CASE ReadStep /\ UNCHANGED fsVars
    <2>1. HandlerInv' /\ call' = call /\ pc = "loop" /\ UNCHANGED <<tree, fds, held, streams>>
      <3>1. HandlerInv' /\ call' = call
        BY <1>1, <1>3, ReadStepKeeps
      <3> QED
        BY <1>3, <3>1 DEF ReadStep, CopyCachedBlock, CopyDiskBlock, PreadFails, EndRead,
                          InLoop, fsVars
    <2>2. ReadingInv'
      BY <1>1, <2>1 DEF ReadingInv, InTree, PathOf
    <2> QED
      BY <2>1, <2>2, FileSystemUntouched DEF CFSIInv
  <1>4. CASE HandlerReturns
    <2>1. Reply /\ UNCHANGED <<tree, fds, held, streams>>
      BY <1>4 DEF HandlerReturns
    <2>2. HandlerInv'
      BY <1>1, <2>1, ReplyKeeps
    <2>3. ReadingInv'
      BY <2>1 DEF Reply, ReadingInv
    <2> QED
      BY <2>1, <2>2, <2>3, FileSystemUntouched DEF CFSIInv
  <1> QED
    BY <1>2, <1>3, <1>4

\* Mounting establishes the invariant.
LEMMA CFSInitIInv == CFSInit => CFSIInv
  <1> SUFFICES ASSUME CFSInit PROVE CFSIInv
    OBVIOUS
  <1>1. HandlerInv /\ CacheTypeOK
    BY ReadInitIInv DEF CFSInit, ReadIInv, HandlerInv, CacheInv
  <1>2. TreeInv
    BY TreeAssumption DEF CFSInit, TreeInv
  <1>3. CFSTypeOK
    <2>1. DOMAIN tree \subseteq Path \cup Dir \cup {<<>>}
      BY <1>2 DEF TreeInv, WithinBounds
    <2> QED
      BY <1>1, <1>2, <2>1 DEF CFSInit, CFSTypeOK, TreeInv
  <1>4. LogHidden
    BY TreeAssumption DEF CFSInit, LogHidden
  <1>5. HeldInv /\ DescriptorsReleased
    BY DEF CFSInit, HeldInv, DescriptorsReleased
  <1>6. ReadingInv
    BY DEF CFSInit, ReadInit, ReadingInv
  <1> QED
    BY <1>1, <1>2, <1>3, <1>4, <1>5, <1>6 DEF CFSIInv

\* Every handler keeps it.
LEMMA CFSNextIInv == CFSIInv /\ [CFSNext]_cfsVars => CFSIInv'
  <1> SUFFICES ASSUME CFSIInv, [CFSNext]_cfsVars PROVE CFSIInv'
    OBVIOUS
  <1>1. streams \in [Directory -> {"closed", "start", "broken", "end"}]
    BY DEF CFSIInv, CFSTypeOK
  <1>2. ASSUME NEW p \in Path \cup Dir, caching_getattr(p) \/ caching_access(p)
        PROVE  CFSIInv'
    BY <1>1, <1>2, QuietHandler DEF caching_getattr, caching_access
  <1>3. ASSUME NEW fd \in Fd, caching_fgetattr(fd) \/ caching_flush(fd)
        PROVE  CFSIInv'
    BY <1>1, <1>3, QuietHandler DEF caching_fgetattr, caching_flush
  <1>4. CASE caching_ioctl
    BY <1>1, <1>4, QuietHandler DEF caching_ioctl
  <1>5. ASSUME NEW p \in Dir \cup {<<>>}, caching_opendir(p)
        PROVE  CFSIInv'
    <2>1. /\ \E r : Serve("opendir", p, r)
          /\ UNCHANGED <<cacheVars, tree, fds, held>>
          /\ streams' \in {streams, [streams EXCEPT ![tree[p]] = "start"]}
      BY <1>5 DEF caching_opendir
    <2>2. streams' \in [Directory -> {"closed", "start", "broken", "end"}]
      BY <1>1, <2>1
    <2> QED
      BY <2>1, <2>2, QuietHandler
  <1>6. ASSUME NEW d \in Directory, caching_readdir(d) \/ caching_releasedir(d)
        PROVE  CFSIInv'
    <2>1. /\ \E name, r : Serve(name, PathOf(d), r)
          /\ UNCHANGED <<cacheVars, tree, fds, held>>
          /\ \E s \in {"closed", "broken", "end"} : streams' = [streams EXCEPT ![d] = s]
      BY <1>6 DEF caching_readdir, caching_releasedir
    <2>2. streams' \in [Directory -> {"closed", "start", "broken", "end"}]
      BY <1>1, <2>1
    <2> QED
      BY <2>1, <2>2, QuietHandler
  <1>7. CASE UNCHANGED cfsVars
    <2>1. UNCHANGED vars /\ UNCHANGED fsVars
      BY <1>7 DEF cfsVars
    <2>2. HandlerInv'
      BY <2>1, ReadStutterKeeps DEF CFSIInv
    <2>3. UNCHANGED <<tree, fds, held, streams, pc, call>>
      BY <2>1 DEF vars, readVars, fsVars
    <2>4. ReadingInv'
      BY <2>3 DEF CFSIInv, ReadingInv, InTree, PathOf
    <2> QED
      BY <2>2, <2>3, <2>4, FileSystemUntouched DEF CFSIInv
  <1> QED
    BY <1>2, <1>3, <1>4, <1>5, <1>6, <1>7, OpenKeeps, ReleaseKeeps, RenameKeeps, ReadKeeps
    DEF CFSNext

\* The inductive invariant holds of every behaviour of the file system.
LEMMA CFSIInvHolds == CFSSpec => []CFSIInv
  BY CFSInitIInv, CFSNextIInv, PTL DEF CFSSpec

\* For every tree, the state stays well formed, and a descriptor FUSE has released is closed
\* as long as no file has been renamed onto the log.
THEOREM CFSInvHolds == CFSSpec => []CFSInv
  <1>1. CFSIInv => CFSInv
    BY DEF CFSIInv, CFSInv
  <1> QED
    BY <1>1, CFSIInvHolds, PTL

\* For every tree, whatever is opened and renamed, no descriptor is ever open on the log
\* and the log never gets another name.
THEOREM LogStaysHidden == CFSSpec => []LogHidden
  <1>1. CFSIInv => LogHidden
    BY DEF CFSIInv
  <1> QED
    BY <1>1, CFSIInvHolds, PTL

-----------------------------------------------------------------------------
(***************************************************************************)
(* The paths in the cache.                                                 *)
(***************************************************************************)
\* updatePaths replaces the prefix in the path of every cached block.
LEMMA UpdatePathsOfCached ==
    ASSUME CacheInv, NEW p, NEW q, UpdatePaths(p, q), NEW x \in BlockID
    PROVE  /\ Cached(x)' <=> Cached(x)
           /\ Cached(x) => BlockOf(x)'.path = ReplacePrefix(BlockOf(x).path, p, q)
  <1>1. Cached(x)' <=> Cached(x)
    BY UpdatePathsByID
  <1>2. ASSUME Cached(x) PROVE BlockOf(x)'.path = ReplacePrefix(BlockOf(x).path, p, q)
    <2> DEFINE m == blocksMap[x]
    <2>1. m \in Node /\ block[m] \in CacheBlock /\ ~IsNull(block[m])
      <3>1. cacheChain \in [Positions -> Node] /\ block \in [Node -> CacheBlock]
        BY DEF CacheInv, CacheTypeOK
      <3> QED
        BY <1>2, <3>1, CachedPosition
    <2> DEFINE w == ReplacePrefix(block[m].path, p, q)
    <2>2. blocksMap' = blocksMap /\ block'[m] = [block[m] EXCEPT !.path = w]
      <3>1. /\ blocksMap' = blocksMap
            /\ block' = [n \in Node |-> IF IsNull(block[n]) THEN block[n]
                            ELSE [block[n] EXCEPT !.path = ReplacePrefix(@, p, q)]]
        BY DEF UpdatePaths
      <3> QED
        BY <2>1, <3>1
    <2> HIDE DEF w
    <2>3. block'[m].path = w
      BY <2>1, <2>2 DEF CacheBlock
    <2> QED
      BY <2>2, <2>3 DEF BlockOf, w
  <1> QED
    BY <1>1, <1>2

\* CachedPathsCurrent of one block.
PathCurrent(f, n) == Cached(BlockKey(f, n)) /\ InTree(f) => BlockOf(BlockKey(f, n)).path = PathOf(f)

LEMMA CachedPathsByBlock ==
    CachedPathsCurrent <=> \A f \in File : \A n \in BlocksOf(f) : PathCurrent(f, n)
  BY DEF CachedPathsCurrent, PathCurrent, BlockOf, InTree

\* A read puts the name of its file into the cache, and a hit leaves all names there alone.
LEMMA ReadStepKeepsPaths ==
    ASSUME InodesDistinct, CFSIInv, CachedPathsCurrent, ReadStep, UNCHANGED fsVars
    PROVE  CachedPathsCurrent'
  <1>1. HandlerInv /\ ReadingInv /\ CacheInv
    BY DEF CFSIInv, HandlerInv
  <1>2. \A x : (InTree(x)' <=> InTree(x)) /\ PathOf(x)' = PathOf(x)
    BY DEF fsVars, InTree, PathOf
  <1>3. ASSUME NEW f \in File, NEW n \in BlocksOf(f) PROVE BlockKey(f, n) \in BlockID
    BY FilesAssumption
  <1> SUFFICES ASSUME NEW f \in File, NEW n \in BlocksOf(f), Cached(BlockKey(f, n))', InTree(f)
               PROVE  BlockOf(BlockKey(f, n))'.path = PathOf(f)
    BY <1>2 DEF CachedPathsCurrent, BlockOf, InTree
  <1> DEFINE id == BlockKey(f, n)
             key == BlockKey(call.file, current)
  <1>4. Cached(id) => BlockOf(id).path = PathOf(f)
    BY CachedPathsByBlock DEF PathCurrent
  <1>5. id \in BlockID
    BY <1>3
  <1>6. CASE CopyCachedBlock
    <2>1. InLoop /\ RetrieveHit(key)
      BY <1>6 DEF CopyCachedBlock
    <2>2. key \in BlockID
      BY <1>1, <1>3, <2>1, CurrentBlock DEF Call
    <2>3. status = "running" /\ FindBlock(key) /\ Cached(key)
      BY <2>1 DEF RetrieveHit, FindBlock, FindInNew, FindInMiddle, FindInOld
    <2> HIDE DEF id, key
    <2>4. PICK k \in Positions : HitOf(key, k)
      BY <1>1, <2>2, <2>3, FindBlockEffect
    <2>5. Cached(id) /\ BlockOf(id)'.path = BlockOf(id).path
      BY <1>1, <1>5, <2>2, <2>3, <2>4, HitByID DEF SameButTag, id
    <2> QED
      BY <1>4, <2>5 DEF id
  <1>7. CASE CopyDiskBlock
    <2> DEFINE data == DiskBlock(call.file, current)
    <2>1. InLoop /\ ~Cached(key) /\ InsertBlock(key, data, call.path)
      BY <1>7 DEF CopyDiskBlock, InsertKey, BlockKey
    <2>2. key \in BlockID /\ data \in Buff /\ call.path \in Path /\ call.file \in File
      BY <1>1, <1>3, <2>1, CurrentBlock, FilesAssumption DEF Call
    <2>3. call.path = PathOf(call.file)
      BY <1>1, <2>1 DEF ReadingInv, InLoop
    <2>4. id = key => f = call.file
      BY <2>2 DEF BlockKey, InodesDistinct
    <2> HIDE DEF id, key, data
    <2>5. status = "running" /\ InsertNew(key, data, call.path)
      BY <2>1 DEF InsertBlock
    <2>6. PICK x \in BlockID, buff \in Buff, path \in Path :
             x = key /\ buff = data /\ path = call.path
      BY <2>2
    <2>7. ErasePosition \in Positions /\ InsertOf(x, buff, path, ErasePosition)
      BY <1>1, <2>5, <2>6, InsertNewEffect, ErasePositionIsOld
    <2>8. PICK k \in Positions : InsertOf(x, buff, path, k)
      BY <2>7
    <2>9. /\ BlockOf(x)'.path = path
          /\ id # x => Cached(id) /\ BlockOf(id)'.path = BlockOf(id).path
      BY <1>1, <1>5, <2>1, <2>6, <2>8, InsertByID DEF SameButTag, id
    <2> QED
      BY <1>4, <2>3, <2>4, <2>6, <2>9 DEF id
  <1>8. CASE PreadFails \/ EndRead
    <2>1. UNCHANGED cacheVars
      BY <1>8 DEF PreadFails, EndRead
    <2> QED
      BY <1>4, <2>1 DEF cacheVars, Cached, BlockOf
  <1> QED
    BY <1>6, <1>7, <1>8 DEF ReadStep

\* rename changes the name of a file and the paths of its blocks in the same way.
LEMMA RenameKeepsPaths ==
    ASSUME CFSIInv, CachedPathsCurrent, NEW p \in Path \cup Dir, NEW q \in Path \cup Dir,
           Known(p), ~refering_logfile(p), CanRename(p, q), WithinBounds(RenamedTree(p, q)),
           tree' = RenamedTree(p, q), UpdatePaths(p, q)
    PROVE  CachedPathsCurrent'
  <1>1. TreeInv /\ LogHidden /\ CacheInv /\ p \in DOMAIN tree /\ p # LogPath
    BY DEF CFSIInv, HandlerInv, Known, refering_logfile
  <1>2. \A x : InTree(x)' => InTree(x) /\ PathOf(x)' = ReplacePrefix(PathOf(x), p, q)
    BY <1>1, RenameKeepsTree
  <1> SUFFICES ASSUME NEW f \in File, NEW n \in BlocksOf(f), Cached(BlockKey(f, n))', InTree(f)'
               PROVE  BlockOf(BlockKey(f, n))'.path = PathOf(f)'
    BY DEF CachedPathsCurrent, BlockOf, InTree
  <1> DEFINE id == BlockKey(f, n)
  <1>3. id \in BlockID
    BY FilesAssumption
  <1>4. Cached(id) => BlockOf(id).path = PathOf(f)
    BY <1>2, CachedPathsByBlock DEF PathCurrent
  <1>5. Cached(id)
    BY <1>1, <1>3, UpdatePathsOfCached
  <1> HIDE DEF id
  <1>6. BlockOf(id)'.path = ReplacePrefix(BlockOf(id).path, p, q)
    BY <1>1, <1>3, <1>5, UpdatePathsOfCached
  <1> QED
    BY <1>2, <1>4, <1>5, <1>6 DEF id

\* If an int tells the inodes of the files apart, a cached block carries the path its file
\* has now, however files and the directories above them are renamed between reads.
THEOREM CachedPathsAreCurrent ==
    ASSUME InodesDistinct
    PROVE  CFSSpec => []CachedPathsCurrent
  <1>1. CFSInit => CachedPathsCurrent
    <2> SUFFICES ASSUME CFSInit, NEW f \in File, NEW n \in BlocksOf(f) PROVE ~Cached(BlockKey(f, n))
      BY DEF CachedPathsCurrent
    <2>1. BlockKey(f, n) \in BlockID
      BY FilesAssumption
    <2> QED
      BY <2>1 DEF CFSInit, ReadInit, CacheInit, Cached
  <1>2. CFSIInv /\ CachedPathsCurrent /\ [CFSNext]_cfsVars => CachedPathsCurrent'
    <2> SUFFICES ASSUME CFSIInv, CachedPathsCurrent, [CFSNext]_cfsVars PROVE CachedPathsCurrent'
      OBVIOUS
    <2>1. ASSUME UNCHANGED cacheVars, UNCHANGED tree PROVE CachedPathsCurrent'
      BY <2>1 DEF cacheVars, CachedPathsCurrent, Cached, PathOf
    <2>2. ASSUME NEW p \in Path \cup Dir, NEW q \in Path \cup Dir, caching_rename(p, q)
          PROVE  CachedPathsCurrent'
      <3>1. CASE UNCHANGED <<cacheVars, tree>>
        BY <2>1, <3>1
      <3>2. CASE ~UNCHANGED <<cacheVars, tree>>
        BY <2>2, <3>2, RenameKeepsPaths DEF caching_rename
      <3> QED
        BY <3>1, <3>2
    <2>3. CASE ReadStep /\ UNCHANGED fsVars
      BY <2>3, ReadStepKeepsPaths
    <2>4. CASE UNCHANGED cfsVars
      BY <2>1, <2>4 DEF cfsVars, vars, fsVars
    <2>5. ASSUME NEW p, caching_getattr(p) \/ caching_access(p) \/ caching_opendir(p)
                        \/ caching_fgetattr(p) \/ caching_flush(p) \/ caching_release(p)
                        \/ caching_readdir(p) \/ caching_releasedir(p)
          PROVE  CachedPathsCurrent'
      BY <2>1, <2>5 DEF caching_getattr, caching_access, caching_opendir, caching_fgetattr,
         caching_flush, caching_release, caching_readdir, caching_releasedir
    <2>6. ASSUME NEW p, NEW forWriting, caching_open(p, forWriting) PROVE CachedPathsCurrent'
      BY <2>1, <2>6 DEF caching_open
    <2>7. CASE caching_ioctl \/ HandlerReturns
      BY <2>1, <2>7 DEF caching_ioctl, HandlerReturns, Reply
    <2>8. ASSUME NEW fd, NEW offset, NEW size, caching_read(fd, offset, size)
          PROVE  CachedPathsCurrent'
      BY <2>1, <2>8 DEF caching_read, BeginRead
    <2> QED
      BY <2>2, <2>3, <2>4, <2>5, <2>6, <2>7, <2>8 DEF CFSNext
  <1> QED
    BY <1>1, <1>2, CFSIInvHolds, PTL DEF CFSSpec

-----------------------------------------------------------------------------
(***************************************************************************)
(* Directory listings.                                                     *)
(***************************************************************************)
\* In the root directory the name of the log is its path.
LEMMA ListedAreVisible ==
    ASSUME TreeInv, NEW p
    PROVE  Listed(p) = Visible(p)
  <1> SUFFICES ASSUME NEW q \in Children(p)
               PROVE  q[Len(q)] = LogPath[Len(LogPath)] /\ p = <<>> <=> q = LogPath
    <2>1. \A q \in Children(p) : GetAttrAnswer(q) = 0 <=> q # LogPath
      BY DEF GetAttrAnswer, refering_logfile, Children, ENOENT
    <2> QED
      BY <2>1 DEF Listed, Visible
  <1>1. /\ q \in Seq(STRING) /\ Len(q) \in Nat \ {0} /\ Parent(q) = p
        /\ LogPath \in Seq(STRING) /\ Len(LogPath) \in Nat \ {0} /\ Parent(LogPath) = <<>>
    BY TreePaths, FilesAssumption, TreeAssumption DEF Children
  <1>2. ASSUME NEW r \in Seq(STRING), Len(r) \in Nat \ {0}, Parent(r) = <<>> PROVE Len(r) = 1
    <2>1. Len(r) - 1 \in 0 .. Len(r)
      BY <1>2
    <2>2. Len(Parent(r)) = Len(r) - 1
      BY <1>2, <2>1, SubPath DEF Parent
    <2>3. Len(<<>>) = 0
      BY EmptySeq
    <2>4. Len(r) - 1 = 0
      BY <1>2, <2>2, <2>3, Zenon
    <2> QED
      BY <1>2, <2>4
  <1>3. Len(LogPath) = 1
    BY <1>1, <1>2
  <1>4. ASSUME q[Len(q)] = LogPath[Len(LogPath)], p = <<>> PROVE q = LogPath
    <2>1. Len(q) = 1
      BY <1>1, <1>2, <1>4
    <2>2. \A i \in 1 .. Len(q) : q[i] = LogPath[i]
      BY <1>3, <1>4, <2>1
    <2> QED
      BY <1>1, <1>3, <2>1, <2>2, SeqEqual
  <1> QED
    BY <1>1, <1>4

\* For every tree, the first readdir on a stream lists what getattr finds there, all of it
\* unless the loop is broken off.
THEOREM FirstListingsComplete == CFSSpec => FirstListingComplete
  <1> DEFINE ListsAll ==
               \A d \in Directory :
                  streams[d] = "start" /\ streams'[d] \in {"broken", "end"}
                      => /\ output' \subseteq Visible(PathOf(d))
                         /\ streams'[d] = "end" => output' = Visible(PathOf(d))
  <1>1. CFSIInv /\ [CFSNext]_cfsVars => [ListsAll]_cfsVars
    <2> SUFFICES ASSUME CFSIInv, [CFSNext]_cfsVars, NEW d \in Directory,
                        streams[d] = "start", streams'[d] \in {"broken", "end"}
                 PROVE  /\ output' \subseteq Visible(PathOf(d))
                        /\ streams'[d] = "end" => output' = Visible(PathOf(d))
      OBVIOUS
    <2>1. streams \in [Directory -> {"closed", "start", "broken", "end"}] /\ TreeInv
      BY DEF CFSIInv, CFSTypeOK
    <2>2. ASSUME UNCHANGED streams PROVE FALSE
      BY <2>2
    <2>3. ASSUME NEW e \in Directory, caching_readdir(e)
          PROVE  /\ output' \subseteq Visible(PathOf(d))
                 /\ streams'[d] = "end" => output' = Visible(PathOf(d))
      <3>1. PICK s \in {"broken", "end"} : streams' = [streams EXCEPT ![e] = s]
        BY <2>3 DEF caching_readdir
      <3>2. e = d /\ streams'[d] = s
        BY <2>1, <3>1
      <3>3. Deliverable(d) = {Listed(PathOf(d))}
        BY DEF Deliverable
      <3>4. /\ output' \subseteq Listed(PathOf(d))
            /\ s = "end" => output' = Listed(PathOf(d))
        BY <2>1, <2>3, <3>2, <3>3 DEF caching_readdir
      <3>5. Listed(PathOf(d)) = Visible(PathOf(d))
        BY <2>1, ListedAreVisible
      <3> QED
        BY <3>2, <3>4, <3>5
    <2>4. ASSUME NEW e \in Directory, caching_releasedir(e) PROVE FALSE
      <3>1. streams' = [streams EXCEPT ![e] = "closed"]
        BY <2>4 DEF caching_releasedir
      <3>2. streams'[d] \in {streams[d], "closed"}
        BY <2>1, <3>1
      <3> QED
        BY <3>2
    <2>5. ASSUME NEW p, caching_opendir(p) PROVE FALSE
      <3>1. \E e \in Directory : streams' \in {streams, [streams EXCEPT ![e] = "start"]}
        BY <2>5 DEF caching_opendir
      <3>2. streams'[d] \in {streams[d], "start"}
        BY <2>1, <3>1
      <3> QED
        BY <3>2
    <2>6. ASSUME NEW p, caching_getattr(p) \/ caching_access(p) \/ caching_fgetattr(p)
                        \/ caching_flush(p) \/ caching_release(p)
          PROVE  FALSE
      BY <2>2, <2>6 DEF caching_getattr, caching_access, caching_fgetattr, caching_flush,
         caching_release
    <2>7. ASSUME NEW p, NEW q, caching_open(p, q) \/ caching_rename(p, q) PROVE FALSE
      BY <2>2, <2>7 DEF caching_open, caching_rename
    <2>8. ASSUME NEW fd, NEW offset, NEW size, caching_read(fd, offset, size) PROVE FALSE
      BY <2>2, <2>8 DEF caching_read
    <2>9. CASE caching_ioctl \/ HandlerReturns \/ UNCHANGED fsVars \/ UNCHANGED cfsVars
      BY <2>2, <2>9 DEF caching_ioctl, HandlerReturns, fsVars, cfsVars
    <2> QED
      BY <2>3, <2>4, <2>5, <2>6, <2>7, <2>8, <2>9 DEF CFSNext
  <1> QED
    BY <1>1, CFSIInvHolds, PTL DEF CFSSpec, FirstListingComplete
=============================================================================
