------------------------- MODULE CachingFileSystem -------------------------
(***************************************************************************)
(* The handlers of the file system around the cache: names of the root     *)
(* directory, descriptors, directory streams, the log file.  Reads are     *)
(* those of CachingRead.                                                   *)
(*                                                                         *)
(* tree is the directory tree below the root directory: the file or        *)
(* directory each existing path leads to.  A path is a sequence of names,  *)
(* <<>> the root.  FUSE knows an open file by its node and passes the path *)
(* that node has now, so held says which descriptors FUSE still uses.      *)
(* Every handler logs its name first: line is the last one logged.         *)
(***************************************************************************)
EXTENDS CachingRead

CONSTANTS
    Directory,  \* directories
    LogFile,    \* the file the log was opened as
    rootTree,   \* the tree at mount time
    Fd,         \* descriptor numbers
    Closed

VARIABLES
    tree,
    fds,        \* fds[fd]: the file descriptor fd is open on, or Closed
    held,       \* descriptors in file handles that FUSE has not released
    streams,    \* streams[d]: "closed", or where the DIR * of directory d stands
    line,       \* the call logged last
    output      \* what readdir returned or ioctl logged

fsVars == <<tree, fds, held, streams, line, output>>
cfsVars == <<vars, fsVars>>

EACCES == 13
EMFILE == 24
ENONET == 64

Parent(p) == SubSeq(p, 1, Len(p) - 1)

\* Bound: files are only at paths of Path, directories at those of Dir.
WithinBounds(t) ==
    \A r \in DOMAIN t \ {<<>>} : IF t[r] \in Directory THEN r \in Dir ELSE r \in Path

\* Every path leads through directories, from the root directory on.
IsTree(t) ==
    /\ <<>> \in DOMAIN t
    /\ \A r \in DOMAIN t : \A n \in 0 .. Len(r) - 1 :
           SubSeq(r, 1, n) \in DOMAIN t /\ t[SubSeq(r, 1, n)] \in Directory

ASSUME TreeAssumption ==
    /\ Path \cup Dir \subseteq Seq(STRING) /\ <<>> \notin Path \cup Dir
    /\ IsTree(rootTree) /\ WithinBounds(rootTree) /\ rootTree[<<>>] \in Directory
    /\ \A p \in DOMAIN rootTree : rootTree[p] \in File \cup Directory \cup {LogFile}
    /\ \A p, q \in DOMAIN rootTree : rootTree[p] = rootTree[q] => p = q
    /\ LogPath \in DOMAIN rootTree /\ Parent(LogPath) = <<>> /\ rootTree[LogPath] = LogFile
    /\ Fd \subseteq Nat
    /\ File \cap Directory = {} /\ LogFile \notin File \cup Directory
    /\ Closed \notin File \cup {LogFile}

-----------------------------------------------------------------------------
(***************************************************************************)
(* The directory tree and rename(2), which the code does not contain.      *)
(***************************************************************************)
OpenDirs == {d \in Directory : streams[d] # "closed"}

PathOf(x) == CHOOSE p \in DOMAIN tree : tree[p] = x

Children(p) == {q \in DOMAIN tree : q # <<>> /\ Parent(q) = p}

\* A path FUSE has a node for: it was looked up with getattr, which hides the log, or
\* the node has been renamed to it since.
Known(p) == p \in DOMAIN tree /\ ~(refering_logfile(p) /\ tree[p] = LogFile)

\* rename(2) can succeed.  FUSE moves an open file out of the way before it lets another
\* one take its name; that a directory being listed is not replaced is a bound.
CanRename(p, q) ==
    /\ p # <<>> /\ p # q /\ ~IsPathPrefix(p, q)
    /\ Parent(q) \in DOMAIN tree /\ tree[Parent(q)] \in Directory
    /\ q \in DOMAIN tree =>
          /\ tree[q] \notin {fds[fd] : fd \in held} \cup OpenDirs
          /\ tree[p] \in Directory <=> tree[q] \in Directory
          /\ Children(q) = {}

\* What q named before is gone; what was below p is now below q.
RenamedTree(p, q) ==
    LET moved == {r \in DOMAIN tree : IsPathPrefix(p, r)}
        kept  == DOMAIN tree \ (moved \cup {q})
        from(r) == CHOOSE s \in moved : ReplacePrefix(s, p, q) = r
    IN  [r \in kept \cup {ReplacePrefix(s, p, q) : s \in moved} |->
            IF r \in kept THEN tree[r] ELSE tree[from(r)]]

-----------------------------------------------------------------------------
\* The descriptor open(2) returns.
IsLowestFree(fd) == fds[fd] = Closed /\ \A e \in Fd : fds[e] = Closed => fd <= e

CFSInit ==
    /\ ReadInit
    /\ tree = rootTree
    /\ fds = [fd \in Fd |-> Closed]
    /\ held = {} /\ streams = [d \in Directory |-> "closed"]
    /\ line = "init" /\ output = {}

log_call(callName) == line' = callName

ioctl_log(cached_files) == output' = cached_files

\* A handler for path p is called, logs its name and answers r.
Serve(callName, p, r) ==
    /\ pc = "idle" /\ status = "running"
    /\ log_call(callName)
    /\ Return(r)
    /\ call' = [NoCall EXCEPT !.path = p]
    /\ UNCHANGED <<current, remaining_data, buf>>

-----------------------------------------------------------------------------
(***************************************************************************)
(* Handlers that change nothing but the log.                               *)
(***************************************************************************)
GetAttrAnswer(p) == IF refering_logfile(p) \/ p \notin DOMAIN tree THEN -ENOENT ELSE 0

caching_getattr(p) ==
    /\ Serve("getattr", p, GetAttrAnswer(p))
    /\ UNCHANGED <<cacheVars, tree, fds, held, streams, output>>

caching_access(p) ==
    /\ Known(p)
    /\ \E r \in IF refering_logfile(p) THEN {-ENOENT} ELSE {0, -EACCES} :
          Serve("access", p, r)
    /\ UNCHANGED <<cacheVars, tree, fds, held, streams, output>>

caching_fgetattr(fd) ==
    LET p == PathOf(fds[fd]) IN
    /\ fd \in held
    /\ Serve("fgetattr", p, IF refering_logfile(p) THEN -ENONET ELSE 0)
    /\ UNCHANGED <<cacheVars, tree, fds, held, streams, output>>

caching_flush(fd) ==
    LET p == PathOf(fds[fd]) IN
    /\ fd \in held
    /\ Serve("flush", p, IF refering_logfile(p) THEN -ENONET ELSE 0)
    /\ UNCHANGED <<cacheVars, tree, fds, held, streams, output>>

caching_ioctl ==
    /\ Serve("ioctl", <<>>, 0)
    /\ ioctl_log(CacheToString)
    /\ UNCHANGED <<cacheVars, tree, fds, held, streams>>

-----------------------------------------------------------------------------
(***************************************************************************)
(* Files.                                                                  *)
(***************************************************************************)
OpenRefused(p, forWriting) ==
    \/ refering_logfile(p) /\ Serve("open", p, -ENONET)
    \/ ~refering_logfile(p) /\ forWriting /\ Serve("open", p, -EACCES)
    \/ /\ ~refering_logfile(p) /\ ~forWriting
       /\ \/ (\A fd \in Fd : fds[fd] # Closed) /\ Serve("open", p, -EMFILE)
          \/ Serve("open", p, -EACCES)

caching_open(p, forWriting) ==
    /\ Known(p) /\ tree[p] \notin Directory
    /\ \/ OpenRefused(p, forWriting) /\ UNCHANGED <<fds, held>>
       \/ /\ ~refering_logfile(p) /\ ~forWriting
          /\ Serve("open", p, 0)
          /\ \E fd \in Fd : /\ IsLowestFree(fd)
                            /\ fds' = [fds EXCEPT ![fd] = tree[p]]
                            /\ held' = held \cup {fd}
    /\ UNCHANGED <<cacheVars, tree, streams, output>>

\* FUSE ignores what release returns: the handle is gone either way.
M_ClosedBy(fd, p) == fds
ClosedBy(fd, p) == IF refering_logfile(p) THEN fds ELSE [fds EXCEPT ![fd] = Closed]

caching_release(fd) ==
    LET p == PathOf(fds[fd]) IN
    /\ fd \in held
    /\ Serve("release", p, IF refering_logfile(p) THEN -ENOENT ELSE 0)
    /\ fds' = ClosedBy(fd, p)
    /\ held' = held \ {fd}
    /\ UNCHANGED <<cacheVars, tree, streams, output>>

-----------------------------------------------------------------------------
(***************************************************************************)
(* Directories.                                                            *)
(***************************************************************************)
\* Bound: one stream at a time.
caching_opendir(p) ==
    /\ Known(p) /\ tree[p] \in Directory
    /\ OpenDirs = {}
    /\ \/ /\ ~refering_logfile(p)
          /\ Serve("opendir", p, 0)
          /\ streams' = [streams EXCEPT ![tree[p]] = "start"]
       \/ /\ Serve("opendir", p, IF refering_logfile(p) THEN -ENOENT ELSE -EMFILE)
          /\ UNCHANGED streams
    /\ UNCHANGED <<cacheVars, tree, fds, held, output>>

\* "." and "..", which are always listed, are left out.
M_Listed(p) == {q \in Children(p) : q[Len(q)] # LogPath[Len(LogPath)]}
Listed(p) == {q \in Children(p) : ~(q[Len(q)] = LogPath[Len(LogPath)] /\ p = <<>>)}

\* What the stream of d may still deliver: a directory that changes while it is being
\* read shows any of its entries.
Deliverable(d) ==
    CASE streams[d] = "start" -> {Listed(PathOf(d))}
      [] streams[d] = "broken" -> SUBSET Listed(PathOf(d))
      [] OTHER -> {{}}

\* The stream is read to its end and never rewound.  FUSE calls readdir again when the
\* caller starts over (rewinddir).  An error of readdir(3), or a filler that is full,
\* breaks the loop off anywhere and the handler still answers 0.
caching_readdir(d) ==
    /\ d \in OpenDirs
    /\ Serve("readdir", PathOf(d), 0)
    /\ \/ output' \in Deliverable(d) /\ streams' = [streams EXCEPT ![d] = "end"]
       \/ /\ streams[d] # "end"
          /\ output' \in UNION {SUBSET whole : whole \in Deliverable(d)}
          /\ streams' = [streams EXCEPT ![d] = "broken"]
    /\ UNCHANGED <<cacheVars, tree, fds, held>>

\* The check for the log compares a path below the mount point with a full path.  They
\* are equal only if the tree contains a copy of the way to its own root, which is left
\* out: the stream is always closed.
caching_releasedir(d) ==
    /\ d \in OpenDirs
    /\ Serve("releasedir", PathOf(d), 0)
    /\ streams' = [streams EXCEPT ![d] = "closed"]
    /\ UNCHANGED <<cacheVars, tree, fds, held, output>>

-----------------------------------------------------------------------------
\* Only the old path is checked against the log.
caching_rename(p, q) ==
    /\ Known(p)
    /\ \/ /\ refering_logfile(p)
          /\ Serve("rename", p, -ENOENT)
          /\ UNCHANGED <<cacheVars, tree>>
       \/ /\ ~refering_logfile(p)
          /\ Serve("rename", p, -EIO)
          /\ UNCHANGED <<cacheVars, tree>>
       \/ /\ ~refering_logfile(p)
          /\ CanRename(p, q)
          /\ WithinBounds(RenamedTree(p, q))
          /\ Serve("rename", p, 0)
          /\ tree' = RenamedTree(p, q)
          /\ UpdatePaths(p, q)
    /\ UNCHANGED <<fds, held, streams, output>>

caching_read(fd, offset, size) ==
    /\ fd \in held
    /\ BeginRead(fds[fd], PathOf(fds[fd]), offset, size)
    /\ log_call("read")
    /\ UNCHANGED <<tree, fds, held, streams, output>>

-----------------------------------------------------------------------------
HandlerReturns ==
    /\ Reply
    /\ line' = "init" /\ output' = {}
    /\ UNCHANGED <<tree, fds, held, streams>>

CFSNext ==
    \/ \E p \in Path \cup Dir : caching_getattr(p) \/ caching_access(p)
    \/ \E p \in Path, forWriting \in BOOLEAN : caching_open(p, forWriting)
    \/ \E fd \in Fd : caching_fgetattr(fd) \/ caching_flush(fd) \/ caching_release(fd)
    \/ \E fd \in Fd, offset \in 0 .. MaxOffset, size \in 0 .. MaxSize :
          caching_read(fd, offset, size)
    \/ \E p \in Dir \cup {<<>>} : caching_opendir(p)
    \/ \E d \in Directory : caching_readdir(d) \/ caching_releasedir(d)
    \/ \E p, q \in Path \cup Dir : caching_rename(p, q)
    \/ caching_ioctl
    \/ ReadStep /\ UNCHANGED fsVars
    \/ HandlerReturns

CFSSpec == CFSInit /\ [][CFSNext]_cfsVars

-----------------------------------------------------------------------------
(***************************************************************************)
(* Properties.                                                             *)
(***************************************************************************)
\* The variables have their types.
CFSTypeOK ==
    /\ CacheTypeOK
    /\ DOMAIN tree \subseteq Path \cup Dir \cup {<<>>}
    /\ \A p \in DOMAIN tree : tree[p] \in File \cup Directory \cup {LogFile}
    /\ fds \in [Fd -> File \cup {Closed, LogFile}]
    /\ held \subseteq Fd
    /\ streams \in [Directory -> {"closed", "start", "broken", "end"}]

LogInPlace == LogPath \in DOMAIN tree /\ tree[LogPath] = LogFile

\* refering_logfile keeps the log out of reach: whatever is opened and renamed, no
\* descriptor is ever open on the log and it never gets another name.
LogHidden ==
    /\ \A p \in DOMAIN tree : tree[p] = LogFile => p = LogPath
    /\ \A fd \in Fd : fds[fd] # LogFile

Visible(p) == {q \in Children(p) : GetAttrAnswer(q) = 0}

\* The first readdir on a stream lists only what getattr finds there at that time, and
\* all of it unless it is broken off, whatever was renamed since opendir: readdir
\* recognises the log by its name and its directory, getattr by its full path.
FirstListingComplete ==
    [][\A d \in Directory :
          streams[d] = "start" /\ streams'[d] \in {"broken", "end"}
              => /\ output' \subseteq Visible(PathOf(d))
                 /\ streams'[d] = "end" => output' = Visible(PathOf(d))]_cfsVars

\* However files and the directories above them are renamed between reads, a cached block
\* carries the path its file has now, the one that ioctl is to log.
CachedPathsCurrent ==
    \A f \in File : \A n \in BlocksOf(f) :
        (Cached(BlockKey(f, n)) /\ \E p \in DOMAIN tree : tree[p] = f)
            => block[blocksMap[BlockKey(f, n)]].path = PathOf(f)

\* Every descriptor that FUSE has released is closed, as long as no file has been renamed
\* onto the log: release closes nothing at the path of the log.
DescriptorsReleased ==
    LogInPlace => \A fd \in Fd : fds[fd] # Closed => fd \in held

\* The comment on refering_logfile wants a "no such file error when trying to refer to
\* the logfile", so no call should replace the log.
LogNeverReplaced == LogInPlace

\* The state is well formed, and no descriptor is lost but in the way named above.
CFSInv == CFSTypeOK /\ DescriptorsReleased
=============================================================================
