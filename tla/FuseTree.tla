------------------------------ MODULE FuseTree ------------------------------
(***************************************************************************)
(* The high level FUSE library the file system is linked with              *)
(* (src/resources/fuse-2.9.6/lib/fuse.c): the table of nodes the kernel    *)
(* knows, the tree locks that keep a path from changing while a request    *)
(* uses it, the queue of requests waiting for such a lock, and the request *)
(* handlers fuse_lib_*, run by several worker threads.                     *)
(*                                                                         *)
(* A handler is a program: the sequence of its steps, in the order of the  *)
(* source.  A step is one critical section of f->lock or one call of the   *)
(* file system; between two steps any other thread may run.  The kernel,   *)
(* which sends the requests, and the file system behind the callbacks are  *)
(* external.                                                               *)
(***************************************************************************)
EXTENDS Integers, Sequences, FiniteSets, SequencesExt

CONSTANTS
    Thread,         \* worker threads
    NodeId,         \* node ids other than FUSE_ROOT_ID
    Root,           \* FUSE_ROOT_ID
    Null,
    Name,           \* names a user gives
    HiddenName,     \* names .fuse_hiddenXXXX made by hidden_name
    DirObj, FileObj,\* what the file system stores: directories and files
    InitFs,         \* the files at mount time: a function from paths
    Implemented,    \* the callbacks the file system sets in fuse_operations
    Unfailing,      \* callbacks that never fail for want of I/O
    Ops,            \* the requests the kernel sends in this instance
    Abandoned,      \* the replies the kernel may no longer be waiting for
    MaxLookup,      \* bound: lookups the kernel holds of one node
    MaxOpen,        \* bound: opens of one node
    MaxAbandon,     \* bound: interrupted system calls
    Remember,       \* the values of option remember: nodes are kept after the last forget
    HardRemove,     \* option hard_remove
    NoPath          \* option nopath

ASSUME TreeAssumption ==
    /\ IsFiniteSet(Thread) /\ IsFiniteSet(NodeId) /\ Root \notin NodeId
    /\ Null \notin NodeId \cup {Root} \cup Name \cup HiddenName \cup DirObj \cup FileObj
    /\ Name \cap HiddenName = {} /\ DirObj \cap FileObj = {}
    /\ Remember \subseteq BOOLEAN /\ HardRemove \in BOOLEAN /\ NoPath \in BOOLEAN
    /\ MaxLookup \in Nat /\ MaxOpen \in Nat /\ MaxAbandon \in Nat

VARIABLES
    tab,        \* the node table, the option remember, and whether an assert or abort has been hit
    lockq,      \* f->lockq: the threads waiting for a path or to forget
    rq,         \* what each worker thread is doing
    fs,         \* external: the file system, a function from paths to objects
    klook,      \* external: lookups the kernel holds of each node
    kopen,      \* external: files the kernel has open on each node
    abandons    \* external: interrupted system calls so far

vars == <<tab, lockq, rq, fs, klook, kopen, abandons>>

Ino == NodeId \cup {Root}
AnyName == Name \cup HiddenName
ENOENT == 2
EAGAIN == 11
TREELOCK_WRITE == -1
TREELOCK_WAIT_OFFSET == -1000

Unused == [used |-> FALSE, name |-> Null, parent |-> Null, nlookup |-> 0, refctr |-> 0,
           treelock |-> 0, open_count |-> 0, is_hidden |-> FALSE, lru |-> FALSE, obj |-> Null]

Idle == [todo |-> <<>>, n1 |-> Null, nm1 |-> Null, n2 |-> Null, nm2 |-> Null,
         wr |-> FALSE, path1 |-> Null, path2 |-> Null, w1 |-> Null, w2 |-> Null,
         first |-> FALSE, second |-> FALSE, done |-> FALSE, err |-> 0,
         e |-> Null, obj |-> Null, dot |-> Null, cnt |-> 0, hid |-> Null,
         dirs |-> {}, pins |-> {}, gone |-> FALSE]

-----------------------------------------------------------------------------
(* The node table.  Operators take and return tb = [node, remember, bad];    *)
(* bad records a failed assert, an abort() or a NULL dereference.            *)

Fail(tb, failed) == [tb EXCEPT !.bad = @ \/ failed]

get_node(tb, n) == Fail(tb, ~tb.node[n].used)

lookup_node(tb, p, nm) ==
    LET hits == {c \in NodeId : tb.node[c].used /\ tb.node[c].parent = p
                                   /\ tb.node[c].name = nm}
    IN  IF nm = Null \/ hits = {} THEN Null ELSE CHOOSE c \in hits : TRUE

inc_nlookup(tb, n) ==
    [tb EXCEPT !.node[n].refctr = IF tb.node[n].nlookup = 0 THEN @ + 1 ELSE @,
               !.node[n].nlookup = @ + 1]

hash_name(tb, n, p, nm) ==
    [get_node(tb, p) EXCEPT !.node[p].refctr = @ + 1,
                            !.node[n].parent = p,
                            !.node[n].name = nm]

\* unref_node: drop one reference; at zero delete_node takes the node out of
\* the tables and drops the reference it held on its parent, and so on upwards.
unref_node(tb, n) ==
    LET drop(s) ==
          LET nd == s.tb.node[s.at]
          IN  IF nd.refctr > 1
              THEN [tb |-> [s.tb EXCEPT !.node[s.at].refctr = @ - 1], at |-> Null]
              ELSE [tb |-> [Fail(s.tb, nd.refctr < 1 \/ nd.treelock # 0)
                               EXCEPT !.node[s.at] = Unused],
                    at |-> nd.parent]
        up[k \in 0..Cardinality(Ino)] ==
          IF k = 0 THEN [tb |-> tb, at |-> n]
          ELSE IF up[k - 1].at = Null THEN up[k - 1] ELSE drop(up[k - 1])
    IN  up[Cardinality(Ino)].tb

unhash_name(tb, n) ==
    IF tb.node[n].name = Null THEN tb
    ELSE unref_node([tb EXCEPT !.node[n].name = Null, !.node[n].parent = Null],
                    tb.node[n].parent)

\* next_id: the counter skips the ids in use; which unused id comes up is immaterial.
next_id(tb) == CHOOSE n \in NodeId : ~tb.node[n].used

\* Mutant: a node that is found is not counted as looked up.
M_find_node(tb, p, nm, obj) ==
    LET old == IF nm = Null THEN p ELSE lookup_node(tb, p, nm)
        new == next_id(tb)
    IN  IF old # Null THEN [tb |-> tb, n |-> old]
        ELSE [tb |-> inc_nlookup(hash_name([tb EXCEPT !.node[new] = [Unused EXCEPT !.used = TRUE,
                                                                                  !.obj = obj]],
                                           new, p, nm), new),
              n |-> new]

\* find_node: the node of (p, nm), made if there is none.  A full table is
\* alloc_node failing: .n is Null.  A node found with one lookup left is taken
\* off f->lru_table.
find_node(tb, p, nm, obj) ==
    LET old == IF nm = Null THEN p ELSE lookup_node(tb, p, nm)
        full == \A n \in NodeId : tb.node[n].used
        new == next_id(tb)
        made == hash_name([tb EXCEPT !.node[new] = [Unused EXCEPT !.used = TRUE]], new, p, nm)
        kept == IF tb.remember THEN inc_nlookup(made, new) ELSE made
    IN  IF old # Null
        THEN [tb |-> [inc_nlookup(get_node(tb, old), old)
                         EXCEPT !.node[old].obj = obj,
                                !.node[old].lru = @ /\ tb.node[old].nlookup # 1],
              n |-> old]
        ELSE IF full THEN [tb |-> tb, n |-> Null]
        ELSE [tb |-> [inc_nlookup(kept, new) EXCEPT !.node[new].obj = obj], n |-> new]

unlink_node(tb, n) ==
    unhash_name(IF tb.remember
                THEN [Fail(tb, tb.node[n].nlookup <= 1) EXCEPT !.node[n].nlookup = @ - 1]
                ELSE tb, n)

\* Mutant: the node stays under the name that was removed.
M_remove_node(tb, p, nm) == tb

remove_node(tb, p, nm) ==
    LET n == lookup_node(tb, p, nm) IN IF n = Null THEN tb ELSE unlink_node(tb, n)

\* Mutant: a hidden file is not marked as one.
M_rename_node(tb, p, nm, newp, newnm, hide) ==
    LET node == lookup_node(tb, p, nm)
        newnode == lookup_node(tb, newp, newnm)
        cleared == IF newnode = Null THEN tb ELSE unlink_node(tb, newnode)
    IN  IF node = Null \/ (hide /\ newnode # Null) THEN [tb |-> tb, err |-> hide]
        ELSE [tb |-> hash_name(unhash_name(cleared, node), node, newp, newnm), err |-> FALSE]

\* rename_node: .err is TRUE for EBUSY, when hiding onto a name that is taken.
rename_node(tb, p, nm, newp, newnm, hide) ==
    LET node == lookup_node(tb, p, nm)
        newnode == lookup_node(tb, newp, newnm)
        cleared == IF newnode = Null THEN tb ELSE unlink_node(tb, newnode)
        moved == hash_name(unhash_name(cleared, node), node, newp, newnm)
    IN  IF node = Null THEN [tb |-> tb, err |-> FALSE]
        ELSE IF hide /\ newnode # Null THEN [tb |-> tb, err |-> TRUE]
        ELSE [tb |-> [moved EXCEPT !.node[node].is_hidden = @ \/ hide], err |-> FALSE]

\* The part of forget_node after the waiting: at one lookup, taken to be the
\* library's own, the node goes onto f->lru_table.
forget(tb, n, k) ==
    LET less == [Fail(get_node(tb, n), tb.node[n].nlookup < k) EXCEPT !.node[n].nlookup = @ - k]
    IN  IF less.node[n].nlookup = 0 THEN unref_node(less, n)
        ELSE [less EXCEPT !.node[n].lru = @ \/ (tb.remember /\ less.node[n].nlookup = 1)]

\* fuse_clean_cache on one node of f->lru_table whose time is over.
fuse_clean_cache(tb, n) ==
    unref_node(unhash_name([Fail(tb, tb.node[n].nlookup # 1) EXCEPT !.node[n].nlookup = 0], n), n)

-----------------------------------------------------------------------------
(* Paths and tree locks.                                                     *)

\* The nodes from n up to the root, the root excluded; it ends early at a node
\* that has lost its name.
Chain(tb, n) ==
    LET up[k \in 0..Cardinality(NodeId)] ==
          IF k = 0 THEN <<>>
          ELSE LET below == up[k - 1]
                   at == IF k = 1 THEN n
                         ELSE IF Len(below) < k - 1 THEN Null
                         ELSE tb.node[below[k - 1]].parent
               IN  IF at \in {Root, Null} THEN below ELSE Append(below, at)
    IN  up[Cardinality(NodeId)]

Connected(tb, n) == LET ch == Chain(tb, n) IN \A i \in DOMAIN ch : tb.node[ch[i]].name # Null

PathAlong(tb, ch, nm) ==
    [i \in DOMAIN ch |-> tb.node[ch[Len(ch) + 1 - i]].name] \o (IF nm = Null THEN <<>> ELSE <<nm>>)
PathOf(tb, n, nm) == PathAlong(tb, Chain(tb, n), nm)

\* Mutant: only the write lock is given back.
M_unlock_path(tb, n, w) == IF w = Null THEN tb ELSE [tb EXCEPT !.node[w].treelock = 0]

\* The read locks of the nodes in ch.
UnlockRead(tb, n, ch) ==
    LET held == ToSet(ch)
        less(k) == IF k - 1 = TREELOCK_WAIT_OFFSET THEN 0 ELSE k - 1
        wrong == \/ ~tb.node[n].used
                 \/ \E m \in held : \/ tb.node[m].name = Null
                                    \/ tb.node[m].treelock \in {0, TREELOCK_WRITE, TREELOCK_WAIT_OFFSET}
    IN  [Fail(tb, wrong) EXCEPT !.node = [m \in Ino |->
            IF m \in held THEN [tb.node[m] EXCEPT !.treelock = less(@)] ELSE tb.node[m]]]

\* unlock_path: give back the write lock of w and one read lock along the path.
unlock_path(tb, n, w) ==
    LET freed == IF w = Null THEN tb
                 ELSE [Fail(tb, tb.node[w].treelock # TREELOCK_WRITE) EXCEPT !.node[w].treelock = 0]
    IN  UnlockRead(freed, n, Chain(freed, n))

\* Mutant: nodes locked for writing do not stop a reader.
M_try_get_path(tb, n, nm, wr) ==
    LET w == IF wr THEN lookup_node(tb, n, nm) ELSE Null
        ch == Chain(tb, n)
    IN  IF w # Null /\ tb.node[w].treelock # 0 THEN [tb |-> tb, err |-> EAGAIN, path |-> Null, w |-> Null]
        ELSE IF ~Connected(tb, n) THEN [tb |-> tb, err |-> ENOENT, path |-> Null, w |-> Null]
        ELSE [tb |-> [tb EXCEPT !.node = [m \in Ino |-> [tb.node[m] EXCEPT
                        !.treelock = IF m = w THEN TREELOCK_WRITE
                                     ELSE IF m \in ToSet(ch) THEN @ + 1 ELSE @]]],
              err |-> 0, path |-> PathOf(tb, n, nm), w |-> w]

\* Locking the nodes of ch, and w for writing.  A failed attempt gives back what it
\* had locked, so that all it may leave is the mark of a waiting writer.
TryLock(tb, n, nm, w, ch) ==
    LET stops == {i \in DOMAIN ch : tb.node[ch[i]].name = Null \/ tb.node[ch[i]].treelock < 0}
        stop == CHOOSE i \in stops : \A j \in stops : i <= j
        locked == [m \in Ino |-> [tb.node[m] EXCEPT
                     !.treelock = IF m = w THEN TREELOCK_WRITE
                                  ELSE IF m \in ToSet(ch) THEN @ + 1 ELSE @]]
        refused(t1, why) == [tb |-> t1, err |-> why, path |-> Null, w |-> Null]
    IN  IF w # Null /\ tb.node[w].treelock # 0
        THEN refused([tb EXCEPT !.node[w].treelock = IF @ > 0 THEN @ + TREELOCK_WAIT_OFFSET ELSE @],
                     EAGAIN)
        ELSE IF stops # {}
        THEN refused(get_node(tb, n), IF tb.node[ch[stop]].name = Null THEN ENOENT ELSE EAGAIN)
        ELSE [tb |-> [get_node(tb, n) EXCEPT !.node = locked], err |-> 0,
              path |-> PathAlong(tb, ch, nm), w |-> w]

\* try_get_path: err is 0, ENOENT or EAGAIN.
try_get_path(tb, n, nm, wr) ==
    TryLock(tb, n, nm, IF wr THEN lookup_node(tb, n, nm) ELSE Null, Chain(tb, n))

\* try_get_path2: both paths or none; a and b are the two attempts.
Both(r, a, b) ==
    IF b.err # 0 THEN [tb |-> unlock_path(b.tb, r.n1, a.w), err |-> b.err]
    ELSE [tb |-> b.tb, err |-> 0, path1 |-> a.path, path2 |-> b.path, w1 |-> a.w, w2 |-> b.w]
AfterFirst(r, a) ==
    IF a.err # 0 THEN [tb |-> a.tb, err |-> a.err]
    ELSE Both(r, a, try_get_path(a.tb, r.n2, r.nm2, r.wr))
try_get_path2(tb, r) == AfterFirst(r, try_get_path(tb, r.n1, r.nm1, r.wr))

Take1(r, g) == [r EXCEPT !.path1 = g.path, !.w1 = g.w]
Take2(r, g) == [r EXCEPT !.path2 = g.path, !.w2 = g.w]
NoPaths(r) == [r EXCEPT !.path1 = Null, !.path2 = Null, !.w1 = Null, !.w2 = Null,
                        !.first = FALSE, !.second = FALSE]

\* queue_element_unlock.
queue_element_unlock(tb, r) ==
    LET one == IF r.first THEN unlock_path(tb, r.n1, r.w1) ELSE tb
        two == IF r.second THEN unlock_path(one, r.n2, r.w2) ELSE one
    IN  [tb |-> two, r |-> NoPaths(r)]

\* queue_element_wakeup for the element r, which is the first of the queue or not:
\* a and b are the attempts at its two paths, where one is still to be made.
NotTried(tb) == [tb |-> tb, err |-> EAGAIN, path |-> Null, w |-> Null]
With1(r, a) == IF a.err = 0 THEN [Take1(r, a) EXCEPT !.first = TRUE] ELSE r
With2(r, b) == IF b.err = 0 THEN [Take2(r, b) EXCEPT !.second = TRUE] ELSE r
Failed2(u) == [tb |-> u.tb, r |-> [u.r EXCEPT !.done = TRUE, !.err = ENOENT]]
Woken(r, tb, none, isFirst) ==
    IF none THEN Failed2(queue_element_unlock(tb, r))
    ELSE IF r.first /\ (r.second \/ r.n2 = Null)
    THEN [tb |-> tb, r |-> [r EXCEPT !.done = TRUE, !.err = 0]]
    ELSE IF isFirst THEN [tb |-> tb, r |-> r] ELSE queue_element_unlock(tb, r)
Wake2(r, b, none, isFirst) == Woken(With2(r, b), b.tb, none \/ b.err = ENOENT, isFirst)
Wake1(r, a, isFirst) ==
    Wake2(With1(r, a), IF r.second \/ r.n2 = Null \/ a.err = ENOENT THEN NotTried(a.tb)
                       ELSE try_get_path(a.tb, r.n2, r.nm2, r.wr), a.err = ENOENT, isFirst)
queue_element_wakeup(tb, r, isFirst) ==
    IF Head(r.todo) = "forget"
    THEN [tb |-> get_node(tb, r.e), r |-> [r EXCEPT !.done = @ \/ tb.node[r.e].treelock = 0]]
    ELSE Wake1(r, IF r.first THEN NotTried(tb) ELSE try_get_path(tb, r.n1, r.nm1, r.wr), isFirst)

\* Mutant: only the first element of the queue is tried.
M_wake_up_queued(tb, reqs) ==
    IF lockq = <<>> THEN [tb |-> tb, rq |-> reqs]
    ELSE [tb |-> queue_element_wakeup(tb, reqs[Head(lockq)], FALSE).tb,
          rq |-> [reqs EXCEPT ![Head(lockq)] = queue_element_wakeup(tb, @, FALSE).r]]

\* wake_up_queued: every element of the queue, in order.
Apply(acc, t, q) == [tb |-> q.tb, rq |-> [acc.rq EXCEPT ![t] = q.r]]
wake_up_queued(tb, reqs) ==
    FoldLeft(LAMBDA acc, t : Apply(acc, t, queue_element_wakeup(acc.tb, acc.rq[t], t = Head(lockq))),
             [tb |-> tb, rq |-> reqs], lockq)

-----------------------------------------------------------------------------
(* The request handlers: their steps, in order.                              *)

\* getattr and setattr of an open file may do without the path.
PathUnless(cbs) == IF cbs \subseteq Implemented THEN "get_path_nullok" ELSE "get_path"

fuse_lib_lookup      == <<"get_path", "getattr", "find_node", "free_path", "reply_entry">>
LookupDot            == <<"dot", "get_path", "getattr", "find_node", "free_path", "undot", "reply_entry">>
LookupDotDot         == <<"dotdot", "get_path", "getattr", "find_node", "free_path", "reply_entry">>
fuse_lib_forget      == <<"forget">>
fuse_lib_getattr     == <<"get_path", "getattr", "free_path", "get_node", "reply">>
fuse_lib_fgetattr    == <<PathUnless({"fgetattr"}), "fgetattr", "free_path", "get_node", "reply">>
fuse_lib_setattr     == <<"get_path", "chmod", "chown", "truncate", "utimens", "getattr", "free_path", "reply">>
fuse_lib_fsetattr    == <<PathUnless({"ftruncate", "fgetattr"}), "ftruncate", "fgetattr", "free_path", "reply">>
fuse_lib_access      == <<"get_path", "access", "free_path", "reply">>
fuse_lib_readlink    == <<"get_path", "readlink", "free_path", "reply">>
fuse_lib_mknod       == <<"get_path", "mknod", "getattr", "find_node", "release", "free_path", "reply_entry">>
fuse_lib_mkdir       == <<"get_path", "mkdir", "getattr", "find_node", "free_path", "reply_entry">>
fuse_lib_unlink      == <<"get_path", "is_open", "unlink", "remove_node", "free_path", "reply">>
fuse_lib_rmdir       == <<"get_path", "rmdir", "remove_node", "free_path", "reply">>
fuse_lib_symlink     == <<"get_path", "symlink", "getattr", "find_node", "free_path", "reply_entry">>
fuse_lib_rename      == <<"get_path", "is_open", "rename", "rename_node", "free_path", "reply">>
fuse_lib_link        == <<"get_path", "link", "getattr", "find_node", "free_path", "reply_entry">>
fuse_do_release      == <<"release", "drop_open">>
fuse_lib_create      == <<"get_path", "create", "getattr", "find_node", "is_reg", "inc_open",
                          "reply_create", "free_path">>
fuse_lib_open        == <<"get_path", "open", "inc_open", "reply_open", "free_path">>
fuse_lib_read        == <<"get_path_nullok", "read_buf", "free_path", "reply">>
fuse_lib_write_buf   == <<"get_path_nullok", "write_buf", "free_path", "reply">>
fuse_lib_fsync       == <<"get_path_nullok", "fsync", "free_path", "reply">>
fuse_lib_opendir     == <<"get_path", "opendir", "reply_opendir", "free_path">>
fuse_lib_readdir     == <<"get_path_nullok", "readdir", "free_path", "reply">>
fuse_lib_releasedir  == <<"get_path_ignored", "releasedir", "free_path", "reply">>
fuse_lib_fsyncdir    == <<"get_path_nullok", "fsyncdir", "free_path", "reply">>
fuse_lib_statfs      == <<"get_path", "statfs", "free_path", "reply">>
fuse_lib_setxattr    == <<"get_path", "setxattr", "free_path", "reply">>
fuse_lib_getxattr    == <<"get_path", "getxattr", "free_path", "reply">>
fuse_lib_listxattr   == <<"get_path", "listxattr", "free_path", "reply">>
fuse_lib_removexattr == <<"get_path", "removexattr", "free_path", "reply">>
fuse_flush_common    == <<"flush", "unlock">> \o (IF "lock" \in Implemented THEN <<"get_node">> ELSE <<>>)
fuse_lib_release(flush) == <<"get_path_ignored">> \o (IF flush THEN fuse_flush_common ELSE <<>>)
                             \o fuse_do_release \o <<"free_path", "reply">>
fuse_lib_flush       == <<"get_path_ignored">> \o fuse_flush_common \o <<"free_path", "reply">>
fuse_lib_getlk       == <<"get_node", "get_path_nullok", "lock", "free_path", "reply">>
fuse_lib_setlk       == <<"get_path_nullok", "lock", "free_path", "get_node", "reply">>
fuse_lib_flock       == <<"get_path_nullok", "flock", "free_path", "reply">>
fuse_lib_bmap        == <<"get_path", "bmap", "free_path", "reply">>
fuse_lib_ioctl       == <<"get_path_nullok", "ioctl", "free_path", "reply">>
fuse_lib_poll        == <<"get_path_nullok", "poll", "free_path", "reply">>
fuse_lib_fallocate   == <<"get_path_nullok", "fallocate", "free_path", "reply">>

\* hide_node, entered when the file to go is still open.
hide_node == <<"hidden_name", "hide", "rename_hidden">>

\* fuse_path_ops: the requests by the arguments they take.
NodeOps ==
    [getattr |-> fuse_lib_getattr, setattr |-> fuse_lib_setattr, access |-> fuse_lib_access,
     readlink |-> fuse_lib_readlink, open |-> fuse_lib_open, opendir |-> fuse_lib_opendir,
     statfs |-> fuse_lib_statfs, setxattr |-> fuse_lib_setxattr, getxattr |-> fuse_lib_getxattr,
     listxattr |-> fuse_lib_listxattr, removexattr |-> fuse_lib_removexattr, bmap |-> fuse_lib_bmap,
     readdir |-> fuse_lib_readdir, releasedir |-> fuse_lib_releasedir, fsyncdir |-> fuse_lib_fsyncdir]
HandleOps ==
    [fgetattr |-> fuse_lib_fgetattr, fsetattr |-> fuse_lib_fsetattr,
     read |-> fuse_lib_read, write_buf |-> fuse_lib_write_buf, fsync |-> fuse_lib_fsync,
     flush |-> fuse_lib_flush, release |-> fuse_lib_release(FALSE),
     release_flush |-> fuse_lib_release(TRUE), getlk |-> fuse_lib_getlk,
     setlk |-> fuse_lib_setlk, flock |-> fuse_lib_flock, ioctl |-> fuse_lib_ioctl,
     poll |-> fuse_lib_poll, fallocate |-> fuse_lib_fallocate]
MakeOps ==
    [lookup |-> fuse_lib_lookup, mknod |-> fuse_lib_mknod, mkdir |-> fuse_lib_mkdir,
     symlink |-> fuse_lib_symlink, create |-> fuse_lib_create]

Replies == {"reply", "reply_entry", "reply_open", "reply_opendir", "reply_create"}

\* The steps left after an error: the locked path is given back, the opened
\* file released, and the reply carries the error.
OnError(r) ==
    LET looking == Head(r.todo) \in {"getattr", "find_node"}
        kept == SelectSeq(Tail(r.todo), LAMBDA s : \/ s \in Replies \cup {"undot"}
                                                   \/ s = "free_path" /\ r.path1 # Null
                                                   \/ s = "release" /\ looking)
        created == looking /\ "inc_open" \in ToSet(r.todo)
    IN  (IF created THEN <<"release">> ELSE <<>>)
          \o [i \in DOMAIN kept |-> IF kept[i] \in Replies THEN "reply" ELSE kept[i]]

At(t, step) == Head(rq[t].todo) = step /\ t \notin ToSet(lockq)

\* The request after its first step; a thread whose program is over is idle.
Step(r, todo) == IF todo = <<>> THEN Idle ELSE [r EXCEPT !.todo = todo]
Next1(t) == Step(rq[t], Tail(rq[t].todo))
Error1(t) == Step(rq[t], OnError(rq[t]))
Goto(t, r) == rq' = [rq EXCEPT ![t] = r]
External == <<fs, klook, kopen, abandons>>

-----------------------------------------------------------------------------
(* Steps of a worker thread.                                                 *)

\* get_path_common and get_path2: lock the path or join the queue.
GetPath(t) ==
    /\ At(t, "get_path") \/ At(t, "get_path_nullok") \/ At(t, "get_path_ignored")
    /\ IF NoPath /\ Head(rq[t].todo) # "get_path"
       THEN Goto(t, Next1(t)) /\ UNCHANGED <<tab, lockq>>
       ELSE \E a \in {IF rq[t].n2 = Null THEN try_get_path(tab, rq[t].n1, rq[t].nm1, rq[t].wr)
                      ELSE try_get_path2(tab, rq[t])} :
              /\ tab' = a.tb
              /\ \/ a.err = EAGAIN /\ lockq' = Append(lockq, t) /\ UNCHANGED rq
                 \/ /\ a.err = 0 /\ UNCHANGED lockq
                    /\ Goto(t, IF rq[t].n2 = Null THEN Take1(Next1(t), a)
                               ELSE [Next1(t) EXCEPT !.path1 = a.path1, !.path2 = a.path2,
                                                     !.w1 = a.w1, !.w2 = a.w2])
                 \/ /\ a.err = ENOENT /\ UNCHANGED lockq
                    /\ Goto(t, IF Head(rq[t].todo) = "get_path_ignored" THEN Next1(t) ELSE Error1(t))
    /\ UNCHANGED External

\* wait_path returns: the thread leaves the queue with the path or the error
\* another thread has put into its element.
WaitPath(t) ==
    /\ t \in ToSet(lockq) /\ rq[t].done /\ Head(rq[t].todo) # "forget"
    /\ LET r == [rq[t] EXCEPT !.done = FALSE, !.err = 0, !.first = FALSE, !.second = FALSE]
           mayLack == Head(r.todo) = "get_path_ignored"
       IN  Goto(t, Step(r, IF rq[t].err = 0 \/ mayLack THEN Tail(r.todo) ELSE OnError(r)))
    /\ lockq' = SelectSeq(lockq, LAMBDA u : u # t)
    /\ UNCHANGED <<tab, External>>

\* free_path, free_path_wrlock, free_path2: unlock and wake the queue.
FreePath(t) ==
    /\ At(t, "free_path")
    /\ LET r == rq[t]
           one == unlock_path(tab, r.n1, r.w1)
           both == IF r.n2 = Null THEN one ELSE unlock_path(one, r.n2, r.w2)
       IN  IF r.path1 = Null
           THEN Goto(t, Next1(t)) /\ UNCHANGED tab
           ELSE \E woken \in {wake_up_queued(both, [rq EXCEPT ![t] = NoPaths(Next1(t))])} :
                   tab' = woken.tb /\ rq' = woken.rq
    /\ UNCHANGED <<lockq, External>>

\* forget_node waits while the node is locked: open, create and opendir answer
\* before they free their path.
MustWait(r) == tab.node[r.e].nlookup = r.cnt /\ tab.node[r.e].treelock # 0

ForgetNode(t) ==
    /\ At(t, "forget")
    /\ IF MustWait(rq[t])
       THEN /\ lockq' = Append(lockq, t)
            /\ tab' = get_node(tab, rq[t].e)
            /\ UNCHANGED rq
       ELSE /\ tab' = forget(tab, rq[t].e, rq[t].cnt)
            /\ Goto(t, Next1(t))
            /\ UNCHANGED lockq
    /\ UNCHANGED External

WaitForget(t) ==
    /\ t \in ToSet(lockq) /\ rq[t].done /\ Head(rq[t].todo) = "forget"
    /\ IF MustWait(rq[t])
       THEN Goto(t, [rq[t] EXCEPT !.done = FALSE]) /\ UNCHANGED <<tab, lockq>>
       ELSE /\ tab' = forget(tab, rq[t].e, rq[t].cnt)
            /\ Goto(t, [Next1(t) EXCEPT !.done = FALSE])
            /\ lockq' = SelectSeq(lockq, LAMBDA u : u # t)
    /\ UNCHANGED External

\* The steps under f->lock that touch the node table.
NodeStep(t, step, tb, r) ==
    /\ At(t, step)
    /\ tab' = tb
    /\ Goto(t, r)
    /\ UNCHANGED <<lockq, External>>

FindNode(t) ==
    LET r == rq[t]
        f == IF r.n2 = Null THEN find_node(tab, r.n1, r.nm1, r.obj)
                            ELSE find_node(tab, r.n2, r.nm2, r.obj)
    IN  NodeStep(t, "find_node", f.tb,
                 IF f.n = Null THEN Error1(t) ELSE [Next1(t) EXCEPT !.e = f.n, !.cnt = 1])

RemoveNode(t) == NodeStep(t, "remove_node", remove_node(tab, rq[t].n1, rq[t].nm1), Next1(t))

RenameNode(t) ==
    LET r == rq[t] IN
    NodeStep(t, "rename_node", rename_node(tab, r.n1, r.nm1, r.n2, r.nm2, FALSE).tb, Next1(t))

\* The entry that unlink removes or rename replaces.
Victim(r) == IF r.n2 = Null THEN [p |-> r.n1, nm |-> r.nm1, path |-> r.path1]
                            ELSE [p |-> r.n2, nm |-> r.nm2, path |-> r.path2]

\* is_open: an open file is hidden instead of removed.
IsOpen(t) ==
    LET r == rq[t]
        v == Victim(r)
        n == lookup_node(tab, v.p, v.nm)
        open == ~HardRemove /\ n # Null /\ tab.node[n].open_count > 0
        rest == Tail(r.todo)
        skip == IF Head(rest) = "unlink" THEN Tail(Tail(rest)) ELSE rest
    IN  NodeStep(t, "is_open", tab, Step(r, IF open THEN hide_node \o skip ELSE rest))

\* hidden_name: a name that neither the table nor the file system has.  It gives
\* up (EBUSY) when the file has gone, or after ten names that are taken.
HiddenNameStep(t) ==
    LET r == rq[t]
        v == Victim(r)
        free == {h \in HiddenName : /\ lookup_node(tab, v.p, h) = Null
                                    /\ PathOf(tab, v.p, h) \notin DOMAIN fs}
        name == CHOOSE h \in free : TRUE
        found == lookup_node(tab, v.p, v.nm) # Null /\ Connected(tab, v.p) /\ free # {}
    IN  NodeStep(t, "hidden_name", tab,
                 IF found THEN [Next1(t) EXCEPT !.hid = name] ELSE Error1(t))

RenameHidden(t) ==
    LET v == Victim(rq[t])
        res == rename_node(tab, v.p, v.nm, v.p, rq[t].hid, TRUE)
    IN  NodeStep(t, "rename_hidden", res.tb, IF res.err THEN Error1(t) ELSE Next1(t))

\* open and create count the open file before they answer.
IncOpen(t) ==
    NodeStep(t, "inc_open", [get_node(tab, rq[t].e) EXCEPT !.node[rq[t].e].open_count = @ + 1],
             Next1(t))

\* fuse_do_release: the last close of a hidden file removes it.
DropOpen(t) ==
    LET r == rq[t]
        nd == tab.node[r.e]
        last == nd.is_hidden /\ nd.open_count = 1
        more == CASE ~last -> <<>>
                  [] last /\ r.path1 # Null -> <<"unlink_hidden">>
                  [] last /\ r.path1 = Null /\ NoPath -> <<"get_path", "unlink_hidden", "free_path">>
                  [] OTHER -> <<>>
    IN  NodeStep(t, "drop_open",
                 [Fail(get_node(tab, r.e), nd.open_count < 1)
                    EXCEPT !.node[r.e].open_count = @ - 1,
                           !.node[r.e].is_hidden = @ /\ ~last],
                 Step(r, more \o Tail(r.todo)))

\* get_node on the request's own node, which aborts if the node is gone.
GetNode(t) == NodeStep(t, "get_node", get_node(tab, rq[t].n1), Next1(t))

\* fuse_lib_lookup of "." (from an NFS file handle, so that the node may be
\* unknown) and of "..".
Dot(t) ==
    LET n == rq[t].n1 IN
    NodeStep(t, "dot",
             IF tab.node[n].used THEN [tab EXCEPT !.node[n].refctr = @ + 1] ELSE tab,
             IF tab.node[n].used THEN [Next1(t) EXCEPT !.dot = n]
             ELSE Step(rq[t], <<"reply">>))

Undot(t) == NodeStep(t, "undot", unref_node(tab, rq[t].dot), [Next1(t) EXCEPT !.dot = Null])

DotDot(t) ==
    LET p == tab.node[rq[t].n1].parent IN
    NodeStep(t, "dotdot", Fail(get_node(tab, rq[t].n1), p = Null),
             [Next1(t) EXCEPT !.n1 = IF p = Null THEN @ ELSE p])

\* create on something that is no regular file is undone.
IsReg(t) ==
    NodeStep(t, "is_reg", tab,
             IF rq[t].obj \in FileObj THEN Next1(t)
             ELSE Step(rq[t], <<"release", "forget">> \o OnError(rq[t])))

-----------------------------------------------------------------------------
(* External: the file system behind the callbacks, addressed by path.        *)

IsDir(p) == p \in DOMAIN fs /\ fs[p] \in DirObj
Children(p) == {q \in DOMAIN fs : q # <<>> /\ Front(q) = p}
Fresh(kind) == {o \in kind : /\ \A p \in DOMAIN fs : fs[p] # o
                             /\ \A n \in NodeId : tab.node[n].obj # o
                             /\ \A t \in Thread : rq[t].obj # o}
Put(p, o) == [q \in DOMAIN fs \cup {p} |-> IF q = p THEN o ELSE fs[q]]
Cut(p) == [q \in DOMAIN fs \ {p} |-> fs[q]]

New(p, kind) ==
    IF p \in DOMAIN fs \/ ~IsDir(Front(p)) \/ Fresh(kind) = {} THEN {}
    ELSE {Put(p, CHOOSE o \in Fresh(kind) : TRUE)}

Move(p, q) ==
    LET fits == \/ q \notin DOMAIN fs
                \/ fs[p] \in FileObj /\ fs[q] \in FileObj
                \/ fs[p] \in DirObj /\ fs[q] \in DirObj /\ Children(q) = {}
        moved == {x \in DOMAIN fs : IsPrefix(p, x)}
        kept == {x \in DOMAIN fs : ~IsPrefix(p, x) /\ ~IsPrefix(q, x)}
        to(x) == q \o SubSeq(x, Len(p) + 1, Len(x))
        from(y) == p \o SubSeq(y, Len(q) + 1, Len(y))
    IN  IF p \notin DOMAIN fs \/ ~IsDir(Front(q)) \/ IsPrefix(p, q) \/ ~fits THEN {}
        ELSE {[y \in kept \cup {to(x) : x \in moved} |-> IF y \in kept THEN fs[y] ELSE fs[from(y)]]}

\* The forwarders fuse_fs_*, in the order of the source: what is done for a
\* callback the file system does not have.  "ok" is the answer 0, a name the
\* callback that is used instead.
MissingTreeCall ==
    [getattr |-> "ENOSYS", fgetattr |-> "getattr", rename |-> "ENOSYS", unlink |-> "ENOSYS",
     rmdir |-> "ENOSYS", symlink |-> "ENOSYS", link |-> "ENOSYS", release |-> "ok"]
MissingOpenCall == [opendir |-> "ok", open |-> "ok"]
MissingDataCall == [read_buf |-> "read", write_buf |-> "write"]
MissingSyncCall ==
    [fsync |-> "ENOSYS", fsyncdir |-> "ENOSYS", flush |-> "ENOSYS", statfs |-> "ok",
     releasedir |-> "ok", readdir |-> "getdir", create |-> "ENOSYS"]
MissingLockCall == [lock |-> "ENOSYS", flock |-> "ENOSYS", chown |-> "ENOSYS", truncate |-> "ENOSYS"]
MissingAttrCall ==
    [ftruncate |-> "truncate", utimens |-> "utime", access |-> "ENOSYS", readlink |-> "ENOSYS",
     mknod |-> "ENOSYS", mkdir |-> "ENOSYS"]
MissingXattrCall ==
    [setxattr |-> "ENOSYS", getxattr |-> "ENOSYS", listxattr |-> "ENOSYS", bmap |-> "ENOSYS",
     removexattr |-> "ENOSYS", ioctl |-> "ENOSYS", poll |-> "ENOSYS", fallocate |-> "ENOSYS"]
Missing == MissingTreeCall @@ MissingOpenCall @@ MissingDataCall @@ MissingSyncCall @@ MissingLockCall
             @@ MissingAttrCall @@ MissingXattrCall @@ [chmod |-> "ENOSYS"]

\* Whether fuse_fs_<cb> calls the file system, answers 0, or fails at once.
\* fgetattr and ftruncate fall back to the callback on the path only if there is one.
fuse_fs(cb, path) ==
    IF \/ cb \in Implemented
       \/ Missing[cb] \in Implemented /\ (cb \in {"fgetattr", "ftruncate"} => path # Null)
    THEN "call"
    ELSE IF Missing[cb] = "ok" THEN "ok" ELSE "ENOSYS"

\* The callback a step calls: fuse_fs_<callback>.
Callback(step) ==
    CASE step = "hide" -> "rename"
      [] step = "unlink_hidden" -> "unlink"
      [] step = "unlock" -> "lock"
      [] step = "mknod" /\ "create" \in Implemented -> "create"
      [] OTHER -> step

\* What the file system may be after the call, if it succeeds.
Effects(r, step) ==
    LET v == Victim(r) IN
    CASE step \in {"mknod", "symlink"} -> New(r.path1, FileObj)
      [] step = "mkdir" -> New(r.path1, DirObj)
      [] step = "create" -> IF r.path1 \in DOMAIN fs THEN {fs} ELSE New(r.path1, FileObj)
      [] step = "open" -> IF r.path1 \in DOMAIN fs THEN {fs} ELSE {}
      [] step = "getattr" -> IF v.path \in DOMAIN fs THEN {fs} ELSE {}
      [] step = "unlink" -> IF r.path1 \in DOMAIN fs /\ fs[r.path1] \in FileObj THEN {Cut(r.path1)} ELSE {}
      [] step = "unlink_hidden" -> IF r.path1 \in DOMAIN fs /\ fs[r.path1] \in FileObj THEN {Cut(r.path1)} ELSE {}
      [] step = "rmdir" -> IF IsDir(r.path1) /\ Children(r.path1) = {} THEN {Cut(r.path1)} ELSE {}
      [] step = "rename" -> Move(r.path1, r.path2)
      [] step = "hide" -> Move(v.path, PathOf(tab, v.p, r.hid))
      [] step = "link" -> IF /\ r.path1 \in DOMAIN fs /\ fs[r.path1] \in FileObj
                             /\ r.path2 \notin DOMAIN fs /\ IsDir(Front(r.path2))
                          THEN {Put(r.path2, fs[r.path1])} ELSE {}

StatefulSteps == {"mknod", "symlink", "mkdir", "create", "open", "getattr", "unlink", "unlink_hidden",
                  "rmdir", "rename", "hide", "link"}

PlainSteps == (DOMAIN Missing \ StatefulSteps) \cup {"unlock"}

\* Calls whose failure changes nothing but the error in the reply.
IgnoredSteps == {"flush", "unlock", "release", "releasedir"}

FsCall(t) ==
    /\ Head(rq[t].todo) \in StatefulSteps /\ t \notin ToSet(lockq)
    /\ LET r == rq[t]
           step == Head(r.todo)
           how == fuse_fs(Callback(step), r.path1)
           results == IF how = "call" THEN Effects(r, step) ELSE IF how = "ok" THEN {fs} ELSE {}
           obj(f) == IF step = "getattr" THEN f[Victim(r).path] ELSE r.obj
           rest == IF step = "mknod" /\ Callback(step) # "create"
                   THEN SelectSeq(Tail(r.todo), LAMBDA s : s # "release") ELSE Tail(r.todo)
       IN  \/ \E f \in results : fs' = f /\ Goto(t, [Step(r, rest) EXCEPT !.obj = obj(f)])
           \/ /\ results = {} \/ (how = "call" /\ Callback(step) \notin Unfailing)
              /\ Goto(t, IF step = "unlink_hidden" THEN Next1(t) ELSE Error1(t))
              /\ UNCHANGED fs
    /\ UNCHANGED <<tab, lockq, klook, kopen, abandons>>

\* The callbacks that do not touch the tree of files.
PlainCall(t) ==
    /\ Head(rq[t].todo) \in PlainSteps /\ t \notin ToSet(lockq)
    /\ LET step == Head(rq[t].todo)
           how == fuse_fs(Callback(step), rq[t].path1)
       IN  \/ (how # "ENOSYS" \/ step \in IgnoredSteps) /\ Goto(t, Next1(t))
           \/ how # "ok" /\ step \notin IgnoredSteps \cup Unfailing /\ Goto(t, Error1(t))
    /\ UNCHANGED <<tab, lockq, External>>

-----------------------------------------------------------------------------
(* Replies.  The kernel lets go of the directories and nodes of a request    *)
(* when it is answered; to a request it has abandoned, the reply is ENOENT.   *)

Answered(r, todo) == Step([r EXCEPT !.dirs = {}, !.pins = {}, !.gone = FALSE], todo)
Rest(t) == Tail(rq[t].todo)

Reply(t) ==
    /\ At(t, "reply")
    /\ Goto(t, Answered(rq[t], Rest(t)))
    /\ UNCHANGED <<tab, lockq, External>>

ReplyEntry(t) ==
    /\ At(t, "reply_entry")
    /\ Goto(t, Answered(rq[t], (IF rq[t].gone THEN <<"forget">> ELSE <<>>) \o Rest(t)))
    /\ klook' = IF rq[t].gone THEN klook ELSE [klook EXCEPT ![rq[t].e] = @ + 1]
    /\ UNCHANGED <<tab, lockq, fs, kopen, abandons>>

ReplyOpen(t) ==
    /\ At(t, "reply_open")
    /\ Goto(t, Answered(rq[t], (IF rq[t].gone THEN fuse_do_release ELSE <<>>) \o Rest(t)))
    /\ kopen' = IF rq[t].gone THEN kopen ELSE [kopen EXCEPT ![rq[t].e] = @ + 1]
    /\ UNCHANGED <<tab, lockq, fs, klook, abandons>>

ReplyOpendir(t) ==
    /\ At(t, "reply_opendir")
    /\ Goto(t, Answered(rq[t], (IF rq[t].gone THEN <<"releasedir">> ELSE <<>>) \o Rest(t)))
    /\ UNCHANGED <<tab, lockq, External>>

ReplyCreate(t) ==
    /\ At(t, "reply_create")
    /\ Goto(t, Answered(rq[t], (IF rq[t].gone THEN fuse_do_release \o <<"forget">> ELSE <<>>) \o Rest(t)))
    /\ klook' = IF rq[t].gone THEN klook ELSE [klook EXCEPT ![rq[t].e] = @ + 1]
    /\ kopen' = IF rq[t].gone THEN kopen ELSE [kopen EXCEPT ![rq[t].e] = @ + 1]
    /\ UNCHANGED <<tab, lockq, fs, abandons>>

-----------------------------------------------------------------------------
(* External: the kernel.  It names only nodes it has looked up, keeps them    *)
(* while a request on them is unanswered, and holds the mutex of a directory  *)
(* while it changes or searches it.  Nobody renames or removes a hidden file  *)
(* by its hidden name.                                                        *)

Known(n) == n = Root \/ klook[n] > 0
KnownDir(n) == Known(n) /\ (n = Root \/ tab.node[n].obj \in DirObj)
Mutex(dirs) == \A t \in Thread : rq[t].dirs \cap dirs = {}

Send(t, r) ==
    /\ Goto(t, r)
    /\ UNCHANGED <<tab, lockq, fs, abandons>>

SendNodeOp(t, op, n) ==
    /\ Known(n)
    /\ op = "open" => /\ n # Root /\ tab.node[n].obj \in FileObj
                      /\ tab.node[n].open_count < MaxOpen
    /\ Send(t, [Idle EXCEPT !.todo = NodeOps[op], !.n1 = n, !.e = n, !.pins = {n}])
    /\ UNCHANGED <<klook, kopen>>

SendHandleOp(t, op, n) ==
    /\ kopen[n] > 0
    /\ kopen' = IF op \in {"release", "release_flush"} THEN [kopen EXCEPT ![n] = @ - 1] ELSE kopen
    /\ Send(t, [Idle EXCEPT !.todo = HandleOps[op], !.n1 = n, !.e = n, !.pins = {n}])
    /\ UNCHANGED klook

SendMakeOp(t, op, p, nm) ==
    LET c == lookup_node(tab, p, nm) IN
    /\ KnownDir(p) /\ Mutex({p})
    /\ c # Null => tab.node[c].nlookup < MaxLookup
    /\ nm \in HiddenName => op = "lookup"
    /\ Send(t, [Idle EXCEPT !.todo = MakeOps[op], !.n1 = p, !.nm1 = nm,
                                !.dirs = {p}, !.pins = {p}])
    /\ UNCHANGED <<klook, kopen>>

SendDot(t, n) ==
    /\ tab.node[n].nlookup < MaxLookup
    /\ Send(t, [Idle EXCEPT !.todo = LookupDot, !.n1 = n])
    /\ UNCHANGED <<klook, kopen>>

SendDotDot(t, n) ==
    /\ KnownDir(n) /\ n # Root /\ Connected(tab, n)
    /\ tab.node[n].parent # Root /\ tab.node[tab.node[n].parent].nlookup < MaxLookup
    /\ Send(t, [Idle EXCEPT !.todo = LookupDotDot, !.n1 = n, !.pins = {n}])
    /\ UNCHANGED <<klook, kopen>>

SendRemove(t, op, p, nm) ==
    LET c == lookup_node(tab, p, nm) IN
    /\ KnownDir(p) /\ c # Null /\ Known(c) /\ Mutex({p, c})
    /\ tab.node[c].obj \in (IF op = "unlink" THEN FileObj ELSE DirObj)
    /\ Send(t, [Idle EXCEPT !.todo = IF op = "unlink" THEN fuse_lib_unlink ELSE fuse_lib_rmdir,
                                !.n1 = p, !.nm1 = nm, !.wr = TRUE,
                                !.dirs = {p, c}, !.pins = {p, c}])
    /\ UNCHANGED <<klook, kopen>>

\* Renames between directories are one at a time, never of a directory into
\* itself and never between two names of one file.
SendRename(t, p, nm, q, newnm) ==
    LET c == lookup_node(tab, p, nm)
        d == lookup_node(tab, q, newnm)
        across(r) == r.todo # <<>> /\ r.wr /\ r.n2 # Null /\ r.n1 # r.n2 /\ r.dirs # {}
    IN
    /\ KnownDir(p) /\ KnownDir(q) /\ c # Null /\ Known(c) /\ c # d
    /\ d # Null => Known(d) /\ (tab.node[c].obj \in DirObj <=> tab.node[d].obj \in DirObj)
                   /\ tab.node[c].obj # tab.node[d].obj
    /\ Mutex({p, q} \cup {d})
    /\ p # q => \A u \in Thread : ~across(rq[u])
    /\ c \notin ToSet(Chain(tab, q)) /\ d \notin ToSet(Chain(tab, p))
    /\ Send(t, [Idle EXCEPT !.todo = fuse_lib_rename, !.wr = TRUE,
                            !.n1 = p, !.nm1 = nm, !.n2 = q, !.nm2 = newnm,
                            !.dirs = {p, q} \cup ({d} \ {Null}),
                            !.pins = {p, q, c} \cup ({d} \ {Null})])
    /\ UNCHANGED <<klook, kopen>>

SendLink(t, n, q, newnm) ==
    /\ n # Root /\ Known(n) /\ tab.node[n].obj \in FileObj /\ KnownDir(q) /\ Mutex({q})
    /\ lookup_node(tab, q, newnm) = Null
    /\ Send(t, [Idle EXCEPT !.todo = fuse_lib_link, !.n1 = n, !.n2 = q, !.nm2 = newnm,
                                    !.dirs = {q}, !.pins = {n, q}])
    /\ UNCHANGED <<klook, kopen>>

SendForget(t, n) ==
    /\ klook[n] > 0 /\ kopen[n] = 0
    /\ \A u \in Thread : n \notin rq[u].pins
    /\ Send(t, [Idle EXCEPT !.todo = fuse_lib_forget, !.e = n, !.cnt = klook[n]])
    /\ klook' = [klook EXCEPT ![n] = 0]
    /\ UNCHANGED kopen

\* A signal interrupts the system call: the kernel gives up waiting.
Abandon(t) ==
    /\ ToSet(rq[t].todo) \cap Abandoned # {} /\ ~rq[t].gone /\ abandons < MaxAbandon
    /\ Goto(t, [rq[t] EXCEPT !.gone = TRUE, !.dirs = {}])
    /\ abandons' = abandons + 1
    /\ UNCHANGED <<tab, lockq, fs, klook, kopen>>

\* The cleanup thread (or the loop of fuse_session_loop_remember).  A node has
\* its turn when it has been on the list for conf.remember seconds, which may be at
\* any time; nobody looks whether a request still has it locked.
CleanCache(n) ==
    /\ tab.node[n].used /\ tab.node[n].lru /\ tab.node[n].refctr = 1
    /\ tab' = fuse_clean_cache(tab, n)
    /\ UNCHANGED <<lockq, rq, External>>

-----------------------------------------------------------------------------
Init ==
    /\ \E remember \in Remember :
       tab = [node |-> [n \in Ino |-> IF n = Root
                                      THEN [Unused EXCEPT !.used = TRUE, !.name = "/", !.nlookup = 1,
                                                          !.refctr = 1, !.obj = InitFs[<<>>]]
                                      ELSE Unused],
              remember |-> remember, bad |-> FALSE]
    /\ lockq = <<>>
    /\ rq = [t \in Thread |-> Idle]
    /\ fs = InitFs
    /\ klook = [n \in Ino |-> 0]
    /\ kopen = [n \in Ino |-> 0]
    /\ abandons = 0

Kernel(t, sends) ==
    LET Sends(ops) == sends \cap ops IN
    /\ rq[t].todo = <<>>
    /\ \/ \E op \in Sends(DOMAIN NodeOps), n \in Ino : SendNodeOp(t, op, n)
       \/ \E op \in Sends(DOMAIN HandleOps), n \in NodeId : SendHandleOp(t, op, n)
       \/ \E op \in Sends(DOMAIN MakeOps), p \in Ino, nm \in AnyName : SendMakeOp(t, op, p, nm)
       \/ \E op \in Sends({"unlink", "rmdir"}), p \in Ino, nm \in Name : SendRemove(t, op, p, nm)
       \/ \E op \in Sends({"rename"}), p, q \in Ino, nm, newnm \in Name :
             SendRename(t, p, nm, q, newnm)
       \/ \E op \in Sends({"link"}), n \in NodeId, q \in Ino, newnm \in Name : SendLink(t, n, q, newnm)
       \/ \E op \in Sends({"lookup_dot"}), n \in NodeId : SendDot(t, n)
       \/ \E op \in Sends({"lookup_dotdot"}), n \in NodeId : SendDotDot(t, n)
       \/ \E op \in Sends({"forget"}), n \in NodeId : SendForget(t, n)

Worker(t) ==
    /\ rq[t].todo # <<>>
    /\ \/ GetPath(t) \/ WaitPath(t) \/ FreePath(t) \/ ForgetNode(t) \/ WaitForget(t)
       \/ FindNode(t) \/ RemoveNode(t) \/ RenameNode(t) \/ IsOpen(t) \/ HiddenNameStep(t)
       \/ RenameHidden(t) \/ IncOpen(t) \/ DropOpen(t) \/ GetNode(t) \/ Dot(t) \/ Undot(t)
       \/ DotDot(t) \/ IsReg(t) \/ FsCall(t) \/ PlainCall(t) \/ Reply(t) \/ ReplyEntry(t)
       \/ ReplyOpen(t) \/ ReplyOpendir(t) \/ ReplyCreate(t)

Next ==
    \/ \E t \in Thread : Kernel(t, Ops) \/ Worker(t) \/ Abandon(t)
    \/ \E n \in NodeId : CleanCache(n)

Spec == Init /\ [][Next]_vars

\* A thread can go on unless it waits in the queue.
Runnable(t) == rq[t].todo # <<>> /\ (t \in ToSet(lockq) => rq[t].done)

-----------------------------------------------------------------------------
(* Properties.                                                               *)

\* Type invariant.
TreeTypeOK ==
    /\ \A n \in Ino : /\ tab.node[n].parent \in Ino \cup {Null}
                      /\ tab.node[n].nlookup \in Nat /\ tab.node[n].refctr \in Nat
                      /\ tab.node[n].treelock \in Int /\ tab.node[n].open_count \in Nat
    /\ ToSet(lockq) \subseteq Thread /\ Cardinality(ToSet(lockq)) = Len(lockq)
    /\ \A t \in Thread : rq[t].n1 \in Ino \cup {Null} /\ rq[t].n2 \in Ino \cup {Null}
    /\ klook \in [Ino -> Nat] /\ kopen \in [Ino -> Nat]

\* No assert of the library fails, get_node always finds the node, and no
\* unlocking runs off a path that has lost its root.
NoAbort == ~tab.bad

\* The paths locked for thread t: for each, the node it starts from and the
\* entry locked for writing.
Held(t) ==
    LET r == rq[t]
        queued == t \in ToSet(lockq) /\ Head(r.todo) # "forget"
        one == IF queued THEN r.first ELSE r.path1 # Null
        two == IF queued THEN r.second ELSE r.path2 # Null
    IN  (IF one THEN {[k |-> 1, n |-> r.n1, w |-> r.w1]} ELSE {})
          \cup (IF two THEN {[k |-> 2, n |-> r.n2, w |-> r.w2]} ELSE {})

\* treelock counts exactly the running requests that use the node: one writer
\* alone or any number of readers, and a waiting writer's mark only on top of
\* readers.  (A leaked or doubly released lock would block the node for ever or
\* let it be renamed under a request.)
LocksAccounted ==
    LET held == UNION {{<<t, h.k, h.w, ToSet(Chain(tab, h.n))>> : h \in Held(t)} : t \in Thread}
    IN  \A n \in NodeId :
           LET readers == Cardinality({x \in held : n \in x[4]})
               writers == Cardinality({x \in held : x[3] = n})
               lock == tab.node[n].treelock
           IN  \/ writers = 1 /\ readers = 0 /\ lock = TREELOCK_WRITE
               \/ writers = 0 /\ lock = readers
               \/ writers = 0 /\ readers > 0 /\ lock = readers + TREELOCK_WAIT_OFFSET

\* The state is well formed, no assert of the library fails, and the tree locks are
\* those of the running requests.
LocksSound == TreeTypeOK /\ NoAbort /\ LocksAccounted

\* A path stays the path of its node for as long as a request holds it, however
\* other requests rename, hide or remove what lies on it.
HeldPathsCurrent ==
    \A t \in Thread : t \notin ToSet(lockq) =>
       LET r == rq[t] IN
       /\ r.path1 # Null => Connected(tab, r.n1) /\ r.path1 = PathOf(tab, r.n1, r.nm1)
       /\ r.path2 # Null => Connected(tab, r.n2) /\ r.path2 = PathOf(tab, r.n2, r.nm2)

\* Lookups: those the kernel holds, those about to be answered, those about to
\* be forgotten, and the library's own under remember.
LookupsAccounted ==
    \A n \in NodeId : tab.node[n].used =>
       LET open(t) == rq[t].e = n /\ rq[t].cnt > 0
                       /\ ToSet(rq[t].todo) \cap {"forget", "reply_entry", "reply_create"} # {}
           own == IF tab.remember /\ tab.node[n].name # Null THEN 1 ELSE 0
       IN  tab.node[n].nlookup
             = klook[n] + own + FoldFunction(+, 0, [t \in Thread |-> IF open(t) THEN rq[t].cnt ELSE 0])

\* A node is referenced once by each of its children, once by its lookups and
\* once by each running lookup of "."; it is freed exactly when that is none.
RefsAccounted ==
    \A n \in NodeId :
       tab.node[n].refctr
         = Cardinality({c \in NodeId : tab.node[c].used /\ tab.node[c].parent = n})
           + (IF tab.node[n].nlookup > 0 THEN 1 ELSE 0)
           + Cardinality({t \in Thread : rq[t].dot = n})

\* All counts of a node are right: it lives exactly as long as someone refers to it.
CountsAccounted == LookupsAccounted /\ RefsAccounted

\* When no request runs, the tree of named nodes is a picture of the files: the
\* node of every name stands for the file that has that name (but for a hidden
\* file that was removed on its last close).
TreeMirrorsFs ==
    (\A t \in Thread : rq[t].todo = <<>>) =>
       \A n \in NodeId : tab.node[n].used /\ Connected(tab, n) =>
          \/ PathOf(tab, n, Null) \in DOMAIN fs /\ fs[PathOf(tab, n, Null)] = tab.node[n].obj
          \/ tab.node[n].name \in HiddenName /\ ~tab.node[n].is_hidden

\* A hidden file is there only for those who still have it open.
HiddenFilesOpen ==
    (\A t \in Thread : rq[t].todo = <<>>) =>
       \A p \in DOMAIN fs : (p # <<>> /\ Last(p) \in HiddenName) =>
          \E n \in NodeId : /\ tab.node[n].used /\ tab.node[n].is_hidden
                            /\ tab.node[n].open_count > 0 /\ PathOf(tab, n, Null) = p

\* An open file keeps its contents: what the kernel has open is in the file
\* system under some name, unless hard_remove is set.
OpenFilesKept ==
    (\A t \in Thread : rq[t].todo = <<>>) =>
       \A n \in NodeId : kopen[n] > 0 /\ ~HardRemove => \E p \in DOMAIN fs : fs[p] = tab.node[n].obj

\* Every request is answered, however requests wait for each other's paths: no
\* wake-up is lost and no two wait in a circle.  (For a kernel that sends finitely
\* many requests, so that the threads become idle together.)
RequestsAnswered == []<>(\A t \in Thread : rq[t].todo = <<>>)
=============================================================================
