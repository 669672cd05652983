# Caching file system: verification project

TLA+ models, TLC runs and TLAPS proofs for the caching file system of this repository: a
single-threaded FUSE file system that mirrors a root directory read-only and keeps file
blocks in a buffer cache with frequency-based replacement (FBR). The program is
`CachingFileSystem.cpp`, `CacheManager.{h,cpp}`, `CacheBlock.{h,cpp}` and
`logManager.{h,cpp}`. It is linked with the FUSE library kept in `resources/fuse-2.9.6`,
which does the concurrent part of the work for every file system: the second half of the
project is about that library. `resources/` also holds FUSE's tools, a tutorial and examples.

## 1. The system

### Components, their state and operations

| component | state | operations |
|---|---|---|
| `CacheManager` | `cacheChain` (linked list of blocks, most recently used first), `blocksMap` (block ID to list iterator), `middleSectionIter`, `oldSectionIter` | constructor, `retrieveBuffer`, `insertBlock`, `updatePaths`, `cacheToString`; private `findBlock` |
| `CacheBlock` | file ID, block number, buffer, path, section tag, reference count | constructor, `setSection`, `incrementRefCount`, `setPath`, getters |
| `caching_read` | local: block loop, bytes left, position in the caller's buffer | one call: look up, `pread` on a miss, insert, copy |
| `caching_rename` | none of its own | log-file check, `rename(2)`, `updatePaths` |
| other handlers | the descriptor or `DIR*` in `fi->fh` | `getattr`, `fgetattr`, `access`, `open`, `flush`, `release`, `opendir`, `readdir`, `releasedir`, `init`, `destroy`, `ioctl` |
| log | the open log file in the root directory | `log_call` from every handler, `ioctl_log` |
| `main` | root and log path | argument checks, construction of the cache, `fuse_main` with `-s` |
| FUSE, node tree (`fuse.c`) | nodes by ID and name with lookup, reference and open counts, `treelock`s, the queue of waiting requests, the list of remembered nodes | `fuse_lib_*` handlers, `try_get_path` and its relatives, `find_node`, `forget_node`, `rename_node`, `hide_node`, clean-up |
| FUSE, requests (`fuse_loop_mt.c`, `fuse_lowlevel.c`, `fuse_session.c`, `fuse_signals.c`) | workers and their counts, requests and pending interrupts, session flags | receive, process, answer, `do_interrupt`, `do_init`, `do_destroy`, start and join of workers, exit |
| FUSE, pipe (`fuse_lowlevel.c`) | one pipe per thread | receive, `do_write_buf`, `fuse_reply_data` by splice, fallbacks |
| FUSE, locks (`fuse.c`) | the list of POSIX locks of a node | `getlk`, `setlk`, unlock on `flush` |
| FUSE, buffers (`buffer.c`) | two vectors with positions | `fuse_buf_copy` |
| FUSE, tables and slabs (`fuse.c`) | hash tables of nodes, pages of nodes | insert, remove, grow, shrink; allocate, free |
| FUSE, listings (`fuse.c`) | contents and flags of a directory handle | `fill_dir`, `fuse_lib_readdir` |
| FUSE, options (`fuse_opt.c`) | arguments still to be passed on | `fuse_opt_parse`, four times |
| FUSE, start and end (`helper.c`, `mount.c`, `fuse.c`) | mount, descriptors, channel, session, handlers | `fuse_main` with every error path |
| FUSE, modules (`modules/subdir.c`, `modules/iconv.c`) | base path; conversion descriptors under a lock | every operation, forwarded with another path |

### Interaction

FUSE calls one handler at a time (`-s`). `caching_read` is the only one that puts blocks
into the cache or counts hits; `caching_rename` rewrites the paths of cached blocks;
`caching_ioctl` prints the cache to the log. A block is keyed by inode and block number,
so a rename does not lose it. The log file lives in the root directory and every handler
is meant to hide it.

### What is hard

Nothing is persisted, and the caching file system itself has no concurrency: `main` passes `-s`.
There the difficulty is in the pointers and the arithmetic (the first items below). The library
is written for many threads, and for a kernel that abandons requests, and this is where
its difficulty lies (the last ones):

* three redundant structures (list, map, boundaries) plus a section tag per block describe
  one order, and every hit and every insertion updates all of them, while freeing a list
  node that iterators elsewhere may still point at;
* a wrong tag or boundary shows only after a long sequence of hits in other sections;
* the range arithmetic of `caching_read` has an offset, a size, an end of file, a block
  size, narrowing conversions, and two different rules for blocks that were and were not
  cached;
* a failing `pread` ends a call half-way, with part of its blocks in the cache;
* the log file shares the tree with the files, every handler tests for it on its own, and an
  open file or directory can be renamed between two calls on its handle;
* a path is used outside the lock under which it was computed, and must stay the path of its
  node; requests wait for each other's paths; nodes are freed by counts that three parties
  change; a request is interrupted at any point of its life, by another thread;
* system calls that move data may be short or fail in the middle, and what they leave behind
  is found by the next request;
* startup has some twenty steps that may fail, each with its own way back.

### What makes each component correct

* Cache: boundaries and tags agree with positions; map and list agree; unused slots are
  last; buffers stay with their IDs; the whole implements FBR.
* Read: exact counts, no write past the caller's buffer, the bytes of the file, cached
  blocks equal to the disk, never the `exit(1)` of `insertBlock`.
* Handlers and log: the log file is invisible and survives, listings agree with what can
  be looked up, descriptors are closed, the cache's paths follow renames.
* Start and end: accepted arguments are sane; whatever fails, nothing is left and nothing is
  used after it was given back.
* Node tree: paths hold while they are used, all counts add up, the tree of nodes is a picture of
  the files, deleted open files live as long as they are open, every request gets its turn.
* Requests: no use after free, no lost interrupt, right pool counts, one `destroy`, every
  request answered, the loop ends.
* Pipe, buffers, locks, tables, slabs, listings, options, modules: what goes in comes out.

`PROJECT.json` lists the hazards with their lines and the properties aimed at them.

## 2. Modules

| module | models |
|---|---|
| `FBR` | abstract policy: a stack of blocks by last use, sections are ranges of slots, a count per block |
| `CacheManager` | the cache and its blocks, with list nodes, iterators, tags, reference counts and paths |
| `CacheHistory` | `CacheManager` with the history of its use |
| `MCCacheManager` | its instances |
| `CachingRead` | `caching_read` on top of `CacheManager`, one step per block |
| `MCCachingRead` | its instances |
| `CachingFileSystem` | all handlers: directory tree, descriptors, directory streams, the log file, on top of `CachingRead` |
| `MCCachingFileSystem` | its instances, in three scenes |
| `CacheManagerProofs` | proofs about `CacheManager` and `CacheHistory`: the inductive invariant, stable buffers, the refinement of `FBR`, the blocks used last |
| `CachingReadProofs` | proofs about `CachingRead`, on top of `CacheManagerProofs` |
| `CachingFileSystemProofs` | proofs about `CachingFileSystem`, on top of `CachingReadProofs` |
| `FuseTree`, `MCFuseTree` | node tree, path locks, hidden files and the request handlers of `fuse.c`, run by several threads |
| `FuseRequests`, `MCFuseRequests` | worker pool, sessions, requests, interrupts, exit |
| `FuseRequestsSteps` | the inductive invariant of `FuseRequests`; every step keeps types and the pool's accounts |
| `FuseRequestsProofs` | the rest of that invariant and the theorems about `FuseRequests` |
| `FusePipe` | requests and answers through a thread's pipe |
| `FuseLocks` | the lock list of a node |
| `FuseBuf` | `fuse_buf_copy` |
| `FuseNodeTable`, `FuseSlab` | hash table and memory of the nodes |
| `FuseDir` | directory listings in pieces |
| `FuseOpt`, `MCFuseOpt` | the command line through its four parsers |
| `FuseSetup` | start and end of the program |
| `FuseSubdir`, `FuseIconv` | the stacked modules |
| `MCFuseParts` | the instances of all modules from `FusePipe` on, and one of `FuseTree`: one of them moves in a behaviour |
| `FusePartsProofs` | proofs about `FuseSlab`, `FusePipe`, `FuseNodeTable`, `FuseLocks` and `FuseDir` |
| `FuseCopyProofs` | proofs about `FuseBuf` |
| `ListLemmas` | lists without repetitions, lists element by element, and induction over natural numbers, for the other proofs |

### CacheManager

`cacheChain` is a function from positions to list nodes, position 1 being `begin()`;
`block[n]` is the `CacheBlock` that node `n` points at. Node identity is kept because the
map and the boundaries hold iterators: a hit pushes a new node for the same block to the
head and erases the old one (`MoveToHead`). `FindInNew`, `FindInMiddle` and `FindInOld` are
the three cases of the `switch` in `findBlock`; `RetrieveHit` and `RetrieveMiss` are
`retrieveBuffer`; `InsertBlock` is `insertBlock`, including the look-up that comes first
and the `exit(1)` after it (`InsertCached`).

`InsertNew` follows the order of the code: push the new block, erase the last node if its
block is null and otherwise the victim of the scan, then decrement both boundaries. The
erased node may be the one a boundary stands on. Decrementing that iterator reads the
`prev` link of a freed node, which is undefined; the model chooses between the outcomes
the build can have: the old link is still there, or the allocator has overwritten it. In the second case the
boundary becomes `NoNode` and `status` becomes `"corrupt"`: the model does not follow the
process further.

`EraseCandidate` states what the scan with `<=` computes in closed form: a least
referenced block of the old section, and the last of these. `fOld` and `fNew` are exact
fractions over `fScale`. The rounding of the code's `double` products can move a section
size by one for some arguments; the sizes that result are sizes the model also has.

Paths are sequences of names. `updatePaths` appends `/` to the prefix and to the path before it
compares, so a string prefix is a prefix in whole names, and that is what the model
compares. `cacheToString` is modelled as the sequence of blocks it prints; layout is left
out.

`CacheInv` is the conjunction of the named invariants and `NodesDistinct`.

### CachingRead

A byte is its place in its file, so a wrong byte is visible; bytes outside the file or
behind a block's buffer are `Garbage`. `BeginRead` is everything up to the loop with its
early returns, then each iteration is `CopyCachedBlock`, `CopyDiskBlock` or `PreadFails`,
and `EndRead` returns. `ToInt` is the conversion to `int`, with a small word size so that it
matters. The file system below (`fstat`, `pread`) is represented by fixed files: the
program offers no way to write. `Reply` ends a call and clears the locals.

### CachingFileSystem

`tree` maps each existing path below the root directory to its file or directory; `fds`
and `streams` are the open descriptors and `DIR*`s (a stream stands at its start or at its
end, or was broken off in between), `held` the descriptors in handles that FUSE has not released. Each handler is one action
(`Serve` is what they share: log the name, then answer), except `caching_read`, which starts
the loop of `CachingRead`. The action of a handler ends with its answer in `ret`;
`HandlerReturns` lets the next call come. The loop of `caching_readdir` ends with the stream,
or earlier, when `readdir(3)` fails (the code takes its null pointer for the end) or the
filler is full; what it has passed on by then is any part of the listing (`Deliverable`).

`lstat`, `open`, `opendir`, `readdir` and `rename(2)` are external and represented by what they
do to the tree or report of it, failures included. So is FUSE: it knows an open file by its
node and passes the path the node has now (`PathOf`), and it calls `open`, `access` and
`rename` only for a path that was looked up or renamed to (`Known`). The
look-up of the log fails, so such a path is the log's only after a file was renamed onto it. Before FUSE renames over an open file it renames that file out of the way (`hide_node` in
`fuse.c`), so `CanRename` never replaces an open file; the hidden name itself is not in the
model.

`releasedir` compares the path below the mount point with the log's full path. These
are different strings unless the tree contains a copy of the way to its own root; the model
takes them as different.

### FBR and the refinement

`ImplementsFBR` maps the list to the sequence of its IDs and the blocks' counts to a
function on IDs (`StackOfChain`, `CountOfChain`), and states that every behaviour of the
cache is one of `FBR`. In `FBR` a section is nothing but a range of positions, so this also says
that tags and boundaries never make the code treat a block as belonging to another section.

### FuseTree

`tab.node` is the node table: name, parent, `nlookup`, `refctr`, `open_count`, `treelock`,
`is_hidden`, and `bad` when an `assert` of the library would fail. `lockq` is `f->lockq`. Each
handler is a program, the list of its steps in the order of the source; a step is one critical
section of `f->lock` or one callback. `rq[t]` is the request thread `t` serves: its remaining
steps, its paths and what it has locked. `try_get_path` takes read locks from the node
upwards and a write lock at the entry, and gives all back when one is not to be had;
`wake_up_queued` retries for every waiting request in order, as the code does after each
unlock. Handlers that only differ in the callback they make between the same steps share a program.

External: the kernel (`Kernel`: it sends requests about nodes it has looked up and files it has
open, serialises operations on a directory's names, and may abandon a system call, so that the
answer is refused with `ENOENT`) and the file system (`fs`, a tree of files that callbacks
change, or fail). Left out: attributes, times, the contents of answers; `nullpath_ok` is taken
as unset. The clean-up of remembered nodes (`CleanCache`) may take a node at any time after it was
forgotten, as the code does, which goes by the clock and does not look at `treelock`; `tree_cleanup`
shows what comes of that.

### FuseRequests

`wk[t]` is a worker in `fuse_do_work` with the request or interrupt it has read, `mt` the pool,
`se` the session, `req` the requests with their counters, locks and interrupt functions,
`list` and `interrupts` the lists of `fuse_ll`. An `INTERRUPT` is read like any message:
`do_interrupt` finds its request, or leaves itself in `interrupts` for `check_interrupt`, or is
answered with `EAGAIN`. With `intr`, the interrupter signals the callback (`fuse_interrupt`)
until it has finished. Exit comes from a signal, from `ENODEV` after an unmount, or from an
error. `Budgets` bounds failures, interrupts and signals.

### The parts

* `FusePipe`: `pw` is the worker. Pages of header and data enter the pipe from the device or from
  memory, are read back, spliced on, or cleared away. Every transfer may fail or be short, the
  splice that receives a request included. A receive that is short or finds the session ended
  leaves the pipe full, and ends the worker's loop (`LoopEnds`, `fuse_ll_pipe_free`): that is why no
  other request meets what is left.
* `FuseLocks`: `locks_insert` goes through the list with the branches of the loop
  (`SameType`, `OtherType`). The file system holds the truth per byte (`held`); a lock is granted first
  and entered later, and an owner may have several calls on their way (`granted`), which are
  entered in any order (`SetLkEnter`), or lost when `locks_insert` has no memory (`SetLkLost`), and a flush whose
  unlock the file system refuses is entered all the same (`FlushRefused`). The list is then wrong:
  the code does not prevent it, and no comment promises more (`fuse.h` says of `F_GETLK` that "the results may not be
  accurate in case of race conditions"). What does hold is in terms of three history variables: `told` (what the last entry for a
  byte said), `current` (the bytes whose last entry was of the lock granted last) and `calm`
  (whether an owner's calls were all entered, as granted and in that order).
* `FuseBuf`: bytes carry their origin, so that a lost or moved byte shows. `CopyOne` is the head of
  `fuse_buf_copy`'s loop with `fuse_buf_copy_one`, `Copied1` and `Failed1` are the rest of it. `fd_to_fd`,
  `fuse_buf_splice`, `fuse_buf_read` and `fuse_buf_write` are steps that move any number of bytes
  up to what was asked for.
* `FuseNodeTable`: `split` and `size` as in the code; eight keys in tables of 4, 8 and 16.
* `FuseSlab`: pages with a list of free places, in one of two lists.
* `FuseDir`: an entry takes one or two units; the kernel reads on, seeks to an offset it has seen, or
  rewinds, while the directory changes.
* `FuseOpt`: characters are codes, because escaping is about characters; option tables are sets.
* `FuseSetup`: a function is an operator from the state before it to the set of its
  outcomes; labels of error paths keep their names.
* `FuseSubdir`: paths and links as characters; `transform_symlink` with its helpers.
* `FuseIconv`: `iconv(3)` is external, with a shift state, characters that are not
  valid, and one that needs more room than the code first allows for. Names may end in the
  shifted state, and the code resets a descriptor only after an error, so the next name then
  starts shifted. The properties say that nothing else does: `ended` is where the names converted since
  the last error have left each descriptor, `starts` what it was when a path was begun.

Several properties of the parts have an exception in their statement. Each is a place where
the code does something its authors hardly meant, found when the property without it failed:

| property | exception |
|---|---|
| `NothingLost` | `fuse_buf_fd_to_fd` loses what it read from a pipe and could not write |
| `SeekFindsRest` | in the style with offsets, a seek back after the end was read finds nothing |
| `RefusedOnlyIfWrong` | a `--` at the end is not removed once `-o` was inserted in front (shown by `opt_separator`) |
| `NothingMisused` | `fuse_new` failing after `fuse_session_add_chan` destroys a channel that is used again; returns of 0 and -2 from the mount functions are taken for descriptors (shown by `mount_result`) |
| `NothingLeft` | arguments after a failed parse, the socket to fusermount, handlers set before one that fails, the user's file system if INIT never came |
| `LoopIsMounted` | the same two return values |
| `PathsConvertedAlone`, `DescriptorsClean` | a name that ends shifted is not followed by a reset |
| `ListMatchesFs`, `GetLkRight` | calls of one owner that overtake each other, an entry that is lost, a flush that is refused |
| `LinkStaysInside` | a link that starts with several slashes is taken to lie in the base |
| `ListingConverted` | `iconv_new` tests the wrong descriptor after the second `iconv_open` |
| `IconvGivenBack` | `iconv_new` frees `old` twice if `fuse_fs_new` fails |

Where a comment of the repository says otherwise, a run of its own shows the disagreement (see
Findings): `fuse_opt.c:388` speaks about the separator, and `fuse_common.h:204` about what `fuse_mount`
returns. We have found no document or comment that speaks about the others.

## 3. Runs

All passing runs explore their state space completely. `CHECK_DEADLOCK FALSE` is set because
the process may end, be corrupt, or have used up a bound. The `VIEW` of the cache runs identifies
states that differ only in node addresses, which no property looks at; symmetry is used only
in runs without liveness properties.

Where a component's guarantees belong together, the run checks their conjunction; each
conjunct is a definition of its own with its own comment:

| checked | conjuncts |
|---|---|
| `CacheInv` | `CacheTypeOK`, `BoundariesMarkSections`, `SectionTagsMatchPositions`, `MapMatchesChain`, `NullBlocksLast`, `NodesDistinct` |
| `ReadInv` | `ReadTypeOK`, `CallerBufferNotOverrun`, `InsertNeverExits` |
| `CFSInv` | `CFSTypeOK`, `DescriptorsReleased` |
| `LocksSound` | `TreeTypeOK`, `NoAbort`, `LocksAccounted` |
| `CountsAccounted` | `LookupsAccounted`, `RefsAccounted` |
| `RequestLifetimes` | `RequestsTypeOK`, `NoUseAfterFree`, `ReferencesCounted` |
| `PipeInv` | `PipeEmptyBetween`, `AnswerIntact`, `RequestIntact` |
| `LockListRight` | `ListSaysEntered`, `ListMatchesFs`, `ListSorted`, `GetLkRight` |
| `CopyRight` | `CopyFaithful`, `NothingLost` |
| `TableRight` | `TableFindsAll`, `TableShape` |
| `SlabsRight` | `SlabPlaces`, `SlabLists` |
| `ListingRight` | `ListingInPieces`, `SeekFindsRest` |
| `OptionsRight` | `OptionsReachOwners`, `RefusedOnlyIfWrong` |
| `SetupRight` | `NothingMisused`, `NothingLeft`, `LoopIsMounted` |
| `SubdirRight` | `SubdirHeap`, `LinkKeepsTarget`, `LinkStaysInside`, `SubdirPathsRight` |
| `IconvRight` | `PathsConvertedAlone`, `DescriptorsClean`, `ListingConverted`, `ConversionsFreed`, `IconvGivenBack` |

| run | instance | shows |
|---|---|---|
| `cache` | 5 slots (2/1/2), 6 blocks, counts up to 2 | types, boundaries, tags, map, null blocks last, recently used blocks stay, FBR |
| `fs` | root with a file of 7 bytes, a directory with a file of 3, the log; blocks of 3, cache of 3 (1/0/2), counts up to 2, `int` of 4 bits, 2 descriptors; three scenes | `reads`: all ranges of both files: counts, caller's buffer, aligned reads, cached data, no `exit(1)`, with failing `pread`s. `renames`: reads of whole blocks of two open files between renames. `names`: every handler, with reads of a byte. In all of them: the cache's inductive invariant with both boundaries on one node, stable buffers, log unreachable, cached paths current, descriptors released, first listings complete |
| `tree_requests` | 3 threads, with and without `remember`, an abandoned open; two requests of any kind, a third while one waits | no failed `assert`, locks add up, every request is answered |
| `requests` | 3 workers (one idle worker kept), INIT and two more requests, one interrupt, one failure or signal | requests, interrupts, pool, end; every request answered, the loop ends |
| `parts` | see below | one property for each of ten parts (`PipeInv` to `IconvRight` above); of the tree: types, no failed `assert`, locks, lookups and references add up, held paths stay right, tree and files agree, hidden files |
| `cache_freed_link` | 3 slots (1/1/1) | **violated**: a boundary can leave the list |
| `read_unaligned` | the files and blocks of `fs`, cache of 3 (1/1/1) | **violated**: reads that start inside a block and cross into the next one |
| `fs_log_replaced` | scene `names` of `fs` | **violated**: a file is renamed onto the log |
| `tree_open_race` | as the tree in `parts`, no failing callbacks | **violated**: an open file is removed by an earlier user's release |
| `tree_cleanup` | `remember`, an abandoned open and a forget | **violated**: a node is cleaned up while a request has it locked |
| `opt_separator` | the options of `parts` | **violated**: a separator at the end stays |
| `mount_result` | every combination of setup options | **violated**: a failed mount gives a channel |

### Bounds

* One block more than slots is enough to fill the cache and evict; old sections of two
  blocks make ties, and victims that are and are not the boundary node, happen. One node more than slots
  is all the code ever has allocated at once.
* `MaxRefCount` bounds the counts. Eviction compares counts, so two or three values give
  all the comparisons; a hit that would exceed the bound is not taken.
* The files have 3 and 1 blocks, the last block of one partial and of the other full; offsets
  run from -1 to past the end, sizes from 0 to the size of the larger file. A cache of 3 blocks
  for 4 makes a read evict its own or the other file's blocks.
* `IntHalf` is half the range of an `int`.
* `fs`: the scenes keep what multiplies apart. The ways of cutting a read matter to the cache and the
  caller, not to names, so `reads` leaves the files where they are; renames change paths, for which whole blocks are
  enough (`renames`); which handler may be called when, and with which path, does not depend on what is read, so `names` reads one byte of one file.
  The paths let files move between directories, onto each other and onto the log, and
  the directory moves with a cached file in it; with two descriptors one file is
  open twice and descriptors run out; one stream at a time. A file in the
  directory has the log's name, which must not hide it. A rename whose result is
  outside `Path` and `Dir` is not taken (`WithinBounds`).
* Trees: two requests in progress at a time meet in every order; a directory with a file, a
  second name to rename to and one hidden name let everything be renamed, replaced, hidden and
  looked up again. Three nodes are enough for the two that exist and one that replaces. In `parts` the
  threads serve any number of requests of six kinds; opening and renaming may fail.
  `tree_requests` has every kind of request, but at most three in a behaviour. It needs a third thread so that one request waits for the path of another that
  waits; it starts from a tree that has been looked up, because the way there is in `parts`. With `remember`
  it leaves out `open`, `opendir` and `create`, whose requests answer before they free the path and so
  run into what `tree_cleanup` shows (`RememberOps`).
* `requests`: `MaxIdle` is 1 instead of 10, so that workers leave; three workers let one
  read, one handle and one interrupt.
* `parts`: two requests in a row through a pipe, of up to three pages; two lock owners,
  three bytes, and two calls at a time that are granted and not entered, where a call beside another one, or of
  an owner whose list may be out of date, locks the first byte for writing or unlocks the whole file (`LocksBounded`: enough for
  overtaking, lost and refused calls to leave a wrong list, and be made good by a later call; the proof has no such bound); vectors of up to two buffers of up to three bytes, an empty buffer and empty vectors among
  them, with a buffer of two for `fd_to_fd`; pages of three nodes; three directory entries and two changes; up to three
  arguments; every combination of setup options; bases, paths and links of `subdir` up to
  seven characters; two callers of `iconv`, one of which uses one operation of each kind (those of
  a kind do not differ).

### Fairness

`tree_requests` and `requests` assume weak fairness
of each worker thread, and `requests` of the main thread: the operating system runs a thread
that can run, a mutex is granted in the end, and callbacks return. Nothing is assumed about when
requests, interrupts or signals come or whether anything fails. A thread that can run is spelled
out (`Runnable`) instead of `ENABLED`. `RequestsAnswered` needs a kernel that sends finitely many
requests: the code does not promise that a writer overtakes an endless stream of readers.

The window between the test of the exit flag and `sem_wait` in `fuse_session_loop_mt`, in which a
signal is noticed only with the next one, is in the model; `AnsweredAndEnded` asks for the
end after an unmount, which wakes the workers, and not after a signal alone.

### Findings

1. `cache_freed_link`. `insertBlock` erases a node and then decrements the boundaries, one
   of which may be the erased node. With an old section of one block this happens on the very
   first insertion. `BoundariesMarkSections` shows that this is the only way the boundaries
   go wrong.
2. `read_unaligned`. `number_of_blocks` ignores the offset inside the first block.
   `AlignedReadsCorrect` shows that reads from a block boundary, and reads within one
   block, are right.
3. `fs_log_replaced`. `caching_rename` checks only the old path. A file renamed onto the log
   takes its place; then `release` refuses to close a descriptor of that file, which
   `DescriptorsReleased` shows to be the only way descriptors are lost.
4. `tree_open_race`. `fuse_do_release` decides that a hidden file goes, gives up the lock, and
   removes it. It holds the path as a reader only, so an open of the same node is answered in
   between. `HiddenFilesOpen` shows the other direction: no hidden file outlives its users.
5. `tree_cleanup`. With `remember`, an interrupted `open` calls `release` while it still has the node's
   path locked. If the kernel's `FORGET` comes meanwhile and the callback takes longer than the time
   nodes are remembered, the clean-up deletes the locked node, and `assert(node->treelock == 0)` in `delete_node` fails.
   `forget_node` waits in this case (its comment speaks of "interrupt idiocy"), but with `remember` the `FORGET` is not the last reference,
   and `fuse_clean_cache` does not wait.
6. `opt_separator`. `opt_parse` looks for a separator in the last place by the number of arguments there were when it
   was passed, after it has inserted two in front.
7. `mount_result`. `fuse_mount_sys` returns 0 when memory for `source` and `type` is short, and `fuse_kern_mount`
   returns -2 when there is none for the options of `fusermount`; `fuse_mount_common` tests for -1 only.

Smaller ones are visible in the definitions and have no run: a second `readdir` on a handle lists
nothing, for `caching_readdir` never rewinds the stream; `CacheToString`
lists the blocks from the bottom of the list to its top, where the comment in
`CacheManager.h` says top to bottom; and `open`, `flush` and `fgetattr` answer `ENONET` where
the comment on `refering_logfile` asks for `ENOENT`.

## 4. Proofs

TLAPS proves the theorems below for every value of the constants that the named assumptions
allow. TLC evaluates each of these assumptions in some run, and the runs check the same properties
on small instances.

| module | theorem | says |
|---|---|---|
| `CacheManagerProofs` | `SectionSizes` | from what `main` checks, new and old section have a block, and the sections add up |
| | `CacheInvHolds` and five consequences | `CacheTypeCorrect`, `BoundariesCorrect`, `SectionTagsCorrect`, `MapCorrect`, `NullBlocksAreLast` |
| | `BuffersAreStable` | a cached block keeps its buffer in every step |
| | `ImplementsPolicy` | the cache implements `FBR` |
| | `RecentStaysCached` | the blocks used last are cached, in the order of their use |
| `CachingReadProofs` | `ReadInvHolds` | the caller's buffer is not overrun, `insertBlock` does not exit |
| | `CachedBlocksRight` | cached blocks hold what is on the disk (1) |
| | `ReadCountRight` | the count returned is exact (2) |
| | `AlignedReadsRight` | aligned calls get the bytes of the file (1, 2) |
| `CachingFileSystemProofs` | `CFSInvHolds` | released descriptors are closed unless the log was replaced |
| | `LogStaysHidden` | the log is never opened or renamed |
| | `CachedPathsAreCurrent` | cached blocks carry the present path of their file (1) |
| | `FirstListingsComplete` | a first `readdir` lists what can be looked up, all of it unless it is broken off |
| `FuseRequestsProofs` | `PoolAccounted` | the counters of the worker pool |
| | `RequestsLive` | no use after free, exact reference counts |
| | `InterruptsReach` | no interrupt is lost |
| | `DestroyOnceAndLast` | one `destroy`, after everything else |
| `FusePartsProofs` | `SlabsAreRight` | places of nodes, and lists of pages |
| | `PipeStaysRight` | a worker that takes another request has an empty pipe, requests and answers are whole |
| | `TableStaysRight` | every node is where the hash says, however the table has grown and shrunk |
| | `LocksStayRight` | the list of locks says of each byte what was entered last, and that is what was granted unless calls overtook each other, were lost or refused; `F_GETLK` answers accordingly |
| | `ListingStaysRight` | a directory read in pieces is what the callback gave |
| `FuseCopyProofs` | `CopyStaysRight` | what `fuse_buf_copy` reports is what has arrived, and nothing else was taken |

Some theorems have a hypothesis, because the code is wrong without them. (1) `InodesDistinct`: the conversion
to `int` tells the inodes of the files apart. (2) `SizesFitInt`: file sizes fit in an `int`. The instance of
`fs` satisfies both. Without the first, two files whose inodes agree in the bits of an `int` share cache
entries; without the second, a file larger than `INT_MAX` reads as empty.

The assumptions on constants are `ArgsAssumption` (what `main` checks of its arguments),
`ValuesAssumption` (the null ID, pointer and node are none of the real ones; the bound on counts is
positive), `FilesAssumption` (sizes and inodes are numbers, keys and contents of blocks are in the
sets of the cache), `TreeAssumption` of `CachingFileSystem` (the root directory is a tree with
the log in it, and nothing has two names, for the program makes no links), `RequestsAssumption` (finitely many
workers and requests, the latter numbered in the order of sending), `SlabAssumption` and `PipeAssumption`
(sizes are positive, pages are finitely many), `TableAssumption` (the table's
least size is even and positive, a removal looks at one bucket or more, hashes are numbers), `LocksAssumption`
(offsets are numbers, owners finitely many, an owner can make a call), `BufAssumption` (buffers have a kind, a size and a retry flag, and
`fd_to_fd`'s is not empty) and `DirAssumption` (names are finitely many, each takes some room, and what the kernel asks
for has room for one: its buffer is a page, and a name has at most 255 bytes).

### CacheManager

No invariant is inductive alone. The new boundary is the right node only if the hit block
is in the section its tag names; tags stay right only if the tagged boundary node is the one that
crosses; both need the map to lead to the block it names; a new head keeps null blocks
last only because it is not null. So they are proved together, with nodes distinct, as
`CacheInv`. The argument:

1. `PushFrontEraseList`: push and erase shift the nodes before the erased one by one place
   and keep nodes distinct. `ShiftedNode`, `KeptNode`, `MapStaysMatched` and
   `NullsStayLast` draw the consequences that hits and insertions share.
2. `MoveToHeadStep`, `MoveToHeadInv`, `FindBlockInv`: a hit, by the section of the block.
3. `EraseCandidateFound`: the scan finds a victim (a nonempty set of naturals has a least
   element), `ErasePositionIsOld`: it is in the old section. `BoundaryAfterErase`: the decrement leads to
   the right node or nowhere. `InsertNewInv` puts these together.
4. `UpdatePathsInv`, `InitInv`, `NextInv`.

The rest of `CacheManagerProofs` states what a hit and an insertion do to blocks, first by position
(`MoveToHeadEffect`, `FindBlockEffect`, `InsertNewEffect`) and then by ID (`HitByID`, `InsertByID`,
`UpdatePathsByID`). The nodes are gone from the second form, and `BuffersAreStable` follows. For
`ImplementsPolicy`, `FindBlockIsHit` maps a hit to `FBR`'s, `InsertNewIsFillOrReplace` an insertion
to the filling of a slot or the replacement of the victim, and `UpdatePathsIsStutter` a rename to nothing. That
the stored tag decides like the position is where `CacheInv` is needed. `RecentStaysCached` rests on the same
effects: a use moves an ID to the head of the list and of the history alike (`UsedStartsWith`), and the slot an
insertion takes is in the old section, behind everything the history still speaks of.

### CachingRead and CachingFileSystem

`HandlerInv` is what a step of a handler keeps: `CacheInv`; `BlocksFromDisk` (each cached block
came from some file with its ID: this needs no hypothesis, and `InodesDistinct` makes it *the* file);
`LoopInv`, the loop's invariant: what was copied and what remains add up to the request, and what
remains is more than all blocks but the last and no more than the rest of the range. The last part is the one
that makes the copy lengths right and bounds the buffer. `ReadIInv` adds the types and
`CallerBufferNotOverrun`. `ExactInv`, for aligned calls, says that the bytes so far are those of
the file and that the copying has got as far as the current block. An unaligned call breaks
its second part on entering the second block, which is finding 2. The arithmetic is in `DivMod`, `RoundUp`,
`ToIntOfSize`, `RangeOfCall` and `SizeOfCopy`.

`CFSIInv` is `HandlerInv` with the tree's own invariant (`TreeInv`: paths lead through directories, and
nothing has two names), `LogHidden`, `DescriptorsReleased`, `HeldInv` (a held descriptor is of
a file that has a name: FUSE hides what it replaces) and `ReadingInv` (the file that is read keeps its
name during the call, for handlers run one at a time). `RenamedTreeIsTree` and
`OnlyItsOwnRenameMovesTheLog` are about `rename`, for any depth of directories.

### FuseRequests

The inductive invariant is in the first section of `FuseRequestsSteps`, in parts that need only those before
them:

* `TypeInv`: types, and what each worker holds according to where it is;
* `PoolInv`: the list of workers is the started ones, `numavail` those that are not busy;
* `LifeInv`: a request has one handler, its counter is the number of its holders (`Holders`: its handler and
  the interrupters at work), its `INTERRUPT` is in one place, and its lock and interrupt function
  belong to whom the program counters say. Nothing is used after it is freed, because whoever uses it is a holder;
* `DeliveryInv`: as long as nothing failed or ended the session, the `INTERRUPT` of a request that waits or runs is
  marked in it, or still on its way (`Placed`);
* `DestroyInv`: the kernel's order of messages, which handler has which opcode, and where the call of `destroy` is counted.

Each of the steps has a lemma for each part it disturbs; `HeldFrame`, `LifeFrame`, `EndFrame` and `SameRoles`
deal with the parts it leaves alone. `ListLemmas` has the linked lists.

### The parts

`SlabInv` gives each page its count: places in use and free places are disjoint, each free place is
free once, and together they are `NodesPerSlab`. So a page is given back to the system only when no node is on it.
It also says that the two lists are without repetitions, which the deletion of a page needs.

`Moved` describes the worker's record at each label: what is in the pipe, what is in memory, that
nothing is answered before the end, and that `now + extra` stays within the file. The
properties mention only the labels `receive`, `handler`, `next` and `gone`; what the pipe
holds at the others is what makes them inductive. `PagesJoin` and `MessageSeq` are about taking a
message apart and putting it together.

`TableInv` says of the table that each node is in the bucket of its hash and in no other, that the size is one of
those that doubling reaches, and that the buckets above the split are empty. Splitting one bucket sends each node of
it to one of two (`SplitChain`), and merging two joins disjoint chains; the rest of the proof is that `hash % size`
and `hash % (size / 2)` agree for all nodes that do not move. A resize changes no bucket, because it comes exactly
when the split has reached its end.

`LocksInv` says that the list is in order (`InOrder`: for one owner by place, without overlap, and with a
gap between two locks of one type) and that it says of each byte what was entered for it last (`Agrees`, with `told`). `OwnerRight`
relates this to the file system: where an owner is `current`, `told` and `held` agree; the call that was answered last on a byte has what is held there (`Lasting`);
and as long as the owner is `calm`, every byte that is not current has a call on its way, and every call is followed by one on each byte that it is
not the last on (`OnItsWay`), so that nothing is out of date when no call is left. The loop of `locks_insert` has an invariant of its own: what stands before the current
place is final, what comes after is as it was, and the two together with the lock in hand say of each byte what is to be said
(`Loop`, `Entering`, `Says`). `LoopStep` takes it through the cases of `SameType` and `OtherType`; `LoopFinishes` needs that each
step brings the end nearer (`StepsLeft`); `InsertRight` is what `locks_insert` does as a whole. That other owners' locks
may have been granted and entered in the meantime does no harm because the order is one for each owner.

`CopyInv` says where a copy stands between two system calls (`Here`, `At`): what has arrived are the first bytes of the
source, up to its position; what lies in `fd_to_fd`'s buffer are those behind it; a descriptor without a position has given
exactly these two; both positions are inside their buffers, which the `assert` in `fuse_bufvec_advance` relies on.
`PassOn`, `ReadOn` and `WriteOn` are a direct call, a read into the buffer and a write from it, of any number of bytes;
`CopiedRight` is the end of a round with its two advances. `NothingLost` exempts `fd_to_fd` because a write that fails there
leaves bytes behind that were read (`Ending`); without it the buffer is empty at every end. `FlattenIs` and
`FlattenGrows` are about joining lists, `Places` and `CountIs` about where a buffer's bytes stand in all bytes of
a vector and how many of a prefix are its own.

`DirInv` has a part for each kind of file system. If it hands over the whole directory (`WholeInv`), every position
the kernel has seen is the end of an entry of the contents, and what it has got are the entries before it; so a
piece begins with an entry (`PieceIs`), and an empty piece means that the end is reached, because an entry
always fits. If it gives offsets (`OffsetInv`), a position counts entries of the directory, and `dh->filled` is
set only on empty contents. `EndGrows` and `WithinIs` are about where entries end.

Loops and recursive functions need induction. The induction theorems of the library take an operator as a parameter and
cannot be used; `ListLemmas` has first-order forms (`AllNaturals`: a set of naturals that has 0 and the successors of its
members is all of them; `RunsExist` for functions defined from their value before) that can be, with a set in place of
the operator.

### Only model-checked

* Liveness (`RequestsAnswered`, `AnsweredAndEnded`): out of the prover's reach.
* `FuseTree`: its invariants depend on each other, on the programs of all handlers and on what the kernel does between
  requests, and an unlock retries for every waiting request, a fold over the queue (`wake_up_queued`).
* `FuseOpt`: not attempted. `FuseSetup`: its instance in `parts` already has every value of its constants.
* `FuseSubdir` and `FuseIconv`: recursive operators, which the prover does not handle.

## 5. Not modelled, and the plan

Not modelled: hashing of block IDs (the map is a function); the leak of evicted blocks; time
stamps and layout of the log; parsing of the numbers and the checks of the directories in `main`;
of the library, notifications, poll handles, CUSE, the entry points for older interfaces, the
single-threaded loop (one worker without a pool), attributes and their caching, and the
conversion of option values; the programs `fusermount`, `ulockmgr_server` and `mount.fuse`, which
the library calls by name; tutorial and examples, which nothing is linked with.

Plan, in this order:

1. Proofs for `FuseTree`: what the steps outside `wake_up_queued` preserve.
2. The eviction scan and `updatePaths` as the loops they are, against the closed forms used here.
3. An abstract file system (files, reads answered from the disk, no cache) that
   `CachingRead` implements for aligned reads.
4. Notifications and their replies, attribute caching (`auto_cache`).
