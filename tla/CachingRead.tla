---------------------------- MODULE CachingRead ----------------------------
(***************************************************************************)
(* The read handler caching_read on top of the buffer cache: it cuts the   *)
(* requested range into blocks, takes each block from the cache or, on a   *)
(* miss, from the disk by way of the cache, and copies out of the block    *)
(* what the call asked for.                                                *)
(*                                                                         *)
(* A byte is represented by where it is in the file, <<f, i>>, and a byte  *)
(* that is no byte of the file (past the end of a block buffer, or the     *)
(* part of the last block that pread leaves uninitialised) by Garbage.     *)
(* The files do not change while they are read.  The loop takes one step   *)
(* per block; FUSE is single threaded, so no other call comes in between.  *)
(***************************************************************************)
EXTENDS CacheManager

CONSTANTS
    File,        \* open files
    fileSize,    \* st_size of each file
    inode,       \* st_ino of each file
    filePath,    \* the path FUSE passes for each file
    LogPath,     \* the path of the log file
    block_size,  \* st_blksize
    IntHalf,     \* an int ranges over -IntHalf .. IntHalf - 1
    MaxOffset,   \* bounds on the arguments of a call
    MaxSize,
    Garbage

VARIABLES
    pc,              \* "idle", "loop" or "done"
    call,            \* the arguments of the call being served
    current,         \* the loop's block
    remaining_data,
    buf,             \* the bytes copied to the caller so far
    ret              \* the return value: a count, or minus an errno

ENOENT == 2
EIO    == 5

readVars == <<pc, call, current, remaining_data, buf, ret>>
vars == <<cacheVars, readVars>>

-----------------------------------------------------------------------------
\* Conversion of a wider integer to int.
ToInt(x) == ((x + IntHalf) % (2 * IntHalf)) - IntHalf

FileId(f) == ToInt(inode[f])

\* The handlers refuse the log file by its path.
M_refering_logfile(path) == FALSE
refering_logfile(path) == path = LogPath

\* A block's key when it is looked up, and when it is inserted.
BlockKey(f, n) == <<FileId(f), n>>
M_InsertKey(f, n) == <<FileId(f), n - (n % 2)>>
InsertKey(f, n) == <<FileId(f), n>>

BlocksOf(f) == 0 .. (fileSize[f] \div block_size)

\* What pread puts into the buffer of block n, and what it returns.
DiskBlock(f, n) ==
    [i \in 0 .. block_size - 1 |-> IF n * block_size + i < fileSize[f]
                                   THEN <<f, n * block_size + i>> ELSE Garbage]
PreadRet(f, n) ==
    IF fileSize[f] - n * block_size < block_size THEN fileSize[f] - n * block_size
                                                 ELSE block_size

ASSUME FilesAssumption ==
    /\ fileSize \in [File -> Nat] /\ inode \in [File -> Nat] /\ filePath \in [File -> Path]
    /\ LogPath \in Path /\ File # {}
    /\ block_size \in Nat \ {0} /\ IntHalf \in Nat \ {0}
    /\ MaxOffset \in Nat /\ MaxSize \in Nat
    /\ \A f \in File : \A n \in BlocksOf(f) :
           BlockKey(f, n) \in BlockID /\ DiskBlock(f, n) \in Buff

-----------------------------------------------------------------------------
(***************************************************************************)
(* The range of a call.                                                    *)
(***************************************************************************)
file_size(f) == ToInt(fileSize[f])

\* The bytes to read: up to the end of the file.
ToRead(c) == IF file_size(c.file) < c.size + c.offset
             THEN file_size(c.file) - c.offset ELSE c.size

first_block(c) == c.offset \div block_size
M_number_of_blocks(c) == ToRead(c) \div block_size
number_of_blocks(c) == (ToRead(c) + block_size - 1) \div block_size
last_block(c) == first_block(c) + number_of_blocks(c)

block_offset(c, n) == IF n = first_block(c) THEN c.offset % block_size ELSE 0

\* How much of block n is copied; got is what pread returned, 0 on a cache hit.
M_SizeToCopy(c, n, got, remaining) == block_size
SizeToCopy(c, n, got, remaining) ==
    IF n = last_block(c) - 1 THEN remaining
    ELSE IF n # first_block(c) THEN block_size
    ELSE IF got = 0 THEN block_size - block_offset(c, n) ELSE got

\* memcpy of size bytes of a block buffer from position from on.
M_Copied(data, from, size) ==
    [j \in 1 .. size |-> IF j - 1 < block_size THEN data[j - 1] ELSE Garbage]
Copied(data, from, size) ==
    [j \in 1 .. size |-> LET i == from + j - 1
                         IN  IF i < block_size THEN data[i] ELSE Garbage]

-----------------------------------------------------------------------------
NoCall == [file |-> CHOOSE f \in File : TRUE, path |-> LogPath, offset |-> 0, size |-> 0]

ReadInit ==
    /\ CacheInit
    /\ pc = "idle" /\ call = NoCall /\ current = 0 /\ remaining_data = 0
    /\ buf = <<>> /\ ret = 0

\* The call is over: the caller gets r.
Return(r) == pc' = "done" /\ ret' = r

\* Bound: every block of the call can be counted once more.
RoomToCount(c) ==
    \A n \in first_block(c) .. last_block(c) - 1 :
        Cached(BlockKey(c.file, n)) => CanCount(BlockKey(c.file, n))

\* The checks before the loop.
BeginRead(f, path, offset, size) ==
    LET c == [file |-> f, path |-> path, offset |-> offset, size |-> size] IN
    /\ pc = "idle" /\ status = "running"
    /\ call' = c
    /\ \/ refering_logfile(path) /\ Return(-ENOENT) /\ UNCHANGED <<current, remaining_data>>
       \/ /\ ~refering_logfile(path)
          /\ offset < 0 \/ file_size(f) <= offset
          /\ Return(0)
          /\ UNCHANGED <<current, remaining_data>>
       \/ /\ ~refering_logfile(path)
          /\ offset >= 0 /\ offset < file_size(f)
          /\ RoomToCount(c)
          /\ current' = first_block(c)
          /\ remaining_data' = ToRead(c)
          /\ pc' = "loop"
          /\ UNCHANGED ret
    /\ UNCHANGED <<cacheVars, buf>>

\* The copy at the end of an iteration.
CopyOut(data, got) ==
    LET size == SizeToCopy(call, current, got, remaining_data)
    IN  /\ buf' = buf \o Copied(data, block_offset(call, current), size)
        /\ remaining_data' = remaining_data - size
        /\ current' = current + 1
        /\ UNCHANGED <<pc, call, ret>>

InLoop == pc = "loop" /\ current < last_block(call)

CopyCachedBlock ==
    LET id == BlockKey(call.file, current) IN
    /\ InLoop
    /\ RetrieveHit(id)
    /\ CopyOut(block[blocksMap[id]].buff, 0)

CopyDiskBlock ==
    LET data == DiskBlock(call.file, current) IN
    /\ InLoop
    /\ ~Cached(BlockKey(call.file, current))
    /\ InsertBlock(InsertKey(call.file, current), data, call.path)
    /\ CopyOut(data, PreadRet(call.file, current))

\* pread fails (with any errno, EIO here), or aligned_alloc did and pread is given a
\* null pointer.  What earlier iterations put into the cache stays there.
PreadFails ==
    /\ InLoop /\ status = "running"
    /\ ~Cached(BlockKey(call.file, current))
    /\ Return(-EIO)
    /\ UNCHANGED <<cacheVars, call, current, remaining_data, buf>>

EndRead ==
    /\ pc = "loop" /\ status = "running"
    /\ current >= last_block(call)
    /\ Return(Len(buf))
    /\ UNCHANGED <<cacheVars, call, current, remaining_data, buf>>

\* The handler has returned and FUSE can serve the next request.
Reply ==
    /\ pc = "done"
    /\ pc' = "idle" /\ call' = NoCall /\ current' = 0 /\ remaining_data' = 0
    /\ buf' = <<>> /\ ret' = 0
    /\ UNCHANGED cacheVars

ReadStep == CopyCachedBlock \/ CopyDiskBlock \/ PreadFails \/ EndRead

ReadNext ==
    \/ \E f \in File, offset \in -1 .. MaxOffset, size \in 0 .. MaxSize :
          \E path \in {filePath[f], LogPath} : BeginRead(f, path, offset, size)
    \/ ReadStep
    \/ Reply

ReadSpec == ReadInit /\ [][ReadNext]_vars

-----------------------------------------------------------------------------
(***************************************************************************)
(* Properties.                                                             *)
(***************************************************************************)
Byte == {<<f, i>> : f \in File, i \in 0 .. MaxOffset + MaxSize} \cup {Garbage}

\* The variables have their types: no copy takes more than what remains to be read.
\* (Between reads, call and ret are those of whatever handler was called.)
ReadTypeOK ==
    /\ CacheTypeOK
    /\ pc \in {"idle", "loop", "done"}
    /\ pc = "loop" =>
          call \in [file : File, path : Path, offset : -1 .. MaxOffset, size : 0 .. MaxSize]
    /\ current \in 0 .. MaxOffset + MaxSize
    /\ remaining_data \in 0 .. MaxSize
    /\ buf \in Seq(Byte)
    /\ ret \in Int

Answered == pc = "done" /\ ret >= 0

\* The bytes of the file a call asks for.
Requested(c) ==
    LET left == fileSize[c.file] - c.offset IN
    IF c.offset < 0 \/ left <= 0 THEN 0 ELSE IF left < c.size THEN left ELSE c.size

\* A call that succeeds returns exactly the number of bytes requested, cut at the end
\* of the file, whichever of its blocks were cached (the comment above caching_read).
ReadCountExact == Answered => ret = Requested(call)

\* However the blocks are cut, the copies never write past the size bytes of the
\* caller's buffer.
CallerBufferNotOverrun == Len(buf) <= call.size

ReturnsFileBytes ==
    /\ Len(buf) = Requested(call)
    /\ \A j \in 1 .. Len(buf) : buf[j] = <<call.file, call.offset + j - 1>>

\* A call that starts at a block boundary, or stays within one block, gets the bytes
\* of the file, from whatever mixture of cached and uncached blocks.
AlignedReadsCorrect ==
    (/\ Answered
     /\ \/ call.offset % block_size = 0
        \/ (call.offset % block_size) + Requested(call) <= block_size)
    => ReturnsFileBytes

\* Every call that succeeds gets the bytes of the file.
ReadsCorrect == Answered => ReturnsFileBytes

\* A cached block holds what is on the disk at that place of that file, after any
\* sequence of reads, evictions and failed reads.
CachedBlocksHoldFileData ==
    \A f \in File : \A n \in BlocksOf(f) :
        Cached(BlockKey(f, n)) => block[blocksMap[BlockKey(f, n)]].buff = DiskBlock(f, n)

\* The exit(1) of insertBlock, for a block that is in the cache already, is never
\* reached: the handler inserts only what the cache has just been found not to hold.
InsertNeverExits == status # "exited"

\* The state of a read is well formed, the caller's buffer is never written past its
\* end, and the key a block is inserted under is never cached already.
ReadInv == ReadTypeOK /\ CallerBufferNotOverrun /\ InsertNeverExits
=============================================================================
