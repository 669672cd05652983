------------------------- MODULE CachingReadProofs -------------------------
(***************************************************************************)
(* Proofs about caching_read, for every cache, all files and all calls:    *)
(* the caller's buffer is not overrun, the cache holds what is on the      *)
(* disk, the count is right, and so are the bytes of the calls that do not *)
(* start in the middle of a block and go beyond it.                        *)
(***************************************************************************)
EXTENDS CachingRead, CacheManagerProofs, SequenceTheorems

-----------------------------------------------------------------------------
(***************************************************************************)
(* Arithmetic.                                                             *)
(***************************************************************************)
\* Quotient and remainder.
LEMMA DivMod ==
    ASSUME NEW x \in Nat, NEW s \in Nat \ {0}
    PROVE  /\ (x \div s) \in Nat /\ (x % s) \in 0 .. s - 1
           /\ x = (x \div s) * s + (x % s)
           /\ (x \div s) <= x
  <1>1. (x \div s) \in Int /\ (x % s) \in 0 .. s - 1 /\ x = s * (x \div s) + (x % s)
    BY SMT
  <1>2. (x \div s) >= 0
    BY SMT
  <1> DEFINE q == x \div s
             r == x % s
  <1>3. q \in Nat /\ r \in 0 .. s - 1 /\ x = s * q + r
    BY <1>1, <1>2
  <1> HIDE DEF q, r
  <1>4. s * q = q * s /\ q <= s * q
    BY <1>3, SMT
  <1> QED
    BY <1>3, <1>4 DEF q, r

\* The number of blocks of size s that x bytes take.
LEMMA RoundUp ==
    ASSUME NEW x \in Nat, NEW s \in Nat \ {0}
    PROVE  LET q == (x + s - 1) \div s
           IN  /\ q \in Nat /\ x <= q * s /\ q <= x
               /\ q * s < x + s
               /\ x = 0 <=> q = 0
  <1> DEFINE y == x + s - 1
             q == y \div s
             r == y % s
  <1>1. q \in Nat /\ r \in 0 .. s - 1 /\ y = q * s + r
    <2>1. y \in Nat
      OBVIOUS
    <2> HIDE DEF y
    <2> QED
      BY <2>1, DivMod
  <1> HIDE DEF q, r
  <1>2. x + s - 1 = q * s + r
    BY <1>1
  <1>3. q * s \in Nat
    BY <1>1
  <1>4. x <= q * s /\ q * s < x + s
    BY <1>1, <1>2, <1>3
  <1>5. q = 0 => x = 0
    BY <1>1, <1>4
  <1>6. q >= 1 => q * s = (q - 1) * s + s
    BY <1>1
  <1>7. q >= 1 => (q - 1) * s >= q - 1 /\ (q - 1) * s \in Nat
    <2>1. ASSUME NEW a \in Nat PROVE a * s >= a /\ a * s \in Nat
      BY SMT
    <2> QED
      BY <1>1, <2>1
  <1>8. q >= 1 => q <= x
    BY <1>1, <1>4, <1>6, <1>7
  <1>9. x = 0 => q = 0
    BY <1>1, <1>8
  <1> QED
    BY <1>1, <1>4, <1>5, <1>8, <1>9 DEF q

\* The conversion to int never makes a size larger, and keeps a small one.
LEMMA ToIntOfSize ==
    ASSUME NEW x \in Nat
    PROVE  /\ ToInt(x) \in Int /\ ToInt(x) <= x
           /\ x < IntHalf => ToInt(x) = x
  <1> DEFINE h == IntHalf
             w == 2 * h
             y == x + h
             q == y \div w
             r == y % w
  <1>1. h \in Nat \ {0}
    BY FilesAssumption
  <1>2. ToInt(x) = r - h
    BY DEF ToInt
  <1> HIDE DEF h
  <1>3. w \in Nat \ {0} /\ y \in Nat
    BY <1>1
  <1>4. q \in Nat /\ r \in 0 .. w - 1 /\ y = q * w + r
    <2> HIDE DEF w, y
    <2> QED
      BY <1>3, DivMod
  <1> HIDE DEF q, r
  <1>5. q * w \in Nat /\ (q >= 1 => q * w >= w)
    <2> HIDE DEF w
    <2> QED
      BY <1>3, <1>4, SMT
  <1>6. r <= y
    BY <1>3, <1>4, <1>5
  <1>7. ToInt(x) \in Int /\ ToInt(x) <= x
    BY <1>1, <1>2, <1>4, <1>6
  <1>8. ASSUME x < h PROVE r = y
    BY <1>1, <1>3, <1>4, <1>5, <1>8
  <1> QED
    BY <1>1, <1>2, <1>7, <1>8 DEF h

-----------------------------------------------------------------------------
(***************************************************************************)
(* The range of a call.                                                    *)
(***************************************************************************)
Call == [file : File, path : Path, offset : -1 .. MaxOffset, size : 0 .. MaxSize]

\* The calls that enter the loop.
Starts(c) == c.offset >= 0 /\ c.offset < file_size(c.file)

\* The blocks of a call that enters the loop: offset is in the first one, all but the last
\* are less than the bytes to read, and the last one begins before the end of the file.
LEMMA RangeOfCall ==
    ASSUME NEW c \in Call, Starts(c)
    PROVE  /\ ToRead(c) \in 0 .. c.size /\ c.offset + ToRead(c) <= fileSize[c.file]
           /\ first_block(c) \in 0 .. MaxOffset
           /\ block_offset(c, first_block(c)) \in 0 .. block_size - 1
           /\ block_offset(c, first_block(c)) = c.offset % block_size
           /\ c.offset = first_block(c) * block_size + block_offset(c, first_block(c))
           /\ last_block(c) \in first_block(c) .. MaxOffset + MaxSize
           /\ last_block(c) = first_block(c) + number_of_blocks(c)
           /\ number_of_blocks(c) \in 0 .. MaxSize
           /\ number_of_blocks(c) * block_size < ToRead(c) + block_size
           /\ ToRead(c) <= number_of_blocks(c) * block_size
           /\ ToRead(c) = 0 <=> number_of_blocks(c) = 0
  <1>1. /\ c.file \in File /\ c.offset \in 0 .. MaxOffset /\ c.size \in 0 .. MaxSize
        /\ MaxOffset \in Nat /\ MaxSize \in Nat /\ block_size \in Nat \ {0}
        /\ fileSize[c.file] \in Nat
    BY FilesAssumption DEF Call, Starts
  <1>2. file_size(c.file) \in Int /\ file_size(c.file) <= fileSize[c.file]
    BY <1>1, ToIntOfSize DEF file_size
  <1>3. ToRead(c) \in 0 .. c.size /\ c.offset + ToRead(c) <= fileSize[c.file]
    BY <1>1, <1>2 DEF ToRead, Starts
  <1>4. /\ first_block(c) \in 0 .. MaxOffset
        /\ c.offset % block_size \in 0 .. block_size - 1
        /\ c.offset = first_block(c) * block_size + (c.offset % block_size)
    <2>1. PICK x \in Nat : x = c.offset
      BY <1>1
    <2>2. PICK s \in Nat \ {0} : s = block_size
      BY <1>1
    <2>3. PICK q : q = x \div s
      OBVIOUS
    <2>4. PICK r : r = x % s
      OBVIOUS
    <2>5. q \in Nat /\ r \in 0 .. s - 1 /\ x = q * s + r /\ q <= x
      BY <2>3, <2>4, DivMod
    <2>6. first_block(c) = q /\ c.offset % block_size = r
      BY <2>1, <2>2, <2>3, <2>4 DEF first_block
    <2>7. q \in 0 .. MaxOffset
      BY <1>1, <2>1, <2>5
    <2> QED
      BY <2>1, <2>2, <2>5, <2>6, <2>7
  <1>5. block_offset(c, first_block(c)) = c.offset % block_size
    BY DEF block_offset
  <1> DEFINE N == number_of_blocks(c)
  <1>6. /\ N \in Nat /\ ToRead(c) <= N * block_size /\ N <= ToRead(c)
        /\ N * block_size < ToRead(c) + block_size
        /\ ToRead(c) = 0 <=> N = 0
    <2>1. ToRead(c) \in Nat
      BY <1>1, <1>3
    <2>2. N = (ToRead(c) + block_size - 1) \div block_size
      BY DEF number_of_blocks
    <2> HIDE DEF N
    <2> QED
      BY <1>1, <2>1, <2>2, RoundUp
  <1>7. last_block(c) = first_block(c) + N
    BY DEF last_block
  <1> HIDE DEF N
  <1>8. N \in 0 .. MaxSize
    BY <1>1, <1>3, <1>6
  <1>9. last_block(c) \in first_block(c) .. MaxOffset + MaxSize
    BY <1>1, <1>4, <1>7, <1>8
  <1> QED
    BY <1>3, <1>4, <1>5, <1>6, <1>7, <1>8, <1>9 DEF N

-----------------------------------------------------------------------------
(***************************************************************************)
(* The inductive invariant.                                                *)
(***************************************************************************)
\* Every cached block was read from the disk, for some file with its file ID.
BlocksFromDisk ==
    \A id \in BlockID : Cached(id) =>
        \E f \in File, n \in Nat : id = BlockKey(f, n) /\ BlockOf(id).buff = DiskBlock(f, n)

\* What remains is what the loop still has to copy: more than all blocks but the last,
\* and no more than lies between the current block and the end of the range.
LoopInv ==
    pc = "loop" =>
        /\ call \in Call /\ Starts(call)
        /\ current \in first_block(call) .. last_block(call)
        /\ buf \in Seq(Byte) /\ remaining_data \in 0 .. MaxSize
        /\ Len(buf) + remaining_data = ToRead(call)
        /\ IF current = last_block(call) THEN remaining_data = 0
           ELSE /\ remaining_data > (last_block(call) - 1 - current) * block_size
                /\ current * block_size + block_offset(call, current) + remaining_data
                       <= call.offset + ToRead(call)

\* Between calls the buffer is empty.
IdleInv == pc = "idle" => buf = <<>>

\* The types of the variables while only reads are served: call and ret are then always
\* those of a read.
CallInv ==
    /\ CacheTypeOK
    /\ pc \in {"idle", "loop", "done"}
    /\ call \in Call
    /\ current \in 0 .. MaxOffset + MaxSize
    /\ remaining_data \in 0 .. MaxSize
    /\ buf \in Seq(Byte)
    /\ ret \in {-ENOENT, -EIO} \cup 0 .. MaxSize

\* What every step of the handler keeps, whatever else the file system does between calls; and
\* with it the inductive invariant of ReadSpec.
HandlerInv == CacheInv /\ BlocksFromDisk /\ InsertNeverExits /\ LoopInv /\ IdleInv
ReadIInv == HandlerInv /\ CallInv /\ CallerBufferNotOverrun

\* What an int can tell apart: the inodes of the files, and their sizes.
InodesDistinct == \A f, g \in File : FileId(f) = FileId(g) => f = g
SizesFitInt == \A f \in File : fileSize[f] < IntHalf

\* A call that starts at a block boundary or stays within one block.
Aligned(c) ==
    \/ c.offset % block_size = 0
    \/ (c.offset % block_size) + Requested(c) <= block_size

\* The bytes copied so far are those of the file, and the copying has got as far as the
\* current block.
ExactInv ==
    pc = "loop" /\ Aligned(call) =>
        /\ \A j \in 1 .. Len(buf) : buf[j] = <<call.file, call.offset + j - 1>>
        /\ current # last_block(call) =>
              current * block_size + block_offset(call, current) = call.offset + Len(buf)

-----------------------------------------------------------------------------
(***************************************************************************)
(* One iteration of the loop.                                              *)
(***************************************************************************)
\* What the invariant says of the current block, without the names of the call.
LEMMA CurrentBlock ==
    ASSUME HandlerInv, InLoop
    PROVE  /\ call \in Call /\ Starts(call) /\ block_size \in Nat \ {0}
           /\ current \in Nat /\ last_block(call) \in Nat /\ current < last_block(call)
           /\ block_offset(call, current) \in 0 .. block_size - 1
           /\ current # first_block(call) => block_offset(call, current) = 0
           /\ remaining_data \in Nat /\ current * block_size \in Nat
           /\ current < last_block(call) - 1 => remaining_data > block_size
           /\ current * block_size + block_offset(call, current) + remaining_data
                  <= call.offset + ToRead(call)
           /\ call.offset + ToRead(call) <= fileSize[call.file]
           /\ call.offset + ToRead(call) \in 0 .. MaxOffset + MaxSize
           /\ current \in BlocksOf(call.file)
  <1>1. /\ call \in Call /\ Starts(call) /\ block_size \in Nat \ {0} /\ remaining_data \in Nat
        /\ call.file \in File /\ call.offset \in 0 .. MaxOffset /\ call.size \in 0 .. MaxSize
        /\ MaxOffset \in Nat /\ MaxSize \in Nat /\ fileSize[call.file] \in Nat
    BY FilesAssumption DEF HandlerInv, LoopInv, InLoop, Call, Starts
  <1>2. /\ ToRead(call) \in 0 .. call.size /\ call.offset + ToRead(call) <= fileSize[call.file]
        /\ first_block(call) \in Nat /\ last_block(call) \in Nat
        /\ block_offset(call, first_block(call)) \in 0 .. block_size - 1
    BY <1>1, RangeOfCall
  <1>3. /\ current \in Nat /\ current < last_block(call)
        /\ remaining_data > (last_block(call) - 1 - current) * block_size
        /\ current * block_size + block_offset(call, current) + remaining_data
               <= call.offset + ToRead(call)
    BY <1>2 DEF HandlerInv, LoopInv, InLoop
  <1>4. /\ block_offset(call, current) \in 0 .. block_size - 1
        /\ current # first_block(call) => block_offset(call, current) = 0
    BY <1>1, <1>2 DEF block_offset
  <1>5. ASSUME current < last_block(call) - 1 PROVE remaining_data > block_size
    <2> DEFINE d == last_block(call) - 1 - current
    <2>1. d \in Nat /\ 1 <= d
      BY <1>2, <1>3, <1>5
    <2>2. remaining_data > d * block_size
      BY <1>3
    <2> HIDE DEF d
    <2>3. 1 * block_size <= d * block_size
      BY <1>1, <2>1, TimesMonotone
    <2>4. d * block_size \in Nat /\ 1 * block_size = block_size
      BY <1>1, <2>1
    <2> QED
      BY <1>1, <2>2, <2>3, <2>4
  <1>6. current * block_size \in Nat
    BY <1>1, <1>3
  <1>7. current * block_size <= fileSize[call.file]
    BY <1>1, <1>2, <1>3, <1>4, <1>6
  <1>8. current \in BlocksOf(call.file)
    <2> DEFINE S == fileSize[call.file]
               q == S \div block_size
               r == S % block_size
    <2>1. q \in Nat /\ r \in 0 .. block_size - 1 /\ S = q * block_size + r
      BY <1>1, DivMod
    <2>2. current * block_size <= q * block_size + r
      BY <1>7, <2>1
    <2> HIDE DEF q, r
    <2>3. current <= q
      <3>1. SUFFICES ASSUME q + 1 <= current PROVE FALSE
        BY <1>3, <2>1
      <3>2. (q + 1) * block_size <= current * block_size
        BY <1>1, <1>3, <2>1, <3>1, TimesMonotone
      <3>3. (q + 1) * block_size = q * block_size + block_size /\ q * block_size \in Nat
        BY <1>1, <2>1
      <3> QED
        BY <1>1, <1>6, <2>1, <2>2, <3>2, <3>3
    <2> QED
      BY <1>3, <2>1, <2>3 DEF BlocksOf, q
  <1>9. call.offset + ToRead(call) \in 0 .. MaxOffset + MaxSize
    BY <1>1, <1>2
  <1> QED
    BY <1>1, <1>2, <1>3, <1>4, <1>5, <1>6, <1>8, <1>9

\* The size of a copy: all that remains from the last block, and otherwise at most a block
\* and at least what is left of the current one.  pread has read a whole block then.
LEMMA SizeOfCopy ==
    ASSUME HandlerInv, InLoop, NEW got \in {0, PreadRet(call.file, current)}
    PROVE  LET size == SizeToCopy(call, current, got, remaining_data) IN
           /\ size \in 0 .. remaining_data
           /\ current = last_block(call) - 1 => size = remaining_data
           /\ current < last_block(call) - 1 =>
                 /\ size <= block_size /\ size >= block_size - block_offset(call, current)
  <1> DEFINE n == current
             L == last_block(call)
             o == block_offset(call, current)
             rem == remaining_data
  <1>1. /\ block_size \in Nat \ {0} /\ n \in Nat /\ L \in Nat /\ n < L
        /\ o \in 0 .. block_size - 1 /\ rem \in Nat /\ n * block_size \in Nat
        /\ n # first_block(call) => o = 0
        /\ n < L - 1 => rem > block_size
        /\ n * block_size + o + rem <= fileSize[call.file]
    <2>1. /\ call.offset + ToRead(call) \in Int /\ fileSize[call.file] \in Int
          /\ n * block_size + o + rem <= call.offset + ToRead(call)
          /\ call.offset + ToRead(call) <= fileSize[call.file]
      BY CurrentBlock, FilesAssumption DEF Call
    <2>2. n * block_size + o + rem <= fileSize[call.file]
      BY <2>1, CurrentBlock
    <2> QED
      BY <2>2, CurrentBlock
  <1>2. fileSize[call.file] \in Nat
    BY CurrentBlock, FilesAssumption DEF Call
  <1>3. n < L - 1 => PreadRet(call.file, current) = block_size
    BY <1>1, <1>2 DEF PreadRet
  <1>4. CASE n = L - 1
    BY <1>1, <1>4 DEF SizeToCopy
  <1>5. CASE n < L - 1
    <2>1. SizeToCopy(call, current, got, remaining_data) \in {block_size, block_size - o}
      BY <1>1, <1>3, <1>5 DEF SizeToCopy
    <2> QED
      BY <1>1, <1>5, <2>1
  <1> QED
    BY <1>1, <1>4, <1>5

\* The bytes a copy puts into the caller's buffer.
LEMMA CopiedBytes ==
    ASSUME HandlerInv, InLoop, NEW g \in File,
           NEW size \in 0 .. remaining_data
    PROVE  LET o == block_offset(call, current)
               bytes == Copied(DiskBlock(g, current), o, size)
           IN  /\ bytes \in Seq(Byte) /\ Len(bytes) = size
               /\ \A j \in 1 .. size :
                     o + j - 1 < block_size /\ current * block_size + o + j - 1 < fileSize[g]
                         => bytes[j] = <<g, current * block_size + o + j - 1>>
  <1> DEFINE o == block_offset(call, current)
             b == current * block_size
             data == DiskBlock(g, current)
             bytes == Copied(data, o, size)
  <1>1. /\ block_size \in Nat \ {0} /\ o \in 0 .. block_size - 1 /\ b \in Nat
        /\ remaining_data \in Nat /\ size \in Nat
        /\ b + o + remaining_data <= call.offset + ToRead(call)
        /\ call.offset + ToRead(call) \in 0 .. MaxOffset + MaxSize
        /\ MaxOffset \in Nat /\ MaxSize \in Nat
    BY CurrentBlock, FilesAssumption
  <1>2. data = [i \in 0 .. block_size - 1 |-> IF b + i < fileSize[g]
                                              THEN <<g, b + i>> ELSE Garbage]
    BY DEF DiskBlock
  <1>3. bytes = [j \in 1 .. size |-> IF o + j - 1 < block_size THEN data[o + j - 1] ELSE Garbage]
    BY DEF Copied
  <1> HIDE DEF o, b, data, bytes
  <1>4. ASSUME NEW j \in 1 .. size
        PROVE  /\ bytes[j] \in Byte
               /\ o + j - 1 < block_size /\ b + o + j - 1 < fileSize[g]
                     => bytes[j] = <<g, b + o + j - 1>>
    <2>1. CASE o + j - 1 < block_size
      <3>1. o + j - 1 \in 0 .. block_size - 1
        BY <1>1, <2>1
      <3>2. b + (o + j - 1) \in 0 .. MaxOffset + MaxSize /\ b + (o + j - 1) = b + o + j - 1
        BY <1>1
      <3>3. bytes[j] = IF b + (o + j - 1) < fileSize[g] THEN <<g, b + (o + j - 1)>> ELSE Garbage
        BY <1>2, <1>3, <2>1, <3>1
      <3> QED
        BY <3>2, <3>3 DEF Byte
    <2>2. CASE ~(o + j - 1 < block_size)
      BY <1>3, <2>2 DEF Byte
    <2> QED
      BY <2>1, <2>2
  <1>5. bytes \in Seq(Byte) /\ Len(bytes) = size
    <2>1. bytes \in [1 .. size -> Byte]
      BY <1>3, <1>4
    <2> QED
      BY <1>1, <2>1
  <1>6. \A j \in 1 .. size : o + j - 1 < block_size /\ b + o + j - 1 < fileSize[g]
                                 => bytes[j] = <<g, b + o + j - 1>>
    BY <1>4
  <1> QED
    BY <1>5, <1>6 DEF o, b, data, bytes

\* The loop's invariant is kept by an iteration, whatever is in the block, and the copy
\* stays within the caller's buffer.
LEMMA CopyOutKeepsLoop ==
    ASSUME HandlerInv, InLoop, NEW got \in {0, PreadRet(call.file, current)},
           NEW g \in File, CopyOut(DiskBlock(g, current), got)
    PROVE  /\ LoopInv' /\ IdleInv' /\ CallerBufferNotOverrun'
           /\ UNCHANGED <<pc, call, ret>>
           /\ current' \in 0 .. MaxOffset + MaxSize /\ remaining_data' \in 0 .. MaxSize
           /\ buf' \in Seq(Byte)
  <1> DEFINE size == SizeToCopy(call, current, got, remaining_data)
             L == last_block(call)
             bytes == Copied(DiskBlock(g, current), block_offset(call, current), size)
  <1>1. /\ size \in 0 .. remaining_data
        /\ current = L - 1 => size = remaining_data
        /\ current < L - 1 => size <= block_size /\ size >= block_size - block_offset(call, current)
    BY SizeOfCopy
  <1>2. /\ buf' = buf \o bytes /\ remaining_data' = remaining_data - size
        /\ current' = current + 1 /\ UNCHANGED <<pc, call, ret>>
    BY DEF CopyOut
  <1> HIDE DEF size
  <1>3. bytes \in Seq(Byte) /\ Len(bytes) = size
    BY <1>1, CopiedBytes
  <1>4. /\ buf \in Seq(Byte) /\ remaining_data \in 0 .. MaxSize
        /\ Len(buf) + remaining_data = ToRead(call) /\ pc = "loop"
        /\ current \in first_block(call) .. L
        /\ remaining_data > (L - 1 - current) * block_size \/ current = L
    BY DEF HandlerInv, LoopInv, InLoop
  <1> HIDE DEF bytes
  <1>5. buf' \in Seq(Byte) /\ Len(buf') = Len(buf) + size /\ Len(buf) \in Nat
    BY <1>2, <1>3, <1>4, ConcatProperties, LenProperties
  <1>6. /\ call \in Call /\ Starts(call) /\ block_size \in Nat \ {0}
        /\ current \in Nat /\ L \in Nat /\ current < L
        /\ block_offset(call, current) \in 0 .. block_size - 1
        /\ current * block_size \in Nat
        /\ current * block_size + block_offset(call, current) + remaining_data
               <= call.offset + ToRead(call)
    BY CurrentBlock
  <1>7. /\ first_block(call) \in Nat /\ ToRead(call) \in Nat /\ ToRead(call) <= call.size
        /\ L \in first_block(call) .. MaxOffset + MaxSize
        /\ call.size \in 0 .. MaxSize /\ call.offset \in Nat /\ MaxSize \in Nat /\ MaxOffset \in Nat
    BY <1>6, RangeOfCall, FilesAssumption DEF Call, Starts
  <1>8. block_offset(call, current + 1) = 0
    BY <1>4, <1>6, <1>7 DEF block_offset
  <1> HIDE DEF L
  <1>9. remaining_data - size \in 0 .. MaxSize /\ Len(buf') + remaining_data' = ToRead(call)
    BY <1>1, <1>2, <1>4, <1>5, <1>7
  <1>10. current + 1 \in first_block(call) .. L
    BY <1>4, <1>6, <1>7
  <1>11. current + 1 = L => remaining_data' = 0
    BY <1>1, <1>2, <1>4, <1>6
  <1>12. ASSUME current + 1 # L
         PROVE  /\ remaining_data' > (L - 1 - (current + 1)) * block_size
                /\ (current + 1) * block_size + 0 + remaining_data' <= call.offset + ToRead(call)
    <2>1. current < L - 1 /\ remaining_data > (L - 1 - current) * block_size
      BY <1>4, <1>6, <1>12
    <2>2. (L - 1 - current) * block_size = (L - 1 - (current + 1)) * block_size + block_size
      BY <1>6
    <2>3. (L - 1 - (current + 1)) * block_size \in Int
      BY <1>6
    <2>4. remaining_data' > (L - 1 - (current + 1)) * block_size
      BY <1>1, <1>2, <1>4, <1>6, <1>7, <2>1, <2>2, <2>3
    <2>5. (current + 1) * block_size = current * block_size + block_size
      BY <1>6
    <2>6. current * block_size + block_size + remaining_data' <= call.offset + ToRead(call)
      <3> DEFINE b == current * block_size
                 o == block_offset(call, current)
                 e == call.offset + ToRead(call)
      <3>1. /\ size >= block_size - o /\ b + o + remaining_data <= e
            /\ b \in Nat /\ o \in 0 .. block_size - 1
        BY <1>1, <1>6, <2>1
      <3>2. e \in Nat
        BY <1>7
      <3> HIDE DEF b, o, e
      <3>3. o \in Nat /\ size \in Nat /\ remaining_data \in Nat
        BY <1>1, <1>4, <1>6, <1>7, <3>1
      <3>4. b + block_size + (remaining_data - size) <= e
        BY <1>6, <3>1, <3>2, <3>3
      <3> QED
        BY <1>2, <3>4 DEF b, e
    <2> QED
      BY <1>2, <1>6, <1>9, <2>4, <2>5, <2>6
  <1>13. LoopInv'
    <2>1. UNCHANGED <<ToRead(call), first_block(call), L, block_size, call.offset, Starts(call)>>
      BY <1>2 DEF ToRead, first_block, L, Starts, last_block, number_of_blocks
    <2>2. block_offset(call, current)' = 0
      BY <1>2, <1>8 DEF block_offset, first_block
    <2> QED
      BY <1>2, <1>5, <1>6, <1>9, <1>10, <1>11, <1>12, <2>1, <2>2 DEF LoopInv, L
  <1>14. current' \in 0 .. MaxOffset + MaxSize
    BY <1>2, <1>6, <1>7, <1>10
  <1>15. CallerBufferNotOverrun'
    <2>1. Len(buf') <= call.size
      BY <1>2, <1>5, <1>7, <1>9
    <2> QED
      BY <1>2, <2>1 DEF CallerBufferNotOverrun
  <1>16. IdleInv'
    BY <1>2, <1>4 DEF IdleInv
  <1> QED
    BY <1>2, <1>5, <1>9, <1>13, <1>14, <1>15, <1>16

-----------------------------------------------------------------------------
(***************************************************************************)
(* The cache under caching_read.                                           *)
(***************************************************************************)
\* A hit leaves the cached blocks what they are.
LEMMA HitKeepsDisk ==
    ASSUME CacheInv, BlocksFromDisk, NEW id \in BlockID, RetrieveHit(id)
    PROVE  CacheInv' /\ BlocksFromDisk' /\ status' = "running"
  <1>1. status = "running" /\ status' = "running" /\ FindBlock(id) /\ Cached(id)
    BY DEF RetrieveHit, FindBlock, FindInNew, FindInMiddle, FindInOld
  <1>2. CacheInv'
    BY <1>1, FindBlockInv
  <1>3. PICK k \in Positions : HitOf(id, k)
    BY <1>1, FindBlockEffect
  <1>4. \A x \in BlockID : /\ Cached(x)' <=> Cached(x)
                           /\ Cached(x) => BlockOf(x)'.buff = BlockOf(x).buff
    BY <1>1, <1>3, HitByID DEF SameButTag
  <1>5. BlocksFromDisk'
    <2> SUFFICES ASSUME NEW x \in BlockID, Cached(x)'
                 PROVE  \E f \in File, n \in Nat :
                           x = BlockKey(f, n) /\ BlockOf(x)'.buff = DiskBlock(f, n)
      BY DEF BlocksFromDisk
    <2> QED
      BY <1>4 DEF BlocksFromDisk
  <1> QED
    BY <1>1, <1>2, <1>5

\* The key a block is inserted under is the one that was looked up, so insertBlock does
\* not exit, and what is inserted is what was read.
LEMMA InsertKeepsDisk ==
    ASSUME CacheInv, BlocksFromDisk, NEW f \in File, NEW n \in BlocksOf(f), NEW path \in Path,
           ~Cached(BlockKey(f, n)), InsertBlock(InsertKey(f, n), DiskBlock(f, n), path)
    PROVE  CacheInv' /\ BlocksFromDisk' /\ status' # "exited"
  <1> DEFINE id == BlockKey(f, n)
             data == DiskBlock(f, n)
  <1>1. id \in BlockID /\ data \in Buff /\ n \in Nat
    BY FilesAssumption DEF BlocksOf
  <1>2. status = "running" /\ ~Cached(id) /\ InsertNew(id, data, path)
    BY DEF InsertBlock, InsertKey, BlockKey
  <1> HIDE DEF id, data
  <1>3. CacheInv'
    BY <1>1, <1>2, InsertNewInv
  <1>4. status' # "exited"
    BY <1>2 DEF InsertNew
  <1>5. ErasePosition \in Positions /\ InsertOf(id, data, path, ErasePosition)
    BY <1>1, <1>2, InsertNewEffect, ErasePositionIsOld
  <1>6. /\ BlockOf(id)'.buff = data
        /\ \A x \in BlockID : x # id =>
              /\ Cached(x)' => Cached(x)
              /\ Cached(x)' => SameButTag(BlockOf(x)', BlockOf(x))
    BY <1>1, <1>2, <1>5, InsertByID
  <1>7. BlocksFromDisk'
    <2> SUFFICES ASSUME NEW x \in BlockID, Cached(x)'
                 PROVE  \E g \in File, m \in Nat :
                           x = BlockKey(g, m) /\ BlockOf(x)'.buff = DiskBlock(g, m)
      BY DEF BlocksFromDisk
    <2>1. CASE x = id
      BY <1>1, <1>6, <2>1 DEF id, data
    <2>2. CASE x # id
      BY <1>6, <2>2 DEF BlocksFromDisk, SameButTag
    <2> QED
      BY <2>1, <2>2
  <1> QED
    BY <1>3, <1>4, <1>7

\* The buffer a hit returns was read from the same place of a file with the same file ID.
LEMMA CachedBuffer ==
    ASSUME BlocksFromDisk, NEW f \in File, NEW n \in BlocksOf(f), Cached(BlockKey(f, n))
    PROVE  \E g \in File : FileId(g) = FileId(f) /\ BlockOf(BlockKey(f, n)).buff = DiskBlock(g, n)
  <1>1. BlockKey(f, n) \in BlockID
    BY FilesAssumption
  <1>2. PICK g \in File, m \in Nat : /\ BlockKey(f, n) = BlockKey(g, m)
                                    /\ BlockOf(BlockKey(f, n)).buff = DiskBlock(g, m)
    BY <1>1 DEF BlocksFromDisk
  <1>3. FileId(g) = FileId(f) /\ m = n
    BY <1>2 DEF BlockKey
  <1> QED
    BY <1>2, <1>3

\* An iteration copies bytes of the current block of some file with the call's file ID.
LEMMA IterationCopies ==
    ASSUME HandlerInv, CopyCachedBlock \/ CopyDiskBlock
    PROVE  /\ InLoop /\ CacheInv' /\ BlocksFromDisk' /\ InsertNeverExits'
           /\ \E g \in File, got \in {0, PreadRet(call.file, current)} :
                 FileId(g) = FileId(call.file) /\ CopyOut(DiskBlock(g, current), got)
  <1>1. InLoop
    BY DEF CopyCachedBlock, CopyDiskBlock
  <1>2. /\ call.file \in File /\ call.path \in Path /\ current \in BlocksOf(call.file)
        /\ CacheInv /\ BlocksFromDisk /\ BlockKey(call.file, current) \in BlockID
    BY <1>1, CurrentBlock, FilesAssumption DEF Call, HandlerInv
  <1>3. CASE CopyCachedBlock
    <2>1. /\ RetrieveHit(BlockKey(call.file, current))
          /\ CopyOut(BlockOf(BlockKey(call.file, current)).buff, 0)
      BY <1>3 DEF CopyCachedBlock, BlockOf
    <2>2. Cached(BlockKey(call.file, current))
      BY <2>1 DEF RetrieveHit, FindBlock, FindInNew, FindInMiddle, FindInOld
    <2>3. PICK g \in File : /\ FileId(g) = FileId(call.file)
                            /\ BlockOf(BlockKey(call.file, current)).buff = DiskBlock(g, current)
      BY <1>2, <2>2, CachedBuffer
    <2>4. CopyOut(DiskBlock(g, current), 0)
      BY <2>1, <2>3
    <2> QED
      BY <1>1, <1>2, <2>1, <2>3, <2>4, HitKeepsDisk DEF InsertNeverExits
  <1>4. CASE CopyDiskBlock
    BY <1>1, <1>2, <1>4, InsertKeepsDisk DEF CopyDiskBlock, InsertNeverExits
  <1> QED
    BY <1>3, <1>4

-----------------------------------------------------------------------------
(***************************************************************************)
(* The invariant.                                                          *)
(***************************************************************************)
\* Steps that leave the cache alone.
LEMMA CacheUntouched ==
    ASSUME HandlerInv, UNCHANGED cacheVars
    PROVE  CacheInv' /\ CacheTypeOK' /\ BlocksFromDisk' /\ InsertNeverExits'
  <1>1. CacheInv'
    BY NextInv DEF HandlerInv
  <1>2. BlocksFromDisk' /\ InsertNeverExits'
    BY DEF HandlerInv, InsertNeverExits, BlocksFromDisk, Cached, BlockOf, cacheVars
  <1> QED
    BY <1>1, <1>2 DEF CacheInv

\* A call that enters the loop has everything before it.
LEMMA LoopEntered ==
    ASSUME NEW c \in Call, Starts(c)
    PROVE  /\ first_block(c) \in first_block(c) .. last_block(c)
           /\ IF first_block(c) = last_block(c) THEN ToRead(c) = 0
              ELSE /\ ToRead(c) > (last_block(c) - 1 - first_block(c)) * block_size
                   /\ first_block(c) * block_size + block_offset(c, first_block(c)) + ToRead(c)
                          <= c.offset + ToRead(c)
  <1> DEFINE N == number_of_blocks(c)
             F == first_block(c)
             T == ToRead(c)
  <1>1. /\ T \in Nat /\ F \in Nat /\ N \in Nat /\ block_size \in Nat \ {0} /\ c.offset \in Nat
        /\ c.offset = F * block_size + block_offset(c, F)
        /\ last_block(c) = F + N /\ N * block_size < T + block_size /\ (T = 0 <=> N = 0)
    BY RangeOfCall, FilesAssumption DEF Call, Starts
  <1> HIDE DEF N, F, T
  <1>2. /\ F \in F .. last_block(c)
        /\ F = last_block(c) => T = 0
    BY <1>1
  <1>3. T > (last_block(c) - 1 - F) * block_size
    <2>1. last_block(c) - 1 - F = N - 1
      BY <1>1
    <2>2. (N - 1) * block_size = N * block_size - block_size /\ N * block_size \in Nat
      BY <1>1
    <2>3. T > (N - 1) * block_size
      BY <1>1, <2>2
    <2> QED
      BY <2>1, <2>3
  <1>4. F * block_size + block_offset(c, F) + T <= c.offset + T
    BY <1>1
  <1> QED
    BY <1>2, <1>3, <1>4 DEF F, T

\* The invariant holds at the start.
LEMMA ReadInitIInv == ReadInit => ReadIInv
  <1> SUFFICES ASSUME ReadInit PROVE ReadIInv
    OBVIOUS
  <1>1. CacheInv
    BY InitInv DEF ReadInit
  <1>2. NoCall \in Call
    <2>1. (CHOOSE f \in File : TRUE) \in File
      BY FilesAssumption
    <2> QED
      BY <2>1, FilesAssumption DEF NoCall, Call
  <1>3. CallInv
    BY <1>1, <1>2, FilesAssumption DEF ReadInit, CallInv, CacheInv, Call
  <1>4. CallerBufferNotOverrun
    BY DEF ReadInit, CallerBufferNotOverrun, NoCall
  <1>5. InsertNeverExits
    BY DEF ReadInit, CacheInit, InsertNeverExits
  <1>6. BlocksFromDisk
    BY DEF ReadInit, CacheInit, BlocksFromDisk, Cached
  <1>7. LoopInv /\ IdleInv
    BY DEF ReadInit, LoopInv, IdleInv
  <1> QED
    BY <1>1, <1>3, <1>4, <1>5, <1>6, <1>7 DEF ReadIInv, HandlerInv

\* The checks before the loop establish the invariant of the loop.
LEMMA BeginReadKeeps ==
    ASSUME HandlerInv, NEW f \in File, NEW offset \in -1 .. MaxOffset, NEW size \in 0 .. MaxSize,
           NEW path \in Path, BeginRead(f, path, offset, size)
    PROVE  HandlerInv' /\ CallerBufferNotOverrun' /\ (CallInv => CallInv')
  <1> DEFINE c == [file |-> f, path |-> path, offset |-> offset, size |-> size]
  <1>1. /\ pc = "idle" /\ call' = c /\ UNCHANGED <<cacheVars, buf>>
        /\ \/ pc' = "done" /\ ret' \in {-ENOENT, 0} /\ UNCHANGED <<current, remaining_data>>
           \/ /\ offset >= 0 /\ offset < file_size(f)
              /\ current' = first_block(c) /\ remaining_data' = ToRead(c)
              /\ pc' = "loop" /\ UNCHANGED ret
    BY DEF BeginRead, Return
  <1>2. c \in Call /\ c.file = f /\ c.offset = offset /\ c.size = size
    BY DEF Call
  <1> HIDE DEF c
  <1>3. CacheInv' /\ CacheTypeOK' /\ BlocksFromDisk' /\ InsertNeverExits'
    BY <1>1, CacheUntouched
  <1>4. buf = <<>> /\ Len(buf) = 0 /\ buf' = buf
    BY <1>1 DEF HandlerInv, IdleInv
  <1>5. CallerBufferNotOverrun'
    BY <1>1, <1>2, <1>4 DEF CallerBufferNotOverrun
  <1>6. IdleInv'
    BY <1>4 DEF IdleInv
  <1>7. CASE pc' = "done"
    <2>1. CallInv => CallInv'
      BY <1>1, <1>2, <1>3, <1>4, <1>7, FilesAssumption, SMTT(30) DEF CallInv, Call
    <2>2. LoopInv'
      BY <1>7 DEF LoopInv
    <2> QED
      BY <1>3, <1>5, <1>6, <2>1, <2>2 DEF HandlerInv
  <1>8. CASE pc' = "loop"
    <2>1. /\ Starts(c) /\ current' = first_block(c) /\ remaining_data' = ToRead(c)
          /\ UNCHANGED ret
      BY <1>1, <1>2, <1>8 DEF Starts
    <2>2. /\ first_block(c) \in 0 .. MaxOffset /\ ToRead(c) \in 0 .. size
      BY <1>2, <2>1, RangeOfCall
    <2>3. first_block(c) \in 0 .. MaxOffset + MaxSize /\ ToRead(c) \in 0 .. MaxSize
      BY <2>2, FilesAssumption
    <2>4. CallInv => CallInv'
      BY <1>1, <1>2, <1>3, <1>4, <1>8, <2>1, <2>3 DEF CallInv, Call
    <2>5. LoopInv'
      <3>1. /\ first_block(c) \in first_block(c) .. last_block(c)
            /\ IF first_block(c) = last_block(c) THEN ToRead(c) = 0
               ELSE /\ ToRead(c) > (last_block(c) - 1 - first_block(c)) * block_size
                    /\ first_block(c) * block_size + block_offset(c, first_block(c)) + ToRead(c)
                           <= c.offset + ToRead(c)
        BY <1>2, <2>1, LoopEntered
      <3>2. Len(buf') + ToRead(c) = ToRead(c)
        BY <1>4, <2>3
      <3>3. /\ Starts(call)' /\ ToRead(call)' = ToRead(c) /\ first_block(call)' = first_block(c)
            /\ last_block(call)' = last_block(c) /\ call.offset' = c.offset
            /\ block_offset(call, current)' = block_offset(c, first_block(c))
        BY <1>1, <2>1 DEF Starts, ToRead, first_block, last_block, number_of_blocks, block_offset
      <3> QED
        BY <1>1, <1>2, <1>4, <2>1, <2>3, <3>1, <3>2, <3>3 DEF LoopInv
    <2> QED
      BY <1>3, <1>5, <1>6, <2>4, <2>5 DEF HandlerInv
  <1> QED
    BY <1>1, <1>7, <1>8

\* Copying a block, a failing pread and the end of the loop keep it.
LEMMA ReadStepKeeps ==
    ASSUME HandlerInv, ReadStep
    PROVE  /\ HandlerInv' /\ call' = call
           /\ CallerBufferNotOverrun => CallerBufferNotOverrun'
           /\ CallInv /\ CallerBufferNotOverrun => CallInv'
  <1>1. CASE CopyCachedBlock \/ CopyDiskBlock
    <2>1. InLoop /\ CacheInv' /\ BlocksFromDisk' /\ InsertNeverExits'
      BY <1>1, IterationCopies
    <2>2. PICK g \in File, got \in {0, PreadRet(call.file, current)} :
             CopyOut(DiskBlock(g, current), got)
      BY <1>1, IterationCopies
    <2>3. /\ LoopInv' /\ IdleInv' /\ CallerBufferNotOverrun' /\ UNCHANGED <<pc, call, ret>>
          /\ current' \in 0 .. MaxOffset + MaxSize /\ remaining_data' \in 0 .. MaxSize
          /\ buf' \in Seq(Byte)
      BY <2>1, <2>2, CopyOutKeepsLoop
    <2>4. CallInv => CallInv'
      BY <2>1, <2>3 DEF CallInv, CacheInv
    <2> QED
      BY <2>1, <2>3, <2>4 DEF HandlerInv
  <1>2. CASE PreadFails \/ EndRead
    <2>1. /\ pc = "loop" /\ pc' = "done"
          /\ UNCHANGED <<cacheVars, call, current, remaining_data, buf>>
          /\ ret' \in {-EIO, Len(buf)}
      BY <1>2 DEF PreadFails, EndRead, InLoop, Return
    <2>2. CacheInv' /\ CacheTypeOK' /\ BlocksFromDisk' /\ InsertNeverExits'
      BY <2>1, CacheUntouched
    <2>3. ASSUME CallInv, CallerBufferNotOverrun PROVE CallInv'
      <3>1. Len(buf) \in Nat
        BY <2>3, LenProperties DEF CallInv
      <3>2. Len(buf) <= call.size /\ call.size \in 0 .. MaxSize
        BY <2>3 DEF CallerBufferNotOverrun, CallInv, Call
      <3>3. Len(buf) \in 0 .. MaxSize
        BY <3>1, <3>2, FilesAssumption
      <3> QED
        BY <2>1, <2>2, <2>3, <3>3 DEF CallInv
    <2>4. CallerBufferNotOverrun => CallerBufferNotOverrun'
      BY <2>1 DEF CallerBufferNotOverrun
    <2>5. LoopInv' /\ IdleInv'
      BY <2>1 DEF LoopInv, IdleInv
    <2> QED
      BY <2>1, <2>2, <2>3, <2>4, <2>5 DEF HandlerInv
  <1> QED
    BY <1>1, <1>2 DEF ReadStep

\* So does the return from the handler.
LEMMA ReplyKeeps ==
    ASSUME HandlerInv, Reply
    PROVE  HandlerInv' /\ CallerBufferNotOverrun' /\ CallInv'
  <1>1. CacheInv' /\ CacheTypeOK' /\ BlocksFromDisk' /\ InsertNeverExits'
    BY CacheUntouched DEF Reply
  <1>2. NoCall \in Call /\ NoCall.size = 0
    <2>1. (CHOOSE f \in File : TRUE) \in File
      BY FilesAssumption
    <2> QED
      BY <2>1, FilesAssumption DEF NoCall, Call
  <1>3. CallInv'
    BY <1>1, <1>2, FilesAssumption DEF Reply, CallInv, Call
  <1>4. CallerBufferNotOverrun' /\ LoopInv' /\ IdleInv'
    BY <1>2 DEF Reply, CallerBufferNotOverrun, LoopInv, IdleInv
  <1> QED
    BY <1>1, <1>3, <1>4 DEF HandlerInv

\* Nothing but the variables of the cache and of the call matters to it.
LEMMA ReadStutterKeeps ==
    ASSUME HandlerInv, UNCHANGED vars
    PROVE  HandlerInv' /\ (CallerBufferNotOverrun => CallerBufferNotOverrun')
           /\ (CallInv => CallInv')
  <1>1. UNCHANGED cacheVars /\ UNCHANGED readVars
    BY DEF vars
  <1>2. CacheInv' /\ CacheTypeOK' /\ BlocksFromDisk' /\ InsertNeverExits'
    BY <1>1, CacheUntouched
  <1>3. LoopInv' /\ IdleInv'
    BY <1>1 DEF HandlerInv, readVars, LoopInv, IdleInv,
       Starts, ToRead, first_block, last_block, number_of_blocks, block_offset
  <1> QED
    BY <1>1, <1>2, <1>3 DEF HandlerInv, readVars, CallInv, CallerBufferNotOverrun

\* Every step keeps the inductive invariant.
LEMMA ReadNextIInv == ReadIInv /\ [ReadNext]_vars => ReadIInv'
  <1> SUFFICES ASSUME ReadIInv, [ReadNext]_vars PROVE ReadIInv'
    OBVIOUS
  <1>1. HandlerInv /\ CallInv /\ CallerBufferNotOverrun
    BY DEF ReadIInv
  <1>2. \A f \in File : filePath[f] \in Path /\ LogPath \in Path
    BY FilesAssumption
  <1>3. ASSUME NEW f \in File, NEW offset \in -1 .. MaxOffset, NEW size \in 0 .. MaxSize,
               NEW path \in {filePath[f], LogPath}, BeginRead(f, path, offset, size)
        PROVE  ReadIInv'
    BY <1>1, <1>2, <1>3, BeginReadKeeps DEF ReadIInv
  <1>4. CASE ReadStep
    BY <1>1, <1>4, ReadStepKeeps DEF ReadIInv
  <1>5. CASE Reply
    BY <1>1, <1>5, ReplyKeeps DEF ReadIInv
  <1>6. CASE UNCHANGED vars
    BY <1>1, <1>6, ReadStutterKeeps DEF ReadIInv
  <1> QED
    BY <1>3, <1>4, <1>5, <1>6 DEF ReadNext

\* The inductive invariant holds of every behaviour of caching_read.
LEMMA ReadIInvHolds == ReadSpec => []ReadIInv
  BY ReadInitIInv, ReadNextIInv, PTL DEF ReadSpec

\* For every cache and all files, whatever their inodes and sizes, the copies of caching_read
\* stay within the caller's buffer and insertBlock never finds the block already there.
THEOREM ReadInvHolds == ReadSpec => []ReadInv
  <1>1. ReadIInv => ReadInv
    <2> SUFFICES ASSUME ReadIInv PROVE ReadTypeOK
      BY DEF ReadIInv, HandlerInv, ReadInv
    <2>1. ret \in Int
      BY FilesAssumption DEF ReadIInv, CallInv, ENOENT, EIO
    <2> QED
      BY <2>1 DEF ReadIInv, CallInv, Call, ReadTypeOK
  <1> QED
    BY <1>1, ReadIInvHolds, PTL

\* If an int tells the inodes of the files apart, a cached block holds what is on the disk
\* at its place of its file.
THEOREM CachedBlocksRight ==
    ASSUME InodesDistinct
    PROVE  ReadSpec => []CachedBlocksHoldFileData
  <1>1. ReadIInv => CachedBlocksHoldFileData
    <2> SUFFICES ASSUME ReadIInv, NEW f \in File, NEW n \in BlocksOf(f), Cached(BlockKey(f, n))
                 PROVE  block[blocksMap[BlockKey(f, n)]].buff = DiskBlock(f, n)
      BY DEF CachedBlocksHoldFileData
    <2> QED
      BY CachedBuffer DEF ReadIInv, HandlerInv, InodesDistinct, BlockOf
  <1> QED
    BY <1>1, ReadIInvHolds, PTL

-----------------------------------------------------------------------------
(***************************************************************************)
(* Counts and bytes.                                                       *)
(***************************************************************************)
\* The loop reads no more than what was asked for, and exactly that if the file's size
\* fits in an int.
LEMMA ToReadIsRequested ==
    ASSUME NEW c \in Call
    PROVE  /\ Starts(c) => ToRead(c) <= Requested(c) /\ Requested(c) \in Nat
           /\ SizesFitInt => /\ Starts(c) => ToRead(c) = Requested(c)
                             /\ ~Starts(c) => Requested(c) = 0
  <1>1. c.file \in File /\ fileSize[c.file] \in Nat /\ c.offset \in Int /\ c.size \in Nat
    BY FilesAssumption DEF Call
  <1>2. /\ file_size(c.file) \in Int /\ file_size(c.file) <= fileSize[c.file]
        /\ SizesFitInt => file_size(c.file) = fileSize[c.file]
    BY <1>1, ToIntOfSize DEF file_size, SizesFitInt
  <1>3. Starts(c) => ToRead(c) <= Requested(c) /\ Requested(c) \in Nat
    BY <1>1, <1>2 DEF Starts, ToRead, Requested
  <1>4. SizesFitInt => /\ Starts(c) => ToRead(c) = Requested(c)
                       /\ ~Starts(c) => Requested(c) = 0
    BY <1>1, <1>2 DEF Starts, ToRead, Requested
  <1> QED
    BY <1>3, <1>4

\* How a call ends: at once, without a byte and for a reason; or by a failure; or with
\* all that was to be read.
LEMMA EndOfCall ==
    ASSUME ReadIInv, [ReadNext]_vars, pc # "done", pc' = "done", ret' >= 0
    PROVE  /\ call' \in Call /\ buf' = buf
           /\ \/ pc = "idle" /\ ~Starts(call') /\ ret' = 0 /\ Len(buf') = 0
              \/ /\ pc = "loop" /\ Starts(call) /\ call' = call
                 /\ ret' = Len(buf) /\ Len(buf) = ToRead(call)
  <1>1. call' \in Call
    BY ReadNextIInv DEF ReadIInv, HandlerInv, CallInv, Call
  <1>2. ASSUME NEW f \in File, NEW offset \in -1 .. MaxOffset, NEW size \in 0 .. MaxSize,
               NEW path \in Path, BeginRead(f, path, offset, size)
        PROVE  pc = "idle" /\ ~Starts(call') /\ ret' = 0 /\ buf' = buf /\ Len(buf') = 0
    <2>1. pc = "idle" /\ buf' = buf /\ ret' = 0 /\ (offset < 0 \/ file_size(f) <= offset)
      BY <1>2 DEF BeginRead, Return, ENOENT
    <2>2. call'.file = f /\ call'.offset = offset
      BY <1>2 DEF BeginRead
    <2>3. file_size(f) \in Int /\ offset \in Int
      BY ToIntOfSize, FilesAssumption DEF file_size
    <2>4. ~Starts(call')
      BY <2>1, <2>2, <2>3 DEF Starts
    <2> QED
      BY <2>1, <2>4 DEF ReadIInv, HandlerInv, IdleInv
  <1>3. CASE CopyCachedBlock \/ CopyDiskBlock
    BY <1>3 DEF CopyCachedBlock, CopyDiskBlock, CopyOut
  <1>4. CASE PreadFails
    BY <1>4 DEF PreadFails, Return, EIO
  <1>5. CASE EndRead
    <2>1. /\ pc = "loop" /\ call' = call /\ buf' = buf /\ ret' = Len(buf)
          /\ current >= last_block(call)
      BY <1>5 DEF EndRead, Return
    <2>2. /\ Starts(call) /\ current \in first_block(call) .. last_block(call)
          /\ Len(buf) + remaining_data = ToRead(call)
          /\ current = last_block(call) => remaining_data = 0
      BY <2>1 DEF ReadIInv, HandlerInv, LoopInv
    <2>3. first_block(call) \in Int /\ last_block(call) \in Int
      <3>1. call \in Call
        BY DEF ReadIInv, HandlerInv, CallInv, Call
      <3> QED
        BY <2>2, <3>1, RangeOfCall, FilesAssumption
    <2>4. remaining_data = 0
      BY <2>1, <2>2, <2>3
    <2>5. Len(buf) \in Nat
      BY LenProperties DEF ReadIInv, HandlerInv, CallInv
    <2> QED
      BY <1>1, <2>1, <2>2, <2>4, <2>5
  <1>6. CASE Reply \/ UNCHANGED vars
    BY <1>6 DEF Reply, vars, readVars
  <1>7. \A f \in File : filePath[f] \in Path /\ LogPath \in Path
    BY FilesAssumption
  <1> QED
    BY <1>1, <1>2, <1>3, <1>4, <1>5, <1>6, <1>7 DEF ReadNext, ReadStep

\* Once a call has ended nothing changes until it is replied to.
LEMMA AfterEndOfCall ==
    ASSUME [ReadNext]_vars, pc = "done", pc' = "done"
    PROVE  UNCHANGED <<call, buf, ret>>
  BY DEF ReadNext, BeginRead, ReadStep, CopyCachedBlock, CopyDiskBlock, PreadFails, EndRead,
         InLoop, Reply, vars, readVars

\* If the sizes of the files fit in an int, a call that succeeds returns exactly the number
\* of bytes requested, cut at the end of the file, however its blocks were cached.
THEOREM ReadCountRight ==
    ASSUME SizesFitInt
    PROVE  ReadSpec => []ReadCountExact
  <1>1. ReadInit => ReadCountExact
    BY DEF ReadInit, ReadCountExact, Answered
  <1>2. ReadIInv /\ ReadCountExact /\ [ReadNext]_vars => ReadCountExact'
    <2> SUFFICES ASSUME ReadIInv, ReadCountExact, [ReadNext]_vars, pc' = "done", ret' >= 0
                 PROVE  ret' = Requested(call')
      BY DEF ReadCountExact, Answered, Requested
    <2>1. CASE pc = "done"
      BY <2>1, AfterEndOfCall DEF ReadCountExact, Answered
    <2>2. CASE pc # "done"
      <3>1. /\ call' \in Call
            /\ \/ ~Starts(call') /\ ret' = 0
               \/ Starts(call') /\ ret' = ToRead(call')
        BY <2>2, EndOfCall
      <3> QED
        BY <3>1, ToReadIsRequested
    <2> QED
      BY <2>1, <2>2
  <1> QED
    BY <1>1, <1>2, ReadIInvHolds, PTL DEF ReadSpec

\* In an aligned call a copy ends within its block, and a copy from any block but the last
\* takes exactly the rest of it.
LEMMA AlignedCopy ==
    ASSUME HandlerInv, ExactInv, InLoop, Aligned(call),
           NEW got \in {0, PreadRet(call.file, current)}
    PROVE  LET size == SizeToCopy(call, current, got, remaining_data)
               o == block_offset(call, current)
           IN  /\ o + size <= block_size
               /\ current < last_block(call) - 1 => o + size = block_size
  <1> DEFINE size == SizeToCopy(call, current, got, remaining_data)
             o == block_offset(call, current)
             F == first_block(call)
             N == number_of_blocks(call)
             T == ToRead(call)
             L == last_block(call)
  <1>1. /\ size \in 0 .. remaining_data
        /\ current = L - 1 => size = remaining_data
        /\ current < L - 1 => size <= block_size /\ size >= block_size - o
    BY SizeOfCopy
  <1>2. /\ call \in Call /\ Starts(call) /\ block_size \in Nat \ {0}
        /\ current \in Nat /\ current < L /\ o \in 0 .. block_size - 1 /\ remaining_data \in Nat
        /\ current # F => o = 0
    BY CurrentBlock
  <1>3. /\ T \in Nat /\ F \in Nat /\ N \in Nat /\ L \in Nat /\ L = F + N /\ T <= N * block_size
        /\ N * block_size < T + block_size /\ (T = 0 <=> N = 0)
        /\ block_offset(call, F) = call.offset % block_size
        /\ call.offset = F * block_size + block_offset(call, F) /\ call.offset \in Nat
    BY <1>2, RangeOfCall DEF Call, Starts
  <1>4. /\ Len(buf) + remaining_data = T /\ Len(buf) \in Nat /\ current >= F
        /\ current * block_size + o = call.offset + Len(buf)
    <2>1. pc = "loop" /\ current # L
      BY <1>2, <1>3 DEF InLoop
    <2>2. Len(buf) \in Nat
      BY LenProperties DEF HandlerInv, LoopInv, InLoop
    <2> QED
      BY <1>2, <1>3, <2>1, <2>2 DEF HandlerInv, LoopInv, ExactInv
  <1> HIDE DEF size, o, F, N, T, L
  <1> SUFFICES o + size <= block_size /\ (current < L - 1 => o + size = block_size)
    BY DEF size, o, L
  <1>5. CASE call.offset % block_size = 0
    <2>1. o = 0 /\ call.offset = F * block_size
      <3>1. current = F => o = 0
        BY <1>3, <1>5 DEF o
      <3>2. F * block_size \in Nat
        BY <1>2, <1>3
      <3> QED
        BY <1>2, <1>3, <1>5, <3>1, <3>2
    <2>2. CASE current < L - 1
      BY <1>1, <1>2, <2>1, <2>2
    <2>3. CASE current = L - 1
      <3> DEFINE x == current * block_size
                 y == F * block_size
                 z == N * block_size
      <3>1. x = y + z - block_size
        BY <1>2, <1>3, <2>3
      <3>2. x \in Nat /\ y \in Nat /\ z \in Nat
        BY <1>2, <1>3
      <3>3. x + 0 = y + Len(buf) /\ T <= z
        BY <1>3, <1>4, <2>1
      <3> HIDE DEF x, y, z
      <3>4. remaining_data = T - z + block_size
        <4>1. /\ Len(buf) \in Nat /\ T \in Nat /\ block_size \in Nat /\ remaining_data \in Nat
              /\ Len(buf) + remaining_data = T
          BY <1>2, <1>3, <1>4
        <4> QED
          BY <3>1, <3>2, <3>3, <4>1
      <3>5. remaining_data <= block_size
        BY <1>2, <1>3, <3>2, <3>3, <3>4
      <3> QED
        BY <1>1, <1>2, <1>3, <2>1, <2>3, <3>5
    <2> QED
      BY <1>2, <1>3, <2>2, <2>3
  <1>6. CASE (call.offset % block_size) + Requested(call) <= block_size
    <2>1. T <= Requested(call) /\ Requested(call) \in Nat
      BY <1>2, ToReadIsRequested DEF T
    <2>2. block_offset(call, F) \in Nat /\ block_offset(call, F) + T <= block_size
      <3>1. block_offset(call, F) \in 0 .. block_size - 1
        BY <1>2, RangeOfCall DEF F
      <3> QED
        BY <1>2, <1>3, <1>6, <2>1, <3>1
    <2>3. N = 1
      <3>1. N >= 1
        BY <1>2, <1>3, <1>4
      <3>2. SUFFICES ASSUME 2 <= N PROVE FALSE
        BY <1>3, <3>1
      <3>3. 2 * block_size <= N * block_size
        BY <1>2, <1>3, <3>2, TimesMonotone
      <3>4. N * block_size \in Nat /\ N * block_size < 2 * block_size
        BY <1>2, <1>3, <2>2
      <3> QED
        BY <1>2, <3>3, <3>4
    <2>4. current = F /\ current = L - 1
      BY <1>2, <1>3, <1>4, <2>3
    <2>5. size <= T /\ size \in Nat
      BY <1>1, <1>2, <1>3, <1>4
    <2>6. o + size <= block_size
      BY <1>2, <1>3, <2>2, <2>4, <2>5 DEF o
    <2> QED
      BY <1>2, <2>4, <2>6
  <1> QED
    BY <1>5, <1>6 DEF Aligned

\* So an iteration of an aligned call copies the right bytes.
LEMMA CopyOutExact ==
    ASSUME HandlerInv, ExactInv, InLoop, Aligned(call),
           NEW got \in {0, PreadRet(call.file, current)},
           CopyOut(DiskBlock(call.file, current), got)
    PROVE  /\ \A j \in 1 .. Len(buf') : buf'[j] = <<call.file, call.offset + j - 1>>
           /\ current' # last_block(call) =>
                 current' * block_size + block_offset(call, current') = call.offset + Len(buf')
  <1> DEFINE size == SizeToCopy(call, current, got, remaining_data)
             o == block_offset(call, current)
             b == current * block_size
             L == last_block(call)
             f == call.file
             bytes == Copied(DiskBlock(f, current), o, size)
  <1>1. size \in 0 .. remaining_data
    BY SizeOfCopy
  <1>2. o + size <= block_size /\ (current < L - 1 => o + size = block_size)
    BY AlignedCopy
  <1>3. /\ call \in Call /\ Starts(call) /\ block_size \in Nat \ {0}
        /\ current \in Nat /\ L \in Nat /\ current < L /\ o \in 0 .. block_size - 1
        /\ remaining_data \in Nat /\ b \in Nat
        /\ b + o + remaining_data <= call.offset + ToRead(call)
        /\ call.offset + ToRead(call) <= fileSize[f]
        /\ call.offset + ToRead(call) \in 0 .. MaxOffset + MaxSize
    BY CurrentBlock
  <1>4. /\ f \in File /\ fileSize[f] \in Nat /\ call.offset \in Nat
    BY <1>3, FilesAssumption DEF Call, Starts
  <1>5. /\ bytes \in Seq(Byte) /\ Len(bytes) = size
        /\ \A j \in 1 .. size :
              o + j - 1 < block_size /\ b + o + j - 1 < fileSize[f]
                  => bytes[j] = <<f, b + o + j - 1>>
    BY <1>1, <1>4, CopiedBytes
  <1>6. buf' = buf \o bytes /\ current' = current + 1
    BY DEF CopyOut
  <1>7. buf \in Seq(Byte) /\ Len(buf) \in Nat
    BY LenProperties DEF HandlerInv, LoopInv, InLoop
  <1>8. /\ b + o = call.offset + Len(buf)
        /\ \A j \in 1 .. Len(buf) : buf[j] = <<f, call.offset + j - 1>>
    BY <1>3 DEF ExactInv, InLoop
  <1>9. current >= first_block(call) /\ first_block(call) \in Nat
    <2>1. first_block(call) \in Nat /\ L \in Nat
      BY <1>3, RangeOfCall
    <2> QED
      BY <2>1 DEF HandlerInv, LoopInv, InLoop
  <1> HIDE DEF size, o, b, L, f, bytes
  <1>10. Len(buf') = Len(buf) + size
         /\ \A j \in 1 .. Len(buf) + size : buf'[j] = IF j <= Len(buf) THEN buf[j]
                                                     ELSE bytes[j - Len(buf)]
    BY <1>5, <1>6, <1>7, ConcatProperties
  <1>11. \A j \in 1 .. size : bytes[j] = <<f, b + o + j - 1>>
    <2> SUFFICES ASSUME NEW j \in 1 .. size PROVE bytes[j] = <<f, b + o + j - 1>>
      OBVIOUS
    <2>1. o + j - 1 < block_size
      BY <1>1, <1>2, <1>3
    <2>2. b + o + j - 1 < fileSize[f]
      <3> DEFINE e == call.offset + ToRead(call)
      <3>1. e \in Int /\ b + o + remaining_data <= e /\ e <= fileSize[f]
        BY <1>3
      <3> HIDE DEF e
      <3> QED
        BY <1>1, <1>3, <1>4, <3>1
    <2> QED
      BY <1>5, <2>1, <2>2
  <1>12. ASSUME NEW j \in 1 .. Len(buf') PROVE buf'[j] = <<f, call.offset + j - 1>>
    <2>1. CASE j <= Len(buf)
      <3>1. j \in 1 .. Len(buf) /\ j \in 1 .. Len(buf) + size
        BY <1>1, <1>3, <1>7, <1>10, <2>1
      <3>2. buf'[j] = buf[j]
        BY <1>10, <2>1, <3>1
      <3> QED
        BY <1>8, <3>1, <3>2
    <2>2. CASE j > Len(buf)
      <3>1. j - Len(buf) \in 1 .. size /\ j \in 1 .. Len(buf) + size
        BY <1>1, <1>3, <1>7, <1>10, <2>2
      <3>2. buf'[j] = bytes[j - Len(buf)]
        BY <1>10, <2>2, <3>1, <1>7
      <3>3. bytes[j - Len(buf)] = <<f, b + o + (j - Len(buf)) - 1>>
        BY <1>11, <3>1
      <3>4. b + o + (j - Len(buf)) - 1 = call.offset + j - 1
        BY <1>3, <1>4, <1>7, <1>8, <3>1, SMTT(30)
      <3> QED
        BY <3>2, <3>3, <3>4
    <2> QED
      BY <1>1, <1>3, <1>7, <1>10, <2>1, <2>2
  <1>13. ASSUME current' # L
         PROVE  current' * block_size + block_offset(call, current') = call.offset + Len(buf')
    <2>1. current < L - 1
      BY <1>3, <1>6, <1>13
    <2>2. block_offset(call, current') = 0
      BY <1>3, <1>6, <1>9 DEF block_offset
    <2>3. current' * block_size = b + block_size
      <3>1. PICK x \in Nat, s \in Nat : x = current /\ s = block_size
        BY <1>3
      <3>2. (x + 1) * s = x * s + s
        BY <3>1
      <3>3. current' = x + 1 /\ b = x * s
        BY <1>6, <3>1 DEF b
      <3> QED
        BY <3>1, <3>2, <3>3
    <2>4. o + size = block_size /\ size \in Nat
      BY <1>1, <1>2, <1>3, <2>1
    <2>5. b + block_size = call.offset + Len(buf')
      <3>1. Len(buf') = Len(buf) + size /\ b + o = call.offset + Len(buf)
        BY <1>8, <1>10
      <3>2. PICK x \in Int : x = block_size
        BY <1>3
      <3>3. PICK k \in Int : k = Len(buf)
        BY <1>7
      <3>4. b \in Int /\ o \in Int /\ size \in Int /\ call.offset \in Int
        BY <1>3, <1>4, <2>4
      <3>5. o + size = x /\ b + o = call.offset + k /\ Len(buf') = k + size
        BY <2>4, <3>1, <3>2, <3>3
      <3>6. b + x = call.offset + Len(buf')
        BY ONLY x \in Int, k \in Int, <3>4, <3>5
      <3> QED
        BY <3>2, <3>6
    <2> QED
      BY <1>3, <2>2, <2>3, <2>5
  <1> QED
    BY <1>12, <1>13 DEF f, L

\* If an int tells inodes apart, every step keeps the bytes of aligned calls right.
LEMMA ReadNextExact ==
    ASSUME InodesDistinct
    PROVE  ReadIInv /\ ExactInv /\ [ReadNext]_vars => ExactInv'
  <1> SUFFICES ASSUME ReadIInv, ExactInv, [ReadNext]_vars, pc' = "loop", Aligned(call')
               PROVE  /\ \A j \in 1 .. Len(buf') : buf'[j] = <<call'.file, call'.offset + j - 1>>
                      /\ current' # last_block(call') =>
                            current' * block_size + block_offset(call', current')
                                = call'.offset + Len(buf')
    BY DEF ExactInv, Aligned, Requested, last_block, first_block, number_of_blocks, ToRead,
           block_offset
  <1>1. ASSUME NEW f \in File, NEW offset \in -1 .. MaxOffset, NEW size \in 0 .. MaxSize,
               NEW path \in Path, BeginRead(f, path, offset, size)
        PROVE  /\ Len(buf') = 0
               /\ current' * block_size + block_offset(call', current') = call'.offset + Len(buf')
    <2>1. buf' = <<>> /\ Len(buf') = 0
      BY <1>1 DEF BeginRead, ReadIInv, HandlerInv, IdleInv
    <2>2. call' \in Call /\ Starts(call') /\ current' = first_block(call')
      <3>1. ReadIInv'
        BY ReadNextIInv
      <3>2. call' \in Call /\ Starts(call')
        BY <3>1 DEF ReadIInv, HandlerInv, CallInv, LoopInv, Call, Starts
      <3>3. current' = first_block(call')
        BY <1>1 DEF BeginRead, Return
      <3> QED
        BY <3>2, <3>3
    <2>3. call'.offset = first_block(call') * block_size + block_offset(call', first_block(call'))
          /\ call'.offset \in Int
      <3>1. \A c \in Call : Starts(c) =>
               /\ c.offset = first_block(c) * block_size + block_offset(c, first_block(c))
               /\ c.offset \in Int
        BY RangeOfCall DEF Call
      <3> QED
        BY <2>2, <3>1
    <2> QED
      BY <2>1, <2>2, <2>3
  <1>2. CASE CopyCachedBlock \/ CopyDiskBlock
    <2>1. PICK g \in File, got \in {0, PreadRet(call.file, current)} :
             InLoop /\ FileId(g) = FileId(call.file) /\ CopyOut(DiskBlock(g, current), got)
      BY <1>2, IterationCopies DEF ReadIInv
    <2>2. g = call.file
      <3>1. call.file \in File
        BY DEF ReadIInv, HandlerInv, CallInv, Call
      <3> QED
        BY <2>1, <3>1 DEF InodesDistinct
    <2>3. call' = call
      BY <2>1 DEF CopyOut
    <2> QED
      BY <2>1, <2>2, <2>3, CopyOutExact DEF ReadIInv
  <1>3. CASE PreadFails \/ EndRead \/ Reply
    BY <1>3 DEF PreadFails, EndRead, Return, Reply
  <1>4. CASE UNCHANGED vars
    BY <1>4 DEF vars, readVars, ExactInv
  <1>5. \A f \in File : filePath[f] \in Path /\ LogPath \in Path
    BY FilesAssumption
  <1>6. ASSUME Len(buf') = 0,
               current' * block_size + block_offset(call', current') = call'.offset + Len(buf')
        PROVE  /\ \A j \in 1 .. Len(buf') : buf'[j] = <<call'.file, call'.offset + j - 1>>
               /\ current' # last_block(call') =>
                     current' * block_size + block_offset(call', current')
                         = call'.offset + Len(buf')
    BY <1>6
  <1> QED
    BY <1>1, <1>2, <1>3, <1>4, <1>5, <1>6 DEF ReadNext, ReadStep

\* If the inodes and the sizes of the files fit in an int, a call that starts at a block
\* boundary or stays within one block gets exactly the bytes of the file, from whatever
\* mixture of cached and uncached blocks, after any reads and evictions before it.
THEOREM AlignedReadsRight ==
    ASSUME InodesDistinct, SizesFitInt
    PROVE  ReadSpec => []AlignedReadsCorrect
  <1> DEFINE Inv == ExactInv /\ AlignedReadsCorrect
  <1>1. ReadInit => Inv
    BY DEF ReadInit, ExactInv, AlignedReadsCorrect, Answered
  <1>2. ReadIInv /\ ReadIInv' /\ Inv /\ [ReadNext]_vars => Inv'
    <2> SUFFICES ASSUME ReadIInv, ExactInv, AlignedReadsCorrect, [ReadNext]_vars
                 PROVE  Inv'
      OBVIOUS
    <2>1. ExactInv'
      BY ReadNextExact
    <2>2. AlignedReadsCorrect'
      <3> SUFFICES ASSUME pc' = "done", ret' >= 0, Aligned(call')
                   PROVE  /\ Len(buf') = Requested(call')
                          /\ \A j \in 1 .. Len(buf') : buf'[j] = <<call'.file, call'.offset + j - 1>>
        BY DEF AlignedReadsCorrect, Answered, Aligned, ReturnsFileBytes, Requested
      <3>1. CASE pc = "done"
        BY <3>1, AfterEndOfCall DEF AlignedReadsCorrect, Answered, Aligned, ReturnsFileBytes
      <3>2. CASE pc # "done"
        <4>1. /\ call' \in Call /\ buf' = buf
              /\ \/ pc = "idle" /\ ~Starts(call') /\ ret' = 0 /\ Len(buf') = 0
                 \/ /\ pc = "loop" /\ Starts(call) /\ call' = call
                    /\ ret' = Len(buf) /\ Len(buf) = ToRead(call)
          BY <3>2, EndOfCall
        <4>2. CASE pc = "idle"
          <5>1. Requested(call') = 0 /\ Len(buf') = 0
            BY <4>1, <4>2, ToReadIsRequested
          <5> QED
            BY <5>1
        <4>3. CASE pc = "loop"
          <5>1. Len(buf') = Requested(call')
            BY <4>1, <4>3, ToReadIsRequested
          <5>2. \A j \in 1 .. Len(buf') : buf'[j] = <<call'.file, call'.offset + j - 1>>
            BY <4>1, <4>3 DEF ExactInv
          <5> QED
            BY <5>1, <5>2
        <4> QED
          BY <4>1, <4>2, <4>3
      <3> QED
        BY <3>1, <3>2
    <2> QED
      BY <2>1, <2>2
  <1>3. Inv => AlignedReadsCorrect
    OBVIOUS
  <1> HIDE DEF Inv
  <1> QED
    BY <1>1, <1>2, <1>3, ReadIInvHolds, PTL DEF ReadSpec
=============================================================================
