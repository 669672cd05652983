------------------------------- MODULE FuseBuf -------------------------------
(***************************************************************************)
(* Copying between vectors of buffers: fuse_buf_copy of                    *)
(* src/resources/fuse-2.9.6/lib/buffer.c.  A buffer is memory or a file    *)
(* descriptor, with a position (FUSE_BUF_FD_SEEK) or without.  Each system *)
(* call may fail, be short or move nothing, and is a step of its own.      *)
(*                                                                         *)
(* Bytes are pairs <<buffer, offset>>; what a descriptor without a         *)
(* position yields next depends on what was taken from it before.          *)
(***************************************************************************)
EXTENDS Integers, Sequences, FiniteSets, SequencesExt

CONSTANTS
    SrcVecs, DstVecs,   \* vectors: sequences of [kind, size, retry]
    TmpSize             \* the size of fd_to_fd's buffer (4096 in the code)


Kinds == {"mem", "seek", "stream"}
Buf == [kind : Kinds, size : Nat, retry : BOOLEAN]

ASSUME BufAssumption ==
    /\ SrcVecs \subseteq Seq(Buf) /\ DstVecs \subseteq Seq(Buf)
    /\ TmpSize \in Nat \ {0}

VARIABLE bc     \* one call of fuse_buf_copy

MinOf(a, b) == IF a < b THEN a ELSE b

\* fuse_buf_size
fuse_buf_size(v) == FoldSeq(LAMBDA b, s : b.size + s, 0, v)

\* Both vectors at their start; splice may be asked for, forced or ruled out.
BufStarts ==
    {[pc |-> "loop", src |-> src, dst |-> dst, mode |-> mode,
      sidx |-> 1, soff |-> 0, didx |-> 1, doff |-> 0, copied |-> 0, result |-> 0,
      len |-> 0, moved |-> 0, tmp |-> <<>>, asked |-> 0,
      taken |-> [i \in DOMAIN src |-> 0],        \* read from a stream so far
      out |-> [j \in DOMAIN dst |-> <<>>],       \* what has arrived, in order
      viaTmp |-> FALSE] : src \in SrcVecs, dst \in DstVecs, mode \in {"splice", "force", "no_splice"}}
BufInit == bc \in BufStarts

Src == bc.src[bc.sidx]
Dst == bc.dst[bc.didx]

\* The next n bytes of the source, from offset off of the current buffer.
From(b, off, n) ==
    LET at == IF Src.kind = "stream" THEN b.taken[b.sidx] ELSE off
    IN  [k \in 1..n |-> <<b.sidx, at + k>>]
Take(b, n) == IF Src.kind = "stream" THEN [b EXCEPT !.taken[b.sidx] = @ + n] ELSE b

\* They arrive at offset off of the current destination.  A descriptor without a
\* position appends; elsewhere what was there is overwritten.
Arrive(b, off, bytes) ==
    LET old == b.out[b.didx]
        at == IF Dst.kind = "stream" THEN Len(old) ELSE off
        new == [k \in 1..(IF Len(old) > at + Len(bytes) THEN Len(old) ELSE at + Len(bytes)) |->
                  CASE k > at /\ k <= at + Len(bytes) -> bytes[k - at]
                    [] k <= at /\ k <= Len(old) -> old[k]
                    [] k > at + Len(bytes) -> old[k]
                    [] OTHER -> <<0, 0>>]
    IN  [b EXCEPT !.out[b.didx] = new]

\* fuse_bufvec_advance; done says that it returns 0.
Advanced(idx, off, n, v) ==
    IF off + n = v[idx].size
    THEN [idx |-> idx + 1, off |-> IF idx = Len(v) THEN off + n ELSE 0, done |-> idx = Len(v)]
    ELSE [idx |-> idx, off |-> off + n, done |-> FALSE]

\* fuse_buf_copy after fuse_buf_copy_one returned res >= 0.  The destination is
\* not advanced when the source has ended.
Copied1(b, res) ==
    LET s == Advanced(b.sidx, b.soff, res, b.src)
        d == Advanced(b.didx, b.doff, res, b.dst)
        b1 == [b EXCEPT !.copied = @ + res, !.sidx = s.idx, !.soff = s.off]
        b2 == [b1 EXCEPT !.didx = d.idx, !.doff = d.off]
    IN  CASE s.done -> [b1 EXCEPT !.pc = "return", !.result = b1.copied]
          [] ~s.done /\ (d.done \/ res < b.len) -> [b2 EXCEPT !.pc = "return", !.result = b2.copied]
          [] ~s.done /\ ~d.done /\ res >= b.len -> [b2 EXCEPT !.pc = "loop"]

\* Mutant: a failure after some bytes is reported as one of the whole call.
M_Failed1(b) == [b EXCEPT !.pc = "return", !.result = -5]

\* ... and after it failed.
Failed1(b) == [b EXCEPT !.pc = "return", !.result = IF b.copied = 0 THEN -5 ELSE b.copied]

\* An inner loop ends: with what it has moved, or with an error if that is nothing.
Ends(b) == Copied1(b, b.moved)
Fails(b) == IF b.moved = 0 THEN Failed1(b) ELSE Ends(b)

-----------------------------------------------------------------------------

\* fuse_buf_copy_one, on the next n bytes of both; for none it makes no call.
fuse_buf_copy_one(n) ==
    LET b == [bc EXCEPT !.len = n, !.moved = 0]
    IN  CASE n = 0 -> Copied1(b, 0)
          [] n > 0 /\ Src.kind = "mem" /\ Dst.kind = "mem" ->
                Copied1(Arrive(b, b.doff, From(b, b.soff, n)), n)
          [] n > 0 /\ Src.kind = "mem" /\ Dst.kind # "mem" -> [b EXCEPT !.pc = "write"]
          [] n > 0 /\ Src.kind # "mem" /\ Dst.kind = "mem" -> [b EXCEPT !.pc = "read"]
          [] n > 0 /\ Src.kind # "mem" /\ Dst.kind # "mem" ->
                [b EXCEPT !.pc = IF b.mode = "no_splice" THEN "tmp_read" ELSE "splice",
                          !.viaTmp = @ \/ b.mode = "no_splice"]

\* The head of the loop of fuse_buf_copy: a vector may have no buffer at all.
CopyOne ==
    /\ bc.pc = "loop"
    /\ bc' = IF bc.sidx > Len(bc.src) \/ bc.didx > Len(bc.dst)
             THEN [bc EXCEPT !.pc = "return", !.result = bc.copied]
             ELSE fuse_buf_copy_one(MinOf(Src.size - bc.soff, Dst.size - bc.doff))

\* One call of write or pwrite (fuse_buf_write), of read or pread (fuse_buf_read)
\* or of splice: n bytes are moved, or the call fails.
Moves(pc, n, retry) ==
    LET b == Arrive(Take(bc, n), bc.doff + bc.moved, From(bc, bc.soff + bc.moved, n))
        b1 == [b EXCEPT !.moved = @ + n]
    IN  /\ bc.pc = pc /\ n <= bc.len - bc.moved
        /\ bc' = IF n = 0 \/ ~retry \/ b1.moved = bc.len THEN Ends(b1) ELSE b1

fuse_buf_write(n) == Moves("write", n, Dst.retry)
fuse_buf_read(n) == Moves("read", n, Src.retry)

\* splice moves the bytes and its positions itself; a first call that fails with
\* EINVAL is replaced by fd_to_fd unless splice is forced.
fuse_buf_splice(n) == Moves("splice", n, Src.retry \/ Dst.retry)

SpliceFails(einval) ==
    /\ bc.pc = "splice"
    /\ bc' = IF einval /\ bc.mode = "splice" /\ bc.moved = 0
             THEN [bc EXCEPT !.pc = "tmp_read", !.viaTmp = TRUE] ELSE Fails(bc)

ReadWriteFails ==
    /\ bc.pc \in {"read", "write"}
    /\ bc' = Fails(bc)

\* fuse_buf_fd_to_fd: read into a buffer (with retries of its own) ...
TmpRead(n) ==
    LET want == MinOf(TmpSize, bc.len - bc.moved)
        b == [Take(bc, n) EXCEPT !.tmp = @ \o From(bc, bc.soff + bc.moved + Len(bc.tmp), n)]
    IN  /\ bc.pc = "tmp_read" /\ n <= want - Len(bc.tmp)
        /\ bc' = CASE n > 0 /\ Src.retry /\ Len(b.tmp) < want -> b
                   [] ~(n > 0 /\ Src.retry /\ Len(b.tmp) < want) /\ b.tmp = <<>> -> Ends(b)
                   [] ~(n > 0 /\ Src.retry /\ Len(b.tmp) < want) /\ b.tmp # <<>> ->
                        [b EXCEPT !.pc = "tmp_write", !.asked = want]

TmpReadFails ==
    /\ bc.pc = "tmp_read"
    /\ bc' = IF bc.tmp = <<>> THEN Fails(bc)
             ELSE [bc EXCEPT !.pc = "tmp_write", !.asked = MinOf(TmpSize, bc.len - bc.moved)]

\* ... and write it; asked counts down what fuse_buf_write still has to bring to
\* this_len.  What is not written is forgotten.
TmpWritten(b) == IF b.asked > 0 \/ b.moved = b.len THEN Ends(b)
                 ELSE [b EXCEPT !.pc = "tmp_read", !.tmp = <<>>]

TmpWrite(n) ==
    LET b == [Arrive(bc, bc.doff + bc.moved, SubSeq(bc.tmp, 1, n)) EXCEPT
                !.moved = @ + n, !.asked = @ - n, !.tmp = SubSeq(@, n + 1, Len(@))]
    IN  /\ bc.pc = "tmp_write" /\ n <= Len(bc.tmp)
        /\ bc' = IF n > 0 /\ Dst.retry /\ b.tmp # <<>> THEN b ELSE TmpWritten(b)

TmpWriteFails ==
    /\ bc.pc = "tmp_write"
    /\ bc' = Fails(bc)

BufNext ==
    \/ CopyOne
    \/ \E n \in 0..bc.len : fuse_buf_write(n)
    \/ \E n \in 0..bc.len : fuse_buf_read(n)
    \/ \E n \in 0..bc.len : fuse_buf_splice(n)
    \/ \E einval \in BOOLEAN : SpliceFails(einval)
    \/ ReadWriteFails
    \/ \E n \in 0..bc.len : TmpRead(n)
    \/ TmpReadFails
    \/ \E n \in 0..bc.len : TmpWrite(n)
    \/ TmpWriteFails

BufSpec == BufInit /\ [][BufNext]_bc

-----------------------------------------------------------------------------

\* All bytes of a vector in order.
AllBytes(v) == FlattenSeq([i \in DOMAIN v |-> [k \in 1..v[i].size |-> <<i, k>>]])

\* fuse_buf_copy reports exactly what it has done: the bytes that arrived are the
\* first result bytes of the source, once each and in order, whatever calls were
\* short or failed in between; an error means that none arrived.
CopyFaithful ==
    bc.pc = "return" =>
       FlattenSeq(bc.out) = IF bc.result < 0 THEN <<>> ELSE SubSeq(AllBytes(bc.src), 1, bc.result)

\* Nothing that was taken from a descriptor without a position is lost, unless it
\* went through fd_to_fd's buffer: the source continues where the copy has ended.
NothingLost ==
    bc.pc = "return" /\ ~bc.viaTmp =>
       \A i \in DOMAIN bc.src : bc.src[i].kind = "stream" =>
          LET arrived == FlattenSeq(bc.out)
          IN  bc.taken[i] = Cardinality({k \in DOMAIN arrived : arrived[k][1] = i})

\* A copy reports what arrived, in order, and a source loses no more than that.
CopyRight == CopyFaithful /\ NothingLost
=============================================================================
