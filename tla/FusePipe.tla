------------------------------ MODULE FusePipe ------------------------------
(***************************************************************************)
(* How one worker thread of the FUSE library moves a request and its       *)
(* answer through its pipe (splice): fuse_ll_receive_buf,                  *)
(* fuse_ll_process_buf, do_write_buf and fuse_reply_data of                *)
(* src/resources/fuse-2.9.6/lib/fuse_lowlevel.c.                           *)
(*                                                                         *)
(* The thread keeps one pipe for all its requests.  Whatever is left in it *)
(* by one request would be taken for a part of the next, so every path out *)
(* of these functions that leads to a next request must have emptied the   *)
(* pipe or closed it.  Each call of the operating system may fail or be    *)
(* short; a receive that fails for good, or finds the session ended, ends  *)
(* the thread, which gives up its pipe with what is in it.  Data is a      *)
(* sequence of tokens, each one page of a message.                         *)
(***************************************************************************)
EXTENDS Integers, Sequences, SequencesExt

CONSTANTS
    Jobs,           \* bound: requests served one after the other
    MaxPages        \* bound: pages of data asked for, and of data written

ASSUME PipeAssumption == Jobs \in Nat \ {0} /\ MaxPages \in Nat \ {0}

VARIABLE pw     \* the worker: its pipe, where it is, what it has moved

NoPipe == [open |-> FALSE, data |-> <<>>]

Fresh == [pc |-> "receive", job |-> 1, pipe |-> NoPipe, broken |-> FALSE,
          fd |-> FALSE, body |-> 0, len |-> 0, avail |-> 0, idx |-> 0, now |-> 0, extra |-> 0,
          got |-> <<>>, msgs |-> <<>>]

PipeInit == pw = Fresh

\* Pages of the k-th message: its header and its data.
Hdr(k) == <<"hdr", k>>
Pages(what, k, a, b) == [i \in 1..(b - a) |-> <<what, k, a + i>>]
RequestOf(k, body) == <<Hdr(k)>> \o Pages("body", k, 0, body)

\* Less than a header.
Fragment(k) == << <<"part", k>> >>

\* Mutant: the pipe stays as it is.
M_fuse_ll_clear_pipe(w) == w

\* fuse_ll_clear_pipe: close the pipe; the next user makes a new one.
fuse_ll_clear_pipe(w) == [w EXCEPT !.pipe = NoPipe]

\* fuse_ll_get_pipe, and growing it: the pipe is made if there is none; it can be
\* used if that succeeds and it is, or can be made, big enough.
get_pipe(w, res) == IF res = "no_pipe" THEN w ELSE [w EXCEPT !.pipe.open = TRUE]

-----------------------------------------------------------------------------

\* fuse_ll_receive_buf: the request comes into the pipe or, in the fallback, into
\* memory.  A small one is copied out of the pipe at once.  The splice (or the read of
\* the fallback) may be interrupted, and is tried again; it may fail, be shorter than a
\* header, or succeed while the session ends, and then the loop ends with what it has
\* brought left in the pipe.
ReceiveBuf(body, sp, res) ==
    LET w == get_pipe(pw, sp)
        request == RequestOf(w.job, body)
        Into(data) == IF sp = "ok" THEN [w EXCEPT !.pipe.data = @ \o data] ELSE w
    IN  /\ pw.pc = "receive" /\ pw.job <= Jobs
        /\ pw' = CASE res = "interrupted" -> w
                   [] res = "fails" -> [w EXCEPT !.pc = "exit"]
                   [] res = "short" -> [Into(Fragment(w.job)) EXCEPT !.pc = "exit"]
                   [] res = "exited" -> [Into(request) EXCEPT !.pc = "exit"]
                   [] res = "ok" /\ sp # "ok" ->
                        [w EXCEPT !.body = body, !.pc = "process", !.fd = FALSE, !.got = request]
                   [] res = "ok" /\ sp = "ok" ->
                        IF body > 0
                        THEN [Into(request) EXCEPT !.body = body, !.fd = TRUE, !.pc = "process"]
                        ELSE [Into(request) EXCEPT !.body = body, !.fd = FALSE, !.pc = "small"]

\* The copy of a small request; an error or a short read ends the session.
SmallRequest(ok) ==
    /\ pw.pc = "small"
    /\ pw' = IF ok THEN [pw EXCEPT !.pc = "process", !.fd = FALSE,
                                   !.got = SubSeq(pw.pipe.data, 1, 1), !.pipe.data = Tail(@)]
             ELSE [fuse_ll_clear_pipe(pw) EXCEPT !.pc = "exit"]

Err(w) == [w EXCEPT !.msgs = Append(@, <<"err">>)]

\* clear_pipe of fuse_ll_process_buf.
Cleared(w) == IF w.fd THEN fuse_ll_clear_pipe(w) ELSE w

\* fuse_ll_process_buf takes the header out of the pipe; res says what fails:
\* the memory for it or the copy (no answer), fuse_ll_alloc_req (ENOMEM), or the
\* request is refused (EIO, EACCES, ENOSYS); or whether it is a WRITE, whose data
\* stays in the pipe for write_buf.
ProcessBuf(res) ==
    LET head == IF pw.fd /\ res # "no_header"
                THEN [pw EXCEPT !.got = SubSeq(pw.pipe.data, 1, 1), !.pipe.data = Tail(@)] ELSE pw
    IN  /\ pw.pc = "process"
        /\ CASE res = "no_header" ->
                  pw.fd /\ pw' = [Cleared(head) EXCEPT !.pc = "next"]
             [] res \in {"no_request", "refused"} ->
                  pw' = [Cleared(Err(head)) EXCEPT !.pc = "next"]
             [] res = "write" -> pw.fd /\ pw' = [head EXCEPT !.pc = "write_buf"]
             [] res = "other" -> pw' = [head EXCEPT !.pc = IF pw.fd THEN "body" ELSE "handler"]

\* The rest of a request for a handler that wants it in memory.
CopyBody(ok) ==
    /\ pw.pc = "body"
    /\ pw' = IF ok THEN [pw EXCEPT !.got = @ \o SubSeq(pw.pipe.data, 1, pw.body),
                                   !.pipe.data = SubSeq(@, pw.body + 1, Len(@)),
                                   !.pc = "handler"]
             ELSE [Cleared(Err(pw)) EXCEPT !.pc = "next"]

\* do_write_buf: the callback takes n pages from the pipe and the request is
\* answered; then the pipe is cleared if anything is left.
do_write_buf(n) ==
    LET w == [pw EXCEPT !.got = @ \o SubSeq(pw.pipe.data, 1, n),
                        !.pipe.data = SubSeq(@, n + 1, Len(@)),
                        !.msgs = Append(@, <<Hdr(pw.job)>>), !.pc = "next"]
    IN  /\ pw.pc = "write_buf"
        /\ pw' = IF n < pw.body THEN Cleared(w) ELSE w

\* The handler answers with len pages of a file that has avail of them.
Handler(len, avail) ==
    /\ pw.pc = "handler" /\ avail <= len
    /\ pw' = [pw EXCEPT !.pc = "send", !.len = len, !.avail = avail]

-----------------------------------------------------------------------------
(* fuse_send_data_iov.  A path that ends in fuse_reply_data with a positive  *)
(* res sends an error; with a negative one the answer could not be sent.     *)

Return(w, res) == [(IF res > 0 THEN Err(w) ELSE w) EXCEPT !.pc = "next"]
ReturnCleared(w, res) == Return(fuse_ll_clear_pipe(w), res)

\* Whether the data goes through the pipe, and the header into it.
Vmsplice(res, sp) ==
    LET w == get_pipe(pw, sp)
    IN  /\ pw.pc = "send"
        /\ pw' = CASE pw.broken \/ sp # "ok" \/ res = "fails" -> [w EXCEPT !.pc = "fallback"]
                   [] ~pw.broken /\ sp = "ok" /\ res = "short" -> ReturnCleared(w, -5)
                   [] ~pw.broken /\ sp = "ok" /\ res = "ok" ->
                        [w EXCEPT !.pipe.data = Append(@, Hdr(pw.job)), !.pc = "copy"]

\* fuse_buf_copy from the file into the pipe.
CopyToPipe(res, n) ==
    /\ pw.pc = "copy" /\ n <= pw.avail /\ (n = 0 => pw.avail = 0)
    /\ pw' = CASE res = "EAGAIN" -> [fuse_ll_clear_pipe(pw) EXCEPT !.broken = TRUE, !.pc = "fallback"]
               [] res = "EINVAL" -> [fuse_ll_clear_pipe(pw) EXCEPT !.pc = "fallback"]
               [] res = "error" -> ReturnCleared(pw, 5)
               [] res = "ok" -> [pw EXCEPT !.pipe.data = @ \o Pages("data", pw.job, 0, n),
                                           !.idx = n, !.now = n,
                                           !.pc = IF n # 0 /\ n < pw.len THEN "more" ELSE "splice"]

\* A short count: see whether the file has more.
CopyMore(res, m) ==
    /\ pw.pc = "more" /\ m <= pw.avail - pw.idx
    /\ pw' = CASE res = "no_memory" -> ReturnCleared(pw, 12)
               [] res = "ok" /\ m = 0 -> [pw EXCEPT !.pc = "splice"]
               [] res = "ok" /\ m > 0 -> [pw EXCEPT !.idx = @ + m, !.extra = m, !.pc = "read_back"]

\* There is more: take the header (thrown away) and the data back from the pipe
\* and send all of it with write.
ReadBack(res) ==
    /\ pw.pc = "read_back"
    /\ pw' = CASE res = "no_memory" -> ReturnCleared(pw, 12)
               [] res = "fails" -> ReturnCleared(pw, -5)
               [] res = "ok" -> [pw EXCEPT !.pc = "write",
                                           !.got = SubSeq(pw.pipe.data, 2, pw.now + 1),
                                           !.pipe.data = SubSeq(@, pw.now + 2, Len(@))]

\* fuse_send_msg of the header and what is in memory.
WriteAnswer(ok) ==
    /\ pw.pc = "write"
    /\ pw' = IF ok
             THEN Return([pw EXCEPT !.msgs = Append(@, <<Hdr(pw.job)>> \o pw.got
                                                   \o Pages("data", pw.job, pw.now, pw.now + pw.extra))], 0)
             ELSE Return(pw, -2)

\* splice from the pipe to the device.
SpliceAnswer(ok) ==
    /\ pw.pc = "splice"
    /\ pw' = IF ok
             THEN Return([pw EXCEPT !.msgs = Append(@, SubSeq(pw.pipe.data, 1, pw.now + 1)),
                                    !.pipe.data = SubSeq(@, pw.now + 2, Len(@))], 0)
             ELSE ReturnCleared(pw, -5)

\* fuse_send_data_iov_fallback: through memory.
Fallback(res) ==
    /\ pw.pc = "fallback"
    /\ pw' = CASE res = "error" -> Return(pw, 5)
               [] res = "fails" -> Return(pw, -2)
               [] res = "ok" -> Return([pw EXCEPT !.msgs = Append(@, <<Hdr(pw.job)>>
                                                     \o Pages("data", pw.job, pw.idx, pw.avail))], 0)

\* The loop goes on, or finds that the session has exited.
NextJob ==
    /\ pw.pc = "next"
    /\ pw' = [Fresh EXCEPT !.job = pw.job + 1, !.pipe = pw.pipe, !.broken = pw.broken]

LoopEnds == pw.pc \in {"next", "receive"} /\ pw' = [pw EXCEPT !.pc = "exit"]

\* The pipe goes with its thread, or with the session.
fuse_ll_pipe_free == pw.pc = "exit" /\ pw' = [pw EXCEPT !.pipe = NoPipe, !.pc = "gone"]

PipeNext ==
    \/ \E body \in 0..MaxPages, sp \in {"ok", "no_pipe", "no_grow"},
          res \in {"ok", "interrupted", "fails", "short", "exited"} : ReceiveBuf(body, sp, res)
    \/ \E ok \in BOOLEAN : SmallRequest(ok)
    \/ \E res \in {"write", "other", "no_header", "no_request", "refused"} : ProcessBuf(res)
    \/ \E ok \in BOOLEAN : CopyBody(ok)
    \/ \E n \in 0..pw.body : do_write_buf(n)
    \/ \E len \in 1..MaxPages, avail \in 0..MaxPages : Handler(len, avail)
    \/ \E res \in {"ok", "fails", "short"}, sp \in {"ok", "no_pipe", "no_grow"} : Vmsplice(res, sp)
    \/ \E res \in {"ok", "EAGAIN", "EINVAL", "error"}, n \in 0..MaxPages : CopyToPipe(res, n)
    \/ \E res \in {"ok", "no_memory"}, m \in 0..MaxPages : CopyMore(res, m)
    \/ \E res \in {"ok", "no_memory", "fails"} : ReadBack(res)
    \/ \E ok \in BOOLEAN : WriteAnswer(ok)
    \/ \E ok \in BOOLEAN : SpliceAnswer(ok)
    \/ \E res \in {"ok", "error", "fails"} : Fallback(res)
    \/ NextJob
    \/ LoopEnds
    \/ fuse_ll_pipe_free

PipeSpec == PipeInit /\ [][PipeNext]_pw

-----------------------------------------------------------------------------

\* The pipe is empty whenever the thread goes back for another request: nothing of one
\* request or answer is left for the next.  (When the loop ends it may be full.)  It is
\* empty, too, while a handler works on a request that it got in memory.
PipeEmptyBetween == pw.pc \in {"receive", "handler", "next", "gone"} => pw.pipe.data = <<>>

\* The kernel gets at most one answer to a request, and it is an error or the
\* header of that very request followed by its data in order, without a gap.
AnswerIntact ==
    /\ Len(pw.msgs) <= 1
    /\ \A i \in DOMAIN pw.msgs :
         pw.msgs[i] = <<"err">> \/ \E n \in 0..pw.avail :
            pw.msgs[i] = <<Hdr(pw.job)>> \o Pages("data", pw.job, 0, n)

\* What a handler is given is its own request.
RequestIntact ==
    pw.pc = "handler" => pw.got = RequestOf(pw.job, pw.body)

\* No data of one request is left in the pipe for the next, whichever system calls
\* fail or are short: handlers get the data of their request, the kernel whole answers.
PipeInv == PipeEmptyBetween /\ AnswerIntact /\ RequestIntact
=============================================================================
