---------------------------- MODULE FuseRequests ----------------------------
(***************************************************************************)
(* How the FUSE library takes requests from the kernel and how it ends     *)
(* (src/resources/fuse-2.9.6/lib): the pool of worker threads              *)
(* (fuse_loop_mt.c), the session and the signals that end it               *)
(* (fuse_session.c, fuse_signals.c, fuse_kern_chan.c), the life of a       *)
(* request and of the message that interrupts it (fuse_lowlevel.c), and    *)
(* the interruption of a running callback (fuse.c, option intr).           *)
(*                                                                         *)
(* A step is one critical section of mt.lock or of f->lock, or one call    *)
(* that blocks; req->lock is held across steps and is part of the state.   *)
(* The kernel and the callbacks are external.                              *)
(***************************************************************************)
EXTENDS Integers, Sequences, FiniteSets, SequencesExt, TLC

CONSTANTS
    Worker,         \* worker threads
    Request,        \* 1..N: the requests the kernel sends; the first is INIT
    Ops,            \* what the others ask for
    Supported,      \* the operations of fuse_lowlevel_ops that are set
    Denied,         \* operations refused to this user (option allow_root)
    Intr,           \* option intr
    MaxIdle,        \* idle workers kept, 10 in the source
    Budgets,        \* bounds: how many allocations, thread starts and reads may fail,
                    \* how many requests the user interrupts, how many times SIGTERM,
                    \* SIGINT or SIGHUP is sent, which workers there may be
    Null

ASSUME RequestsAssumption ==
    /\ IsFiniteSet(Worker) /\ Null \notin Worker \cup Request
    /\ IsFiniteSet(Request) /\ Request = 1..Cardinality(Request) /\ Request # {}
    /\ MaxIdle \in Nat \ {0} /\ Intr \in BOOLEAN
    /\ \A b \in Budgets : /\ {b.failures, b.interrupts, b.signals} \subseteq Nat
                          /\ b.threads \subseteq Worker

VARIABLES
    wk,         \* each worker: where it is, what it works on
    mt,         \* struct fuse_mt: list, numavail, exit, error, finish; whom main joins
    main,       \* where the thread in fuse_session_loop_mt is
    se,         \* session: exited, got_init, got_destroy; calls of op.destroy
    req,        \* struct fuse_req of each request
    list,       \* f->list: requests being processed, oldest first
    interrupts, \* f->interrupts: INTERRUPT messages whose request is not known
    intr,       \* struct fuse_req of the INTERRUPT message of each request
    kst,        \* external: what the kernel knows of each request
    kint,       \* external: what the kernel knows of its interruption
    env,        \* external: failures, interrupts and signals left; unmounted, failed
    bad         \* memory that is no longer there was used

vars == <<wk, mt, main, se, req, list, interrupts, intr, kst, kint, env, bad>>

Idle == [pc |-> "none", m |-> Null, intr |-> FALSE, stale |-> Null, forget |-> FALSE,
         peer |-> Null, cancelled |-> FALSE, d |-> "none", signalled |-> FALSE]

NoReq == [live |-> FALSE, ctr |-> 0, interrupted |-> FALSE, func |-> Null, lock |-> Null]

Init ==
    /\ wk = [t \in Worker |-> Idle]
    /\ mt = [list |-> <<>>, numavail |-> 0, numworker |-> 0, exit |-> FALSE, error |-> FALSE,
             finish |-> 0, joins |-> Null]
    /\ main = "start"
    /\ se = [exited |-> FALSE, got_init |-> FALSE, got_destroy |-> FALSE, destroys |-> 0]
    /\ req = [r \in Request |-> NoReq]
    /\ list = <<>> /\ interrupts = <<>>
    /\ intr = [r \in Request |-> FALSE]
    /\ kst = [r \in Request |-> [op |-> IF r = 1 THEN "init" ELSE Null, st |-> "new"]]
    /\ kint = [r \in Request |-> "no"]
    /\ \E b \in Budgets :
          env = [failures |-> b.failures, interrupts |-> b.interrupts, signals |-> b.signals,
                 threads |-> b.threads, unmounted |-> FALSE, failed |-> FALSE]
    /\ bad = FALSE

\* The messages that are not answered.
Forgets == {"forget", "batch_forget"}

-----------------------------------------------------------------------------
(* The kernel (external).                                                    *)

Pending == {r \in Request : kst[r].st \in {"queued", "sent"} /\ kst[r].op \notin Forgets}

\* Requests come one after the other: INIT alone, DESTROY when all others are
\* answered and nothing after it.  The kernel does not wait for FORGET.
KernelSend(r, op) ==
    /\ kst[r].st = "new" /\ ~env.unmounted /\ main \notin {"destroy", "done"}
    /\ \A q \in Request : q < r => kst[q].st # "new" /\ kst[q].op # "destroy"
    /\ r > 1 => kst[1].st = "answered"
    /\ (op = "init") = (r = 1)
    /\ op = "destroy" => Pending = {}
    /\ kst' = [kst EXCEPT ![r] = [op |-> op, st |-> "queued"]]
    /\ UNCHANGED <<wk, mt, main, se, req, list, interrupts, intr, kint, env, bad>>

\* A signal to the process that waits for r: the kernel queues an INTERRUPT.
KernelInterrupt(r) ==
    /\ kst[r].st = "sent" /\ kst[r].op \notin Forgets \cup {"init", "destroy"} /\ kint[r] = "no"
    /\ env.interrupts > 0
    /\ kint' = [kint EXCEPT ![r] = "queued"]
    /\ env' = [env EXCEPT !.interrupts = @ - 1]
    /\ UNCHANGED <<wk, mt, main, se, req, list, interrupts, intr, kst, bad>>

KernelUnmount ==
    /\ kst[1].st = "answered" /\ Pending = {} /\ ~env.unmounted /\ main \notin {"destroy", "done"}
    /\ env' = [env EXCEPT !.unmounted = TRUE]
    /\ UNCHANGED <<wk, mt, main, se, req, list, interrupts, intr, kst, kint, bad>>

\* The answer to r is written to /dev/fuse: its INTERRUPT is not sent any more.
Answered(r) ==
    /\ kst' = [kst EXCEPT ![r].st = "answered"]
    /\ kint' = [kint EXCEPT ![r] = IF @ = "queued" THEN "gone" ELSE @]

\* EAGAIN to an INTERRUPT: it is sent again if its request is still not answered.
TryAgain(r) ==
    kint' = [kint EXCEPT ![r] = IF kst[r].st = "sent" THEN "queued" ELSE "gone"]

\* A call of the operating system or of malloc fails.
Failure == env.failures > 0 /\ env' = [env EXCEPT !.failures = @ - 1, !.failed = TRUE]

-----------------------------------------------------------------------------
(* The pool: operators on [mt, wk].                                          *)

Free == {t \in env.threads : wk[t].pc = "none"}

\* fuse_loop_start_thread under mt.lock, for the worker records w.
fuse_loop_start_thread(w, starts) ==
    IF ~starts THEN [mt |-> mt, wk |-> w]
    ELSE LET t == CHOOSE t \in Free : TRUE
         IN  [mt |-> [mt EXCEPT !.list = Append(@, t), !.numavail = @ + 1, !.numworker = @ + 1],
              wk |-> [w EXCEPT ![t] = [Idle EXCEPT !.pc = "loop"]]]

\* Whether the thread starts; when it does not, that is a failure of the system.
Starts(ok) ==
    \/ ok /\ Free # {} /\ UNCHANGED env
    \/ ~ok /\ Free # {} /\ Failure
    \/ ~ok /\ Free = {} /\ UNCHANGED env

Goto(t, pc) == wk' = [wk EXCEPT ![t].pc = pc]

\* fuse_do_work, the condition of the loop.
LoopHead(t) ==
    /\ wk[t].pc = "loop"
    /\ Goto(t, IF se.exited THEN "post" ELSE "receive")
    /\ UNCHANGED <<mt, main, se, req, list, interrupts, intr, kst, kint, env, bad>>

\* fuse_kern_chan_receive: a message is read; a session that has exited drops it.
Receive(t, r, isIntr) ==
    /\ wk[t].pc = "receive" /\ ~wk[t].cancelled /\ ~env.unmounted
    /\ IF isIntr THEN /\ kint[r] = "queued" /\ kst[r].st = "sent"
                      /\ kint' = [kint EXCEPT ![r] = "sent"] /\ UNCHANGED kst
                 ELSE /\ kst[r].st = "queued"
                      /\ kst' = [kst EXCEPT ![r].st = IF kst[r].op \in Forgets THEN "answered" ELSE "sent"]
                      /\ UNCHANGED kint
    /\ wk' = IF se.exited THEN [wk EXCEPT ![t].pc = "post"]
             ELSE [wk EXCEPT ![t].pc = "got", ![t].m = r, ![t].intr = isIntr]
    /\ UNCHANGED <<mt, main, se, req, list, interrupts, intr, env, bad>>

\* read returns ENODEV: the file system is not mounted any more.
ReceiveUnmounted(t) ==
    /\ wk[t].pc = "receive" /\ ~wk[t].cancelled /\ env.unmounted
    /\ se' = [se EXCEPT !.exited = TRUE]
    /\ Goto(t, "post")
    /\ UNCHANGED <<mt, main, req, list, interrupts, intr, kst, kint, env, bad>>

\* read fails otherwise, or is short: fuse_do_work ends the session.
ReceiveFails(t) ==
    /\ wk[t].pc = "receive" /\ ~wk[t].cancelled /\ Failure
    /\ IF se.exited THEN UNCHANGED <<se, mt>>
       ELSE se' = [se EXCEPT !.exited = TRUE] /\ mt' = [mt EXCEPT !.error = TRUE]
    /\ Goto(t, "post")
    /\ UNCHANGED <<main, req, list, interrupts, intr, kst, kint, bad>>

\* The thread is cancelled while it reads.
Cancelled(t) ==
    /\ wk[t].pc = "receive" /\ wk[t].cancelled
    /\ Goto(t, "ended")
    /\ UNCHANGED <<mt, main, se, req, list, interrupts, intr, kst, kint, env, bad>>

\* Mutant: no worker is started.
M_TakeRequest(t, ok) ==
    /\ wk[t].pc = "got" /\ ~ok
    /\ LET forget == ~wk[t].intr /\ kst[wk[t].m].op \in Forgets
       IN  IF mt.exit THEN wk' = [wk EXCEPT ![t] = [Idle EXCEPT !.pc = "ended"]] /\ UNCHANGED mt
           ELSE /\ mt' = [mt EXCEPT !.numavail = IF forget THEN @ ELSE @ - 1]
                /\ wk' = [wk EXCEPT ![t].pc = "process", ![t].forget = forget]
    /\ UNCHANGED <<main, se, req, list, interrupts, intr, kst, kint, env, bad>>

\* fuse_do_work, first critical section: count this worker as busy and start
\* another if none is left.  FORGET does not count.
TakeRequest(t, ok) ==
    /\ wk[t].pc = "got"
    /\ LET forget == ~wk[t].intr /\ kst[wk[t].m].op \in Forgets
           last == mt.numavail = IF forget THEN 0 ELSE 1
           w == [wk EXCEPT ![t].pc = "process", ![t].forget = forget]
           s == fuse_loop_start_thread(w, ok)
       IN  IF mt.exit THEN wk' = [wk EXCEPT ![t] = [Idle EXCEPT !.pc = "ended"]] /\ ~ok /\ UNCHANGED <<mt, env>>
           ELSE /\ IF last THEN Starts(ok) ELSE ~ok /\ UNCHANGED env
                /\ mt' = [s.mt EXCEPT !.numavail = IF forget THEN @ ELSE @ - 1]
                /\ wk' = s.wk
    /\ UNCHANGED <<main, se, req, list, interrupts, intr, kst, kint, bad>>

\* fuse_do_work, second critical section: a worker too many detaches itself,
\* unless the main thread is about to join it.
Finished(t) ==
    /\ wk[t].pc = "done"
    /\ LET avail == IF wk[t].forget THEN mt.numavail ELSE mt.numavail + 1
           rest == [Idle EXCEPT !.cancelled = wk[t].cancelled]
       IN  CASE avail <= MaxIdle ->
                  /\ wk' = [wk EXCEPT ![t] = [rest EXCEPT !.pc = "loop"]]
                  /\ mt' = [mt EXCEPT !.numavail = avail]
             [] avail > MaxIdle /\ mt.exit ->
                  /\ wk' = [wk EXCEPT ![t] = [rest EXCEPT !.pc = "ended"]]
                  /\ mt' = [mt EXCEPT !.numavail = avail]
             [] OTHER ->
                  /\ wk' = [wk EXCEPT ![t] = Idle]
                  /\ mt' = [mt EXCEPT !.numavail = avail - 1, !.numworker = @ - 1,
                                      !.list = RemoveFirst(@, t)]
    /\ UNCHANGED <<main, se, req, list, interrupts, intr, kst, kint, env, bad>>

\* Mutant: the main thread is not told.
M_Post(t) ==
    /\ wk[t].pc = "post"
    /\ Goto(t, "ended")
    /\ UNCHANGED <<mt, main, se, req, list, interrupts, intr, kst, kint, env, bad>>

\* fuse_do_work after the loop.
Post(t) ==
    /\ wk[t].pc = "post"
    /\ mt' = [mt EXCEPT !.finish = @ + 1]
    /\ Goto(t, "ended")
    /\ UNCHANGED <<main, se, req, list, interrupts, intr, kst, kint, env, bad>>

-----------------------------------------------------------------------------
(* The life of a request.                                                    *)

Use(r) == bad' = (bad \/ ~req[r].live)

\* destroy_req when the last reference is dropped.
Deref(rq, r) == [rq EXCEPT ![r].ctr = @ - 1, ![r].live = rq[r].ctr > 1]

\* Mutant: the queue of interrupts is not looked at.
M_check_interrupt(r) == [interrupted |-> FALSE, taken |-> Null]

\* check_interrupt: the queued interrupt of r is applied to it; else the oldest
\* queued one is taken out, to be answered EAGAIN.
check_interrupt(r) ==
    CASE \E i \in DOMAIN interrupts : interrupts[i] = r -> [interrupted |-> TRUE, taken |-> r]
      [] interrupts # <<>> /\ \A i \in DOMAIN interrupts : interrupts[i] # r ->
            [interrupted |-> FALSE, taken |-> Head(interrupts)]
      [] interrupts = <<>> -> [interrupted |-> FALSE, taken |-> Null]

\* What do_* answers when the operation is not set (nothing, for FORGET).
DoName == [op \in {"lookup", "getattr", "setattr", "access", "readlink", "mknod", "mkdir", "unlink",
                   "rmdir", "symlink", "rename", "link", "create"} |-> "ENOSYS"]
DoData == [op \in {"read", "write", "write_buf", "flush", "fsync", "readdir", "fsyncdir"} |-> "ENOSYS"]
DoOpen == [op \in {"open", "opendir"} |-> "reply_open"]
DoRelease == [op \in {"release", "releasedir"} |-> "0"]
DoStatfs == [op \in {"statfs"} |-> "reply_statfs"]
DoXattr == [op \in {"setxattr", "getxattr", "listxattr", "removexattr"} |-> "ENOSYS"]
DoLock == [op \in {"getlk", "setlk", "flock"} |-> "ENOSYS"]
DoOther == [op \in {"bmap", "ioctl", "poll", "fallocate"} |-> "ENOSYS"]
DoForget == [op \in Forgets |-> "none"]

Missing == DoName @@ DoData @@ DoOpen @@ DoRelease @@ DoStatfs @@ DoXattr @@ DoLock @@ DoOther @@ DoForget

\* Where the handler of op goes on: the callback, or the answer that stands for it.
\* fuse_lib_forget answers nothing.
Dispatch(op) ==
    CASE op \in {"init", "destroy"} -> op
      [] op \in DOMAIN DoForget -> "free"
      [] OTHER -> IF op \in Supported THEN IF Intr THEN "prepare" ELSE "callback"
                  ELSE IF Missing[op] = "none" THEN "free" ELSE "reply"

\* fuse_ll_process_buf: a message out of turn (before INIT, or a second INIT),
\* one this user may not send, or one with no handler is refused.
Refused(op) ==
    \/ se.got_init # (op # "init")
    \/ op \in Denied
    \/ op \notin DOMAIN Missing \cup {"init", "destroy"}

\* fuse_ll_process_buf for a request, up to the handler of its opcode.
ProcessRequest(t) ==
    LET r == wk[t].m
        c == check_interrupt(r)
    IN  /\ wk[t].pc = "process" /\ ~wk[t].intr
        /\ IF Refused(kst[r].op)
           THEN /\ wk' = [wk EXCEPT ![t].pc = "reply"]
                /\ req' = [req EXCEPT ![r] = [NoReq EXCEPT !.live = TRUE, !.ctr = 1]]
                /\ UNCHANGED <<list, interrupts, intr>>
           ELSE /\ req' = [req EXCEPT ![r] = [NoReq EXCEPT !.live = TRUE, !.ctr = 1,
                                                           !.interrupted = c.interrupted]]
                /\ list' = Append(list, r)
                /\ interrupts' = RemoveFirst(interrupts, c.taken)
                /\ intr' = IF c.interrupted THEN [intr EXCEPT ![r] = FALSE] ELSE intr
                /\ wk' = [wk EXCEPT ![t].pc = IF c.taken \notin {r, Null} THEN "eagain"
                                                  ELSE Dispatch(kst[r].op),
                                    ![t].stale = IF c.taken = r THEN Null ELSE c.taken]
        /\ UNCHANGED <<mt, main, se, kst, kint, env, bad>>

\* fuse_ll_alloc_req fails: ENOMEM is sent without a request.
ProcessNoMemory(t) ==
    /\ wk[t].pc = "process" /\ Failure
    /\ IF wk[t].intr THEN UNCHANGED <<kst, kint>> ELSE Answered(wk[t].m)
    /\ Goto(t, "done")
    /\ UNCHANGED <<mt, main, se, req, list, interrupts, intr, bad>>

\* fuse_reply_err(intr, EAGAIN)
ReplyStale(t) ==
    /\ wk[t].pc = "eagain"
    /\ TryAgain(wk[t].stale)
    /\ intr' = [intr EXCEPT ![wk[t].stale] = FALSE]
    /\ bad' = (bad \/ ~intr[wk[t].stale])
    /\ wk' = [wk EXCEPT ![t].pc = Dispatch(kst[wk[t].m].op), ![t].stale = Null]
    /\ UNCHANGED <<mt, main, se, req, list, interrupts, kst, env>>

\* do_init of a 7.x kernel: the connection is set up and op.init called.
do_init(t) ==
    /\ wk[t].pc = "init"
    /\ se' = [se EXCEPT !.got_init = TRUE]
    /\ Goto(t, "reply")
    /\ UNCHANGED <<mt, main, req, list, interrupts, intr, kst, kint, env, bad>>

do_destroy(t) ==
    /\ wk[t].pc = "destroy"
    /\ se' = [se EXCEPT !.got_destroy = TRUE, !.destroys = @ + 1]
    /\ Goto(t, "reply")
    /\ UNCHANGED <<mt, main, req, list, interrupts, intr, kst, kint, env, bad>>

\* Mutant: req->lock is not taken.
M_fuse_req_interrupt_func(t, func) ==
    /\ Use(wk[t].m)
    /\ req' = [req EXCEPT ![wk[t].m].func = func]

\* fuse_req_interrupt_func: waits for an interrupter of this request.  A request
\* that is already interrupted calls fuse_interrupt itself, which does nothing
\* in the request's own thread.
fuse_req_interrupt_func(t, func) ==
    /\ req[wk[t].m].lock = Null
    /\ Use(wk[t].m)
    /\ req' = [req EXCEPT ![wk[t].m].func = func]

\* fuse_do_prepare_interrupt: d is on the stack of the handler.
PrepareInterrupt(t) ==
    /\ wk[t].pc = "prepare"
    /\ fuse_req_interrupt_func(t, t)
    /\ wk' = [wk EXCEPT ![t].pc = "callback", ![t].d = "running", ![t].signalled = FALSE]
    /\ UNCHANGED <<mt, main, se, list, interrupts, intr, kst, kint, env>>

\* The callback of the file system returns (external); with option intr, the
\* first half of fuse_do_finish_interrupt, under the lock of struct fuse.
CallbackReturns(t) ==
    /\ wk[t].pc = "callback"
    /\ wk' = IF Intr THEN [wk EXCEPT ![t].pc = "unset", ![t].d = "finished"]
                     ELSE [wk EXCEPT ![t].pc = "reply"]
    /\ UNCHANGED <<mt, main, se, req, list, interrupts, intr, kst, kint, env, bad>>

\* Second half: nobody uses d after this.
UnsetInterrupt(t) ==
    /\ wk[t].pc = "unset"
    /\ fuse_req_interrupt_func(t, Null)
    /\ wk' = [wk EXCEPT ![t].pc = "reply", ![t].d = "none"]
    /\ UNCHANGED <<mt, main, se, list, interrupts, intr, kst, kint, env>>

\* fuse_send_reply_iov_nofree
Reply(t) ==
    /\ wk[t].pc = "reply"
    /\ Use(wk[t].m)
    /\ Answered(wk[t].m)
    /\ Goto(t, "free")
    /\ UNCHANGED <<mt, main, se, req, list, interrupts, intr, env>>

fuse_free_req(t) ==
    LET r == wk[t].m
    IN  /\ wk[t].pc = "free"
        /\ Use(r)
        /\ req' = Deref([req EXCEPT ![r].func = Null], r)
        /\ list' = RemoveFirst(list, r)
        /\ Goto(t, "done")
        /\ UNCHANGED <<mt, main, se, interrupts, intr, kst, kint, env>>

\* do_interrupt and the search of find_interrupted: take a reference on the
\* request, or queue the message for check_interrupt.
do_interrupt(t) ==
    LET r == wk[t].m
    IN  /\ wk[t].pc = "process" /\ wk[t].intr
        /\ CASE \E i \in DOMAIN list : list[i] = r ->
                  /\ req' = [req EXCEPT ![r].ctr = @ + 1]
                  /\ intr' = [intr EXCEPT ![r] = TRUE]
                  /\ Goto(t, "lock") /\ UNCHANGED interrupts
             [] (\A i \in DOMAIN list : list[i] # r) /\ (\E i \in DOMAIN interrupts : interrupts[i] = r) ->
                  Goto(t, "done") /\ UNCHANGED <<req, intr, interrupts>>
             [] OTHER ->
                  /\ interrupts' = Append(interrupts, r)
                  /\ intr' = [intr EXCEPT ![r] = TRUE]
                  /\ Goto(t, "done") /\ UNCHANGED req
        /\ UNCHANGED <<mt, main, se, list, kst, kint, env, bad>>

\* find_interrupted: lock the request, mark it, read its interrupt function.
LockInterrupted(t) ==
    LET r == wk[t].m
    IN  /\ wk[t].pc = "lock" /\ req[r].lock = Null
        /\ Use(r)
        /\ req' = [req EXCEPT ![r].lock = t, ![r].interrupted = TRUE]
        /\ wk' = [wk EXCEPT ![t].pc = IF req[r].func = Null THEN "unlock" ELSE "signal",
                            ![t].peer = req[r].func]
        /\ UNCHANGED <<mt, main, se, list, interrupts, intr, kst, kint, env>>

\* fuse_interrupt: signal the thread of the callback every second until it has
\* finished.
fuse_interrupt(t) ==
    LET p == wk[t].peer
    IN  /\ wk[t].pc = "signal"
        /\ bad' = (bad \/ wk[p].d = "none")
        /\ \/ /\ wk[p].d = "running" /\ ~wk[p].signalled
              /\ wk' = [wk EXCEPT ![p].signalled = TRUE]
           \/ wk[p].d # "running" /\ Goto(t, "unlock")
        /\ UNCHANGED <<mt, main, se, req, list, interrupts, intr, kst, kint, env>>

UnlockInterrupted(t) ==
    /\ wk[t].pc = "unlock"
    /\ Use(wk[t].m)
    /\ req' = [req EXCEPT ![wk[t].m].lock = Null]
    /\ wk' = [wk EXCEPT ![t].pc = "unref", ![t].peer = Null]
    /\ UNCHANGED <<mt, main, se, list, interrupts, intr, kst, kint, env>>

\* The reference is dropped and the INTERRUPT message destroyed.
UnrefInterrupted(t) ==
    /\ wk[t].pc = "unref"
    /\ Use(wk[t].m)
    /\ req' = Deref(req, wk[t].m)
    /\ intr' = [intr EXCEPT ![wk[t].m] = FALSE]
    /\ Goto(t, "done")
    /\ UNCHANGED <<mt, main, se, list, interrupts, kst, kint, env>>

-----------------------------------------------------------------------------
(* fuse_session_loop_mt and the end of the session.                          *)

MainStart(ok) ==
    LET s == fuse_loop_start_thread(wk, ok)
    IN  /\ main = "start"
        /\ Starts(ok)
        /\ mt' = s.mt /\ wk' = s.wk
        /\ main' = IF ok THEN "check" ELSE "destroy"
        /\ UNCHANGED <<se, req, list, interrupts, intr, kst, kint, bad>>

MainCheck ==
    /\ main = "check"
    /\ main' = IF se.exited THEN "cancel" ELSE "call"
    /\ UNCHANGED <<wk, mt, se, req, list, interrupts, intr, kst, kint, env, bad>>

\* sem_wait: a signal that comes before it sleeps does not wake it.
MainSleep ==
    /\ main = "call"
    /\ main' = "waiting"
    /\ UNCHANGED <<wk, mt, se, req, list, interrupts, intr, kst, kint, env, bad>>

MainWake ==
    /\ main = "waiting" /\ mt.finish > 0
    /\ mt' = [mt EXCEPT !.finish = @ - 1]
    /\ main' = "check"
    /\ UNCHANGED <<wk, se, req, list, interrupts, intr, kst, kint, env, bad>>

MainCancel ==
    /\ main = "cancel"
    /\ wk' = [t \in Worker |-> IF t \in ToSet(mt.list) THEN [wk[t] EXCEPT !.cancelled = TRUE] ELSE wk[t]]
    /\ mt' = [mt EXCEPT !.exit = TRUE]
    /\ main' = "join"
    /\ UNCHANGED <<se, req, list, interrupts, intr, kst, kint, env, bad>>

\* fuse_join_worker of the first worker of the list: pthread_join waits for it.
MainJoin ==
    /\ main = "join" /\ mt.list # <<>> /\ mt.joins = Null
    /\ mt' = [mt EXCEPT !.joins = Head(mt.list)]
    /\ UNCHANGED <<wk, main, se, req, list, interrupts, intr, kst, kint, env, bad>>

fuse_join_worker ==
    /\ mt.joins # Null /\ wk[mt.joins].pc \in {"ended", "none"}
    /\ bad' = (bad \/ wk[mt.joins].pc = "none")
    /\ wk' = [wk EXCEPT ![mt.joins] = Idle]
    /\ mt' = [mt EXCEPT !.list = RemoveFirst(@, mt.joins), !.joins = Null]
    /\ UNCHANGED <<main, se, req, list, interrupts, intr, kst, kint, env>>

MainReset ==
    /\ main = "join" /\ mt.list = <<>> /\ mt.joins = Null
    /\ se' = [se EXCEPT !.exited = FALSE]
    /\ main' = "destroy"
    /\ UNCHANGED <<wk, mt, req, list, interrupts, intr, kst, kint, env, bad>>

\* Mutant: the callback is called whatever the kernel has sent.
M_fuse_ll_destroy ==
    /\ main = "destroy"
    /\ se' = [se EXCEPT !.destroys = @ + 1]
    /\ main' = "done"
    /\ UNCHANGED <<wk, mt, req, list, interrupts, intr, kst, kint, env, bad>>

\* fuse_session_destroy: op.destroy, unless the kernel has asked for it.
fuse_ll_destroy ==
    /\ main = "destroy"
    /\ se' = [se EXCEPT !.destroys = IF se.got_init /\ ~se.got_destroy THEN @ + 1 ELSE @]
    /\ main' = "done"
    /\ UNCHANGED <<wk, mt, req, list, interrupts, intr, kst, kint, env, bad>>

\* exit_handler: only the main thread takes these signals (fuse_start_thread
\* blocks them in the workers); it interrupts a sem_wait that sleeps.
ExitSignal ==
    /\ env.signals > 0 /\ main \notin {"start", "destroy", "done"}
    /\ env' = [env EXCEPT !.signals = @ - 1]
    /\ se' = [se EXCEPT !.exited = TRUE]
    /\ main' = IF main = "waiting" THEN "check" ELSE main
    /\ UNCHANGED <<wk, mt, req, list, interrupts, intr, kst, kint, bad>>

-----------------------------------------------------------------------------

Kernel ==
    \/ \E r \in Request : \E op \in Ops \cup {"init"} : KernelSend(r, op)
    \/ \E r \in Request : KernelInterrupt(r)
    \/ KernelUnmount

Work(t) ==
    \/ LoopHead(t)
    \/ \E r \in Request : Receive(t, r, FALSE)
    \/ \E r \in Request : Receive(t, r, TRUE)
    \/ ReceiveUnmounted(t)
    \/ Cancelled(t)
    \/ \E ok \in BOOLEAN : TakeRequest(t, ok)
    \/ Finished(t)
    \/ Post(t)
    \/ ProcessRequest(t)
    \/ do_interrupt(t)
    \/ ReplyStale(t)
    \/ do_init(t)
    \/ do_destroy(t)
    \/ PrepareInterrupt(t)
    \/ CallbackReturns(t)
    \/ UnsetInterrupt(t)
    \/ Reply(t)
    \/ fuse_free_req(t)
    \/ LockInterrupted(t)
    \/ fuse_interrupt(t)
    \/ UnlockInterrupted(t)
    \/ UnrefInterrupted(t)

Fails(t) == ReceiveFails(t) \/ ProcessNoMemory(t)

Main ==
    \/ \E ok \in BOOLEAN : MainStart(ok)
    \/ MainCheck
    \/ MainSleep
    \/ MainWake
    \/ MainCancel
    \/ MainJoin
    \/ fuse_join_worker
    \/ MainReset
    \/ fuse_ll_destroy

Next ==
    \/ Kernel
    \/ \E t \in Worker : Work(t) \/ Fails(t)
    \/ Main
    \/ ExitSignal

\* Whether Work(t), Main can take a step.
Runnable(t) ==
    CASE wk[t].pc \in {"none", "ended"} -> FALSE
      [] wk[t].pc = "receive" ->
            \/ wk[t].cancelled \/ env.unmounted
            \/ \E r \in Request : kst[r].st = "queued" \/ (kint[r] = "queued" /\ kst[r].st = "sent")
      [] wk[t].pc \in {"prepare", "unset", "lock"} -> req[wk[t].m].lock = Null
      [] wk[t].pc = "signal" -> wk[wk[t].peer].d # "running" \/ ~wk[wk[t].peer].signalled
      [] OTHER -> TRUE

MainRunnable ==
    CASE main = "waiting" -> mt.finish > 0
      [] main = "join" -> mt.joins = Null \/ wk[mt.joins].pc = "ended"
      [] OTHER -> main # "done"

\* Weak fairness: the operating system runs a thread that can run; callbacks
\* return.  The kernel need not send anything and nothing need fail.
Fairness ==
    /\ []<>~MainRunnable \/ []<><<Main>>_vars
    /\ \A t \in Worker : []<>~Runnable(t) \/ []<><<Work(t)>>_vars

Spec == Init /\ [][Next]_vars /\ Fairness

-----------------------------------------------------------------------------

Handling == {"eagain", "init", "destroy", "prepare", "callback", "unset", "reply", "free"}
Interrupting == {"lock", "signal", "unlock", "unref"}
Busy == Handling \cup Interrupting \cup {"process", "done"}

\* Type invariant.
RequestsTypeOK ==
    /\ \A t \in Worker :
         /\ wk[t].pc \in Busy \cup {"none", "loop", "receive", "got", "post", "ended"}
         /\ wk[t].m \in Request \cup {Null} /\ wk[t].stale \in Request \cup {Null}
         /\ wk[t].peer \in Worker \cup {Null} /\ wk[t].d \in {"none", "running", "finished"}
    /\ mt.list \in Seq(Worker) /\ IsInjective(mt.list)
    /\ mt.numavail \in 0..Cardinality(Worker) /\ mt.finish \in Nat
    /\ main \in {"start", "check", "call", "waiting", "cancel", "join", "destroy", "done"}
    /\ \A r \in Request : /\ req[r].ctr \in 0..Cardinality(Worker)
                           /\ {req[r].func, req[r].lock} \subseteq Worker \cup {Null}
    /\ IsInjective(list) /\ IsInjective(interrupts)

\* No request is used or freed after destroy_req, no interrupter uses the
\* fuse_intr_data of a handler that has left it, and no worker is joined that
\* has detached and freed itself.
NoUseAfterFree == ~bad

\* A request lives as long as its handler or an interrupter of it refers to it,
\* and its counter says by how many it is held.
ReferencesCounted ==
    \A r \in Request :
       LET held == {t \in Worker : wk[t].m = r /\ (IF wk[t].intr THEN wk[t].pc \in Interrupting
                                                                ELSE wk[t].pc \in Handling)}
       IN  req[r].ctr = Cardinality(held) /\ (req[r].live <=> held # {})

\* The state is well formed, nothing is used after it is freed, and a request is
\* freed exactly when the last one who holds it lets go.
RequestLifetimes == RequestsTypeOK /\ NoUseAfterFree /\ ReferencesCounted

\* An INTERRUPT the library has read reaches the request it is for, in whatever
\* order the two messages are read and processed: as long as the request is
\* being handled, it is marked or a worker is still bringing the message to it.
\* (A session that has exited drops what it reads, and so does a failed malloc.)
InterruptsDelivered ==
    \A i \in DOMAIN list :
       LET r == list[i]
       IN  kint[r] = "sent" /\ ~se.exited /\ ~env.failed =>
             \/ req[r].interrupted
             \/ \E t \in Worker : wk[t].m = r /\ wk[t].intr /\ wk[t].pc \in {"got", "process", "lock"}
             \/ \E t \in Worker : wk[t].stale = r

\* The pool's counters: numavail is the number of workers not in a request
\* other than FORGET, and unless starting a thread has failed there is one.
WorkersAccounted ==
    /\ ~mt.exit => mt.numworker = Len(mt.list)
    /\ ~mt.exit => mt.numavail = Cardinality({t \in ToSet(mt.list) : wk[t].pc \in Busy => wk[t].forget})
    /\ main \in {"check", "call", "waiting", "cancel"} /\ ~env.failed =>
          mt.numavail > 0 \/ Free = {}

\* The destroy callback is called once after init, whether the kernel asks for it
\* or the session ends without, and never while another callback runs.
DestroyedOnceAndLast ==
    /\ se.destroys = IF ~se.got_init THEN 0
                     ELSE IF main = "done" \/ se.got_destroy THEN 1 ELSE 0
    /\ se.destroys > 0 => \A t \in Worker : wk[t].pc # "callback"

\* Every request is answered and freed in the end, and after an unmount the
\* workers leave and fuse_session_loop_mt returns.
AnsweredAndEnded ==
    []<>((\A r \in Request : ~req[r].live) /\ (env.unmounted => main = "done"))
=============================================================================
