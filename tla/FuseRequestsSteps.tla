------------------------- MODULE FuseRequestsSteps -------------------------
(***************************************************************************)
(* The inductive invariant of FuseRequests, what each step makes of the    *)
(* state it touches, and its first two parts: every step keeps the types   *)
(* (TypeInv) and the accounts of the pool of workers (PoolInv).            *)
(* FuseRequestsProofs proves the other parts and the theorems.             *)
(***************************************************************************)
EXTENDS FuseRequests, ListLemmas, FiniteSetTheorems

-----------------------------------------------------------------------------
(* The inductive invariant, in four parts: the state of each thread by       *)
(* itself, the pool, requests and their interrupts, the end of the session.  *)

PCs == Busy \cup {"none", "loop", "receive", "got", "post", "ended"}

\* Where a worker has a message.
Carrying == Busy \cup {"got"}

WorkerRecs ==
    [pc : PCs, m : Request \cup {Null}, intr : BOOLEAN, stale : Request \cup {Null},
     forget : BOOLEAN, peer : Worker \cup {Null}, cancelled : BOOLEAN,
     d : {"none", "running", "finished"}, signalled : BOOLEAN]

ReqRecs ==
    [live : BOOLEAN, ctr : Int, interrupted : BOOLEAN, func : Worker \cup {Null},
     lock : Worker \cup {Null}]

MtRecs ==
    [list : Seq(Worker), numavail : Int, numworker : Int, exit : BOOLEAN,
     error : BOOLEAN, finish : Nat, joins : Worker \cup {Null}]

SessionRecs == [exited : BOOLEAN, got_init : BOOLEAN, got_destroy : BOOLEAN, destroys : Int]

KernelRecs == [op : Ops \cup {"init", Null}, st : {"new", "queued", "sent", "answered"}]

EnvRecs ==
    [failures : Nat, interrupts : Nat, signals : Nat, threads : SUBSET Worker,
     unmounted : BOOLEAN, failed : BOOLEAN]

\* The types, with counters that may be negative.
WkType == wk \in [Worker -> WorkerRecs]
MtType == mt \in MtRecs
MainType == main \in {"start", "check", "call", "waiting", "cancel", "join", "destroy", "done"}
SeType == se \in SessionRecs
ReqType == req \in [Request -> ReqRecs]
ListType == list \in Seq(Request)
InterruptsType == interrupts \in Seq(Request)
IntrType == intr \in [Request -> BOOLEAN]
KstType == kst \in [Request -> KernelRecs]
KintType == kint \in [Request -> {"no", "queued", "sent", "gone"}]
EnvType == env \in EnvRecs
BadType == bad \in BOOLEAN

StateTypes ==
    /\ WkType /\ MtType /\ MainType /\ SeType /\ ReqType /\ ListType /\ InterruptsType
    /\ IntrType /\ KstType /\ KintType /\ EnvType /\ BadType

Taken(r) == kst[r].st \in {"sent", "answered"}

Known(op) == op \in DOMAIN Missing \cup {"init", "destroy"}

\* What holds of a worker by itself: only one with a message refers to anything.
WorkerOK(t) ==
    /\ wk[t].pc \notin Carrying => wk[t].m = Null /\ ~wk[t].intr
    /\ wk[t].pc \in Carrying => wk[t].m \in Request /\ Taken(wk[t].m)
    /\ wk[t].pc \in Handling => ~wk[t].intr
    /\ wk[t].pc \in Interrupting => wk[t].intr
    /\ wk[t].stale # Null <=> wk[t].pc = "eagain"
    /\ wk[t].pc = "eagain" => Known(kst[wk[t].m].op)
    /\ wk[t].pc = "prepare" => Intr
    /\ wk[t].pc = "signal" => wk[t].peer \in Worker

TypeInv == StateTypes /\ \A t \in Worker : WorkerOK(t)

Started == {t \in Worker : wk[t].pc # "none"}

\* A worker that is not counted as busy.
Avail == {t \in Worker : wk[t].pc # "none" /\ (wk[t].pc \in Busy => wk[t].forget)}

NotBusy == {t \in Worker : wk[t].pc \in Busy => wk[t].forget}

PoolInv ==
    /\ IsInjective(mt.list) /\ ToSet(mt.list) = Started
    /\ mt.exit => main \in {"join", "destroy", "done"}
    /\ main = "join" => mt.exit
    /\ main \in {"cancel", "join"} => se.exited
    /\ main \in {"start", "destroy", "done"} => Started = {}
    /\ mt.joins # Null => main = "join" /\ mt.joins \in Started
    /\ ~mt.exit => mt.numworker = Len(mt.list) /\ mt.numavail = Cardinality(Avail)
    /\ mt.numavail \in 0..Cardinality(NotBusy)
    /\ main \in {"check", "call", "waiting", "cancel"} /\ ~env.failed =>
          mt.numavail > 0 \/ Free = {}

\* Worker t has request r.
Asks(t, r) == wk[t].pc \in Carrying /\ wk[t].m = r /\ ~wk[t].intr

\* Worker t has the INTERRUPT of r and is not done with it.
Brings(t, r) == wk[t].pc \in Interrupting \cup {"got", "process"} /\ wk[t].m = r /\ wk[t].intr

\* The handler or an interrupter holds a reference.
Holders(r) == {t \in Worker : wk[t].m = r /\ wk[t].pc \in Handling \cup Interrupting}

HandlerInv ==
    /\ \A t, u \in Worker, r \in Request : Asks(t, r) /\ Asks(u, r) => t = u
    /\ IsInjective(list)
    /\ \A r \in ToSet(list) : \E t \in Worker : Asks(t, r) /\ wk[t].pc \in Handling
    /\ \A t \in Worker, r \in Request : Asks(t, r) /\ wk[t].pc \in {"got", "process"} => Holders(r) = {}

CountsInv == \A r \in Request : /\ req[r].ctr = Cardinality(Holders(r))
                                /\ req[r].live <=> Holders(r) # {}

\* The INTERRUPT of a request is in one place, and there while it is.
MessageInv ==
    /\ \A t, u \in Worker, r \in Request : Brings(t, r) /\ Brings(u, r) => t = u
    /\ \A t, u \in Worker : wk[t].stale = wk[u].stale /\ wk[t].stale # Null => t = u
    /\ \A t, u \in Worker, r \in Request : Brings(t, r) => wk[u].stale # r
    /\ \A r \in ToSet(interrupts) : kint[r] = "sent" /\ intr[r]
    /\ \A t \in Worker, r \in Request : Brings(t, r) => r \notin ToSet(interrupts) /\ kint[r] = "sent"
    /\ \A t \in Worker, r \in Request : wk[t].stale = r => r \notin ToSet(interrupts) /\ kint[r] = "sent" /\ intr[r]
    /\ \A t \in Worker : wk[t].pc \in Interrupting => intr[wk[t].m]
    /\ IsInjective(interrupts)

\* req->lock and the interrupt function.
LockInv ==
    /\ \A r \in Request, t \in Worker :
          req[r].lock = t <=> wk[t].m = r /\ wk[t].pc \in {"signal", "unlock"}
    /\ \A r \in Request, t \in Worker :
          req[r].func = t => Intr /\ wk[t].m = r /\ wk[t].pc \in {"callback", "unset"} /\ wk[t].d # "none"
    /\ \A t \in Worker : wk[t].pc = "signal" => req[wk[t].m].func = wk[t].peer

LifeInv == HandlerInv /\ CountsInv /\ MessageInv /\ LockInv /\ ~bad

\* The kernel interrupts what it has sent.
NotEarly == \A r \in Request : ~Taken(r) => kint[r] = "no"

\* Nothing has failed or ended the session.
Open == ~se.exited /\ ~env.failed

\* Request r is in the list, or not yet processed.
Waits(r) ==
    \/ r \in ToSet(list)
    \/ \E t \in Worker : Asks(t, r) /\ wk[t].pc \in {"got", "process"}

\* Where an INTERRUPT that was read is, until its request is marked.
Placed(r) ==
    \/ r \in ToSet(list) /\ req[r].interrupted
    \/ \E t \in Worker : wk[t].m = r /\ wk[t].intr /\ wk[t].pc \in {"got", "process", "lock"}
    \/ \E t \in Worker : wk[t].stale = r
    \/ r \in ToSet(interrupts) /\ r \notin ToSet(list)

DeliveryInv ==
    /\ NotEarly
    /\ Open => \A r \in Request : kint[r] = "sent" /\ Waits(r) => Placed(r)

IsDestroy(r) == kst[r].op = "destroy" /\ kst[r].st # "new"

\* The kernel sends requests in order, and DESTROY when the others are answered
\* and nothing after it.
KernelInv ==
    /\ \A r, q \in Request : r < q /\ kst[r].st = "new" => kst[q].st = "new"
    /\ \A r, q \in Request : IsDestroy(r) /\ q # r =>
          kst[q].st \in {"new", "answered"} \/ kst[q].op \in Forgets
    /\ \A r, q \in Request : IsDestroy(r) /\ r < q => kst[q].st = "new"

\* A request is not answered before its handler is done with it.
SentInv ==
    \A t \in Worker, r \in Request :
       Asks(t, r) /\ wk[t].pc \notin {"free", "done"} /\ kst[r].op \notin Forgets => kst[r].st = "sent"

\* Handlers have the requests that are theirs.
Routed(t) ==
    /\ wk[t].pc \in {"prepare", "callback"} => kst[wk[t].m].op \notin Forgets \cup {"init", "destroy"}
    /\ wk[t].pc = "eagain" => se.got_init \/ kst[wk[t].m].op = "init"
    /\ wk[t].pc = "destroy" => se.got_init /\ kst[wk[t].m].op = "destroy"

RouteInv == \A t \in Worker : Routed(t)

\* Request r is a DESTROY and op.destroy has been called for it, or it is dropped.
Destroyer(r) ==
    IsDestroy(r) /\ Taken(r) /\ \A t \in Worker : Asks(t, r) => wk[t].pc \in {"reply", "free", "done"}

EndInv ==
    /\ se.got_destroy => se.got_init /\ \E r \in Request : Destroyer(r)
    /\ se.destroys = IF ~se.got_init THEN 0
                     ELSE IF main = "done" \/ se.got_destroy THEN 1 ELSE 0

DestroyInv == KernelInv /\ SentInv /\ RouteInv /\ EndInv

-----------------------------------------------------------------------------
(* The types and the state of each worker.                                   *)

\* Where the handler of a known opcode goes on.
LEMMA Dispatches ==
    ASSUME NEW op, Known(op)
    PROVE  /\ Dispatch(op) \in {"init", "destroy", "free", "prepare", "callback", "reply"}
           /\ Dispatch(op) = "prepare" => Intr
           /\ Dispatch(op) \in {"prepare", "callback"} => op \notin Forgets \cup {"init", "destroy"}
           /\ Dispatch(op) = "destroy" => op = "destroy"
<1>1. DOMAIN DoForget = Forgets
  BY DEF DoForget
<1>2. CASE op \in {"init", "destroy"}
  <2>1. op \notin Forgets
    BY <1>2 DEF Forgets
  <2> QED
    BY <1>1, <1>2, <2>1 DEF Dispatch
<1>3. CASE op \in Forgets
  <2>1. op \notin {"init", "destroy"}
    BY <1>3 DEF Forgets
  <2>2. Dispatch(op) = "free"
    BY <1>1, <1>3, <2>1 DEF Dispatch
  <2> QED
    BY <2>2
<1>4. CASE op \notin Forgets \cup {"init", "destroy"} /\ op \in Supported
  <2>1. Dispatch(op) = IF Intr THEN "prepare" ELSE "callback"
    BY <1>1, <1>4 DEF Dispatch
  <2> QED
    BY <1>4, <2>1
<1>5. CASE op \notin Forgets \cup {"init", "destroy"} /\ op \notin Supported
  <2>1. Dispatch(op) = IF Missing[op] = "none" THEN "free" ELSE "reply"
    BY <1>1, <1>5 DEF Dispatch, Known
  <2> QED
    BY <2>1
<1> QED
  BY <1>2, <1>3, <1>4, <1>5

\* A message that was taken stays taken and keeps its opcode.
Grows == \A r \in Request : Taken(r) => Taken(r)' /\ kst'[r].op = kst[r].op

\* A step of one worker leaves what holds of the others.
LEMMA OneWorker ==
    ASSUME TypeInv, StateTypes', Grows, NEW t \in Worker, WorkerOK(t)',
           \A u \in Worker \ {t} : wk'[u] = wk[u]
    PROVE  TypeInv'
<1>1. ASSUME NEW u \in Worker \ {t}
      PROVE  WorkerOK(u)'
  <2>1. WorkerOK(u) /\ wk'[u] = wk[u]
    BY DEF TypeInv
  <2> QED
    <3> USE DEF Carrying, Busy, Handling, Interrupting
    <3>1. wk[u].pc \in Carrying => Taken(wk[u].m)' /\ kst'[wk[u].m].op = kst[wk[u].m].op
      BY <2>1 DEF WorkerOK, Grows
    <3> QED
      BY <2>1, <3>1 DEF WorkerOK
<1> QED
  BY <1>1 DEF TypeInv

\* A step of none.
LEMMA NoWorker ==
    ASSUME TypeInv, StateTypes', Grows, wk' = wk
    PROVE  TypeInv'
<1>1. ASSUME NEW u \in Worker
      PROVE  WorkerOK(u)'
  <2>1. WorkerOK(u)
    BY DEF TypeInv
  <2> QED
    <3> USE DEF Carrying, Busy, Handling, Interrupting
    <3>1. wk[u].pc \in Carrying => Taken(wk[u].m)' /\ kst'[wk[u].m].op = kst[wk[u].m].op
      BY <2>1 DEF WorkerOK, Grows
    <3> QED
      BY <2>1, <3>1 DEF WorkerOK
<1> QED
  BY <1>1 DEF TypeInv

LEMMA TypeInit ==
    ASSUME Init
    PROVE  TypeInv
<1> USE RequestsAssumption
<1>1. StateTypes
  <2>1. EnvType
    BY DEF Init, EnvType, EnvRecs
  <2>2. WkType
    BY DEF Init, WkType, Idle, WorkerRecs, PCs
  <2>3. ReqType
    BY DEF Init, ReqType, NoReq, ReqRecs
  <2>4. MtType /\ SeType
    BY DEF Init, MtType, MtRecs, SeType, SessionRecs
  <2>5. KstType /\ KintType /\ IntrType
    BY DEF Init, KstType, KintType, KernelRecs, IntrType
  <2>6. MainType /\ BadType
    BY DEF Init, MainType, BadType
  <2>7. ListType /\ InterruptsType
    <3>1. <<>> \in Seq(Request)
      OBVIOUS
    <3> QED
      BY <3>1 DEF Init, ListType, InterruptsType
  <2> QED
    BY <2>1, <2>2, <2>3, <2>4, <2>5, <2>6, <2>7 DEF StateTypes
<1>2. ASSUME NEW t \in Worker
      PROVE  WorkerOK(t)
  <2>1. wk[t] = Idle
    BY DEF Init
  <2> QED
    BY <2>1 DEF WorkerOK, Idle, Carrying, Busy, Handling, Interrupting
<1> QED
  BY <1>1, <1>2 DEF TypeInv


\* What a step of worker t makes of its record; the others keep theirs.
Becomes(t, pc, m, isIntr, stale, peer, d) ==
    /\ wk'[t].pc = pc /\ wk'[t].m = m /\ wk'[t].intr = isIntr /\ wk'[t].stale = stale
    /\ wk'[t].peer = peer /\ wk'[t].d = d /\ wk'[t].forget = wk[t].forget
    /\ \A u \in Worker \ {t} : wk'[u] = wk[u]

\* What it makes of the record of request r.
ReqBecomes(r, live, ctr, interrupted, func, lock) ==
    /\ req'[r].live = live /\ req'[r].ctr = ctr /\ req'[r].interrupted = interrupted
    /\ req'[r].func = func /\ req'[r].lock = lock
    /\ \A q \in Request \ {r} : req'[q] = req[q]

LEMMA FailureTypes ==
    ASSUME EnvType, Failure
    PROVE  EnvType'
<1>1. env.failures \in Nat /\ env.failures > 0
  BY DEF EnvType, EnvRecs, Failure
<1>2. env.failures - 1 \in Nat
  BY <1>1
<1>3. env' = [env EXCEPT !.failures = env.failures - 1, !.failed = TRUE]
  BY DEF Failure
<1> QED
  BY <1>2, <1>3 DEF EnvType, EnvRecs

LEMMA LoopHeadTypes ==
    ASSUME TypeInv, NEW t \in Worker, LoopHead(t)
    PROVE  /\ TypeInv'
           /\ Becomes(t, IF se.exited THEN "post" ELSE "receive", wk[t].m, wk[t].intr, wk[t].stale, wk[t].peer, wk[t].d)
<1> DEFINE w == [wk[t] EXCEPT !.pc = IF se.exited THEN "post" ELSE "receive"]
<1>1. StateTypes /\ WorkerOK(t) /\ wk[t] \in WorkerRecs
  BY DEF TypeInv, StateTypes, WkType
<1>2. wk' = [wk EXCEPT ![t] = w]
  BY <1>1 DEF LoopHead, Goto, StateTypes, WkType, WorkerRecs
<1>3. w \in WorkerRecs
  BY <1>1 DEF LoopHead, StateTypes, ReqType, ReqRecs, WorkerRecs, WorkerOK, PCs, Carrying, Busy, Handling, Interrupting
<1>4. StateTypes'
  <2>1. WkType'
    BY <1>1, <1>2, <1>3 DEF StateTypes, WkType
  <2>2. MtType' /\ MainType' /\ SeType' /\ ReqType' /\ ListType' /\ InterruptsType' /\ IntrType' /\ KstType' /\ KintType' /\ EnvType' /\ BadType'
    BY <1>1 DEF LoopHead, Goto, StateTypes, MtType, MainType, SeType, ReqType, ListType, InterruptsType, IntrType, KstType, KintType, EnvType, BadType
  <2> QED
    BY <2>1, <2>2 DEF StateTypes
<1>5. Grows
  BY <1>1 DEF LoopHead, Goto, StateTypes, KstType, KernelRecs, Grows, Taken
<1>6. Becomes(t, IF se.exited THEN "post" ELSE "receive", wk[t].m, wk[t].intr, wk[t].stale, wk[t].peer, wk[t].d)
  <2>1. wk'[t] = w /\ \A u \in Worker \ {t} : wk'[u] = wk[u]
    BY <1>1, <1>2 DEF StateTypes, WkType
  <2>2. /\ w.pc = (IF se.exited THEN "post" ELSE "receive") /\ w.m = wk[t].m /\ w.intr = wk[t].intr
        /\ w.stale = wk[t].stale /\ w.peer = wk[t].peer /\ w.d = wk[t].d /\ w.forget = wk[t].forget
    BY <1>1 DEF WorkerRecs
  <2> HIDE DEF w
  <2> QED
    BY <2>1, <2>2 DEF Becomes
<1> HIDE DEF w
<1>8. WorkerOK(t)'
  BY <1>1, <1>5, <1>6, RequestsAssumption DEF Becomes, LoopHead, Grows, Taken, StateTypes, ReqType, ReqRecs, KstType, WorkerOK, Carrying, Busy, Handling, Interrupting
<1> QED
  BY <1>4, <1>5, <1>6, <1>8, OneWorker DEF Becomes

LEMMA ReceiveTypes ==
    ASSUME TypeInv, NEW t \in Worker, NEW r \in Request, NEW isIntr \in BOOLEAN, Receive(t, r, isIntr)
    PROVE  /\ TypeInv'
           /\ Becomes(t, IF se.exited THEN "post" ELSE "got", IF se.exited THEN Null ELSE r, ~se.exited /\ isIntr, wk[t].stale, wk[t].peer, wk[t].d)
<1> DEFINE w == IF se.exited THEN [wk[t] EXCEPT !.pc = "post"]
                 ELSE [wk[t] EXCEPT !.pc = "got", !.m = r, !.intr = isIntr]
<1>1. StateTypes /\ WorkerOK(t) /\ wk[t] \in WorkerRecs
  BY DEF TypeInv, StateTypes, WkType
<1>2. wk' = [wk EXCEPT ![t] = w]
  BY <1>1 DEF Receive, StateTypes, WkType, WorkerRecs
<1>3. w \in WorkerRecs
  BY <1>1 DEF Receive, StateTypes, ReqType, ReqRecs, WorkerRecs, WorkerOK, PCs, Carrying, Busy, Handling, Interrupting
<1>4. StateTypes'
  <2>1. WkType'
    BY <1>1, <1>2, <1>3 DEF StateTypes, WkType
  <2>2. KstType'
    BY <1>1 DEF Receive, StateTypes, KstType, KernelRecs
  <2>3. KintType'
    BY <1>1 DEF Receive, StateTypes, KintType
  <2>4. MtType' /\ MainType' /\ SeType' /\ ReqType' /\ ListType' /\ InterruptsType' /\ IntrType' /\ EnvType' /\ BadType'
    BY <1>1 DEF Receive, StateTypes, MtType, MainType, SeType, ReqType, ListType, InterruptsType, IntrType, EnvType, BadType
  <2> QED
    BY <2>1, <2>2, <2>3, <2>4 DEF StateTypes
<1>5. Grows
  BY <1>1 DEF Receive, StateTypes, KstType, KernelRecs, Grows, Taken
<1>6. Becomes(t, IF se.exited THEN "post" ELSE "got", IF se.exited THEN Null ELSE r, ~se.exited /\ isIntr, wk[t].stale, wk[t].peer, wk[t].d)
  <2>1. wk'[t] = w /\ \A u \in Worker \ {t} : wk'[u] = wk[u]
    BY <1>1, <1>2 DEF StateTypes, WkType
  <2>2. /\ w.pc = (IF se.exited THEN "post" ELSE "got") /\ w.m = (IF se.exited THEN Null ELSE r) /\ w.intr = (~se.exited /\ isIntr)
        /\ w.stale = wk[t].stale /\ w.peer = wk[t].peer /\ w.d = wk[t].d /\ w.forget = wk[t].forget
    <3>1. wk[t].m = Null /\ wk[t].intr = FALSE
      BY <1>1 DEF Receive, WorkerRecs, WorkerOK, Carrying, Busy, Handling, Interrupting
    <3>2. CASE se.exited
      <4>1. w = [wk[t] EXCEPT !.pc = "post"]
        BY <3>2
      <4> QED
        BY <1>1, <3>1, <3>2, <4>1 DEF WorkerRecs
    <3>3. CASE ~se.exited
      <4>1. w = [wk[t] EXCEPT !.pc = "got", !.m = r, !.intr = isIntr]
        BY <3>3
      <4> HIDE DEF w
      <4> QED
        BY <1>1, <3>3, <4>1 DEF WorkerRecs
    <3> QED
      BY <3>2, <3>3
  <2> HIDE DEF w
  <2> QED
    BY <2>1, <2>2 DEF Becomes
<1> HIDE DEF w
<1>8. WorkerOK(t)'
  <2>1. Taken(r)'
    <3>1. kst[r].st \in {"queued", "sent"} /\ r \in DOMAIN kst /\ "st" \in DOMAIN kst[r]
      BY <1>1 DEF Receive, StateTypes, KstType, KernelRecs
    <3>2. CASE isIntr
      BY <3>2 DEF Receive, Taken
    <3>3. CASE ~isIntr
      <4>1. kst' = [kst EXCEPT ![r].st = IF kst[r].op \in Forgets THEN "answered" ELSE "sent"]
        BY <3>3 DEF Receive
      <4>2. kst'[r].st \in {"answered", "sent"}
        BY <3>1, <4>1
      <4> QED
        BY <4>2 DEF Taken
    <3> QED
      BY <3>2, <3>3
  <2>2. wk[t].pc = "receive"
    BY DEF Receive
  <2> QED
    BY <1>1, <1>6, <2>1, <2>2 DEF Becomes, WorkerOK, Carrying, Busy, Handling, Interrupting
<1> QED
  BY <1>4, <1>5, <1>6, <1>8, OneWorker DEF Becomes

LEMMA ReceiveUnmountedTypes ==
    ASSUME TypeInv, NEW t \in Worker, ReceiveUnmounted(t)
    PROVE  /\ TypeInv'
           /\ Becomes(t, "post", wk[t].m, wk[t].intr, wk[t].stale, wk[t].peer, wk[t].d)
<1> DEFINE w == [wk[t] EXCEPT !.pc = "post"]
<1>1. StateTypes /\ WorkerOK(t) /\ wk[t] \in WorkerRecs
  BY DEF TypeInv, StateTypes, WkType
<1>2. wk' = [wk EXCEPT ![t] = w]
  BY <1>1 DEF ReceiveUnmounted, Goto, StateTypes, WkType, WorkerRecs
<1>3. w \in WorkerRecs
  BY <1>1 DEF ReceiveUnmounted, StateTypes, ReqType, ReqRecs, WorkerRecs, WorkerOK, PCs, Carrying, Busy, Handling, Interrupting
<1>4. StateTypes'
  <2>1. WkType'
    BY <1>1, <1>2, <1>3 DEF StateTypes, WkType
  <2>2. SeType'
    BY <1>1 DEF ReceiveUnmounted, Goto, StateTypes, SeType, SessionRecs
  <2>3. MtType' /\ MainType' /\ ReqType' /\ ListType' /\ InterruptsType' /\ IntrType' /\ KstType' /\ KintType' /\ EnvType' /\ BadType'
    BY <1>1 DEF ReceiveUnmounted, Goto, StateTypes, MtType, MainType, ReqType, ListType, InterruptsType, IntrType, KstType, KintType, EnvType, BadType
  <2> QED
    BY <2>1, <2>2, <2>3 DEF StateTypes
<1>5. Grows
  BY <1>1 DEF ReceiveUnmounted, Goto, StateTypes, KstType, KernelRecs, Grows, Taken
<1>6. Becomes(t, "post", wk[t].m, wk[t].intr, wk[t].stale, wk[t].peer, wk[t].d)
  <2>1. wk'[t] = w /\ \A u \in Worker \ {t} : wk'[u] = wk[u]
    BY <1>1, <1>2 DEF StateTypes, WkType
  <2>2. /\ w.pc = "post" /\ w.m = wk[t].m /\ w.intr = wk[t].intr
        /\ w.stale = wk[t].stale /\ w.peer = wk[t].peer /\ w.d = wk[t].d /\ w.forget = wk[t].forget
    BY <1>1 DEF WorkerRecs
  <2> HIDE DEF w
  <2> QED
    BY <2>1, <2>2 DEF Becomes
<1> HIDE DEF w
<1>8. WorkerOK(t)'
  BY <1>1, <1>5, <1>6, RequestsAssumption DEF Becomes, ReceiveUnmounted, Grows, Taken, StateTypes, ReqType, ReqRecs, KstType, WorkerOK, Carrying, Busy, Handling, Interrupting
<1> QED
  BY <1>4, <1>5, <1>6, <1>8, OneWorker DEF Becomes

LEMMA ReceiveFailsTypes ==
    ASSUME TypeInv, NEW t \in Worker, ReceiveFails(t)
    PROVE  /\ TypeInv'
           /\ Becomes(t, "post", wk[t].m, wk[t].intr, wk[t].stale, wk[t].peer, wk[t].d)
<1> DEFINE w == [wk[t] EXCEPT !.pc = "post"]
<1>1. StateTypes /\ WorkerOK(t) /\ wk[t] \in WorkerRecs
  BY DEF TypeInv, StateTypes, WkType
<1>2. wk' = [wk EXCEPT ![t] = w]
  BY <1>1 DEF ReceiveFails, Goto, Failure, StateTypes, WkType, WorkerRecs
<1>3. w \in WorkerRecs
  BY <1>1 DEF ReceiveFails, StateTypes, ReqType, ReqRecs, WorkerRecs, WorkerOK, PCs, Carrying, Busy, Handling, Interrupting
<1>4. StateTypes'
  <2>1. WkType'
    BY <1>1, <1>2, <1>3 DEF StateTypes, WkType
  <2>2. SeType'
    BY <1>1 DEF ReceiveFails, Goto, Failure, StateTypes, SeType, SessionRecs
  <2>3. MtType'
    BY <1>1 DEF ReceiveFails, Goto, Failure, StateTypes, MtType, MtRecs
  <2>4. EnvType'
    BY <1>1, FailureTypes DEF ReceiveFails, StateTypes
  <2>5. MainType' /\ ReqType' /\ ListType' /\ InterruptsType' /\ IntrType' /\ KstType' /\ KintType' /\ BadType'
    BY <1>1 DEF ReceiveFails, Goto, Failure, StateTypes, MainType, ReqType, ListType, InterruptsType, IntrType, KstType, KintType, BadType
  <2> QED
    BY <2>1, <2>2, <2>3, <2>4, <2>5 DEF StateTypes
<1>5. Grows
  BY <1>1 DEF ReceiveFails, Goto, Failure, StateTypes, KstType, KernelRecs, Grows, Taken
<1>6. Becomes(t, "post", wk[t].m, wk[t].intr, wk[t].stale, wk[t].peer, wk[t].d)
  <2>1. wk'[t] = w /\ \A u \in Worker \ {t} : wk'[u] = wk[u]
    BY <1>1, <1>2 DEF StateTypes, WkType
  <2>2. /\ w.pc = "post" /\ w.m = wk[t].m /\ w.intr = wk[t].intr
        /\ w.stale = wk[t].stale /\ w.peer = wk[t].peer /\ w.d = wk[t].d /\ w.forget = wk[t].forget
    BY <1>1 DEF WorkerRecs
  <2> HIDE DEF w
  <2> QED
    BY <2>1, <2>2 DEF Becomes
<1> HIDE DEF w
<1>8. WorkerOK(t)'
  BY <1>1, <1>5, <1>6, RequestsAssumption DEF Becomes, ReceiveFails, Grows, Taken, StateTypes, ReqType, ReqRecs, KstType, WorkerOK, Carrying, Busy, Handling, Interrupting
<1> QED
  BY <1>4, <1>5, <1>6, <1>8, OneWorker DEF Becomes

LEMMA CancelledTypes ==
    ASSUME TypeInv, NEW t \in Worker, Cancelled(t)
    PROVE  /\ TypeInv'
           /\ Becomes(t, "ended", wk[t].m, wk[t].intr, wk[t].stale, wk[t].peer, wk[t].d)
<1> DEFINE w == [wk[t] EXCEPT !.pc = "ended"]
<1>1. StateTypes /\ WorkerOK(t) /\ wk[t] \in WorkerRecs
  BY DEF TypeInv, StateTypes, WkType
<1>2. wk' = [wk EXCEPT ![t] = w]
  BY <1>1 DEF Cancelled, Goto, StateTypes, WkType, WorkerRecs
<1>3. w \in WorkerRecs
  BY <1>1 DEF Cancelled, StateTypes, ReqType, ReqRecs, WorkerRecs, WorkerOK, PCs, Carrying, Busy, Handling, Interrupting
<1>4. StateTypes'
  <2>1. WkType'
    BY <1>1, <1>2, <1>3 DEF StateTypes, WkType
  <2>2. MtType' /\ MainType' /\ SeType' /\ ReqType' /\ ListType' /\ InterruptsType' /\ IntrType' /\ KstType' /\ KintType' /\ EnvType' /\ BadType'
    BY <1>1 DEF Cancelled, Goto, StateTypes, MtType, MainType, SeType, ReqType, ListType, InterruptsType, IntrType, KstType, KintType, EnvType, BadType
  <2> QED
    BY <2>1, <2>2 DEF StateTypes
<1>5. Grows
  BY <1>1 DEF Cancelled, Goto, StateTypes, KstType, KernelRecs, Grows, Taken
<1>6. Becomes(t, "ended", wk[t].m, wk[t].intr, wk[t].stale, wk[t].peer, wk[t].d)
  <2>1. wk'[t] = w /\ \A u \in Worker \ {t} : wk'[u] = wk[u]
    BY <1>1, <1>2 DEF StateTypes, WkType
  <2>2. /\ w.pc = "ended" /\ w.m = wk[t].m /\ w.intr = wk[t].intr
        /\ w.stale = wk[t].stale /\ w.peer = wk[t].peer /\ w.d = wk[t].d /\ w.forget = wk[t].forget
    BY <1>1 DEF WorkerRecs
  <2> HIDE DEF w
  <2> QED
    BY <2>1, <2>2 DEF Becomes
<1> HIDE DEF w
<1>8. WorkerOK(t)'
  BY <1>1, <1>5, <1>6, RequestsAssumption DEF Becomes, Cancelled, Grows, Taken, StateTypes, ReqType, ReqRecs, KstType, WorkerOK, Carrying, Busy, Handling, Interrupting
<1> QED
  BY <1>4, <1>5, <1>6, <1>8, OneWorker DEF Becomes

LEMMA PostTypes ==
    ASSUME TypeInv, NEW t \in Worker, Post(t)
    PROVE  /\ TypeInv'
           /\ Becomes(t, "ended", wk[t].m, wk[t].intr, wk[t].stale, wk[t].peer, wk[t].d)
<1> DEFINE w == [wk[t] EXCEPT !.pc = "ended"]
<1>1. StateTypes /\ WorkerOK(t) /\ wk[t] \in WorkerRecs
  BY DEF TypeInv, StateTypes, WkType
<1>2. wk' = [wk EXCEPT ![t] = w]
  BY <1>1 DEF Post, Goto, StateTypes, WkType, WorkerRecs
<1>3. w \in WorkerRecs
  BY <1>1 DEF Post, StateTypes, ReqType, ReqRecs, WorkerRecs, WorkerOK, PCs, Carrying, Busy, Handling, Interrupting
<1>4. StateTypes'
  <2>1. WkType'
    BY <1>1, <1>2, <1>3 DEF StateTypes, WkType
  <2>2. MtType'
    BY <1>1, SMTT(30) DEF Post, Goto, StateTypes, MtType, MtRecs
  <2>3. MainType' /\ SeType' /\ ReqType' /\ ListType' /\ InterruptsType' /\ IntrType' /\ KstType' /\ KintType' /\ EnvType' /\ BadType'
    BY <1>1 DEF Post, Goto, StateTypes, MainType, SeType, ReqType, ListType, InterruptsType, IntrType, KstType, KintType, EnvType, BadType
  <2> QED
    BY <2>1, <2>2, <2>3 DEF StateTypes
<1>5. Grows
  BY <1>1 DEF Post, Goto, StateTypes, KstType, KernelRecs, Grows, Taken
<1>6. Becomes(t, "ended", wk[t].m, wk[t].intr, wk[t].stale, wk[t].peer, wk[t].d)
  <2>1. wk'[t] = w /\ \A u \in Worker \ {t} : wk'[u] = wk[u]
    BY <1>1, <1>2 DEF StateTypes, WkType
  <2>2. /\ w.pc = "ended" /\ w.m = wk[t].m /\ w.intr = wk[t].intr
        /\ w.stale = wk[t].stale /\ w.peer = wk[t].peer /\ w.d = wk[t].d /\ w.forget = wk[t].forget
    BY <1>1 DEF WorkerRecs
  <2> HIDE DEF w
  <2> QED
    BY <2>1, <2>2 DEF Becomes
<1> HIDE DEF w
<1>8. WorkerOK(t)'
  BY <1>1, <1>5, <1>6, RequestsAssumption DEF Becomes, Post, Grows, Taken, StateTypes, ReqType, ReqRecs, KstType, WorkerOK, Carrying, Busy, Handling, Interrupting
<1> QED
  BY <1>4, <1>5, <1>6, <1>8, OneWorker DEF Becomes

LEMMA ProcessNoMemoryTypes ==
    ASSUME TypeInv, NEW t \in Worker, ProcessNoMemory(t)
    PROVE  /\ TypeInv'
           /\ Becomes(t, "done", wk[t].m, wk[t].intr, wk[t].stale, wk[t].peer, wk[t].d)
<1> DEFINE w == [wk[t] EXCEPT !.pc = "done"]
<1>1. StateTypes /\ WorkerOK(t) /\ wk[t] \in WorkerRecs
  BY DEF TypeInv, StateTypes, WkType
<1>2. wk' = [wk EXCEPT ![t] = w]
  BY <1>1 DEF ProcessNoMemory, Goto, Failure, Answered, StateTypes, WkType, WorkerRecs
<1>3. w \in WorkerRecs
  BY <1>1 DEF ProcessNoMemory, StateTypes, ReqType, ReqRecs, WorkerRecs, WorkerOK, PCs, Carrying, Busy, Handling, Interrupting
<1>4. StateTypes'
  <2>1. WkType'
    BY <1>1, <1>2, <1>3 DEF StateTypes, WkType
  <2>2. KstType'
    BY <1>1 DEF ProcessNoMemory, Goto, Failure, Answered, StateTypes, KstType, KernelRecs
  <2>3. KintType'
    BY <1>1 DEF ProcessNoMemory, Goto, Failure, Answered, StateTypes, KintType
  <2>4. EnvType'
    BY <1>1, FailureTypes DEF ProcessNoMemory, StateTypes
  <2>5. MtType' /\ MainType' /\ SeType' /\ ReqType' /\ ListType' /\ InterruptsType' /\ IntrType' /\ BadType'
    BY <1>1 DEF ProcessNoMemory, Goto, Failure, Answered, StateTypes, MtType, MainType, SeType, ReqType, ListType, InterruptsType, IntrType, BadType
  <2> QED
    BY <2>1, <2>2, <2>3, <2>4, <2>5 DEF StateTypes
<1>5. Grows
  BY <1>1 DEF ProcessNoMemory, Goto, Failure, Answered, StateTypes, KstType, KernelRecs, Grows, Taken
<1>6. Becomes(t, "done", wk[t].m, wk[t].intr, wk[t].stale, wk[t].peer, wk[t].d)
  <2>1. wk'[t] = w /\ \A u \in Worker \ {t} : wk'[u] = wk[u]
    BY <1>1, <1>2 DEF StateTypes, WkType
  <2>2. /\ w.pc = "done" /\ w.m = wk[t].m /\ w.intr = wk[t].intr
        /\ w.stale = wk[t].stale /\ w.peer = wk[t].peer /\ w.d = wk[t].d /\ w.forget = wk[t].forget
    BY <1>1 DEF WorkerRecs
  <2> HIDE DEF w
  <2> QED
    BY <2>1, <2>2 DEF Becomes
<1> HIDE DEF w
<1>8. WorkerOK(t)'
  BY <1>1, <1>5, <1>6, RequestsAssumption DEF Becomes, ProcessNoMemory, Grows, Taken, StateTypes, ReqType, ReqRecs, KstType, WorkerOK, Carrying, Busy, Handling, Interrupting
<1> QED
  BY <1>4, <1>5, <1>6, <1>8, OneWorker DEF Becomes

LEMMA ReplyStaleTypes ==
    ASSUME TypeInv, NEW t \in Worker, ReplyStale(t)
    PROVE  /\ TypeInv'
           /\ Becomes(t, Dispatch(kst[wk[t].m].op), wk[t].m, wk[t].intr, Null, wk[t].peer, wk[t].d)
<1> DEFINE w == [wk[t] EXCEPT !.pc = Dispatch(kst[wk[t].m].op), !.stale = Null]
<1>1. StateTypes /\ WorkerOK(t) /\ wk[t] \in WorkerRecs
  BY DEF TypeInv, StateTypes, WkType
<1>2. wk' = [wk EXCEPT ![t] = w]
  BY <1>1 DEF ReplyStale, TryAgain, StateTypes, WkType, WorkerRecs
<1>3. w \in WorkerRecs
  <2>1. Dispatch(kst[wk[t].m].op) \in PCs
    BY <1>1, Dispatches DEF ReplyStale, WorkerOK, PCs, Busy, Handling
  <2> QED
    BY <1>1, <2>1 DEF WorkerRecs
<1>4. StateTypes'
  <2>1. WkType'
    BY <1>1, <1>2, <1>3 DEF StateTypes, WkType
  <2>2. KintType'
    BY <1>1 DEF ReplyStale, TryAgain, StateTypes, KintType
  <2>3. IntrType'
    BY <1>1 DEF ReplyStale, TryAgain, StateTypes, IntrType
  <2>4. BadType'
    BY <1>1 DEF ReplyStale, TryAgain, StateTypes, BadType
  <2>5. MtType' /\ MainType' /\ SeType' /\ ReqType' /\ ListType' /\ InterruptsType' /\ KstType' /\ EnvType'
    BY <1>1 DEF ReplyStale, TryAgain, StateTypes, MtType, MainType, SeType, ReqType, ListType, InterruptsType, KstType, EnvType
  <2> QED
    BY <2>1, <2>2, <2>3, <2>4, <2>5 DEF StateTypes
<1>5. Grows
  BY <1>1 DEF ReplyStale, TryAgain, StateTypes, KstType, KernelRecs, Grows, Taken
<1>6. Becomes(t, Dispatch(kst[wk[t].m].op), wk[t].m, wk[t].intr, Null, wk[t].peer, wk[t].d)
  <2>1. wk'[t] = w /\ \A u \in Worker \ {t} : wk'[u] = wk[u]
    BY <1>1, <1>2 DEF StateTypes, WkType
  <2>2. /\ w.pc = Dispatch(kst[wk[t].m].op) /\ w.m = wk[t].m /\ w.intr = wk[t].intr
        /\ w.stale = Null /\ w.peer = wk[t].peer /\ w.d = wk[t].d /\ w.forget = wk[t].forget
    BY <1>1 DEF WorkerRecs
  <2> HIDE DEF w
  <2> QED
    BY <2>1, <2>2 DEF Becomes
<1> HIDE DEF w
<1>8. WorkerOK(t)'
  <2>1. Known(kst[wk[t].m].op)
    BY <1>1 DEF ReplyStale, WorkerOK
  <2> QED
    BY <1>1, <1>5, <1>6, <2>1, Dispatches DEF Becomes, ReplyStale, Grows, WorkerOK, Carrying, Busy, Handling, Interrupting
<1> QED
  BY <1>4, <1>5, <1>6, <1>8, OneWorker DEF Becomes

LEMMA do_initTypes ==
    ASSUME TypeInv, NEW t \in Worker, do_init(t)
    PROVE  /\ TypeInv'
           /\ Becomes(t, "reply", wk[t].m, wk[t].intr, wk[t].stale, wk[t].peer, wk[t].d)
<1> DEFINE w == [wk[t] EXCEPT !.pc = "reply"]
<1>1. StateTypes /\ WorkerOK(t) /\ wk[t] \in WorkerRecs
  BY DEF TypeInv, StateTypes, WkType
<1>2. wk' = [wk EXCEPT ![t] = w]
  BY <1>1 DEF do_init, Goto, StateTypes, WkType, WorkerRecs
<1>3. w \in WorkerRecs
  BY <1>1 DEF do_init, StateTypes, ReqType, ReqRecs, WorkerRecs, WorkerOK, PCs, Carrying, Busy, Handling, Interrupting
<1>4. StateTypes'
  <2>1. WkType'
    BY <1>1, <1>2, <1>3 DEF StateTypes, WkType
  <2>2. SeType'
    BY <1>1 DEF do_init, Goto, StateTypes, SeType, SessionRecs
  <2>3. MtType' /\ MainType' /\ ReqType' /\ ListType' /\ InterruptsType' /\ IntrType' /\ KstType' /\ KintType' /\ EnvType' /\ BadType'
    BY <1>1 DEF do_init, Goto, StateTypes, MtType, MainType, ReqType, ListType, InterruptsType, IntrType, KstType, KintType, EnvType, BadType
  <2> QED
    BY <2>1, <2>2, <2>3 DEF StateTypes
<1>5. Grows
  BY <1>1 DEF do_init, Goto, StateTypes, KstType, KernelRecs, Grows, Taken
<1>6. Becomes(t, "reply", wk[t].m, wk[t].intr, wk[t].stale, wk[t].peer, wk[t].d)
  <2>1. wk'[t] = w /\ \A u \in Worker \ {t} : wk'[u] = wk[u]
    BY <1>1, <1>2 DEF StateTypes, WkType
  <2>2. /\ w.pc = "reply" /\ w.m = wk[t].m /\ w.intr = wk[t].intr
        /\ w.stale = wk[t].stale /\ w.peer = wk[t].peer /\ w.d = wk[t].d /\ w.forget = wk[t].forget
    BY <1>1 DEF WorkerRecs
  <2> HIDE DEF w
  <2> QED
    BY <2>1, <2>2 DEF Becomes
<1> HIDE DEF w
<1>8. WorkerOK(t)'
  BY <1>1, <1>5, <1>6, RequestsAssumption DEF Becomes, do_init, Grows, Taken, StateTypes, ReqType, ReqRecs, KstType, WorkerOK, Carrying, Busy, Handling, Interrupting
<1> QED
  BY <1>4, <1>5, <1>6, <1>8, OneWorker DEF Becomes

LEMMA do_destroyTypes ==
    ASSUME TypeInv, NEW t \in Worker, do_destroy(t)
    PROVE  /\ TypeInv'
           /\ Becomes(t, "reply", wk[t].m, wk[t].intr, wk[t].stale, wk[t].peer, wk[t].d)
<1> DEFINE w == [wk[t] EXCEPT !.pc = "reply"]
<1>1. StateTypes /\ WorkerOK(t) /\ wk[t] \in WorkerRecs
  BY DEF TypeInv, StateTypes, WkType
<1>2. wk' = [wk EXCEPT ![t] = w]
  BY <1>1 DEF do_destroy, Goto, StateTypes, WkType, WorkerRecs
<1>3. w \in WorkerRecs
  BY <1>1 DEF do_destroy, StateTypes, ReqType, ReqRecs, WorkerRecs, WorkerOK, PCs, Carrying, Busy, Handling, Interrupting
<1>4. StateTypes'
  <2>1. WkType'
    BY <1>1, <1>2, <1>3 DEF StateTypes, WkType
  <2>2. SeType'
    <3>1. se.destroys + 1 \in Int
      BY <1>1 DEF StateTypes, SeType, SessionRecs
    <3>2. se' = [se EXCEPT !.got_destroy = TRUE, !.destroys = se.destroys + 1]
      BY DEF do_destroy
    <3> QED
      BY <1>1, <3>1, <3>2 DEF StateTypes, SeType, SessionRecs
  <2>3. MtType' /\ MainType' /\ ReqType' /\ ListType' /\ InterruptsType' /\ IntrType' /\ KstType' /\ KintType' /\ EnvType' /\ BadType'
    BY <1>1 DEF do_destroy, Goto, StateTypes, MtType, MainType, ReqType, ListType, InterruptsType, IntrType, KstType, KintType, EnvType, BadType
  <2> QED
    BY <2>1, <2>2, <2>3 DEF StateTypes
<1>5. Grows
  BY <1>1 DEF do_destroy, Goto, StateTypes, KstType, KernelRecs, Grows, Taken
<1>6. Becomes(t, "reply", wk[t].m, wk[t].intr, wk[t].stale, wk[t].peer, wk[t].d)
  <2>1. wk'[t] = w /\ \A u \in Worker \ {t} : wk'[u] = wk[u]
    BY <1>1, <1>2 DEF StateTypes, WkType
  <2>2. /\ w.pc = "reply" /\ w.m = wk[t].m /\ w.intr = wk[t].intr
        /\ w.stale = wk[t].stale /\ w.peer = wk[t].peer /\ w.d = wk[t].d /\ w.forget = wk[t].forget
    BY <1>1 DEF WorkerRecs
  <2> HIDE DEF w
  <2> QED
    BY <2>1, <2>2 DEF Becomes
<1> HIDE DEF w
<1>8. WorkerOK(t)'
  BY <1>1, <1>5, <1>6, RequestsAssumption DEF Becomes, do_destroy, Grows, Taken, StateTypes, ReqType, ReqRecs, KstType, WorkerOK, Carrying, Busy, Handling, Interrupting
<1> QED
  BY <1>4, <1>5, <1>6, <1>8, OneWorker DEF Becomes

LEMMA PrepareInterruptTypes ==
    ASSUME TypeInv, NEW t \in Worker, PrepareInterrupt(t)
    PROVE  /\ TypeInv'
           /\ Becomes(t, "callback", wk[t].m, wk[t].intr, wk[t].stale, wk[t].peer, "running")
           /\ ReqBecomes(wk[t].m, req[wk[t].m].live, req[wk[t].m].ctr, req[wk[t].m].interrupted, t, req[wk[t].m].lock)
<1> DEFINE w == [wk[t] EXCEPT !.pc = "callback", !.d = "running", !.signalled = FALSE]
           q == [req[wk[t].m] EXCEPT !.func = t]
<1>1. StateTypes /\ WorkerOK(t) /\ wk[t] \in WorkerRecs
  BY DEF TypeInv, StateTypes, WkType
<1>0. /\ wk[t].m \in Request /\ req[wk[t].m] \in ReqRecs /\ q \in ReqRecs
      /\ req' = [req EXCEPT ![wk[t].m] = q]
  <2>1. wk[t].m \in Request /\ req[wk[t].m] \in ReqRecs
    BY <1>1 DEF PrepareInterrupt, StateTypes, ReqType, WorkerOK, Carrying, Busy, Handling, Interrupting
  <2>2. req' = [req EXCEPT ![wk[t].m] = q]
    BY <1>1, <2>1 DEF PrepareInterrupt, fuse_req_interrupt_func, Use, StateTypes, ReqType, ReqRecs
  <2>3. req[wk[t].m].ctr \in Int /\ req[wk[t].m].ctr - 1 \in Int /\ (req[wk[t].m].ctr > 1) \in BOOLEAN
    BY <2>1 DEF ReqRecs
  <2>4. q \in ReqRecs
    BY <2>1, <2>3 DEF ReqRecs
  <2> QED
    BY <2>1, <2>2, <2>4
<1>2. wk' = [wk EXCEPT ![t] = w]
  BY <1>1 DEF PrepareInterrupt, fuse_req_interrupt_func, Use, StateTypes, WkType, WorkerRecs
<1>3. w \in WorkerRecs
  BY <1>1 DEF PrepareInterrupt, StateTypes, ReqType, ReqRecs, WorkerRecs, WorkerOK, PCs, Carrying, Busy, Handling, Interrupting
<1>4. StateTypes'
  <2>1. WkType'
    BY <1>1, <1>2, <1>3 DEF StateTypes, WkType
  <2>2. ReqType'
    BY <1>0, <1>1 DEF StateTypes, ReqType
  <2>3. BadType'
    BY <1>1 DEF PrepareInterrupt, fuse_req_interrupt_func, Use, StateTypes, BadType
  <2>4. MtType' /\ MainType' /\ SeType' /\ ListType' /\ InterruptsType' /\ IntrType' /\ KstType' /\ KintType' /\ EnvType'
    BY <1>1 DEF PrepareInterrupt, fuse_req_interrupt_func, Use, StateTypes, MtType, MainType, SeType, ListType, InterruptsType, IntrType, KstType, KintType, EnvType
  <2> QED
    BY <2>1, <2>2, <2>3, <2>4 DEF StateTypes
<1>5. Grows
  BY <1>1 DEF PrepareInterrupt, fuse_req_interrupt_func, Use, StateTypes, KstType, KernelRecs, Grows, Taken
<1>6. Becomes(t, "callback", wk[t].m, wk[t].intr, wk[t].stale, wk[t].peer, "running")
  <2>1. wk'[t] = w /\ \A u \in Worker \ {t} : wk'[u] = wk[u]
    BY <1>1, <1>2 DEF StateTypes, WkType
  <2>2. /\ w.pc = "callback" /\ w.m = wk[t].m /\ w.intr = wk[t].intr
        /\ w.stale = wk[t].stale /\ w.peer = wk[t].peer /\ w.d = "running" /\ w.forget = wk[t].forget
    BY <1>1 DEF WorkerRecs
  <2> HIDE DEF w
  <2> QED
    BY <2>1, <2>2 DEF Becomes
<1>7. ReqBecomes(wk[t].m, req[wk[t].m].live, req[wk[t].m].ctr, req[wk[t].m].interrupted, t, req[wk[t].m].lock)
  <2>1. req'[wk[t].m] = q /\ \A r \in Request \ {wk[t].m} : req'[r] = req[r]
    BY <1>0, <1>1 DEF StateTypes, ReqType
  <2>2. /\ q.live = req[wk[t].m].live /\ q.ctr = req[wk[t].m].ctr
        /\ q.interrupted = req[wk[t].m].interrupted /\ q.func = t /\ q.lock = req[wk[t].m].lock
    BY <1>0 DEF ReqRecs
  <2> HIDE DEF q
  <2> QED
    BY <2>1, <2>2 DEF ReqBecomes
<1> HIDE DEF w, q
<1>8. WorkerOK(t)'
  BY <1>1, <1>5, <1>6, RequestsAssumption DEF Becomes, PrepareInterrupt, Grows, Taken, StateTypes, ReqType, ReqRecs, KstType, WorkerOK, Carrying, Busy, Handling, Interrupting
<1> QED
  BY <1>4, <1>5, <1>6, <1>8, OneWorker, <1>7 DEF Becomes

LEMMA CallbackReturnsTypes ==
    ASSUME TypeInv, NEW t \in Worker, CallbackReturns(t)
    PROVE  /\ TypeInv'
           /\ Becomes(t, IF Intr THEN "unset" ELSE "reply", wk[t].m, wk[t].intr, wk[t].stale, wk[t].peer, IF Intr THEN "finished" ELSE wk[t].d)
<1> DEFINE w == IF Intr THEN [wk[t] EXCEPT !.pc = "unset", !.d = "finished"]
                 ELSE [wk[t] EXCEPT !.pc = "reply"]
<1>1. StateTypes /\ WorkerOK(t) /\ wk[t] \in WorkerRecs
  BY DEF TypeInv, StateTypes, WkType
<1>2. wk' = [wk EXCEPT ![t] = w]
  BY <1>1 DEF CallbackReturns, StateTypes, WkType, WorkerRecs
<1>3. w \in WorkerRecs
  BY <1>1 DEF CallbackReturns, StateTypes, ReqType, ReqRecs, WorkerRecs, WorkerOK, PCs, Carrying, Busy, Handling, Interrupting
<1>4. StateTypes'
  <2>1. WkType'
    BY <1>1, <1>2, <1>3 DEF StateTypes, WkType
  <2>2. MtType' /\ MainType' /\ SeType' /\ ReqType' /\ ListType' /\ InterruptsType' /\ IntrType' /\ KstType' /\ KintType' /\ EnvType' /\ BadType'
    BY <1>1 DEF CallbackReturns, StateTypes, MtType, MainType, SeType, ReqType, ListType, InterruptsType, IntrType, KstType, KintType, EnvType, BadType
  <2> QED
    BY <2>1, <2>2 DEF StateTypes
<1>5. Grows
  BY <1>1 DEF CallbackReturns, StateTypes, KstType, KernelRecs, Grows, Taken
<1>6. Becomes(t, IF Intr THEN "unset" ELSE "reply", wk[t].m, wk[t].intr, wk[t].stale, wk[t].peer, IF Intr THEN "finished" ELSE wk[t].d)
  <2>1. wk'[t] = w /\ \A u \in Worker \ {t} : wk'[u] = wk[u]
    BY <1>1, <1>2 DEF StateTypes, WkType
  <2>2. /\ w.pc = (IF Intr THEN "unset" ELSE "reply") /\ w.m = wk[t].m /\ w.intr = wk[t].intr
        /\ w.stale = wk[t].stale /\ w.peer = wk[t].peer /\ w.d = (IF Intr THEN "finished" ELSE wk[t].d) /\ w.forget = wk[t].forget
    BY <1>1 DEF WorkerRecs
  <2> HIDE DEF w
  <2> QED
    BY <2>1, <2>2 DEF Becomes
<1> HIDE DEF w
<1>8. WorkerOK(t)'
  BY <1>1, <1>5, <1>6, RequestsAssumption DEF Becomes, CallbackReturns, Grows, Taken, StateTypes, ReqType, ReqRecs, KstType, WorkerOK, Carrying, Busy, Handling, Interrupting
<1> QED
  BY <1>4, <1>5, <1>6, <1>8, OneWorker DEF Becomes

LEMMA UnsetInterruptTypes ==
    ASSUME TypeInv, NEW t \in Worker, UnsetInterrupt(t)
    PROVE  /\ TypeInv'
           /\ Becomes(t, "reply", wk[t].m, wk[t].intr, wk[t].stale, wk[t].peer, "none")
           /\ ReqBecomes(wk[t].m, req[wk[t].m].live, req[wk[t].m].ctr, req[wk[t].m].interrupted, Null, req[wk[t].m].lock)
<1> DEFINE w == [wk[t] EXCEPT !.pc = "reply", !.d = "none"]
           q == [req[wk[t].m] EXCEPT !.func = Null]
<1>1. StateTypes /\ WorkerOK(t) /\ wk[t] \in WorkerRecs
  BY DEF TypeInv, StateTypes, WkType
<1>0. /\ wk[t].m \in Request /\ req[wk[t].m] \in ReqRecs /\ q \in ReqRecs
      /\ req' = [req EXCEPT ![wk[t].m] = q]
  <2>1. wk[t].m \in Request /\ req[wk[t].m] \in ReqRecs
    BY <1>1 DEF UnsetInterrupt, StateTypes, ReqType, WorkerOK, Carrying, Busy, Handling, Interrupting
  <2>2. req' = [req EXCEPT ![wk[t].m] = q]
    BY <1>1, <2>1 DEF UnsetInterrupt, fuse_req_interrupt_func, Use, StateTypes, ReqType, ReqRecs
  <2>3. req[wk[t].m].ctr \in Int /\ req[wk[t].m].ctr - 1 \in Int /\ (req[wk[t].m].ctr > 1) \in BOOLEAN
    BY <2>1 DEF ReqRecs
  <2>4. q \in ReqRecs
    BY <2>1, <2>3 DEF ReqRecs
  <2> QED
    BY <2>1, <2>2, <2>4
<1>2. wk' = [wk EXCEPT ![t] = w]
  BY <1>1 DEF UnsetInterrupt, fuse_req_interrupt_func, Use, StateTypes, WkType, WorkerRecs
<1>3. w \in WorkerRecs
  BY <1>1 DEF UnsetInterrupt, StateTypes, ReqType, ReqRecs, WorkerRecs, WorkerOK, PCs, Carrying, Busy, Handling, Interrupting
<1>4. StateTypes'
  <2>1. WkType'
    BY <1>1, <1>2, <1>3 DEF StateTypes, WkType
  <2>2. ReqType'
    BY <1>0, <1>1 DEF StateTypes, ReqType
  <2>3. BadType'
    BY <1>1 DEF UnsetInterrupt, fuse_req_interrupt_func, Use, StateTypes, BadType
  <2>4. MtType' /\ MainType' /\ SeType' /\ ListType' /\ InterruptsType' /\ IntrType' /\ KstType' /\ KintType' /\ EnvType'
    BY <1>1 DEF UnsetInterrupt, fuse_req_interrupt_func, Use, StateTypes, MtType, MainType, SeType, ListType, InterruptsType, IntrType, KstType, KintType, EnvType
  <2> QED
    BY <2>1, <2>2, <2>3, <2>4 DEF StateTypes
<1>5. Grows
  BY <1>1 DEF UnsetInterrupt, fuse_req_interrupt_func, Use, StateTypes, KstType, KernelRecs, Grows, Taken
<1>6. Becomes(t, "reply", wk[t].m, wk[t].intr, wk[t].stale, wk[t].peer, "none")
  <2>1. wk'[t] = w /\ \A u \in Worker \ {t} : wk'[u] = wk[u]
    BY <1>1, <1>2 DEF StateTypes, WkType
  <2>2. /\ w.pc = "reply" /\ w.m = wk[t].m /\ w.intr = wk[t].intr
        /\ w.stale = wk[t].stale /\ w.peer = wk[t].peer /\ w.d = "none" /\ w.forget = wk[t].forget
    BY <1>1 DEF WorkerRecs
  <2> HIDE DEF w
  <2> QED
    BY <2>1, <2>2 DEF Becomes
<1>7. ReqBecomes(wk[t].m, req[wk[t].m].live, req[wk[t].m].ctr, req[wk[t].m].interrupted, Null, req[wk[t].m].lock)
  <2>1. req'[wk[t].m] = q /\ \A r \in Request \ {wk[t].m} : req'[r] = req[r]
    BY <1>0, <1>1 DEF StateTypes, ReqType
  <2>2. /\ q.live = req[wk[t].m].live /\ q.ctr = req[wk[t].m].ctr
        /\ q.interrupted = req[wk[t].m].interrupted /\ q.func = Null /\ q.lock = req[wk[t].m].lock
    BY <1>0 DEF ReqRecs
  <2> HIDE DEF q
  <2> QED
    BY <2>1, <2>2 DEF ReqBecomes
<1> HIDE DEF w, q
<1>8. WorkerOK(t)'
  BY <1>1, <1>5, <1>6, RequestsAssumption DEF Becomes, UnsetInterrupt, Grows, Taken, StateTypes, ReqType, ReqRecs, KstType, WorkerOK, Carrying, Busy, Handling, Interrupting
<1> QED
  BY <1>4, <1>5, <1>6, <1>8, OneWorker, <1>7 DEF Becomes

LEMMA ReplyTypes ==
    ASSUME TypeInv, NEW t \in Worker, Reply(t)
    PROVE  /\ TypeInv'
           /\ Becomes(t, "free", wk[t].m, wk[t].intr, wk[t].stale, wk[t].peer, wk[t].d)
<1> DEFINE w == [wk[t] EXCEPT !.pc = "free"]
<1>1. StateTypes /\ WorkerOK(t) /\ wk[t] \in WorkerRecs
  BY DEF TypeInv, StateTypes, WkType
<1>2. wk' = [wk EXCEPT ![t] = w]
  BY <1>1 DEF Reply, Use, Answered, Goto, StateTypes, WkType, WorkerRecs
<1>3. w \in WorkerRecs
  BY <1>1 DEF Reply, StateTypes, ReqType, ReqRecs, WorkerRecs, WorkerOK, PCs, Carrying, Busy, Handling, Interrupting
<1>4. StateTypes'
  <2>1. WkType'
    BY <1>1, <1>2, <1>3 DEF StateTypes, WkType
  <2>2. KstType'
    BY <1>1 DEF Reply, Use, Answered, Goto, StateTypes, KstType, KernelRecs
  <2>3. KintType'
    BY <1>1 DEF Reply, Use, Answered, Goto, StateTypes, KintType
  <2>4. BadType'
    BY <1>1 DEF Reply, Use, Answered, Goto, StateTypes, BadType
  <2>5. MtType' /\ MainType' /\ SeType' /\ ReqType' /\ ListType' /\ InterruptsType' /\ IntrType' /\ EnvType'
    BY <1>1 DEF Reply, Use, Answered, Goto, StateTypes, MtType, MainType, SeType, ReqType, ListType, InterruptsType, IntrType, EnvType
  <2> QED
    BY <2>1, <2>2, <2>3, <2>4, <2>5 DEF StateTypes
<1>5. Grows
  BY <1>1 DEF Reply, Use, Answered, Goto, StateTypes, KstType, KernelRecs, Grows, Taken
<1>6. Becomes(t, "free", wk[t].m, wk[t].intr, wk[t].stale, wk[t].peer, wk[t].d)
  <2>1. wk'[t] = w /\ \A u \in Worker \ {t} : wk'[u] = wk[u]
    BY <1>1, <1>2 DEF StateTypes, WkType
  <2>2. /\ w.pc = "free" /\ w.m = wk[t].m /\ w.intr = wk[t].intr
        /\ w.stale = wk[t].stale /\ w.peer = wk[t].peer /\ w.d = wk[t].d /\ w.forget = wk[t].forget
    BY <1>1 DEF WorkerRecs
  <2> HIDE DEF w
  <2> QED
    BY <2>1, <2>2 DEF Becomes
<1> HIDE DEF w
<1>8. WorkerOK(t)'
  BY <1>1, <1>5, <1>6, RequestsAssumption DEF Becomes, Reply, Grows, Taken, StateTypes, ReqType, ReqRecs, KstType, WorkerOK, Carrying, Busy, Handling, Interrupting
<1> QED
  BY <1>4, <1>5, <1>6, <1>8, OneWorker DEF Becomes

LEMMA fuse_free_reqTypes ==
    ASSUME TypeInv, IsInjective(list), NEW t \in Worker, fuse_free_req(t)
    PROVE  /\ TypeInv'
           /\ Becomes(t, "done", wk[t].m, wk[t].intr, wk[t].stale, wk[t].peer, wk[t].d)
           /\ ReqBecomes(wk[t].m, (req[wk[t].m].ctr > 1), req[wk[t].m].ctr - 1, req[wk[t].m].interrupted, Null, req[wk[t].m].lock)
<1> DEFINE w == [wk[t] EXCEPT !.pc = "done"]
           q == [req[wk[t].m] EXCEPT !.func = Null, !.ctr = @ - 1,
                              !.live = req[wk[t].m].ctr > 1]
<1>1. StateTypes /\ WorkerOK(t) /\ wk[t] \in WorkerRecs
  BY DEF TypeInv, StateTypes, WkType
<1>0. /\ wk[t].m \in Request /\ req[wk[t].m] \in ReqRecs /\ q \in ReqRecs
      /\ req' = [req EXCEPT ![wk[t].m] = q]
  <2>1. wk[t].m \in Request /\ req[wk[t].m] \in ReqRecs
    BY <1>1 DEF fuse_free_req, StateTypes, ReqType, WorkerOK, Carrying, Busy, Handling, Interrupting
  <2>2. req' = [req EXCEPT ![wk[t].m] = q]
    BY <1>1, <2>1 DEF fuse_free_req, Use, Deref, Goto, StateTypes, ReqType, ReqRecs
  <2>3. req[wk[t].m].ctr \in Int /\ req[wk[t].m].ctr - 1 \in Int /\ (req[wk[t].m].ctr > 1) \in BOOLEAN
    BY <2>1 DEF ReqRecs
  <2>4. q \in ReqRecs
    BY <2>1, <2>3 DEF ReqRecs
  <2> QED
    BY <2>1, <2>2, <2>4
<1>2. wk' = [wk EXCEPT ![t] = w]
  BY <1>1 DEF fuse_free_req, Use, Deref, Goto, StateTypes, WkType, WorkerRecs
<1>3. w \in WorkerRecs
  BY <1>1 DEF fuse_free_req, StateTypes, ReqType, ReqRecs, WorkerRecs, WorkerOK, PCs, Carrying, Busy, Handling, Interrupting
<1>4. StateTypes'
  <2>1. WkType'
    BY <1>1, <1>2, <1>3 DEF StateTypes, WkType
  <2>2. ReqType'
    BY <1>0, <1>1 DEF StateTypes, ReqType
  <2>3. ListType'
    BY <1>1, UnlinkElement DEF fuse_free_req, StateTypes, ListType
  <2>4. BadType'
    BY <1>1 DEF fuse_free_req, Use, Deref, Goto, StateTypes, BadType
  <2>5. MtType' /\ MainType' /\ SeType' /\ InterruptsType' /\ IntrType' /\ KstType' /\ KintType' /\ EnvType'
    BY <1>1 DEF fuse_free_req, Use, Deref, Goto, StateTypes, MtType, MainType, SeType, InterruptsType, IntrType, KstType, KintType, EnvType
  <2> QED
    BY <2>1, <2>2, <2>3, <2>4, <2>5 DEF StateTypes
<1>5. Grows
  BY <1>1 DEF fuse_free_req, Use, Deref, Goto, StateTypes, KstType, KernelRecs, Grows, Taken
<1>6. Becomes(t, "done", wk[t].m, wk[t].intr, wk[t].stale, wk[t].peer, wk[t].d)
  <2>1. wk'[t] = w /\ \A u \in Worker \ {t} : wk'[u] = wk[u]
    BY <1>1, <1>2 DEF StateTypes, WkType
  <2>2. /\ w.pc = "done" /\ w.m = wk[t].m /\ w.intr = wk[t].intr
        /\ w.stale = wk[t].stale /\ w.peer = wk[t].peer /\ w.d = wk[t].d /\ w.forget = wk[t].forget
    BY <1>1 DEF WorkerRecs
  <2> HIDE DEF w
  <2> QED
    BY <2>1, <2>2 DEF Becomes
<1>7. ReqBecomes(wk[t].m, (req[wk[t].m].ctr > 1), req[wk[t].m].ctr - 1, req[wk[t].m].interrupted, Null, req[wk[t].m].lock)
  <2>1. req'[wk[t].m] = q /\ \A r \in Request \ {wk[t].m} : req'[r] = req[r]
    BY <1>0, <1>1 DEF StateTypes, ReqType
  <2>2. /\ q.live = (req[wk[t].m].ctr > 1) /\ q.ctr = req[wk[t].m].ctr - 1
        /\ q.interrupted = req[wk[t].m].interrupted /\ q.func = Null /\ q.lock = req[wk[t].m].lock
    BY <1>0 DEF ReqRecs
  <2> HIDE DEF q
  <2> QED
    BY <2>1, <2>2 DEF ReqBecomes
<1> HIDE DEF w, q
<1>8. WorkerOK(t)'
  BY <1>1, <1>5, <1>6, RequestsAssumption DEF Becomes, fuse_free_req, Grows, Taken, StateTypes, ReqType, ReqRecs, KstType, WorkerOK, Carrying, Busy, Handling, Interrupting
<1> QED
  BY <1>4, <1>5, <1>6, <1>8, OneWorker, <1>7 DEF Becomes

LEMMA do_interruptTypes ==
    ASSUME TypeInv, NEW t \in Worker, do_interrupt(t)
    PROVE  /\ TypeInv'
           /\ Becomes(t, IF wk[t].m \in ToSet(list) THEN "lock" ELSE "done", wk[t].m, wk[t].intr, wk[t].stale, wk[t].peer, wk[t].d)
           /\ ReqBecomes(wk[t].m, req[wk[t].m].live, IF wk[t].m \in ToSet(list) THEN req[wk[t].m].ctr + 1 ELSE req[wk[t].m].ctr, req[wk[t].m].interrupted, req[wk[t].m].func, req[wk[t].m].lock)
<1> DEFINE w == [wk[t] EXCEPT !.pc = IF \E i \in DOMAIN list : list[i] = wk[t].m THEN "lock" ELSE "done"]
           q == IF \E i \in DOMAIN list : list[i] = wk[t].m
                    THEN [req[wk[t].m] EXCEPT !.ctr = @ + 1] ELSE req[wk[t].m]
<1>1. StateTypes /\ WorkerOK(t) /\ wk[t] \in WorkerRecs
  BY DEF TypeInv, StateTypes, WkType
<1>0. /\ wk[t].m \in Request /\ req[wk[t].m] \in ReqRecs /\ q \in ReqRecs
      /\ req' = [req EXCEPT ![wk[t].m] = q]
  <2>1. wk[t].m \in Request /\ req[wk[t].m] \in ReqRecs
    BY <1>1 DEF do_interrupt, StateTypes, ReqType, WorkerOK, Carrying, Busy, Handling, Interrupting
  <2>2. req' = [req EXCEPT ![wk[t].m] = q]
    BY <1>1, <2>1 DEF do_interrupt, Goto, StateTypes, ReqType, ReqRecs
  <2>3. req[wk[t].m].ctr \in Int /\ req[wk[t].m].ctr - 1 \in Int /\ (req[wk[t].m].ctr > 1) \in BOOLEAN
    BY <2>1 DEF ReqRecs
  <2>4. q \in ReqRecs
    BY <2>1, <2>3 DEF ReqRecs
  <2> QED
    BY <2>1, <2>2, <2>4
<1>2. wk' = [wk EXCEPT ![t] = w]
  BY <1>1 DEF do_interrupt, Goto, StateTypes, WkType, WorkerRecs
<1>3. w \in WorkerRecs
  BY <1>1 DEF do_interrupt, StateTypes, ReqType, ReqRecs, WorkerRecs, WorkerOK, PCs, Carrying, Busy, Handling, Interrupting
<1>4. StateTypes'
  <2>1. WkType'
    BY <1>1, <1>2, <1>3 DEF StateTypes, WkType
  <2>2. ReqType'
    BY <1>0, <1>1 DEF StateTypes, ReqType
  <2>3. IntrType'
    BY <1>1 DEF do_interrupt, Goto, StateTypes, IntrType
  <2>4. InterruptsType'
    <3>1. wk[t].m \in Request
      BY <1>0
    <3>2. Append(interrupts, wk[t].m) \in Seq(Request)
      BY <3>1, <1>1, AppendElement DEF StateTypes, InterruptsType
    <3> QED
      BY <1>1, <3>2 DEF do_interrupt, StateTypes, InterruptsType
  <2>5. MtType' /\ MainType' /\ SeType' /\ ListType' /\ KstType' /\ KintType' /\ EnvType' /\ BadType'
    BY <1>1 DEF do_interrupt, Goto, StateTypes, MtType, MainType, SeType, ListType, KstType, KintType, EnvType, BadType
  <2> QED
    BY <2>1, <2>2, <2>3, <2>4, <2>5 DEF StateTypes
<1>5. Grows
  BY <1>1 DEF do_interrupt, Goto, StateTypes, KstType, KernelRecs, Grows, Taken
<1>6. Becomes(t, IF wk[t].m \in ToSet(list) THEN "lock" ELSE "done", wk[t].m, wk[t].intr, wk[t].stale, wk[t].peer, wk[t].d)
  <2>1. wk'[t] = w /\ \A u \in Worker \ {t} : wk'[u] = wk[u]
    BY <1>1, <1>2 DEF StateTypes, WkType
  <2>2. /\ w.pc = (IF wk[t].m \in ToSet(list) THEN "lock" ELSE "done") /\ w.m = wk[t].m /\ w.intr = wk[t].intr
        /\ w.stale = wk[t].stale /\ w.peer = wk[t].peer /\ w.d = wk[t].d /\ w.forget = wk[t].forget
    BY <1>1 DEF WorkerRecs, ToSet
  <2> HIDE DEF w
  <2> QED
    BY <2>1, <2>2 DEF Becomes
<1>7. ReqBecomes(wk[t].m, req[wk[t].m].live, IF wk[t].m \in ToSet(list) THEN req[wk[t].m].ctr + 1 ELSE req[wk[t].m].ctr, req[wk[t].m].interrupted, req[wk[t].m].func, req[wk[t].m].lock)
  <2>1. req'[wk[t].m] = q /\ \A r \in Request \ {wk[t].m} : req'[r] = req[r]
    BY <1>0, <1>1 DEF StateTypes, ReqType
  <2>2. /\ q.live = req[wk[t].m].live /\ q.ctr = (IF wk[t].m \in ToSet(list) THEN req[wk[t].m].ctr + 1 ELSE req[wk[t].m].ctr)
        /\ q.interrupted = req[wk[t].m].interrupted /\ q.func = req[wk[t].m].func /\ q.lock = req[wk[t].m].lock
    BY <1>0 DEF ReqRecs, ToSet
  <2> HIDE DEF q
  <2> QED
    BY <2>1, <2>2 DEF ReqBecomes
<1> HIDE DEF w, q
<1>8. WorkerOK(t)'
  BY <1>1, <1>5, <1>6, RequestsAssumption DEF Becomes, do_interrupt, Grows, Taken, StateTypes, ReqType, ReqRecs, KstType, WorkerOK, Carrying, Busy, Handling, Interrupting
<1> QED
  BY <1>4, <1>5, <1>6, <1>8, OneWorker, <1>7 DEF Becomes

LEMMA LockInterruptedTypes ==
    ASSUME TypeInv, NEW t \in Worker, LockInterrupted(t)
    PROVE  /\ TypeInv'
           /\ Becomes(t, IF req[wk[t].m].func = Null THEN "unlock" ELSE "signal", wk[t].m, wk[t].intr, wk[t].stale, req[wk[t].m].func, wk[t].d)
           /\ ReqBecomes(wk[t].m, req[wk[t].m].live, req[wk[t].m].ctr, TRUE, req[wk[t].m].func, t)
<1> DEFINE w == [wk[t] EXCEPT !.pc = IF req[wk[t].m].func = Null THEN "unlock" ELSE "signal",
                          !.peer = req[wk[t].m].func]
           q == [req[wk[t].m] EXCEPT !.lock = t, !.interrupted = TRUE]
<1>1. StateTypes /\ WorkerOK(t) /\ wk[t] \in WorkerRecs
  BY DEF TypeInv, StateTypes, WkType
<1>0. /\ wk[t].m \in Request /\ req[wk[t].m] \in ReqRecs /\ q \in ReqRecs
      /\ req' = [req EXCEPT ![wk[t].m] = q]
  <2>1. wk[t].m \in Request /\ req[wk[t].m] \in ReqRecs
    BY <1>1 DEF LockInterrupted, StateTypes, ReqType, WorkerOK, Carrying, Busy, Handling, Interrupting
  <2>2. req' = [req EXCEPT ![wk[t].m] = q]
    BY <1>1, <2>1 DEF LockInterrupted, Use, StateTypes, ReqType, ReqRecs
  <2>3. req[wk[t].m].ctr \in Int /\ req[wk[t].m].ctr - 1 \in Int /\ (req[wk[t].m].ctr > 1) \in BOOLEAN
    BY <2>1 DEF ReqRecs
  <2>4. q \in ReqRecs
    BY <2>1, <2>3 DEF ReqRecs
  <2> QED
    BY <2>1, <2>2, <2>4
<1>2. wk' = [wk EXCEPT ![t] = w]
  BY <1>1 DEF LockInterrupted, Use, StateTypes, WkType, WorkerRecs
<1>3. w \in WorkerRecs
  BY <1>1, ZenonT(30) DEF LockInterrupted, StateTypes, ReqType, ReqRecs, WorkerRecs, WorkerOK, PCs, Carrying, Busy, Handling, Interrupting
<1>4. StateTypes'
  <2>1. WkType'
    BY <1>1, <1>2, <1>3 DEF StateTypes, WkType
  <2>2. ReqType'
    BY <1>0, <1>1 DEF StateTypes, ReqType
  <2>3. BadType'
    BY <1>1 DEF LockInterrupted, Use, StateTypes, BadType
  <2>4. MtType' /\ MainType' /\ SeType' /\ ListType' /\ InterruptsType' /\ IntrType' /\ KstType' /\ KintType' /\ EnvType'
    BY <1>1 DEF LockInterrupted, Use, StateTypes, MtType, MainType, SeType, ListType, InterruptsType, IntrType, KstType, KintType, EnvType
  <2> QED
    BY <2>1, <2>2, <2>3, <2>4 DEF StateTypes
<1>5. Grows
  BY <1>1 DEF LockInterrupted, Use, StateTypes, KstType, KernelRecs, Grows, Taken
<1>6. Becomes(t, IF req[wk[t].m].func = Null THEN "unlock" ELSE "signal", wk[t].m, wk[t].intr, wk[t].stale, req[wk[t].m].func, wk[t].d)
  <2>1. wk'[t] = w /\ \A u \in Worker \ {t} : wk'[u] = wk[u]
    BY <1>1, <1>2 DEF StateTypes, WkType
  <2>2. /\ w.pc = (IF req[wk[t].m].func = Null THEN "unlock" ELSE "signal") /\ w.m = wk[t].m /\ w.intr = wk[t].intr
        /\ w.stale = wk[t].stale /\ w.peer = req[wk[t].m].func /\ w.d = wk[t].d /\ w.forget = wk[t].forget
    BY <1>1 DEF WorkerRecs
  <2> HIDE DEF w
  <2> QED
    BY <2>1, <2>2 DEF Becomes
<1>7. ReqBecomes(wk[t].m, req[wk[t].m].live, req[wk[t].m].ctr, TRUE, req[wk[t].m].func, t)
  <2>1. req'[wk[t].m] = q /\ \A r \in Request \ {wk[t].m} : req'[r] = req[r]
    BY <1>0, <1>1 DEF StateTypes, ReqType
  <2>2. /\ q.live = req[wk[t].m].live /\ q.ctr = req[wk[t].m].ctr
        /\ q.interrupted = TRUE /\ q.func = req[wk[t].m].func /\ q.lock = t
    BY <1>0 DEF ReqRecs
  <2> HIDE DEF q
  <2> QED
    BY <2>1, <2>2 DEF ReqBecomes
<1> HIDE DEF w, q
<1>8. WorkerOK(t)'
  <2>1. wk[t].pc = "lock" /\ wk[t].m \in Request /\ Taken(wk[t].m) /\ wk[t].intr /\ wk[t].stale = Null
    BY <1>1 DEF LockInterrupted, WorkerOK, Carrying, Busy, Handling, Interrupting
  <2>2. kst'[wk[t].m].st \in {"sent", "answered"}
    BY <1>5, <2>1 DEF Grows, Taken
  <2>3. req[wk[t].m].func \in Worker \cup {Null}
    BY <1>1, <2>1 DEF StateTypes, ReqType, ReqRecs
  <2>4. /\ wk'[t].pc \in {"unlock", "signal"} /\ (wk'[t].pc = "signal" => wk'[t].peer \in Worker)
        /\ wk'[t].m = wk[t].m /\ wk'[t].intr = wk[t].intr /\ wk'[t].stale = wk[t].stale
    BY <1>6, <2>3 DEF Becomes
  <2>5. Taken(wk[t].m)'
    BY <2>2, <2>4 DEF Taken
  <2> QED
    BY <2>1, <2>4, <2>5 DEF WorkerOK, Carrying, Busy, Handling, Interrupting
<1> QED
  BY <1>4, <1>5, <1>6, <1>8, OneWorker, <1>7 DEF Becomes

LEMMA UnlockInterruptedTypes ==
    ASSUME TypeInv, NEW t \in Worker, UnlockInterrupted(t)
    PROVE  /\ TypeInv'
           /\ Becomes(t, "unref", wk[t].m, wk[t].intr, wk[t].stale, Null, wk[t].d)
           /\ ReqBecomes(wk[t].m, req[wk[t].m].live, req[wk[t].m].ctr, req[wk[t].m].interrupted, req[wk[t].m].func, Null)
<1> DEFINE w == [wk[t] EXCEPT !.pc = "unref", !.peer = Null]
           q == [req[wk[t].m] EXCEPT !.lock = Null]
<1>1. StateTypes /\ WorkerOK(t) /\ wk[t] \in WorkerRecs
  BY DEF TypeInv, StateTypes, WkType
<1>0. /\ wk[t].m \in Request /\ req[wk[t].m] \in ReqRecs /\ q \in ReqRecs
      /\ req' = [req EXCEPT ![wk[t].m] = q]
  <2>1. wk[t].m \in Request /\ req[wk[t].m] \in ReqRecs
    BY <1>1 DEF UnlockInterrupted, StateTypes, ReqType, WorkerOK, Carrying, Busy, Handling, Interrupting
  <2>2. req' = [req EXCEPT ![wk[t].m] = q]
    BY <1>1, <2>1 DEF UnlockInterrupted, Use, StateTypes, ReqType, ReqRecs
  <2>3. req[wk[t].m].ctr \in Int /\ req[wk[t].m].ctr - 1 \in Int /\ (req[wk[t].m].ctr > 1) \in BOOLEAN
    BY <2>1 DEF ReqRecs
  <2>4. q \in ReqRecs
    BY <2>1, <2>3 DEF ReqRecs
  <2> QED
    BY <2>1, <2>2, <2>4
<1>2. wk' = [wk EXCEPT ![t] = w]
  BY <1>1 DEF UnlockInterrupted, Use, StateTypes, WkType, WorkerRecs
<1>3. w \in WorkerRecs
  BY <1>1 DEF UnlockInterrupted, StateTypes, ReqType, ReqRecs, WorkerRecs, WorkerOK, PCs, Carrying, Busy, Handling, Interrupting
<1>4. StateTypes'
  <2>1. WkType'
    BY <1>1, <1>2, <1>3 DEF StateTypes, WkType
  <2>2. ReqType'
    BY <1>0, <1>1 DEF StateTypes, ReqType
  <2>3. BadType'
    BY <1>1 DEF UnlockInterrupted, Use, StateTypes, BadType
  <2>4. MtType' /\ MainType' /\ SeType' /\ ListType' /\ InterruptsType' /\ IntrType' /\ KstType' /\ KintType' /\ EnvType'
    BY <1>1 DEF UnlockInterrupted, Use, StateTypes, MtType, MainType, SeType, ListType, InterruptsType, IntrType, KstType, KintType, EnvType
  <2> QED
    BY <2>1, <2>2, <2>3, <2>4 DEF StateTypes
<1>5. Grows
  BY <1>1 DEF UnlockInterrupted, Use, StateTypes, KstType, KernelRecs, Grows, Taken
<1>6. Becomes(t, "unref", wk[t].m, wk[t].intr, wk[t].stale, Null, wk[t].d)
  <2>1. wk'[t] = w /\ \A u \in Worker \ {t} : wk'[u] = wk[u]
    BY <1>1, <1>2 DEF StateTypes, WkType
  <2>2. /\ w.pc = "unref" /\ w.m = wk[t].m /\ w.intr = wk[t].intr
        /\ w.stale = wk[t].stale /\ w.peer = Null /\ w.d = wk[t].d /\ w.forget = wk[t].forget
    BY <1>1 DEF WorkerRecs
  <2> HIDE DEF w
  <2> QED
    BY <2>1, <2>2 DEF Becomes
<1>7. ReqBecomes(wk[t].m, req[wk[t].m].live, req[wk[t].m].ctr, req[wk[t].m].interrupted, req[wk[t].m].func, Null)
  <2>1. req'[wk[t].m] = q /\ \A r \in Request \ {wk[t].m} : req'[r] = req[r]
    BY <1>0, <1>1 DEF StateTypes, ReqType
  <2>2. /\ q.live = req[wk[t].m].live /\ q.ctr = req[wk[t].m].ctr
        /\ q.interrupted = req[wk[t].m].interrupted /\ q.func = req[wk[t].m].func /\ q.lock = Null
    BY <1>0 DEF ReqRecs
  <2> HIDE DEF q
  <2> QED
    BY <2>1, <2>2 DEF ReqBecomes
<1> HIDE DEF w, q
<1>8. WorkerOK(t)'
  BY <1>1, <1>5, <1>6, RequestsAssumption DEF Becomes, UnlockInterrupted, Grows, Taken, StateTypes, ReqType, ReqRecs, KstType, WorkerOK, Carrying, Busy, Handling, Interrupting
<1> QED
  BY <1>4, <1>5, <1>6, <1>8, OneWorker, <1>7 DEF Becomes

LEMMA UnrefInterruptedTypes ==
    ASSUME TypeInv, NEW t \in Worker, UnrefInterrupted(t)
    PROVE  /\ TypeInv'
           /\ Becomes(t, "done", wk[t].m, wk[t].intr, wk[t].stale, wk[t].peer, wk[t].d)
           /\ ReqBecomes(wk[t].m, (req[wk[t].m].ctr > 1), req[wk[t].m].ctr - 1, req[wk[t].m].interrupted, req[wk[t].m].func, req[wk[t].m].lock)
<1> DEFINE w == [wk[t] EXCEPT !.pc = "done"]
           q == [req[wk[t].m] EXCEPT !.ctr = @ - 1, !.live = req[wk[t].m].ctr > 1]
<1>1. StateTypes /\ WorkerOK(t) /\ wk[t] \in WorkerRecs
  BY DEF TypeInv, StateTypes, WkType
<1>0. /\ wk[t].m \in Request /\ req[wk[t].m] \in ReqRecs /\ q \in ReqRecs
      /\ req' = [req EXCEPT ![wk[t].m] = q]
  <2>1. wk[t].m \in Request /\ req[wk[t].m] \in ReqRecs
    BY <1>1 DEF UnrefInterrupted, StateTypes, ReqType, WorkerOK, Carrying, Busy, Handling, Interrupting
  <2>2. req' = [req EXCEPT ![wk[t].m] = q]
    BY <1>1, <2>1 DEF UnrefInterrupted, Use, Deref, Goto, StateTypes, ReqType, ReqRecs
  <2>3. req[wk[t].m].ctr \in Int /\ req[wk[t].m].ctr - 1 \in Int /\ (req[wk[t].m].ctr > 1) \in BOOLEAN
    BY <2>1 DEF ReqRecs
  <2>4. q \in ReqRecs
    BY <2>1, <2>3 DEF ReqRecs
  <2> QED
    BY <2>1, <2>2, <2>4
<1>2. wk' = [wk EXCEPT ![t] = w]
  BY <1>1 DEF UnrefInterrupted, Use, Deref, Goto, StateTypes, WkType, WorkerRecs
<1>3. w \in WorkerRecs
  BY <1>1 DEF UnrefInterrupted, StateTypes, ReqType, ReqRecs, WorkerRecs, WorkerOK, PCs, Carrying, Busy, Handling, Interrupting
<1>4. StateTypes'
  <2>1. WkType'
    BY <1>1, <1>2, <1>3 DEF StateTypes, WkType
  <2>2. ReqType'
    BY <1>0, <1>1 DEF StateTypes, ReqType
  <2>3. IntrType'
    BY <1>1 DEF UnrefInterrupted, Use, Deref, Goto, StateTypes, IntrType
  <2>4. BadType'
    BY <1>1 DEF UnrefInterrupted, Use, Deref, Goto, StateTypes, BadType
  <2>5. MtType' /\ MainType' /\ SeType' /\ ListType' /\ InterruptsType' /\ KstType' /\ KintType' /\ EnvType'
    BY <1>1 DEF UnrefInterrupted, Use, Deref, Goto, StateTypes, MtType, MainType, SeType, ListType, InterruptsType, KstType, KintType, EnvType
  <2> QED
    BY <2>1, <2>2, <2>3, <2>4, <2>5 DEF StateTypes
<1>5. Grows
  BY <1>1 DEF UnrefInterrupted, Use, Deref, Goto, StateTypes, KstType, KernelRecs, Grows, Taken
<1>6. Becomes(t, "done", wk[t].m, wk[t].intr, wk[t].stale, wk[t].peer, wk[t].d)
  <2>1. wk'[t] = w /\ \A u \in Worker \ {t} : wk'[u] = wk[u]
    BY <1>1, <1>2 DEF StateTypes, WkType
  <2>2. /\ w.pc = "done" /\ w.m = wk[t].m /\ w.intr = wk[t].intr
        /\ w.stale = wk[t].stale /\ w.peer = wk[t].peer /\ w.d = wk[t].d /\ w.forget = wk[t].forget
    BY <1>1 DEF WorkerRecs
  <2> HIDE DEF w
  <2> QED
    BY <2>1, <2>2 DEF Becomes
<1>7. ReqBecomes(wk[t].m, (req[wk[t].m].ctr > 1), req[wk[t].m].ctr - 1, req[wk[t].m].interrupted, req[wk[t].m].func, req[wk[t].m].lock)
  <2>1. req'[wk[t].m] = q /\ \A r \in Request \ {wk[t].m} : req'[r] = req[r]
    BY <1>0, <1>1 DEF StateTypes, ReqType
  <2>2. /\ q.live = (req[wk[t].m].ctr > 1) /\ q.ctr = req[wk[t].m].ctr - 1
        /\ q.interrupted = req[wk[t].m].interrupted /\ q.func = req[wk[t].m].func /\ q.lock = req[wk[t].m].lock
    BY <1>0 DEF ReqRecs
  <2> HIDE DEF q
  <2> QED
    BY <2>1, <2>2 DEF ReqBecomes
<1> HIDE DEF w, q
<1>8. WorkerOK(t)'
  BY <1>1, <1>5, <1>6, RequestsAssumption DEF Becomes, UnrefInterrupted, Grows, Taken, StateTypes, ReqType, ReqRecs, KstType, WorkerOK, Carrying, Busy, Handling, Interrupting
<1> QED
  BY <1>4, <1>5, <1>6, <1>8, OneWorker, <1>7 DEF Becomes

\* The worker that fuse_loop_start_thread starts.
LEMMA StartTypes ==
    ASSUME StateTypes, NEW w \in [Worker -> WorkerRecs], NEW ok \in BOOLEAN, ok => Free # {}
    PROVE  LET s == fuse_loop_start_thread(w, ok)
           IN  /\ ~ok => s.mt = mt /\ s.wk = w
               /\ ok => \E u \in Free :
                    /\ s.mt = [mt EXCEPT !.list = Append(mt.list, u), !.numavail = mt.numavail + 1,
                                         !.numworker = mt.numworker + 1]
                    /\ s.wk = [w EXCEPT ![u] = [Idle EXCEPT !.pc = "loop"]]
<1>1. CASE ~ok
  BY <1>1 DEF fuse_loop_start_thread
<1>2. CASE ok
  <2> DEFINE u == CHOOSE u \in Free : TRUE
  <2>1. u \in Free
    BY <1>2
  <2>2. fuse_loop_start_thread(w, ok) =
          [mt |-> [mt EXCEPT !.list = Append(mt.list, u), !.numavail = mt.numavail + 1,
                             !.numworker = mt.numworker + 1],
           wk |-> [w EXCEPT ![u] = [Idle EXCEPT !.pc = "loop"]]]
    BY <1>2 DEF fuse_loop_start_thread
  <2> HIDE DEF u
  <2>3. /\ fuse_loop_start_thread(w, ok).mt =
             [mt EXCEPT !.list = Append(mt.list, u), !.numavail = mt.numavail + 1,
                        !.numworker = mt.numworker + 1]
        /\ fuse_loop_start_thread(w, ok).wk = [w EXCEPT ![u] = [Idle EXCEPT !.pc = "loop"]]
    BY <2>2
  <2> QED
    BY <1>2, <2>1, <2>3
<1> QED
  BY <1>1, <1>2

\* It has no message.
LEMMA StartedWorker ==
    ASSUME NEW u \in Worker, wk'[u] = [Idle EXCEPT !.pc = "loop"]
    PROVE  /\ WorkerOK(u)'
           /\ wk'[u].pc = "loop" /\ wk'[u].m = Null /\ wk'[u].intr = FALSE /\ wk'[u].stale = Null
           /\ wk'[u].forget = FALSE /\ wk'[u].peer = Null /\ wk'[u].d = "none"
<1>1. /\ wk'[u].pc = "loop" /\ wk'[u].m = Null /\ wk'[u].intr = FALSE /\ wk'[u].stale = Null
      /\ wk'[u].forget = FALSE /\ wk'[u].peer = Null /\ wk'[u].d = "none"
  BY DEF Idle
<1> QED
  BY <1>1 DEF WorkerOK, Carrying, Busy, Handling, Interrupting

LEMMA IdleTypes ==
    /\ Idle \in WorkerRecs
    /\ \A pc \in PCs, c \in BOOLEAN :
         /\ [Idle EXCEPT !.pc = pc] \in WorkerRecs
         /\ [Idle EXCEPT !.cancelled = c] \in WorkerRecs
         /\ [[Idle EXCEPT !.cancelled = c] EXCEPT !.pc = pc] \in WorkerRecs
<1>1. "none" \in PCs
  BY DEF PCs
<1> QED
  BY <1>1 DEF Idle, WorkerRecs

\* fuse_do_work when it has a message: the session is ending; or the worker goes
\* on alone; or it starts another.
TakesNone(t) ==
    /\ mt.exit /\ mt' = mt /\ env' = env
    /\ wk'[t] = [Idle EXCEPT !.pc = "ended"]
    /\ \A v \in Worker \ {t} : wk'[v] = wk[v]

Takes(t) ==
    /\ ~mt.exit
    /\ wk'[t] = [wk[t] EXCEPT !.pc = "process", !.forget = ~wk[t].intr /\ kst[wk[t].m].op \in Forgets]

GoesOnAlone(t) ==
    /\ \/ env' = env /\ (mt.numavail = (IF wk'[t].forget THEN 0 ELSE 1) => Free = {})
       \/ env'.failed /\ env'.threads = env.threads
    /\ mt' = [mt EXCEPT !.numavail = IF wk'[t].forget THEN @ ELSE @ - 1]
    /\ \A v \in Worker \ {t} : wk'[v] = wk[v]

StartsAnother(t, u) ==
    /\ env' = env
    /\ mt' = [mt EXCEPT !.list = Append(mt.list, u),
                        !.numavail = IF wk'[t].forget THEN mt.numavail + 1 ELSE mt.numavail,
                        !.numworker = mt.numworker + 1]
    /\ wk'[u] = [Idle EXCEPT !.pc = "loop"]
    /\ \A v \in Worker \ {t, u} : wk'[v] = wk[v]

LEMMA TakeRequestTypes ==
    ASSUME TypeInv, NEW t \in Worker, NEW ok \in BOOLEAN, TakeRequest(t, ok)
    PROVE  /\ TypeInv'
           /\ wk[t].pc = "got" /\ wk[t].m \in Request
           /\ \/ TakesNone(t)
              \/ Takes(t) /\ GoesOnAlone(t)
              \/ Takes(t) /\ \E u \in Free : StartsAnother(t, u)
<1> DEFINE forget == ~wk[t].intr /\ kst[wk[t].m].op \in Forgets
           w == [wk EXCEPT ![t].pc = "process", ![t].forget = forget]
           a == [wk[t] EXCEPT !.pc = "process", !.forget = forget]
           s == fuse_loop_start_thread(w, ok)
<1>1. StateTypes /\ WorkerOK(t) /\ wk[t] \in WorkerRecs /\ wk[t].pc = "got" /\ wk[t].m \in Request
  BY DEF TypeInv, StateTypes, WkType, TakeRequest, WorkerOK, Carrying
<1>2. /\ MainType' /\ SeType' /\ ReqType' /\ ListType' /\ InterruptsType' /\ IntrType'
      /\ KstType' /\ KintType' /\ BadType' /\ Grows
  BY <1>1 DEF TakeRequest, StateTypes, MainType, SeType, ReqType, ListType, InterruptsType, IntrType,
              KstType, KintType, BadType, Grows, Taken
<1>3. CASE mt.exit
  <2>1. /\ wk' = [wk EXCEPT ![t] = [Idle EXCEPT !.pc = "ended"]] /\ mt' = mt /\ env' = env
    BY <1>3 DEF TakeRequest
  <2>2. [Idle EXCEPT !.pc = "ended"] \in WorkerRecs
    BY IdleTypes DEF PCs
  <2>3. /\ wk'[t] = [Idle EXCEPT !.pc = "ended"]
        /\ \A v \in Worker \ {t} : wk'[v] = wk[v]
    BY <1>1, <2>1 DEF StateTypes, WkType
  <2>4. StateTypes'
    BY <1>1, <1>2, <2>1, <2>2 DEF StateTypes, WkType, MtType, EnvType
  <2>5. WorkerOK(t)'
    BY <2>3 DEF Idle, WorkerOK, Carrying, Busy, Handling, Interrupting
  <2> QED
    BY <1>1, <1>2, <1>3, <2>1, <2>3, <2>4, <2>5, OneWorker DEF TakesNone
<1>4. CASE ~mt.exit
  <2>1. /\ mt' = [s.mt EXCEPT !.numavail = IF forget THEN s.mt.numavail ELSE s.mt.numavail - 1]
        /\ wk' = s.wk
        /\ IF mt.numavail = IF forget THEN 0 ELSE 1 THEN Starts(ok) ELSE ~ok /\ UNCHANGED env
    BY <1>4 DEF TakeRequest
  <2>2. w = [wk EXCEPT ![t] = a] /\ a \in WorkerRecs /\ w \in [Worker -> WorkerRecs]
    <3>1. w = [wk EXCEPT ![t] = a]
      BY <1>1 DEF StateTypes, WkType, WorkerRecs
    <3>2. forget \in BOOLEAN
      OBVIOUS
    <3>3. a \in WorkerRecs
      BY <1>1, <3>2 DEF WorkerRecs, PCs, Busy
    <3> QED
      BY <1>1, <3>1, <3>3 DEF StateTypes, WkType
  <2>3. a.pc = "process" /\ a.m = wk[t].m /\ a.intr = wk[t].intr /\ a.stale = wk[t].stale /\ a.forget = forget
    BY <1>1 DEF WorkerRecs
  <2>4. ok => Free # {}
    BY <2>1 DEF Starts
  <2>5. EnvType'
    BY <1>1, <2>1, FailureTypes DEF Starts, StateTypes, EnvType
  <2> HIDE DEF a, w
  <2>6. wk'[t] = a => WorkerOK(t)'
    BY <1>1, <1>2, <2>3 DEF Grows, WorkerOK, Carrying, Busy, Handling, Interrupting
  <2>7. mt.numavail \in Int /\ mt.numworker \in Int /\ mt.list \in Seq(Worker) /\ Free \subseteq Worker
    BY <1>1 DEF StateTypes, MtType, MtRecs, EnvType, EnvRecs, Free
  <2>8. CASE ~ok
    <3>1. s.mt = mt /\ s.wk = w
      BY <2>8 DEF fuse_loop_start_thread
    <3>2. wk'[t] = a /\ \A v \in Worker \ {t} : wk'[v] = wk[v]
      BY <1>1, <2>1, <2>2, <3>1 DEF StateTypes, WkType
    <3>3. mt' = [mt EXCEPT !.numavail = IF wk'[t].forget THEN @ ELSE @ - 1]
      BY <2>1, <2>3, <3>1, <3>2
    <3>4. MtType'
      BY <1>1, <2>7, <3>3 DEF StateTypes, MtType, MtRecs
    <3>5. StateTypes'
      BY <1>1, <1>2, <2>1, <2>2, <2>5, <3>1, <3>4 DEF StateTypes, WkType
    <3>6. TypeInv'
      BY <1>2, <2>6, <3>2, <3>5, OneWorker
    <3>7. \/ env' = env /\ (mt.numavail = (IF wk'[t].forget THEN 0 ELSE 1) => Free = {})
          \/ env'.failed /\ env'.threads = env.threads
      BY <1>1, <2>1, <2>3, <2>8, <3>2 DEF Starts, Failure, StateTypes, EnvType, EnvRecs
    <3> QED
      BY <1>1, <1>4, <3>2, <3>3, <3>6, <3>7 DEF a, Takes, GoesOnAlone
  <2>9. CASE ok
    <3>1. PICK u \in Free :
            /\ s.mt = [mt EXCEPT !.list = Append(mt.list, u), !.numavail = mt.numavail + 1,
                                 !.numworker = mt.numworker + 1]
            /\ s.wk = [w EXCEPT ![u] = [Idle EXCEPT !.pc = "loop"]]
      BY <1>1, <2>2, <2>4, <2>9, StartTypes
    <3>2. u # t /\ u \in Worker
      BY <1>1, <2>7 DEF Free
    <3>3. /\ wk'[t] = a /\ wk'[u] = [Idle EXCEPT !.pc = "loop"]
          /\ \A v \in Worker \ {t, u} : wk'[v] = wk[v]
      BY <1>1, <2>1, <2>2, <3>1, <3>2 DEF StateTypes, WkType
    <3>4. mt' = [mt EXCEPT !.list = Append(mt.list, u),
                           !.numavail = IF wk'[t].forget THEN mt.numavail + 1 ELSE mt.numavail,
                           !.numworker = mt.numworker + 1]
      <4>1. s.mt.numavail = mt.numavail + 1
        BY <1>1, <3>1 DEF StateTypes, MtType, MtRecs
      <4>2. (IF forget THEN s.mt.numavail ELSE s.mt.numavail - 1)
              = IF wk'[t].forget THEN mt.numavail + 1 ELSE mt.numavail
        <5>1. wk'[t].forget = forget
          BY <2>3, <3>3
        <5>2. s.mt.numavail - 1 = mt.numavail
          BY <2>7, <4>1
        <5> HIDE DEF s, forget
        <5> QED
          BY <4>1, <5>1, <5>2, Zenon
      <4>4. mt' = [s.mt EXCEPT !.numavail = IF wk'[t].forget THEN mt.numavail + 1 ELSE mt.numavail]
        <5> HIDE DEF s, forget
        <5> QED
          BY <2>1, <4>2, Zenon
      <4> QED
        BY <1>1, <3>1, <4>4 DEF StateTypes, MtType, MtRecs
    <3>5. MtType'
      <4>1. Append(mt.list, u) \in Seq(Worker)
        BY <2>7, <3>2, AppendElement
      <4>2. mt.numavail + 1 \in Int /\ mt.numworker + 1 \in Int
        BY <2>7
      <4> QED
        BY <1>1, <2>7, <3>4, <4>1, <4>2 DEF StateTypes, MtType, MtRecs
    <3>6. WkType'
      <4>1. [Idle EXCEPT !.pc = "loop"] \in WorkerRecs
        BY IdleTypes DEF PCs
      <4> QED
        BY <2>1, <2>2, <3>1, <4>1 DEF WkType
    <3>7. StateTypes'
      BY <1>2, <2>5, <3>5, <3>6 DEF StateTypes
    <3>8. ASSUME NEW v \in Worker
          PROVE  WorkerOK(v)'
      <4>1. CASE v = t
        BY <2>6, <3>3, <4>1
      <4>2. CASE v = u
        BY <3>2, <3>3, <4>2, StartedWorker
      <4>3. CASE v \notin {t, u}
        <5>1. wk'[v] = wk[v] /\ WorkerOK(v)
          BY <3>3, <4>3 DEF TypeInv
        <5>2. wk[v].pc \in Carrying => Taken(wk[v].m)' /\ kst'[wk[v].m].op = kst[wk[v].m].op
          BY <1>2, <5>1 DEF WorkerOK, Grows
        <5> QED
          BY <5>1, <5>2 DEF WorkerOK, Carrying, Busy, Handling, Interrupting
      <4> QED
        BY <4>1, <4>2, <4>3
    <3>9. env' = env
      BY <2>1, <2>9 DEF Starts
    <3> QED
      BY <1>1, <1>4, <3>1, <3>3, <3>4, <3>7, <3>8, <3>9 DEF TypeInv, a, Takes, StartsAnother
  <2> QED
    BY <2>8, <2>9
<1> QED
  BY <1>3, <1>4

\* A worker is left as it is, but that it may be cancelled or signalled.
Untouched(u) ==
    /\ wk'[u].pc = wk[u].pc /\ wk'[u].m = wk[u].m /\ wk'[u].intr = wk[u].intr
    /\ wk'[u].stale = wk[u].stale /\ wk'[u].forget = wk[u].forget
    /\ wk'[u].peer = wk[u].peer /\ wk'[u].d = wk[u].d

LEMMA UntouchedWorkers ==
    ASSUME TypeInv, StateTypes', Grows, \A u \in Worker : Untouched(u)
    PROVE  TypeInv'
<1>1. ASSUME NEW u \in Worker
      PROVE  WorkerOK(u)'
  <2>1. WorkerOK(u) /\ Untouched(u)
    BY DEF TypeInv
  <2>2. wk[u].pc \in Carrying => Taken(wk[u].m)' /\ kst'[wk[u].m].op = kst[wk[u].m].op
    BY <2>1 DEF WorkerOK, Grows, Untouched
  <2> QED
    BY <2>1, <2>2 DEF Untouched, WorkerOK, Carrying, Busy, Handling, Interrupting
<1> QED
  BY <1>1 DEF TypeInv

\* A worker that is back from its message, or has ended, has none.
Rests(t, pc) ==
    /\ wk'[t].pc = pc /\ wk'[t].m = Null /\ wk'[t].intr = FALSE /\ wk'[t].stale = Null
    /\ wk'[t].forget = FALSE /\ wk'[t].peer = Null /\ wk'[t].d = "none"
    /\ \A u \in Worker \ {t} : wk'[u] = wk[u]

\* fuse_do_work when the message is done: the worker stays; the session is
\* ending; or it is one too many.
LEMMA FinishedTypes ==
    ASSUME TypeInv, IsInjective(mt.list), NEW t \in Worker, Finished(t)
    PROVE  LET avail == IF wk[t].forget THEN mt.numavail ELSE mt.numavail + 1
           IN  /\ TypeInv'
               /\ \/ /\ Rests(t, "loop") \/ (mt.exit /\ Rests(t, "ended"))
                     /\ mt' = [mt EXCEPT !.numavail = avail]
                  \/ /\ ~mt.exit /\ avail > MaxIdle /\ Rests(t, "none")
                     /\ mt' = [mt EXCEPT !.numavail = avail - 1, !.numworker = mt.numworker - 1,
                                         !.list = RemoveFirst(mt.list, t)]
<1> DEFINE avail == IF wk[t].forget THEN mt.numavail ELSE mt.numavail + 1
           rest == [Idle EXCEPT !.cancelled = wk[t].cancelled]
<1>1. StateTypes /\ WorkerOK(t) /\ wk[t] \in WorkerRecs /\ mt \in MtRecs
  BY DEF TypeInv, StateTypes, WkType, MtType
<1>2. mt.numavail \in Int /\ mt.numworker \in Int /\ avail \in Int /\ MaxIdle \in Int /\ mt.list \in Seq(Worker)
  BY <1>1, RequestsAssumption DEF MtRecs
<1>3. /\ MainType' /\ SeType' /\ ReqType' /\ ListType' /\ InterruptsType' /\ IntrType'
      /\ KstType' /\ KintType' /\ EnvType' /\ BadType' /\ Grows
  BY <1>1 DEF Finished, StateTypes, MainType, SeType, ReqType, ListType, InterruptsType, IntrType,
              KstType, KintType, EnvType, BadType, Grows, Taken
<1>4. ASSUME NEW pc \in {"loop", "ended", "none"}, NEW w \in WorkerRecs, wk' = [wk EXCEPT ![t] = w],
             w = [rest EXCEPT !.pc = pc] \/ (w = Idle /\ pc = "none"), MtType'
      PROVE  TypeInv' /\ Rests(t, pc)
  <2>1. wk'[t] = w /\ \A u \in Worker \ {t} : wk'[u] = wk[u]
    BY <1>1, <1>4 DEF StateTypes, WkType
  <2>2. /\ w.pc = pc /\ w.m = Null /\ w.intr = FALSE /\ w.stale = Null
        /\ w.forget = FALSE /\ w.peer = Null /\ w.d = "none"
    <3>1. CASE w = Idle /\ pc = "none"
      BY <3>1 DEF Idle
    <3>2. CASE w = [rest EXCEPT !.pc = pc]
      BY <3>2 DEF Idle
    <3> QED
      BY <1>4, <3>1, <3>2
  <2>3. Rests(t, pc)
    BY <2>1, <2>2 DEF Rests
  <2>4. StateTypes'
    BY <1>1, <1>3, <1>4 DEF StateTypes, WkType
  <2>5. WorkerOK(t)'
    BY <2>3 DEF Rests, WorkerOK, Carrying, Busy, Handling, Interrupting
  <2> QED
    BY <1>3, <2>3, <2>4, <2>5, OneWorker DEF Rests
<1>5. wk[t].cancelled \in BOOLEAN
  BY <1>1 DEF WorkerRecs
<1>6. [mt EXCEPT !.numavail = avail] \in MtRecs
  <2> HIDE DEF avail
  <2> QED
    BY <1>1, <1>2 DEF MtRecs
<1>7. CASE avail <= MaxIdle
  <2>1. /\ wk' = [wk EXCEPT ![t] = [rest EXCEPT !.pc = "loop"]]
        /\ mt' = [mt EXCEPT !.numavail = avail]
    BY <1>2, <1>7 DEF Finished
  <2>2. [rest EXCEPT !.pc = "loop"] \in WorkerRecs
    BY <1>5, IdleTypes DEF PCs
  <2>3. MtType'
    BY <1>6, <2>1 DEF MtType
  <2>4. TypeInv' /\ Rests(t, "loop")
    BY <1>4, <2>1, <2>2, <2>3
  <2> QED
    BY <2>1, <2>4
<1>8. CASE avail > MaxIdle /\ mt.exit
  <2>1. /\ wk' = [wk EXCEPT ![t] = [rest EXCEPT !.pc = "ended"]]
        /\ mt' = [mt EXCEPT !.numavail = avail]
    BY <1>2, <1>8 DEF Finished
  <2>2. [rest EXCEPT !.pc = "ended"] \in WorkerRecs
    BY <1>5, IdleTypes DEF PCs
  <2>3. MtType'
    BY <1>6, <2>1 DEF MtType
  <2>4. TypeInv' /\ Rests(t, "ended")
    BY <1>4, <2>1, <2>2, <2>3
  <2> QED
    BY <1>8, <2>1, <2>4
<1>9. CASE avail > MaxIdle /\ ~mt.exit
  <2>1. /\ wk' = [wk EXCEPT ![t] = Idle]
        /\ mt' = [mt EXCEPT !.numavail = avail - 1, !.numworker = mt.numworker - 1,
                            !.list = RemoveFirst(mt.list, t)]
    BY <1>2, <1>9 DEF Finished
  <2>2. RemoveFirst(mt.list, t) \in Seq(Worker)
    BY <1>2, UnlinkElement
  <2>3. avail - 1 \in Int /\ mt.numworker - 1 \in Int
    BY <1>2
  <2>4. MtType'
    <3> HIDE DEF avail
    <3> QED
      BY <1>1, <2>1, <2>2, <2>3 DEF MtType, MtRecs
  <2>5. TypeInv' /\ Rests(t, "none")
    BY <1>4, <2>1, <2>4, IdleTypes
  <2> QED
    BY <1>9, <2>1, <2>5
<1> QED
  BY <1>2, <1>7, <1>8, <1>9

\* fuse_interrupt signals the thread of the callback, or sees that it is done.
LEMMA fuse_interruptTypes ==
    ASSUME TypeInv, NEW t \in Worker, fuse_interrupt(t)
    PROVE  /\ TypeInv'
           /\ \/ \A u \in Worker : Untouched(u)
              \/ Becomes(t, "unlock", wk[t].m, wk[t].intr, wk[t].stale, wk[t].peer, wk[t].d)
<1> DEFINE p == wk[t].peer
<1>1. StateTypes /\ WorkerOK(t) /\ wk[t] \in WorkerRecs /\ wk[t].pc = "signal"
  BY DEF TypeInv, StateTypes, WkType, fuse_interrupt
<1>2. p \in Worker /\ wk[p] \in WorkerRecs
  BY <1>1 DEF WorkerOK, StateTypes, WkType
<1>3. /\ MtType' /\ MainType' /\ SeType' /\ ReqType' /\ ListType' /\ InterruptsType' /\ IntrType'
      /\ KstType' /\ KintType' /\ EnvType' /\ BadType' /\ Grows
  BY <1>1 DEF fuse_interrupt, StateTypes, MtType, MainType, SeType, ReqType, ListType, InterruptsType,
              IntrType, KstType, KintType, EnvType, BadType, Grows, Taken
<1>4. CASE wk' = [wk EXCEPT ![p].signalled = TRUE]
  <2>1. wk' = [wk EXCEPT ![p] = [wk[p] EXCEPT !.signalled = TRUE]]
    BY <1>1, <1>2, <1>4 DEF StateTypes, WkType, WorkerRecs
  <2>2. [wk[p] EXCEPT !.signalled = TRUE] \in WorkerRecs
    BY <1>2 DEF WorkerRecs
  <2>3. /\ wk'[p] = [wk[p] EXCEPT !.signalled = TRUE]
        /\ \A u \in Worker \ {p} : wk'[u] = wk[u]
    BY <1>1, <1>2, <2>1 DEF StateTypes, WkType
  <2>4. \A u \in Worker : Untouched(u)
    <3>1. Untouched(p)
      BY <1>2, <2>3 DEF WorkerRecs, Untouched
    <3>2. \A u \in Worker \ {p} : Untouched(u)
      BY <2>3 DEF Untouched
    <3> QED
      BY <3>1, <3>2
  <2>5. WkType'
    BY <1>1, <1>2, <2>1, <2>2 DEF StateTypes, WkType
  <2> QED
    BY <1>3, <2>4, <2>5, UntouchedWorkers DEF StateTypes
<1>5. CASE Goto(t, "unlock")
  <2>1. /\ wk' = [wk EXCEPT ![t] = [wk[t] EXCEPT !.pc = "unlock"]]
        /\ [wk[t] EXCEPT !.pc = "unlock"] \in WorkerRecs
    BY <1>1, <1>5 DEF Goto, StateTypes, WkType, WorkerRecs, PCs, Busy, Interrupting
  <2>2. wk'[t] = [wk[t] EXCEPT !.pc = "unlock"] /\ \A u \in Worker \ {t} : wk'[u] = wk[u]
    BY <1>1, <2>1 DEF StateTypes, WkType
  <2>3. Becomes(t, "unlock", wk[t].m, wk[t].intr, wk[t].stale, wk[t].peer, wk[t].d)
    BY <1>1, <2>2 DEF Becomes, WorkerRecs
  <2>4. WkType'
    BY <1>1, <2>1 DEF StateTypes, WkType
  <2>5. WorkerOK(t)'
    BY <1>1, <1>3, <2>3 DEF Becomes, Grows, WorkerOK, Carrying, Busy, Handling, Interrupting
  <2> QED
    BY <1>3, <2>3, <2>4, <2>5, OneWorker DEF StateTypes, Becomes
<1> QED
  BY <1>4, <1>5 DEF fuse_interrupt

LEMMA NewReq ==
    ASSUME ReqType, NEW r \in Request, NEW x \in BOOLEAN, NEW n,
           \/ n = [NoReq EXCEPT !.live = TRUE, !.ctr = 1, !.interrupted = x]
           \/ n = [NoReq EXCEPT !.live = TRUE, !.ctr = 1] /\ x = FALSE,
           req' = [req EXCEPT ![r] = n]
    PROVE  ReqType' /\ ReqBecomes(r, TRUE, 1, x, Null, Null)
<1>1. NoReq \in ReqRecs /\ NoReq.func = Null /\ NoReq.lock = Null /\ NoReq.interrupted = FALSE
  BY DEF NoReq, ReqRecs
<1> HIDE DEF NoReq
<1>2. /\ n \in ReqRecs /\ n.live = TRUE /\ n.ctr = 1 /\ n.interrupted = x
      /\ n.func = Null /\ n.lock = Null
  <2>1. CASE n = [NoReq EXCEPT !.live = TRUE, !.ctr = 1, !.interrupted = x]
    <3>1. 1 \in Int /\ TRUE \in BOOLEAN
      OBVIOUS
    <3>2. n \in ReqRecs
      BY <1>1, <2>1, <3>1, Zenon DEF ReqRecs
    <3> QED
      BY <1>1, <2>1, <3>2 DEF ReqRecs
  <2>2. CASE n = [NoReq EXCEPT !.live = TRUE, !.ctr = 1] /\ x = FALSE
    <3>1. 1 \in Int /\ TRUE \in BOOLEAN
      OBVIOUS
    <3>2. n \in ReqRecs
      BY <1>1, <2>2, <3>1, Zenon DEF ReqRecs
    <3> QED
      BY <1>1, <2>2, <3>2 DEF ReqRecs
  <2> QED
    BY <2>1, <2>2
<1>3. req'[r] = n /\ \A q \in Request \ {r} : req'[q] = req[q]
  BY DEF ReqType
<1> QED
  BY <1>2, <1>3 DEF ReqType, ReqBecomes

LEMMA ToHandler ==
    ASSUME TypeInv, NEW t \in Worker, NEW pc \in PCs, NEW s \in Request \cup {Null},
           wk' = [wk EXCEPT ![t].pc = pc, ![t].stale = s]
    PROVE  WkType' /\ Becomes(t, pc, wk[t].m, wk[t].intr, s, wk[t].peer, wk[t].d)
<1> DEFINE w == [wk[t] EXCEPT !.pc = pc, !.stale = s]
<1>1. WkType /\ wk[t] \in WorkerRecs
  BY DEF TypeInv, StateTypes, WkType
<1>2. wk' = [wk EXCEPT ![t] = w]
  BY <1>1 DEF WkType, WorkerRecs
<1>3. w \in WorkerRecs
  BY <1>1 DEF WorkerRecs
<1>4. /\ w.pc = pc /\ w.m = wk[t].m /\ w.intr = wk[t].intr /\ w.stale = s
      /\ w.peer = wk[t].peer /\ w.d = wk[t].d /\ w.forget = wk[t].forget
  BY <1>1 DEF WorkerRecs
<1> HIDE DEF w
<1>5. wk'[t] = w /\ \A u \in Worker \ {t} : wk'[u] = wk[u]
  BY <1>1, <1>2 DEF WkType
<1> QED
  BY <1>1, <1>2, <1>3, <1>4, <1>5 DEF WkType, Becomes

\* fuse_ll_process_buf: the message is refused; or an INTERRUPT waits for it; or
\* one for another request waits; or none does.
LEMMA ProcessRequestTypes ==
    ASSUME TypeInv, IsInjective(interrupts), NEW t \in Worker, ProcessRequest(t)
    PROVE  /\ TypeInv'
           /\ wk[t].pc = "process" /\ ~wk[t].intr /\ wk[t].m \in Request
           /\ \/ /\ Refused(kst[wk[t].m].op)
                 /\ Becomes(t, "reply", wk[t].m, wk[t].intr, Null, wk[t].peer, wk[t].d)
                 /\ ReqBecomes(wk[t].m, TRUE, 1, FALSE, Null, Null)
                 /\ list' = list /\ interrupts' = interrupts /\ intr' = intr
              \/ /\ ~Refused(kst[wk[t].m].op) /\ wk[t].m \in ToSet(interrupts)
                 /\ Becomes(t, Dispatch(kst[wk[t].m].op), wk[t].m, wk[t].intr, Null, wk[t].peer, wk[t].d)
                 /\ ReqBecomes(wk[t].m, TRUE, 1, TRUE, Null, Null)
                 /\ list' = Append(list, wk[t].m)
                 /\ interrupts' = RemoveFirst(interrupts, wk[t].m)
                 /\ intr' = [intr EXCEPT ![wk[t].m] = FALSE]
              \/ /\ ~Refused(kst[wk[t].m].op) /\ wk[t].m \notin ToSet(interrupts)
                 /\ ReqBecomes(wk[t].m, TRUE, 1, FALSE, Null, Null)
                 /\ list' = Append(list, wk[t].m) /\ intr' = intr
                 /\ \E q \in ToSet(interrupts) :
                      /\ Becomes(t, "eagain", wk[t].m, wk[t].intr, q, wk[t].peer, wk[t].d)
                      /\ interrupts' = RemoveFirst(interrupts, q)
              \/ /\ ~Refused(kst[wk[t].m].op) /\ wk[t].m \notin ToSet(interrupts)
                 /\ Becomes(t, Dispatch(kst[wk[t].m].op), wk[t].m, wk[t].intr, Null, wk[t].peer, wk[t].d)
                 /\ ReqBecomes(wk[t].m, TRUE, 1, FALSE, Null, Null)
                 /\ list' = Append(list, wk[t].m) /\ intr' = intr /\ interrupts' = interrupts
<1> DEFINE op == kst[wk[t].m].op
           c == check_interrupt(wk[t].m)
<1>1. /\ StateTypes /\ WorkerOK(t) /\ wk[t] \in WorkerRecs /\ wk[t].pc = "process" /\ ~wk[t].intr
      /\ wk[t].m \in Request /\ wk[t].stale = Null
  BY DEF TypeInv, StateTypes, WkType, ProcessRequest, WorkerOK, Carrying, Busy
<1>2. PICK r \in Request : r = wk[t].m
  BY <1>1
<1>3. /\ MtType' /\ MainType' /\ SeType' /\ KstType' /\ KintType' /\ EnvType' /\ BadType' /\ Grows
  BY <1>1 DEF ProcessRequest, StateTypes, MtType, MainType, SeType, KstType, KintType, EnvType, BadType,
              Grows, Taken
<1>4. interrupts \in Seq(Request) /\ list \in Seq(Request) /\ Null \notin Request /\ ReqType /\ intr \in [Request -> BOOLEAN]
  BY <1>1, RequestsAssumption DEF StateTypes, InterruptsType, ListType, IntrType
<1>5. \A x : x \in ToSet(interrupts) <=> \E i \in DOMAIN interrupts : interrupts[i] = x
  BY DEF ToSet
<1>6. ASSUME NEW pc \in Handling, NEW s \in Request \cup {Null}, s # Null <=> pc = "eagain",
             pc = "eagain" => Known(op), pc = "prepare" => Intr, WkType', ReqType',
             Becomes(t, pc, wk[t].m, wk[t].intr, s, wk[t].peer, wk[t].d),
             ListType', InterruptsType', IntrType'
      PROVE  TypeInv'
  <2>1. StateTypes'
    BY <1>3, <1>6 DEF StateTypes
  <2>2. WorkerOK(t)'
    BY <1>1, <1>3, <1>6 DEF Becomes, Grows, WorkerOK, Carrying, Busy, Handling, Interrupting
  <2> QED
    BY <1>3, <1>6, <2>1, <2>2, OneWorker DEF Becomes
<1>7. ASSUME NEW pc \in Handling
      PROVE  pc \in PCs
  BY DEF PCs, Busy
<1>8. CASE Refused(op)
  <2>1. /\ wk' = [wk EXCEPT ![t].pc = "reply"]
        /\ req' = [req EXCEPT ![r] = [NoReq EXCEPT !.live = TRUE, !.ctr = 1]]
        /\ list' = list /\ interrupts' = interrupts /\ intr' = intr
    BY <1>2, <1>8 DEF ProcessRequest
  <2>2. wk' = [wk EXCEPT ![t].pc = "reply", ![t].stale = Null]
    BY <1>1, <2>1 DEF StateTypes, WkType, WorkerRecs
  <2>4. ReqType' /\ ReqBecomes(r, TRUE, 1, FALSE, Null, Null)
    BY <1>4, <2>1, NewReq
  <2>5. "reply" \in Handling
    BY DEF Handling
  <2>6. WkType' /\ Becomes(t, "reply", wk[t].m, wk[t].intr, Null, wk[t].peer, wk[t].d)
    BY <1>7, <2>2, <2>5, ToHandler
  <2>7. ListType' /\ InterruptsType' /\ IntrType'
    BY <1>4, <2>1 DEF ListType, InterruptsType, IntrType
  <2>8. TypeInv'
    BY <1>6, <2>4, <2>5, <2>6, <2>7
  <2> QED
    BY <1>1, <1>2, <1>8, <2>1, <2>4, <2>6, <2>8
<1>9. CASE ~Refused(op)
  <2>1. /\ req' = [req EXCEPT ![r] = [NoReq EXCEPT !.live = TRUE, !.ctr = 1, !.interrupted = c.interrupted]]
        /\ list' = Append(list, r)
        /\ interrupts' = RemoveFirst(interrupts, c.taken)
        /\ intr' = IF c.interrupted THEN [intr EXCEPT ![r] = FALSE] ELSE intr
        /\ wk' = [wk EXCEPT ![t].pc = IF c.taken \notin {r, Null} THEN "eagain" ELSE Dispatch(op),
                            ![t].stale = IF c.taken = r THEN Null ELSE c.taken]
    BY <1>2, <1>9 DEF ProcessRequest
  <2>2. Known(op)
    BY <1>9 DEF Refused, Known
  <2>3. /\ Dispatch(op) \in Handling /\ Dispatch(op) # "eagain" /\ (Dispatch(op) = "prepare" => Intr)
    BY <2>2, Dispatches DEF Handling
  <2>4. ListType'
    BY <1>4, <2>1, AppendElement DEF ListType
  <2>5. CASE r \in ToSet(interrupts)
    <3>1. c = [interrupted |-> TRUE, taken |-> r]
      BY <1>2, <1>5, <2>5 DEF check_interrupt
    <3>2. c.interrupted = TRUE /\ c.taken = r
      BY <3>1
    <3>3. /\ interrupts' = RemoveFirst(interrupts, r) /\ intr' = [intr EXCEPT ![r] = FALSE]
          /\ wk' = [wk EXCEPT ![t].pc = Dispatch(op), ![t].stale = Null]
      BY <2>1, <3>2
    <3>4. ReqType' /\ ReqBecomes(r, TRUE, 1, TRUE, Null, Null)
      BY <1>4, <2>1, <3>2, NewReq
    <3>5. WkType' /\ Becomes(t, Dispatch(op), wk[t].m, wk[t].intr, Null, wk[t].peer, wk[t].d)
      BY <1>7, <2>3, <3>3, ToHandler
    <3>6. InterruptsType' /\ IntrType'
      BY <1>4, <3>3, UnlinkElement DEF InterruptsType, IntrType
    <3>7. TypeInv'
      BY <1>6, <2>3, <2>4, <3>4, <3>5, <3>6
    <3> QED
      BY <1>1, <1>2, <1>9, <2>1, <2>5, <3>3, <3>4, <3>5, <3>7
  <2>6. CASE r \notin ToSet(interrupts) /\ interrupts # <<>>
    <3>0. Head(interrupts) \in ToSet(interrupts) /\ Head(interrupts) \in Request
      BY <1>4, <2>6 DEF ToSet
    <3>1. PICK q \in Request : q = Head(interrupts) /\ q \in ToSet(interrupts)
      BY <3>0
    <3>2. c = [interrupted |-> FALSE, taken |-> q]
      BY <1>2, <1>5, <2>6, <3>1 DEF check_interrupt
    <3>3. c.interrupted = FALSE /\ c.taken = q /\ q \notin {r, Null}
      BY <1>4, <2>6, <3>1, <3>2
    <3>4. /\ interrupts' = RemoveFirst(interrupts, q) /\ intr' = intr
          /\ wk' = [wk EXCEPT ![t].pc = "eagain", ![t].stale = q]
      BY <2>1, <3>3
    <3>5. ReqType' /\ ReqBecomes(r, TRUE, 1, FALSE, Null, Null)
      BY <1>4, <2>1, <3>3, NewReq
    <3>6. "eagain" \in Handling
      BY DEF Handling
    <3>7. WkType' /\ Becomes(t, "eagain", wk[t].m, wk[t].intr, q, wk[t].peer, wk[t].d)
      BY <1>7, <3>4, <3>6, ToHandler
    <3>8. InterruptsType' /\ IntrType'
      BY <1>4, <3>4, UnlinkElement DEF InterruptsType, IntrType
    <3>9. TypeInv'
      BY <1>6, <2>2, <2>4, <3>3, <3>5, <3>6, <3>7, <3>8
    <3> QED
      BY <1>1, <1>2, <1>9, <2>1, <2>6, <3>1, <3>4, <3>5, <3>7, <3>9
  <2>7. CASE r \notin ToSet(interrupts) /\ interrupts = <<>>
    <3>1. c = [interrupted |-> FALSE, taken |-> Null]
      BY <1>2, <1>5, <2>7 DEF check_interrupt
    <3>2. c.interrupted = FALSE /\ c.taken = Null /\ Null # r
      BY <1>4, <3>1
    <3>3. /\ intr' = intr /\ interrupts' = RemoveFirst(interrupts, Null)
          /\ wk' = [wk EXCEPT ![t].pc = Dispatch(op), ![t].stale = Null]
      BY <2>1, <3>2
    <3>4. interrupts' = interrupts
      BY <2>7, <3>3 DEF RemoveFirst
    <3>5. ReqType' /\ ReqBecomes(r, TRUE, 1, FALSE, Null, Null)
      BY <1>4, <2>1, <3>2, NewReq
    <3>6. WkType' /\ Becomes(t, Dispatch(op), wk[t].m, wk[t].intr, Null, wk[t].peer, wk[t].d)
      BY <1>7, <2>3, <3>3, ToHandler
    <3>7. InterruptsType' /\ IntrType'
      BY <1>4, <3>3, <3>4 DEF InterruptsType, IntrType
    <3>8. TypeInv'
      BY <1>6, <2>3, <2>4, <3>5, <3>6, <3>7
    <3> QED
      BY <1>1, <1>2, <1>9, <2>1, <2>7, <3>3, <3>4, <3>5, <3>6, <3>8
  <2> QED
    BY <2>5, <2>6, <2>7
<1> QED
  BY <1>8, <1>9

-----------------------------------------------------------------------------
(* The kernel and the main thread.                                           *)

LEMMA KernelTypes ==
    ASSUME TypeInv, Kernel
    PROVE  TypeInv'
<1>1. StateTypes
  BY DEF TypeInv
<1>2. ASSUME NEW r \in Request, NEW op \in Ops \cup {"init"}, KernelSend(r, op)
      PROVE  TypeInv'
  <2>1. KstType'
    BY <1>1, <1>2 DEF KernelSend, StateTypes, KstType, KernelRecs
  <2>2. /\ WkType' /\ MtType' /\ MainType' /\ SeType' /\ ReqType' /\ ListType' /\ InterruptsType'
        /\ IntrType' /\ KintType' /\ EnvType' /\ BadType' /\ wk' = wk
    BY <1>1, <1>2 DEF KernelSend, StateTypes, WkType, MtType, MainType, SeType, ReqType, ListType,
                      InterruptsType, IntrType, KintType, EnvType, BadType
  <2>3. Grows
    BY <1>1, <1>2 DEF KernelSend, StateTypes, KstType, KernelRecs, Grows, Taken
  <2> QED
    BY <2>1, <2>2, <2>3, NoWorker DEF StateTypes
<1>3. ASSUME NEW r \in Request, KernelInterrupt(r)
      PROVE  TypeInv'
  <2>1. KintType'
    BY <1>1, <1>3 DEF KernelInterrupt, StateTypes, KintType
  <2>2. EnvType'
    <3>1. env.interrupts - 1 \in Nat
      BY <1>1, <1>3 DEF KernelInterrupt, StateTypes, EnvType, EnvRecs
    <3>2. env' = [env EXCEPT !.interrupts = env.interrupts - 1]
      BY <1>3 DEF KernelInterrupt
    <3> QED
      BY <1>1, <3>1, <3>2 DEF StateTypes, EnvType, EnvRecs
  <2>3. /\ WkType' /\ MtType' /\ MainType' /\ SeType' /\ ReqType' /\ ListType' /\ InterruptsType'
        /\ IntrType' /\ KstType' /\ BadType' /\ wk' = wk /\ Grows
    BY <1>1, <1>3 DEF KernelInterrupt, StateTypes, WkType, MtType, MainType, SeType, ReqType, ListType,
                      InterruptsType, IntrType, KstType, BadType, Grows, Taken
  <2> QED
    BY <2>1, <2>2, <2>3, NoWorker DEF StateTypes
<1>4. ASSUME KernelUnmount
      PROVE  TypeInv'
  <2>1. EnvType'
    BY <1>1, <1>4 DEF KernelUnmount, StateTypes, EnvType, EnvRecs
  <2>2. /\ WkType' /\ MtType' /\ MainType' /\ SeType' /\ ReqType' /\ ListType' /\ InterruptsType'
        /\ IntrType' /\ KstType' /\ KintType' /\ BadType' /\ wk' = wk /\ Grows
    BY <1>1, <1>4 DEF KernelUnmount, StateTypes, WkType, MtType, MainType, SeType, ReqType, ListType,
                      InterruptsType, IntrType, KstType, KintType, BadType, Grows, Taken
  <2> QED
    BY <2>1, <2>2, NoWorker DEF StateTypes
<1> QED
  BY <1>2, <1>3, <1>4 DEF Kernel

\* The main thread starts the first worker, or gives up.
LEMMA MainStartTypes ==
    ASSUME TypeInv, NEW ok \in BOOLEAN, MainStart(ok)
    PROVE  /\ TypeInv'
           /\ \/ main' = "destroy" /\ wk' = wk /\ mt' = mt
              \/ /\ main' = "check"
                 /\ \E u \in Free :
                      /\ mt' = [mt EXCEPT !.list = Append(mt.list, u), !.numavail = mt.numavail + 1,
                                          !.numworker = mt.numworker + 1]
                      /\ wk'[u] = [Idle EXCEPT !.pc = "loop"]
                      /\ \A v \in Worker \ {u} : wk'[v] = wk[v]
<1>1. StateTypes /\ wk \in [Worker -> WorkerRecs] /\ mt \in MtRecs
  BY DEF TypeInv, StateTypes, WkType, MtType
<1>2. /\ MainType' /\ SeType' /\ ReqType' /\ ListType' /\ InterruptsType' /\ IntrType'
      /\ KstType' /\ KintType' /\ EnvType' /\ BadType' /\ Grows
  <2>1. EnvType'
    BY <1>1, FailureTypes DEF MainStart, Starts, StateTypes, EnvType
  <2> QED
    BY <1>1, <2>1 DEF MainStart, StateTypes, MainType, SeType, ReqType, ListType, InterruptsType, IntrType,
                KstType, KintType, BadType, Grows, Taken
<1>3. CASE ~ok
  <2>1. wk' = wk /\ mt' = mt /\ main' = "destroy"
    BY <1>3 DEF MainStart, fuse_loop_start_thread
  <2>2. StateTypes'
    BY <1>1, <1>2, <2>1 DEF StateTypes, WkType, MtType
  <2> QED
    BY <1>2, <2>1, <2>2, NoWorker
<1>4. CASE ok
  <2>1. Free # {} /\ main' = "check" /\ Free \subseteq Worker
    BY <1>1, <1>4 DEF MainStart, Starts, StateTypes, EnvType, EnvRecs, Free
  <2>2. PICK u \in Free :
          /\ mt' = [mt EXCEPT !.list = Append(mt.list, u), !.numavail = mt.numavail + 1,
                              !.numworker = mt.numworker + 1]
          /\ wk' = [wk EXCEPT ![u] = [Idle EXCEPT !.pc = "loop"]]
    BY <1>1, <1>4, <2>1, StartTypes DEF MainStart
  <2>3. wk'[u] = [Idle EXCEPT !.pc = "loop"] /\ \A v \in Worker \ {u} : wk'[v] = wk[v]
    BY <1>1, <2>1, <2>2
  <2>4. WkType'
    <3>1. [Idle EXCEPT !.pc = "loop"] \in WorkerRecs
      BY IdleTypes DEF PCs
    <3> QED
      BY <1>1, <2>2, <3>1 DEF WkType
  <2>5. MtType'
    <3>1. Append(mt.list, u) \in Seq(Worker) /\ mt.numavail + 1 \in Int /\ mt.numworker + 1 \in Int
      <4>1. mt.list \in Seq(Worker) /\ mt.numavail \in Int /\ mt.numworker \in Int
        BY <1>1 DEF MtRecs
      <4> QED
        BY <2>1, <4>1, AppendElement
    <3> QED
      BY <1>1, <2>2, <3>1 DEF MtType, MtRecs
  <2>6. StateTypes'
    BY <1>2, <2>4, <2>5 DEF StateTypes
  <2>7. WorkerOK(u)'
    BY <2>1, <2>3, StartedWorker
  <2>8. TypeInv'
    BY <1>2, <2>1, <2>3, <2>6, <2>7, OneWorker
  <2> QED
    BY <2>1, <2>2, <2>3, <2>8
<1> QED
  BY <1>3, <1>4

LEMMA MainCancelTypes ==
    ASSUME TypeInv, MainCancel
    PROVE  /\ TypeInv'
           /\ \A u \in Worker : Untouched(u)
<1>1. StateTypes /\ wk \in [Worker -> WorkerRecs] /\ mt \in MtRecs
  BY DEF TypeInv, StateTypes, WkType, MtType
<1>2. ASSUME NEW u \in Worker
      PROVE  wk'[u] \in WorkerRecs /\ Untouched(u)
  <2>1. wk'[u] = wk[u] \/ wk'[u] = [wk[u] EXCEPT !.cancelled = TRUE]
    BY DEF MainCancel
  <2>2. wk[u] \in WorkerRecs
    BY <1>1
  <2>3. CASE wk'[u] = wk[u]
    BY <2>2, <2>3 DEF Untouched
  <2>4. CASE wk'[u] = [wk[u] EXCEPT !.cancelled = TRUE]
    BY <2>2, <2>4 DEF Untouched, WorkerRecs
  <2> QED
    BY <2>1, <2>3, <2>4
<1>3. WkType'
  BY <1>2 DEF WkType, MainCancel
<1>4. MtType'
  BY <1>1 DEF MainCancel, MtType, MtRecs
<1>5. /\ MainType' /\ SeType' /\ ReqType' /\ ListType' /\ InterruptsType' /\ IntrType'
      /\ KstType' /\ KintType' /\ EnvType' /\ BadType' /\ Grows
  BY <1>1 DEF MainCancel, StateTypes, MainType, SeType, ReqType, ListType, InterruptsType, IntrType,
              KstType, KintType, EnvType, BadType, Grows, Taken
<1> QED
  BY <1>2, <1>3, <1>4, <1>5, UntouchedWorkers DEF StateTypes

LEMMA fuse_join_workerTypes ==
    ASSUME TypeInv, IsInjective(mt.list), fuse_join_worker
    PROVE  /\ TypeInv'
           /\ mt.joins \in Worker /\ wk[mt.joins].pc \in {"ended", "none"}
           /\ Rests(mt.joins, "none")
<1>1. StateTypes /\ wk \in [Worker -> WorkerRecs] /\ mt \in MtRecs
  BY DEF TypeInv, StateTypes, WkType, MtType
<1>2. PICK u \in Worker : u = mt.joins
  BY <1>1 DEF fuse_join_worker, MtRecs
<1>3. wk' = [wk EXCEPT ![u] = Idle] /\ wk'[u] = Idle /\ \A v \in Worker \ {u} : wk'[v] = wk[v]
  BY <1>1, <1>2 DEF fuse_join_worker
<1>4. Rests(u, "none")
  BY <1>3 DEF Rests, Idle
<1>5. WkType'
  BY <1>1, <1>3, IdleTypes DEF WkType
<1>6. MtType'
  <2>1. RemoveFirst(mt.list, mt.joins) \in Seq(Worker)
    BY <1>1, UnlinkElement DEF MtRecs
  <2>2. mt' = [mt EXCEPT !.list = RemoveFirst(mt.list, mt.joins), !.joins = Null]
    BY DEF fuse_join_worker
  <2> QED
    BY <1>1, <2>1, <2>2 DEF MtType, MtRecs
<1>7. /\ MainType' /\ SeType' /\ ReqType' /\ ListType' /\ InterruptsType' /\ IntrType'
      /\ KstType' /\ KintType' /\ EnvType' /\ BadType' /\ Grows
  BY <1>1 DEF fuse_join_worker, StateTypes, MainType, SeType, ReqType, ListType, InterruptsType, IntrType,
              KstType, KintType, EnvType, BadType, Grows, Taken
<1>8. WorkerOK(u)'
  BY <1>4 DEF Rests, WorkerOK, Carrying, Busy, Handling, Interrupting
<1>9. TypeInv'
  BY <1>3, <1>5, <1>6, <1>7, <1>8, OneWorker DEF StateTypes
<1> QED
  BY <1>2, <1>4, <1>9 DEF fuse_join_worker

\* The steps of the main thread that touch no worker, and the signal.
MainAlone == MainCheck \/ MainSleep \/ MainWake \/ MainJoin \/ MainReset \/ fuse_ll_destroy \/ ExitSignal

LEMMA MainAloneTypes ==
    ASSUME TypeInv, MainAlone
    PROVE  TypeInv' /\ UNCHANGED <<wk, req, list, interrupts, intr, kst, kint, bad>>
<1>1. StateTypes /\ mt \in MtRecs /\ se \in SessionRecs
  BY DEF TypeInv, StateTypes, MtType, SeType
<1>2. UNCHANGED <<wk, req, list, interrupts, intr, kst, kint, bad>>
  BY DEF MainAlone, MainCheck, MainSleep, MainWake, MainJoin, MainReset, fuse_ll_destroy, ExitSignal
<1>3. /\ WkType' /\ ReqType' /\ ListType' /\ InterruptsType' /\ IntrType' /\ KstType' /\ KintType' /\ BadType'
      /\ Grows
  BY <1>1, <1>2 DEF StateTypes, WkType, ReqType, ListType, InterruptsType, IntrType, KstType, KintType, BadType,
                    Grows, Taken
<1>4. ASSUME MainType', MtType', SeType', EnvType'
      PROVE  TypeInv'
  BY <1>2, <1>3, <1>4, NoWorker DEF StateTypes
<1>5. CASE MainCheck \/ MainSleep
  BY <1>1, <1>2, <1>4, <1>5 DEF MainCheck, MainSleep, StateTypes, MainType, MtType, SeType, EnvType
<1>6. CASE MainWake
  <2>1. mt.finish - 1 \in Nat
    BY <1>1, <1>6 DEF MainWake, MtRecs
  <2>2. mt' = [mt EXCEPT !.finish = mt.finish - 1]
    BY <1>6 DEF MainWake
  <2>3. MtType'
    BY <1>1, <2>1, <2>2 DEF MtType, MtRecs
  <2> QED
    BY <1>1, <1>2, <1>4, <1>6, <2>3 DEF MainWake, StateTypes, MainType, SeType, EnvType
<1>7. CASE MainJoin
  <2>1. mt.list \in Seq(Worker) /\ mt.list # <<>>
    BY <1>1, <1>7 DEF MainJoin, MtRecs
  <2>2. Head(mt.list) \in Worker
    BY <2>1
  <2>3. MtType'
    BY <1>1, <1>7, <2>2 DEF MainJoin, MtType, MtRecs
  <2> QED
    BY <1>1, <1>2, <1>4, <1>7, <2>3 DEF MainJoin, StateTypes, MainType, SeType, EnvType
<1>8. CASE MainReset
  <2>1. SeType'
    BY <1>1, <1>8 DEF MainReset, SeType, SessionRecs
  <2> QED
    BY <1>1, <1>2, <1>4, <1>8, <2>1 DEF MainReset, StateTypes, MainType, MtType, EnvType
<1>9. CASE fuse_ll_destroy
  <2>1. se.destroys \in Int /\ se.destroys + 1 \in Int
    BY <1>1 DEF SessionRecs
  <2>2. se' = [se EXCEPT !.destroys = IF se.got_init /\ ~se.got_destroy THEN se.destroys + 1 ELSE se.destroys]
    BY <1>9 DEF fuse_ll_destroy
  <2>3. SeType'
    BY <1>1, <2>1, <2>2 DEF SeType, SessionRecs
  <2> QED
    BY <1>1, <1>2, <1>4, <1>9, <2>3 DEF fuse_ll_destroy, StateTypes, MainType, MtType, EnvType
<1>10. CASE ExitSignal
  <2>1. env.signals - 1 \in Nat
    BY <1>1, <1>10 DEF ExitSignal, StateTypes, EnvType, EnvRecs
  <2>2. env' = [env EXCEPT !.signals = env.signals - 1] /\ se' = [se EXCEPT !.exited = TRUE]
    BY <1>10 DEF ExitSignal
  <2>3. EnvType' /\ SeType'
    BY <1>1, <2>1, <2>2 DEF StateTypes, EnvType, EnvRecs, SeType, SessionRecs
  <2> QED
    BY <1>1, <1>2, <1>4, <1>10, <2>3 DEF ExitSignal, StateTypes, MainType, MtType
<1> QED
  BY <1>2, <1>5, <1>6, <1>7, <1>8, <1>9, <1>10 DEF MainAlone

-----------------------------------------------------------------------------
(* The pool.                                                                 *)

LEMMA WorkersFinite ==
    ASSUME NEW A, NEW B, A \subseteq B, B \subseteq Worker
    PROVE  /\ IsFiniteSet(A) /\ Cardinality(A) \in Nat
           /\ Cardinality(A) <= Cardinality(B)
           /\ Cardinality(A) = 0 <=> A = {}
<1>1. IsFiniteSet(Worker) /\ A \subseteq Worker
  BY RequestsAssumption
<1>2. IsFiniteSet(A) /\ IsFiniteSet(B)
  BY <1>1, FS_Subset
<1> QED
  BY <1>2, FS_Subset, FS_CardinalityType, FS_EmptySet

\* What the pool is counted by stays as it is.
PoolSame ==
    /\ Started' = Started /\ Avail' = Avail /\ NotBusy' = NotBusy
    /\ mt'.list = mt.list /\ mt'.numavail = mt.numavail /\ mt'.numworker = mt.numworker
    /\ mt'.exit = mt.exit /\ mt'.joins = mt.joins
    /\ env'.threads = env.threads /\ (env.failed => env'.failed)

LEMMA FreeThreads ==
    ASSUME StateTypes
    PROVE  Free = env.threads \ Started /\ Free \subseteq Worker
BY DEF StateTypes, EnvType, EnvRecs, Free, Started

LEMMA PoolKept ==
    ASSUME TypeInv, TypeInv', PoolInv, PoolSame, main' = main, se.exited => se'.exited
    PROVE  PoolInv'
<1>1. Free' = Free
  <2>1. StateTypes /\ StateTypes'
    BY DEF TypeInv
  <2>2. Free = env.threads \ Started /\ Free' = env'.threads \ Started'
    BY <2>1 DEF StateTypes, EnvType, EnvRecs, Free, Started
  <2> QED
    BY <2>2 DEF PoolSame
<1> QED
  BY <1>1 DEF PoolInv, PoolSame

\* A step of worker t between two places that count alike.
LEMMA SameCounts ==
    ASSUME NEW t \in Worker, wk[t].pc # "none", wk'[t].pc # "none",
           wk[t].pc \in Busy <=> wk'[t].pc \in Busy,
           wk[t].pc \in Busy => wk'[t].forget = wk[t].forget,
           \A u \in Worker \ {t} : wk'[u] = wk[u]
    PROVE  Started' = Started /\ Avail' = Avail /\ NotBusy' = NotBusy
<1>1. \A u \in Worker : u # t => wk'[u] = wk[u]
  OBVIOUS
<1> QED
  BY <1>1 DEF Started, Avail, NotBusy

LEMMA SameCountsUntouched ==
    ASSUME \A u \in Worker : Untouched(u)
    PROVE  Started' = Started /\ Avail' = Avail /\ NotBusy' = NotBusy
BY DEF Untouched, Started, Avail, NotBusy

\* The steps of a worker other than those that change the counters.
Receiving(t) ==
    \/ LoopHead(t)
    \/ \E r \in Request, isIntr \in BOOLEAN : Receive(t, r, isIntr)
    \/ ReceiveUnmounted(t)
    \/ ReceiveFails(t)
    \/ Cancelled(t)
    \/ Post(t)

HandlerStep(t) ==
    \/ ProcessNoMemory(t)
    \/ ProcessRequest(t)
    \/ do_interrupt(t)
    \/ ReplyStale(t)
    \/ do_init(t)
    \/ do_destroy(t)
    \/ PrepareInterrupt(t)
    \/ CallbackReturns(t)
    \/ UnsetInterrupt(t)
    \/ Reply(t)
    \/ fuse_free_req(t)
    \/ LockInterrupted(t)
    \/ fuse_interrupt(t)
    \/ UnlockInterrupted(t)
    \/ UnrefInterrupted(t)

LEMMA ReceivingTypes ==
    ASSUME TypeInv, NEW t \in Worker, Receiving(t)
    PROVE  TypeInv' /\ PoolSame /\ main' = main /\ (se.exited => se'.exited)
<1>1. mt \in MtRecs /\ env \in EnvRecs /\ se \in SessionRecs
  BY DEF TypeInv, StateTypes, MtType, EnvType, SeType
<1> USE DEF Busy, Handling, Interrupting
<1>2. ASSUME LoopHead(t)
      PROVE  TypeInv' /\ PoolSame /\ main' = main /\ (se.exited => se'.exited)
  BY <1>2, LoopHeadTypes, SameCounts DEF LoopHead, Becomes, PoolSame
<1>3. ASSUME NEW r \in Request, NEW isIntr \in BOOLEAN, Receive(t, r, isIntr)
      PROVE  TypeInv' /\ PoolSame /\ main' = main /\ (se.exited => se'.exited)
  <2>1. /\ TypeInv'
        /\ \E pc \in {"post", "got"} : \E m, i : Becomes(t, pc, m, i, wk[t].stale, wk[t].peer, wk[t].d)
    BY <1>3, ReceiveTypes
  <2>2. wk[t].pc = "receive" /\ UNCHANGED <<mt, main, se, env>>
    BY <1>3 DEF Receive
  <2>3. Started' = Started /\ Avail' = Avail /\ NotBusy' = NotBusy
    BY <2>1, <2>2, SameCounts DEF Becomes
  <2> QED
    BY <2>1, <2>2, <2>3 DEF PoolSame
<1>4. ASSUME ReceiveUnmounted(t)
      PROVE  TypeInv' /\ PoolSame /\ main' = main /\ (se.exited => se'.exited)
  BY <1>1, <1>4, ReceiveUnmountedTypes, SameCounts DEF ReceiveUnmounted, Becomes, PoolSame, SessionRecs
<1>5. ASSUME ReceiveFails(t)
      PROVE  TypeInv' /\ PoolSame /\ main' = main /\ (se.exited => se'.exited)
  <2>1. TypeInv' /\ Becomes(t, "post", wk[t].m, wk[t].intr, wk[t].stale, wk[t].peer, wk[t].d)
    BY <1>5, ReceiveFailsTypes
  <2>2. wk[t].pc = "receive" /\ main' = main
    BY <1>5 DEF ReceiveFails
  <2>3. Started' = Started /\ Avail' = Avail /\ NotBusy' = NotBusy
    BY <2>1, <2>2, SameCounts DEF Becomes
  <2>4. /\ mt'.list = mt.list /\ mt'.numavail = mt.numavail /\ mt'.numworker = mt.numworker
        /\ mt'.exit = mt.exit /\ mt'.joins = mt.joins
    BY <1>1, <1>5 DEF ReceiveFails, MtRecs
  <2>5. env'.threads = env.threads /\ env'.failed
    BY <1>1, <1>5 DEF ReceiveFails, Failure, EnvRecs
  <2>6. se.exited => se'.exited
    BY <1>5 DEF ReceiveFails
  <2> QED
    BY <2>1, <2>2, <2>3, <2>4, <2>5, <2>6 DEF PoolSame
<1>6. ASSUME Cancelled(t)
      PROVE  TypeInv' /\ PoolSame /\ main' = main /\ (se.exited => se'.exited)
  BY <1>6, CancelledTypes, SameCounts DEF Cancelled, Becomes, PoolSame
<1>7. ASSUME Post(t)
      PROVE  TypeInv' /\ PoolSame /\ main' = main /\ (se.exited => se'.exited)
  <2>1. TypeInv' /\ Becomes(t, "ended", wk[t].m, wk[t].intr, wk[t].stale, wk[t].peer, wk[t].d)
    BY <1>7, PostTypes
  <2>2. /\ wk[t].pc = "post" /\ main' = main /\ se' = se /\ env' = env
        /\ mt'.list = mt.list /\ mt'.numavail = mt.numavail /\ mt'.numworker = mt.numworker
        /\ mt'.exit = mt.exit /\ mt'.joins = mt.joins
    BY <1>1, <1>7 DEF Post, MtRecs
  <2>3. Started' = Started /\ Avail' = Avail /\ NotBusy' = NotBusy
    BY <2>1, <2>2, SameCounts DEF Becomes
  <2> QED
    BY <2>1, <2>2, <2>3 DEF PoolSame
<1> QED
  BY <1>2, <1>3, <1>4, <1>5, <1>6, <1>7 DEF Receiving

LEMMA HandlerStepTypes ==
    ASSUME TypeInv, IsInjective(list), IsInjective(interrupts), NEW t \in Worker, HandlerStep(t)
    PROVE  TypeInv' /\ PoolSame /\ main' = main /\ (se.exited => se'.exited)
<1>1. mt \in MtRecs /\ env \in EnvRecs /\ se \in SessionRecs /\ wk[t] \in WorkerRecs /\ WorkerOK(t)
  BY DEF TypeInv, StateTypes, MtType, EnvType, SeType, WkType
<1>2. /\ mt' = mt /\ main' = main /\ (se.exited => se'.exited)
      /\ env'.threads = env.threads /\ (env.failed => env'.failed)
  BY <1>1 DEF HandlerStep, ProcessNoMemory, ProcessRequest, do_interrupt, ReplyStale, do_init, do_destroy,
     PrepareInterrupt, CallbackReturns, UnsetInterrupt, Reply, fuse_free_req, LockInterrupted, fuse_interrupt,
     UnlockInterrupted, UnrefInterrupted, Failure, EnvRecs, SessionRecs
<1>3. ASSUME NEW pc \in Busy, NEW m, NEW i, NEW s, NEW p, NEW d, Becomes(t, pc, m, i, s, p, d), wk[t].pc \in Busy
      PROVE  Started' = Started /\ Avail' = Avail /\ NotBusy' = NotBusy
  <2>1. "none" \notin Busy
    BY DEF Busy, Handling, Interrupting
  <2> QED
    BY <1>3, <2>1, SameCounts DEF Becomes
<1>4. wk[t].pc \in Busy
  BY DEF HandlerStep, ProcessNoMemory, ProcessRequest, do_interrupt, ReplyStale, do_init, do_destroy,
     PrepareInterrupt, CallbackReturns, UnsetInterrupt, Reply, fuse_free_req, LockInterrupted, fuse_interrupt,
     UnlockInterrupted, UnrefInterrupted, Busy, Handling, Interrupting
<1>5. {"process", "done", "reply", "callback", "unset", "free", "lock", "unlock", "signal", "unref", "eagain"} \subseteq Busy
  BY DEF Busy, Handling, Interrupting
<1>6. \A op : Known(op) => Dispatch(op) \in Busy
  BY Dispatches DEF Busy, Handling
<1>7. ASSUME TypeInv', Started' = Started, Avail' = Avail, NotBusy' = NotBusy
      PROVE  TypeInv' /\ PoolSame /\ main' = main /\ (se.exited => se'.exited)
  BY <1>2, <1>7 DEF PoolSame
<1>8. CASE ProcessNoMemory(t)
  BY <1>3, <1>4, <1>5, <1>7, <1>8, ProcessNoMemoryTypes
<1>9. CASE ProcessRequest(t)
  <2>1. TypeInv'
    BY <1>9, ProcessRequestTypes
  <2>2. \E pc \in Busy : \E s : Becomes(t, pc, wk[t].m, wk[t].intr, s, wk[t].peer, wk[t].d)
    BY <1>5, <1>6, <1>9, ProcessRequestTypes DEF Refused, Known
  <2> QED
    BY <1>3, <1>4, <1>7, <2>1, <2>2
<1>10. CASE do_interrupt(t)
  BY <1>3, <1>4, <1>5, <1>7, <1>10, do_interruptTypes
<1>11. CASE ReplyStale(t)
  <2>1. Known(kst[wk[t].m].op)
    BY <1>1, <1>11 DEF ReplyStale, WorkerOK
  <2> QED
    BY <1>3, <1>4, <1>6, <1>7, <1>11, <2>1, ReplyStaleTypes
<1>12. CASE do_init(t)
  BY <1>3, <1>4, <1>5, <1>7, <1>12, do_initTypes
<1>13. CASE do_destroy(t)
  BY <1>3, <1>4, <1>5, <1>7, <1>13, do_destroyTypes
<1>14. CASE PrepareInterrupt(t)
  BY <1>3, <1>4, <1>5, <1>7, <1>14, PrepareInterruptTypes
<1>15. CASE CallbackReturns(t)
  BY <1>3, <1>4, <1>5, <1>7, <1>15, CallbackReturnsTypes
<1>16. CASE UnsetInterrupt(t)
  BY <1>3, <1>4, <1>5, <1>7, <1>16, UnsetInterruptTypes
<1>17. CASE Reply(t)
  BY <1>3, <1>4, <1>5, <1>7, <1>17, ReplyTypes
<1>18. CASE fuse_free_req(t)
  BY <1>3, <1>4, <1>5, <1>7, <1>18, fuse_free_reqTypes
<1>19. CASE LockInterrupted(t)
  BY <1>3, <1>4, <1>5, <1>7, <1>19, LockInterruptedTypes
<1>20. CASE fuse_interrupt(t)
  BY <1>3, <1>4, <1>5, <1>7, <1>20, fuse_interruptTypes, SameCountsUntouched
<1>21. CASE UnlockInterrupted(t)
  BY <1>3, <1>4, <1>5, <1>7, <1>21, UnlockInterruptedTypes
<1>22. CASE UnrefInterrupted(t)
  BY <1>3, <1>4, <1>5, <1>7, <1>22, UnrefInterruptedTypes
<1> QED
  BY <1>8, <1>9, <1>10, <1>11, <1>12, <1>13, <1>14, <1>15, <1>16, <1>17, <1>18, <1>19, <1>20, <1>21, <1>22
     DEF HandlerStep

\* The pool's numbers, when no session end is under way.
LEMMA PoolNumbers ==
    ASSUME TypeInv, PoolInv
    PROVE  /\ mt.numavail \in Nat /\ mt.numworker \in Int /\ mt.list \in Seq(Worker)
           /\ Avail \subseteq NotBusy /\ NotBusy \subseteq Worker /\ Avail \subseteq Started /\ Started \subseteq Worker
           /\ MaxIdle >= 1 /\ MaxIdle \in Nat
BY RequestsAssumption DEF TypeInv, StateTypes, MtType, MtRecs, PoolInv, Avail, NotBusy, Started

\* A worker is started.
LEMMA PoolGrows ==
    ASSUME TypeInv, PoolInv, ~mt.exit, NEW u \in Free, main' \notin {"start", "join", "destroy", "done"},
           main' = "cancel" => se'.exited,
           TypeInv', Started' = Started \cup {u}, u \in Avail', mt'.numavail = Cardinality(Avail'),
           mt'.list = Append(mt.list, u), mt'.numworker = mt.numworker + 1,
           mt'.exit = mt.exit, mt'.joins = mt.joins
    PROVE  PoolInv'
<1>1. u \in Worker /\ u \notin Started
  BY FreeThreads DEF TypeInv
<1>2. mt.list \in Seq(Worker) /\ IsInjective(mt.list) /\ ToSet(mt.list) = Started /\ mt.joins = Null
  BY PoolNumbers DEF PoolInv
<1>3. IsInjective(mt'.list) /\ ToSet(mt'.list) = Started' /\ Len(mt'.list) = Len(mt.list) + 1
  BY <1>1, <1>2, AppendElement
<1>4. mt'.numworker = Len(mt'.list)
  BY <1>3 DEF PoolInv
<1>5. Avail' \subseteq NotBusy' /\ NotBusy' \subseteq Worker
  BY DEF Avail, NotBusy
<1>6. /\ Cardinality(Avail') \in Nat /\ Cardinality(NotBusy') \in Nat
      /\ Cardinality(Avail') <= Cardinality(NotBusy') /\ Cardinality(Avail') # 0
  BY <1>5, WorkersFinite
<1>7. mt'.numavail \in 0..Cardinality(NotBusy') /\ mt'.numavail > 0
  BY <1>6
<1> QED
  BY <1>2, <1>3, <1>4, <1>7 DEF PoolInv

\* fuse_do_work counts itself as busy.
LEMMA TakeRequestPool ==
    ASSUME TypeInv, PoolInv, NEW t \in Worker, NEW ok \in BOOLEAN, TakeRequest(t, ok)
    PROVE  TypeInv' /\ PoolInv' /\ main' = main /\ se' = se
<1>1. /\ TypeInv' /\ main' = main /\ se' = se /\ wk[t].pc = "got" /\ wk[t] \in WorkerRecs
  BY TakeRequestTypes DEF TakeRequest, TypeInv, StateTypes, WkType
<1>2. /\ t \in Started /\ t \in Avail /\ "got" \notin Busy /\ "ended" \notin Busy
      /\ "loop" \notin Busy /\ "process" \in Busy
  BY <1>1 DEF Started, Avail, Busy, Handling, Interrupting
<1>3. CASE mt.exit
  <2>1. mt' = mt /\ env' = env /\ wk'[t].pc = "ended" /\ \A v \in Worker \ {t} : wk'[v] = wk[v]
    BY <1>3, TakeRequestTypes DEF TakesNone, Takes, Idle
  <2>2. Started' = Started /\ Avail' = Avail /\ NotBusy' = NotBusy
    BY <1>1, <1>2, <2>1, SameCounts
  <2> QED
    BY <1>1, <2>1, <2>2, PoolKept DEF PoolSame
<1>4. CASE ~mt.exit
  <2> DEFINE w == [wk[t] EXCEPT !.pc = "process", !.forget = ~wk[t].intr /\ kst[wk[t].m].op \in Forgets]
  <2>1. wk'[t] = w
    BY <1>4, TakeRequestTypes DEF TakesNone, Takes
  <2>2. w.pc = "process"
    BY <1>1 DEF WorkerRecs
  <2> HIDE DEF w
  <2>3. wk'[t].pc = "process"
    BY <2>1, <2>2
  <2>4. mt.numavail = Cardinality(Avail) /\ mt \in MtRecs /\ IsFiniteSet(Avail) /\ mt.numavail > 0
    BY <1>2, <1>4, PoolNumbers, WorkersFinite DEF PoolInv, TypeInv, StateTypes, MtType
  <2>5. CASE GoesOnAlone(t)
    <3>1. /\ mt'.list = mt.list /\ mt'.numworker = mt.numworker /\ mt'.exit = mt.exit /\ mt'.joins = mt.joins
          /\ mt'.numavail = IF wk'[t].forget THEN mt.numavail ELSE mt.numavail - 1
      BY <2>4, <2>5 DEF MtRecs, GoesOnAlone
    <3>2. Started' = Started /\ env'.threads = env.threads
      BY <1>2, <2>3, <2>5 DEF Started, GoesOnAlone
    <3>3. Free' = Free
      <4>1. Free = env.threads \ Started /\ Free' = env'.threads \ Started'
        BY <1>1 DEF TypeInv, StateTypes, EnvType, EnvRecs, Free, Started
      <4> QED
        BY <3>2, <4>1
    <3>4. Avail' = IF wk'[t].forget THEN Avail ELSE Avail \ {t}
      BY <1>1, <1>2, <2>3, <2>5 DEF Avail, GoesOnAlone
    <3>5. mt'.numavail = Cardinality(Avail')
      BY <1>2, <2>4, <3>1, <3>4, FS_RemoveElement
    <3>6. Avail' \subseteq NotBusy' /\ NotBusy' \subseteq Worker
      BY DEF Avail, NotBusy
    <3>7. mt'.numavail \in 0..Cardinality(NotBusy')
      <4>1. Cardinality(Avail') \in Nat /\ Cardinality(NotBusy') \in Nat /\ Cardinality(Avail') <= Cardinality(NotBusy')
        BY <3>6, WorkersFinite
      <4> QED
        BY <3>5, <4>1
    <3>8. env'.failed \/ mt'.numavail > 0 \/ Free' = {}
      <4>1. mt.numavail \in Nat
        BY PoolNumbers
      <4>2. CASE env'.failed
        BY <4>2
      <4>3. CASE mt.numavail = (IF wk'[t].forget THEN 0 ELSE 1) => Free = {}
        BY <2>4, <3>1, <3>3, <4>1, <4>3
      <4> QED
        BY <2>5, <4>2, <4>3 DEF GoesOnAlone
    <3> QED
      BY <1>1, <1>4, <3>1, <3>2, <3>5, <3>7, <3>8 DEF PoolInv
  <2>6. CASE \E u \in Free : StartsAnother(t, u)
    <3>1. PICK u \in Free : StartsAnother(t, u)
      BY <2>6
    <3>2. u \in Worker /\ u \notin Started /\ u # t /\ wk'[u].pc = "loop"
      BY <1>2, <3>1, FreeThreads DEF TypeInv, Idle, StartsAnother
    <3>3. /\ mt'.list = Append(mt.list, u) /\ mt'.numworker = mt.numworker + 1 /\ mt'.exit = mt.exit
          /\ mt'.joins = mt.joins
          /\ mt'.numavail = IF wk'[t].forget THEN mt.numavail + 1 ELSE mt.numavail
      BY <2>4, <3>1 DEF MtRecs, StartsAnother
    <3>4. Started' = Started \cup {u}
      BY <1>2, <2>3, <3>1, <3>2 DEF Started, StartsAnother
    <3>5. Avail' = (IF wk'[t].forget THEN Avail ELSE Avail \ {t}) \cup {u}
      BY <1>1, <1>2, <2>3, <3>1, <3>2 DEF Avail, StartsAnother
    <3>6. mt'.numavail = Cardinality(Avail')
      <4>1. u \notin Avail
        BY <3>2 DEF Started, Avail
      <4>2. CASE wk'[t].forget
        <5>1. Avail' = Avail \cup {u} /\ mt'.numavail = mt.numavail + 1
          BY <3>3, <3>5, <4>2
        <5>2. Cardinality(Avail \cup {u}) = Cardinality(Avail) + 1
          BY <2>4, <4>1, FS_AddElement
        <5> QED
          BY <2>4, <5>1, <5>2
      <4>3. CASE ~wk'[t].forget
        <5>1. IsFiniteSet(Avail \ {t}) /\ Cardinality(Avail \ {t}) = mt.numavail - 1
          BY <1>2, <2>4, FS_RemoveElement
        <5>2. Cardinality((Avail \ {t}) \cup {u}) = mt.numavail - 1 + 1
          BY <4>1, <5>1, FS_AddElement
        <5>3. mt.numavail \in Nat
          BY PoolNumbers
        <5> QED
          BY <3>3, <3>5, <4>3, <5>2, <5>3
      <4> QED
        BY <4>2, <4>3
    <3>7. main' \notin {"start", "join", "destroy", "done"} /\ (main' = "cancel" => se'.exited)
      BY <1>1, <1>2, <1>4 DEF PoolInv
    <3> QED
      BY <1>1, <1>4, <3>2, <3>3, <3>4, <3>5, <3>6, <3>7, PoolGrows
  <2> QED
    BY <1>4, <2>5, <2>6, TakeRequestTypes DEF TakesNone
<1> QED
  BY <1>3, <1>4

\* A worker that is done with its message is counted again, or leaves.
LEMMA FinishedPool ==
    ASSUME TypeInv, PoolInv, NEW t \in Worker, Finished(t)
    PROVE  TypeInv' /\ PoolInv' /\ main' = main /\ se' = se
<1> DEFINE avail == IF wk[t].forget THEN mt.numavail ELSE mt.numavail + 1
<1>1. /\ IsInjective(mt.list) /\ wk[t].pc = "done" /\ main' = main /\ se' = se /\ env' = env /\ mt \in MtRecs
  BY DEF PoolInv, Finished, TypeInv, StateTypes, MtType
<1>2. TypeInv'
  BY <1>1, FinishedTypes
<1>3. /\ mt.numavail \in Nat /\ avail \in Nat /\ avail >= mt.numavail /\ MaxIdle >= 1 /\ MaxIdle \in Nat
      /\ mt.numworker \in Int
  BY PoolNumbers
<1>4. /\ t \in Started /\ "done" \in Busy /\ "loop" \notin Busy /\ "ended" \notin Busy /\ "none" \notin Busy
      /\ (t \in Avail <=> wk[t].forget) /\ (t \in NotBusy <=> wk[t].forget)
  BY <1>1 DEF Started, Avail, NotBusy, Busy, Handling, Interrupting
<1>5. IsFiniteSet(Avail) /\ IsFiniteSet(NotBusy) /\ Cardinality(NotBusy) \in Nat
  BY PoolNumbers, WorkersFinite
<1>6. Avail' \subseteq NotBusy' /\ NotBusy' \subseteq Worker
  BY DEF Avail, NotBusy
<1>7. Free = env.threads \ Started /\ Free' = env'.threads \ Started'
  BY <1>2 DEF TypeInv, StateTypes, EnvType, EnvRecs, Free, Started
<1>8. CASE /\ Rests(t, "loop") \/ (mt.exit /\ Rests(t, "ended"))
           /\ mt' = [mt EXCEPT !.numavail = avail]
  <2>1. /\ wk'[t].pc \in {"loop", "ended"} /\ \A v \in Worker \ {t} : wk'[v] = wk[v]
    BY <1>8 DEF Rests
  <2>2. /\ mt'.list = mt.list /\ mt'.numworker = mt.numworker /\ mt'.exit = mt.exit /\ mt'.joins = mt.joins
        /\ mt'.numavail = avail
    BY <1>1, <1>8 DEF MtRecs
  <2>3. Started' = Started /\ Avail' = Avail \cup {t} /\ NotBusy' = NotBusy \cup {t}
    BY <1>4, <2>1 DEF Started, Avail, NotBusy
  <2>4. ~mt.exit => avail = Cardinality(Avail')
    <3>1. Cardinality(Avail \cup {t}) = IF t \in Avail THEN Cardinality(Avail) ELSE Cardinality(Avail) + 1
      BY <1>5, FS_AddElement
    <3>2. ~mt.exit => mt.numavail = Cardinality(Avail)
      BY DEF PoolInv
    <3> QED
      BY <1>3, <1>4, <2>3, <3>1, <3>2
  <2>5. avail \in 0..Cardinality(NotBusy')
    <3>1. Cardinality(NotBusy') = IF wk[t].forget THEN Cardinality(NotBusy) ELSE Cardinality(NotBusy) + 1
      BY <1>4, <1>5, <2>3, FS_AddElement
    <3>2. mt.numavail <= Cardinality(NotBusy)
      BY <1>3, <1>5 DEF PoolInv
    <3> QED
      BY <1>3, <1>5, <3>1, <3>2
  <2>6. Free' = Free
    BY <1>1, <1>7, <2>3
  <2> HIDE DEF avail
  <2>7. mt.numavail > 0 => mt'.numavail > 0
    BY <1>3, <2>2
  <2> QED
    BY <1>1, <1>2, <2>2, <2>3, <2>4, <2>5, <2>6, <2>7 DEF PoolInv
<1>9. CASE /\ ~mt.exit /\ avail > MaxIdle /\ Rests(t, "none")
           /\ mt' = [mt EXCEPT !.numavail = avail - 1, !.numworker = mt.numworker - 1,
                               !.list = RemoveFirst(mt.list, t)]
  <2>1. wk'[t].pc = "none" /\ \A v \in Worker \ {t} : wk'[v] = wk[v]
    BY <1>9 DEF Rests
  <2>2. /\ mt'.list = RemoveFirst(mt.list, t) /\ mt'.numworker = mt.numworker - 1
        /\ mt'.exit = mt.exit /\ mt'.joins = mt.joins /\ mt'.numavail = avail - 1
    BY <1>1, <1>9 DEF MtRecs
  <2>3. Started' = Started \ {t} /\ Avail' = Avail \ {t}
    BY <1>4, <2>1 DEF Started, Avail
  <2>4. avail - 1 = Cardinality(Avail')
    <3>1. Cardinality(Avail \ {t}) = IF t \in Avail THEN Cardinality(Avail) - 1 ELSE Cardinality(Avail)
      BY <1>5, FS_RemoveElement
    <3>2. mt.numavail = Cardinality(Avail)
      BY <1>9 DEF PoolInv
    <3> QED
      BY <1>3, <1>4, <2>3, <3>1, <3>2
  <2>5. avail - 1 \in 0..Cardinality(NotBusy') /\ avail - 1 > 0
    <3>1. Cardinality(Avail') \in Nat /\ Cardinality(NotBusy') \in Nat /\ Cardinality(Avail') <= Cardinality(NotBusy')
      BY <1>6, WorkersFinite
    <3> QED
      BY <1>3, <1>9, <2>4, <3>1
  <2>6. ToSet(mt.list) = Started /\ mt.numworker = Len(mt.list) /\ mt.list \in Seq(Worker) /\ mt.joins = Null
    BY <1>9, PoolNumbers DEF PoolInv
  <2>7. IsInjective(mt'.list) /\ ToSet(mt'.list) = Started' /\ mt'.numworker = Len(mt'.list)
    BY <1>1, <1>4, <2>2, <2>3, <2>6, UnlinkElement
  <2>8. main \notin {"start", "join", "destroy", "done"}
    BY <1>4, <1>9 DEF PoolInv
  <2> HIDE DEF avail
  <2> QED
    BY <1>1, <1>2, <1>9, <2>2, <2>4, <2>5, <2>6, <2>7, <2>8 DEF PoolInv
<1> QED
  BY <1>1, <1>8, <1>9, FinishedTypes

LEMMA KernelSame ==
    ASSUME TypeInv, Kernel
    PROVE  /\ UNCHANGED <<wk, mt, main, se, req, list, interrupts, intr, bad>>
           /\ env'.threads = env.threads /\ env'.failed = env.failed /\ PoolSame
<1>1. env \in EnvRecs
  BY DEF TypeInv, StateTypes, EnvType
<1>2. UNCHANGED <<wk, mt, main, se, req, list, interrupts, intr, bad>>
  BY DEF Kernel, KernelSend, KernelInterrupt, KernelUnmount
<1>3. env'.threads = env.threads /\ env'.failed = env.failed
  BY <1>1 DEF Kernel, KernelSend, KernelInterrupt, KernelUnmount, EnvRecs
<1> QED
  BY <1>2, <1>3 DEF PoolSame, Started, Avail, NotBusy

LEMMA MainStartPool ==
    ASSUME TypeInv, PoolInv, NEW ok \in BOOLEAN, MainStart(ok)
    PROVE  TypeInv' /\ PoolInv'
<1>1. /\ TypeInv' /\ main = "start" /\ Started = {} /\ ~mt.exit /\ mt.joins = Null /\ mt \in MtRecs
  BY MainStartTypes DEF MainStart, PoolInv, TypeInv, StateTypes, MtType
<1>2. CASE main' = "destroy" /\ wk' = wk /\ mt' = mt
  BY <1>1, <1>2 DEF PoolInv, Started, Avail, NotBusy
<1>3. ASSUME main' = "check", NEW u \in Free,
             mt' = [mt EXCEPT !.list = Append(mt.list, u), !.numavail = mt.numavail + 1,
                              !.numworker = mt.numworker + 1],
             wk'[u] = [Idle EXCEPT !.pc = "loop"], \A v \in Worker \ {u} : wk'[v] = wk[v]
      PROVE  PoolInv'
  <2>1. /\ mt'.list = Append(mt.list, u) /\ mt'.numworker = mt.numworker + 1 /\ mt'.exit = mt.exit
        /\ mt'.joins = mt.joins /\ mt'.numavail = mt.numavail + 1
    BY <1>1, <1>3 DEF MtRecs
  <2>2. u \in Worker /\ u \notin Started /\ wk'[u].pc = "loop" /\ "loop" \notin Busy
    BY <1>3, FreeThreads DEF TypeInv, Idle, Busy, Handling, Interrupting
  <2>3. Started' = Started \cup {u} /\ Avail' = Avail \cup {u} /\ u \notin Avail
    BY <1>3, <2>2, ZenonT(30) DEF Started, Avail
  <2>4. mt'.numavail = Cardinality(Avail')
    <3>1. IsFiniteSet(Avail) /\ mt.numavail = Cardinality(Avail)
      BY <1>1, PoolNumbers, WorkersFinite DEF PoolInv
    <3>2. Cardinality(Avail \cup {u}) = Cardinality(Avail) + 1
      BY <2>3, <3>1, FS_AddElement
    <3> QED
      BY <2>1, <2>3, <3>1, <3>2
  <2> QED
    BY <1>1, <1>3, <2>1, <2>3, <2>4, PoolGrows
<1> QED
  BY <1>1, <1>2, <1>3, MainStartTypes

LEMMA MainCancelPool ==
    ASSUME TypeInv, PoolInv, MainCancel
    PROVE  TypeInv' /\ PoolInv'
<1>1. /\ TypeInv' /\ main = "cancel" /\ main' = "join" /\ se' = se /\ env' = env /\ mt \in MtRecs
      /\ mt' = [mt EXCEPT !.exit = TRUE]
  BY MainCancelTypes DEF MainCancel, TypeInv, StateTypes, MtType
<1>2. Started' = Started /\ Avail' = Avail /\ NotBusy' = NotBusy
  BY MainCancelTypes, SameCountsUntouched
<1>3. mt'.list = mt.list /\ mt'.numavail = mt.numavail /\ mt'.joins = mt.joins /\ mt'.exit = TRUE
  BY <1>1 DEF MtRecs
<1> QED
  BY <1>1, <1>2, <1>3 DEF PoolInv

LEMMA fuse_join_workerPool ==
    ASSUME TypeInv, PoolInv, fuse_join_worker
    PROVE  TypeInv' /\ PoolInv'
<1>1. IsInjective(mt.list)
  BY DEF PoolInv
<1>2. /\ TypeInv' /\ mt.joins \in Worker /\ wk[mt.joins].pc \in {"ended", "none"} /\ Rests(mt.joins, "none")
      /\ main' = main /\ se' = se /\ env' = env /\ mt \in MtRecs
      /\ mt' = [mt EXCEPT !.list = RemoveFirst(mt.list, mt.joins), !.joins = Null]
  BY <1>1, fuse_join_workerTypes DEF fuse_join_worker, TypeInv, StateTypes, MtType
<1>3. PICK u \in Worker : u = mt.joins
  BY <1>2
<1>4. /\ main = "join" /\ mt.exit /\ ToSet(mt.list) = Started
  BY <1>3, RequestsAssumption DEF PoolInv
<1>5. /\ mt'.list = RemoveFirst(mt.list, u) /\ mt'.joins = Null /\ mt'.exit = mt.exit
      /\ mt'.numavail = mt.numavail
  BY <1>2, <1>3 DEF MtRecs
<1>6. wk'[u].pc = "none" /\ \A v \in Worker \ {u} : wk'[v] = wk[v]
  BY <1>2, <1>3 DEF Rests
<1>7. Started' = Started \ {u}
  BY <1>6 DEF Started
<1>8. NotBusy' = NotBusy
  BY <1>2, <1>3, <1>6 DEF NotBusy, Busy, Handling, Interrupting
<1>9. IsInjective(mt'.list) /\ ToSet(mt'.list) = Started'
  BY <1>1, <1>4, <1>5, <1>7, PoolNumbers, UnlinkElement
<1> QED
  BY <1>2, <1>4, <1>5, <1>8, <1>9 DEF PoolInv

LEMMA MainAlonePool ==
    ASSUME TypeInv, PoolInv, MainAlone
    PROVE  TypeInv' /\ PoolInv' /\ UNCHANGED <<wk, req, list, interrupts, intr, kst, kint, bad>>
<1>1. /\ TypeInv' /\ UNCHANGED <<wk, req, list, interrupts, intr, kst, kint, bad>>
      /\ mt \in MtRecs /\ se \in SessionRecs /\ env \in EnvRecs
  BY MainAloneTypes DEF TypeInv, StateTypes, MtType, SeType, EnvType
<1>2. Started' = Started /\ Avail' = Avail /\ NotBusy' = NotBusy
  BY <1>1 DEF Started, Avail, NotBusy
<1>3. Free = env.threads \ Started /\ Free' = env'.threads \ Started'
  BY <1>1 DEF TypeInv, StateTypes, EnvType, EnvRecs, Free, Started
<1>4. CASE MainCheck
  BY <1>1, <1>2, <1>3, <1>4 DEF MainCheck, PoolInv
<1>5. CASE MainSleep
  BY <1>1, <1>2, <1>3, <1>5 DEF MainSleep, PoolInv
<1>6. CASE MainWake
  <2>1. /\ mt'.list = mt.list /\ mt'.numavail = mt.numavail /\ mt'.numworker = mt.numworker
        /\ mt'.exit = mt.exit /\ mt'.joins = mt.joins
    BY <1>1, <1>6 DEF MainWake, MtRecs
  <2> QED
    BY <1>1, <1>2, <1>3, <1>6, <2>1 DEF MainWake, PoolInv
<1>7. CASE MainJoin
  <2>1. /\ mt'.list = mt.list /\ mt'.numavail = mt.numavail /\ mt'.numworker = mt.numworker
        /\ mt'.exit = mt.exit /\ mt'.joins = Head(mt.list)
    BY <1>1, <1>7 DEF MainJoin, MtRecs
  <2>2. mt.list \in Seq(Worker) /\ mt.list # <<>>
    BY <1>7, PoolNumbers DEF MainJoin
  <2>3. Head(mt.list) \in ToSet(mt.list)
    BY <2>2 DEF ToSet
  <2> QED
    BY <1>1, <1>2, <1>3, <1>7, <2>1, <2>3 DEF MainJoin, PoolInv
<1>8. CASE MainReset
  <2>1. Started = {}
    <3>1. mt.list = <<>> /\ ToSet(mt.list) = Started
      BY <1>8 DEF MainReset, PoolInv
    <3> QED
      BY <3>1 DEF ToSet
  <2> QED
    BY <1>1, <1>2, <1>3, <1>8, <2>1 DEF MainReset, PoolInv
<1>9. CASE fuse_ll_destroy
  BY <1>1, <1>2, <1>3, <1>9 DEF fuse_ll_destroy, PoolInv
<1>10. CASE ExitSignal
  <2>1. se'.exited /\ env'.threads = env.threads /\ env'.failed = env.failed
    BY <1>1, <1>10 DEF ExitSignal, SessionRecs, EnvRecs
  <2> QED
    BY <1>1, <1>2, <1>3, <1>10, <2>1 DEF ExitSignal, PoolInv
<1> QED
  BY <1>1, <1>4, <1>5, <1>6, <1>7, <1>8, <1>9, <1>10 DEF MainAlone

LEMMA PoolInit ==
    ASSUME Init
    PROVE  PoolInv
<1>1. \A t \in Worker : wk[t].pc = "none"
  BY DEF Init, Idle
<1>2. Started = {} /\ Avail = {}
  BY <1>1 DEF Started, Avail
<1>3. Cardinality(Avail) = 0
  BY <1>2, FS_EmptySet
<1>4. Cardinality(NotBusy) \in Nat
  BY WorkersFinite DEF NotBusy
<1>5. /\ mt.list = <<>> /\ mt.numavail = 0 /\ mt.numworker = 0 /\ mt.exit = FALSE /\ mt.joins = Null
      /\ main = "start"
  BY DEF Init
<1>6. ToSet(mt.list) = {} /\ IsInjective(mt.list) /\ Len(mt.list) = 0
  BY <1>5 DEF ToSet, IsInjective
<1> QED
  BY <1>2, <1>3, <1>4, <1>5, <1>6 DEF PoolInv

\* The kinds of steps: the others are grouped by what they touch.
LEMMA NextCases ==
    ASSUME Next
    PROVE  \/ Kernel
           \/ \E t \in Worker : Receiving(t) \/ HandlerStep(t) \/ Finished(t)
           \/ \E t \in Worker, ok \in BOOLEAN : TakeRequest(t, ok)
           \/ \E ok \in BOOLEAN : MainStart(ok)
           \/ MainCancel
           \/ fuse_join_worker
           \/ MainAlone
<1>1. ASSUME NEW t \in Worker, Work(t) \/ Fails(t)
      PROVE  Receiving(t) \/ HandlerStep(t) \/ Finished(t) \/ \E ok \in BOOLEAN : TakeRequest(t, ok)
  BY <1>1 DEF Work, Fails, Receiving, HandlerStep
<1>2. ASSUME Main
      PROVE  (\E ok \in BOOLEAN : MainStart(ok)) \/ MainCancel \/ fuse_join_worker \/ MainAlone
  BY <1>2 DEF Main, MainAlone
<1> QED
  BY <1>1, <1>2 DEF Next, MainAlone
=============================================================================
