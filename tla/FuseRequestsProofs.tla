------------------------- MODULE FuseRequestsProofs -------------------------
(***************************************************************************)
(* What TLAPS proves of FuseRequests, for any number of workers and        *)
(* requests: the pool's accounts, the lifetimes of requests, the delivery  *)
(* of interrupts and the one call of destroy.                              *)
(***************************************************************************)
EXTENDS FuseRequestsSteps

-----------------------------------------------------------------------------
(* Requests and their interrupts.                                            *)

\* What a step may do to worker u without touching a request: nothing; drop a
\* message that is not begun, or that is done; start on one or give it up.
NothingHeld(u) ==
    \/ Untouched(u)
    \/ wk[u].pc \notin Handling \cup Interrupting /\ wk'[u].pc \notin Carrying
    \/ /\ wk[u].pc \in {"got", "process"} /\ wk'[u].pc \in {"process", "done"}
       /\ wk'[u].m = wk[u].m /\ wk'[u].intr = wk[u].intr

\* INTERRUPTs that were read stay so.
SentStay == \A r \in Request : kint[r] = "sent" => kint'[r] = "sent"

LEMMA HeldFrame ==
    ASSUME TypeInv, TypeInv', LifeInv, \A u \in Worker : NothingHeld(u), req' = req, list' = list
    PROVE  /\ HandlerInv' /\ CountsInv' /\ LockInv'
           /\ \A u \in Worker, r \in Request : (Asks(u, r)' => Asks(u, r)) /\ (Brings(u, r)' => Brings(u, r))
           /\ \A u \in Worker : /\ wk'[u].stale = wk[u].stale
                                /\ wk'[u].pc \in Interrupting => wk[u].pc \in Interrupting /\ wk'[u].m = wk[u].m
<1> USE DEF Carrying, Busy, Handling, Interrupting
<1>1. ASSUME NEW u \in Worker, NEW r \in Request
      PROVE  /\ Asks(u, r)' => Asks(u, r)
             /\ Asks(u, r)' /\ wk'[u].pc \in {"got", "process"} => wk[u].pc \in {"got", "process"}
             /\ Brings(u, r)' => Brings(u, r)
             /\ Asks(u, r) /\ wk[u].pc \in Handling => Asks(u, r)' /\ wk'[u].pc \in Handling
  BY DEF NothingHeld, Untouched, Asks, Brings
<1>2. ASSUME NEW u \in Worker
      PROVE  /\ wk'[u].pc \in Handling \cup Interrupting <=> wk[u].pc \in Handling \cup Interrupting
             /\ wk[u].pc \in Handling \cup Interrupting => Untouched(u)
  BY DEF NothingHeld, Untouched
<1>3. ASSUME NEW u \in Worker
      PROVE  wk'[u].stale = wk[u].stale
  <2>1. WorkerOK(u) /\ WorkerOK(u)' /\ NothingHeld(u)
    BY DEF TypeInv
  <2> QED
    BY <2>1 DEF WorkerOK, NothingHeld, Untouched
<1>4. \A r \in Request : Holders(r)' = Holders(r)
  BY <1>2 DEF Holders, Untouched
<1>5. HandlerInv'
  <2>1. list \in Seq(Request) /\ ToSet(list) \subseteq Request
    BY DEF TypeInv, StateTypes, ListType, ToSet
  <2>2. \A t, u \in Worker, r \in Request : Asks(t, r)' /\ Asks(u, r)' => t = u
    BY <1>1 DEF LifeInv, HandlerInv
  <2>3. \A r \in ToSet(list)' : \E t \in Worker : Asks(t, r)' /\ wk'[t].pc \in Handling
    BY <1>1, <2>1 DEF LifeInv, HandlerInv
  <2>4. \A t \in Worker, r \in Request : Asks(t, r)' /\ wk'[t].pc \in {"got", "process"} => Holders(r)' = {}
    BY <1>1, <1>4 DEF LifeInv, HandlerInv
  <2> QED
    BY <2>2, <2>3, <2>4 DEF LifeInv, HandlerInv
<1>6. CountsInv'
  BY <1>4 DEF LifeInv, CountsInv
<1>7. LockInv'
  <2>1. ASSUME NEW u \in Worker
        PROVE  /\ wk'[u].pc \in {"signal", "unlock", "callback", "unset"} => Untouched(u)
               /\ wk[u].pc \in {"signal", "unlock", "callback", "unset"} => Untouched(u)
    BY <1>2
  <2> QED
    BY <2>1 DEF LifeInv, LockInv, Untouched
<1> QED
  <2>1. \A u \in Worker : wk'[u].pc \in Interrupting => wk[u].pc \in Interrupting /\ wk'[u].m = wk[u].m
    BY <1>2 DEF Untouched, NothingHeld
  <2> QED
    BY <1>1, <1>3, <1>5, <1>6, <1>7, <2>1

LEMMA SameMessages ==
    ASSUME TypeInv, LifeInv, \A u \in Worker : wk'[u].stale = wk[u].stale,
           \A u \in Worker, r \in Request : Brings(u, r)' => Brings(u, r),
           \A u \in Worker : wk'[u].pc \in Interrupting => intr'[wk'[u].m],
           interrupts' = interrupts,
           \A r \in Request : intr[r] => intr'[r], SentStay
    PROVE  MessageInv'
<1>1. MessageInv /\ ToSet(interrupts) \subseteq Request /\ ToSet(interrupts)' = ToSet(interrupts)
  BY DEF LifeInv, TypeInv, StateTypes, InterruptsType, ToSet
<1>2. /\ \A t, u \in Worker, r \in Request : Brings(t, r)' /\ Brings(u, r)' => t = u
      /\ \A t, u \in Worker : wk'[t].stale = wk'[u].stale /\ wk'[t].stale # Null => t = u
      /\ \A t, u \in Worker, r \in Request : Brings(t, r)' => wk'[u].stale # r
  BY <1>1 DEF MessageInv
<1>3. /\ \A r \in ToSet(interrupts)' : kint'[r] = "sent" /\ intr'[r]
      /\ \A t \in Worker, r \in Request : Brings(t, r)' => r \notin ToSet(interrupts)' /\ kint'[r] = "sent"
      /\ \A t \in Worker, r \in Request :
           wk'[t].stale = r => r \notin ToSet(interrupts)' /\ kint'[r] = "sent" /\ intr'[r]
  BY <1>1 DEF MessageInv, SentStay
<1>4. IsInjective(interrupts)'
  BY <1>1 DEF MessageInv
<1> QED
  BY <1>2, <1>3, <1>4 DEF MessageInv

LEMMA LifeFrame ==
    ASSUME TypeInv, TypeInv', LifeInv, \A u \in Worker : NothingHeld(u),
           req' = req, list' = list, interrupts' = interrupts, intr' = intr, bad' = FALSE, SentStay
    PROVE  LifeInv'
<1>1. \A u \in Worker : wk'[u].pc \in Interrupting => intr'[wk'[u].m]
  BY HeldFrame DEF LifeInv, MessageInv
<1>2. MessageInv'
  BY <1>1, HeldFrame, SameMessages
<1> QED
  BY <1>2, HeldFrame DEF LifeInv

\* A step that touches no request.
Quiet ==
    /\ \A u \in Worker : NothingHeld(u)
    /\ req' = req /\ list' = list /\ interrupts' = interrupts /\ intr' = intr /\ bad' = FALSE /\ SentStay

LEMMA OtherSteps ==
    ASSUME TypeInv, PoolInv, LifeInv,
           \/ Kernel
           \/ \E t \in Worker : \/ LoopHead(t) \/ ReceiveUnmounted(t) \/ ReceiveFails(t)
                                \/ Cancelled(t) \/ Post(t) \/ Finished(t) \/ ProcessNoMemory(t)
           \/ \E t \in Worker, ok \in BOOLEAN : TakeRequest(t, ok)
           \/ \E ok \in BOOLEAN : MainStart(ok)
           \/ MainCancel
           \/ fuse_join_worker
           \/ MainAlone
    PROVE  Quiet
<1> USE DEF Carrying, Busy, Handling, Interrupting
<1>0. bad = FALSE
  BY DEF LifeInv, TypeInv, StateTypes, BadType
<1>1. ASSUME NEW t \in Worker, NothingHeld(t), \A u \in Worker \ {t} : wk'[u] = wk[u],
             UNCHANGED <<req, list, interrupts, intr, bad>>, SentStay
      PROVE  Quiet
  <2>1. \A u \in Worker : NothingHeld(u)
    BY <1>1 DEF NothingHeld, Untouched
  <2>2. bad' = FALSE
    BY <1>1, <1>0
  <2> QED
    BY <1>1, <2>1, <2>2 DEF Quiet
<1>a. ASSUME UNCHANGED <<wk, req, list, interrupts, intr, bad>>, SentStay
      PROVE  Quiet
  <2>1. \A u \in Worker : NothingHeld(u)
    BY <1>a DEF NothingHeld, Untouched
  <2>2. bad' = FALSE
    BY <1>a, <1>0
  <2> QED
    BY <1>a, <2>1, <2>2 DEF Quiet
<1>2. CASE Kernel
  <2>1. SentStay
    BY <1>2 DEF Kernel, KernelSend, KernelInterrupt, KernelUnmount, SentStay, TypeInv, StateTypes, KintType
  <2>2. UNCHANGED <<wk, req, list, interrupts, intr, bad>>
    BY <1>2, KernelSame
  <2> QED
    BY <1>a, <2>1, <2>2
<1>3. ASSUME NEW t \in Worker, LoopHead(t) \/ ReceiveUnmounted(t) \/ ReceiveFails(t) \/ Cancelled(t) \/ Post(t)
      PROVE  Quiet
  <2>1. UNCHANGED <<req, list, interrupts, intr, bad, kint>>
    BY <1>3 DEF LoopHead, ReceiveUnmounted, ReceiveFails, Cancelled, Post
  <2>2. wk[t].pc \notin Carrying
    BY <1>3 DEF LoopHead, ReceiveUnmounted, ReceiveFails, Cancelled, Post
  <2>3. wk'[t].pc \in {"post", "receive", "ended"} /\ \A u \in Worker \ {t} : wk'[u] = wk[u]
    <3>1. CASE LoopHead(t)
      BY <3>1, LoopHeadTypes DEF Becomes
    <3>2. CASE ReceiveUnmounted(t)
      BY <3>2, ReceiveUnmountedTypes DEF Becomes
    <3>3. CASE ReceiveFails(t)
      BY <3>3, ReceiveFailsTypes DEF Becomes
    <3>4. CASE Cancelled(t)
      BY <3>4, CancelledTypes DEF Becomes
    <3>5. CASE Post(t)
      BY <3>5, PostTypes DEF Becomes
    <3> QED
      BY <1>3, <3>1, <3>2, <3>3, <3>4, <3>5
  <2> QED
    BY <1>1, <2>1, <2>2, <2>3 DEF NothingHeld, SentStay
<1>4. ASSUME NEW t \in Worker, Finished(t)
      PROVE  Quiet
  <2>1. UNCHANGED <<req, list, interrupts, intr, bad, kint>> /\ wk[t].pc = "done" /\ IsInjective(mt.list)
    BY <1>4 DEF Finished, PoolInv
  <2>2. wk'[t].pc \in {"loop", "ended", "none"} /\ \A u \in Worker \ {t} : wk'[u] = wk[u]
    BY <1>4, <2>1, FinishedTypes DEF Rests
  <2> QED
    BY <1>1, <2>1, <2>2 DEF NothingHeld, SentStay
<1>5. ASSUME NEW t \in Worker, ProcessNoMemory(t)
      PROVE  Quiet
  <2>1. UNCHANGED <<req, list, interrupts, intr, bad>> /\ wk[t].pc = "process"
    BY <1>5 DEF ProcessNoMemory
  <2>2. Becomes(t, "done", wk[t].m, wk[t].intr, wk[t].stale, wk[t].peer, wk[t].d)
    BY <1>5, ProcessNoMemoryTypes
  <2>3. SentStay
    BY <1>5 DEF ProcessNoMemory, Answered, SentStay, TypeInv, StateTypes, KintType
  <2> QED
    BY <1>1, <2>1, <2>2, <2>3 DEF NothingHeld, Becomes
<1>6. ASSUME NEW t \in Worker, NEW ok \in BOOLEAN, TakeRequest(t, ok)
      PROVE  Quiet
  <2>1. UNCHANGED <<req, list, interrupts, intr, bad, kint>>
    BY <1>6 DEF TakeRequest
  <2>2. /\ wk[t].pc = "got" /\ wk[t] \in WorkerRecs
    BY <1>6, TakeRequestTypes DEF TypeInv, StateTypes, WkType
  <2>3. CASE TakesNone(t)
    BY <1>1, <2>1, <2>2, <2>3 DEF TakesNone, Idle, NothingHeld, SentStay
  <2>4. CASE Takes(t)
    <3>1. wk'[t].pc = "process" /\ wk'[t].m = wk[t].m /\ wk'[t].intr = wk[t].intr
      BY <2>2, <2>4 DEF Takes, WorkerRecs
    <3>2. NothingHeld(t)
      BY <2>2, <3>1 DEF NothingHeld
    <3>3. CASE GoesOnAlone(t)
      BY <1>1, <2>1, <3>2, <3>3 DEF GoesOnAlone, SentStay
    <3>4. ASSUME NEW u \in Free, StartsAnother(t, u)
          PROVE  Quiet
      <4>1. u \in Worker /\ u \notin Started
        BY FreeThreads DEF TypeInv
      <4>2. NothingHeld(u)
        BY <3>4, <4>1 DEF StartsAnother, Idle, NothingHeld, Started
      <4>3. \A v \in Worker : NothingHeld(v)
        <5>1. ASSUME NEW v \in Worker, v # t, v # u
              PROVE  NothingHeld(v)
          <6>1. wk'[v] = wk[v]
            BY <3>4, <5>1 DEF StartsAnother
          <6> QED
            BY <6>1 DEF NothingHeld, Untouched
        <5> QED
          BY <3>2, <4>2, <5>1
      <4>4. SentStay /\ bad' = FALSE
        BY <1>0, <2>1 DEF SentStay
      <4> QED
        BY <2>1, <4>3, <4>4 DEF Quiet
    <3> QED
      BY <1>6, <2>2, <2>4, <3>3, <3>4, TakeRequestTypes DEF TakesNone, Takes
  <2> QED
    BY <1>6, <2>3, <2>4, TakeRequestTypes
<1>7. ASSUME NEW ok \in BOOLEAN, MainStart(ok)
      PROVE  Quiet
  <2>1. UNCHANGED <<req, list, interrupts, intr, bad, kint>>
    BY <1>7 DEF MainStart
  <2>2. CASE wk' = wk
    BY <1>a, <2>1, <2>2 DEF SentStay
  <2>3. ASSUME NEW u \in Free, wk'[u] = [Idle EXCEPT !.pc = "loop"], \A v \in Worker \ {u} : wk'[v] = wk[v]
        PROVE  Quiet
    <3>1. u \in Worker /\ u \notin Started
      BY FreeThreads DEF TypeInv
    <3> QED
      BY <1>1, <2>1, <2>3, <3>1 DEF Idle, NothingHeld, Started, SentStay
  <2> QED
    BY <1>7, <2>2, <2>3, MainStartTypes
<1>8. CASE MainCancel
  <2>1. UNCHANGED <<req, list, interrupts, intr, bad, kint>>
    BY <1>8 DEF MainCancel
  <2> QED
    <3>1. \A u \in Worker : NothingHeld(u)
      BY <1>8, MainCancelTypes DEF NothingHeld
    <3>2. SentStay /\ bad' = FALSE
      BY <1>0, <2>1 DEF SentStay
    <3> QED
      BY <2>1, <3>1, <3>2 DEF Quiet
<1>9. CASE fuse_join_worker
  <2>1. UNCHANGED <<req, list, interrupts, intr, kint>> /\ bad' = (bad \/ wk[mt.joins].pc = "none")
    BY <1>9 DEF fuse_join_worker
  <2>2. mt.joins \in Worker /\ wk[mt.joins].pc \in {"ended", "none"} /\ Rests(mt.joins, "none") /\ mt.joins # Null
    BY <1>9, fuse_join_workerTypes DEF PoolInv, fuse_join_worker
  <2>3. mt.joins \in Started
    BY <2>2 DEF PoolInv
  <2>4. bad' = bad
    BY <2>1, <2>3 DEF Started, LifeInv, TypeInv, StateTypes, BadType
  <2>5. NothingHeld(mt.joins)
    BY <2>2 DEF Rests, NothingHeld
  <2> QED
    BY <1>1, <2>1, <2>2, <2>4, <2>5 DEF Rests, SentStay
<1>10. CASE MainAlone
  <2>1. UNCHANGED <<wk, req, list, interrupts, intr, bad, kint>>
    BY <1>10, MainAloneTypes
  <2> QED
    BY <1>a, <2>1 DEF SentStay
<1> QED
  BY <1>2, <1>3, <1>4, <1>5, <1>6, <1>7, <1>8, <1>9, <1>10

LEMMA LifeOfOthers ==
    ASSUME TypeInv, TypeInv', PoolInv, LifeInv,
           \/ Kernel
           \/ \E t \in Worker : \/ LoopHead(t) \/ ReceiveUnmounted(t) \/ ReceiveFails(t)
                                \/ Cancelled(t) \/ Post(t) \/ Finished(t) \/ ProcessNoMemory(t)
           \/ \E t \in Worker, ok \in BOOLEAN : TakeRequest(t, ok)
           \/ \E ok \in BOOLEAN : MainStart(ok)
           \/ MainCancel
           \/ fuse_join_worker
           \/ MainAlone
    PROVE  LifeInv'
<1>1. Quiet
  BY OtherSteps
<1> QED
  BY <1>1, LifeFrame DEF Quiet

\* Worker u goes on with what it is doing.
SameRole(u) ==
    /\ wk'[u].m = wk[u].m /\ wk'[u].intr = wk[u].intr
    /\ \A roles \in {Handling, Interrupting, {"got", "process"}, {"done"}} :
          wk'[u].pc \in roles <=> wk[u].pc \in roles

LEMMA SameRoles ==
    ASSUME \A u \in Worker : SameRole(u)
    PROVE  /\ \A r \in Request : Holders(r)' = Holders(r)
           /\ \A u \in Worker, r \in Request : (Asks(u, r)' <=> Asks(u, r)) /\ (Brings(u, r)' <=> Brings(u, r))
           /\ LifeInv /\ ListType /\ list' = list => HandlerInv'
           /\ LifeInv /\ CountsInv /\ (\A r \in Request : req'[r].live = req[r].live /\ req'[r].ctr = req[r].ctr) =>
                 CountsInv'
<1>1. ASSUME NEW u \in Worker
      PROVE  /\ wk'[u].m = wk[u].m /\ wk'[u].intr = wk[u].intr
             /\ wk'[u].pc \in Handling <=> wk[u].pc \in Handling
             /\ wk'[u].pc \in Interrupting <=> wk[u].pc \in Interrupting
             /\ wk'[u].pc \in {"got", "process"} <=> wk[u].pc \in {"got", "process"}
             /\ wk'[u].pc = "done" <=> wk[u].pc = "done"
  <2>1. SameRole(u)
    OBVIOUS
  <2>2. /\ Handling \in {Handling, Interrupting, {"got", "process"}, {"done"}}
        /\ Interrupting \in {Handling, Interrupting, {"got", "process"}, {"done"}}
        /\ {"got", "process"} \in {Handling, Interrupting, {"got", "process"}, {"done"}}
        /\ {"done"} \in {Handling, Interrupting, {"got", "process"}, {"done"}}
    OBVIOUS
  <2>3. wk'[u].pc \in {"done"} <=> wk[u].pc \in {"done"}
    BY <2>1, <2>2, Zenon DEF SameRole
  <2>4. /\ wk'[u].pc \in Handling <=> wk[u].pc \in Handling
        /\ wk'[u].pc \in Interrupting <=> wk[u].pc \in Interrupting
        /\ wk'[u].pc \in {"got", "process"} <=> wk[u].pc \in {"got", "process"}
    BY <2>1, <2>2, Zenon DEF SameRole
  <2> QED
    BY <2>1, <2>3, <2>4 DEF SameRole
<1>2. \A r \in Request : Holders(r)' = Holders(r)
  BY <1>1 DEF Holders
<1>3. ASSUME NEW u \in Worker
      PROVE  wk'[u].pc \in Carrying <=> wk[u].pc \in Carrying
  <2>1. \A pc : pc \in Carrying <=> pc \in Handling \/ pc \in Interrupting \/ pc \in {"got", "process"} \/ pc = "done"
    BY DEF Carrying, Busy
  <2> QED
    BY <1>1, <2>1
<1>4. \A u \in Worker, r \in Request : (Asks(u, r)' <=> Asks(u, r)) /\ (Brings(u, r)' <=> Brings(u, r))
  BY <1>1, <1>3 DEF Asks, Brings
<1>5. ASSUME LifeInv, ListType, list' = list
      PROVE  HandlerInv'
  <2>1. HandlerInv /\ ToSet(list) \subseteq Request /\ ToSet(list)' = ToSet(list)
    BY <1>5 DEF LifeInv, ListType, ToSet
  <2>2. \A t, u \in Worker, r \in Request : Asks(t, r)' /\ Asks(u, r)' => t = u
    BY <1>4, <2>1 DEF HandlerInv
  <2>3. \A r \in ToSet(list)' : \E t \in Worker : Asks(t, r)' /\ wk'[t].pc \in Handling
    BY <1>1, <1>4, <2>1 DEF HandlerInv
  <2>4. \A t \in Worker, r \in Request : Asks(t, r)' /\ wk'[t].pc \in {"got", "process"} => Holders(r)' = {}
    BY <1>1, <1>2, <1>4, <2>1 DEF HandlerInv
  <2> QED
    BY <1>5, <2>1, <2>2, <2>3, <2>4 DEF HandlerInv
<1>6. ASSUME CountsInv, \A r \in Request : req'[r].live = req[r].live /\ req'[r].ctr = req[r].ctr
      PROVE  CountsInv'
  BY <1>2, <1>6 DEF CountsInv
<1> QED
  BY <1>2, <1>4, <1>5, <1>6

LEMMA LifeOfSameRoles ==
    ASSUME TypeInv, LifeInv, LockInv', bad' = FALSE,
           \A u \in Worker : SameRole(u) /\ wk'[u].stale = wk[u].stale,
           \A r \in Request : req'[r].live = req[r].live /\ req'[r].ctr = req[r].ctr,
           list' = list, interrupts' = interrupts, intr' = intr, SentStay
    PROVE  LifeInv'
<1>1. HandlerInv' /\ CountsInv'
  <2>1. ListType /\ CountsInv
    BY DEF TypeInv, StateTypes, LifeInv
  <2> QED
    BY <2>1, SameRoles
<1>2. \A u \in Worker, r \in Request : Brings(u, r)' => Brings(u, r)
  BY SameRoles
<1>3. \A u \in Worker : wk'[u].pc \in Interrupting => intr'[wk'[u].m]
  <2>1. Interrupting \in {Handling, Interrupting, {"got", "process"}, {"done"}}
    OBVIOUS
  <2>2. \A u \in Worker : wk'[u].pc \in Interrupting => wk[u].pc \in Interrupting /\ wk'[u].m = wk[u].m
    BY <2>1, Zenon DEF SameRole
  <2> QED
    BY <2>2 DEF LifeInv, MessageInv
<1>4. MessageInv'
  BY <1>2, <1>3, SameMessages
<1> QED
  BY <1>1, <1>4 DEF LifeInv

\* Who handles or interrupts a request holds it.
LEMMA LiveHeld ==
    ASSUME TypeInv, LifeInv, NEW t \in Worker, wk[t].pc \in Handling \cup Interrupting
    PROVE  wk[t].m \in Request /\ t \in Holders(wk[t].m) /\ req[wk[t].m].live /\ bad = FALSE
<1>1. wk[t].m \in Request
  BY DEF TypeInv, WorkerOK, Carrying, Busy
<1>2. t \in Holders(wk[t].m)
  BY DEF Holders
<1>3. bad = FALSE
  BY DEF TypeInv, StateTypes, BadType, LifeInv
<1> QED
  BY <1>1, <1>2, <1>3 DEF LifeInv, CountsInv

\* req->lock and the interrupt functions stay, and nobody they are about moves
\* but from the callback to its end.
LEMMA SameLocks ==
    ASSUME TypeInv, LifeInv,
           \A r \in Request : req'[r].lock = req[r].lock /\ req'[r].func = req[r].func,
           \A u \in Worker :
              \/ Untouched(u)
              \/ /\ {wk[u].pc, wk'[u].pc} \cap {"signal", "unlock"} = {}
                 /\ wk[u].pc \in {"callback", "unset"} => ~Intr
              \/ {wk[u].pc, wk'[u].pc} \subseteq {"callback", "unset"} /\ wk'[u].m = wk[u].m /\ wk'[u].d # "none"
    PROVE  LockInv'
<1>1. LockInv
  BY DEF LifeInv
<1>2. \A r \in Request, t \in Worker :
         req'[r].lock = t <=> wk'[t].m = r /\ wk'[t].pc \in {"signal", "unlock"}
  <2>1. ASSUME NEW r \in Request, NEW t \in Worker
        PROVE  req'[r].lock = t <=> wk'[t].m = r /\ wk'[t].pc \in {"signal", "unlock"}
    <3>1. req'[r].lock = req[r].lock /\ (req[r].lock = t <=> wk[t].m = r /\ wk[t].pc \in {"signal", "unlock"})
      BY <1>1 DEF LockInv
    <3>2. CASE Untouched(t)
      BY <3>1, <3>2 DEF Untouched
    <3>3. CASE wk[t].pc \notin {"signal", "unlock"} /\ wk'[t].pc \notin {"signal", "unlock"}
      BY <3>1, <3>3
    <3> QED
      BY <3>2, <3>3
  <2> QED
    BY <2>1
<1>3. \A r \in Request, t \in Worker :
         req'[r].func = t => Intr /\ wk'[t].m = r /\ wk'[t].pc \in {"callback", "unset"} /\ wk'[t].d # "none"
  BY <1>1 DEF LockInv, Untouched
<1>4. ASSUME NEW t \in Worker, wk'[t].pc = "signal"
      PROVE  req'[wk'[t].m].func = wk'[t].peer
  <2>1. Untouched(t)
    BY <1>4
  <2>2. wk[t].pc = "signal" /\ wk'[t].m = wk[t].m /\ wk'[t].peer = wk[t].peer
    BY <1>4, <2>1 DEF Untouched
  <2>3. req[wk[t].m].func = wk[t].peer
    BY <1>1, <2>2 DEF LockInv
  <2>4. wk[t].m \in Request
    BY <2>2 DEF TypeInv, WorkerOK, Carrying, Busy, Interrupting
  <2> QED
    BY <2>2, <2>3, <2>4
<1> QED
  BY <1>2, <1>3, <1>4 DEF LockInv

\* Roles after a step of t alone that stays within handling, or interrupting.
LEMMA OneRole ==
    ASSUME NEW t \in Worker, NEW pc, NEW s, NEW p, NEW d, NEW roles \in {Handling, Interrupting},
           Becomes(t, pc, wk[t].m, wk[t].intr, s, p, d), wk[t].pc \in roles, pc \in roles
    PROVE  \A u \in Worker : SameRole(u) /\ (s = wk[t].stale => wk'[u].stale = wk[u].stale)
<1>1. ASSUME NEW u \in Worker, u # t
      PROVE  SameRole(u) /\ wk'[u].stale = wk[u].stale
  <2>1. wk'[u] = wk[u]
    BY <1>1 DEF Becomes
  <2> QED
    BY <2>1 DEF SameRole
<1>2. SameRole(t)
  <2>1. wk'[t].m = wk[t].m /\ wk'[t].intr = wk[t].intr /\ wk'[t].pc = pc
    BY DEF Becomes
  <2>2. ASSUME NEW other \in {Handling, Interrupting, {"got", "process"}, {"done"}}
        PROVE  wk'[t].pc \in other <=> wk[t].pc \in other
    BY <2>1, <2>2 DEF Handling, Interrupting
  <2> QED
    BY <2>1, <2>2 DEF SameRole
<1> QED
  BY <1>1, <1>2 DEF Becomes

LEMMA SentStays ==
    ASSUME TypeInv, kint' = kint \/ \E r \in Request : Answered(r)
    PROVE  SentStay
BY DEF TypeInv, StateTypes, KintType, Answered, SentStay

\* The handler of a request, up to its answer.
LEMMA HandlerLife ==
    ASSUME TypeInv, LifeInv, NEW t \in Worker,
           CallbackReturns(t) \/ do_init(t) \/ do_destroy(t) \/ Reply(t)
    PROVE  LifeInv'
<1>1. wk[t].pc \in {"callback", "init", "destroy", "reply"} /\ UNCHANGED <<req, list, interrupts, intr>>
  BY DEF CallbackReturns, do_init, do_destroy, Reply
<1>2. wk[t].m \in Request /\ req[wk[t].m].live /\ bad = FALSE
  BY <1>1, LiveHeld DEF Handling
<1>3. SentStay
  <2>1. kint' = kint \/ \E r \in Request : Answered(r)
    BY <1>2 DEF CallbackReturns, do_init, do_destroy, Reply
  <2> QED
    BY <2>1, SentStays
<1>4. bad' = FALSE
  BY <1>2 DEF CallbackReturns, do_init, do_destroy, Reply, Use
<1>5. PICK pc \in {"unset", "reply", "free"}, d \in {"finished", wk[t].d} :
         /\ Becomes(t, pc, wk[t].m, wk[t].intr, wk[t].stale, wk[t].peer, d)
         /\ wk[t].pc = "callback" /\ Intr => pc = "unset" /\ d = "finished"
  BY CallbackReturnsTypes, do_initTypes, do_destroyTypes, ReplyTypes DEF CallbackReturns, do_init, do_destroy, Reply
<1>6. \A u \in Worker : SameRole(u) /\ wk'[u].stale = wk[u].stale
  <2>1. wk[t].pc \in Handling /\ pc \in Handling
    BY <1>1 DEF Handling
  <2> QED
    BY <1>5, <2>1, OneRole
<1>7. LockInv'
  <2>1. ASSUME NEW u \in Worker, u # t
        PROVE  Untouched(u)
    BY <1>5, <2>1 DEF Becomes, Untouched
  <2>2. wk'[t].pc = pc /\ wk'[t].d = d /\ wk'[t].m = wk[t].m
    BY <1>5 DEF Becomes
  <2>3. \/ /\ {wk[t].pc, wk'[t].pc} \cap {"signal", "unlock"} = {}
           /\ wk[t].pc \in {"callback", "unset"} => ~Intr
        \/ {wk[t].pc, wk'[t].pc} \subseteq {"callback", "unset"} /\ wk'[t].m = wk[t].m /\ wk'[t].d # "none"
    BY <1>1, <1>5, <2>2
  <2> QED
    BY <1>1, <2>1, <2>3, SameLocks
<1> QED
  BY <1>1, <1>3, <1>4, <1>6, <1>7, LifeOfSameRoles

\* The interrupt function is set: nobody is interrupting, so nobody has read it.
LEMMA PrepareInterruptLife ==
    ASSUME TypeInv, LifeInv, NEW t \in Worker, PrepareInterrupt(t)
    PROVE  LifeInv'
<1> DEFINE r == wk[t].m
<1>1. wk[t].pc = "prepare" /\ UNCHANGED <<list, interrupts, intr, kint>> /\ req[wk[t].m].lock = Null
  BY DEF PrepareInterrupt, fuse_req_interrupt_func
<1>2. r \in Request /\ req[r].live /\ bad = FALSE /\ Intr
  BY <1>1, LiveHeld DEF Handling, Interrupting, TypeInv, WorkerOK
<1>3. SentStay /\ bad' = FALSE
  BY <1>1, <1>2 DEF PrepareInterrupt, fuse_req_interrupt_func, Use, SentStay
<1>4. /\ Becomes(t, "callback", r, wk[t].intr, wk[t].stale, wk[t].peer, "running")
      /\ ReqBecomes(r, req[r].live, req[r].ctr, req[r].interrupted, t, req[r].lock)
  BY PrepareInterruptTypes
<1>5. \A u \in Worker : SameRole(u) /\ wk'[u].stale = wk[u].stale
  <2>1. /\ wk[t].pc \in Handling /\ ("callback") \in Handling
        /\ Handling \in {Handling, Interrupting}
    BY <1>1 DEF Handling
  <2> QED
    BY <1>4, <2>1, OneRole
<1>6. \A q \in Request : req'[q].live = req[q].live /\ req'[q].ctr = req[q].ctr
  BY <1>4 DEF ReqBecomes
<1>7. LockInv'
  <2>1. LockInv /\ \A q \in Request : req[q].func \in Worker \cup {Null} /\ req[q].lock \in Worker \cup {Null}
    BY DEF LifeInv, TypeInv, StateTypes, ReqType, ReqRecs
  <2>2. \A u \in Worker : wk[u].pc = "signal" => wk[u].m \in Request
    BY DEF TypeInv, WorkerOK, Carrying, Busy, Interrupting
  <2>3. Null \notin Worker
    BY RequestsAssumption
  <2> HIDE DEF r
  <2>4. wk[t].m = r
    BY DEF r
  <2>5. \A q \in Request, u \in Worker :
           req'[q].lock = u <=> wk'[u].m = q /\ wk'[u].pc \in {"signal", "unlock"}
    BY <1>1, <1>2, <1>4, <2>1, <2>3, <2>4 DEF Becomes, ReqBecomes, LockInv
  <2>6. \A q \in Request, u \in Worker :
           req'[q].func = u => Intr /\ wk'[u].m = q /\ wk'[u].pc \in {"callback", "unset"} /\ wk'[u].d # "none"
    BY <1>1, <1>2, <1>4, <2>1, <2>3, <2>4 DEF Becomes, ReqBecomes, LockInv
  <2>7. \A u \in Worker : wk'[u].pc = "signal" => req'[wk'[u].m].func = wk'[u].peer
    BY <1>1, <1>2, <1>4, <2>1, <2>2, <2>3, <2>4 DEF Becomes, ReqBecomes, LockInv
  <2> QED
    BY <2>5, <2>6, <2>7 DEF LockInv
<1> QED
  BY <1>1, <1>3, <1>5, <1>6, <1>7, LifeOfSameRoles

\* It is taken back: nobody is interrupting, so nobody uses it any more.
LEMMA UnsetInterruptLife ==
    ASSUME TypeInv, LifeInv, NEW t \in Worker, UnsetInterrupt(t)
    PROVE  LifeInv'
<1> DEFINE r == wk[t].m
<1>1. wk[t].pc = "unset" /\ UNCHANGED <<list, interrupts, intr, kint>> /\ req[wk[t].m].lock = Null
  BY DEF UnsetInterrupt, fuse_req_interrupt_func
<1>2. r \in Request /\ req[r].live /\ bad = FALSE
  BY <1>1, LiveHeld DEF Handling, Interrupting, TypeInv, WorkerOK
<1>3. SentStay /\ bad' = FALSE
  BY <1>1, <1>2 DEF UnsetInterrupt, fuse_req_interrupt_func, Use, SentStay
<1>4. /\ Becomes(t, "reply", r, wk[t].intr, wk[t].stale, wk[t].peer, "none")
      /\ ReqBecomes(r, req[r].live, req[r].ctr, req[r].interrupted, Null, req[r].lock)
  BY UnsetInterruptTypes
<1>5. \A u \in Worker : SameRole(u) /\ wk'[u].stale = wk[u].stale
  <2>1. /\ wk[t].pc \in Handling /\ ("reply") \in Handling
        /\ Handling \in {Handling, Interrupting}
    BY <1>1 DEF Handling
  <2> QED
    BY <1>4, <2>1, OneRole
<1>6. \A q \in Request : req'[q].live = req[q].live /\ req'[q].ctr = req[q].ctr
  BY <1>4 DEF ReqBecomes
<1>7. LockInv'
  <2>1. LockInv /\ \A q \in Request : req[q].func \in Worker \cup {Null} /\ req[q].lock \in Worker \cup {Null}
    BY DEF LifeInv, TypeInv, StateTypes, ReqType, ReqRecs
  <2>2. \A u \in Worker : wk[u].pc = "signal" => wk[u].m \in Request
    BY DEF TypeInv, WorkerOK, Carrying, Busy, Interrupting
  <2>3. Null \notin Worker
    BY RequestsAssumption
  <2> HIDE DEF r
  <2>4. wk[t].m = r
    BY DEF r
  <2>5. \A q \in Request, u \in Worker :
           req'[q].lock = u <=> wk'[u].m = q /\ wk'[u].pc \in {"signal", "unlock"}
    BY <1>1, <1>2, <1>4, <2>1, <2>3, <2>4 DEF Becomes, ReqBecomes, LockInv
  <2>6. \A q \in Request, u \in Worker :
           req'[q].func = u => Intr /\ wk'[u].m = q /\ wk'[u].pc \in {"callback", "unset"} /\ wk'[u].d # "none"
    BY <1>1, <1>2, <1>4, <2>1, <2>3, <2>4 DEF Becomes, ReqBecomes, LockInv
  <2>7. \A u \in Worker : wk'[u].pc = "signal" => req'[wk'[u].m].func = wk'[u].peer
    BY <1>1, <1>2, <1>4, <2>1, <2>2, <2>3, <2>4 DEF Becomes, ReqBecomes, LockInv
  <2> QED
    BY <2>5, <2>6, <2>7 DEF LockInv
<1> QED
  BY <1>1, <1>3, <1>5, <1>6, <1>7, LifeOfSameRoles

\* An interrupter takes req->lock and reads the interrupt function.
LEMMA LockInterruptedLife ==
    ASSUME TypeInv, LifeInv, NEW t \in Worker, LockInterrupted(t)
    PROVE  LifeInv'
<1> DEFINE r == wk[t].m
<1>1. wk[t].pc = "lock" /\ UNCHANGED <<list, interrupts, intr, kint>> /\ req[wk[t].m].lock = Null
  BY DEF LockInterrupted, fuse_req_interrupt_func
<1>2. r \in Request /\ req[r].live /\ bad = FALSE
  BY <1>1, LiveHeld DEF Handling, Interrupting, TypeInv, WorkerOK
<1>3. SentStay /\ bad' = FALSE
  BY <1>1, <1>2 DEF LockInterrupted, fuse_req_interrupt_func, Use, SentStay
<1>4. /\ Becomes(t, IF req[wk[t].m].func = Null THEN "unlock" ELSE "signal", r, wk[t].intr, wk[t].stale, req[r].func, wk[t].d)
      /\ ReqBecomes(r, req[r].live, req[r].ctr, TRUE, req[r].func, t)
  BY LockInterruptedTypes
<1>5. \A u \in Worker : SameRole(u) /\ wk'[u].stale = wk[u].stale
  <2>1. /\ wk[t].pc \in Interrupting /\ (IF req[r].func = Null THEN "unlock" ELSE "signal") \in Interrupting
        /\ Interrupting \in {Handling, Interrupting}
    BY <1>1 DEF Interrupting
  <2> QED
    BY <1>4, <2>1, OneRole
<1>6. \A q \in Request : req'[q].live = req[q].live /\ req'[q].ctr = req[q].ctr
  BY <1>4 DEF ReqBecomes
<1>7. LockInv'
  <2>1. LockInv /\ \A q \in Request : req[q].func \in Worker \cup {Null} /\ req[q].lock \in Worker \cup {Null}
    BY DEF LifeInv, TypeInv, StateTypes, ReqType, ReqRecs
  <2>2. \A u \in Worker : wk[u].pc = "signal" => wk[u].m \in Request
    BY DEF TypeInv, WorkerOK, Carrying, Busy, Interrupting
  <2>3. Null \notin Worker
    BY RequestsAssumption
  <2> HIDE DEF r
  <2>4. wk[t].m = r
    BY DEF r
  <2>5. \A q \in Request, u \in Worker :
           req'[q].lock = u <=> wk'[u].m = q /\ wk'[u].pc \in {"signal", "unlock"}
    BY <1>1, <1>2, <1>4, <2>1, <2>3, <2>4 DEF Becomes, ReqBecomes, LockInv
  <2>6. \A q \in Request, u \in Worker :
           req'[q].func = u => Intr /\ wk'[u].m = q /\ wk'[u].pc \in {"callback", "unset"} /\ wk'[u].d # "none"
    BY <1>1, <1>2, <1>4, <2>1, <2>3, <2>4 DEF Becomes, ReqBecomes, LockInv
  <2>7. \A u \in Worker : wk'[u].pc = "signal" => req'[wk'[u].m].func = wk'[u].peer
    BY <1>1, <1>2, <1>4, <2>1, <2>2, <2>3, <2>4 DEF Becomes, ReqBecomes, LockInv
  <2> QED
    BY <2>5, <2>6, <2>7 DEF LockInv
<1> QED
  BY <1>1, <1>3, <1>5, <1>6, <1>7, LifeOfSameRoles

\* It lets go.
LEMMA UnlockInterruptedLife ==
    ASSUME TypeInv, LifeInv, NEW t \in Worker, UnlockInterrupted(t)
    PROVE  LifeInv'
<1> DEFINE r == wk[t].m
<1>1. wk[t].pc = "unlock" /\ UNCHANGED <<list, interrupts, intr, kint>>
  BY DEF UnlockInterrupted, fuse_req_interrupt_func
<1>2. r \in Request /\ req[r].live /\ bad = FALSE
  BY <1>1, LiveHeld DEF Handling, Interrupting, TypeInv, WorkerOK
<1>3. SentStay /\ bad' = FALSE
  BY <1>1, <1>2 DEF UnlockInterrupted, fuse_req_interrupt_func, Use, SentStay
<1>4. /\ Becomes(t, "unref", r, wk[t].intr, wk[t].stale, Null, wk[t].d)
      /\ ReqBecomes(r, req[r].live, req[r].ctr, req[r].interrupted, req[r].func, Null)
  BY UnlockInterruptedTypes
<1>5. \A u \in Worker : SameRole(u) /\ wk'[u].stale = wk[u].stale
  <2>1. /\ wk[t].pc \in Interrupting /\ ("unref") \in Interrupting
        /\ Interrupting \in {Handling, Interrupting}
    BY <1>1 DEF Interrupting
  <2> QED
    BY <1>4, <2>1, OneRole
<1>6. \A q \in Request : req'[q].live = req[q].live /\ req'[q].ctr = req[q].ctr
  BY <1>4 DEF ReqBecomes
<1>7. LockInv'
  <2>1. LockInv /\ \A q \in Request : req[q].func \in Worker \cup {Null} /\ req[q].lock \in Worker \cup {Null}
    BY DEF LifeInv, TypeInv, StateTypes, ReqType, ReqRecs
  <2>2. \A u \in Worker : wk[u].pc = "signal" => wk[u].m \in Request
    BY DEF TypeInv, WorkerOK, Carrying, Busy, Interrupting
  <2>3. Null \notin Worker
    BY RequestsAssumption
  <2> HIDE DEF r
  <2>4. wk[t].m = r
    BY DEF r
  <2>5. \A q \in Request, u \in Worker :
           req'[q].lock = u <=> wk'[u].m = q /\ wk'[u].pc \in {"signal", "unlock"}
    BY <1>1, <1>2, <1>4, <2>1, <2>3, <2>4 DEF Becomes, ReqBecomes, LockInv
  <2>6. \A q \in Request, u \in Worker :
           req'[q].func = u => Intr /\ wk'[u].m = q /\ wk'[u].pc \in {"callback", "unset"} /\ wk'[u].d # "none"
    BY <1>1, <1>2, <1>4, <2>1, <2>3, <2>4 DEF Becomes, ReqBecomes, LockInv
  <2>7. \A u \in Worker : wk'[u].pc = "signal" => req'[wk'[u].m].func = wk'[u].peer
    BY <1>1, <1>2, <1>4, <2>1, <2>2, <2>3, <2>4 DEF Becomes, ReqBecomes, LockInv
  <2> QED
    BY <2>5, <2>6, <2>7 DEF LockInv
<1> QED
  BY <1>1, <1>3, <1>5, <1>6, <1>7, LifeOfSameRoles

\* The handler whose data an interrupter uses is still in its callback, or at
\* its end, waiting for req->lock.
LEMMA fuse_interruptLife ==
    ASSUME TypeInv, LifeInv, NEW t \in Worker, fuse_interrupt(t)
    PROVE  LifeInv'
<1>1. wk[t].pc = "signal" /\ UNCHANGED <<req, list, interrupts, intr, kint>>
  BY DEF fuse_interrupt
<1>2. wk[t].m \in Request /\ bad = FALSE
  BY <1>1, LiveHeld DEF Handling, Interrupting
<1>3. wk[t].peer \in Worker /\ wk[wk[t].peer].d # "none"
  BY <1>1, <1>2 DEF TypeInv, WorkerOK, LifeInv, LockInv
<1>4. SentStay /\ bad' = FALSE
  BY <1>1, <1>2, <1>3 DEF fuse_interrupt, SentStay
<1>5. CASE \A u \in Worker : Untouched(u)
  <2>1. \A u \in Worker : NothingHeld(u)
    BY <1>5 DEF NothingHeld
  <2>2. TypeInv'
    BY fuse_interruptTypes
  <2> QED
    BY <1>1, <1>4, <2>1, <2>2, LifeFrame
<1>6. CASE Becomes(t, "unlock", wk[t].m, wk[t].intr, wk[t].stale, wk[t].peer, wk[t].d)
  <2>1. \A u \in Worker : SameRole(u) /\ wk'[u].stale = wk[u].stale
    <3>1. wk[t].pc \in Interrupting /\ "unlock" \in Interrupting /\ Interrupting \in {Handling, Interrupting}
      BY <1>1 DEF Interrupting
    <3> QED
      BY <1>6, <3>1, OneRole
  <2>2. LockInv'
    BY <1>1, <1>6 DEF LifeInv, LockInv, Becomes
  <2> QED
    BY <1>1, <1>4, <2>1, <2>2, LifeOfSameRoles
<1> QED
  BY <1>5, <1>6, fuse_interruptTypes

\* EAGAIN to an INTERRUPT: the thread that took it out of the queue is the only
\* one that has it.
LEMMA ReplyStaleLife ==
    ASSUME TypeInv, LifeInv, NEW t \in Worker, ReplyStale(t)
    PROVE  LifeInv'
<1> DEFINE s == wk[t].stale
<1>1. wk[t].pc = "eagain" /\ UNCHANGED <<req, list, interrupts>>
  BY DEF ReplyStale
<1>2. s \in Request /\ Known(kst[wk[t].m].op)
  BY <1>1 DEF TypeInv, StateTypes, WkType, WorkerRecs, WorkerOK
<1>3. wk[t].m \in Request /\ bad = FALSE
  BY <1>1, LiveHeld DEF Handling
<1>4. intr[s] /\ s \notin ToSet(interrupts)
  BY <1>2 DEF LifeInv, MessageInv
<1>5. bad' = FALSE
  BY <1>3, <1>4 DEF ReplyStale
<1>6. Becomes(t, Dispatch(kst[wk[t].m].op), wk[t].m, wk[t].intr, Null, wk[t].peer, wk[t].d)
  BY ReplyStaleTypes
<1>7. Dispatch(kst[wk[t].m].op) \in {"init", "destroy", "free", "prepare", "callback", "reply"}
  BY <1>2, Dispatches
<1>8. \A u \in Worker : SameRole(u)
  <2>1. wk[t].pc \in Handling /\ Dispatch(kst[wk[t].m].op) \in Handling /\ Handling \in {Handling, Interrupting}
    BY <1>1, <1>7 DEF Handling
  <2> QED
    BY <1>6, <2>1, OneRole
<1>9. HandlerInv' /\ CountsInv'
  <2>1. ListType /\ CountsInv
    BY DEF TypeInv, StateTypes, LifeInv
  <2> QED
    BY <1>1, <1>8, <2>1, SameRoles
<1>10. LockInv'
  <2>1. ASSUME NEW u \in Worker, u # t
        PROVE  Untouched(u)
    BY <1>6, <2>1 DEF Becomes, Untouched
  <2>2. /\ {wk[t].pc, wk'[t].pc} \cap {"signal", "unlock"} = {}
        /\ wk[t].pc \in {"callback", "unset"} => ~Intr
    BY <1>1, <1>6, <1>7 DEF Becomes
  <2> QED
    BY <1>1, <2>1, <2>2, SameLocks
<1>11. MessageInv'
  <2>1. MessageInv /\ ToSet(interrupts)' = ToSet(interrupts) /\ ToSet(interrupts) \subseteq Request
    BY <1>1 DEF LifeInv, TypeInv, StateTypes, InterruptsType, ToSet
  <2>2. \A r \in Request \ {s} : kint'[r] = kint[r] /\ intr'[r] = intr[r]
    BY <1>2 DEF ReplyStale, TryAgain, TypeInv, StateTypes, KintType, IntrType
  <2>3. \A u \in Worker, r \in Request : Brings(u, r)' <=> Brings(u, r)
    BY <1>8, SameRoles
  <2>4. wk'[t].stale = Null /\ \A u \in Worker \ {t} : wk'[u].stale = wk[u].stale
    BY <1>6 DEF Becomes
  <2>5. \A u \in Worker : Brings(u, s) => FALSE
    BY <1>2, <2>1 DEF MessageInv
  <2>6. \A u \in Worker \ {t} : wk[u].stale # s
    BY <1>2, <2>1, RequestsAssumption DEF MessageInv
  <2>7. /\ \A u, v \in Worker, r \in Request : Brings(u, r)' /\ Brings(v, r)' => u = v
        /\ \A u, v \in Worker : wk'[u].stale = wk'[v].stale /\ wk'[u].stale # Null => u = v
    BY <2>1, <2>3, <2>4 DEF MessageInv
  <2>8. \A u, v \in Worker, r \in Request : Brings(u, r)' => wk'[v].stale # r
    BY <2>1, <2>3, <2>4, RequestsAssumption DEF MessageInv
  <2>9. \A r \in ToSet(interrupts)' : kint'[r] = "sent" /\ intr'[r]
    BY <1>4, <2>1, <2>2 DEF MessageInv
  <2>10. \A u \in Worker, r \in Request : Brings(u, r)' => r \notin ToSet(interrupts)' /\ kint'[r] = "sent"
    BY <2>1, <2>2, <2>3, <2>5 DEF MessageInv
  <2>11. \A u \in Worker, r \in Request :
            wk'[u].stale = r => r \notin ToSet(interrupts)' /\ kint'[r] = "sent" /\ intr'[r]
    BY <2>1, <2>2, <2>4, <2>6, RequestsAssumption DEF MessageInv
  <2>12. ASSUME NEW u \in Worker, wk'[u].pc \in Interrupting
         PROVE  intr'[wk'[u].m]
    <3>1. wk[u].pc \in Interrupting /\ wk'[u].m = wk[u].m
      <4>1. Interrupting \in {Handling, Interrupting, {"got", "process"}, {"done"}}
        OBVIOUS
      <4> QED
        BY <1>8, <2>12, <4>1, Zenon DEF SameRole
    <3>2. Brings(u, wk[u].m) /\ wk[u].m \in Request
      BY <3>1 DEF TypeInv, WorkerOK, Brings, Carrying, Busy
    <3> QED
      BY <2>1, <2>2, <2>5, <3>1, <3>2 DEF MessageInv
  <2>13. IsInjective(interrupts)'
    BY <1>1, <2>1 DEF MessageInv
  <2> QED
    BY <2>7, <2>8, <2>9, <2>10, <2>11, <2>12, <2>13 DEF MessageInv
<1> QED
  BY <1>5, <1>9, <1>10, <1>11 DEF LifeInv

\* A message is read: a request that was not, or the INTERRUPT of one, which
\* nobody else has.
LEMMA ReceiveLife ==
    ASSUME TypeInv, LifeInv, NEW t \in Worker, NEW r \in Request, NEW isIntr \in BOOLEAN, Receive(t, r, isIntr)
    PROVE  LifeInv'
<1>1. wk[t].pc = "receive" /\ UNCHANGED <<req, list, interrupts, intr, bad, se>> /\ bad = FALSE
  BY DEF Receive, LifeInv, TypeInv, StateTypes, BadType
<1>2. /\ TypeInv'
      /\ Becomes(t, IF se.exited THEN "post" ELSE "got", IF se.exited THEN Null ELSE r, ~se.exited /\ isIntr,
                 wk[t].stale, wk[t].peer, wk[t].d)
  BY ReceiveTypes
<1>3. SentStay
  BY DEF Receive, SentStay, TypeInv, StateTypes, KintType
<1>4. CASE se.exited
  <2>1. \A u \in Worker : NothingHeld(u)
    BY <1>1, <1>2, <1>4 DEF Becomes, NothingHeld, Untouched, Carrying, Busy, Handling, Interrupting
  <2>2. bad' = FALSE
    BY <1>1
  <2> QED
    BY <1>1, <1>2, <1>3, <2>1, <2>2, LifeFrame
<1>5. CASE ~se.exited
  <2>1. /\ wk'[t].pc = "got" /\ wk'[t].m = r /\ wk'[t].intr = isIntr /\ wk'[t].stale = wk[t].stale
        /\ \A u \in Worker \ {t} : wk'[u] = wk[u]
    BY <1>2, <1>5 DEF Becomes
  <2>2. \A q \in Request : Holders(q)' = Holders(q)
    BY <1>1, <2>1 DEF Holders, Handling, Interrupting
  <2>3. CountsInv'
    BY <1>1, <2>2 DEF LifeInv, CountsInv
  <2>4. LockInv'
    <3>1. ASSUME NEW u \in Worker, u # t
          PROVE  Untouched(u)
      BY <2>1, <3>1 DEF Untouched
    <3>2. /\ {wk[t].pc, wk'[t].pc} \cap {"signal", "unlock"} = {}
          /\ wk[t].pc \in {"callback", "unset"} => ~Intr
      BY <1>1, <2>1
    <3> QED
      BY <1>1, <3>1, <3>2, SameLocks
  <2>5. HandlerInv'
    <3>1. HandlerInv /\ ToSet(list)' = ToSet(list) /\ ToSet(list) \subseteq Request
      BY <1>1 DEF LifeInv, TypeInv, StateTypes, ListType, ToSet
    <3>2. /\ \A u \in Worker \ {t}, q \in Request : Asks(u, q)' <=> Asks(u, q)
          /\ \A q \in Request : Asks(t, q)' => q = r /\ ~isIntr
          /\ \A q \in Request : ~Asks(t, q)
      BY <1>1, <2>1 DEF Asks, Carrying, Busy, Handling, Interrupting
    <3>3. ASSUME ~isIntr
          PROVE  Holders(r) = {} /\ \A u \in Worker : ~Asks(u, r)
      <4>1. ~Taken(r)
        BY <3>3 DEF Receive, Taken
      <4>2. \A u \in Worker : wk[u].pc \in Carrying => wk[u].m # r
        BY <4>1 DEF TypeInv, WorkerOK
      <4> QED
        BY <4>2 DEF Holders, Asks, Carrying, Busy
    <3>4. \A u, v \in Worker, q \in Request : Asks(u, q)' /\ Asks(v, q)' => u = v
      BY <3>1, <3>2, <3>3 DEF HandlerInv
    <3>5. \A q \in ToSet(list)' : \E u \in Worker : Asks(u, q)' /\ wk'[u].pc \in Handling
      BY <2>1, <3>1, <3>2 DEF HandlerInv
    <3>6. \A u \in Worker, q \in Request : Asks(u, q)' /\ wk'[u].pc \in {"got", "process"} => Holders(q)' = {}
      BY <2>1, <2>2, <3>1, <3>2, <3>3 DEF HandlerInv
    <3> QED
      BY <1>1, <3>1, <3>4, <3>5, <3>6 DEF HandlerInv
  <2>6. MessageInv'
    <3>1. MessageInv /\ ToSet(interrupts)' = ToSet(interrupts) /\ ToSet(interrupts) \subseteq Request
      BY <1>1 DEF LifeInv, TypeInv, StateTypes, InterruptsType, ToSet
    <3>2. \A u \in Worker : wk'[u].stale = wk[u].stale
      BY <2>1
    <3>3. /\ \A u \in Worker \ {t}, q \in Request : Brings(u, q)' <=> Brings(u, q)
          /\ \A q \in Request : Brings(t, q)' => q = r /\ isIntr
      BY <2>1 DEF Brings
    <3>4. isIntr => kint[r] = "queued" /\ kint'[r] = "sent"
      BY DEF Receive, TypeInv, StateTypes, KintType
    <3>5. isIntr => r \notin ToSet(interrupts) /\ \A u \in Worker : ~Brings(u, r) /\ wk[u].stale # r
      BY <3>1, <3>4 DEF MessageInv
    <3>6. /\ \A u, v \in Worker, q \in Request : Brings(u, q)' /\ Brings(v, q)' => u = v
          /\ \A u, v \in Worker : wk'[u].stale = wk'[v].stale /\ wk'[u].stale # Null => u = v
          /\ \A u, v \in Worker, q \in Request : Brings(u, q)' => wk'[v].stale # q
      BY <3>1, <3>2, <3>3, <3>5 DEF MessageInv
    <3>7. /\ \A q \in ToSet(interrupts)' : kint'[q] = "sent" /\ intr'[q]
          /\ \A u \in Worker, q \in Request :
               wk'[u].stale = q => q \notin ToSet(interrupts)' /\ kint'[q] = "sent" /\ intr'[q]
      BY <1>1, <1>3, <3>1, <3>2 DEF MessageInv, SentStay
    <3>8. \A u \in Worker, q \in Request : Brings(u, q)' => q \notin ToSet(interrupts)' /\ kint'[q] = "sent"
      BY <1>3, <3>1, <3>3, <3>4, <3>5 DEF MessageInv, SentStay
    <3>9. \A u \in Worker : wk'[u].pc \in Interrupting => intr'[wk'[u].m]
      BY <1>1, <2>1, <3>1 DEF MessageInv, Interrupting
    <3> QED
      BY <1>1, <3>1, <3>6, <3>7, <3>8, <3>9 DEF MessageInv
  <2>7. bad' = FALSE
    BY <1>1
  <2> QED
    BY <2>3, <2>4, <2>5, <2>6, <2>7 DEF LifeInv
<1> QED
  BY <1>4, <1>5

\* What changes when t takes or drops the reference on r it has.
LEMMA OneHolder ==
    ASSUME NEW t \in Worker, NEW r \in Request
    PROVE  /\ IsFiniteSet(Holders(r)) /\ Cardinality(Holders(r)) \in Nat
           /\ Cardinality(Holders(r)) = 0 <=> Holders(r) = {}
           /\ t \in Holders(r) => Cardinality(Holders(r) \ {t}) = Cardinality(Holders(r)) - 1
           /\ t \notin Holders(r) => Cardinality(Holders(r) \cup {t}) = Cardinality(Holders(r)) + 1
<1>1. Holders(r) \subseteq Worker
  BY DEF Holders
<1>2. IsFiniteSet(Holders(r)) /\ Cardinality(Holders(r)) \in Nat /\ (Cardinality(Holders(r)) = 0 <=> Holders(r) = {})
  BY <1>1, WorkersFinite
<1>3. t \in Holders(r) => Cardinality(Holders(r) \ {t}) = Cardinality(Holders(r)) - 1
  BY <1>2, FS_RemoveElement
<1>4. t \notin Holders(r) => Cardinality(Holders(r) \cup {t}) = Cardinality(Holders(r)) + 1
  BY <1>2, FS_AddElement
<1> QED
  BY <1>2, <1>3, <1>4

\* t drops its reference: the request goes with the last one.
LEMMA DropsReference ==
    ASSUME LifeInv, NEW t \in Worker, NEW r \in Request, wk[t].m = r, wk[t].pc \in Handling \cup Interrupting,
           wk'[t].pc = "done", \A u \in Worker \ {t} : wk'[u] = wk[u],
           req'[r].ctr = req[r].ctr - 1, req'[r].live <=> req[r].ctr > 1,
           \A q \in Request \ {r} : req'[q] = req[q]
    PROVE  /\ Holders(r)' = Holders(r) \ {t}
           /\ \A q \in Request \ {r} : Holders(q)' = Holders(q)
           /\ CountsInv'
<1>1. t \in Holders(r) /\ Holders(r)' = Holders(r) \ {t}
  BY DEF Holders, Handling, Interrupting
<1>2. \A q \in Request \ {r} : Holders(q)' = Holders(q)
  BY DEF Holders, Handling, Interrupting
<1>3. /\ Cardinality(Holders(r)) \in Nat
      /\ Cardinality(Holders(r)') = Cardinality(Holders(r)) - 1
  BY <1>1, OneHolder
<1>4. IsFiniteSet(Holders(r)') /\ Cardinality(Holders(r)') \in Nat /\ (Cardinality(Holders(r)') = 0 <=> Holders(r)' = {})
  <2>1. Holders(r)' \subseteq Worker
    BY <1>1 DEF Holders
  <2> QED
    BY <2>1, WorkersFinite
<1>5. req[r].ctr = Cardinality(Holders(r))
  BY DEF LifeInv, CountsInv
<1>6. req'[r].ctr = Cardinality(Holders(r)') /\ (req'[r].live <=> Holders(r)' # {})
  <2> DEFINE n == Cardinality(Holders(r))
             k == Cardinality(Holders(r)')
  <2>1. n \in Nat /\ k = n - 1 /\ req[r].ctr = n
    BY <1>3, <1>5
  <2>2. k \in Nat /\ (k = 0 <=> Holders(r)' = {})
    BY <1>4
  <2> HIDE DEF n, k
  <2>3. req'[r].ctr = k /\ (req'[r].live <=> k # 0)
    BY <2>1, <2>2
  <2>4. req'[r].live <=> Holders(r)' # {}
    BY <2>2, <2>3
  <2> QED
    BY <2>3, <2>4 DEF k
<1>7. \A q \in Request \ {r} : req'[q].ctr = Cardinality(Holders(q)') /\ (req'[q].live <=> Holders(q)' # {})
  BY <1>2 DEF LifeInv, CountsInv
<1> QED
  BY <1>1, <1>2, <1>6, <1>7 DEF CountsInv

\* The handler lets go of its request.
LEMMA fuse_free_reqLife ==
    ASSUME TypeInv, LifeInv, NEW t \in Worker, fuse_free_req(t)
    PROVE  LifeInv'
<1>0. PICK r \in Request : wk[t].m = r
  BY DEF fuse_free_req, TypeInv, WorkerOK, Carrying, Busy, Handling
<1>1. wk[t].pc = "free" /\ UNCHANGED <<interrupts, intr, kint>> /\ list' = RemoveFirst(list, r)
  BY <1>0 DEF fuse_free_req
<1>2. r \in Request /\ req[r].live /\ bad = FALSE /\ ~wk[t].intr
  BY <1>0, <1>1, LiveHeld DEF Handling, TypeInv, WorkerOK
<1>3. bad' = FALSE /\ SentStay
  BY <1>0, <1>1, <1>2 DEF fuse_free_req, Use, SentStay
<1>4. HandlerInv /\ MessageInv /\ LockInv /\ list \in Seq(Request) /\ ToSet(list) \subseteq Request
  BY DEF LifeInv, TypeInv, StateTypes, ListType, ToSet
<1>5. ToSet(list') = ToSet(list) \ {r} /\ IsInjective(list')
  BY <1>1, <1>4, UnlinkElement DEF HandlerInv
<1>6. /\ Becomes(t, "done", r, wk[t].intr, wk[t].stale, wk[t].peer, wk[t].d)
      /\ ReqBecomes(r, (req[r].ctr > 1), req[r].ctr - 1, req[r].interrupted, Null, req[r].lock)
  BY <1>0, <1>4, fuse_free_reqTypes DEF HandlerInv
<1>7. /\ wk'[t].pc = "done" /\ wk'[t].m = r /\ wk'[t].intr = wk[t].intr
      /\ wk'[t].stale = wk[t].stale /\ \A u \in Worker \ {t} : wk'[u] = wk[u]
  BY <1>6 DEF Becomes
<1>8. /\ (req'[r].live <=> req[r].ctr > 1) /\ req'[r].ctr = req[r].ctr - 1 /\ req'[r].func = Null
      /\ req'[r].lock = req[r].lock /\ \A q \in Request \ {r} : req'[q] = req[q]
  BY <1>6 DEF ReqBecomes
<1>10. CountsInv' /\ Holders(r)' = Holders(r) \ {t} /\ \A q \in Request \ {r} : Holders(q)' = Holders(q)
  <2>1. wk[t].pc \in Handling \cup Interrupting
    BY <1>1 DEF Handling
  <2> QED
    BY <1>2, <1>7, <1>8, <1>0, <2>1, DropsReference
<1>11. \A u \in Worker, q \in Request : (Asks(u, q)' <=> Asks(u, q)) /\ (Brings(u, q)' <=> Brings(u, q))
  BY <1>1, <1>2, <1>7, <1>0 DEF Asks, Brings, Carrying, Busy, Handling, Interrupting
<1>12. Asks(t, r)
  BY <1>1, <1>2, <1>0 DEF Asks, Carrying, Busy, Handling
<1>13. HandlerInv'
  <2>1. \A u, v \in Worker, q \in Request : Asks(u, q)' /\ Asks(v, q)' => u = v
    BY <1>4, <1>11 DEF HandlerInv
  <2>2. ASSUME NEW q \in ToSet(list')
        PROVE  \E u \in Worker : Asks(u, q)' /\ wk'[u].pc \in Handling
    <3>1. q \in ToSet(list) /\ q # r /\ q \in Request
      BY <1>4, <1>5
    <3>2. PICK u \in Worker : Asks(u, q) /\ wk[u].pc \in Handling
      BY <1>4, <3>1 DEF HandlerInv
    <3>3. u # t
      BY <1>0, <3>1, <3>2 DEF Asks
    <3> QED
      BY <1>7, <1>11, <3>1, <3>2, <3>3
  <2>3. \A u \in Worker, q \in Request : Asks(u, q)' /\ wk'[u].pc \in {"got", "process"} => Holders(q)' = {}
    BY <1>4, <1>7, <1>10, <1>11 DEF HandlerInv
  <2> QED
    BY <1>5, <2>1, <2>2, <2>3 DEF HandlerInv
<1>14. MessageInv'
  <2>1. \A u \in Worker : wk'[u].pc \in Interrupting => intr'[wk'[u].m]
    BY <1>1, <1>4, <1>7 DEF MessageInv, Interrupting
  <2>2. \A u \in Worker : wk'[u].stale = wk[u].stale
    BY <1>7
  <2> QED
    BY <1>1, <1>3, <1>11, <2>1, <2>2, SameMessages
<1>15. LockInv'
  <2>1. req[r].func = Null
    <3>1. ASSUME NEW u \in Worker, req[r].func = u
          PROVE  FALSE
      <4>1. wk[u].m = r /\ wk[u].pc \in {"callback", "unset"}
        BY <1>2, <1>4, <3>1 DEF LockInv
      <4>2. Asks(u, r)
        BY <4>1 DEF TypeInv, WorkerOK, Asks, Carrying, Busy, Handling
      <4>3. u = t
        BY <1>2, <1>4, <1>12, <4>2 DEF HandlerInv
      <4> QED
        BY <1>1, <4>1, <4>3
    <3> QED
      BY <1>2, <3>1 DEF TypeInv, StateTypes, ReqType, ReqRecs
  <2>2. \A q \in Request : req'[q].lock = req[q].lock /\ req'[q].func = req[q].func
    BY <1>8, <2>1
  <2>3. ASSUME NEW u \in Worker, u # t
        PROVE  Untouched(u)
    BY <1>7, <2>3 DEF Untouched
  <2>4. /\ {wk[t].pc, wk'[t].pc} \cap {"signal", "unlock"} = {}
        /\ wk[t].pc \in {"callback", "unset"} => ~Intr
    BY <1>1, <1>7
  <2> QED
    BY <2>2, <2>3, <2>4, SameLocks
<1> QED
  BY <1>3, <1>10, <1>13, <1>14, <1>15 DEF LifeInv

\* An interrupter lets go of the request and destroys its message.
LEMMA UnrefInterruptedLife ==
    ASSUME TypeInv, LifeInv, NEW t \in Worker, UnrefInterrupted(t)
    PROVE  LifeInv'
<1>0. PICK r \in Request : wk[t].m = r
  BY DEF UnrefInterrupted, TypeInv, WorkerOK, Carrying, Busy, Interrupting
<1>1. wk[t].pc = "unref" /\ UNCHANGED <<interrupts, list, kint>> /\ intr' = [intr EXCEPT ![r] = FALSE]
  BY <1>0 DEF UnrefInterrupted
<1>2. r \in Request /\ req[r].live /\ bad = FALSE /\ wk[t].intr
  BY <1>0, <1>1, LiveHeld DEF Interrupting, TypeInv, WorkerOK
<1>3. bad' = FALSE
  BY <1>0, <1>1, <1>2 DEF UnrefInterrupted, Use
<1>4. /\ HandlerInv /\ MessageInv /\ LockInv /\ list \in Seq(Request) /\ ToSet(list) \subseteq Request
      /\ ToSet(interrupts) \subseteq Request
  BY DEF LifeInv, TypeInv, StateTypes, ListType, InterruptsType, ToSet
<1>5. \A q \in Request \ {r} : intr'[q] = intr[q]
  BY <1>1 DEF TypeInv, StateTypes, IntrType
<1>6. /\ Becomes(t, "done", r, wk[t].intr, wk[t].stale, wk[t].peer, wk[t].d)
      /\ ReqBecomes(r, (req[r].ctr > 1), req[r].ctr - 1, req[r].interrupted, req[r].func, req[r].lock)
  BY <1>0, UnrefInterruptedTypes
<1>7. /\ wk'[t].pc = "done" /\ wk'[t].m = r /\ wk'[t].intr = wk[t].intr
      /\ wk'[t].stale = wk[t].stale /\ \A u \in Worker \ {t} : wk'[u] = wk[u]
  BY <1>6 DEF Becomes
<1>8. /\ (req'[r].live <=> req[r].ctr > 1) /\ req'[r].ctr = req[r].ctr - 1 /\ req'[r].func = req[r].func
      /\ req'[r].lock = req[r].lock /\ \A q \in Request \ {r} : req'[q] = req[q]
  BY <1>6 DEF ReqBecomes
<1>10. CountsInv' /\ Holders(r)' = Holders(r) \ {t} /\ \A q \in Request \ {r} : Holders(q)' = Holders(q)
  <2>1. wk[t].pc \in Handling \cup Interrupting
    BY <1>1 DEF Interrupting
  <2> QED
    BY <1>2, <1>7, <1>8, <1>0, <2>1, DropsReference
<1>11. /\ \A u \in Worker, q \in Request : Asks(u, q)' <=> Asks(u, q)
       /\ \A u \in Worker \ {t}, q \in Request : Brings(u, q)' <=> Brings(u, q)
       /\ \A q \in Request : ~Brings(t, q)'
       /\ Brings(t, r)
  BY <1>1, <1>2, <1>7, <1>0 DEF Asks, Brings, Carrying, Busy, Handling, Interrupting
<1>12. HandlerInv'
  <2>1. \A u, v \in Worker, q \in Request : Asks(u, q)' /\ Asks(v, q)' => u = v
    BY <1>4, <1>11 DEF HandlerInv
  <2>2. ASSUME NEW q \in ToSet(list)
        PROVE  \E u \in Worker : Asks(u, q)' /\ wk'[u].pc \in Handling
    <3>1. q \in Request
      BY <1>4
    <3>2. PICK u \in Worker : Asks(u, q) /\ wk[u].pc \in Handling
      BY <1>4 DEF HandlerInv
    <3>3. u # t
      BY <1>1, <3>2 DEF Handling
    <3> QED
      BY <1>7, <1>11, <3>1, <3>2, <3>3
  <2>3. \A u \in Worker, q \in Request : Asks(u, q)' /\ wk'[u].pc \in {"got", "process"} => Holders(q)' = {}
    BY <1>4, <1>7, <1>10, <1>11 DEF HandlerInv
  <2> QED
    BY <1>1, <1>4, <2>1, <2>2, <2>3 DEF HandlerInv
<1>13. MessageInv'
  <2>1. /\ \A u, v \in Worker, q \in Request : Brings(u, q)' /\ Brings(v, q)' => u = v
        /\ \A u, v \in Worker : wk'[u].stale = wk'[v].stale /\ wk'[u].stale # Null => u = v
        /\ \A u, v \in Worker, q \in Request : Brings(u, q)' => wk'[v].stale # q
    BY <1>4, <1>7, <1>11 DEF MessageInv
  <2>2. r \notin ToSet(interrupts) /\ \A u \in Worker : wk[u].stale # r
    BY <1>2, <1>4, <1>11 DEF MessageInv
  <2>3. /\ \A q \in ToSet(interrupts)' : kint'[q] = "sent" /\ intr'[q]
        /\ \A u \in Worker, q \in Request :
             wk'[u].stale = q => q \notin ToSet(interrupts)' /\ kint'[q] = "sent" /\ intr'[q]
    BY <1>1, <1>4, <1>5, <1>7, <2>2 DEF MessageInv
  <2>4. \A u \in Worker, q \in Request : Brings(u, q)' => q \notin ToSet(interrupts)' /\ kint'[q] = "sent"
    BY <1>1, <1>4, <1>11 DEF MessageInv
  <2>5. ASSUME NEW u \in Worker, wk'[u].pc \in Interrupting
        PROVE  intr'[wk'[u].m]
    <3>1. u # t /\ wk'[u] = wk[u]
      BY <1>7, <2>5 DEF Interrupting
    <3>2. wk[u].pc \in Interrupting /\ intr[wk[u].m]
      BY <1>4, <2>5, <3>1 DEF MessageInv
    <3>3. wk[u].m \in Request /\ Brings(u, wk[u].m)
      BY <3>2 DEF TypeInv, WorkerOK, Brings, Carrying, Busy
    <3>4. wk[u].m # r
      BY <1>2, <1>4, <1>11, <3>1, <3>3 DEF MessageInv
    <3> QED
      BY <1>5, <3>1, <3>2, <3>3, <3>4
  <2> QED
    BY <1>1, <1>4, <2>1, <2>3, <2>4, <2>5 DEF MessageInv
<1>14. LockInv'
  <2>2. \A q \in Request : req'[q].lock = req[q].lock /\ req'[q].func = req[q].func
    BY <1>8
  <2>3. ASSUME NEW u \in Worker, u # t
        PROVE  Untouched(u)
    BY <1>7, <2>3 DEF Untouched
  <2>4. /\ {wk[t].pc, wk'[t].pc} \cap {"signal", "unlock"} = {}
        /\ wk[t].pc \in {"callback", "unset"} => ~Intr
    BY <1>1, <1>7
  <2> QED
    BY <2>2, <2>3, <2>4, SameLocks
<1> QED
  BY <1>3, <1>10, <1>12, <1>13, <1>14 DEF LifeInv

\* An INTERRUPT is processed: its request is held, or the message is queued.
LEMMA do_interruptLife ==
    ASSUME TypeInv, LifeInv, NEW t \in Worker, do_interrupt(t)
    PROVE  LifeInv'
<1>0. PICK r \in Request : wk[t].m = r
  BY DEF do_interrupt, TypeInv, WorkerOK, Carrying, Busy
<1>1. wk[t].pc = "process" /\ wk[t].intr /\ UNCHANGED <<list, kint>> /\ bad' = FALSE /\ SentStay
  BY DEF do_interrupt, SentStay, LifeInv, TypeInv, StateTypes, BadType
<1>2. /\ HandlerInv /\ CountsInv /\ MessageInv /\ LockInv
      /\ list \in Seq(Request) /\ ToSet(list) \subseteq Request
      /\ interrupts \in Seq(Request) /\ ToSet(interrupts) \subseteq Request
  BY DEF LifeInv, TypeInv, StateTypes, ListType, InterruptsType, ToSet
<1>3. Brings(t, r)
  BY <1>0, <1>1 DEF Brings
<1>4. r \notin ToSet(interrupts) /\ kint[r] = "sent" /\ \A u \in Worker : wk[u].stale # r
  BY <1>2, <1>3 DEF MessageInv
<1>5. /\ TypeInv'
      /\ Becomes(t, IF r \in ToSet(list) THEN "lock" ELSE "done", r, wk[t].intr, wk[t].stale, wk[t].peer, wk[t].d)
      /\ ReqBecomes(r, req[r].live, IF r \in ToSet(list) THEN req[r].ctr + 1 ELSE req[r].ctr, req[r].interrupted,
                    req[r].func, req[r].lock)
  BY <1>0, do_interruptTypes
<1>6. /\ wk'[t].pc = (IF r \in ToSet(list) THEN "lock" ELSE "done") /\ wk'[t].m = r /\ wk'[t].intr = wk[t].intr
      /\ wk'[t].stale = wk[t].stale /\ \A u \in Worker \ {t} : wk'[u] = wk[u]
  BY <1>5 DEF Becomes
<1>7. /\ req'[r].live = req[r].live /\ req'[r].ctr = (IF r \in ToSet(list) THEN req[r].ctr + 1 ELSE req[r].ctr)
      /\ req'[r].func = req[r].func
      /\ req'[r].lock = req[r].lock /\ \A q \in Request \ {r} : req'[q] = req[q]
  BY <1>5 DEF ReqBecomes
<1>8. /\ (\E i \in DOMAIN list : list[i] = r) <=> r \in ToSet(list)
      /\ ~(\E i \in DOMAIN interrupts : interrupts[i] = r)
  BY <1>2, <1>4 DEF ToSet
<1>9. intr' = [intr EXCEPT ![r] = TRUE] /\ interrupts' = IF r \in ToSet(list) THEN interrupts ELSE Append(interrupts, r)
  BY <1>0, <1>8 DEF do_interrupt
<1>10. intr'[r] /\ \A q \in Request : intr[q] => intr'[q]
  BY <1>9 DEF TypeInv, StateTypes, IntrType
<1>11. CASE r \in ToSet(list)
  <2>1. PICK h \in Worker : Asks(h, r) /\ wk[h].pc \in Handling
    BY <1>2, <1>11 DEF HandlerInv
  <2>2. h \in Holders(r) /\ t \notin Holders(r)
    BY <1>1, <2>1 DEF Holders, Asks, Handling, Interrupting
  <2>3. Holders(r)' = Holders(r) \cup {t} /\ \A q \in Request \ {r} : Holders(q)' = Holders(q)
    BY <1>0, <1>1, <1>6, <1>11 DEF Holders, Handling, Interrupting
  <2>4. CountsInv'
    <3>1. Cardinality(Holders(r)') = Cardinality(Holders(r)) + 1
      BY <2>2, <2>3, OneHolder
    <3>2. req'[r].ctr = Cardinality(Holders(r)') /\ req'[r].live /\ Holders(r)' # {}
      BY <1>2, <1>7, <1>11, <2>2, <2>3, <3>1 DEF CountsInv
    <3> QED
      BY <1>2, <1>7, <2>3, <3>2 DEF CountsInv
  <2>5. \A u \in Worker, q \in Request : (Asks(u, q)' <=> Asks(u, q)) /\ (Brings(u, q)' <=> Brings(u, q))
    BY <1>0, <1>1, <1>6, <1>11 DEF Asks, Brings, Carrying, Busy, Interrupting
  <2>6. HandlerInv'
    <3>1. \A u, v \in Worker, q \in Request : Asks(u, q)' /\ Asks(v, q)' => u = v
      BY <1>2, <2>5 DEF HandlerInv
    <3>2. ASSUME NEW q \in ToSet(list)
          PROVE  \E u \in Worker : Asks(u, q)' /\ wk'[u].pc \in Handling
      <4>1. q \in Request
        BY <1>2
      <4>2. PICK u \in Worker : Asks(u, q) /\ wk[u].pc \in Handling
        BY <1>2 DEF HandlerInv
      <4>3. u # t
        BY <1>1, <4>2 DEF Handling
      <4> QED
        BY <1>6, <2>5, <4>1, <4>2, <4>3
    <3>3. ASSUME NEW u \in Worker, NEW q \in Request, Asks(u, q)', wk'[u].pc \in {"got", "process"}
          PROVE  Holders(q)' = {}
      <4>1. u # t /\ wk'[u] = wk[u] /\ Asks(u, q)
        BY <1>6, <1>11, <2>5, <3>3
      <4>2. Holders(q) = {}
        BY <1>2, <3>3, <4>1 DEF HandlerInv
      <4>3. q # r
        BY <2>2, <4>2
      <4> QED
        BY <2>3, <4>2, <4>3
    <3> QED
      BY <1>1, <1>2, <3>1, <3>2, <3>3 DEF HandlerInv
  <2>7. MessageInv'
    <3>1. \A u \in Worker : wk'[u].pc \in Interrupting => intr'[wk'[u].m]
      <4>1. \A u \in Worker : wk[u].pc \in Interrupting => wk[u].m \in Request
        BY DEF TypeInv, WorkerOK, Carrying, Busy
      <4> QED
        BY <1>2, <1>6, <1>10, <4>1 DEF MessageInv
    <3>2. interrupts' = interrupts /\ \A u \in Worker : wk'[u].stale = wk[u].stale
      BY <1>6, <1>9, <1>11
    <3> QED
      BY <1>1, <1>10, <2>5, <3>1, <3>2, SameMessages
  <2>8. LockInv'
    <3>1. \A q \in Request : req'[q].lock = req[q].lock /\ req'[q].func = req[q].func
      BY <1>7
    <3>2. ASSUME NEW u \in Worker, u # t
          PROVE  Untouched(u)
      BY <1>6, <3>2 DEF Untouched
    <3>3. /\ {wk[t].pc, wk'[t].pc} \cap {"signal", "unlock"} = {}
          /\ wk[t].pc \in {"callback", "unset"} => ~Intr
      BY <1>1, <1>6, <1>11
    <3> QED
      BY <3>1, <3>2, <3>3, SameLocks
  <2> QED
    BY <1>1, <2>4, <2>6, <2>7, <2>8 DEF LifeInv
<1>12. CASE r \notin ToSet(list)
  <2>1. \A u \in Worker : NothingHeld(u)
    BY <1>0, <1>1, <1>6, <1>12 DEF NothingHeld, Untouched
  <2>2. req' = req
    BY <1>0, <1>8, <1>12 DEF do_interrupt
  <2>3. /\ HandlerInv' /\ CountsInv' /\ LockInv'
        /\ \A u \in Worker, q \in Request : Brings(u, q)' => Brings(u, q)
        /\ \A u \in Worker : /\ wk'[u].stale = wk[u].stale
                             /\ wk'[u].pc \in Interrupting => wk[u].pc \in Interrupting /\ wk'[u].m = wk[u].m
    BY <1>1, <1>5, <2>1, <2>2, HeldFrame
  <2>4. interrupts' = Append(interrupts, r)
    BY <1>9, <1>12
  <2>5. ToSet(interrupts') = ToSet(interrupts) \cup {r} /\ IsInjective(interrupts')
    BY <1>2, <1>4, <2>4, AppendElement DEF MessageInv
  <2>6. \A q \in Request : ~Brings(t, q)'
    BY <1>6, <1>12 DEF Brings, Interrupting
  <2>7. /\ \A u, v \in Worker, q \in Request : Brings(u, q)' /\ Brings(v, q)' => u = v
        /\ \A u, v \in Worker : wk'[u].stale = wk'[v].stale /\ wk'[u].stale # Null => u = v
        /\ \A u, v \in Worker, q \in Request : Brings(u, q)' => wk'[v].stale # q
    BY <1>2, <2>3 DEF MessageInv
  <2>8. /\ \A q \in ToSet(interrupts') : kint'[q] = "sent" /\ intr'[q]
        /\ \A u \in Worker, q \in Request :
             wk'[u].stale = q => q \notin ToSet(interrupts') /\ kint'[q] = "sent" /\ intr'[q]
    BY <1>1, <1>2, <1>4, <1>10, <2>3, <2>5 DEF MessageInv
  <2>9. ASSUME NEW u \in Worker, NEW q \in Request, Brings(u, q)'
        PROVE  q \notin ToSet(interrupts') /\ kint'[q] = "sent"
    <3>1. Brings(u, q) /\ u # t
      BY <2>3, <2>6, <2>9
    <3>2. q # r
      BY <1>2, <1>3, <3>1 DEF MessageInv
    <3> QED
      BY <1>1, <1>2, <2>5, <3>1, <3>2 DEF MessageInv
  <2>10. \A u \in Worker : wk'[u].pc \in Interrupting => intr'[wk'[u].m]
    <3>1. \A u \in Worker : wk[u].pc \in Interrupting => wk[u].m \in Request
      BY DEF TypeInv, WorkerOK, Carrying, Busy
    <3> QED
      BY <1>2, <1>10, <2>3, <3>1 DEF MessageInv
  <2>11. MessageInv'
    BY <2>5, <2>7, <2>8, <2>9, <2>10 DEF MessageInv
  <2> QED
    BY <1>1, <2>3, <2>11 DEF LifeInv
<1> QED
  BY <1>11, <1>12

\* The request of a message is made: nobody held an earlier one of that name.
LEMMA NewRequestLife ==
    ASSUME TypeInv, LifeInv, NEW t \in Worker, NEW r \in Request, wk[t].pc = "process", ~wk[t].intr, wk[t].m = r,
           NEW pc \in Handling, NEW s, NEW i, Becomes(t, pc, r, wk[t].intr, s, wk[t].peer, wk[t].d),
           ReqBecomes(r, TRUE, 1, i, Null, Null)
    PROVE  /\ \A u \in Worker, q \in Request : (Asks(u, q)' <=> Asks(u, q)) /\ (Brings(u, q)' <=> Brings(u, q))
           /\ r \notin ToSet(list)
           /\ list' = list \/ list' = Append(list, r) => HandlerInv'
           /\ CountsInv' /\ LockInv'
           /\ \A u \in Worker : wk'[u].pc \in Interrupting => wk[u].pc \in Interrupting /\ wk'[u].m = wk[u].m
           /\ wk'[t].stale = s /\ \A u \in Worker \ {t} : wk'[u].stale = wk[u].stale
<1>1. /\ wk'[t].pc = pc /\ wk'[t].m = r /\ wk'[t].intr = wk[t].intr /\ wk'[t].stale = s
      /\ \A u \in Worker \ {t} : wk'[u] = wk[u]
  BY DEF Becomes
<1>2. /\ req'[r].live = TRUE /\ req'[r].ctr = 1 /\ req'[r].func = Null /\ req'[r].lock = Null
      /\ \A q \in Request \ {r} : req'[q] = req[q]
  BY DEF ReqBecomes
<1>3. HandlerInv /\ CountsInv /\ LockInv /\ list \in Seq(Request) /\ ToSet(list) \subseteq Request
  BY DEF LifeInv, TypeInv, StateTypes, ListType, ToSet
<1>4. \A u \in Worker, q \in Request : (Asks(u, q)' <=> Asks(u, q)) /\ (Brings(u, q)' <=> Brings(u, q))
  BY <1>1 DEF Asks, Brings, Carrying, Busy
<1>5. Asks(t, r) /\ Holders(r) = {}
  BY <1>3 DEF Asks, Carrying, Busy, HandlerInv
<1>6. r \notin ToSet(list)
  BY <1>3, <1>5 DEF HandlerInv, Holders, Asks
<1>7. Holders(r)' = {t} /\ \A q \in Request \ {r} : Holders(q)' = Holders(q)
  <2>1. \A u \in Worker : ~(wk[u].m = r /\ wk[u].pc \in Handling \cup Interrupting)
    BY <1>5 DEF Holders
  <2>2. Holders(r)' = {t}
    BY <1>1, <2>1 DEF Holders
  <2>3. \A q \in Request \ {r} : Holders(q)' = Holders(q)
    BY <1>1 DEF Holders
  <2> QED
    BY <2>2, <2>3
<1>8. CountsInv'
  <2>1. Cardinality({t}) = 1
    BY FS_Singleton
  <2>2. req'[r].ctr = Cardinality(Holders(r)') /\ req'[r].live /\ Holders(r)' # {}
    BY <1>2, <1>7, <2>1
  <2> QED
    BY <1>2, <1>3, <1>7, <2>2 DEF CountsInv
<1>9. ASSUME list' = list \/ list' = Append(list, r)
      PROVE  HandlerInv'
  <2>1. ToSet(list') \subseteq ToSet(list) \cup {r} /\ IsInjective(list')
    <3>1. ToSet(Append(list, r)) = ToSet(list) \cup {r} /\ IsInjective(Append(list, r)) /\ IsInjective(list)
      BY <1>3, <1>6, AppendElement DEF HandlerInv
    <3>2. CASE list' = list
      BY <3>1, <3>2
    <3>3. CASE list' = Append(list, r)
      BY <3>1, <3>3
    <3> QED
      BY <1>9, <3>2, <3>3
  <2>2. \A u, v \in Worker, q \in Request : Asks(u, q)' /\ Asks(v, q)' => u = v
    BY <1>3, <1>4 DEF HandlerInv
  <2>3. ASSUME NEW q \in ToSet(list')
        PROVE  \E u \in Worker : Asks(u, q)' /\ wk'[u].pc \in Handling
    <3>1. CASE q = r
      BY <1>1, <1>4, <1>5, <3>1
    <3>2. CASE q # r
      <4>1. q \in ToSet(list) /\ q \in Request
        BY <1>3, <2>1, <3>2
      <4>2. PICK u \in Worker : Asks(u, q) /\ wk[u].pc \in Handling
        BY <1>3, <4>1 DEF HandlerInv
      <4>3. u # t
        BY <3>2, <4>2 DEF Asks
      <4> QED
        BY <1>1, <1>4, <4>1, <4>2, <4>3
    <3> QED
      BY <3>1, <3>2
  <2>4. ASSUME NEW u \in Worker, NEW q \in Request, Asks(u, q)', wk'[u].pc \in {"got", "process"}
        PROVE  Holders(q)' = {}
    <3>1. u # t
      BY <1>1, <2>4 DEF Handling
    <3>2. Asks(u, q) /\ wk'[u] = wk[u]
      BY <1>1, <1>4, <2>4, <3>1
    <3>3. q # r
      BY <1>3, <1>5, <3>1, <3>2 DEF HandlerInv
    <3> QED
      BY <1>3, <1>7, <2>4, <3>2, <3>3 DEF HandlerInv
  <2> QED
    BY <2>1, <2>2, <2>3, <2>4 DEF HandlerInv
<1>10. LockInv'
  <2>1. req[r].lock = Null /\ req[r].func = Null
    <3>1. \A u \in Worker : req[r].lock # u /\ req[r].func # u
      BY <1>3, <1>5 DEF LockInv, Holders, Handling, Interrupting
    <3> QED
      BY <3>1 DEF TypeInv, StateTypes, ReqType, ReqRecs
  <2>2. \A q \in Request : req'[q].lock = req[q].lock /\ req'[q].func = req[q].func
    BY <1>2, <2>1
  <2>3. ASSUME NEW u \in Worker, u # t
        PROVE  Untouched(u)
    BY <1>1, <2>3 DEF Untouched
  <2>4. /\ {wk[t].pc, wk'[t].pc} \cap {"signal", "unlock"} = {}
        /\ wk[t].pc \in {"callback", "unset"} => ~Intr
    BY <1>1 DEF Handling
  <2> QED
    BY <2>2, <2>3, <2>4, SameLocks
<1>11. \A u \in Worker : wk'[u].pc \in Interrupting => wk[u].pc \in Interrupting /\ wk'[u].m = wk[u].m
  BY <1>1 DEF Handling, Interrupting
<1> QED
  BY <1>1, <1>4, <1>6, <1>8, <1>9, <1>10, <1>11

\* check_interrupt takes a message out of the queue: nobody else has it.
LEMMA ProcessRequestLife ==
    ASSUME TypeInv, LifeInv, NEW t \in Worker, ProcessRequest(t)
    PROVE  LifeInv'
<1>1. IsInjective(interrupts) /\ MessageInv /\ interrupts \in Seq(Request) /\ ToSet(interrupts) \subseteq Request
  BY DEF LifeInv, MessageInv, TypeInv, StateTypes, InterruptsType, ToSet
<1>2. wk[t].pc = "process" /\ ~wk[t].intr /\ wk[t].m \in Request
  BY <1>1, ProcessRequestTypes
<1>3. PICK r \in Request : wk[t].m = r
  BY <1>2
<1>4. wk[t].stale = Null
  BY <1>2 DEF TypeInv, WorkerOK
<1>5. bad' = FALSE /\ kint' = kint /\ SentStay
  BY DEF ProcessRequest, SentStay, LifeInv, TypeInv, StateTypes, BadType
<1>6. ~Refused(kst[r].op) => Dispatch(kst[r].op) \in Handling
  BY Dispatches DEF Refused, Known, Handling
<1>7. "reply" \in Handling /\ "eagain" \in Handling
  BY DEF Handling
<1>8. ASSUME NEW pc \in Handling, NEW i, Becomes(t, pc, r, wk[t].intr, Null, wk[t].peer, wk[t].d),
             ReqBecomes(r, TRUE, 1, i, Null, Null), list' = list \/ list' = Append(list, r),
             interrupts' = interrupts, intr' = intr
      PROVE  LifeInv'
  <2>1. /\ HandlerInv' /\ CountsInv' /\ LockInv'
        /\ \A u \in Worker, q \in Request : Brings(u, q)' => Brings(u, q)
        /\ \A u \in Worker : wk'[u].pc \in Interrupting => wk[u].pc \in Interrupting /\ wk'[u].m = wk[u].m
        /\ wk'[t].stale = Null /\ \A u \in Worker \ {t} : wk'[u].stale = wk[u].stale
    <3>1. /\ \A u \in Worker, q \in Request : (Asks(u, q)' <=> Asks(u, q)) /\ (Brings(u, q)' <=> Brings(u, q))
          /\ r \notin ToSet(list)
          /\ list' = list \/ list' = Append(list, r) => HandlerInv'
          /\ CountsInv' /\ LockInv'
          /\ \A u \in Worker : wk'[u].pc \in Interrupting => wk[u].pc \in Interrupting /\ wk'[u].m = wk[u].m
          /\ wk'[t].stale = Null /\ \A u \in Worker \ {t} : wk'[u].stale = wk[u].stale
      BY <1>2, <1>3, <1>8, NewRequestLife DEF Becomes, ReqBecomes
    <3> QED
      BY <1>8, <3>1
  <2>2. \A u \in Worker : wk'[u].stale = wk[u].stale
    BY <1>4, <2>1
  <2>3. \A u \in Worker : wk'[u].pc \in Interrupting => intr'[wk'[u].m]
    BY <1>1, <1>8, <2>1 DEF MessageInv
  <2>4. MessageInv'
    BY <1>5, <1>8, <2>1, <2>2, <2>3, SameMessages
  <2> QED
    BY <1>5, <2>1, <2>4 DEF LifeInv
<1>9. ASSUME NEW q \in ToSet(interrupts)
      PROVE  q \in Request /\ kint[q] = "sent" /\ intr[q] /\ \A u \in Worker : ~Brings(u, q) /\ wk[u].stale # q
  BY <1>1 DEF MessageInv
<1>10. \A u \in Worker : wk[u].pc \in Interrupting => wk[u].m \in Request /\ Brings(u, wk[u].m) /\ intr[wk[u].m]
  BY <1>1 DEF TypeInv, WorkerOK, Brings, Carrying, Busy, MessageInv
<1>11. ASSUME NEW q \in ToSet(interrupts), NEW pc \in Handling, NEW i, NEW s \in {q, Null},
              Becomes(t, pc, r, wk[t].intr, s, wk[t].peer, wk[t].d),
              ReqBecomes(r, TRUE, 1, i, Null, Null), list' = Append(list, r),
              interrupts' = RemoveFirst(interrupts, q),
              \A p \in Request \ {q} : intr'[p] = intr[p], s = q => intr' = intr
       PROVE  LifeInv'
  <2>1. /\ HandlerInv' /\ CountsInv' /\ LockInv'
        /\ \A u \in Worker, p \in Request : Brings(u, p)' => Brings(u, p)
        /\ \A u \in Worker : wk'[u].pc \in Interrupting => wk[u].pc \in Interrupting /\ wk'[u].m = wk[u].m
        /\ wk'[t].stale = s /\ \A u \in Worker \ {t} : wk'[u].stale = wk[u].stale
    <3>1. /\ \A u \in Worker, p \in Request : (Asks(u, p)' <=> Asks(u, p)) /\ (Brings(u, p)' <=> Brings(u, p))
          /\ r \notin ToSet(list)
          /\ list' = list \/ list' = Append(list, r) => HandlerInv'
          /\ CountsInv' /\ LockInv'
          /\ \A u \in Worker : wk'[u].pc \in Interrupting => wk[u].pc \in Interrupting /\ wk'[u].m = wk[u].m
          /\ wk'[t].stale = s /\ \A u \in Worker \ {t} : wk'[u].stale = wk[u].stale
      BY <1>2, <1>3, <1>11, NewRequestLife DEF Becomes, ReqBecomes
    <3> QED
      BY <1>11, <3>1
  <2>2. ToSet(interrupts') = ToSet(interrupts) \ {q} /\ IsInjective(interrupts')
    BY <1>1, <1>11, UnlinkElement
  <2>3. q \in Request /\ kint[q] = "sent" /\ intr[q] /\ \A u \in Worker : ~Brings(u, q) /\ wk[u].stale # q
    BY <1>9
  <2>4. /\ \A u, v \in Worker, p \in Request : Brings(u, p)' /\ Brings(v, p)' => u = v
        /\ \A u, v \in Worker : wk'[u].stale = wk'[v].stale /\ wk'[u].stale # Null => u = v
    BY <1>1, <2>1, <2>3 DEF MessageInv
  <2>5. \A u, v \in Worker, p \in Request : Brings(u, p)' => wk'[v].stale # p
    BY <1>1, <2>1, <2>3, RequestsAssumption DEF MessageInv
  <2>6. \A p \in ToSet(interrupts') : kint'[p] = "sent" /\ intr'[p]
    BY <1>1, <1>5, <1>11, <2>2 DEF MessageInv
  <2>7. \A u \in Worker, p \in Request : Brings(u, p)' => p \notin ToSet(interrupts') /\ kint'[p] = "sent"
    BY <1>1, <1>5, <2>1, <2>2 DEF MessageInv
  <2>8. ASSUME NEW u \in Worker, NEW p \in Request, wk'[u].stale = p
        PROVE  p \notin ToSet(interrupts') /\ kint'[p] = "sent" /\ intr'[p]
    <3>1. CASE u = t
      <4>1. p = q /\ s = q
        BY <2>1, <2>8, <3>1, <1>11, RequestsAssumption
      <4> QED
        BY <1>5, <1>11, <2>2, <2>3, <4>1
    <3>2. CASE u # t
      <4>1. wk[u].stale = p /\ p # q
        BY <2>1, <2>3, <2>8, <3>2
      <4> QED
        BY <1>1, <1>5, <1>11, <2>2, <4>1 DEF MessageInv
    <3> QED
      BY <3>1, <3>2
  <2>9. \A u \in Worker : wk'[u].pc \in Interrupting => intr'[wk'[u].m]
    BY <1>10, <1>11, <2>1, <2>3
  <2>10. MessageInv'
    BY <2>2, <2>4, <2>5, <2>6, <2>7, <2>8, <2>9 DEF MessageInv
  <2> QED
    BY <1>5, <2>1, <2>10 DEF LifeInv
<1>12. CASE Refused(kst[r].op)
  BY <1>1, <1>3, <1>7, <1>8, <1>12, ProcessRequestTypes
<1>13. CASE ~Refused(kst[r].op) /\ r \in ToSet(interrupts)
  <2>1. /\ Becomes(t, Dispatch(kst[r].op), r, wk[t].intr, Null, wk[t].peer, wk[t].d)
        /\ ReqBecomes(r, TRUE, 1, TRUE, Null, Null) /\ list' = Append(list, r)
        /\ interrupts' = RemoveFirst(interrupts, r) /\ intr' = [intr EXCEPT ![r] = FALSE]
    BY <1>1, <1>3, <1>13, ProcessRequestTypes
  <2>2. \A p \in Request \ {r} : intr'[p] = intr[p]
    BY <2>1 DEF TypeInv, StateTypes, IntrType
  <2>3. r # Null
    BY RequestsAssumption
  <2> QED
    BY <1>6, <1>11, <1>13, <2>1, <2>2, <2>3
<1>14. CASE ~Refused(kst[r].op) /\ r \notin ToSet(interrupts)
  <2>1. CASE \E q \in ToSet(interrupts) :
                /\ Becomes(t, "eagain", r, wk[t].intr, q, wk[t].peer, wk[t].d)
                /\ ReqBecomes(r, TRUE, 1, FALSE, Null, Null) /\ list' = Append(list, r)
                /\ interrupts' = RemoveFirst(interrupts, q) /\ intr' = intr
    <3>1. PICK q \in ToSet(interrupts) :
                /\ Becomes(t, "eagain", r, wk[t].intr, q, wk[t].peer, wk[t].d)
                /\ ReqBecomes(r, TRUE, 1, FALSE, Null, Null) /\ list' = Append(list, r)
                /\ interrupts' = RemoveFirst(interrupts, q) /\ intr' = intr
      BY <2>1
    <3> QED
      BY <1>7, <1>11, <3>1
  <2>2. CASE /\ Becomes(t, Dispatch(kst[r].op), r, wk[t].intr, Null, wk[t].peer, wk[t].d)
             /\ ReqBecomes(r, TRUE, 1, FALSE, Null, Null) /\ list' = Append(list, r)
             /\ interrupts' = interrupts /\ intr' = intr
    BY <1>6, <1>8, <1>14, <2>2
  <2> QED
    BY <1>1, <1>3, <1>14, <2>1, <2>2, ProcessRequestTypes
<1> QED
  BY <1>12, <1>13, <1>14

LEMMA LifeInit ==
    ASSUME Init
    PROVE  LifeInv
<1>1. /\ \A t \in Worker : wk[t] = Idle
      /\ \A r \in Request : req[r] = NoReq
      /\ list = <<>> /\ interrupts = <<>> /\ bad = FALSE
  BY DEF Init
<1>2. \A t \in Worker : wk[t].pc = "none" /\ wk[t].m = Null /\ wk[t].stale = Null
  BY <1>1 DEF Idle
<1>3. \A r \in Request : Holders(r) = {} /\ \A t \in Worker : ~Asks(t, r) /\ ~Brings(t, r)
  BY <1>2 DEF Holders, Asks, Brings, Carrying, Busy, Handling, Interrupting
<1>4. ToSet(<<>>) = {} /\ IsInjective(<<>>)
  BY DEF ToSet, IsInjective
<1>5. HandlerInv
  BY <1>1, <1>3, <1>4 DEF HandlerInv
<1>6. CountsInv
  <2>1. Cardinality({}) = 0
    BY FS_EmptySet
  <2> QED
    <3>1. \A r \in Request : req[r].ctr = 0 /\ req[r].live = FALSE
      BY <1>1 DEF NoReq
    <3> QED
      BY <1>3, <2>1, <3>1 DEF CountsInv
<1>7. MessageInv
  BY <1>1, <1>2, <1>3, <1>4, RequestsAssumption DEF MessageInv, Interrupting
<1>8. LockInv
  BY <1>1, <1>2, RequestsAssumption DEF LockInv, NoReq
<1> QED
  BY <1>1, <1>5, <1>6, <1>7, <1>8 DEF LifeInv

-----------------------------------------------------------------------------
(* The types, the pool and the lifetimes together.                           *)

CoreInv == TypeInv /\ PoolInv /\ LifeInv

LEMMA CoreInit ==
    ASSUME Init
    PROVE  CoreInv
BY TypeInit, PoolInit, LifeInit DEF CoreInv

LEMMA CoreTypes ==
    ASSUME CoreInv, Next
    PROVE  TypeInv' /\ PoolInv'
<1>1. TypeInv /\ PoolInv /\ IsInjective(list) /\ IsInjective(interrupts)
  BY DEF CoreInv, LifeInv, HandlerInv, MessageInv
<1>2. CASE Kernel
  <2>1. TypeInv' /\ PoolSame /\ main' = main /\ se' = se
    BY <1>1, <1>2, KernelTypes, KernelSame
  <2> QED
    BY <1>1, <2>1, PoolKept
<1>3. ASSUME NEW t \in Worker, Receiving(t) \/ HandlerStep(t)
      PROVE  TypeInv' /\ PoolInv'
  <2>1. TypeInv' /\ PoolSame /\ main' = main /\ (se.exited => se'.exited)
    BY <1>1, <1>3, ReceivingTypes, HandlerStepTypes
  <2> QED
    BY <1>1, <2>1, PoolKept
<1>4. ASSUME NEW t \in Worker, Finished(t)
      PROVE  TypeInv' /\ PoolInv'
  BY <1>1, <1>4, FinishedPool
<1>5. ASSUME NEW t \in Worker, NEW ok \in BOOLEAN, TakeRequest(t, ok)
      PROVE  TypeInv' /\ PoolInv'
  BY <1>1, <1>5, TakeRequestPool
<1>6. ASSUME NEW ok \in BOOLEAN, MainStart(ok)
      PROVE  TypeInv' /\ PoolInv'
  BY <1>1, <1>6, MainStartPool
<1>7. CASE MainCancel \/ fuse_join_worker \/ MainAlone
  BY <1>1, <1>7, MainCancelPool, fuse_join_workerPool, MainAlonePool
<1> QED
  BY <1>2, <1>3, <1>4, <1>5, <1>6, <1>7, NextCases

LEMMA CoreStep ==
    ASSUME CoreInv, [Next]_vars
    PROVE  CoreInv'
<1>1. CASE UNCHANGED vars
  <2>1. /\ TypeInv /\ PoolInv /\ LifeInv
        /\ UNCHANGED <<wk, mt, main, se, req, list, interrupts, intr, kst, kint, env, bad>>
    BY <1>1 DEF vars, CoreInv
  <2>2. StateTypes'
    BY <2>1 DEF TypeInv, StateTypes, WkType, MtType, MainType, SeType, ReqType, ListType, InterruptsType,
                IntrType, KstType, KintType, EnvType, BadType
  <2>3. TypeInv'
    BY <2>1, <2>2, NoWorker DEF Grows, Taken
  <2>4. PoolSame
    BY <2>1 DEF PoolSame, Started, Avail, NotBusy
  <2>5. PoolInv'
    BY <2>1, <2>3, <2>4, PoolKept
  <2>6. (\A u \in Worker : NothingHeld(u)) /\ SentStay /\ bad' = FALSE
    BY <2>1 DEF NothingHeld, Untouched, SentStay, LifeInv, TypeInv, StateTypes, BadType
  <2>7. LifeInv'
    BY <2>1, <2>3, <2>6, LifeFrame
  <2> QED
    BY <2>3, <2>5, <2>7 DEF CoreInv
<1>2. CASE Next
  <2>1. TypeInv /\ PoolInv /\ LifeInv /\ TypeInv' /\ PoolInv'
    BY <1>2, CoreTypes DEF CoreInv
  <2>2. ASSUME NEW t \in Worker, Receiving(t)
        PROVE  LifeInv'
    <3>1. ASSUME NEW r \in Request, NEW isIntr \in BOOLEAN, Receive(t, r, isIntr)
          PROVE  LifeInv'
      BY <2>1, <3>1, ReceiveLife
    <3> QED
      BY <2>1, <2>2, <3>1, LifeOfOthers DEF Receiving
  <2>3. ASSUME NEW t \in Worker, HandlerStep(t)
        PROVE  LifeInv'
    <3>1. CASE ProcessNoMemory(t)
      BY <2>1, <3>1, LifeOfOthers
    <3>2. CASE CallbackReturns(t) \/ do_init(t) \/ do_destroy(t) \/ Reply(t)
      BY <2>1, <3>2, HandlerLife
    <3>3. CASE ProcessRequest(t)
      BY <2>1, <3>3, ProcessRequestLife
    <3>4. CASE do_interrupt(t)
      BY <2>1, <3>4, do_interruptLife
    <3>5. CASE ReplyStale(t)
      BY <2>1, <3>5, ReplyStaleLife
    <3>6. CASE PrepareInterrupt(t) \/ UnsetInterrupt(t)
      BY <2>1, <3>6, PrepareInterruptLife, UnsetInterruptLife
    <3>7. CASE fuse_free_req(t)
      BY <2>1, <3>7, fuse_free_reqLife
    <3>8. CASE LockInterrupted(t) \/ UnlockInterrupted(t)
      BY <2>1, <3>8, LockInterruptedLife, UnlockInterruptedLife
    <3>9. CASE fuse_interrupt(t)
      BY <2>1, <3>9, fuse_interruptLife
    <3>10. CASE UnrefInterrupted(t)
      BY <2>1, <3>10, UnrefInterruptedLife
    <3> QED
      BY <2>3, <3>1, <3>2, <3>3, <3>4, <3>5, <3>6, <3>7, <3>8, <3>9, <3>10 DEF HandlerStep
  <2>4. ASSUME \/ Kernel
               \/ \E t \in Worker : Finished(t)
               \/ \E t \in Worker, ok \in BOOLEAN : TakeRequest(t, ok)
               \/ \E ok \in BOOLEAN : MainStart(ok)
               \/ MainCancel
               \/ fuse_join_worker
               \/ MainAlone
        PROVE  LifeInv'
    BY <2>1, <2>4, LifeOfOthers
  <2>5. LifeInv'
    BY <1>2, <2>2, <2>3, <2>4, NextCases
  <2> QED
    BY <2>1, <2>5 DEF CoreInv
<1> QED
  BY <1>1, <1>2

LEMMA CoreAlways == Spec => []CoreInv
<1>1. Init => CoreInv
  BY CoreInit
<1>2. CoreInv /\ [Next]_vars => CoreInv'
  BY CoreStep
<1> QED
  BY <1>1, <1>2, PTL DEF Spec

\* The pool's counters (fuse_do_work, fuse_loop_start_thread): numworker is the
\* length of mt.list, numavail the number of workers not in a request other than
\* FORGET, and one is left for the next message unless a thread failed to start.
THEOREM PoolAccounted == Spec => []WorkersAccounted
<1>1. CoreInv => WorkersAccounted
  <2> SUFFICES ASSUME CoreInv
               PROVE  WorkersAccounted
    OBVIOUS
  <2>1. PoolInv
    BY DEF CoreInv
  <2>2. {t \in ToSet(mt.list) : wk[t].pc \in Busy => wk[t].forget} = Avail
    BY <2>1 DEF PoolInv, Started, Avail
  <2> QED
    BY <2>1, <2>2 DEF PoolInv, WorkersAccounted
<1> QED
  BY <1>1, CoreAlways, PTL

\* A request of the library (struct fuse_req) is freed exactly when its handler
\* and every interrupter have let go of it, req->ctr counts them, and nothing is
\* used after it is gone: no request, no fuse_intr_data on the stack of a handler,
\* no worker (fuse_free_req, find_interrupted, fuse_interrupt, fuse_join_worker).
THEOREM RequestsLive == Spec => []RequestLifetimes
<1>1. CoreInv => RequestLifetimes
  <2> SUFFICES ASSUME CoreInv
               PROVE  RequestLifetimes
    OBVIOUS
  <2>1. TypeInv /\ StateTypes /\ PoolInv /\ LifeInv /\ HandlerInv /\ CountsInv /\ MessageInv
    BY DEF CoreInv, TypeInv, LifeInv
  <2>2. ASSUME NEW r \in Request
        PROVE  /\ Holders(r) \subseteq Worker
               /\ {t \in Worker : wk[t].m = r /\ (IF wk[t].intr THEN wk[t].pc \in Interrupting
                                                               ELSE wk[t].pc \in Handling)} = Holders(r)
    <3>1. ASSUME NEW t \in Worker
          PROVE  (IF wk[t].intr THEN wk[t].pc \in Interrupting ELSE wk[t].pc \in Handling)
                    <=> wk[t].pc \in Handling \cup Interrupting
      <4>1. WorkerOK(t)
        BY <2>1 DEF TypeInv
      <4> QED
        BY <4>1 DEF WorkerOK
    <3> QED
      BY <3>1 DEF Holders
  <2>3. ReferencesCounted
    BY <2>1, <2>2 DEF CountsInv, ReferencesCounted
  <2>4. RequestsTypeOK
    <3>1. \A t \in Worker :
             /\ wk[t].pc \in Busy \cup {"none", "loop", "receive", "got", "post", "ended"}
             /\ wk[t].m \in Request \cup {Null} /\ wk[t].stale \in Request \cup {Null}
             /\ wk[t].peer \in Worker \cup {Null} /\ wk[t].d \in {"none", "running", "finished"}
      BY <2>1 DEF StateTypes, WkType, WorkerRecs, PCs
    <3>2. mt.list \in Seq(Worker) /\ IsInjective(mt.list) /\ mt.finish \in Nat
      BY <2>1 DEF StateTypes, MtType, MtRecs, PoolInv
    <3>3. mt.numavail \in 0..Cardinality(Worker)
      <4>1. mt.numavail \in 0..Cardinality(NotBusy)
        BY <2>1 DEF PoolInv
      <4>2. NotBusy \subseteq Worker /\ Worker \subseteq Worker
        BY DEF NotBusy
      <4>3. /\ Cardinality(NotBusy) <= Cardinality(Worker) /\ Cardinality(NotBusy) \in Nat
            /\ Cardinality(Worker) \in Nat
        BY <4>2, WorkersFinite
      <4> QED
        BY <4>1, <4>3
    <3>4. ASSUME NEW r \in Request
          PROVE  req[r].ctr \in 0..Cardinality(Worker) /\ {req[r].func, req[r].lock} \subseteq Worker \cup {Null}
      <4>1. /\ Cardinality(Holders(r)) <= Cardinality(Worker) /\ Cardinality(Holders(r)) \in Nat
            /\ Cardinality(Worker) \in Nat
        BY <2>2, WorkersFinite
      <4>2. req[r].ctr = Cardinality(Holders(r))
        BY <2>1 DEF CountsInv
      <4>3. {req[r].func, req[r].lock} \subseteq Worker \cup {Null}
        BY <2>1 DEF StateTypes, ReqType, ReqRecs
      <4> QED
        BY <4>1, <4>2, <4>3
    <3>5. main \in {"start", "check", "call", "waiting", "cancel", "join", "destroy", "done"}
      BY <2>1 DEF StateTypes, MainType
    <3>6. IsInjective(list) /\ IsInjective(interrupts)
      BY <2>1 DEF HandlerInv, MessageInv
    <3> QED
      BY <3>1, <3>2, <3>3, <3>4, <3>5, <3>6 DEF RequestsTypeOK
  <2>5. NoUseAfterFree
    BY <2>1 DEF LifeInv, NoUseAfterFree
  <2> QED
    BY <2>3, <2>4, <2>5 DEF RequestLifetimes
<1> QED
  BY <1>1, CoreAlways, PTL

-----------------------------------------------------------------------------
(* The delivery of interrupts.                                               *)

\* Worker u loses nothing that is on its way to r, and does not begin with r.
Carries(u, r) ==
    /\ Asks(u, r)' /\ wk'[u].pc \in {"got", "process"} => Asks(u, r) /\ wk[u].pc \in {"got", "process"}
    /\ wk[u].m = r /\ wk[u].intr /\ wk[u].pc \in {"got", "process", "lock"} =>
          wk'[u].m = r /\ wk'[u].intr /\ wk'[u].pc \in {"got", "process", "lock"}
    /\ wk[u].stale = r => wk'[u].stale = r

LEMMA Carried ==
    ASSUME TypeInv, NEW u \in Worker,
           \/ Untouched(u)
           \/ wk[u].pc \notin {"got", "process", "lock", "eagain"} /\ wk'[u].pc \notin {"got", "process"}
           \/ /\ wk[u].pc \in {"got", "process"} /\ wk'[u].pc \in {"got", "process"} /\ wk'[u].m = wk[u].m
              /\ wk'[u].intr = wk[u].intr
    PROVE  \A r \in Request : Carries(u, r)
<1>1. wk[u].stale # Null <=> wk[u].pc = "eagain"
  BY DEF TypeInv, WorkerOK
<1>2. CASE Untouched(u)
  BY <1>2 DEF Untouched, Carries, Asks
<1>3. CASE wk[u].pc \notin {"got", "process", "lock", "eagain"} /\ wk'[u].pc \notin {"got", "process"}
  BY <1>1, <1>3, RequestsAssumption DEF Carries
<1>4. CASE /\ wk[u].pc \in {"got", "process"} /\ wk'[u].pc \in {"got", "process"} /\ wk'[u].m = wk[u].m
           /\ wk'[u].intr = wk[u].intr
  BY <1>1, <1>4, RequestsAssumption DEF Carries, Asks, Carrying, Busy
<1> QED
  BY <1>2, <1>3, <1>4

LEMMA PlaceKept ==
    ASSUME NEW r \in Request, \A u \in Worker : Carries(u, r),
           r \in ToSet(list)' <=> r \in ToSet(list), r \in ToSet(interrupts) => r \in ToSet(interrupts)',
           r \in ToSet(list) /\ req[r].interrupted => req'[r].interrupted
    PROVE  (Waits(r)' => Waits(r)) /\ (Placed(r) => Placed(r)')
<1>1. Waits(r)' => Waits(r)
  BY DEF Carries, Waits
<1>2. ASSUME Placed(r)
      PROVE  Placed(r)'
  <2>1. CASE r \in ToSet(list) /\ req[r].interrupted
    BY <2>1 DEF Placed
  <2>2. CASE \E t \in Worker : wk[t].m = r /\ wk[t].intr /\ wk[t].pc \in {"got", "process", "lock"}
    <3>1. PICK t \in Worker : wk[t].m = r /\ wk[t].intr /\ wk[t].pc \in {"got", "process", "lock"}
      BY <2>2
    <3>2. wk'[t].m = r /\ wk'[t].intr /\ wk'[t].pc \in {"got", "process", "lock"}
      BY <3>1 DEF Carries
    <3> QED
      BY <3>2 DEF Placed
  <2>3. CASE \E t \in Worker : wk[t].stale = r
    <3>1. PICK t \in Worker : wk[t].stale = r
      BY <2>3
    <3>2. wk'[t].stale = r
      BY <3>1 DEF Carries
    <3> QED
      BY <3>2 DEF Placed
  <2>4. CASE r \in ToSet(interrupts) /\ r \notin ToSet(list)
    BY <2>4 DEF Placed
  <2> QED
    BY <1>2, <2>1, <2>2, <2>3, <2>4 DEF Placed
<1> QED
  BY <1>1, <1>2

LEMMA DeliveryKept ==
    ASSUME DeliveryInv, NotEarly', Open' => Open,
           \A r \in Request : kint'[r] = "sent" => kint[r] = "sent",
           \A u \in Worker, r \in Request : Carries(u, r),
           ToSet(list)' = ToSet(list), ToSet(interrupts)' = ToSet(interrupts),
           \A r \in Request : req[r].interrupted => req'[r].interrupted
    PROVE  DeliveryInv'
<1>1. ASSUME Open', NEW r \in Request, kint'[r] = "sent", Waits(r)'
      PROVE  Placed(r)'
  <2>1. (Waits(r)' => Waits(r)) /\ (Placed(r) => Placed(r)')
    BY PlaceKept
  <2> QED
    BY <1>1, <2>1 DEF DeliveryInv
<1> QED
  BY <1>1 DEF DeliveryInv

LEMMA NotEarlyStep ==
    ASSUME TypeInv, LifeInv, NotEarly, Next
    PROVE  NotEarly'
<1>1. /\ kst \in [Request -> KernelRecs] /\ kint \in [Request -> {"no", "queued", "sent", "gone"}]
      /\ \A t \in Worker : wk[t].pc \in Carrying => wk[t].m \in Request /\ Taken(wk[t].m)
  BY DEF TypeInv, StateTypes, KstType, KintType, WorkerOK
<1>2. ASSUME kst' = kst, kint' = kint
      PROVE  NotEarly'
  BY <1>2 DEF NotEarly, Taken
<1>3. ASSUME NEW r \in Request, Taken(r), Answered(r)
      PROVE  NotEarly'
  BY <1>1, <1>3 DEF NotEarly, Taken, Answered, KernelRecs
<1>4. CASE Kernel
  <2>1. ASSUME NEW r \in Request, NEW op \in Ops \cup {"init"}, KernelSend(r, op)
        PROVE  NotEarly'
    BY <1>1, <2>1 DEF KernelSend, NotEarly, Taken, KernelRecs
  <2>2. ASSUME NEW r \in Request, KernelInterrupt(r)
        PROVE  NotEarly'
    BY <1>1, <2>2 DEF KernelInterrupt, NotEarly, Taken, KernelRecs
  <2>3. CASE KernelUnmount
    BY <1>2, <2>3 DEF KernelUnmount
  <2> QED
    BY <1>4, <2>1, <2>2, <2>3 DEF Kernel
<1>5. ASSUME NEW t \in Worker, Receiving(t)
      PROVE  NotEarly'
  <2>1. ASSUME NEW r \in Request, NEW isIntr \in BOOLEAN, Receive(t, r, isIntr)
        PROVE  NotEarly'
    <3>1. CASE isIntr
      BY <1>1, <2>1, <3>1 DEF Receive, NotEarly, Taken, KernelRecs
    <3>2. CASE ~isIntr
      BY <1>1, <2>1, <3>2 DEF Receive, NotEarly, Taken, KernelRecs
    <3> QED
      BY <3>1, <3>2
  <2>2. CASE LoopHead(t) \/ ReceiveUnmounted(t) \/ ReceiveFails(t) \/ Cancelled(t) \/ Post(t)
    BY <1>2, <2>2 DEF LoopHead, ReceiveUnmounted, ReceiveFails, Cancelled, Post
  <2> QED
    BY <1>5, <2>1, <2>2 DEF Receiving
<1>6. ASSUME NEW t \in Worker, HandlerStep(t)
      PROVE  NotEarly'
  <2>1. CASE ProcessNoMemory(t)
    <3>1. wk[t].m \in Request /\ Taken(wk[t].m)
      BY <1>1, <2>1 DEF ProcessNoMemory, Carrying, Busy
    <3> QED
      BY <1>2, <1>3, <2>1, <3>1 DEF ProcessNoMemory
  <2>2. CASE Reply(t)
    <3>1. wk[t].m \in Request /\ Taken(wk[t].m)
      BY <1>1, <2>2 DEF Reply, Carrying, Busy, Handling
    <3> QED
      BY <1>3, <2>2, <3>1 DEF Reply
  <2>3. CASE ReplyStale(t)
    <3>1. PICK s \in Request : wk[t].stale = s
      BY <2>3 DEF ReplyStale, TypeInv, StateTypes, WkType, WorkerRecs, WorkerOK
    <3>2. kint[s] = "sent"
      BY <3>1 DEF LifeInv, MessageInv
    <3>3. kst' = kst /\ \A q \in Request \ {s} : kint'[q] = kint[q]
      BY <1>1, <2>3, <3>1 DEF ReplyStale, TryAgain
    <3> QED
      BY <3>2, <3>3 DEF NotEarly, Taken
  <2>4. CASE \/ ProcessRequest(t) \/ do_interrupt(t) \/ do_init(t) \/ do_destroy(t) \/ PrepareInterrupt(t)
             \/ CallbackReturns(t) \/ UnsetInterrupt(t) \/ fuse_free_req(t) \/ LockInterrupted(t)
             \/ fuse_interrupt(t) \/ UnlockInterrupted(t) \/ UnrefInterrupted(t)
    BY <1>2, <2>4 DEF ProcessRequest, do_interrupt, do_init, do_destroy, PrepareInterrupt, CallbackReturns,
       UnsetInterrupt, fuse_free_req, LockInterrupted, fuse_interrupt, UnlockInterrupted, UnrefInterrupted
  <2> QED
    BY <1>6, <2>1, <2>2, <2>3, <2>4 DEF HandlerStep
<1>7. ASSUME \/ \E t \in Worker : Finished(t)
             \/ \E t \in Worker, ok \in BOOLEAN : TakeRequest(t, ok)
             \/ \E ok \in BOOLEAN : MainStart(ok)
             \/ MainCancel
             \/ fuse_join_worker
             \/ MainAlone
      PROVE  NotEarly'
  <2>1. kst' = kst /\ kint' = kint
    BY <1>7, MainAloneTypes DEF Finished, TakeRequest, MainStart, MainCancel, fuse_join_worker
  <2> QED
    BY <1>2, <2>1
<1> QED
  BY <1>4, <1>5, <1>6, <1>7, NextCases

\* The steps of a handler or an interrupter that bring no message nearer.
LEMMA HandlerDelivery ==
    ASSUME TypeInv, LifeInv, DeliveryInv, NotEarly', Open' => Open, NEW t \in Worker,
           \/ do_init(t) \/ do_destroy(t) \/ PrepareInterrupt(t) \/ CallbackReturns(t) \/ UnsetInterrupt(t)
           \/ Reply(t) \/ fuse_interrupt(t) \/ UnlockInterrupted(t) \/ UnrefInterrupted(t)
    PROVE  DeliveryInv'
<1>1. wk[t].pc \notin {"got", "process", "lock", "eagain"} /\ UNCHANGED <<list, interrupts>>
  BY DEF do_init, do_destroy, PrepareInterrupt, CallbackReturns, UnsetInterrupt, Reply, fuse_interrupt,
         UnlockInterrupted, UnrefInterrupted
<1>2. wk[t].pc \in Carrying
  BY DEF do_init, do_destroy, PrepareInterrupt, CallbackReturns, UnsetInterrupt, Reply, fuse_interrupt,
         UnlockInterrupted, UnrefInterrupted, Carrying, Busy, Handling, Interrupting
<1>3. wk[t].m \in Request
  BY <1>2 DEF TypeInv, WorkerOK
<1>4. \A r \in Request : kint'[r] = "sent" => kint[r] = "sent"
  <2>1. CASE Reply(t)
    BY <1>3, <2>1 DEF Reply, Answered, TypeInv, StateTypes, KintType
  <2>2. CASE kint' = kint
    BY <2>2
  <2> QED
    BY <2>1, <2>2 DEF do_init, do_destroy, PrepareInterrupt, CallbackReturns, UnsetInterrupt, fuse_interrupt,
         UnlockInterrupted, UnrefInterrupted
<1>5. /\ \/ \A u \in Worker : Untouched(u)
         \/ wk'[t].pc \notin {"got", "process"} /\ \A u \in Worker \ {t} : wk'[u] = wk[u]
      /\ \A r \in Request : req[r].interrupted => req'[r].interrupted
  <2>1. CASE do_init(t)
    BY <2>1, do_initTypes DEF do_init, Becomes
  <2>2. CASE do_destroy(t)
    BY <2>2, do_destroyTypes DEF do_destroy, Becomes
  <2>3. CASE PrepareInterrupt(t)
    BY <2>3, PrepareInterruptTypes DEF Becomes, ReqBecomes
  <2>4. CASE CallbackReturns(t)
    <3>1. Becomes(t, IF Intr THEN "unset" ELSE "reply", wk[t].m, wk[t].intr, wk[t].stale, wk[t].peer,
                  IF Intr THEN "finished" ELSE wk[t].d)
      BY <2>4, CallbackReturnsTypes
    <3>2. req' = req
      BY <2>4 DEF CallbackReturns
    <3> QED
      BY <3>1, <3>2 DEF Becomes
  <2>5. CASE UnsetInterrupt(t)
    BY <2>5, UnsetInterruptTypes DEF Becomes, ReqBecomes
  <2>6. CASE Reply(t)
    BY <2>6, ReplyTypes DEF Reply, Becomes
  <2>7. CASE fuse_interrupt(t)
    BY <2>7, fuse_interruptTypes DEF fuse_interrupt, Becomes
  <2>8. CASE UnlockInterrupted(t)
    BY <2>8, UnlockInterruptedTypes DEF Becomes, ReqBecomes
  <2>9. CASE UnrefInterrupted(t)
    BY <2>9, UnrefInterruptedTypes DEF Becomes, ReqBecomes
  <2> QED
    BY <2>1, <2>2, <2>3, <2>4, <2>5, <2>6, <2>7, <2>8, <2>9
<1>6. ASSUME NEW u \in Worker
      PROVE  \/ Untouched(u)
             \/ wk[u].pc \notin {"got", "process", "lock", "eagain"} /\ wk'[u].pc \notin {"got", "process"}
  BY <1>1, <1>5 DEF Untouched
<1>7. \A u \in Worker, r \in Request : Carries(u, r)
  BY <1>6, Carried
<1>8. ToSet(list)' = ToSet(list) /\ ToSet(interrupts)' = ToSet(interrupts)
  BY <1>1
<1> QED
  BY <1>4, <1>5, <1>7, <1>8, DeliveryKept

\* The request is marked.
LEMMA LockInterruptedDelivery ==
    ASSUME TypeInv, LifeInv, DeliveryInv, NotEarly', Open' => Open, NEW t \in Worker, LockInterrupted(t)
    PROVE  DeliveryInv'
<1>1. wk[t].pc = "lock" /\ UNCHANGED <<list, interrupts, kint>>
  BY DEF LockInterrupted
<1>2. PICK r \in Request : wk[t].m = r
  BY <1>1 DEF TypeInv, WorkerOK, Carrying, Busy, Interrupting
<1>3. /\ wk'[t].pc \in {"unlock", "signal"} /\ wk'[t].stale = wk[t].stale
      /\ \A u \in Worker \ {t} : wk'[u] = wk[u]
      /\ req'[r].interrupted /\ \A q \in Request \ {r} : req'[q] = req[q]
  BY <1>2, LockInterruptedTypes DEF Becomes, ReqBecomes
<1>4. ASSUME NEW q \in Request, q # r
      PROVE  (Waits(q)' => Waits(q)) /\ (Placed(q) => Placed(q)')
  <2>1. Carries(t, q)
    BY <1>1, <1>2, <1>3, <1>4 DEF Carries
  <2>2. \A u \in Worker \ {t} : Carries(u, q)
    BY <1>3 DEF Carries, Asks
  <2>3. q \in ToSet(list) /\ req[q].interrupted => req'[q].interrupted
    BY <1>3, <1>4
  <2>4. (q \in ToSet(list)' <=> q \in ToSet(list)) /\ (q \in ToSet(interrupts) => q \in ToSet(interrupts)')
    BY <1>1
  <2> QED
    BY <2>1, <2>2, <2>3, <2>4, PlaceKept
<1>5. Waits(r)' => Placed(r)'
  <2>1. ASSUME NEW u \in Worker, Asks(u, r)', wk'[u].pc \in {"got", "process"}
        PROVE  FALSE
    <3>1. u # t /\ wk'[u] = wk[u]
      BY <1>3, <2>1
    <3>2. Asks(u, r) /\ wk[u].pc \in {"got", "process"}
      BY <2>1, <3>1 DEF Asks
    <3>3. Holders(r) = {}
      BY <3>2 DEF LifeInv, HandlerInv
    <3>4. t \in Holders(r)
      BY <1>1, <1>2 DEF Holders, Interrupting
    <3> QED
      BY <3>3, <3>4
  <2> QED
    BY <1>3, <2>1 DEF Waits, Placed
<1>6. \A q \in Request : kint'[q] = kint[q]
  BY <1>1
<1> QED
  BY <1>4, <1>5, <1>6 DEF DeliveryInv

\* The handler is done: the request is no longer in the list.
LEMMA fuse_free_reqDelivery ==
    ASSUME TypeInv, LifeInv, DeliveryInv, NotEarly', Open' => Open, NEW t \in Worker, fuse_free_req(t)
    PROVE  DeliveryInv'
<1>1. wk[t].pc = "free" /\ UNCHANGED <<interrupts, kint>>
  BY DEF fuse_free_req
<1>2. PICK r \in Request : wk[t].m = r
  BY <1>1 DEF TypeInv, WorkerOK, Carrying, Busy, Handling
<1>3. HandlerInv /\ list \in Seq(Request) /\ IsInjective(list)
  BY DEF LifeInv, HandlerInv, TypeInv, StateTypes, ListType
<1>4. /\ wk'[t].pc = "done" /\ \A u \in Worker \ {t} : wk'[u] = wk[u]
      /\ \A q \in Request : req'[q].interrupted = req[q].interrupted
  BY <1>2, <1>3, fuse_free_reqTypes DEF Becomes, ReqBecomes
<1>5. ToSet(list') = ToSet(list) \ {r}
  BY <1>2, <1>3, UnlinkElement DEF fuse_free_req
<1>6. ASSUME NEW u \in Worker
      PROVE  \/ Untouched(u)
             \/ wk[u].pc \notin {"got", "process", "lock", "eagain"} /\ wk'[u].pc \notin {"got", "process"}
  BY <1>1, <1>4 DEF Untouched
<1>7. \A u \in Worker, q \in Request : Carries(u, q)
  BY <1>6, Carried
<1>8. ASSUME NEW q \in Request, q # r
      PROVE  (Waits(q)' => Waits(q)) /\ (Placed(q) => Placed(q)')
  <2>1. /\ (q \in ToSet(list)' <=> q \in ToSet(list)) /\ (q \in ToSet(interrupts) => q \in ToSet(interrupts)')
        /\ (q \in ToSet(list) /\ req[q].interrupted => req'[q].interrupted)
    BY <1>1, <1>4, <1>5, <1>8
  <2> QED
    BY <1>7, <2>1, PlaceKept
<1>9. ~Waits(r)'
  <2>1. ASSUME NEW u \in Worker, Asks(u, r)', wk'[u].pc \in {"got", "process"}
        PROVE  FALSE
    <3>1. Asks(u, r) /\ wk[u].pc \in {"got", "process"}
      BY <1>7, <2>1 DEF Carries
    <3>2. Holders(r) = {} /\ t \in Holders(r)
      BY <1>1, <1>2, <1>3, <3>1 DEF HandlerInv, Holders, Handling
    <3> QED
      BY <3>2
  <2>2. r \notin ToSet(list)'
    BY <1>5
  <2> QED
    BY <2>1, <2>2 DEF Waits
<1>10. \A q \in Request : kint'[q] = kint[q]
  BY <1>1
<1> QED
  BY <1>8, <1>9, <1>10 DEF DeliveryInv

\* An INTERRUPT is answered EAGAIN: the kernel has it again.
LEMMA ReplyStaleDelivery ==
    ASSUME TypeInv, LifeInv, DeliveryInv, NotEarly', Open' => Open, NEW t \in Worker, ReplyStale(t)
    PROVE  DeliveryInv'
<1>1. wk[t].pc = "eagain" /\ UNCHANGED <<list, interrupts, req>>
  BY DEF ReplyStale
<1>2. PICK s \in Request : wk[t].stale = s
  BY <1>1 DEF TypeInv, StateTypes, WkType, WorkerRecs, WorkerOK
<1>3. kint'[s] # "sent" /\ \A q \in Request \ {s} : kint'[q] = kint[q]
  BY <1>2 DEF ReplyStale, TryAgain, TypeInv, StateTypes, KintType
<1>4. Known(kst[wk[t].m].op)
  BY <1>1 DEF TypeInv, WorkerOK
<1>5. Dispatch(kst[wk[t].m].op) \in {"init", "destroy", "free", "prepare", "callback", "reply"}
  BY <1>4, Dispatches
<1>6. wk'[t].pc \notin {"got", "process"} /\ \A u \in Worker \ {t} : wk'[u] = wk[u]
  BY <1>5, ReplyStaleTypes DEF Becomes
<1>7. ASSUME NEW q \in Request, q # s
      PROVE  (Waits(q)' => Waits(q)) /\ (Placed(q) => Placed(q)')
  <2>1. Carries(t, q)
    BY <1>1, <1>2, <1>6, <1>7 DEF Carries
  <2>2. \A u \in Worker \ {t} : Carries(u, q)
    BY <1>6 DEF Carries, Asks
  <2>3. q \in ToSet(list) /\ req[q].interrupted => req'[q].interrupted
    BY <1>1
  <2>4. (q \in ToSet(list)' <=> q \in ToSet(list)) /\ (q \in ToSet(interrupts) => q \in ToSet(interrupts)')
    BY <1>1
  <2> QED
    BY <2>1, <2>2, <2>3, <2>4, PlaceKept
<1> QED
  BY <1>3, <1>7 DEF DeliveryInv

\* The INTERRUPT of r is processed: a worker is on its way to r, or the message
\* is queued for r to find.
LEMMA do_interruptDelivery ==
    ASSUME TypeInv, LifeInv, DeliveryInv, NotEarly', Open' => Open, NEW t \in Worker, do_interrupt(t)
    PROVE  DeliveryInv'
<1>1. wk[t].pc = "process" /\ wk[t].intr /\ UNCHANGED <<list, kint>>
  BY DEF do_interrupt
<1>2. PICK r \in Request : wk[t].m = r
  BY <1>1 DEF TypeInv, WorkerOK, Carrying, Busy
<1>3. /\ wk'[t].pc = (IF r \in ToSet(list) THEN "lock" ELSE "done") /\ wk'[t].m = r /\ wk'[t].intr = wk[t].intr
      /\ wk'[t].stale = wk[t].stale /\ \A u \in Worker \ {t} : wk'[u] = wk[u]
  BY <1>2, do_interruptTypes DEF Becomes
<1>4. \A q \in Request : req'[q].interrupted = req[q].interrupted
  BY <1>2, do_interruptTypes DEF ReqBecomes
<1>5. Brings(t, r)
  BY <1>1, <1>2 DEF Brings
<1>6. r \notin ToSet(interrupts) /\ interrupts \in Seq(Request)
  BY <1>5 DEF LifeInv, MessageInv, TypeInv, StateTypes, InterruptsType
<1>7. /\ (\E i \in DOMAIN list : list[i] = r) <=> r \in ToSet(list)
      /\ ~(\E i \in DOMAIN interrupts : interrupts[i] = r)
  <2>1. list \in Seq(Request)
    BY DEF TypeInv, StateTypes, ListType
  <2> QED
    BY <1>6, <2>1 DEF ToSet
<1>8. interrupts' = IF r \in ToSet(list) THEN interrupts ELSE Append(interrupts, r)
  BY <1>2, <1>7 DEF do_interrupt
<1>9. ToSet(interrupts') = IF r \in ToSet(list) THEN ToSet(interrupts) ELSE ToSet(interrupts) \cup {r}
  <2>1. CASE r \in ToSet(list)
    BY <1>8, <2>1
  <2>2. CASE r \notin ToSet(list)
    <3>1. ToSet(Append(interrupts, r)) = ToSet(interrupts) \cup {r}
      BY <1>6, AppendElement
    <3> QED
      BY <1>8, <2>2, <3>1
  <2> QED
    BY <2>1, <2>2
<1>10. Placed(r)'
  BY <1>1, <1>3, <1>9 DEF Placed
<1>11. ASSUME NEW q \in Request, q # r
       PROVE  (Waits(q)' => Waits(q)) /\ (Placed(q) => Placed(q)')
  <2>1. Carries(t, q)
    BY <1>1, <1>2, <1>3, <1>11 DEF Carries
  <2>2. \A u \in Worker \ {t} : Carries(u, q)
    BY <1>3 DEF Carries, Asks
  <2>3. /\ (q \in ToSet(list)' <=> q \in ToSet(list)) /\ (q \in ToSet(interrupts) => q \in ToSet(interrupts)')
        /\ (q \in ToSet(list) /\ req[q].interrupted => req'[q].interrupted)
    BY <1>1, <1>4, <1>9
  <2> QED
    BY <2>1, <2>2, <2>3, PlaceKept
<1>12. \A q \in Request : kint'[q] = kint[q]
  BY <1>1
<1> QED
  BY <1>10, <1>11, <1>12 DEF DeliveryInv

\* A request enters the list: its message was queued and marks it, or is not
\* processed yet.  A refused one never enters.
LEMMA ProcessRequestDelivery ==
    ASSUME TypeInv, LifeInv, DeliveryInv, NotEarly', Open' => Open, NEW t \in Worker, ProcessRequest(t)
    PROVE  DeliveryInv'
<1>1. /\ IsInjective(interrupts) /\ HandlerInv /\ interrupts \in Seq(Request) /\ list \in Seq(Request)
      /\ kint' = kint
  BY DEF LifeInv, HandlerInv, MessageInv, TypeInv, StateTypes, InterruptsType, ListType, ProcessRequest
<1>2. wk[t].pc = "process" /\ ~wk[t].intr /\ wk[t].m \in Request
  BY <1>1, ProcessRequestTypes
<1>3. PICK r \in Request : wk[t].m = r
  BY <1>2
<1>4. Asks(t, r) /\ Waits(r) /\ Holders(r) = {}
  BY <1>1, <1>2, <1>3 DEF Asks, Waits, Carrying, Busy, HandlerInv
<1>5. r \notin ToSet(list)
  BY <1>1, <1>4 DEF HandlerInv, Holders, Asks
<1>6. wk[t].stale = Null /\ Null \notin Request
  BY <1>2, RequestsAssumption DEF TypeInv, WorkerOK
<1>7. ASSUME NEW pc \in Handling, NEW i, NEW s, Becomes(t, pc, r, wk[t].intr, s, wk[t].peer, wk[t].d),
             ReqBecomes(r, TRUE, 1, i, Null, Null), ToSet(list)' \subseteq ToSet(list) \cup {r},
             ToSet(list) \subseteq ToSet(list)',
             r \in ToSet(list)' /\ kint[r] = "sent" /\ Placed(r) => Placed(r)',
             \A q \in Request \ {r} : q \in ToSet(interrupts) => q \in ToSet(interrupts)' \/ Placed(q)'
      PROVE  DeliveryInv'
  <2>1. /\ wk'[t].pc \in Handling /\ wk'[t].stale = s /\ \A u \in Worker \ {t} : wk'[u] = wk[u]
        /\ \A q \in Request \ {r} : req'[q] = req[q]
    BY <1>7 DEF Becomes, ReqBecomes
  <2>2. ASSUME NEW q \in Request
        PROVE  \A u \in Worker : Carries(u, q)
    <3>1. Carries(t, q)
      BY <1>2, <1>6, <2>1 DEF Carries, Handling
    <3>2. \A u \in Worker \ {t} : Carries(u, q)
      BY <2>1 DEF Carries, Asks
    <3> QED
      BY <3>1, <3>2
  <2>3. ASSUME Open', NEW q \in Request, kint[q] = "sent", Waits(q)', q # r
        PROVE  Placed(q)'
    <3>1. (q \in ToSet(list)' <=> q \in ToSet(list)) /\ req'[q] = req[q]
      BY <1>7, <2>1, <2>3
    <3>2. CASE q \in ToSet(interrupts) => q \in ToSet(interrupts)'
      <4>1. (Waits(q)' => Waits(q)) /\ (Placed(q) => Placed(q)')
        BY <2>2, <3>1, <3>2, PlaceKept
      <4> QED
        BY <2>3, <4>1 DEF DeliveryInv
    <3> QED
      BY <1>7, <2>3, <3>2
  <2>4. ASSUME Open', kint[r] = "sent", Waits(r)'
        PROVE  Placed(r)'
    <3>1. Placed(r)
      BY <1>4, <2>4 DEF DeliveryInv
    <3>2. r \in ToSet(list)'
      <4>1. ASSUME NEW u \in Worker, Asks(u, r)', wk'[u].pc \in {"got", "process"}
            PROVE  FALSE
        <5>1. Asks(u, r) /\ wk[u].pc \in {"got", "process"}
          BY <2>2, <4>1 DEF Carries
        <5>2. u = t
          BY <1>1, <1>4, <5>1 DEF HandlerInv
        <5> QED
          BY <2>1, <4>1, <5>2 DEF Handling
      <4> QED
        BY <2>4, <4>1 DEF Waits
    <3> QED
      BY <1>7, <2>4, <3>1, <3>2
  <2> QED
    BY <1>1, <2>3, <2>4 DEF DeliveryInv
<1>8. ToSet(Append(list, r)) = ToSet(list) \cup {r}
  BY <1>1, AppendElement
<1>9. ~Refused(kst[r].op) => Dispatch(kst[r].op) \in Handling
  BY Dispatches DEF Refused, Known, Handling
<1>10. "reply" \in Handling /\ "eagain" \in Handling
  BY DEF Handling
<1>11. ASSUME NEW pc, NEW i, NEW s, Becomes(t, pc, r, wk[t].intr, s, wk[t].peer, wk[t].d),
              ReqBecomes(r, TRUE, 1, i, Null, Null), r \notin ToSet(interrupts), Placed(r)
       PROVE  Placed(r)'
  <2>1. \A u \in Worker \ {t} : wk'[u] = wk[u]
    BY <1>11 DEF Becomes
  <2>2. \/ \E u \in Worker : wk[u].m = r /\ wk[u].intr /\ wk[u].pc \in {"got", "process", "lock"}
        \/ \E u \in Worker : wk[u].stale = r
    BY <1>5, <1>11 DEF Placed
  <2>3. \/ \E u \in Worker : wk'[u].m = r /\ wk'[u].intr /\ wk'[u].pc \in {"got", "process", "lock"}
        \/ \E u \in Worker : wk'[u].stale = r
    BY <1>2, <1>6, <2>1, <2>2
  <2> QED
    BY <2>3 DEF Placed
<1>12. CASE Refused(kst[r].op)
  <2>1. /\ Becomes(t, "reply", r, wk[t].intr, Null, wk[t].peer, wk[t].d)
        /\ ReqBecomes(r, TRUE, 1, FALSE, Null, Null) /\ list' = list /\ interrupts' = interrupts
    BY <1>1, <1>3, <1>12, ProcessRequestTypes
  <2>2. ToSet(list)' = ToSet(list) /\ ToSet(interrupts)' = ToSet(interrupts)
    BY <2>1
  <2> QED
    BY <1>5, <1>7, <1>10, <2>1, <2>2
<1>13. CASE ~Refused(kst[r].op) /\ r \in ToSet(interrupts)
  <2>1. /\ Becomes(t, Dispatch(kst[r].op), r, wk[t].intr, Null, wk[t].peer, wk[t].d)
        /\ ReqBecomes(r, TRUE, 1, TRUE, Null, Null) /\ list' = Append(list, r)
        /\ interrupts' = RemoveFirst(interrupts, r)
    BY <1>1, <1>3, <1>13, ProcessRequestTypes
  <2>2. ToSet(list)' = ToSet(list) \cup {r} /\ ToSet(interrupts)' = ToSet(interrupts) \ {r}
    BY <1>1, <1>8, <2>1, UnlinkElement
  <2>3. Placed(r)'
    BY <2>1, <2>2 DEF Placed, ReqBecomes
  <2>4. PICK pc \in Handling : pc = Dispatch(kst[r].op)
    BY <1>9, <1>13
  <2> QED
    BY <1>7, <2>1, <2>2, <2>3, <2>4
<1>14. CASE ~Refused(kst[r].op) /\ r \notin ToSet(interrupts)
  <2>1. ReqBecomes(r, TRUE, 1, FALSE, Null, Null) /\ list' = Append(list, r)
    BY <1>1, <1>3, <1>14, ProcessRequestTypes
  <2>2. ToSet(list)' = ToSet(list) \cup {r}
    BY <1>8, <2>1
  <2>3. ASSUME NEW q \in ToSet(interrupts), Becomes(t, "eagain", r, wk[t].intr, q, wk[t].peer, wk[t].d),
               interrupts' = RemoveFirst(interrupts, q)
        PROVE  DeliveryInv'
    <3>1. ToSet(interrupts)' = ToSet(interrupts) \ {q}
      BY <1>1, <2>3, UnlinkElement
    <3>2. Placed(q)'
      BY <2>3 DEF Placed, Becomes
    <3>3. Placed(r) => Placed(r)'
      BY <1>11, <1>14, <2>1, <2>3
    <3>4. \A p \in Request \ {r} : p \in ToSet(interrupts) => p \in ToSet(interrupts)' \/ Placed(p)'
      BY <3>1, <3>2
    <3> QED
      BY <1>7, <1>10, <2>1, <2>2, <2>3, <3>3, <3>4
  <2>4. ASSUME Becomes(t, Dispatch(kst[r].op), r, wk[t].intr, Null, wk[t].peer, wk[t].d), interrupts' = interrupts
        PROVE  DeliveryInv'
    <3>1. PICK pc \in Handling : pc = Dispatch(kst[r].op)
      BY <1>9, <1>14
    <3>2. Placed(r) => Placed(r)'
      BY <1>11, <1>14, <2>1, <2>4
    <3>3. ToSet(interrupts)' = ToSet(interrupts)
      BY <2>4
    <3> QED
      BY <1>7, <2>1, <2>2, <2>4, <3>1, <3>2, <3>3
  <2> QED
    BY <1>1, <1>3, <1>14, <2>3, <2>4, ProcessRequestTypes
<1> QED
  BY <1>12, <1>13, <1>14

\* A message is read: its worker has it.  A request that is read was not
\* interrupted before.
LEMMA ReceiveDelivery ==
    ASSUME TypeInv, LifeInv, DeliveryInv, NotEarly', Open' => Open, NEW t \in Worker, NEW r \in Request,
           NEW isIntr \in BOOLEAN, Receive(t, r, isIntr)
    PROVE  DeliveryInv'
<1>1. wk[t].pc = "receive" /\ UNCHANGED <<req, list, interrupts, se>>
  BY DEF Receive
<1>2. /\ Becomes(t, IF se.exited THEN "post" ELSE "got", IF se.exited THEN Null ELSE r, ~se.exited /\ isIntr,
                 wk[t].stale, wk[t].peer, wk[t].d)
  BY ReceiveTypes
<1>3. CASE se.exited
  <2>1. ~Open'
    BY <1>1, <1>3 DEF Open
  <2> QED
    BY <2>1 DEF DeliveryInv
<1>4. CASE ~se.exited
  <2>1. /\ wk'[t].pc = "got" /\ wk'[t].m = r /\ wk'[t].intr = isIntr /\ wk'[t].stale = wk[t].stale
        /\ \A u \in Worker \ {t} : wk'[u] = wk[u]
    BY <1>2, <1>4 DEF Becomes
  <2>2. ASSUME NEW q \in Request, q # r \/ isIntr
        PROVE  (Waits(q)' => Waits(q)) /\ (Placed(q) => Placed(q)')
    <3>1. Carries(t, q)
      BY <1>1, <2>1, <2>2 DEF Carries, Asks
    <3>2. \A u \in Worker \ {t} : Carries(u, q)
      BY <2>1 DEF Carries, Asks
    <3>3. /\ (q \in ToSet(list)' <=> q \in ToSet(list)) /\ (q \in ToSet(interrupts) => q \in ToSet(interrupts)')
          /\ (q \in ToSet(list) /\ req[q].interrupted => req'[q].interrupted)
      BY <1>1
    <3> QED
      BY <3>1, <3>2, <3>3, PlaceKept
  <2>3. CASE isIntr
    <3>1. Placed(r)'
      BY <2>1, <2>3 DEF Placed
    <3>2. \A q \in Request \ {r} : kint'[q] = kint[q]
      BY <2>3 DEF Receive, TypeInv, StateTypes, KintType
    <3> QED
      BY <2>2, <2>3, <3>1, <3>2 DEF DeliveryInv
  <2>4. CASE ~isIntr
    <3>1. kint' = kint /\ ~Taken(r)
      BY <2>4 DEF Receive, Taken
    <3>2. kint'[r] # "sent"
      BY <3>1 DEF DeliveryInv, NotEarly
    <3>3. \A q \in Request : kint'[q] = kint[q]
      BY <3>1
    <3> QED
      BY <2>2, <3>2, <3>3 DEF DeliveryInv
  <2> QED
    BY <2>3, <2>4
<1> QED
  BY <1>3, <1>4

\* The steps that touch no message: those of the kernel, the loop of a worker
\* and the main thread.  Joined workers have none.
LEMMA OtherDelivery ==
    ASSUME TypeInv, TypeInv', PoolInv, LifeInv, DeliveryInv, NotEarly',
           \/ Kernel
           \/ \E t \in Worker : \/ LoopHead(t) \/ ReceiveUnmounted(t) \/ ReceiveFails(t)
                                \/ Cancelled(t) \/ Post(t) \/ Finished(t) \/ ProcessNoMemory(t)
           \/ \E t \in Worker, ok \in BOOLEAN : TakeRequest(t, ok)
           \/ \E ok \in BOOLEAN : MainStart(ok)
           \/ MainCancel
           \/ fuse_join_worker
           \/ MainAlone
    PROVE  DeliveryInv'
<1>1. ASSUME Open' => Open, \A r \in Request : kint'[r] = "sent" => kint[r] = "sent",
             UNCHANGED <<req, list, interrupts>>,
             \A u \in Worker :
                \/ Untouched(u)
                \/ wk[u].pc \notin {"got", "process", "lock", "eagain"} /\ wk'[u].pc \notin {"got", "process"}
                \/ /\ wk[u].pc \in {"got", "process"} /\ wk'[u].pc \in {"got", "process"} /\ wk'[u].m = wk[u].m
                   /\ wk'[u].intr = wk[u].intr
      PROVE  DeliveryInv'
  <2>1. \A u \in Worker, r \in Request : Carries(u, r)
    BY <1>1, Carried
  <2>2. /\ ToSet(list)' = ToSet(list) /\ ToSet(interrupts)' = ToSet(interrupts)
        /\ \A r \in Request : req[r].interrupted => req'[r].interrupted
    BY <1>1
  <2> QED
    BY <1>1, <2>1, <2>2, DeliveryKept
<1>2. ASSUME ~Open'
      PROVE  DeliveryInv'
  BY <1>2 DEF DeliveryInv
<1>3. env \in EnvRecs /\ se \in SessionRecs
  BY DEF TypeInv, StateTypes, EnvType, SeType
<1>4. CASE Kernel
  <2>1. UNCHANGED <<wk, se, req, list, interrupts>> /\ env'.failed = env.failed
    BY <1>4, KernelSame
  <2>2. \A r \in Request : kint'[r] = "sent" => kint[r] = "sent"
    BY <1>4 DEF Kernel, KernelSend, KernelInterrupt, KernelUnmount, TypeInv, StateTypes, KintType
  <2>3. (\A u \in Worker : Untouched(u)) /\ (Open' => Open)
    BY <2>1 DEF Untouched, Open
  <2> QED
    BY <1>1, <2>1, <2>2, <2>3
<1>5. ASSUME NEW t \in Worker, LoopHead(t) \/ ReceiveUnmounted(t) \/ ReceiveFails(t) \/ Cancelled(t) \/ Post(t)
      PROVE  DeliveryInv'
  <2>1. UNCHANGED <<req, list, interrupts, kint>> /\ wk[t].pc \in {"loop", "receive", "post"}
    BY <1>5 DEF LoopHead, ReceiveUnmounted, ReceiveFails, Cancelled, Post
  <2>2. Open' => Open
    <3>1. (se.exited => se'.exited) /\ PoolSame
      BY <1>5, ReceivingTypes DEF Receiving
    <3> QED
      BY <3>1 DEF PoolSame, Open
  <2>3. wk'[t].pc \in {"post", "receive", "ended"} /\ \A u \in Worker \ {t} : wk'[u] = wk[u]
    <3>1. CASE LoopHead(t)
      BY <3>1, LoopHeadTypes DEF Becomes
    <3>2. CASE ReceiveUnmounted(t)
      BY <3>2, ReceiveUnmountedTypes DEF Becomes
    <3>3. CASE ReceiveFails(t)
      BY <3>3, ReceiveFailsTypes DEF Becomes
    <3>4. CASE Cancelled(t)
      BY <3>4, CancelledTypes DEF Becomes
    <3>5. CASE Post(t)
      BY <3>5, PostTypes DEF Becomes
    <3> QED
      BY <1>5, <3>1, <3>2, <3>3, <3>4, <3>5
  <2> QED
    BY <1>1, <2>1, <2>2, <2>3 DEF Untouched
<1>6. ASSUME NEW t \in Worker, Finished(t)
      PROVE  DeliveryInv'
  <2>1. UNCHANGED <<req, list, interrupts, kint, se, env>> /\ wk[t].pc = "done" /\ IsInjective(mt.list)
    BY <1>6 DEF Finished, PoolInv
  <2>2. wk'[t].pc \in {"loop", "ended", "none"} /\ \A u \in Worker \ {t} : wk'[u] = wk[u]
    BY <1>6, <2>1, FinishedTypes DEF Rests
  <2> QED
    BY <1>1, <2>1, <2>2 DEF Untouched, Open
<1>7. ASSUME NEW t \in Worker, ProcessNoMemory(t)
      PROVE  DeliveryInv'
  <2>1. env'.failed
    BY <1>3, <1>7 DEF ProcessNoMemory, Failure, EnvRecs
  <2> QED
    BY <1>2, <2>1 DEF Open
<1>8. ASSUME NEW t \in Worker, NEW ok \in BOOLEAN, TakeRequest(t, ok)
      PROVE  DeliveryInv'
  <2>1. UNCHANGED <<req, list, interrupts, kint, se>>
    BY <1>8 DEF TakeRequest
  <2>2. wk[t].pc = "got" /\ wk[t] \in WorkerRecs
    BY <1>8, TakeRequestTypes DEF TypeInv, StateTypes, WkType
  <2>3. CASE TakesNone(t)
    <3>1. mt.exit /\ t \in Started
      BY <2>2, <2>3 DEF TakesNone, Started
    <3>2. main = "join"
      BY <3>1 DEF PoolInv
    <3>3. se.exited
      BY <3>2 DEF PoolInv
    <3> QED
      BY <1>2, <2>1, <3>3 DEF Open
  <2>4. CASE Takes(t)
    <3>1. wk'[t].pc = "process" /\ wk'[t].m = wk[t].m /\ wk'[t].intr = wk[t].intr
      BY <2>2, <2>4 DEF Takes, WorkerRecs
    <3>2. env.failed => env'.failed
      BY <1>3, <1>8 DEF TakeRequest, Starts, Failure, EnvRecs
    <3>3. Open' => Open
      BY <2>1, <3>2 DEF Open
    <3>4. CASE GoesOnAlone(t)
      BY <1>1, <2>1, <2>2, <3>1, <3>3, <3>4 DEF GoesOnAlone, Untouched
    <3>5. ASSUME NEW u \in Free, StartsAnother(t, u)
          PROVE  DeliveryInv'
      <4>1. u \in Worker /\ u \notin Started
        BY FreeThreads DEF TypeInv
      <4>2. wk[u].pc = "none" /\ wk'[u].pc \notin {"got", "process"}
        BY <3>5, <4>1 DEF StartsAnother, Idle, Started
      <4>3. \A v \in Worker : v # t /\ v # u => Untouched(v)
        <5>1. \A v \in Worker : v # t /\ v # u => wk'[v] = wk[v]
          BY <3>5 DEF StartsAnother
        <5> QED
          BY <5>1 DEF Untouched
      <4> QED
        BY <1>1, <2>1, <2>2, <3>1, <3>3, <4>2, <4>3
    <3> QED
      BY <1>8, <2>2, <2>4, <3>4, <3>5, TakeRequestTypes DEF TakesNone, Takes
  <2> QED
    BY <1>8, <2>3, <2>4, TakeRequestTypes
<1>9. ASSUME NEW ok \in BOOLEAN, MainStart(ok)
      PROVE  DeliveryInv'
  <2>1. UNCHANGED <<req, list, interrupts, kint, se>>
    BY <1>9 DEF MainStart
  <2>2. Open' => Open
    BY <1>3, <1>9 DEF MainStart, Starts, Failure, EnvRecs, Open
  <2>3. CASE wk' = wk
    BY <1>1, <2>1, <2>2, <2>3 DEF Untouched
  <2>4. ASSUME NEW u \in Free, wk'[u] = [Idle EXCEPT !.pc = "loop"], \A v \in Worker \ {u} : wk'[v] = wk[v]
        PROVE  DeliveryInv'
    <3>1. u \in Worker /\ u \notin Started
      BY FreeThreads DEF TypeInv
    <3>2. wk[u].pc = "none" /\ wk'[u].pc = "loop"
      BY <2>4, <3>1 DEF Idle, Started
    <3> QED
      BY <1>1, <2>1, <2>2, <2>4, <3>2 DEF Untouched
  <2> QED
    BY <1>9, <2>3, <2>4, MainStartTypes
<1>10. CASE MainCancel
  <2>1. UNCHANGED <<req, list, interrupts, kint, se, env>>
    BY <1>10 DEF MainCancel
  <2> QED
    BY <1>1, <1>10, <2>1, MainCancelTypes DEF Open
<1>11. CASE fuse_join_worker
  <2>1. UNCHANGED <<req, list, interrupts, kint, se, env>>
    BY <1>11 DEF fuse_join_worker
  <2>2. mt.joins \in Worker /\ wk[mt.joins].pc \in {"ended", "none"} /\ Rests(mt.joins, "none")
    BY <1>11, fuse_join_workerTypes DEF PoolInv
  <2>3. PICK u \in Worker : u = mt.joins
    BY <2>2
  <2>4. wk[u].pc \in {"ended", "none"} /\ wk'[u].pc = "none" /\ \A v \in Worker \ {u} : wk'[v] = wk[v]
    BY <2>2, <2>3 DEF Rests
  <2> QED
    BY <1>1, <2>1, <2>4 DEF Untouched, Open
<1>12. CASE MainAlone
  <2>1. UNCHANGED <<wk, req, list, interrupts, kint>>
    BY <1>12, MainAloneTypes
  <2>2. CASE MainReset
    <3>1. Started = {}
      BY <2>2 DEF MainReset, PoolInv, ToSet
    <3>2. \A t \in Worker, r \in Request : ~Asks(t, r)
      BY <3>1 DEF Started, Asks, Carrying, Busy, Handling, Interrupting
    <3>3. ToSet(list) = {}
      <4>1. ToSet(list) \subseteq Request
        BY DEF TypeInv, StateTypes, ListType, ToSet
      <4> QED
        BY <3>2, <4>1 DEF LifeInv, HandlerInv
    <3>4. \A r \in Request : ~Waits(r)
      BY <3>2, <3>3 DEF Waits
    <3>5. \A r \in Request : Waits(r)' <=> Waits(r)
      BY <2>1 DEF Waits, Asks
    <3> QED
      BY <3>4, <3>5 DEF DeliveryInv
  <2>3. CASE ~MainReset
    <3>1. Open' => Open
      BY <1>3, <1>12, <2>3 DEF MainAlone, MainCheck, MainSleep, MainWake, MainJoin, fuse_ll_destroy, ExitSignal, Open,
                          SessionRecs, EnvRecs
    <3>2. \A u \in Worker : Untouched(u)
      BY <2>1 DEF Untouched
    <3> QED
      BY <1>1, <2>1, <3>1, <3>2
  <2> QED
    BY <2>2, <2>3
<1> QED
  BY <1>4, <1>5, <1>6, <1>7, <1>8, <1>9, <1>10, <1>11, <1>12

LEMMA DeliveryInit ==
    ASSUME Init
    PROVE  DeliveryInv
BY DEF Init, DeliveryInv, NotEarly

LEMMA DeliveryStep ==
    ASSUME CoreInv, DeliveryInv, [Next]_vars
    PROVE  DeliveryInv'
<1>1. CASE UNCHANGED vars
  BY <1>1 DEF vars, DeliveryInv, NotEarly, Taken, Open, Waits, Placed, Asks
<1>2. CASE Next
  <2>1. TypeInv /\ PoolInv /\ LifeInv /\ TypeInv' /\ IsInjective(list) /\ IsInjective(interrupts)
    BY <1>2, CoreTypes DEF CoreInv, LifeInv, HandlerInv, MessageInv
  <2>2. NotEarly'
    BY <1>2, <2>1, NotEarlyStep DEF DeliveryInv
  <2>3. ASSUME NEW t \in Worker, Receiving(t)
        PROVE  DeliveryInv'
    <3>1. Open' => Open
      <4>1. (se.exited => se'.exited) /\ PoolSame
        BY <2>1, <2>3, ReceivingTypes
      <4> QED
        BY <4>1 DEF PoolSame, Open
    <3>2. ASSUME NEW r \in Request, NEW isIntr \in BOOLEAN, Receive(t, r, isIntr)
          PROVE  DeliveryInv'
      BY <2>1, <2>2, <3>1, <3>2, ReceiveDelivery
    <3> QED
      BY <2>1, <2>2, <2>3, <3>2, OtherDelivery DEF Receiving
  <2>4. ASSUME NEW t \in Worker, HandlerStep(t)
        PROVE  DeliveryInv'
    <3>1. Open' => Open
      <4>1. (se.exited => se'.exited) /\ PoolSame
        BY <2>1, <2>4, HandlerStepTypes
      <4> QED
        BY <4>1 DEF PoolSame, Open
    <3>2. CASE ProcessNoMemory(t)
      BY <2>1, <2>2, <3>2, OtherDelivery
    <3>3. CASE ProcessRequest(t)
      BY <2>1, <2>2, <3>1, <3>3, ProcessRequestDelivery
    <3>4. CASE do_interrupt(t)
      BY <2>1, <2>2, <3>1, <3>4, do_interruptDelivery
    <3>5. CASE ReplyStale(t)
      BY <2>1, <2>2, <3>1, <3>5, ReplyStaleDelivery
    <3>6. CASE fuse_free_req(t)
      BY <2>1, <2>2, <3>1, <3>6, fuse_free_reqDelivery
    <3>7. CASE LockInterrupted(t)
      BY <2>1, <2>2, <3>1, <3>7, LockInterruptedDelivery
    <3>8. CASE \/ do_init(t) \/ do_destroy(t) \/ PrepareInterrupt(t) \/ CallbackReturns(t) \/ UnsetInterrupt(t)
               \/ Reply(t) \/ fuse_interrupt(t) \/ UnlockInterrupted(t) \/ UnrefInterrupted(t)
      BY <2>1, <2>2, <3>1, <3>8, HandlerDelivery
    <3> QED
      BY <2>4, <3>2, <3>3, <3>4, <3>5, <3>6, <3>7, <3>8 DEF HandlerStep
  <2>5. ASSUME \/ Kernel
               \/ \E t \in Worker : Finished(t)
               \/ \E t \in Worker, ok \in BOOLEAN : TakeRequest(t, ok)
               \/ \E ok \in BOOLEAN : MainStart(ok)
               \/ MainCancel
               \/ fuse_join_worker
               \/ MainAlone
        PROVE  DeliveryInv'
    BY <2>1, <2>2, <2>5, OtherDelivery
  <2> QED
    BY <1>2, <2>3, <2>4, <2>5, NextCases
<1> QED
  BY <1>1, <1>2

\* An INTERRUPT the library has read reaches its request in whatever order the
\* two messages are read and processed (do_interrupt, check_interrupt,
\* find_interrupted): while the request is handled it is marked, or a worker is
\* on its way to it or gives the message back to the kernel.
THEOREM InterruptsReach == Spec => []InterruptsDelivered
<1>1. CoreInv /\ DeliveryInv => InterruptsDelivered
  <2> SUFFICES ASSUME CoreInv, DeliveryInv, NEW i \in DOMAIN list, kint[list[i]] = "sent", ~se.exited, ~env.failed
               PROVE  \/ req[list[i]].interrupted
                      \/ \E t \in Worker : wk[t].m = list[i] /\ wk[t].intr /\ wk[t].pc \in {"got", "process", "lock"}
                      \/ \E t \in Worker : wk[t].stale = list[i]
    BY DEF InterruptsDelivered
  <2>1. list[i] \in Request /\ list[i] \in ToSet(list)
    BY DEF CoreInv, TypeInv, StateTypes, ListType, ToSet
  <2>2. Placed(list[i])
    BY <2>1 DEF DeliveryInv, Open, Waits
  <2> QED
    BY <2>1, <2>2 DEF Placed
<1>2. Init => DeliveryInv
  BY DeliveryInit
<1>3. CoreInv /\ DeliveryInv /\ [Next]_vars => DeliveryInv'
  BY DeliveryStep
<1> QED
  BY <1>1, <1>2, <1>3, CoreAlways, PTL DEF Spec

-----------------------------------------------------------------------------
(* The end of the session.                                                   *)

\* Request r is answered.
GetsAnswer(r) == Taken(r) /\ kst' = [kst EXCEPT ![r].st = "answered"]

LEMMA KernelMoves ==
    ASSUME TypeInv, Next
    PROVE  \/ kst' = kst
           \/ \E r \in Request, op \in Ops \cup {"init"} : KernelSend(r, op)
           \/ \E r \in Request, t \in Worker : Receive(t, r, FALSE)
           \/ \E r \in Request : GetsAnswer(r)
<1>1. \A t \in Worker : wk[t].pc \in Carrying => wk[t].m \in Request /\ Taken(wk[t].m)
  BY DEF TypeInv, WorkerOK
<1>2. CASE Kernel
  BY <1>2 DEF Kernel, KernelInterrupt, KernelUnmount
<1>3. ASSUME NEW t \in Worker, Receiving(t)
      PROVE  kst' = kst \/ \E r \in Request : Receive(t, r, FALSE)
  <2>1. ASSUME NEW r \in Request, NEW isIntr \in BOOLEAN, Receive(t, r, isIntr)
        PROVE  kst' = kst \/ Receive(t, r, FALSE)
    <3>1. CASE isIntr = TRUE
      BY <2>1, <3>1 DEF Receive
    <3>2. CASE isIntr = FALSE
      BY <2>1, <3>2
    <3> QED
      BY <3>1, <3>2
  <2>2. CASE LoopHead(t) \/ ReceiveUnmounted(t) \/ ReceiveFails(t) \/ Cancelled(t) \/ Post(t)
    BY <2>2 DEF LoopHead, ReceiveUnmounted, ReceiveFails, Cancelled, Post
  <2> QED
    BY <1>3, <2>1, <2>2 DEF Receiving
<1>4. ASSUME NEW t \in Worker, HandlerStep(t)
      PROVE  kst' = kst \/ \E r \in Request : GetsAnswer(r)
  <2>1. CASE ProcessNoMemory(t)
    <3>1. wk[t].m \in Request /\ Taken(wk[t].m)
      BY <1>1, <2>1 DEF ProcessNoMemory, Carrying, Busy
    <3> QED
      BY <2>1, <3>1 DEF ProcessNoMemory, Answered, GetsAnswer
  <2>2. CASE Reply(t)
    <3>1. wk[t].m \in Request /\ Taken(wk[t].m)
      BY <1>1, <2>2 DEF Reply, Carrying, Busy, Handling
    <3> QED
      BY <2>2, <3>1 DEF Reply, Answered, GetsAnswer
  <2>3. CASE \/ ProcessRequest(t) \/ do_interrupt(t) \/ ReplyStale(t) \/ do_init(t) \/ do_destroy(t)
             \/ PrepareInterrupt(t) \/ CallbackReturns(t) \/ UnsetInterrupt(t) \/ fuse_free_req(t)
             \/ LockInterrupted(t) \/ fuse_interrupt(t) \/ UnlockInterrupted(t) \/ UnrefInterrupted(t)
    BY <2>3 DEF ProcessRequest, do_interrupt, ReplyStale, do_init, do_destroy, PrepareInterrupt, CallbackReturns,
       UnsetInterrupt, fuse_free_req, LockInterrupted, fuse_interrupt, UnlockInterrupted, UnrefInterrupted
  <2> QED
    BY <1>4, <2>1, <2>2, <2>3 DEF HandlerStep
<1>5. ASSUME \/ \E t \in Worker : Finished(t)
             \/ \E t \in Worker, ok \in BOOLEAN : TakeRequest(t, ok)
             \/ \E ok \in BOOLEAN : MainStart(ok)
             \/ MainCancel
             \/ fuse_join_worker
             \/ MainAlone
      PROVE  kst' = kst
  BY <1>5, MainAloneTypes DEF Finished, TakeRequest, MainStart, MainCancel, fuse_join_worker
<1> QED
  BY <1>2, <1>3, <1>4, <1>5, NextCases

LEMMA KernelInvStep ==
    ASSUME TypeInv, KernelInv, Next
    PROVE  KernelInv' /\ Grows
<1>1. kst \in [Request -> KernelRecs] /\ Request \subseteq Int
  <2>1. Cardinality(Request) \in Nat
    BY RequestsAssumption, FS_CardinalityType
  <2> QED
    BY <2>1, RequestsAssumption DEF TypeInv, StateTypes, KstType
<1>2. CASE kst' = kst
  BY <1>2 DEF KernelInv, IsDestroy, Grows, Taken
<1>3. ASSUME NEW r \in Request, NEW op \in Ops \cup {"init"}, KernelSend(r, op)
      PROVE  KernelInv' /\ Grows
  <2>1. /\ kst'[r].op = op /\ kst'[r].st = "queued" /\ kst[r].st = "new"
        /\ \A q \in Request \ {r} : kst'[q] = kst[q]
    BY <1>1, <1>3 DEF KernelSend
  <2>2. /\ \A q \in Request : q < r => kst[q].st # "new" /\ kst[q].op # "destroy"
        /\ op = "destroy" => \A q \in Request : kst[q].st \notin {"queued", "sent"} \/ kst[q].op \in Forgets
    BY <1>3 DEF KernelSend, Pending
  <2>3. \A q \in Request : kst[q].st \in {"new", "queued", "sent", "answered"}
    BY <1>1 DEF KernelRecs
  <2>4. \A p \in Request : ~IsDestroy(p) /\ (IsDestroy(p)' => p = r /\ op = "destroy")
    <3>1. ASSUME NEW p \in Request, IsDestroy(p)
          PROVE  FALSE
      <4>1. ~(r < p)
        BY <2>1, <3>1 DEF KernelInv, IsDestroy
      <4>2. ~(p < r)
        BY <2>2, <3>1 DEF IsDestroy
      <4>3. p = r
        BY <1>1, <4>1, <4>2
      <4> QED
        BY <2>1, <3>1, <4>3 DEF IsDestroy
    <3> QED
      BY <2>1, <3>1 DEF IsDestroy
  <2>5. \A p, q \in Request : p < q /\ kst'[p].st = "new" => kst'[q].st = "new"
    BY <2>1, <2>2 DEF KernelInv
  <2>6. \A p, q \in Request : IsDestroy(p)' /\ q # p => kst'[q].st \in {"new", "answered"} \/ kst'[q].op \in Forgets
    BY <2>1, <2>2, <2>3, <2>4
  <2>7. \A p, q \in Request : IsDestroy(p)' /\ p < q => kst'[q].st = "new"
    BY <1>1, <2>1, <2>4 DEF KernelInv
  <2>8. Grows
    BY <2>1 DEF Grows, Taken
  <2> QED
    BY <2>5, <2>6, <2>7, <2>8 DEF KernelInv
<1>4. ASSUME NEW r \in Request, kst'[r].op = kst[r].op, \A q \in Request \ {r} : kst'[q] = kst[q],
             \/ kst[r].st = "queued" /\ kst'[r].st = IF kst[r].op \in Forgets THEN "answered" ELSE "sent"
             \/ Taken(r) /\ kst'[r].st = "answered"
      PROVE  KernelInv' /\ Grows
  <2>1. kst[r].st # "new" /\ kst'[r].st # "new"
    BY <1>4 DEF Taken
  <2>2. \A p \in Request : IsDestroy(p)' <=> IsDestroy(p)
    BY <1>4, <2>1 DEF IsDestroy
  <2>3. \A p, q \in Request : p < q /\ kst'[p].st = "new" => kst'[q].st = "new"
    BY <1>4, <2>1 DEF KernelInv
  <2>4. \A p, q \in Request : IsDestroy(p)' /\ q # p => kst'[q].st \in {"new", "answered"} \/ kst'[q].op \in Forgets
    BY <1>4, <2>2 DEF KernelInv
  <2>5. \A p, q \in Request : IsDestroy(p)' /\ p < q => kst'[q].st = "new"
    BY <1>4, <2>1, <2>2 DEF KernelInv
  <2>6. Grows
    BY <1>4 DEF Grows, Taken
  <2> QED
    BY <2>3, <2>4, <2>5, <2>6 DEF KernelInv
<1>5. ASSUME NEW r \in Request, NEW t \in Worker, Receive(t, r, FALSE)
      PROVE  KernelInv' /\ Grows
  <2>1. /\ kst'[r].op = kst[r].op /\ \A q \in Request \ {r} : kst'[q] = kst[q]
        /\ kst[r].st = "queued" /\ kst'[r].st = IF kst[r].op \in Forgets THEN "answered" ELSE "sent"
    BY <1>1, <1>5 DEF Receive, KernelRecs
  <2> QED
    BY <1>4, <2>1
<1>6. ASSUME NEW r \in Request, GetsAnswer(r)
      PROVE  KernelInv' /\ Grows
  <2>1. /\ kst'[r].op = kst[r].op /\ \A q \in Request \ {r} : kst'[q] = kst[q]
        /\ Taken(r) /\ kst'[r].st = "answered"
    BY <1>1, <1>6 DEF GetsAnswer, KernelRecs
  <2> QED
    BY <1>4, <2>1
<1> QED
  BY <1>2, <1>3, <1>5, <1>6, KernelMoves

\* What a step may do to worker u that leaves it without a request, or with the
\* one it had and no further from its end.
Stays(u) ==
    \/ Untouched(u)
    \/ wk'[u].pc \notin Carrying \/ wk'[u].intr
    \/ /\ wk'[u].m = wk[u].m /\ wk'[u].intr = wk[u].intr /\ wk[u].pc \in Carrying
       /\ wk[u].pc \in {"reply", "free", "done"} => wk'[u].pc \in {"reply", "free", "done"}
       /\ wk[u].pc \in {"free", "done"} => wk'[u].pc \in {"free", "done"}

LEMMA Stayed ==
    ASSUME NEW u \in Worker, Stays(u), NEW r \in Request, Asks(u, r)'
    PROVE  /\ Asks(u, r)
           /\ wk[u].pc \in {"reply", "free", "done"} => wk'[u].pc \in {"reply", "free", "done"}
           /\ wk[u].pc \in {"free", "done"} => wk'[u].pc \in {"free", "done"}
BY DEF Stays, Untouched, Asks

LEMMA EndFrame ==
    ASSUME TypeInv, SentInv, RouteInv, Grows, se.got_init => se'.got_init,
           \A u \in Worker : Stays(u),
           \A u \in Worker : Untouched(u) \/ Routed(u)',
           \A r \in Request : \/ kst'[r] = kst[r]
                              \/ \A u \in Worker : Asks(u, r)' => wk'[u].pc \in {"free", "done"}
    PROVE  SentInv' /\ RouteInv' /\ \A r \in Request : Destroyer(r) => Destroyer(r)'
<1>1. SentInv'
  <2>1. ASSUME NEW u \in Worker, NEW r \in Request, Asks(u, r)', wk'[u].pc \notin {"free", "done"},
               kst'[r].op \notin Forgets
        PROVE  kst'[r].st = "sent"
    <3>1. Asks(u, r) /\ wk[u].pc \notin {"free", "done"}
      BY <2>1, Stayed
    <3>2. kst'[r] = kst[r]
      BY <2>1
    <3> QED
      BY <2>1, <3>1, <3>2 DEF SentInv
  <2> QED
    BY <2>1 DEF SentInv
<1>2. RouteInv'
  <2>1. ASSUME NEW u \in Worker, Untouched(u)
        PROVE  Routed(u)'
    <3>1. wk'[u].pc = wk[u].pc /\ wk'[u].m = wk[u].m /\ Routed(u)
      BY <2>1 DEF Untouched, RouteInv
    <3>2. wk[u].pc \in Carrying => kst'[wk[u].m].op = kst[wk[u].m].op
      BY DEF TypeInv, WorkerOK, Grows
    <3>3. wk[u].pc \in {"prepare", "callback", "eagain", "destroy"} => wk[u].pc \in Carrying
      BY DEF Carrying, Busy, Handling
    <3> QED
      BY <3>1, <3>2, <3>3 DEF Routed
  <2> QED
    BY <2>1 DEF RouteInv
<1>3. ASSUME NEW r \in Request, Destroyer(r)
      PROVE  Destroyer(r)'
  <2>1. IsDestroy(r)' /\ Taken(r)'
    BY <1>3 DEF Destroyer, Grows, IsDestroy, Taken
  <2>2. ASSUME NEW u \in Worker, Asks(u, r)'
        PROVE  wk'[u].pc \in {"reply", "free", "done"}
    BY <1>3, <2>2, Stayed DEF Destroyer
  <2> QED
    BY <2>1, <2>2 DEF Destroyer
<1> QED
  BY <1>1, <1>2, <1>3

LEMMA SameEnd ==
    ASSUME EndInv, \A r \in Request : Destroyer(r) => Destroyer(r)',
           se'.got_init = se.got_init, se'.got_destroy = se.got_destroy, se'.destroys = se.destroys,
           main' = "done" <=> main = "done"
    PROVE  EndInv'
<1>1. se'.got_destroy => se'.got_init /\ \E r \in Request : Destroyer(r)'
  BY DEF EndInv
<1>2. se'.destroys = IF ~se'.got_init THEN 0 ELSE IF main' = "done" \/ se'.got_destroy THEN 1 ELSE 0
  BY DEF EndInv
<1> QED
  BY <1>1, <1>2 DEF EndInv

\* A step that touches no request: one that gives up on a message answers it.
LEMMA QuietEnd ==
    ASSUME TypeInv, PoolInv, LifeInv, SentInv, RouteInv, Grows,
           \/ Kernel
           \/ \E t \in Worker : \/ LoopHead(t) \/ ReceiveUnmounted(t) \/ ReceiveFails(t)
                                \/ Cancelled(t) \/ Post(t) \/ Finished(t) \/ ProcessNoMemory(t)
           \/ \E t \in Worker, ok \in BOOLEAN : TakeRequest(t, ok)
           \/ \E ok \in BOOLEAN : MainStart(ok)
           \/ MainCancel
           \/ fuse_join_worker
           \/ MainAlone
    PROVE  SentInv' /\ RouteInv' /\ \A r \in Request : Destroyer(r) => Destroyer(r)'
<1>1. \A u \in Worker : NothingHeld(u)
  BY OtherSteps DEF Quiet
<1>2. ASSUME NEW u \in Worker
      PROVE  Stays(u) /\ (Untouched(u) \/ Routed(u)')
  <2>1. CASE Untouched(u)
    BY <2>1 DEF Stays
  <2>2. CASE wk'[u].pc \notin Carrying
    BY <2>2 DEF Stays, Routed, Carrying, Busy, Handling
  <2>3. CASE /\ wk[u].pc \in {"got", "process"} /\ wk'[u].pc \in {"process", "done"}
             /\ wk'[u].m = wk[u].m /\ wk'[u].intr = wk[u].intr
    BY <2>3 DEF Stays, Routed, Carrying, Busy
  <2> QED
    BY <1>1, <2>1, <2>2, <2>3 DEF NothingHeld
<1>3. se.got_init => se'.got_init
  BY DEF Kernel, KernelSend, KernelInterrupt, KernelUnmount, LoopHead, ReceiveUnmounted, ReceiveFails, Cancelled, Post,
         Finished, ProcessNoMemory, TakeRequest, MainStart, MainCancel, fuse_join_worker, MainAlone, MainCheck,
         MainSleep, MainWake, MainJoin, MainReset, fuse_ll_destroy, ExitSignal, TypeInv, StateTypes, SeType, SessionRecs
<1>4. ASSUME NEW r \in Request, kst'[r] # kst[r]
      PROVE  \A u \in Worker : Asks(u, r)' => wk'[u].pc \in {"free", "done"}
  <2>1. CASE Kernel
    <3>1. wk' = wk /\ kst[r].st = "new"
      BY <1>4, <2>1 DEF Kernel, KernelSend, KernelInterrupt, KernelUnmount, TypeInv, StateTypes, KstType
    <3>2. \A u \in Worker : ~Asks(u, r)
      BY <3>1 DEF Asks, TypeInv, WorkerOK, Taken
    <3> QED
      BY <3>1, <3>2 DEF Asks
  <2>2. ASSUME NEW t \in Worker, ProcessNoMemory(t)
        PROVE  \A u \in Worker : Asks(u, r)' => wk'[u].pc \in {"free", "done"}
    <3>1. /\ wk[t].pc = "process" /\ ~wk[t].intr /\ wk[t].m = r
      BY <1>4, <2>2 DEF ProcessNoMemory, Answered, TypeInv, StateTypes, KstType
    <3>2. Asks(t, r)
      BY <3>1 DEF Asks, Carrying, Busy
    <3>3. \A u \in Worker : Asks(u, r)' => u = t
      BY <1>2, <3>2, Stayed DEF LifeInv, HandlerInv
    <3>4. wk'[t].pc = "done"
      BY <2>2, ProcessNoMemoryTypes DEF Becomes
    <3> QED
      BY <3>3, <3>4
  <2>3. CASE \/ \E t \in Worker : LoopHead(t) \/ ReceiveUnmounted(t) \/ ReceiveFails(t) \/ Cancelled(t) \/ Post(t) \/ Finished(t)
             \/ \E t \in Worker, ok \in BOOLEAN : TakeRequest(t, ok)
             \/ \E ok \in BOOLEAN : MainStart(ok)
             \/ MainCancel
             \/ fuse_join_worker
             \/ MainAlone
    BY <1>4, <2>3, MainAloneTypes DEF LoopHead, ReceiveUnmounted, ReceiveFails, Cancelled, Post, Finished, TakeRequest, MainStart,
                                      MainCancel, fuse_join_worker
  <2> QED
    BY <2>1, <2>2, <2>3
<1> QED
  BY <1>2, <1>3, <1>4, EndFrame

\* A message is read: a new request, unless the session drops it.
LEMMA ReceiveEnd ==
    ASSUME TypeInv, SentInv, RouteInv, Grows, NEW t \in Worker, NEW r \in Request, NEW isIntr \in BOOLEAN,
           Receive(t, r, isIntr)
    PROVE  SentInv' /\ RouteInv' /\ \A q \in Request : Destroyer(q) => Destroyer(q)'
<1>1. /\ wk'[t].pc = IF se.exited THEN "post" ELSE "got"
      /\ wk'[t].m = IF se.exited THEN Null ELSE r
      /\ wk'[t].intr = (~se.exited /\ isIntr)
      /\ \A u \in Worker \ {t} : wk'[u] = wk[u]
  BY ReceiveTypes DEF Becomes
<1>2. \A u \in Worker : Untouched(u) \/ Routed(u)'
  BY <1>1 DEF Untouched, Routed
<1>3. se' = se /\ wk[t].pc = "receive"
  BY DEF Receive
<1>4. ASSUME NEW q \in Request, kst'[q] # kst[q]
      PROVE  ~isIntr /\ q = r /\ \A u \in Worker : ~Asks(u, q)
  <2>1. ~isIntr /\ q = r /\ kst[q].st = "queued"
    BY <1>4 DEF Receive, TypeInv, StateTypes, KstType
  <2> QED
    BY <2>1 DEF Asks, TypeInv, WorkerOK, Taken
<1>5. CASE se.exited \/ isIntr
  <2>1. \A u \in Worker : Stays(u)
    BY <1>1, <1>5 DEF Stays, Untouched, Carrying, Busy, Handling, Interrupting
  <2>2. ASSUME NEW q \in Request, kst'[q] # kst[q]
        PROVE  \A u \in Worker : Asks(u, q)' => wk'[u].pc \in {"free", "done"}
    BY <1>4, <2>1, <2>2, Stayed
  <2> QED
    BY <1>2, <1>3, <2>1, <2>2, EndFrame
<1>6. CASE ~se.exited /\ ~isIntr
  <2>1. /\ wk'[t].pc = "got" /\ wk'[t].m = r /\ kst[r].st = "queued"
        /\ \A q \in Request : Asks(t, q)' => q = r
    BY <1>1, <1>6 DEF Receive, Asks
  <2>2. \A u \in Worker, q \in Request : Asks(u, q)' => u = t \/ (wk'[u] = wk[u] /\ Asks(u, q))
    BY <1>1 DEF Asks
  <2>3. kst'[r].st = "sent" \/ kst'[r].op \in Forgets
    BY <1>6 DEF Receive, TypeInv, StateTypes, KstType, KernelRecs
  <2>4. SentInv'
    <3>1. ASSUME NEW u \in Worker, NEW q \in Request, Asks(u, q)', wk'[u].pc \notin {"free", "done"},
                 kst'[q].op \notin Forgets
          PROVE  kst'[q].st = "sent"
      <4>1. CASE u = t
        BY <2>1, <2>3, <3>1, <4>1
      <4>2. CASE u # t
        BY <1>4, <2>2, <3>1, <4>2 DEF SentInv
      <4> QED
        BY <4>1, <4>2
    <3> QED
      BY <3>1 DEF SentInv
  <2>5. ASSUME NEW u \in Worker
        PROVE  Routed(u)'
    <3>1. CASE u = t
      BY <2>1, <3>1 DEF Routed
    <3>2. CASE u # t
      <4>1. wk'[u] = wk[u] /\ Routed(u)
        BY <1>1, <3>2 DEF RouteInv
      <4>2. wk[u].pc \in {"prepare", "callback", "eagain", "destroy"} => kst'[wk[u].m].op = kst[wk[u].m].op
        BY DEF TypeInv, WorkerOK, Grows, Carrying, Busy, Handling
      <4> QED
        BY <1>3, <4>1, <4>2 DEF Routed
    <3> QED
      BY <3>1, <3>2
  <2>6. ASSUME NEW q \in Request, Destroyer(q)
        PROVE  Destroyer(q)'
    <3>1. IsDestroy(q)' /\ Taken(q)' /\ q # r
      BY <2>1, <2>6 DEF Destroyer, Grows, IsDestroy, Taken
    <3>2. ASSUME NEW u \in Worker, Asks(u, q)'
          PROVE  wk'[u].pc \in {"reply", "free", "done"}
      BY <2>1, <2>2, <2>6, <3>1, <3>2 DEF Destroyer
    <3> QED
      BY <3>1, <3>2 DEF Destroyer
  <2> QED
    BY <2>4, <2>5, <2>6 DEF RouteInv
<1> QED
  BY <1>5, <1>6

\* Where a handler goes that has its request.
LEMMA ToRoute ==
    ASSUME TypeInv, NEW t \in Worker, NEW pc, Known(kst[wk[t].m].op), se.got_init \/ kst[wk[t].m].op = "init",
           pc = Dispatch(kst[wk[t].m].op) \/ pc = "eagain",
           wk'[t].pc = pc, wk'[t].m = wk[t].m, kst' = kst, se' = se
    PROVE  Routed(t)'
<1> DEFINE op == kst[wk[t].m].op
<1>1. kst'[wk'[t].m].op = op
  OBVIOUS
<1> HIDE DEF op
<1>2. CASE pc = "eagain"
  BY <1>1, <1>2 DEF Routed, op
<1>3. CASE pc = Dispatch(op)
  <2>1. /\ pc \in {"init", "destroy", "free", "prepare", "callback", "reply"}
        /\ pc \in {"prepare", "callback"} => op \notin Forgets \cup {"init", "destroy"}
        /\ pc = "destroy" => op = "destroy"
    BY <1>3, Dispatches DEF op
  <2>2. pc = "destroy" => se'.got_init
    BY <2>1 DEF op
  <2> QED
    BY <1>1, <2>1, <2>2 DEF Routed
<1> QED
  BY <1>2, <1>3 DEF op

\* The steps of a handler or an interrupter.
LEMMA HandlerEnd ==
    ASSUME TypeInv, TypeInv', LifeInv, SentInv, RouteInv, Grows, NEW t \in Worker, HandlerStep(t), ~ProcessNoMemory(t)
    PROVE  SentInv' /\ RouteInv' /\ \A q \in Request : Destroyer(q) => Destroyer(q)'
<1> USE DEF Carrying, Busy, Handling, Interrupting
<1>0. IsInjective(list) /\ IsInjective(interrupts)
  BY DEF LifeInv, HandlerInv, MessageInv
<1>1. se.got_init => se'.got_init
  BY DEF HandlerStep, ProcessRequest, do_interrupt, ReplyStale, do_init, do_destroy,
     PrepareInterrupt, CallbackReturns, UnsetInterrupt, Reply, fuse_free_req, LockInterrupted, fuse_interrupt,
     UnlockInterrupted, UnrefInterrupted, TypeInv, StateTypes, SeType, SessionRecs
<1>2. ASSUME \A u \in Worker \ {t} : Untouched(u),
             Stays(t), Untouched(t) \/ Routed(t)', kst' = kst \/ Reply(t)
      PROVE  SentInv' /\ RouteInv' /\ \A q \in Request : Destroyer(q) => Destroyer(q)'
  <2>1. \A u \in Worker : Stays(u) /\ (Untouched(u) \/ Routed(u)')
    BY <1>2 DEF Stays
  <2>2. ASSUME NEW r \in Request, kst'[r] # kst[r]
        PROVE  \A u \in Worker : Asks(u, r)' => wk'[u].pc \in {"free", "done"}
    <3>1. Reply(t)
      BY <1>2, <2>2
    <3>2. wk[t].pc = "reply" /\ wk[t].m = r
      BY <2>2, <3>1 DEF Reply, Answered, TypeInv, StateTypes, KstType
    <3>3. Asks(t, r)
      BY <3>2 DEF Asks, TypeInv, WorkerOK
    <3>4. \A u \in Worker : Asks(u, r)' => u = t
      BY <2>1, <3>3, Stayed DEF LifeInv, HandlerInv
    <3>5. wk'[t].pc = "free"
      BY <3>1, ReplyTypes DEF Becomes
    <3> QED
      BY <3>4, <3>5
  <2> QED
    BY <1>1, <2>1, <2>2, EndFrame
<1>3. ASSUME NEW pc, wk'[t].pc = pc, wk'[t].m = wk[t].m, wk'[t].intr = wk[t].intr,
             \A u \in Worker \ {t} : wk'[u] = wk[u], kst' = kst \/ Reply(t),
             wk[t].pc \in Carrying, wk[t].pc \in {"reply", "free", "done"} => pc \in {"free", "done"},
             Routed(t)'
      PROVE  SentInv' /\ RouteInv' /\ \A q \in Request : Destroyer(q) => Destroyer(q)'
  <2>1. Stays(t) /\ \A u \in Worker \ {t} : Untouched(u)
    BY <1>3 DEF Stays, Untouched
  <2> QED
    BY <1>2, <1>3, <2>1
<1>4. ASSUME NEW pc \in {"lock", "signal", "unlock", "unref", "unset", "reply", "free", "done"},
             NEW s, NEW p, NEW d, Becomes(t, pc, wk[t].m, wk[t].intr, s, p, d),
             kst' = kst \/ Reply(t),
             wk[t].pc \in Carrying, wk[t].pc \in {"reply", "free", "done"} => pc \in {"free", "done"}
      PROVE  SentInv' /\ RouteInv' /\ \A q \in Request : Destroyer(q) => Destroyer(q)'
  <2>1. /\ wk'[t].pc = pc /\ wk'[t].m = wk[t].m /\ wk'[t].intr = wk[t].intr
        /\ \A u \in Worker \ {t} : wk'[u] = wk[u]
    BY <1>4 DEF Becomes
  <2>2. Routed(t)'
    BY <2>1 DEF Routed
  <2> QED
    BY <1>3, <1>4, <2>1, <2>2
<1>5. CASE ProcessRequest(t)
  <2>1. /\ wk[t].pc = "process" /\ wk[t].m \in Request /\ kst' = kst /\ se' = se
    BY <1>0, <1>5, ProcessRequestTypes DEF ProcessRequest
  <2>2. CASE Refused(kst[wk[t].m].op)
    <3>1. Becomes(t, "reply", wk[t].m, wk[t].intr, Null, wk[t].peer, wk[t].d)
      BY <1>0, <1>5, <2>2, ProcessRequestTypes
    <3> QED
      BY <1>4, <2>1, <3>1
  <2>3. CASE ~Refused(kst[wk[t].m].op)
    <3>1. Known(kst[wk[t].m].op) /\ (se.got_init \/ kst[wk[t].m].op = "init")
      BY <2>3 DEF Refused, Known, TypeInv, StateTypes, SeType, SessionRecs
    <3>2. PICK pc : /\ pc = Dispatch(kst[wk[t].m].op) \/ pc = "eagain"
                    /\ \E s : Becomes(t, pc, wk[t].m, wk[t].intr, s, wk[t].peer, wk[t].d)
      BY <1>0, <1>5, <2>3, ProcessRequestTypes
    <3>3. /\ wk'[t].pc = pc /\ wk'[t].m = wk[t].m /\ wk'[t].intr = wk[t].intr
          /\ \A u \in Worker \ {t} : wk'[u] = wk[u]
      BY <3>2 DEF Becomes
    <3>4. Routed(t)'
      BY <2>1, <3>1, <3>2, <3>3, ToRoute
    <3> QED
      BY <1>3, <2>1, <3>3, <3>4
  <2> QED
    BY <2>2, <2>3
<1>6. CASE ReplyStale(t)
  <2>1. /\ wk[t].pc = "eagain" /\ wk[t].m \in Request /\ kst' = kst /\ se' = se /\ Known(kst[wk[t].m].op)
    BY <1>6 DEF ReplyStale, TypeInv, WorkerOK
  <2>2. se.got_init \/ kst[wk[t].m].op = "init"
    BY <2>1 DEF RouteInv, Routed
  <2>3. /\ wk'[t].pc = Dispatch(kst[wk[t].m].op) /\ wk'[t].m = wk[t].m /\ wk'[t].intr = wk[t].intr
        /\ \A u \in Worker \ {t} : wk'[u] = wk[u]
    BY <1>6, ReplyStaleTypes DEF Becomes
  <2>4. Routed(t)'
    BY <2>1, <2>2, <2>3, ToRoute
  <2> QED
    BY <1>3, <2>1, <2>3, <2>4
<1>7. CASE PrepareInterrupt(t)
  <2>1. /\ wk[t].pc = "prepare" /\ kst' = kst /\ se' = se /\ wk'[t].pc = "callback" /\ wk'[t].m = wk[t].m
        /\ wk'[t].intr = wk[t].intr /\ \A u \in Worker \ {t} : wk'[u] = wk[u]
    BY <1>7, PrepareInterruptTypes DEF PrepareInterrupt, Becomes
  <2>2. Routed(t)'
    BY <2>1 DEF RouteInv, Routed
  <2> QED
    BY <1>3, <2>1, <2>2
<1>8. CASE do_init(t)
  BY <1>4, <1>8, do_initTypes DEF do_init
<1>9. CASE do_destroy(t)
  BY <1>4, <1>9, do_destroyTypes DEF do_destroy
<1>10. CASE CallbackReturns(t)
  <2>1. PICK pc \in {"unset", "reply"} :
           \E d : Becomes(t, pc, wk[t].m, wk[t].intr, wk[t].stale, wk[t].peer, d)
    BY <1>10, CallbackReturnsTypes
  <2> QED
    BY <1>4, <1>10, <2>1 DEF CallbackReturns
<1>11. CASE UnsetInterrupt(t)
  BY <1>4, <1>11, UnsetInterruptTypes DEF UnsetInterrupt
<1>12. CASE Reply(t)
  BY <1>4, <1>12, ReplyTypes DEF Reply
<1>13. CASE fuse_free_req(t)
  BY <1>0, <1>4, <1>13, fuse_free_reqTypes DEF fuse_free_req
<1>14. CASE do_interrupt(t)
  <2>1. PICK pc \in {"lock", "done"} : Becomes(t, pc, wk[t].m, wk[t].intr, wk[t].stale, wk[t].peer, wk[t].d)
    BY <1>14, do_interruptTypes
  <2>2. kst' = kst /\ wk[t].pc = "process"
    BY <1>14 DEF do_interrupt
  <2> QED
    BY <1>4, <2>1, <2>2
<1>15. CASE LockInterrupted(t)
  <2>1. PICK pc \in {"unlock", "signal"} :
           \E p : Becomes(t, pc, wk[t].m, wk[t].intr, wk[t].stale, p, wk[t].d)
    BY <1>15, LockInterruptedTypes
  <2> QED
    BY <1>4, <1>15, <2>1 DEF LockInterrupted
<1>16. CASE fuse_interrupt(t)
  <2>1. kst' = kst /\ wk[t].pc = "signal"
    BY <1>16 DEF fuse_interrupt
  <2>2. CASE \A u \in Worker : Untouched(u)
    BY <1>2, <2>1, <2>2 DEF Stays
  <2>3. CASE Becomes(t, "unlock", wk[t].m, wk[t].intr, wk[t].stale, wk[t].peer, wk[t].d)
    BY <1>4, <2>1, <2>3
  <2> QED
    BY <1>16, <2>2, <2>3, fuse_interruptTypes
<1>17. CASE UnlockInterrupted(t)
  BY <1>4, <1>17, UnlockInterruptedTypes DEF UnlockInterrupted
<1>18. CASE UnrefInterrupted(t)
  BY <1>4, <1>18, UnrefInterruptedTypes DEF UnrefInterrupted
<1> QED
  BY <1>5, <1>6, <1>7, <1>8, <1>9, <1>10, <1>11, <1>12, <1>13, <1>14, <1>15, <1>16, <1>17, <1>18 DEF HandlerStep

\* op.init is called: nothing has been destroyed.
LEMMA do_initEnd ==
    ASSUME TypeInv, PoolInv, EndInv, NEW t \in Worker, do_init(t),
           \A r \in Request : Destroyer(r) => Destroyer(r)'
    PROVE  EndInv'
<1>1. se'.got_init = TRUE /\ se'.got_destroy = se.got_destroy /\ se'.destroys = se.destroys /\ main' = main
  BY DEF do_init, TypeInv, StateTypes, SeType, SessionRecs
<1>2. main # "done"
  BY DEF do_init, PoolInv, Started
<1>3. se.got_init \in BOOLEAN
  BY DEF TypeInv, StateTypes, SeType, SessionRecs
<1>4. se'.destroys = IF main' = "done" \/ se'.got_destroy THEN 1 ELSE 0
  BY <1>1, <1>2, <1>3 DEF EndInv
<1> QED
  BY <1>1, <1>4 DEF EndInv

\* op.destroy is called for a DESTROY: there is no other, so it was not before.
LEMMA do_destroyEnd ==
    ASSUME TypeInv, PoolInv, LifeInv, KernelInv, RouteInv, EndInv, NEW t \in Worker, do_destroy(t)
    PROVE  EndInv'
<1>1. /\ wk[t].pc = "destroy" /\ kst' = kst /\ main' = main
      /\ se'.got_init = se.got_init /\ se'.got_destroy = TRUE /\ se'.destroys = se.destroys + 1
  BY DEF do_destroy, TypeInv, StateTypes, SeType, SessionRecs
<1>2. PICK m \in Request : wk[t].m = m
  BY <1>1 DEF TypeInv, WorkerOK, Carrying, Busy, Handling
<1>3. se.got_init /\ IsDestroy(m) /\ Taken(m)
  BY <1>1, <1>2 DEF RouteInv, Routed, IsDestroy, TypeInv, WorkerOK, Taken, Carrying, Busy, Handling
<1>4. Asks(t, m)
  BY <1>1, <1>2 DEF Asks, TypeInv, WorkerOK, Carrying, Busy, Handling
<1>5. ~se.got_destroy
  <2>1. ASSUME se.got_destroy
        PROVE  FALSE
    <3>1. PICK r \in Request : Destroyer(r)
      BY <2>1 DEF EndInv
    <3>2. r # m
      BY <1>1, <1>4, <3>1 DEF Destroyer
    <3>3. IsDestroy(r) /\ Taken(r)
      BY <3>1 DEF Destroyer
    <3>4. ~(r < m) /\ ~(m < r)
      BY <1>3, <3>3 DEF KernelInv, Taken
    <3>5. r \in Int /\ m \in Int
      <4>1. Cardinality(Request) \in Nat
        BY RequestsAssumption, FS_CardinalityType
      <4> QED
        BY <4>1, RequestsAssumption
    <3> QED
      BY <3>2, <3>4, <3>5
  <2> QED
    BY <2>1
<1>6. main # "done"
  BY <1>1 DEF PoolInv, Started
<1>7. se.destroys = 0
  BY <1>3, <1>5, <1>6 DEF EndInv
<1>8. Destroyer(m)'
  <2>1. IsDestroy(m)' /\ Taken(m)'
    BY <1>1, <1>3 DEF IsDestroy, Taken
  <2>2. wk'[t].pc = "reply" /\ \A u \in Worker \ {t} : wk'[u] = wk[u]
    BY do_destroyTypes DEF Becomes
  <2>3. \A u \in Worker : Asks(u, m)' => u = t
    BY <1>4, <2>2 DEF Asks, LifeInv, HandlerInv
  <2> QED
    BY <2>1, <2>2, <2>3 DEF Destroyer
<1> QED
  BY <1>1, <1>3, <1>7, <1>8 DEF EndInv

\* fuse_session_destroy calls op.destroy unless it has been called.
LEMMA fuse_ll_destroyEnd ==
    ASSUME TypeInv, EndInv, fuse_ll_destroy, \A r \in Request : Destroyer(r) => Destroyer(r)'
    PROVE  EndInv'
<1>1. se \in SessionRecs /\ main = "destroy" /\ main' = "done"
  BY DEF TypeInv, StateTypes, SeType, fuse_ll_destroy
<1>2. se' = [se EXCEPT !.destroys = IF se.got_init /\ ~se.got_destroy THEN se.destroys + 1 ELSE se.destroys]
  BY DEF fuse_ll_destroy
<1>3. /\ se'.got_init = se.got_init /\ se'.got_destroy = se.got_destroy
      /\ se'.destroys = IF se.got_init /\ ~se.got_destroy THEN se.destroys + 1 ELSE se.destroys
  BY <1>1, <1>2 DEF SessionRecs
<1>4. se.destroys = IF ~se.got_init THEN 0 ELSE IF se.got_destroy THEN 1 ELSE 0
  BY <1>1 DEF EndInv
<1>5. se.got_init \in BOOLEAN /\ se.got_destroy \in BOOLEAN
  BY <1>1 DEF SessionRecs
<1>6. se'.destroys = IF ~se'.got_init THEN 0 ELSE 1
  BY <1>3, <1>4, <1>5
<1>7. se'.got_destroy => se'.got_init /\ \E r \in Request : Destroyer(r)'
  BY <1>3 DEF EndInv
<1> QED
  BY <1>1, <1>6, <1>7 DEF EndInv

LEMMA DestroyInit ==
    ASSUME Init
    PROVE  DestroyInv
<1>1. \A t \in Worker : wk[t].pc = "none"
  BY DEF Init, Idle
<1>2. \A r \in Request : kst[r].st = "new"
  BY DEF Init
<1>3. KernelInv
  BY <1>2 DEF KernelInv, IsDestroy
<1>4. SentInv /\ RouteInv
  BY <1>1 DEF SentInv, RouteInv, Routed, Asks, Carrying, Busy, Handling, Interrupting
<1>5. EndInv
  BY DEF Init, EndInv
<1> QED
  BY <1>3, <1>4, <1>5 DEF DestroyInv

LEMMA DestroyStep ==
    ASSUME CoreInv, DestroyInv, [Next]_vars
    PROVE  DestroyInv'
<1>1. CASE UNCHANGED vars
  <2>1. UNCHANGED <<wk, main, se, kst>> /\ KernelInv /\ SentInv /\ RouteInv /\ EndInv
    BY <1>1 DEF vars, DestroyInv
  <2>2. KernelInv' /\ SentInv' /\ RouteInv'
    BY <2>1 DEF KernelInv, SentInv, RouteInv, Routed, IsDestroy, Asks
  <2>3. \A r \in Request : Destroyer(r) => Destroyer(r)'
    BY <2>1 DEF Destroyer, IsDestroy, Taken, Asks
  <2>4. EndInv'
    BY <2>1, <2>3, SameEnd
  <2> QED
    BY <2>2, <2>4 DEF DestroyInv
<1>2. CASE Next
  <2>1. /\ TypeInv /\ PoolInv /\ LifeInv /\ TypeInv'
        /\ KernelInv /\ SentInv /\ RouteInv /\ EndInv /\ se \in SessionRecs
    BY <1>2, CoreTypes DEF CoreInv, DestroyInv, TypeInv, StateTypes, SeType
  <2>2. KernelInv' /\ Grows
    BY <1>2, <2>1, KernelInvStep
  <2>3. ASSUME NEW t \in Worker, NEW r \in Request, NEW isIntr \in BOOLEAN, Receive(t, r, isIntr)
        PROVE  SentInv' /\ RouteInv' /\ EndInv'
    <3>1. SentInv' /\ RouteInv' /\ \A q \in Request : Destroyer(q) => Destroyer(q)'
      BY <2>1, <2>2, <2>3, ReceiveEnd
    <3>2. se' = se /\ main' = main
      BY <2>3 DEF Receive
    <3> QED
      BY <2>1, <3>1, <3>2, SameEnd
  <2>4. ASSUME NEW t \in Worker, HandlerStep(t), ~ProcessNoMemory(t)
        PROVE  SentInv' /\ RouteInv' /\ EndInv'
    <3>1. SentInv' /\ RouteInv' /\ \A q \in Request : Destroyer(q) => Destroyer(q)'
      BY <2>1, <2>2, <2>4, HandlerEnd
    <3>2. CASE do_init(t)
      BY <2>1, <3>1, <3>2, do_initEnd
    <3>3. CASE do_destroy(t)
      BY <2>1, <3>1, <3>3, do_destroyEnd
    <3>4. CASE ~do_init(t) /\ ~do_destroy(t)
      <4>1. se' = se /\ main' = main
        BY <2>4, <3>4 DEF HandlerStep, ProcessRequest, do_interrupt, ReplyStale,
           PrepareInterrupt, CallbackReturns, UnsetInterrupt, Reply, fuse_free_req, LockInterrupted, fuse_interrupt,
           UnlockInterrupted, UnrefInterrupted
      <4> QED
        BY <2>1, <3>1, <4>1, SameEnd
    <3> QED
      BY <3>1, <3>2, <3>3, <3>4
  <2>5. ASSUME \/ Kernel
               \/ \E t \in Worker : \/ LoopHead(t) \/ ReceiveUnmounted(t) \/ ReceiveFails(t)
                                    \/ Cancelled(t) \/ Post(t) \/ Finished(t) \/ ProcessNoMemory(t)
               \/ \E t \in Worker, ok \in BOOLEAN : TakeRequest(t, ok)
               \/ \E ok \in BOOLEAN : MainStart(ok)
               \/ MainCancel
               \/ fuse_join_worker
               \/ MainAlone
        PROVE  SentInv' /\ RouteInv' /\ EndInv'
    <3>1. SentInv' /\ RouteInv' /\ \A q \in Request : Destroyer(q) => Destroyer(q)'
      BY <2>1, <2>2, <2>5, QuietEnd
    <3>2. CASE fuse_ll_destroy
      BY <2>1, <3>1, <3>2, fuse_ll_destroyEnd
    <3>3. CASE ~fuse_ll_destroy
      <4>1. /\ se'.got_init = se.got_init /\ se'.got_destroy = se.got_destroy /\ se'.destroys = se.destroys
            /\ main' = "done" <=> main = "done"
        BY <2>1, <2>5, <3>3 DEF Kernel, KernelSend, KernelInterrupt, KernelUnmount, LoopHead, ReceiveUnmounted, ReceiveFails,
           Cancelled, Post, Finished, ProcessNoMemory, TakeRequest, MainStart, MainCancel, fuse_join_worker, MainAlone,
           MainCheck, MainSleep, MainWake, MainJoin, MainReset, ExitSignal, SessionRecs
      <4> QED
        BY <2>1, <3>1, <4>1, SameEnd
    <3> QED
      BY <3>1, <3>2, <3>3
  <2>6. SentInv' /\ RouteInv' /\ EndInv'
    BY <1>2, <2>3, <2>4, <2>5, NextCases DEF Receiving
  <2> QED
    BY <2>2, <2>6 DEF DestroyInv
<1> QED
  BY <1>1, <1>2

\* The destroy callback is called once after init, by do_destroy for the kernel's
\* DESTROY or by fuse_ll_destroy at the end of the session, and never while
\* another callback runs: DESTROY comes when the other requests are answered.
THEOREM DestroyOnceAndLast == Spec => []DestroyedOnceAndLast
<1>1. CoreInv /\ DestroyInv => DestroyedOnceAndLast
  <2> SUFFICES ASSUME CoreInv, DestroyInv
               PROVE  DestroyedOnceAndLast
    OBVIOUS
  <2>1. TypeInv /\ PoolInv /\ KernelInv /\ SentInv /\ RouteInv /\ EndInv
    BY DEF CoreInv, DestroyInv
  <2>2. ASSUME se.destroys > 0, NEW t \in Worker, wk[t].pc = "callback"
        PROVE  FALSE
    <3>1. main # "done"
      BY <2>1, <2>2 DEF PoolInv, Started
    <3>2. se.got_destroy
      BY <2>1, <2>2, <3>1 DEF EndInv
    <3>3. PICK r \in Request : Destroyer(r)
      BY <2>1, <3>2 DEF EndInv
    <3>4. PICK m \in Request : wk[t].m = m
      BY <2>1, <2>2 DEF TypeInv, WorkerOK, Carrying, Busy, Handling
    <3>5. Asks(t, m)
      BY <2>1, <2>2, <3>4 DEF Asks, TypeInv, WorkerOK, Carrying, Busy, Handling
    <3>6. kst[m].op \notin Forgets \cup {"init", "destroy"}
      BY <2>1, <2>2, <3>4 DEF RouteInv, Routed
    <3>7. kst[m].st = "sent"
      BY <2>1, <2>2, <3>5, <3>6 DEF SentInv
    <3>8. IsDestroy(r) /\ m # r
      BY <3>3, <3>6 DEF Destroyer, IsDestroy
    <3> QED
      BY <2>1, <3>6, <3>7, <3>8 DEF KernelInv
  <2> QED
    BY <2>1, <2>2 DEF DestroyedOnceAndLast, EndInv
<1>2. Init => DestroyInv
  BY DestroyInit
<1>3. CoreInv /\ DestroyInv /\ [Next]_vars => DestroyInv'
  BY DestroyStep
<1> QED
  BY <1>1, <1>2, <1>3, CoreAlways, PTL DEF Spec
=============================================================================
