----------------------------- MODULE MCFuseTree -----------------------------
(* Instances of FuseTree for TLC. *)
EXTENDS FuseTree

CONSTANTS
    r0, d1, d2, f1, f2,     \* directories and files
    na, nb,                 \* the nodes of "a" and "a/b" where they are known from the start
    RememberOps,            \* what the kernel sends when nodes are remembered
    LateOps,                \* what the kernel sends while other requests wait
    MaxRequests             \* bound: requests the kernel sends, where they are counted

VARIABLE sent

mcvars == <<vars, sent>>

\* A directory "a" with a file "b" in it.
MCDirFile == <<>> :> r0 @@ <<"a">> :> d1 @@ <<"a", "b">> :> f1

AllCallbacks == DOMAIN Missing

\* Opening and renaming may fail (a hidden file whose removal fails would stay).
FewCallbacks == AllCallbacks \ {"open", "rename"}

SymmetricThreads == Permutations(Thread)

\* From the mount on, any number of requests.
MCInit == Init /\ sent = 0

MCNext == Next /\ UNCHANGED sent

MCSpec == MCInit /\ [][MCNext]_mcvars

\* The kernel has looked up "a" and "a/b" and has "a/b" open or not; it sends
\* at most MaxRequests more requests.
LookedUp(n, p, nm, obj, opens, remember) ==
    [Unused EXCEPT !.used = TRUE, !.name = nm, !.parent = p, !.obj = obj,
                   !.nlookup = IF remember THEN 2 ELSE 1, !.refctr = IF n = na THEN 2 ELSE 1,
                   !.open_count = opens]

WarmInit ==
    \E opens \in 0..1, remember \in Remember :
       /\ tab = [node |-> [n \in Ino |->
                   CASE n = Root -> [Unused EXCEPT !.used = TRUE, !.name = "/", !.nlookup = 1,
                                                   !.refctr = 2, !.obj = r0]
                     [] n = na -> LookedUp(na, Root, "a", d1, 0, remember)
                     [] n = nb -> LookedUp(nb, na, "b", f1, opens, remember)
                     [] OTHER -> Unused],
                 remember |-> remember, bad |-> FALSE]
       /\ klook = [n \in Ino |-> IF n \in {na, nb} THEN 1 ELSE 0]
       /\ kopen = [n \in Ino |-> IF n = nb THEN opens ELSE 0]
       /\ lockq = <<>> /\ rq = [t \in Thread |-> Idle] /\ fs = InitFs /\ abandons = 0
       /\ sent = 0

\* Threads 1, 2, ... each serve one request, which loses nothing: they are
\* interchangeable.  From the third on, a request is sent only while another one
\* waits for a path.
WarmNext ==
    \/ /\ sent < MaxRequests
       /\ \/ sent < 2 /\ Kernel(sent + 1, IF tab.remember THEN RememberOps ELSE Ops)
          \/ sent >= 2 /\ lockq # <<>> /\ Kernel(sent + 1, LateOps)
       /\ sent' = sent + 1
    \/ (\E t \in Thread : Worker(t) \/ Abandon(t)) /\ UNCHANGED sent
    \/ (\E n \in NodeId : CleanCache(n)) /\ UNCHANGED sent

\* Weak fairness of the worker threads: the operating system schedules a thread
\* that can run.  (Runnable is when Worker is enabled; spelled out, TLC need not
\* find that out by trying every step.)  The kernel need not send anything.
Fairness == \A t \in Thread : []<>(~Runnable(t)) \/ []<><<Worker(t)>>_mcvars

WarmSpec == WarmInit /\ [][WarmNext]_mcvars /\ Fairness
=============================================================================
