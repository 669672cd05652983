--------------------------- MODULE MCFuseRequests ---------------------------
(* Instances of FuseRequests for TLC. *)
EXTENDS FuseRequests

Budget(f, i, s, t) == [failures |-> f, interrupts |-> i, signals |-> s, threads |-> t]

\* One request is interrupted; there are three threads, or two and a failure or
\* a signal.
MCBudgets ==
    {Budget(0, 1, 0, {1, 2, 3}), Budget(1, 1, 0, {1, 2}), Budget(0, 1, 1, {1, 2})}
=============================================================================
