-------------------------------- MODULE FBR --------------------------------
(***************************************************************************)
(* Frequency-based replacement, the policy the buffer cache promises: the  *)
(* blocks are kept in the order of their last use, the order is cut by     *)
(* position into a new, a middle and an old section, and a block has a     *)
(* reference count that a use in the new section leaves alone.  Here a     *)
(* section is nothing but a range of positions; that the stored section    *)
(* tags and boundary iterators of CacheManager amount to this is what the  *)
(* refinement CacheManager => FBR shows.                                   *)
(***************************************************************************)
EXTENDS Integers

CONSTANTS
    Block,    \* the blocks that may be asked for
    None,     \* an unused slot
    Size,     \* number of slots
    NewSize,  \* slots 1 .. NewSize are the new section
    OldSize   \* the last OldSize slots are the old section

VARIABLES
    stack,    \* stack[i]: the i-th most recently used block, or None
    count     \* count[b]: reference count of b, 0 when b is not in the stack

fbrVars == <<stack, count>>

Slots    == 1 .. Size
OldSlots == (Size - OldSize + 1) .. Size

(***************************************************************************)
(* b becomes the most recently used block; what was in slot k is gone.     *)
(***************************************************************************)
ToFront(b, k) ==
    [i \in Slots |-> IF i = 1 THEN b ELSE IF i <= k THEN stack[i - 1] ELSE stack[i]]

\* Slot k holds a least referenced block of the old section, and no block that
\* was used longer ago is referenced as rarely.
LeastReferencedOldest(k) ==
    /\ k \in OldSlots
    /\ \A j \in OldSlots : /\ count[stack[k]] <= count[stack[j]]
                           /\ count[stack[j]] = count[stack[k]] => j <= k

FBRInit ==
    /\ stack = [i \in Slots |-> None]
    /\ count = [b \in Block |-> 0]

\* A block in the stack is used.
Hit(b) ==
    \E k \in Slots :
        /\ stack[k] = b
        /\ stack' = ToFront(b, k)
        /\ count' = IF k <= NewSize THEN count ELSE [count EXCEPT ![b] = @ + 1]

\* A new block takes a slot no block has used yet.
Fill(b) ==
    /\ \A i \in Slots : stack[i] # b
    /\ stack[Size] = None
    /\ stack' = ToFront(b, Size)
    /\ count' = [count EXCEPT ![b] = 1]

\* A new block replaces one of the old section; the stack was full.
Replace(b) ==
    /\ \A i \in Slots : stack[i] \notin {b, None}
    /\ \E k \in OldSlots :
        /\ LeastReferencedOldest(k)
        /\ stack' = ToFront(b, k)
        /\ count' = [count EXCEPT ![b] = 1, ![stack[k]] = 0]

FBRNext == \E b \in Block : Hit(b) \/ Fill(b) \/ Replace(b)

FBRSpec == FBRInit /\ [][FBRNext]_fbrVars
=============================================================================
