------------------------------ MODULE FuseLocks ------------------------------
(***************************************************************************)
(* The POSIX locks the FUSE library remembers for a node                   *)
(* (src/resources/fuse-2.9.6/lib/fuse.c: locks_conflict, locks_insert and  *)
(* the handlers getlk, setlk and flush), so that F_GETLK can name a        *)
(* conflicting lock of this machine without asking the file system.        *)
(*                                                                         *)
(* A lock is granted by the file system, outside f->lock, and entered in   *)
(* the list afterwards; the file system (external) keeps the locks of      *)
(* every byte.  An owner's threads may have several calls in progress: they *)
(* are entered in any order, an entry is lost if there is no memory, and   *)
(* flush enters its unlock even if the file system has refused it.  So the *)
(* list can differ from the file system; told, current and calm are the    *)
(* history that says where it may.                                         *)
(***************************************************************************)
EXTENDS Integers, Sequences, SequencesExt, FiniteSets

CONSTANTS
    Owner,          \* lock owners
    OFFSET_MAX,     \* bound: the last byte
    MaxCalls        \* bound: calls of one owner that are not in the list yet

ASSUME LocksAssumption == OFFSET_MAX \in Nat /\ MaxCalls \in Nat \ {0} /\ IsFiniteSet(Owner)

VARIABLES
    locks,          \* node->locks, a list
    held,           \* external: held[o][b], the type of lock o holds on byte b
    granted,        \* per owner: calls the file system has answered, not yet in the list, in
                    \* the order of the answers; last: the bytes it has answered no later call on
    told,           \* history: told[o][b], the type that o's last entry for byte b had
    current,        \* history: the bytes where an owner's last entry was of the lock granted last
    calm            \* history: o's locks were all entered, as granted and in that order

lkvars == <<locks, held, granted, told, current, calm>>

Byte == 0..OFFSET_MAX
UNLCK == "UNLCK"
LockType == {"RDLCK", "WRLCK", UNLCK}

LocksInit ==
    /\ locks = <<>>
    /\ held = [o \in Owner |-> [b \in Byte |-> UNLCK]]
    /\ granted = [o \in Owner |-> <<>>]
    /\ told = [o \in Owner |-> [b \in Byte |-> UNLCK]]
    /\ current = [o \in Owner |-> Byte]
    /\ calm = [o \in Owner |-> TRUE]

\* flock_to_lock: a length of 0 reaches to the end.
flock_to_lock(o, fl) ==
    [owner |-> o, type |-> fl.l_type, start |-> fl.l_start,
     end |-> IF fl.l_len = 0 THEN OFFSET_MAX ELSE fl.l_start + fl.l_len - 1]

\* lock_to_flock
lock_to_flock(l) ==
    [l_type |-> l.type, l_start |-> l.start,
     l_len |-> IF l.end = OFFSET_MAX THEN 0 ELSE l.end - l.start + 1]

\* The flocks a process can ask for.
Flocks ==
    {fl \in [l_type : LockType, l_start : Byte, l_len : Byte] :
        fl.l_len = 0 \/ fl.l_start + fl.l_len - 1 < OFFSET_MAX}

-----------------------------------------------------------------------------
(* locks_insert.  A step of its loop looks at the element at i of the list:  *)
(* s = [ls, lock, i, go] where go is "on", "break" (enter the lock here) or  *)
(* "out" (it is there already).                                              *)

Skip(s) == [s EXCEPT !.i = @ + 1]
Delete(s) == [s EXCEPT !.ls = RemoveAt(@, s.i)]
Break(s) == [s EXCEPT !.go = "break"]
Becomes(s, l) == [s EXCEPT !.ls = ReplaceAt(@, s.i, l)]

\* The element has the type of the new lock: they become one.
SameType(s, l) ==
    LET lock == s.lock
        joined == [lock EXCEPT !.start = IF l.start < @ THEN l.start ELSE @,
                               !.end = IF @ < l.end THEN l.end ELSE @]
    IN  CASE l.end < lock.start - 1 -> Skip(s)
          [] l.end >= lock.start - 1 /\ lock.end < l.start - 1 -> Break(s)
          [] l.start <= lock.start /\ lock.end <= l.end -> [s EXCEPT !.go = "out"]
          [] OTHER -> Delete([s EXCEPT !.lock = joined])

\* Mutant: the part of the old lock behind the new one is lost.
M_OtherType(s, l) ==
    LET lock == s.lock
    IN  CASE l.end < lock.start -> Skip(s)
          [] l.end >= lock.start /\ lock.end < l.start -> Break(s)
          [] lock.start <= l.start /\ l.end <= lock.end -> Delete(s)
          [] lock.start > l.start -> Skip(Becomes(s, [l EXCEPT !.end = lock.start - 1]))
          [] OTHER -> Break(Becomes(s, [l EXCEPT !.start = lock.end + 1]))

\* It has another type: the new lock cuts it short, out or in two.
OtherType(s, l) ==
    LET lock == s.lock
        front == [l EXCEPT !.end = lock.start - 1]
        back == [l EXCEPT !.start = lock.end + 1]
    IN  CASE l.end < lock.start -> Skip(s)
          [] l.end >= lock.start /\ lock.end < l.start -> Break(s)
          [] lock.start <= l.start /\ l.end <= lock.end -> Delete(s)
          [] lock.start > l.start /\ lock.start <= l.end /\ l.end <= lock.end -> Skip(Becomes(s, front))
          [] lock.start <= l.start /\ l.start <= lock.end /\ lock.end < l.end -> Break(Becomes(s, back))
          [] lock.start > l.start /\ lock.end < l.end ->
                Skip([Becomes(s, front) EXCEPT !.ls = InsertAt(@, s.i + 1, back)])

InsertStep(s) ==
    IF s.go # "on" THEN s
    ELSE IF s.i > Len(s.ls) THEN Break(s)
    ELSE LET l == s.ls[s.i]
         IN  CASE l.owner # s.lock.owner -> Skip(s)
               [] l.owner = s.lock.owner /\ l.type = s.lock.type -> SameType(s, l)
               [] l.owner = s.lock.owner /\ l.type # s.lock.type -> OtherType(s, l)

locks_insert(ls0, lock0) ==
    LET start == [ls |-> ls0, lock |-> lock0, i |-> 1, go |-> "on"]
        run[k \in 0..(Len(ls0) + 2)] == IF k = 0 THEN start ELSE InsertStep(run[k - 1])
        final == run[Len(ls0) + 2]
    IN  IF final.go = "break" /\ lock0.type # UNLCK
        THEN InsertAt(final.ls, final.i, final.lock) ELSE final.ls

-----------------------------------------------------------------------------

Covers(l, b) == l.start <= b /\ b <= l.end
Bytes(l) == {b \in Byte : Covers(l, b)}

\* What is said of each byte once l has been put over it.
Overlaid(f, l) == [b \in Byte |-> IF Covers(l, b) THEN l.type ELSE f[b]]

\* The file system's own rule (external): no other owner holds a byte of the
\* range in a conflicting way.
Grants(l) ==
    \A b \in Byte, o \in Owner \ {l.owner} :
       Covers(l, b) => \/ l.type = UNLCK \/ held[o][b] = UNLCK
                       \/ l.type = "RDLCK" /\ held[o][b] = "RDLCK"

Outdated(calls, l) == [i \in DOMAIN calls |-> [calls[i] EXCEPT !.last = @ \ Bytes(l)]]

\* fuse_lib_setlk calls the file system, which grants the lock.  (flush comes
\* here with F_UNLCK on the whole file.)
SetLkCall(o, fl) ==
    LET l == flock_to_lock(o, fl)
    IN  /\ Len(granted[o]) < MaxCalls /\ Grants(l)
        /\ held' = [held EXCEPT ![o] = Overlaid(@, l)]
        /\ granted' = [granted EXCEPT ![o] = Append(Outdated(@, l), [lock |-> l, last |-> Bytes(l)])]
        /\ current' = [current EXCEPT ![o] = @ \ Bytes(l)]
        /\ UNCHANGED <<locks, told, calm>>

WholeFile(l) == l.type = UNLCK /\ l.start = 0 /\ l.end = OFFSET_MAX

\* The file system does not take back the locks at a flush (it is out of reach, say;
\* not ENOSYS), which fuse_flush_common enters in the list nevertheless.
FlushRefused(o) ==
    LET l == [owner |-> o, type |-> UNLCK, start |-> 0, end |-> OFFSET_MAX]
    IN  /\ Len(granted[o]) < MaxCalls
        /\ granted' = [granted EXCEPT ![o] = Append(@, [lock |-> l, last |-> {}])]
        /\ calm' = [calm EXCEPT ![o] = FALSE]
        /\ UNCHANGED <<locks, held, told, current>>

\* The thread of the i-th of these calls enters the lock in the list, under f->lock.
SetLkEnter(o, i) ==
    LET call == granted[o][i]
    IN  /\ locks' = locks_insert(locks, call.lock)
        /\ granted' = [granted EXCEPT ![o] = RemoveAt(@, i)]
        /\ told' = [told EXCEPT ![o] = Overlaid(@, call.lock)]
        /\ current' = [current EXCEPT ![o] = (@ \ Bytes(call.lock)) \cup call.last]
        /\ calm' = [calm EXCEPT ![o] = @ /\ i = 1]
        /\ UNCHANGED held

\* locks_insert finds no memory for the parts of a lock it may have to split, and
\* its callers ignore the ENOLCK.
SetLkLost(o, i) ==
    /\ ~WholeFile(granted[o][i].lock)
    /\ granted' = [granted EXCEPT ![o] = RemoveAt(@, i)]
    /\ calm' = [calm EXCEPT ![o] = FALSE]
    /\ UNCHANGED <<locks, held, told, current>>

\* locks_conflict: the first lock of another owner in the way, or 0.
locks_conflict(ls, lock) ==
    SelectInSeq(ls, LAMBDA l : /\ l.owner # lock.owner
                               /\ lock.start <= l.end /\ l.start <= lock.end
                               /\ (l.type = "WRLCK" \/ lock.type = "WRLCK"))

\* fuse_lib_getlk, which changes no state: a lock of the list, or what the file
\* system says (here: that it would grant the lock).
fuse_lib_getlk(o, fl) ==
    LET i == locks_conflict(locks, flock_to_lock(o, fl))
    IN  IF i = 0 THEN [fl EXCEPT !.l_type = UNLCK] ELSE lock_to_flock(locks[i])

LocksNext ==
    \/ \E o \in Owner : \E fl \in Flocks : SetLkCall(o, fl)
    \/ \E o \in Owner : FlushRefused(o)
    \/ \E o \in Owner : \E i \in DOMAIN granted[o] : SetLkEnter(o, i)
    \/ \E o \in Owner : \E i \in DOMAIN granted[o] : SetLkLost(o, i)

LocksSpec == LocksInit /\ [][LocksNext]_lkvars

-----------------------------------------------------------------------------

\* What the list says of a byte.
Listed(o, b) ==
    LET on == {i \in DOMAIN locks : locks[i].owner = o /\ Covers(locks[i], b)}
    IN  IF on = {} THEN UNLCK ELSE locks[CHOOSE i \in on : TRUE].type

\* Whatever splits and joins it took, the list says of every byte what was entered for
\* it last, of any number of calls of any owners.
ListSaysEntered == \A o \in Owner : \A b \in Byte : Listed(o, b) = told[o][b]

\* Where the last entry was of the lock granted last the list says what the file system
\* holds: a byte that overtaking calls, a lost entry or a refused flush left wrong is
\* right again with the next lock.  If an owner's locks were always entered, as granted
\* and in that order, the list is right for it as soon as none is on its way.
ListMatchesFs ==
    \A o \in Owner :
       /\ \A b \in current[o] : Listed(o, b) = held[o][b]
       /\ calm[o] /\ granted[o] = <<>> => \A b \in Byte : Listed(o, b) = held[o][b]

\* The locks of an owner are in order and apart, and neighbours of one type have
\* been joined; the loop's early exits rely on it.
ListSorted ==
    \A i, j \in DOMAIN locks :
       /\ locks[i].start <= locks[i].end
       /\ i < j /\ locks[i].owner = locks[j].owner =>
             /\ locks[i].end < locks[j].start
             /\ locks[i].type = locks[j].type => locks[i].end < locks[j].start - 1

\* F_GETLK answers F_UNLCK exactly if the file system would grant the lock, and
\* otherwise a range on which some other owner really holds that lock, in the way
\* of the one asked for; while the list is up to date (fuse.h promises no more: "the
\* results may not be accurate in case of race conditions").
GetLkRight ==
    (\A o \in Owner : current[o] = Byte) =>
       \A o \in Owner : \A fl \in {x \in Flocks : x.l_type # UNLCK} :
          LET lock == flock_to_lock(o, fl)
              found == fuse_lib_getlk(o, fl)
          IN  IF Grants(lock) THEN found.l_type = UNLCK
              ELSE \E other \in Owner \ {o} :
                     LET l == flock_to_lock(other, found)
                     IN  /\ \A b \in Byte : Covers(l, b) => held[other][b] = found.l_type
                         /\ \E b \in Byte : Covers(l, b) /\ Covers(lock, b)
                         /\ "WRLCK" \in {found.l_type, fl.l_type}

\* The list is in order and says of every byte what was entered last, which is what the
\* file system has granted unless calls overtook each other, an entry was lost or a flush
\* was refused; F_GETLK answers from it what the file system would.
LockListRight == ListSaysEntered /\ ListMatchesFs /\ ListSorted /\ GetLkRight
=============================================================================
