---------------------------- MODULE FuseNodeTable ----------------------------
(***************************************************************************)
(* The two hash tables of the FUSE library's nodes (by ID and by parent    *)
(* and name; src/resources/fuse-2.9.6/lib/fuse.c), which share their code  *)
(* but for the hash: linear hashing that splits or merges a bucket at a    *)
(* time, so that no request pays for a whole rehash.  Buckets below split  *)
(* use the full hash, the others half of it.                               *)
(***************************************************************************)
EXTENDS Integers, Sequences, FiniteSets, SequencesExt

CONSTANTS
    Key,            \* what is hashed: node IDs, or pairs of a parent and a name
    HashOf,         \* Key -> Nat, the hash before it is cut to the table
    NODE_TABLE_MIN_SIZE,    \* 8192 in the code
    RemergeIter,    \* buckets a removal looks at; 8 in the code
    MaxTableSize    \* bound: memory for a larger table is never there

ASSUME TableAssumption ==
    /\ NODE_TABLE_MIN_SIZE \in Nat /\ NODE_TABLE_MIN_SIZE > 1 /\ NODE_TABLE_MIN_SIZE % 2 = 0
    /\ RemergeIter \in Nat \ {0} /\ HashOf \in [Key -> Nat]

VARIABLES
    tbl,        \* struct node_table; array holds the chains
    hashed      \* the keys entered and not yet removed

\* node_table_init
TableInit ==
    /\ tbl = [array |-> [h \in 0..(NODE_TABLE_MIN_SIZE - 1) |-> <<>>],
              use |-> 0, size |-> NODE_TABLE_MIN_SIZE, split |-> 0]
    /\ hashed = {}

\* id_hash and name_hash
id_hash(t, k) ==
    LET hash == HashOf[k] % t.size
        oldhash == hash % (t.size \div 2)
    IN  IF oldhash >= t.split THEN oldhash ELSE hash

\* node_table_reduce.  The array may keep its old length; the rest is not used.
node_table_reduce(t) ==
    LET newsize == t.size \div 2
    IN  IF newsize < NODE_TABLE_MIN_SIZE THEN t
        ELSE [array |-> [h \in 0..(newsize - 1) |-> t.array[h]],
              use |-> t.use, size |-> newsize, split |-> newsize \div 2]

\* Mutant: the first merged bucket is dropped.
M_remerge(t0) ==
    LET t == IF t0.split = 0 THEN node_table_reduce(t0) ELSE t0
    IN  IF t.split = 0 THEN t ELSE [t EXCEPT !.split = @ - 1]

\* remerge_id, remerge_name: buckets are merged from split down, until one was
\* not empty or RemergeIter have been looked at.
remerge(t0) ==
    LET t == IF t0.split = 0 THEN node_table_reduce(t0) ELSE t0
        half == t.size \div 2
        tries == {n \in 1..RemergeIter : n <= t.split}
        busy == {n \in tries : t.array[t.split - n + half] # <<>>}
        n == CHOOSE i \in 0..RemergeIter :
                \/ busy # {} /\ i \in busy /\ \A j \in busy : i <= j
                \/ busy = {} /\ i = Cardinality(tries)
        low == t.split - n
    IN  IF busy = {} THEN [t EXCEPT !.split = low]
        ELSE [t EXCEPT !.split = low,
                       !.array[low] = @ \o t.array[low + half],
                       !.array[low + half] = <<>>]

\* node_table_resize; it may fail for want of memory.
node_table_resize(t, memory) ==
    IF ~memory \/ 2 * t.size > MaxTableSize THEN t
    ELSE [array |-> [h \in 0..(2 * t.size - 1) |-> IF h < t.size THEN t.array[h] ELSE <<>>],
          use |-> t.use, size |-> 2 * t.size, split |-> 0]

\* The loop of rehash_id and rehash_name: the nodes of the bucket stay or move, one after
\* the other, to the front of the chain the next bit of the hash leads to.
SplitChain(t, hash, upper) ==
    LET chain == t.array[hash]
        walk[i \in 0..Len(chain)] ==
            IF i = 0 THEN [stay |-> <<>>, moved |-> t.array[upper]]
            ELSE IF id_hash(t, chain[i]) # hash
            THEN [stay |-> walk[i - 1].stay, moved |-> <<chain[i]>> \o walk[i - 1].moved]
            ELSE [stay |-> Append(walk[i - 1].stay, chain[i]), moved |-> walk[i - 1].moved]
    IN  walk[Len(chain)]

\* rehash_id, rehash_name: the next bucket is split.
rehash(t0, memory) ==
    LET hash == t0.split
        t == [t0 EXCEPT !.split = @ + 1]
        upper == hash + t.size \div 2
        end == SplitChain(t, hash, upper)
        t1 == [t EXCEPT !.array[hash] = end.stay, !.array[upper] = end.moved]
    IN  IF t0.split = t0.size \div 2 THEN t0
        ELSE IF t1.split = t1.size \div 2 THEN node_table_resize(t1, memory) ELSE t1

\* hash_id, and the table's part of hash_name.
hash_id(k, memory) ==
    LET h == id_hash(tbl, k)
        t == [tbl EXCEPT !.array[h] = <<k>> \o @, !.use = @ + 1]
    IN  /\ k \notin hashed
        /\ tbl' = IF t.use >= t.size \div 2 THEN rehash(t, memory) ELSE t
        /\ hashed' = hashed \cup {k}

\* unhash_id, and the table's part of unhash_name.  A key that is not in its
\* chain stays where it is (unhash_name aborts).
unhash_id(k) ==
    LET h == id_hash(tbl, k)
        t == [tbl EXCEPT !.array[h] = RemoveFirst(@, k), !.use = @ - 1]
    IN  /\ k \in hashed
        /\ hashed' = hashed \ {k}
        /\ tbl' = IF ~Contains(tbl.array[h], k) THEN tbl
                  ELSE IF t.use < t.size \div 4 THEN remerge(t) ELSE t

TableNext ==
    \/ \E k \in Key, memory \in BOOLEAN : hash_id(k, memory)
    \/ \E k \in Key : unhash_id(k)

TableSpec == TableInit /\ [][TableNext]_<<tbl, hashed>>

-----------------------------------------------------------------------------

\* get_node_nocheck and lookup_node find every node that was hashed and not
\* removed, once, in the chain its hash leads to at this moment, however often
\* the table was split, grown, merged and shrunk since; and find no other.
TableFindsAll ==
    /\ tbl.use = Cardinality(hashed)
    /\ \A h \in DOMAIN tbl.array :
         /\ IsInjective(tbl.array[h])
         /\ \A i \in DOMAIN tbl.array[h] : tbl.array[h][i] \in hashed /\ id_hash(tbl, tbl.array[h][i]) = h
    /\ \A k \in hashed : Contains(tbl.array[id_hash(tbl, k)], k)

\* The array is as long as the code takes it to be, and the part above split,
\* which the next growth or shrinking takes to be empty, is empty.
TableShape ==
    /\ DOMAIN tbl.array = 0..(tbl.size - 1) /\ tbl.split \in 0..(tbl.size \div 2)
    /\ \A h \in (tbl.split + tbl.size \div 2)..(tbl.size - 1) : tbl.array[h] = <<>>

\* However the table has grown and shrunk, a lookup finds what was entered, and
\* use, size and split fit what is in it.
TableRight == TableFindsAll /\ TableShape
=============================================================================
