------------------------------ MODULE FuseSlab ------------------------------
(***************************************************************************)
(* The memory of the FUSE library's nodes (alloc_node, free_node_mem and   *)
(* their slabs; src/resources/fuse-2.9.6/lib/fuse.c).  A slab is a page    *)
(* with room for a number of nodes, a list of those that are free, and a   *)
(* count; it is in the list of the partly used or of the full ones.        *)
(***************************************************************************)
EXTENDS Integers, Sequences, FiniteSets, SequencesExt

CONSTANTS
    Page,           \* addresses mmap may return
    NodesPerSlab

ASSUME SlabAssumption == NodesPerSlab \in Nat \ {0} /\ IsFiniteSet(Page)

VARIABLES
    slab,           \* the mapped pages: Page -> [used, freelist]
    partial_slabs, full_slabs,
    nodes           \* the nodes in use: pairs of a page and a place in it

slabvars == <<slab, partial_slabs, full_slabs, nodes>>

SlabInit ==
    /\ slab = [p \in {} |-> <<>>]
    /\ partial_slabs = <<>> /\ full_slabs = <<>>
    /\ nodes = {}

\* alloc_slab: a new page with all its places free, at the end of the list.
alloc_slab(p) == [used |-> 0, freelist |-> [i \in 1..NodesPerSlab |-> i]]

\* Mutant: a slab that is full stays in the list of the partly used ones.
M_alloc_node(p) ==
    LET from == IF partial_slabs = <<>> THEN p ELSE Head(partial_slabs)
        s == IF partial_slabs = <<>> THEN alloc_slab(p) ELSE slab[from]
        s1 == [used |-> s.used + 1, freelist |-> Tail(s.freelist)]
    IN  /\ partial_slabs = <<>> => p \notin DOMAIN slab
        /\ s.freelist # <<>>
        /\ slab' = [q \in DOMAIN slab \cup {from} |-> IF q = from THEN s1 ELSE slab[q]]
        /\ partial_slabs' = IF partial_slabs = <<>> THEN <<p>> ELSE partial_slabs
        /\ nodes' = nodes \cup {<<from, Head(s.freelist)>>}
        /\ UNCHANGED full_slabs

\* alloc_node: from the first slab that is partly used, or a new page p.
alloc_node(p) ==
    LET from == IF partial_slabs = <<>> THEN p ELSE Head(partial_slabs)
        s == IF partial_slabs = <<>> THEN alloc_slab(p) ELSE slab[from]
        s1 == [used |-> s.used + 1, freelist |-> Tail(s.freelist)]
        rest == IF partial_slabs = <<>> THEN <<>> ELSE Tail(partial_slabs)
    IN  /\ partial_slabs = <<>> => p \notin DOMAIN slab
        /\ slab' = [q \in DOMAIN slab \cup {from} |-> IF q = from THEN s1 ELSE slab[q]]
        /\ IF s1.freelist = <<>>
           THEN partial_slabs' = rest /\ full_slabs' = Append(full_slabs, from)
           ELSE partial_slabs' = <<from>> \o rest /\ UNCHANGED full_slabs
        /\ nodes' = nodes \cup {<<from, Head(s.freelist)>>}

\* free_node_mem: the place comes first in its slab's list; a slab that was full
\* is partly used again, one that has become unused is unmapped.
free_node_mem(n) ==
    LET p == n[1]
        s == [used |-> slab[p].used - 1, freelist |-> <<n[2]>> \o slab[p].freelist]
        wasFull == slab[p].freelist = <<>>
    IN  /\ nodes' = nodes \ {n}
        /\ IF s.used > 0
           THEN /\ slab' = [slab EXCEPT ![p] = s]
                /\ full_slabs' = IF wasFull THEN RemoveFirst(full_slabs, p) ELSE full_slabs
                /\ partial_slabs' = IF wasFull THEN Append(partial_slabs, p) ELSE partial_slabs
           ELSE /\ slab' = [q \in DOMAIN slab \ {p} |-> slab[q]]
                /\ partial_slabs' = RemoveFirst(partial_slabs, p)
                /\ full_slabs' = RemoveFirst(full_slabs, p)

SlabNext ==
    \/ \E p \in Page : alloc_node(p)
    \/ \E n \in nodes : free_node_mem(n)

SlabSpec == SlabInit /\ [][SlabNext]_slabvars

-----------------------------------------------------------------------------

\* Every place of a mapped page is in use or free, and free once; so no node is
\* handed out twice and none is lost, in any order of frees.
SlabPlaces ==
    /\ \A n \in nodes : n[1] \in DOMAIN slab /\ ~Contains(slab[n[1]].freelist, n[2])
    /\ \A p \in DOMAIN slab :
         /\ slab[p].used = Cardinality({n \in nodes : n[1] = p}) /\ slab[p].used > 0
         /\ slab[p].used + Len(slab[p].freelist) = NodesPerSlab
         /\ IsInjective(slab[p].freelist)

\* A mapped page is in exactly one of the two lists, once, and in the one that
\* says whether it has room; after the last node is freed both lists are empty,
\* which fuse_destroy asserts.
SlabLists ==
    /\ IsInjective(partial_slabs \o full_slabs)
    /\ ToSet(partial_slabs) = {p \in DOMAIN slab : slab[p].freelist # <<>>}
    /\ ToSet(full_slabs) = {p \in DOMAIN slab : slab[p].freelist = <<>>}

\* Nodes in use have places of their own on mapped pages, and a page is in the list
\* that its free places call for.
SlabsRight == SlabPlaces /\ SlabLists
=============================================================================
