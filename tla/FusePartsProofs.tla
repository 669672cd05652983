-------------------------- MODULE FusePartsProofs --------------------------
(***************************************************************************)
(* Proofs about the parts of the library that keep their state for         *)
(* themselves.                                                             *)
(***************************************************************************)
EXTENDS FusePipe, FuseSlab, FuseNodeTable, FuseLocks, FuseDir, ListLemmas, FiniteSetTheorems

-----------------------------------------------------------------------------
(* The memory of the nodes.                                                  *)

Place == 1..NodesPerSlab
Slabs == [used : Int, freelist : Seq(Place)]

\* The places of page p that are in use.
InUse(p) == {n \in nodes : n[1] = p}

\* The places of a page: every one is in use or free, and free once.
PageRight(p, s) ==
    /\ s \in Slabs
    /\ s.used = Cardinality(InUse(p)) /\ s.used + Len(s.freelist) = NodesPerSlab
    /\ IsInjective(s.freelist)
    /\ \A n \in InUse(p) : n[2] \notin ToSet(s.freelist)

\* The inductive invariant: SlabPlaces and SlabLists, with the types.
SlabInv ==
    /\ DOMAIN slab \subseteq Page /\ slab = [p \in DOMAIN slab |-> slab[p]]
    /\ \A n \in nodes : n = <<n[1], n[2]>> /\ n[1] \in DOMAIN slab /\ n[2] \in Place
    /\ partial_slabs \in Seq(Page) /\ full_slabs \in Seq(Page)
    /\ IsInjective(partial_slabs) /\ IsInjective(full_slabs)
    /\ ToSet(partial_slabs) = {p \in DOMAIN slab : slab[p].freelist # <<>>}
    /\ ToSet(full_slabs) = {p \in DOMAIN slab : slab[p].freelist = <<>>}
    /\ \A p \in DOMAIN slab : PageRight(p, slab[p]) /\ slab[p].used > 0

LEMMA SlabInvRight ==
    ASSUME SlabInv
    PROVE  SlabsRight
<1>1. SlabPlaces
  <2>1. ASSUME NEW n \in nodes
        PROVE  n[1] \in DOMAIN slab /\ ~Contains(slab[n[1]].freelist, n[2])
    <3>1. n[1] \in DOMAIN slab /\ n \in InUse(n[1])
      BY DEF SlabInv, InUse
    <3>2. slab[n[1]].freelist \in Seq(Place) /\ n[2] \notin ToSet(slab[n[1]].freelist)
      BY <3>1 DEF SlabInv, PageRight, Slabs
    <3> QED
      BY <3>1, <3>2, ContainsIsToSet
  <2> QED
    BY <2>1 DEF SlabInv, SlabPlaces, PageRight, InUse
<1>2. IsInjective(partial_slabs \o full_slabs)
  <2>1. ToSet(partial_slabs) \cap ToSet(full_slabs) = {}
    BY DEF SlabInv
  <2> QED
    BY <2>1, DisjointLists DEF SlabInv
<1> QED
  BY <1>1, <1>2 DEF SlabInv, SlabLists, SlabsRight

LEMMA SlabInitInv ==
    ASSUME SlabInit
    PROVE  SlabInv
<1>1. DOMAIN slab = {} /\ slab = [p \in DOMAIN slab |-> slab[p]]
  BY DEF SlabInit
<1>2. <<>> \in Seq(Page) /\ IsInjective(<<>>) /\ ToSet(<<>>) = {}
  BY DEF IsInjective, ToSet
<1> QED
  BY <1>1, <1>2 DEF SlabInit, SlabInv

\* The nodes are finitely many.
LEMMA InUseFinite ==
    ASSUME SlabInv, NEW p
    PROVE  IsFiniteSet(InUse(p)) /\ Cardinality(InUse(p)) \in Nat
<1>1. IsFiniteSet(Page) /\ IsFiniteSet(Place)
  BY SlabAssumption, FS_Interval DEF Place
<1>2. IsFiniteSet(Page \X Place)
  BY <1>1, FS_Product
<1>3. InUse(p) \in SUBSET (Page \X Place)
  <2>1. ASSUME NEW n \in InUse(p)
        PROVE  n \in Page \X Place
    <3>1. PICK a, b : n = <<a, b>> /\ a = n[1] /\ b = n[2]
      BY DEF InUse, SlabInv
    <3>2. a \in Page /\ b \in Place
      BY <3>1 DEF InUse, SlabInv
    <3> QED
      BY <3>1, <3>2
  <2> QED
    BY <2>1
<1> QED
  BY <1>2, <1>3, FS_Subset, FS_CardinalityType

\* The new page of alloc_slab: no node is on it.
LEMMA NewPage ==
    ASSUME SlabInv, NEW p \in Page, p \notin DOMAIN slab
    PROVE  PageRight(p, alloc_slab(p)) /\ alloc_slab(p).freelist # <<>> /\ alloc_slab(p).used = 0
<1> DEFINE l == [i \in 1..NodesPerSlab |-> i]
<1>1. /\ l \in Seq(Place) /\ Len(l) = NodesPerSlab /\ l # <<>>
      /\ IsInjective(l) /\ NodesPerSlab \in Nat
  BY SlabAssumption DEF Place, IsInjective
<1>2. InUse(p) = {}
  BY DEF SlabInv, InUse
<1>3. Cardinality(InUse(p)) = 0
  BY <1>2, FS_EmptySet
<1> HIDE DEF l
<1>4. alloc_slab(p) = [used |-> 0, freelist |-> l]
  BY DEF alloc_slab, l
<1> QED
  BY <1>1, <1>2, <1>3, <1>4 DEF PageRight, Slabs

\* A page after its first free place has been given away.
LEMMA PlaceTaken ==
    ASSUME SlabInv, NEW p \in Page, NEW s, PageRight(p, s), s.freelist # <<>>,
           nodes' = nodes \cup {<<p, Head(s.freelist)>>}
    PROVE  /\ PageRight(p, [used |-> s.used + 1, freelist |-> Tail(s.freelist)])'
           /\ s.used + 1 > 0 /\ Head(s.freelist) \in Place
<1> DEFINE n == <<p, Head(s.freelist)>>
           s1 == [used |-> s.used + 1, freelist |-> Tail(s.freelist)]
<1>1. /\ Head(s.freelist) \in Place /\ Head(s.freelist) \in ToSet(s.freelist)
      /\ Tail(s.freelist) \in Seq(Place) /\ Len(Tail(s.freelist)) = Len(s.freelist) - 1
      /\ ToSet(Tail(s.freelist)) = ToSet(s.freelist) \ {Head(s.freelist)}
      /\ IsInjective(Tail(s.freelist))
  <2>1. s.freelist \in Seq(Place) /\ IsInjective(s.freelist)
    BY DEF PageRight, Slabs
  <2> QED
    BY <2>1, TailElement
<1>2. InUse(p)' = InUse(p) \cup {n} /\ n \notin InUse(p)
  BY <1>1 DEF InUse, PageRight
<1>3. Cardinality(InUse(p)') = Cardinality(InUse(p)) + 1 /\ Cardinality(InUse(p)) \in Nat
  <2> HIDE DEF n
  <2> QED
    BY <1>2, InUseFinite, FS_AddElement
<1>4. s.used = Cardinality(InUse(p)) /\ s.used + Len(s.freelist) = NodesPerSlab
      /\ Len(s.freelist) \in Nat
  BY DEF PageRight, Slabs
<1>5. s1 \in Slabs /\ s1.used = s.used + 1 /\ s1.freelist = Tail(s.freelist)
  BY <1>1, <1>3, <1>4 DEF Slabs
<1>6. s1.used = Cardinality(InUse(p)') /\ s1.used + Len(s1.freelist) = NodesPerSlab
  BY <1>1, <1>3, <1>4, <1>5, SlabAssumption
<1>7. \A m \in InUse(p)' : m[2] \notin ToSet(s1.freelist)
  BY <1>1, <1>2, <1>5 DEF PageRight
<1> HIDE DEF s1
<1>8. PageRight(p, s1)'
  BY <1>1, <1>5, <1>6, <1>7 DEF PageRight, Slabs, Place
<1> QED
  BY <1>1, <1>3, <1>4, <1>8 DEF s1

\* A page none of whose nodes is allocated or freed stays right.
LEMMA OtherPage ==
    ASSUME NEW p, NEW s, PageRight(p, s), InUse(p)' = InUse(p)
    PROVE  PageRight(p, s)'
BY DEF PageRight, Slabs, Place

\* The page alloc_node takes a node from, and the lists without it.
LEMMA PageToTakeFrom ==
    ASSUME SlabInv, NEW p \in Page, partial_slabs = <<>> => p \notin DOMAIN slab
    PROVE  LET from == IF partial_slabs = <<>> THEN p ELSE Head(partial_slabs)
               s == IF partial_slabs = <<>> THEN alloc_slab(p) ELSE slab[from]
               rest == IF partial_slabs = <<>> THEN <<>> ELSE Tail(partial_slabs)
           IN  /\ from \in Page /\ PageRight(from, s) /\ s.freelist # <<>>
               /\ rest \in Seq(Page) /\ IsInjective(rest)
               /\ ToSet(rest) = ToSet(partial_slabs) \ {from}
               /\ from \notin ToSet(full_slabs)
<1>1. CASE partial_slabs = <<>>
  <2>1. <<>> \in Seq(Page) /\ IsInjective(<<>>) /\ ToSet(<<>>) = {}
    BY DEF IsInjective, ToSet
  <2>2. p \notin DOMAIN slab /\ p \notin ToSet(full_slabs)
    BY <1>1 DEF SlabInv
  <2> QED
    BY <1>1, <2>1, <2>2, NewPage
<1>2. CASE partial_slabs # <<>>
  <2>1. /\ Head(partial_slabs) \in Page /\ Head(partial_slabs) \in ToSet(partial_slabs)
        /\ Tail(partial_slabs) \in Seq(Page) /\ IsInjective(Tail(partial_slabs))
        /\ ToSet(Tail(partial_slabs)) = ToSet(partial_slabs) \ {Head(partial_slabs)}
    BY <1>2, TailElement DEF SlabInv
  <2>2. /\ Head(partial_slabs) \in DOMAIN slab /\ slab[Head(partial_slabs)].freelist # <<>>
        /\ Head(partial_slabs) \notin ToSet(full_slabs)
    BY <2>1 DEF SlabInv
  <2>3. PageRight(Head(partial_slabs), slab[Head(partial_slabs)])
    BY <2>2 DEF SlabInv
  <2> QED
    BY <1>2, <2>1, <2>2, <2>3
<1> QED
  BY <1>1, <1>2

LEMMA alloc_nodeInv ==
    ASSUME SlabInv, NEW p \in Page, alloc_node(p)
    PROVE  SlabInv'
<1>1. PICK from, s, rest :
         /\ from = IF partial_slabs = <<>> THEN p ELSE Head(partial_slabs)
         /\ s = IF partial_slabs = <<>> THEN alloc_slab(p) ELSE slab[from]
         /\ rest = IF partial_slabs = <<>> THEN <<>> ELSE Tail(partial_slabs)
  OBVIOUS
<1>2. PICK s1 : s1 = [used |-> s.used + 1, freelist |-> Tail(s.freelist)]
  OBVIOUS
<1>3. /\ partial_slabs = <<>> => p \notin DOMAIN slab
      /\ slab' = [q \in DOMAIN slab \cup {from} |-> IF q = from THEN s1 ELSE slab[q]]
      /\ IF s1.freelist = <<>>
         THEN partial_slabs' = rest /\ full_slabs' = Append(full_slabs, from)
         ELSE partial_slabs' = <<from>> \o rest /\ UNCHANGED full_slabs
      /\ nodes' = nodes \cup {<<from, Head(s.freelist)>>}
  BY <1>1, <1>2 DEF alloc_node
<1>4. /\ from \in Page /\ PageRight(from, s) /\ s.freelist # <<>>
      /\ rest \in Seq(Page) /\ IsInjective(rest)
      /\ ToSet(rest) = ToSet(partial_slabs) \ {from}
      /\ from \notin ToSet(full_slabs)
  BY <1>1, <1>3, PageToTakeFrom
<1>5. PageRight(from, s1)' /\ s1.used > 0 /\ Head(s.freelist) \in Place
  <2>1. s1.used = s.used + 1
    BY <1>2
  <2>2. /\ PageRight(from, [used |-> s.used + 1, freelist |-> Tail(s.freelist)])'
        /\ s.used + 1 > 0 /\ Head(s.freelist) \in Place
    BY <1>3, <1>4, PlaceTaken
  <2> QED
    BY <1>2, <2>1, <2>2
<1>6. /\ DOMAIN slab' = DOMAIN slab \cup {from} /\ slab'[from] = s1
      /\ \A q \in DOMAIN slab \ {from} : slab'[q] = slab[q]
      /\ slab' = [q \in DOMAIN slab' |-> slab'[q]]
  BY <1>3
<1>7. ASSUME NEW q \in DOMAIN slab'
      PROVE  (PageRight(q, slab[q]) /\ slab[q].used > 0)'
  <2>1. CASE q = from
    BY <2>1, <1>5, <1>6
  <2>2. CASE q # from
    <3>1. q \in DOMAIN slab /\ slab'[q] = slab[q]
      BY <1>6, <2>2
    <3>2. PICK z : z = slab[q]
      OBVIOUS
    <3>3. PageRight(q, z) /\ z.used > 0
      BY <3>1, <3>2 DEF SlabInv
    <3>4. InUse(q)' = InUse(q)
      BY <1>3, <2>2 DEF InUse
    <3>5. PageRight(q, z)'
      BY <3>3, <3>4, OtherPage
    <3> QED
      BY <3>1, <3>2, <3>3, <3>5
  <2> QED
    BY <2>1, <2>2
<1>8. ASSUME NEW n \in nodes'
      PROVE  n = <<n[1], n[2]>> /\ n[1] \in DOMAIN slab' /\ n[2] \in Place
  <2>1. CASE n \in nodes
    BY <2>1, <1>6 DEF SlabInv
  <2>2. CASE n = <<from, Head(s.freelist)>>
    BY <2>2, <1>5, <1>6
  <2> QED
    BY <1>3, <2>1, <2>2
<1>9. /\ partial_slabs' \in Seq(Page) /\ full_slabs' \in Seq(Page)
      /\ IsInjective(partial_slabs') /\ IsInjective(full_slabs')
      /\ ToSet(partial_slabs') = IF s1.freelist = <<>> THEN ToSet(partial_slabs) \ {from}
                                                      ELSE ToSet(partial_slabs) \cup {from}
      /\ ToSet(full_slabs') = IF s1.freelist = <<>> THEN ToSet(full_slabs) \cup {from}
                                                   ELSE ToSet(full_slabs)
  <2>1. full_slabs \in Seq(Page) /\ IsInjective(full_slabs)
    BY DEF SlabInv
  <2>2. CASE s1.freelist = <<>>
    <3>1. /\ Append(full_slabs, from) \in Seq(Page) /\ IsInjective(Append(full_slabs, from))
          /\ ToSet(Append(full_slabs, from)) = ToSet(full_slabs) \cup {from}
      BY <1>4, <2>1, AppendElement
    <3> QED
      BY <1>3, <1>4, <2>1, <2>2, <3>1
  <2>3. CASE s1.freelist # <<>>
    <3>1. /\ <<from>> \o rest \in Seq(Page) /\ IsInjective(<<from>> \o rest)
          /\ ToSet(<<from>> \o rest) = ToSet(rest) \cup {from}
      BY <1>4, ConsElement
    <3> QED
      BY <1>3, <1>4, <2>1, <2>3, <3>1
  <2> QED
    BY <2>2, <2>3
<1>10. /\ ToSet(partial_slabs') = {q \in DOMAIN slab' : slab'[q].freelist # <<>>}
       /\ ToSet(full_slabs') = {q \in DOMAIN slab' : slab'[q].freelist = <<>>}
  <2>1. /\ ToSet(partial_slabs) = {q \in DOMAIN slab : slab[q].freelist # <<>>}
        /\ ToSet(full_slabs) = {q \in DOMAIN slab : slab[q].freelist = <<>>}
    BY DEF SlabInv
  <2>2. CASE s1.freelist = <<>>
    BY <1>4, <1>6, <1>9, <2>1, <2>2
  <2>3. CASE s1.freelist # <<>>
    BY <1>4, <1>6, <1>9, <2>1, <2>3
  <2> QED
    BY <2>2, <2>3
<1>11. DOMAIN slab' \subseteq Page
  BY <1>4, <1>6 DEF SlabInv
<1> QED
  BY <1>6, <1>7, <1>8, <1>9, <1>10, <1>11 DEF SlabInv, Place

\* A page after a place of it has been given back.
LEMMA PlaceFreed ==
    ASSUME SlabInv, NEW n \in nodes, nodes' = nodes \ {n}, NEW s, s = slab[n[1]]
    PROVE  LET s1 == [used |-> s.used - 1, freelist |-> <<n[2]>> \o s.freelist]
           IN  /\ PageRight(n[1], s1)' /\ s1.used \in Nat /\ s1.freelist # <<>>
               /\ s1.used = 0 => InUse(n[1])' = {}
<1> DEFINE p == n[1]
           s1 == [used |-> s.used - 1, freelist |-> <<n[2]>> \o s.freelist]
<1>1. p \in DOMAIN slab /\ n[2] \in Place /\ n \in InUse(p)
  BY DEF SlabInv, InUse
<1>2. PageRight(p, s)
  BY <1>1 DEF SlabInv
<1>3. s.freelist \in Seq(Place) /\ IsInjective(s.freelist) /\ n[2] \notin ToSet(s.freelist)
  BY <1>1, <1>2 DEF PageRight, Slabs
<1>4. /\ <<n[2]>> \o s.freelist \in Seq(Place) /\ <<n[2]>> \o s.freelist # <<>>
      /\ ToSet(<<n[2]>> \o s.freelist) = ToSet(s.freelist) \cup {n[2]}
      /\ Len(<<n[2]>> \o s.freelist) = Len(s.freelist) + 1
      /\ IsInjective(<<n[2]>> \o s.freelist)
  BY <1>1, <1>3, ConsElement
<1>5. InUse(p)' = InUse(p) \ {n}
  BY DEF InUse
<1>6. /\ IsFiniteSet(InUse(p)') /\ Cardinality(InUse(p)') = Cardinality(InUse(p)) - 1
      /\ Cardinality(InUse(p)') \in Nat /\ Cardinality(InUse(p)) \in Nat
  <2> HIDE DEF p
  <2>1. IsFiniteSet(InUse(p)) /\ Cardinality(InUse(p)) \in Nat
    BY InUseFinite
  <2>2. /\ IsFiniteSet(InUse(p) \ {n})
        /\ Cardinality(InUse(p) \ {n}) = Cardinality(InUse(p)) - 1
    BY <1>1, <2>1, FS_RemoveElement
  <2>3. Cardinality(InUse(p) \ {n}) \in Nat
    BY <2>2, FS_CardinalityType
  <2> QED
    BY <1>5, <2>1, <2>2, <2>3
<1>7. /\ s.used = Cardinality(InUse(p)) /\ s.used + Len(s.freelist) = NodesPerSlab
      /\ Len(s.freelist) \in Nat
  BY <1>2, <1>3 DEF PageRight
<1>8. s1 \in Slabs /\ s1.used = s.used - 1 /\ s1.freelist = <<n[2]>> \o s.freelist
  BY <1>4, <1>6, <1>7, SMTT(30) DEF Slabs
<1>9. s1.used = Cardinality(InUse(p)') /\ s1.used + Len(s1.freelist) = NodesPerSlab
  BY <1>4, <1>6, <1>7, <1>8, SlabAssumption
<1>10. \A m \in InUse(p)' : m[2] \notin ToSet(s1.freelist)
  <2> SUFFICES ASSUME NEW m \in InUse(p)'
               PROVE  m[2] \notin ToSet(s1.freelist)
    OBVIOUS
  <2>1. m \in InUse(p) /\ m # n
    BY <1>5
  <2>2. m = <<p, m[2]>> /\ n = <<p, n[2]>>
    BY <2>1 DEF InUse, SlabInv
  <2>3. m[2] # n[2]
    BY <2>1, <2>2
  <2> QED
    BY <1>2, <1>4, <1>8, <2>1, <2>3 DEF PageRight
<1> HIDE DEF s1
<1>11. PageRight(p, s1)'
  BY <1>4, <1>8, <1>9, <1>10 DEF PageRight, Slabs, Place
<1>12. s1.used \in Nat /\ (s1.used = 0 => InUse(p)' = {})
  BY <1>6, <1>9, FS_EmptySet
<1> QED
  BY <1>4, <1>8, <1>11, <1>12 DEF s1

LEMMA free_node_memInv ==
    ASSUME SlabInv, NEW n \in nodes, free_node_mem(n)
    PROVE  SlabInv'
<1>1. PICK p, s, s1 : p = n[1] /\ s = slab[p]
                      /\ s1 = [used |-> s.used - 1, freelist |-> <<n[2]>> \o s.freelist]
  OBVIOUS
<1>2. /\ nodes' = nodes \ {n}
      /\ IF s1.used > 0
         THEN /\ slab' = [slab EXCEPT ![p] = s1]
              /\ full_slabs' = IF s.freelist = <<>> THEN RemoveFirst(full_slabs, p) ELSE full_slabs
              /\ partial_slabs' = IF s.freelist = <<>> THEN Append(partial_slabs, p) ELSE partial_slabs
         ELSE /\ slab' = [q \in DOMAIN slab \ {p} |-> slab[q]]
              /\ partial_slabs' = RemoveFirst(partial_slabs, p)
              /\ full_slabs' = RemoveFirst(full_slabs, p)
  BY <1>1 DEF free_node_mem
<1>3. PageRight(p, s1)' /\ s1.used \in Nat /\ s1.freelist # <<>> /\ (s1.used = 0 => InUse(p)' = {})
  BY <1>1, <1>2, PlaceFreed
<1>4. p \in DOMAIN slab /\ p \in Page
  BY <1>1 DEF SlabInv
<1>5. /\ partial_slabs \in Seq(Page) /\ full_slabs \in Seq(Page)
      /\ IsInjective(partial_slabs) /\ IsInjective(full_slabs)
      /\ ToSet(partial_slabs) = {q \in DOMAIN slab : slab[q].freelist # <<>>}
      /\ ToSet(full_slabs) = {q \in DOMAIN slab : slab[q].freelist = <<>>}
      /\ slab = [q \in DOMAIN slab |-> slab[q]]
  BY DEF SlabInv
<1>6. ASSUME NEW q \in DOMAIN slab, q # p
      PROVE  slab'[q] = slab[q] => (PageRight(q, slab[q]) /\ slab[q].used > 0)'
  <2>1. PICK z : z = slab[q]
    OBVIOUS
  <2>2. PageRight(q, z) /\ z.used > 0
    BY <2>1 DEF SlabInv
  <2>3. InUse(q)' = InUse(q)
    BY <1>1, <1>2, <1>6 DEF InUse
  <2>4. PageRight(q, z)'
    BY <2>2, <2>3, OtherPage
  <2> QED
    BY <2>1, <2>2, <2>4
<1>7. CASE s1.used > 0
  <2>1. /\ DOMAIN slab' = DOMAIN slab /\ slab'[p] = s1
        /\ \A q \in DOMAIN slab \ {p} : slab'[q] = slab[q]
        /\ slab' = [q \in DOMAIN slab' |-> slab'[q]]
    BY <1>2, <1>4, <1>5, <1>7
  <2>2. ASSUME NEW q \in DOMAIN slab'
        PROVE  (PageRight(q, slab[q]) /\ slab[q].used > 0)'
    <3>1. CASE q = p
      BY <1>3, <1>7, <2>1, <3>1
    <3>2. CASE q # p
      BY <1>6, <2>1, <3>2
    <3> QED
      BY <3>1, <3>2
  <2>3. /\ partial_slabs' \in Seq(Page) /\ full_slabs' \in Seq(Page)
        /\ IsInjective(partial_slabs') /\ IsInjective(full_slabs')
        /\ ToSet(partial_slabs') = ToSet(partial_slabs) \cup {p}
        /\ ToSet(full_slabs') = ToSet(full_slabs) \ {p}
    <3>1. CASE s.freelist = <<>>
      <4>1. p \notin ToSet(partial_slabs)
        BY <1>1, <1>5, <3>1
      <4>2. /\ Append(partial_slabs, p) \in Seq(Page) /\ IsInjective(Append(partial_slabs, p))
            /\ ToSet(Append(partial_slabs, p)) = ToSet(partial_slabs) \cup {p}
        BY <1>4, <1>5, <4>1, AppendElement
      <4>3. /\ RemoveFirst(full_slabs, p) \in Seq(Page) /\ IsInjective(RemoveFirst(full_slabs, p))
            /\ ToSet(RemoveFirst(full_slabs, p)) = ToSet(full_slabs) \ {p}
        BY <1>5, UnlinkElement
      <4> QED
        BY <1>2, <1>7, <3>1, <4>2, <4>3
    <3>2. CASE s.freelist # <<>>
      <4>1. p \in ToSet(partial_slabs) /\ p \notin ToSet(full_slabs)
        BY <1>1, <1>4, <1>5, <3>2
      <4> QED
        BY <1>2, <1>5, <1>7, <3>2, <4>1
    <3> QED
      BY <3>1, <3>2
  <2>4. /\ ToSet(partial_slabs') = {q \in DOMAIN slab' : slab'[q].freelist # <<>>}
        /\ ToSet(full_slabs') = {q \in DOMAIN slab' : slab'[q].freelist = <<>>}
    BY <1>3, <1>4, <1>5, <2>1, <2>3
  <2>5. ASSUME NEW m \in nodes'
        PROVE  m = <<m[1], m[2]>> /\ m[1] \in DOMAIN slab' /\ m[2] \in Place
    BY <1>2, <2>1 DEF SlabInv
  <2>6. DOMAIN slab' \subseteq Page
    BY <2>1 DEF SlabInv
  <2> QED
    BY <2>1, <2>2, <2>3, <2>4, <2>5, <2>6 DEF SlabInv, Place
<1>8. CASE ~(s1.used > 0)
  <2>1. /\ DOMAIN slab' = DOMAIN slab \ {p}
        /\ \A q \in DOMAIN slab \ {p} : slab'[q] = slab[q]
        /\ slab' = [q \in DOMAIN slab' |-> slab'[q]]
    BY <1>2, <1>8
  <2>2. ASSUME NEW q \in DOMAIN slab'
        PROVE  (PageRight(q, slab[q]) /\ slab[q].used > 0)'
    BY <1>6, <2>1
  <2>3. /\ partial_slabs' \in Seq(Page) /\ full_slabs' \in Seq(Page)
        /\ IsInjective(partial_slabs') /\ IsInjective(full_slabs')
        /\ ToSet(partial_slabs') = ToSet(partial_slabs) \ {p}
        /\ ToSet(full_slabs') = ToSet(full_slabs) \ {p}
    <3>1. /\ RemoveFirst(partial_slabs, p) \in Seq(Page) /\ IsInjective(RemoveFirst(partial_slabs, p))
          /\ ToSet(RemoveFirst(partial_slabs, p)) = ToSet(partial_slabs) \ {p}
      BY <1>5, UnlinkElement
    <3>2. /\ RemoveFirst(full_slabs, p) \in Seq(Page) /\ IsInjective(RemoveFirst(full_slabs, p))
          /\ ToSet(RemoveFirst(full_slabs, p)) = ToSet(full_slabs) \ {p}
      BY <1>5, UnlinkElement
    <3> QED
      BY <1>2, <1>8, <3>1, <3>2
  <2>4. /\ ToSet(partial_slabs') = {q \in DOMAIN slab' : slab'[q].freelist # <<>>}
        /\ ToSet(full_slabs') = {q \in DOMAIN slab' : slab'[q].freelist = <<>>}
    BY <1>5, <2>1, <2>3
  <2>5. ASSUME NEW m \in nodes'
        PROVE  m = <<m[1], m[2]>> /\ m[1] \in DOMAIN slab' /\ m[2] \in Place
    <3>1. m \in nodes /\ m = <<m[1], m[2]>> /\ m[1] \in DOMAIN slab /\ m[2] \in Place
      BY <1>2 DEF SlabInv
    <3>2. InUse(p)' = {}
      BY <1>3, <1>8
    <3>3. m[1] # p
      BY <3>2 DEF InUse
    <3> QED
      BY <2>1, <3>1, <3>3
  <2>6. DOMAIN slab' \subseteq Page
    BY <2>1 DEF SlabInv
  <2> QED
    BY <2>1, <2>2, <2>3, <2>4, <2>5, <2>6 DEF SlabInv, Place
<1> QED
  BY <1>7, <1>8

\* In whatever order nodes are allocated and freed (alloc_node, free_node_mem),
\* for any size of a page, no place is handed out twice and none is lost, and a
\* page is in the list that its free places call for.
THEOREM SlabsAreRight == SlabSpec => []SlabsRight
<1>1. SlabInit => SlabInv
  BY SlabInitInv
<1>2. SlabInv /\ [SlabNext]_slabvars => SlabInv'
  <2> SUFFICES ASSUME SlabInv, [SlabNext]_slabvars
               PROVE  SlabInv'
    OBVIOUS
  <2>1. CASE UNCHANGED slabvars
    BY <2>1 DEF slabvars, SlabInv, PageRight, InUse, Slabs, Place
  <2>2. CASE SlabNext
    BY <2>2, alloc_nodeInv, free_node_memInv DEF SlabNext
  <2> QED
    BY <2>1, <2>2
<1>3. SlabInv => SlabsRight
  BY SlabInvRight
<1> QED
  BY <1>1, <1>2, <1>3, PTL DEF SlabSpec

-----------------------------------------------------------------------------
(* Requests and answers through the pipe.                                    *)

What == {"body", "data"}
Token == {"err"} \cup {Hdr(k) : k \in Nat} \cup {<<"part", k>> : k \in Nat}
               \cup {<<what, k, i>> : what \in What, k \in Nat, i \in Nat}

\* Page i of the data of message k.
PageOf(what, k, i) == <<what, k, i>>

PipePCs == {"receive", "small", "process", "body", "write_buf", "handler", "send", "copy", "more",
            "splice", "read_back", "write", "fallback", "next", "exit", "gone"}

PipeRecs ==
    [pc : PipePCs, job : Nat, pipe : [open : BOOLEAN, data : Seq(Token)], broken : BOOLEAN,
     fd : BOOLEAN, body : 0..MaxPages, len : Nat, avail : Nat, idx : Nat, now : Nat, extra : Nat,
     got : Seq(Token), msgs : Seq(Seq(Token))]

\* One answer of worker w's request, or none.
Answered(w) ==
    \/ w.msgs = <<>> \/ w.msgs = <<<<"err">>>>
    \/ \E n \in 0..w.avail : w.msgs = <<<<Hdr(w.job)>> \o Pages("data", w.job, 0, n)>>

\* What is in the pipe, and in memory, where the worker stands (when the loop has ended,
\* anything); nothing is answered before the end.
Moved(w) ==
    /\ w \in PipeRecs
    /\ w.pc \in {"receive", "handler", "send", "fallback", "write", "next", "gone"} =>
          w.pipe.data = <<>>
    /\ w.pc \notin {"next", "exit", "gone"} => w.msgs = <<>>
    /\ w.pc \in {"receive", "small", "process", "body", "write_buf", "handler", "send", "copy", "fallback"} =>
          w.idx = 0 /\ w.extra = 0
    /\ w.pc = "small" => w.body = 0 /\ w.pipe.data = RequestOf(w.job, 0)
    /\ w.pc = "process" => w.pipe.data = IF w.fd THEN RequestOf(w.job, w.body) ELSE <<>>
    /\ w.pc = "process" /\ ~w.fd => w.got = RequestOf(w.job, w.body)
    /\ w.pc \in {"body", "write_buf"} =>
          w.fd /\ w.pipe.data = Pages("body", w.job, 0, w.body) /\ w.got = <<Hdr(w.job)>>
    /\ w.pc = "handler" => w.got = RequestOf(w.job, w.body)
    /\ w.pc = "copy" => w.pipe.data = <<Hdr(w.job)>>
    /\ w.pc \in {"more", "splice", "read_back"} =>
          w.pipe.data = <<Hdr(w.job)>> \o Pages("data", w.job, 0, w.now)
    /\ w.pc = "more" => w.idx = w.now /\ w.extra = 0
    /\ w.pc \in {"more", "splice", "read_back", "write"} => w.now + w.extra <= w.avail
    /\ w.pc = "write" => w.got = Pages("data", w.job, 0, w.now)
    /\ w.pc \in {"next", "exit", "gone"} => Answered(w)

LEMMA PagesSeq ==
    ASSUME NEW what \in What, NEW k \in Nat, NEW a \in Nat, NEW b \in Nat, a <= b
    PROVE  /\ Pages(what, k, a, b) \in Seq(Token) /\ Len(Pages(what, k, a, b)) = b - a
           /\ \A i \in 1..(b - a) : Pages(what, k, a, b)[i] = PageOf(what, k, a + i)
           /\ Hdr(k) \in Token
<1>1. b - a \in Nat /\ \A i \in 1..(b - a) : a + i \in Nat
  OBVIOUS
<1>2. \A i \in 1..(b - a) : PageOf(what, k, a + i) \in Token
  BY <1>1 DEF Token, PageOf
<1>3. Hdr(k) \in Token
  BY DEF Token
<1>4. PICK f : f = [i \in 1..(b - a) |-> PageOf(what, k, a + i)]
  OBVIOUS
<1>5. f = Pages(what, k, a, b)
  BY <1>4 DEF Pages, PageOf
<1>6. f \in Seq(Token) /\ Len(f) = b - a /\ \A i \in 1..(b - a) : f[i] = PageOf(what, k, a + i)
  BY <1>1, <1>2, <1>4
<1> QED
  BY <1>3, <1>5, <1>6

LEMMA SeqSame ==
    ASSUME NEW S, NEW s \in Seq(S), NEW t \in Seq(S), Len(s) = Len(t),
           \A i \in 1..Len(s) : s[i] = t[i]
    PROVE  s = t
  OBVIOUS

\* The pages up to a and from there on.
LEMMA PagesJoin ==
    ASSUME NEW what \in What, NEW k \in Nat, NEW o \in Nat, NEW a \in Nat, NEW c \in Nat,
           o <= a, a <= c
    PROVE  Pages(what, k, o, a) \o Pages(what, k, a, c) = Pages(what, k, o, c)
<1> DEFINE x == Pages(what, k, o, a)
           y == Pages(what, k, a, c)
           z == Pages(what, k, o, c)
<1>1. /\ x \in Seq(Token) /\ Len(x) = a - o /\ \A i \in 1..(a - o) : x[i] = PageOf(what, k, o + i)
      /\ y \in Seq(Token) /\ Len(y) = c - a /\ \A i \in 1..(c - a) : y[i] = PageOf(what, k, a + i)
      /\ z \in Seq(Token) /\ Len(z) = c - o /\ \A i \in 1..(c - o) : z[i] = PageOf(what, k, o + i)
  <2>1. o <= c
    OBVIOUS
  <2>2. x \in Seq(Token) /\ Len(x) = a - o /\ \A i \in 1..(a - o) : x[i] = PageOf(what, k, o + i)
    <3>1. x \in Seq(Token) /\ Len(x) = a - o
      BY <2>1, PagesSeq
    <3>2. \A i \in 1..(a - o) : x[i] = PageOf(what, k, o + i)
      BY DEF Pages, PageOf
    <3> QED
      BY <3>1, <3>2
  <2>3. y \in Seq(Token) /\ Len(y) = c - a /\ \A i \in 1..(c - a) : y[i] = PageOf(what, k, a + i)
    <3>1. y \in Seq(Token) /\ Len(y) = c - a
      BY <2>1, PagesSeq
    <3>2. \A i \in 1..(c - a) : y[i] = PageOf(what, k, a + i)
      BY DEF Pages, PageOf
    <3> QED
      BY <3>1, <3>2
  <2>4. z \in Seq(Token) /\ Len(z) = c - o /\ \A i \in 1..(c - o) : z[i] = PageOf(what, k, o + i)
    <3>1. z \in Seq(Token) /\ Len(z) = c - o
      BY <2>1, PagesSeq
    <3>2. \A i \in 1..(c - o) : z[i] = PageOf(what, k, o + i)
      BY DEF Pages, PageOf
    <3> QED
      BY <3>1, <3>2
  <2> QED
    BY <2>2, <2>3, <2>4
<1> HIDE DEF x, y, z
<1>2. /\ x \o y \in Seq(Token) /\ Len(x \o y) = c - o
      /\ \A i \in 1..(c - o) : (x \o y)[i] = IF i <= a - o THEN x[i] ELSE y[i - (a - o)]
  <2>1. (a - o) + (c - a) = c - o
    OBVIOUS
  <2>2. x \in Seq(Token) /\ y \in Seq(Token) /\ Len(x) = a - o /\ Len(y) = c - a
    BY <1>1
  <2>3. /\ x \o y \in Seq(Token) /\ Len(x \o y) = Len(x) + Len(y)
        /\ \A i \in 1..(Len(x) + Len(y)) : (x \o y)[i] = IF i <= Len(x) THEN x[i] ELSE y[i - Len(x)]
    BY <2>2, ConcatProperties
  <2> QED
    BY <2>1, <2>2, <2>3
<1>3. ASSUME NEW i \in 1..(c - o)
      PROVE  (x \o y)[i] = z[i]
  <2>0. z[i] = PageOf(what, k, o + i)
    BY <1>1
  <2>1. CASE i <= a - o
    BY <1>1, <1>2, <2>0, <2>1
  <2>2. CASE ~(i <= a - o)
    <3>1. i - (a - o) \in 1..(c - a) /\ a + (i - (a - o)) = o + i
      BY <2>2
    <3>2. y[i - (a - o)] = PageOf(what, k, a + (i - (a - o)))
      BY <1>1, <3>1
    <3> QED
      BY <1>2, <2>0, <2>2, <3>1, <3>2
  <2> QED
    BY <2>1, <2>2
<1>4. x \o y = z
  BY <1>1, <1>2, <1>3, SeqSame
<1> QED
  BY <1>4 DEF x, y, z

\* What is read from the pipe behind a header.
LEMMA BehindHeader ==
    ASSUME NEW S, NEW h \in S, NEW s \in Seq(S)
    PROVE  /\ <<h>> \o s \in Seq(S) /\ Len(<<h>> \o s) = Len(s) + 1
           /\ SubSeq(<<h>> \o s, 1, 1) = <<h>> /\ Tail(<<h>> \o s) = s
           /\ SubSeq(<<h>> \o s, 2, Len(s) + 1) = s
           /\ SubSeq(<<h>> \o s, 1, Len(s) + 1) = <<h>> \o s
           /\ SubSeq(<<h>> \o s, Len(s) + 2, Len(s) + 1) = <<>>
           /\ SubSeq(s, 1, Len(s)) = s /\ SubSeq(s, Len(s) + 1, Len(s)) = <<>>
<1> DEFINE r == <<h>> \o s
<1>1. /\ r \in Seq(S) /\ Len(r) = Len(s) + 1 /\ Len(s) \in Nat
      /\ r[1] = h /\ \A i \in 1..Len(s) : r[i + 1] = s[i]
  OBVIOUS
<1> HIDE DEF r
<1>2. \A i \in 1..Len(r) : r[i] \in S
  BY <1>1
<1>3. SubSeq(r, 1, 1) = <<h>>
  <2> DEFINE q == SubSeq(r, 1, 1)
  <2>1. q \in Seq(S) /\ Len(q) = 1 /\ q[1] = h
    BY <1>1, <1>2
  <2>2. <<h>> \in Seq(S) /\ Len(<<h>>) = 1 /\ <<h>>[1] = h
    OBVIOUS
  <2> HIDE DEF q
  <2>3. q = <<h>>
    BY <2>1, <2>2, SeqSame
  <2> QED
    BY <2>3 DEF q
<1>4. Tail(r) = s
  <2>1. r # <<>>
    BY <1>1
  <2>2. /\ Tail(r) \in Seq(S) /\ Len(Tail(r)) = Len(r) - 1
        /\ \A i \in 1..Len(Tail(r)) : Tail(r)[i] = r[i + 1]
    BY <1>1, <2>1, HeadTailProperties
  <2>3. Len(Tail(r)) = Len(s)
    BY <1>1, <2>2
  <2> QED
    BY <1>1, <2>2, <2>3, SeqSame
<1>5. SubSeq(r, 2, Len(s) + 1) = s
  <2> DEFINE q == SubSeq(r, 2, Len(s) + 1)
  <2>1. q \in Seq(S) /\ Len(q) = Len(s) /\ \A i \in 1..Len(s) : q[i] = r[i + 1]
    BY <1>1, <1>2
  <2> HIDE DEF q
  <2>2. q = s
    BY <1>1, <2>1, SeqSame
  <2> QED
    BY <2>2 DEF q
<1>6. SubSeq(r, 1, Len(s) + 1) = r
  BY <1>1
<1>7. SubSeq(r, Len(s) + 2, Len(s) + 1) = <<>>
  BY <1>1
<1>8. SubSeq(s, 1, Len(s)) = s /\ SubSeq(s, Len(s) + 1, Len(s)) = <<>>
  BY <1>1
<1> QED
  BY <1>1, <1>3, <1>4, <1>5, <1>6, <1>7, <1>8 DEF r

LEMMA MovedRight ==
    ASSUME Moved(pw)
    PROVE  PipeInv
<1>1. PipeEmptyBetween /\ RequestIntact
  BY DEF Moved, PipeEmptyBetween, RequestIntact
<1>2. CASE pw.pc \notin {"next", "exit", "gone"}
  BY <1>1, <1>2 DEF Moved, PipeInv, AnswerIntact
<1>3. CASE pw.pc \in {"next", "exit", "gone"}
  <2>1. Answered(pw)
    BY <1>3 DEF Moved
  <2>2. CASE pw.msgs = <<>>
    BY <1>1, <2>2 DEF PipeInv, AnswerIntact
  <2>3. CASE pw.msgs = <<<<"err">>>>
    BY <1>1, <2>3 DEF PipeInv, AnswerIntact
  <2>4. ASSUME NEW n \in 0..pw.avail, pw.msgs = <<<<Hdr(pw.job)>> \o Pages("data", pw.job, 0, n)>>
        PROVE  PipeInv
    <3>1. PICK m : m = <<Hdr(pw.job)>> \o Pages("data", pw.job, 0, n)
      OBVIOUS
    <3>2. pw.msgs = <<m>>
      BY <2>4, <3>1
    <3>3. Len(pw.msgs) <= 1 /\ \A i \in DOMAIN pw.msgs : pw.msgs[i] = m
      BY <3>2
    <3> QED
      BY <1>1, <3>1, <3>3 DEF PipeInv, AnswerIntact
  <2> QED
    BY <2>1, <2>2, <2>3, <2>4 DEF Answered
<1> QED
  BY <1>2, <1>3

LEMMA MovedInit ==
    ASSUME PipeInit
    PROVE  Moved(pw)
BY PipeAssumption DEF PipeInit, Fresh, NoPipe, Moved, PipeRecs, PipePCs

\* fuse_ll_clear_pipe and fuse_ll_get_pipe change the pipe only.
LEMMA PipeOnly ==
    ASSUME NEW w \in PipeRecs
    PROVE  /\ fuse_ll_clear_pipe(w) \in PipeRecs /\ fuse_ll_clear_pipe(w).pipe.data = <<>>
           /\ fuse_ll_clear_pipe(w) = [w EXCEPT !.pipe = fuse_ll_clear_pipe(w).pipe]
           /\ \A res : /\ get_pipe(w, res) \in PipeRecs
                       /\ get_pipe(w, res).pipe.data = w.pipe.data
                       /\ get_pipe(w, res) = [w EXCEPT !.pipe = get_pipe(w, res).pipe]
<1>1. NoPipe \in [open : BOOLEAN, data : Seq(Token)]
  BY DEF NoPipe
<1> QED
  BY <1>1 DEF fuse_ll_clear_pipe, get_pipe, NoPipe, PipeRecs

LEMMA RequestSeq ==
    ASSUME NEW k \in Nat, NEW b \in Nat
    PROVE  /\ RequestOf(k, b) \in Seq(Token) /\ Len(RequestOf(k, b)) = b + 1
           /\ SubSeq(RequestOf(k, b), 1, 1) = <<Hdr(k)>>
           /\ Tail(RequestOf(k, b)) = Pages("body", k, 0, b)
<1>1. /\ Hdr(k) \in Token /\ Pages("body", k, 0, b) \in Seq(Token)
      /\ Len(Pages("body", k, 0, b)) = b
  <2>1. "body" \in What /\ 0 <= b /\ b - 0 = b
    BY DEF What
  <2> QED
    BY <2>1, PagesSeq
<1> QED
  BY <1>1, BehindHeader DEF RequestOf

\* A header with its pages, and what is left when parts of it are read.
LEMMA MessageSeq ==
    ASSUME NEW what \in What, NEW k \in Nat, NEW n \in Nat
    PROVE  LET d == Pages(what, k, 0, n)
               m == <<Hdr(k)>> \o d
           IN  /\ Hdr(k) \in Token /\ d \in Seq(Token) /\ Len(d) = n
               /\ m \in Seq(Token) /\ Len(m) = n + 1
               /\ SubSeq(m, 1, 1) = <<Hdr(k)>> /\ Tail(m) = d
               /\ SubSeq(m, 2, n + 1) = d /\ SubSeq(m, 1, n + 1) = m
               /\ SubSeq(m, n + 2, n + 1) = <<>>
               /\ SubSeq(d, 1, n) = d /\ SubSeq(d, n + 1, n) = <<>>
<1>1. PICK d : d = Pages(what, k, 0, n)
  OBVIOUS
<1>2. /\ Hdr(k) \in Token /\ d \in Seq(Token) /\ Len(d) = n
  <2>1. 0 <= n /\ n - 0 = n /\ 0 \in Nat
    OBVIOUS
  <2> QED
    BY <1>1, <2>1, PagesSeq
<1>3. PICK h \in Token : h = Hdr(k)
  BY <1>2
<1>4. /\ <<h>> \o d \in Seq(Token) /\ Len(<<h>> \o d) = Len(d) + 1
      /\ SubSeq(<<h>> \o d, 1, 1) = <<h>> /\ Tail(<<h>> \o d) = d
      /\ SubSeq(<<h>> \o d, 2, Len(d) + 1) = d
      /\ SubSeq(<<h>> \o d, 1, Len(d) + 1) = <<h>> \o d
      /\ SubSeq(<<h>> \o d, Len(d) + 2, Len(d) + 1) = <<>>
      /\ SubSeq(d, 1, Len(d)) = d /\ SubSeq(d, Len(d) + 1, Len(d)) = <<>>
  BY <1>2, BehindHeader
<1> QED
  BY <1>1, <1>2, <1>3, <1>4

\* The end of a request: the pipe is empty and the answer is one.
LEMMA ToNext ==
    ASSUME NEW w \in PipeRecs, w.pipe.data = <<>>, Answered(w)
    PROVE  Moved([w EXCEPT !.pc = "next"])
<1>1. PICK v : v = [w EXCEPT !.pc = "next"]
  OBVIOUS
<1>2. /\ v \in PipeRecs /\ v.pc = "next" /\ v.pipe.data = <<>> /\ v.msgs = w.msgs
      /\ v.job = w.job /\ v.avail = w.avail
  BY <1>1 DEF PipeRecs, PipePCs
<1>3. Answered(v)
  BY <1>2 DEF Answered
<1> QED
  BY <1>1, <1>2, <1>3 DEF Moved

\* An error as the answer.
LEMMA ErrOnly ==
    ASSUME NEW w \in PipeRecs, w.msgs = <<>>
    PROVE  /\ Err(w) \in PipeRecs /\ Err(w).msgs = <<<<"err">>>> /\ Answered(Err(w))
           /\ Err(w) = [w EXCEPT !.msgs = <<<<"err">>>>]
<1>1. <<"err">> \in Seq(Token)
  BY DEF Token
<1>2. PICK e : e = <<"err">>
  OBVIOUS
<1>3. Append(<<>>, e) = <<e>> /\ <<e>> \in Seq(Seq(Token))
  BY <1>1, <1>2
<1>4. Err(w) = [w EXCEPT !.msgs = <<e>>]
  BY <1>2, <1>3 DEF Err
<1>5. Err(w) \in PipeRecs /\ Err(w).msgs = <<e>>
  BY <1>3, <1>4 DEF PipeRecs
<1> QED
  BY <1>2, <1>4, <1>5 DEF Answered

LEMMA ReturnMoved ==
    ASSUME NEW w \in PipeRecs, w.msgs = <<>>, NEW res \in Int
    PROVE  /\ w.pipe.data = <<>> => Moved(Return(w, res))
           /\ Moved(ReturnCleared(w, res))
<1>1. ASSUME NEW u \in PipeRecs, u.msgs = <<>>, u.pipe.data = <<>>
      PROVE  Moved(Return(u, res))
  <2>1. CASE res > 0
    <3>1. PICK e : e = Err(u)
      OBVIOUS
    <3>2. e \in PipeRecs /\ Answered(e) /\ e = [u EXCEPT !.msgs = <<<<"err">>>>]
      BY <1>1, <3>1, ErrOnly
    <3>3. e.pipe.data = <<>>
      BY <1>1, <3>2 DEF PipeRecs
    <3>4. Return(u, res) = [e EXCEPT !.pc = "next"]
      BY <2>1, <3>1 DEF Return
    <3> QED
      BY <3>2, <3>3, <3>4, ToNext
  <2>2. CASE ~(res > 0)
    <3>1. Return(u, res) = [u EXCEPT !.pc = "next"]
      BY <2>2 DEF Return
    <3>2. Answered(u)
      BY <1>1 DEF Answered
    <3> QED
      BY <1>1, <3>1, <3>2, ToNext
  <2> QED
    BY <2>1, <2>2
<1>2. PICK c : c = fuse_ll_clear_pipe(w)
  OBVIOUS
<1>3. c \in PipeRecs /\ c.pipe.data = <<>> /\ c = [w EXCEPT !.pipe = c.pipe]
  BY <1>2, PipeOnly
<1>4. c.msgs = <<>>
  BY <1>3 DEF PipeRecs
<1>5. Moved(Return(c, res))
  BY <1>1, <1>3, <1>4
<1> QED
  BY <1>1, <1>2, <1>5 DEF ReturnCleared

LEMMA ReceiveBufMoved ==
    ASSUME Moved(pw), NEW body \in 0..MaxPages, NEW sp \in {"ok", "no_pipe", "no_grow"},
           NEW res \in {"ok", "interrupted", "fails", "short", "exited"}, ReceiveBuf(body, sp, res)
    PROVE  Moved(pw')
<1>1. PICK u, w, v : u = pw /\ w = get_pipe(pw, sp) /\ v = pw'
  OBVIOUS
<1>2. PICK k \in Nat, b \in Nat : k = pw.job /\ b = body
  BY PipeAssumption DEF Moved, PipeRecs
<1>3. PICK r, f : r = RequestOf(k, b) /\ f = Fragment(k)
  OBVIOUS
<1>4. /\ w \in PipeRecs /\ w.pipe.data = <<>> /\ w.job = k /\ w.pc = "receive"
      /\ w.msgs = <<>> /\ w.idx = 0 /\ w.extra = 0
  <2>1. /\ u \in PipeRecs /\ u.pipe.data = <<>> /\ u.job = k /\ u.pc = "receive"
        /\ u.msgs = <<>> /\ u.idx = 0 /\ u.extra = 0
    BY <1>1, <1>2 DEF Moved, ReceiveBuf
  <2>2. w \in PipeRecs /\ w.pipe.data = u.pipe.data /\ w = [u EXCEPT !.pipe = w.pipe]
    BY <1>1, <2>1, PipeOnly
  <2> QED
    BY <2>1, <2>2 DEF PipeRecs
<1>5. r \in Seq(Token) /\ f \in Seq(Token) /\ <<>> \o r = r /\ <<>> \o f = f
  <2>1. r \in Seq(Token)
    BY <1>3, RequestSeq
  <2>2. <<"part", k>> \in Token
    BY DEF Token
  <2>3. PICK t \in Token : t = <<"part", k>>
    BY <2>2
  <2>4. f = <<t>>
    BY <1>3, <2>3 DEF Fragment
  <2>5. f \in Seq(Token)
    BY <2>4
  <2> QED
    BY <2>1, <2>5
<1>6. RequestOf(w.job, body) = r /\ Fragment(w.job) = f
  BY <1>2, <1>3, <1>4
\* What the splice brought, in the pipe.
<1>7. ASSUME NEW d \in {r, f}
      PROVE  LET p == [w EXCEPT !.pipe.data = @ \o d]
             IN  /\ p \in PipeRecs /\ p.pipe.data = d /\ p.job = k
                 /\ p.msgs = <<>> /\ p.idx = 0 /\ p.extra = 0
  <2>1. w.pipe.data \o d = d /\ d \in Seq(Token)
    BY <1>4, <1>5, <1>7
  <2>2. [w EXCEPT !.pipe.data = @ \o d] = [w EXCEPT !.pipe.data = d]
    BY <2>1
  <2> QED
    BY <1>4, <2>1, <2>2 DEF PipeRecs
<1>8. CASE res = "interrupted"
  <2>1. v = w
    BY <1>1, <1>8 DEF ReceiveBuf
  <2> QED
    BY <1>1, <1>4, <2>1 DEF Moved
\* The loop ends: whatever is in the pipe, nothing has been answered.
<1>9. ASSUME NEW p \in PipeRecs, p.msgs = <<>>, v = [p EXCEPT !.pc = "exit"]
      PROVE  Moved(pw')
  <2>1. v \in PipeRecs /\ v.pc = "exit" /\ v.msgs = <<>>
    BY <1>9 DEF PipeRecs, PipePCs
  <2>2. Answered(v)
    BY <2>1 DEF Answered
  <2> QED
    BY <1>1, <2>1, <2>2 DEF Moved
<1>10. CASE res = "fails"
  <2>1. v = [w EXCEPT !.pc = "exit"]
    BY <1>1, <1>10 DEF ReceiveBuf
  <2> QED
    BY <1>4, <1>9, <2>1
<1>11. CASE res \in {"short", "exited"}
  <2>1. PICK d \in {r, f} :
           v = [(IF sp = "ok" THEN [w EXCEPT !.pipe.data = @ \o d] ELSE w) EXCEPT !.pc = "exit"]
    BY <1>1, <1>6, <1>11 DEF ReceiveBuf
  <2>2. PICK p : p = IF sp = "ok" THEN [w EXCEPT !.pipe.data = @ \o d] ELSE w
    OBVIOUS
  <2>3. p \in PipeRecs /\ p.msgs = <<>>
    BY <1>4, <1>7, <2>2
  <2> QED
    BY <1>9, <2>1, <2>2, <2>3
<1>12. CASE res = "ok" /\ sp # "ok"
  <2>1. v = [w EXCEPT !.body = body, !.pc = "process", !.fd = FALSE, !.got = r]
    BY <1>1, <1>6, <1>12 DEF ReceiveBuf
  <2>2. /\ v \in PipeRecs /\ v.pc = "process" /\ ~v.fd /\ v.got = r /\ v.pipe.data = <<>>
        /\ v.msgs = <<>> /\ v.idx = 0 /\ v.extra = 0 /\ v.job = k /\ v.body = b
    BY <1>2, <1>4, <1>5, <2>1 DEF PipeRecs, PipePCs
  <2> QED
    BY <1>1, <1>3, <2>2 DEF Moved
<1>13. CASE res = "ok" /\ sp = "ok"
  <2>0. PICK p : p = [w EXCEPT !.pipe.data = @ \o r]
    OBVIOUS
  <2>1. /\ p \in PipeRecs /\ p.pipe.data = r /\ p.job = k
        /\ p.msgs = <<>> /\ p.idx = 0 /\ p.extra = 0
    BY <1>7, <2>0
  <2>2. CASE body = 0
    <3>6. ~(body > 0)
      BY <2>2
    <3>7. v = [p EXCEPT !.body = body, !.fd = FALSE, !.pc = "small"]
      BY <1>1, <1>6, <1>13, <2>0, <3>6 DEF ReceiveBuf
    <3>2. v = [p EXCEPT !.body = 0, !.fd = FALSE, !.pc = "small"]
      BY <2>2, <3>7
    <3>3. 0 \in 0..MaxPages
      BY PipeAssumption
    <3>4. /\ v \in PipeRecs /\ v.pc = "small" /\ v.pipe.data = r
          /\ v.msgs = <<>> /\ v.idx = 0 /\ v.extra = 0 /\ v.job = k /\ v.body = 0
      BY <2>1, <3>2, <3>3 DEF PipeRecs, PipePCs
    <3>5. r = RequestOf(k, 0)
      BY <1>2, <1>3, <2>2
    <3> QED
      BY <1>1, <3>4, <3>5 DEF Moved
  <2>3. CASE body # 0
    <3>1. body > 0
      BY <2>3, PipeAssumption
    <3>3. v = [p EXCEPT !.body = body, !.fd = TRUE, !.pc = "process"]
      BY <1>1, <1>6, <1>13, <2>0, <3>1 DEF ReceiveBuf
    <3>4. /\ v \in PipeRecs /\ v.pc = "process" /\ v.fd /\ v.pipe.data = r
          /\ v.msgs = <<>> /\ v.idx = 0 /\ v.extra = 0 /\ v.job = k /\ v.body = b
      BY <1>2, <2>1, <3>3 DEF PipeRecs, PipePCs
    <3> QED
      BY <1>1, <1>3, <3>4 DEF Moved
  <2> QED
    BY <2>2, <2>3
<1> QED
  BY <1>8, <1>10, <1>11, <1>12, <1>13

LEMMA SmallRequestMoved ==
    ASSUME Moved(pw), NEW ok \in BOOLEAN, SmallRequest(ok)
    PROVE  Moved(pw')
<1>1. PICK w, v : w = pw /\ v = pw'
  OBVIOUS
<1>2. PICK k \in Nat : k = w.job
  BY <1>1 DEF Moved, PipeRecs
<1>3. /\ w \in PipeRecs /\ w.msgs = <<>> /\ w.idx = 0 /\ w.extra = 0 /\ w.body = 0
      /\ w.pipe.data = RequestOf(k, 0)
  BY <1>1, <1>2 DEF Moved, SmallRequest
<1>4. PICK h : h = <<Hdr(k)>>
  OBVIOUS
<1>0. <<>> \in Seq(Token)
  OBVIOUS
<1>5. /\ RequestOf(k, 0) = h /\ SubSeq(RequestOf(k, 0), 1, 1) = h /\ h \in Seq(Token)
      /\ Tail(RequestOf(k, 0)) = <<>>
  <2>0. PICK z \in Nat : z = 0
    OBVIOUS
  <2>1. PICK d : d = Pages("body", k, 0, z)
    OBVIOUS
  <2>2. PICK m : m = <<Hdr(k)>> \o d
    OBVIOUS
  <2>3. /\ Hdr(k) \in Token /\ d \in Seq(Token) /\ Len(d) = z
        /\ m \in Seq(Token) /\ SubSeq(m, 1, 1) = h /\ Tail(m) = d /\ SubSeq(m, 1, z + 1) = m
    <3>1. "body" \in What
      BY DEF What
    <3> QED
      BY <1>4, <2>1, <2>2, <3>1, MessageSeq
  <2>4. d = <<>> /\ m = h
    BY <2>0, <2>3
  <2>5. RequestOf(k, 0) = m
    BY <2>0, <2>1, <2>2 DEF RequestOf
  <2> QED
    BY <2>3, <2>4, <2>5
<1>6. CASE ok
  <2>1. v = [w EXCEPT !.pc = "process", !.fd = FALSE, !.got = SubSeq(w.pipe.data, 1, 1),
                      !.pipe.data = Tail(@)]
    BY <1>1, <1>6 DEF SmallRequest
  <2>2. v = [w EXCEPT !.pc = "process", !.fd = FALSE, !.got = h, !.pipe.data = <<>>]
    BY <1>3, <1>5, <2>1
  <2>3. /\ v \in PipeRecs /\ v.pc = "process" /\ ~v.fd /\ v.got = h /\ v.pipe.data = <<>>
        /\ v.msgs = <<>> /\ v.idx = 0 /\ v.extra = 0 /\ v.job = k /\ v.body = 0
    BY <1>0, <1>2, <1>3, <1>5, <2>2 DEF PipeRecs, PipePCs
  <2> QED
    BY <1>1, <1>5, <2>3 DEF Moved
<1>7. CASE ~ok
  <2>1. PICK c : c = fuse_ll_clear_pipe(w)
    OBVIOUS
  <2>2. c \in PipeRecs /\ c.pipe.data = <<>> /\ c = [w EXCEPT !.pipe = c.pipe]
    BY <1>3, <2>1, PipeOnly
  <2>3. v = [c EXCEPT !.pc = "exit"]
    BY <1>1, <1>7, <2>1 DEF SmallRequest
  <2>4. v \in PipeRecs /\ v.pc = "exit" /\ v.pipe.data = <<>> /\ v.msgs = <<>>
    BY <1>3, <2>2, <2>3 DEF PipeRecs, PipePCs
  <2>5. Answered(v)
    BY <2>4 DEF Answered
  <2> QED
    BY <1>1, <2>4, <2>5 DEF Moved
<1> QED
  BY <1>6, <1>7

\* A request that is given up: an error is sent, and the pipe cleared if it was used.
LEMMA GivenUp ==
    ASSUME NEW w \in PipeRecs, w.msgs = <<>>, ~w.fd => w.pipe.data = <<>>
    PROVE  /\ Moved([Cleared(Err(w)) EXCEPT !.pc = "next"])
           /\ Moved([Cleared(w) EXCEPT !.pc = "next"])
<1>1. ASSUME NEW u \in PipeRecs, Answered(u), ~u.fd => u.pipe.data = <<>>
      PROVE  Moved([Cleared(u) EXCEPT !.pc = "next"])
  <2>1. CASE ~u.fd
    BY <1>1, <2>1, ToNext DEF Cleared
  <2>2. CASE u.fd
    <3>1. PICK c : c = fuse_ll_clear_pipe(u)
      OBVIOUS
    <3>2. c \in PipeRecs /\ c.pipe.data = <<>> /\ c = [u EXCEPT !.pipe = c.pipe]
      BY <3>1, PipeOnly
    <3>3. c.msgs = u.msgs /\ c.job = u.job /\ c.avail = u.avail
      BY <3>2 DEF PipeRecs
    <3>4. Answered(c)
      BY <1>1, <3>3 DEF Answered
    <3>5. Cleared(u) = c
      BY <2>2, <3>1 DEF Cleared
    <3> QED
      BY <3>2, <3>4, <3>5, ToNext
  <2> QED
    BY <2>1, <2>2
<1>2. PICK e : e = Err(w)
  OBVIOUS
<1>3. e \in PipeRecs /\ Answered(e) /\ e = [w EXCEPT !.msgs = <<<<"err">>>>]
  BY <1>2, ErrOnly
<1>4. e.fd = w.fd /\ e.pipe = w.pipe
  BY <1>3 DEF PipeRecs
<1>5. Answered(w)
  BY DEF Answered
<1> QED
  BY <1>1, <1>2, <1>3, <1>4, <1>5

LEMMA ProcessBufMoved ==
    ASSUME Moved(pw), NEW res \in {"write", "other", "no_header", "no_request", "refused"},
           ProcessBuf(res)
    PROVE  Moved(pw')
<1>1. PICK w, v : w = pw /\ v = pw'
  OBVIOUS
<1>2. PICK k \in Nat : k = w.job
  BY <1>1 DEF Moved, PipeRecs
<1>3. PICK b \in Nat : b = w.body
  BY <1>1, PipeAssumption DEF Moved, PipeRecs
<1>4. PICK g : g = IF w.fd /\ res # "no_header"
                   THEN [w EXCEPT !.got = SubSeq(w.pipe.data, 1, 1), !.pipe.data = Tail(@)]
                   ELSE w
  OBVIOUS
<1>5. /\ w \in PipeRecs /\ w.msgs = <<>> /\ w.idx = 0 /\ w.extra = 0
      /\ w.pipe.data = IF w.fd THEN RequestOf(k, b) ELSE <<>>
      /\ ~w.fd => w.got = RequestOf(k, b)
  BY <1>1, <1>2, <1>3 DEF Moved, ProcessBuf
<1>6. CASE res = "no_header"
  <2>1. v = [Cleared(w) EXCEPT !.pc = "next"]
    BY <1>1, <1>6 DEF ProcessBuf
  <2>2. Moved([Cleared(w) EXCEPT !.pc = "next"])
    BY <1>5, GivenUp
  <2> QED
    BY <1>1, <2>1, <2>2
<1>7. CASE res # "no_header"
  <2>1. /\ g \in PipeRecs /\ g.msgs = <<>> /\ g.idx = 0 /\ g.extra = 0 /\ g.fd = w.fd
        /\ g.job = k /\ g.body = b
        /\ g.fd => g.pipe.data = Pages("body", k, 0, b) /\ g.got = <<Hdr(k)>>
        /\ ~g.fd => g.pipe.data = <<>> /\ g.got = RequestOf(k, b)
    <3>1. CASE ~w.fd
      BY <1>2, <1>3, <1>4, <1>5, <3>1
    <3>2. CASE w.fd
      <4>1. PICK h, d : h = <<Hdr(k)>> /\ d = Pages("body", k, 0, b)
        OBVIOUS
      <4>2. /\ SubSeq(w.pipe.data, 1, 1) = h /\ Tail(w.pipe.data) = d
            /\ h \in Seq(Token) /\ d \in Seq(Token)
        <5>1. "body" \in What
          BY DEF What
        <5>2. Hdr(k) \in Token /\ d \in Seq(Token)
          BY <4>1, <5>1, MessageSeq
        <5>3. h \in Seq(Token)
          BY <4>1, <5>2
        <5> QED
          BY <1>5, <3>2, <4>1, <5>2, <5>3, RequestSeq
      <4>3. g = [w EXCEPT !.got = h, !.pipe.data = d]
        BY <1>4, <1>7, <3>2, <4>2
      <4> QED
        BY <1>2, <1>3, <1>5, <3>2, <4>1, <4>2, <4>3 DEF PipeRecs
    <3> QED
      BY <3>1, <3>2
  <2>2. CASE res \in {"no_request", "refused"}
    <3>1. v = [Cleared(Err(g)) EXCEPT !.pc = "next"]
      BY <1>1, <1>4, <1>7, <2>2 DEF ProcessBuf
    <3>2. Moved([Cleared(Err(g)) EXCEPT !.pc = "next"])
      BY <2>1, GivenUp
    <3> QED
      BY <1>1, <3>1, <3>2
  <2>3. CASE res = "write"
    <3>1. v = [g EXCEPT !.pc = "write_buf"] /\ w.fd
      BY <1>1, <1>4, <1>7, <2>3 DEF ProcessBuf
    <3>2. /\ v \in PipeRecs /\ v.pc = "write_buf" /\ v.fd /\ v.msgs = <<>> /\ v.idx = 0
          /\ v.extra = 0 /\ v.job = k /\ v.body = b /\ v.pipe = g.pipe /\ v.got = g.got
      BY <2>1, <3>1 DEF PipeRecs, PipePCs
    <3> QED
      BY <1>1, <2>1, <3>1, <3>2 DEF Moved
  <2>4. CASE res = "other" /\ w.fd
    <3>1. v = [g EXCEPT !.pc = "body"]
      BY <1>1, <1>4, <1>7, <2>4 DEF ProcessBuf
    <3>2. /\ v \in PipeRecs /\ v.pc = "body" /\ v.fd /\ v.msgs = <<>> /\ v.idx = 0
          /\ v.extra = 0 /\ v.job = k /\ v.body = b /\ v.pipe = g.pipe /\ v.got = g.got
      BY <2>1, <2>4, <3>1 DEF PipeRecs, PipePCs
    <3> QED
      BY <1>1, <2>1, <2>4, <3>2 DEF Moved
  <2>5. CASE res = "other" /\ ~w.fd
    <3>1. v = [g EXCEPT !.pc = "handler"]
      BY <1>1, <1>4, <1>7, <2>5 DEF ProcessBuf
    <3>2. /\ v \in PipeRecs /\ v.pc = "handler" /\ v.msgs = <<>> /\ v.idx = 0
          /\ v.extra = 0 /\ v.job = k /\ v.body = b /\ v.pipe = g.pipe /\ v.got = g.got
      BY <2>1, <3>1 DEF PipeRecs, PipePCs
    <3> QED
      BY <1>1, <2>1, <2>5, <3>2 DEF Moved
  <2> QED
    BY <1>7, <2>2, <2>3, <2>4, <2>5
<1> QED
  BY <1>6, <1>7

LEMMA CopyBodyMoved ==
    ASSUME Moved(pw), NEW ok \in BOOLEAN, CopyBody(ok)
    PROVE  Moved(pw')
<1>1. PICK w, v : w = pw /\ v = pw'
  OBVIOUS
<1>2. PICK k \in Nat : k = w.job
  BY <1>1 DEF Moved, PipeRecs
<1>3. PICK b \in Nat : b = w.body
  BY <1>1, PipeAssumption DEF Moved, PipeRecs
<1>4. PICK d : d = Pages("body", k, 0, b)
  OBVIOUS
<1>5. /\ w \in PipeRecs /\ w.msgs = <<>> /\ w.idx = 0 /\ w.extra = 0 /\ w.fd
      /\ w.pipe.data = d /\ w.got = <<Hdr(k)>>
  BY <1>1, <1>2, <1>3, <1>4 DEF Moved, CopyBody
<1>6. CASE ok
  <2>1. PICK r : r = RequestOf(k, b)
    OBVIOUS
  <2>2. /\ SubSeq(d, 1, b) = d /\ SubSeq(d, b + 1, Len(d)) = <<>> /\ r \in Seq(Token)
        /\ w.got \o d = r
    <3>1. "body" \in What
      BY DEF What
    <3>2. Len(d) = b /\ SubSeq(d, 1, b) = d /\ SubSeq(d, b + 1, b) = <<>>
      BY <1>4, <3>1, MessageSeq
    <3> QED
      BY <1>4, <1>5, <2>1, <3>2, RequestSeq DEF RequestOf
  <2>3. v = [w EXCEPT !.got = @ \o SubSeq(w.pipe.data, 1, w.body),
                      !.pipe.data = SubSeq(@, w.body + 1, Len(@)), !.pc = "handler"]
    BY <1>1, <1>6 DEF CopyBody
  <2>4. v = [w EXCEPT !.got = r, !.pipe.data = <<>>, !.pc = "handler"]
    BY <1>3, <1>5, <2>2, <2>3
  <2>5. <<>> \in Seq(Token)
    OBVIOUS
  <2>6. /\ v \in PipeRecs /\ v.pc = "handler" /\ v.msgs = <<>> /\ v.idx = 0
        /\ v.extra = 0 /\ v.job = k /\ v.body = b /\ v.pipe.data = <<>> /\ v.got = r
    BY <1>2, <1>3, <1>5, <2>2, <2>4, <2>5 DEF PipeRecs, PipePCs
  <2> QED
    BY <1>1, <2>1, <2>6 DEF Moved
<1>7. CASE ~ok
  <2>1. v = [Cleared(Err(w)) EXCEPT !.pc = "next"]
    BY <1>1, <1>7 DEF CopyBody
  <2>2. Moved([Cleared(Err(w)) EXCEPT !.pc = "next"])
    BY <1>5, GivenUp
  <2> QED
    BY <1>1, <2>1, <2>2
<1> QED
  BY <1>6, <1>7

\* The answers the kernel gets: a header with the first n pages.
LEMMA WholeAnswer ==
    ASSUME NEW w \in PipeRecs, w.pipe.data = <<>>, w.msgs = <<>>, NEW k \in Nat, k = w.job,
           NEW n \in Nat, n <= w.avail, NEW m, m = <<Hdr(k)>> \o Pages("data", k, 0, n)
    PROVE  /\ Append(w.msgs, m) = <<m>> /\ <<m>> \in Seq(Seq(Token))
           /\ Moved([w EXCEPT !.msgs = Append(@, m), !.pc = "next"])
           /\ \A res \in Int : res <= 0 => Moved(Return([w EXCEPT !.msgs = Append(@, m)], res))
<1>1. m \in Seq(Token)
  <2>1. "data" \in What
    BY DEF What
  <2> QED
    BY <2>1, MessageSeq
<1>2. Append(w.msgs, m) = <<m>> /\ <<m>> \in Seq(Seq(Token))
  BY <1>1
<1>3. PICK u : u = [w EXCEPT !.msgs = <<m>>]
  OBVIOUS
<1>4. u \in PipeRecs /\ u.msgs = <<m>> /\ u.pipe.data = <<>> /\ u.job = k /\ u.avail = w.avail
  BY <1>2, <1>3 DEF PipeRecs
<1>5. n \in 0..u.avail
  BY <1>4 DEF PipeRecs
<1>6. Answered(u)
  BY <1>4, <1>5 DEF Answered
<1>7. Moved([u EXCEPT !.pc = "next"])
  BY <1>4, <1>6, ToNext
<1>8. [w EXCEPT !.msgs = Append(@, m)] = u
  BY <1>2, <1>3
<1>9. [w EXCEPT !.msgs = Append(@, m), !.pc = "next"] = [u EXCEPT !.pc = "next"]
  BY <1>2, <1>3 DEF PipeRecs
<1>10. ASSUME NEW res \in Int, res <= 0
       PROVE  Return(u, res) = [u EXCEPT !.pc = "next"]
  <2>1. ~(res > 0)
    BY <1>10
  <2> QED
    BY <2>1 DEF Return
<1> QED
  BY <1>2, <1>7, <1>8, <1>9, <1>10

LEMMA do_write_bufMoved ==
    ASSUME Moved(pw), NEW n \in 0..pw.body, do_write_buf(n)
    PROVE  Moved(pw')
<1>1. PICK w, v : w = pw /\ v = pw'
  OBVIOUS
<1>2. PICK k \in Nat : k = w.job
  BY <1>1 DEF Moved, PipeRecs
<1>3. PICK b \in Nat : b = w.body
  BY <1>1, PipeAssumption DEF Moved, PipeRecs
<1>4. PICK d : d = Pages("body", k, 0, b)
  OBVIOUS
<1>5. /\ w \in PipeRecs /\ w.msgs = <<>> /\ w.idx = 0 /\ w.extra = 0 /\ w.fd
      /\ w.pipe.data = d /\ w.got = <<Hdr(k)>>
  BY <1>1, <1>2, <1>3, <1>4 DEF Moved, do_write_buf
<1>6. d \in Seq(Token) /\ Len(d) = b /\ SubSeq(d, b + 1, b) = <<>> /\ Hdr(k) \in Token
  <2>1. "body" \in What
    BY DEF What
  <2> QED
    BY <1>4, <2>1, MessageSeq
<1>7. n \in Nat /\ n <= b
  BY <1>1, <1>3
<1>8. PICK x, y, m, g : /\ x = SubSeq(d, 1, n) /\ y = SubSeq(d, n + 1, Len(d))
                        /\ m = <<Hdr(k)>> /\ g = w.got \o x
  OBVIOUS
<1>9. /\ y \in Seq(Token) /\ g \in Seq(Token) /\ m \in Seq(Token) /\ (n = b => y = <<>>)
  <2>1. \A i \in 1..b : d[i] \in Token
    BY <1>6
  <2>2. x \in Seq(Token) /\ y \in Seq(Token)
    BY <1>6, <1>7, <1>8, <2>1, SubSeqProperties
  <2>3. m \in Seq(Token) /\ w.got = m
    BY <1>5, <1>6, <1>8
  <2> QED
    BY <1>6, <1>8, <2>2, <2>3
<1>10. m = <<Hdr(k)>> \o Pages("data", k, 0, 0)
  <2>1. PICK z \in Nat : z = 0
    OBVIOUS
  <2>2. "data" \in What
    BY DEF What
  <2>3. Pages("data", k, 0, z) \in Seq(Token) /\ Len(Pages("data", k, 0, z)) = z
    BY <2>2, MessageSeq
  <2>4. Pages("data", k, 0, 0) = <<>>
    BY <2>1, <2>3
  <2> QED
    BY <1>6, <1>8, <2>4
<1>11. PICK u : u = [w EXCEPT !.got = g, !.pipe.data = y, !.msgs = <<m>>, !.pc = "next"]
  OBVIOUS
<1>12. /\ u \in PipeRecs /\ u.pipe.data = y /\ u.msgs = <<m>> /\ u.pc = "next" /\ u.job = k
       /\ u.fd /\ u.avail \in Nat
  <2>1. <<m>> \in Seq(Seq(Token))
    BY <1>9
  <2> QED
    BY <1>2, <1>5, <1>9, <1>11, <2>1 DEF PipeRecs, PipePCs
<1>13. Answered(u)
  <2>1. 0 \in 0..u.avail
    BY <1>12
  <2> QED
    BY <1>10, <1>12, <2>1 DEF Answered
<1>14. v = IF n < w.body THEN Cleared(u) ELSE u
  <2>1. Append(<<>>, m) = <<m>>
    BY <1>9
  <2>2. [w EXCEPT !.got = @ \o SubSeq(w.pipe.data, 1, n), !.pipe.data = SubSeq(@, n + 1, Len(@)),
                  !.msgs = Append(@, <<Hdr(w.job)>>), !.pc = "next"] = u
    BY <1>2, <1>5, <1>8, <1>11, <2>1
  <2> QED
    BY <1>1, <2>2 DEF do_write_buf
<1>15. CASE n < w.body
  <2>1. PICK c : c = fuse_ll_clear_pipe(u)
    OBVIOUS
  <2>2. c \in PipeRecs /\ c.pipe.data = <<>> /\ c = [u EXCEPT !.pipe = c.pipe]
    BY <1>12, <2>1, PipeOnly
  <2>3. c.msgs = u.msgs /\ c.job = u.job /\ c.avail = u.avail /\ c.pc = "next"
    BY <1>12, <2>2 DEF PipeRecs
  <2>4. Answered(c)
    BY <1>13, <2>3 DEF Answered
  <2>5. v = c
    BY <1>12, <1>14, <1>15, <2>1 DEF Cleared
  <2> QED
    BY <1>1, <2>2, <2>3, <2>4, <2>5 DEF Moved
<1>16. CASE ~(n < w.body)
  <2>1. y = <<>> /\ v = u
    BY <1>3, <1>7, <1>9, <1>14, <1>16
  <2> QED
    BY <1>1, <1>12, <1>13, <2>1 DEF Moved
<1> QED
  BY <1>15, <1>16

LEMMA HandlerMoved ==
    ASSUME Moved(pw), NEW len \in 1..MaxPages, NEW avail \in 0..MaxPages, Handler(len, avail)
    PROVE  Moved(pw')
<1>1. PICK w, v : w = pw /\ v = pw'
  OBVIOUS
<1>2. /\ w \in PipeRecs /\ w.msgs = <<>> /\ w.idx = 0 /\ w.extra = 0 /\ w.pipe.data = <<>>
      /\ v = [w EXCEPT !.pc = "send", !.len = len, !.avail = avail]
  BY <1>1 DEF Moved, Handler
<1>3. len \in Nat /\ avail \in Nat
  BY PipeAssumption
<1>4. /\ v \in PipeRecs /\ v.pc = "send" /\ v.msgs = <<>> /\ v.idx = 0 /\ v.extra = 0
      /\ v.pipe.data = <<>>
  BY <1>2, <1>3 DEF PipeRecs, PipePCs
<1> QED
  BY <1>1, <1>4 DEF Moved

LEMMA VmspliceMoved ==
    ASSUME Moved(pw), NEW res \in {"ok", "fails", "short"}, NEW sp \in {"ok", "no_pipe", "no_grow"},
           Vmsplice(res, sp)
    PROVE  Moved(pw')
<1>1. PICK w, v : w = get_pipe(pw, sp) /\ v = pw'
  OBVIOUS
<1>2. PICK k \in Nat : k = pw.job
  BY DEF Moved, PipeRecs
<1>3. /\ w \in PipeRecs /\ w.msgs = <<>> /\ w.idx = 0 /\ w.extra = 0 /\ w.pipe.data = <<>>
      /\ w.job = k
  <2>1. PICK u : u = pw
    OBVIOUS
  <2>2. /\ u \in PipeRecs /\ u.msgs = <<>> /\ u.idx = 0 /\ u.extra = 0 /\ u.pipe.data = <<>>
        /\ u.job = k
    BY <1>2, <2>1 DEF Moved, Vmsplice
  <2>3. w \in PipeRecs /\ w.pipe.data = u.pipe.data /\ w = [u EXCEPT !.pipe = w.pipe]
    BY <1>1, <2>1, <2>2, PipeOnly
  <2> QED
    BY <2>2, <2>3 DEF PipeRecs
<1>4. CASE pw.broken \/ sp # "ok" \/ res = "fails"
  <2>1. v = [w EXCEPT !.pc = "fallback"]
    BY <1>1, <1>4 DEF Vmsplice
  <2>2. /\ v \in PipeRecs /\ v.pc = "fallback" /\ v.msgs = <<>> /\ v.idx = 0 /\ v.extra = 0
        /\ v.pipe.data = <<>>
    BY <1>3, <2>1 DEF PipeRecs, PipePCs
  <2> QED
    BY <1>1, <2>2 DEF Moved
<1>5. CASE ~pw.broken /\ sp = "ok" /\ res = "short"
  <2>1. v = ReturnCleared(w, -5)
    BY <1>1, <1>5 DEF Vmsplice
  <2>2. Moved(ReturnCleared(w, -5))
    BY <1>3, ReturnMoved
  <2> QED
    BY <1>1, <2>1, <2>2
<1>6. CASE ~pw.broken /\ sp = "ok" /\ res = "ok"
  <2>1. PICK h \in Token : h = Hdr(k)
    <3>1. "data" \in What /\ 0 \in Nat
      BY DEF What
    <3> QED
      BY <3>1, MessageSeq
  <2>2. v = [w EXCEPT !.pipe.data = Append(@, Hdr(pw.job)), !.pc = "copy"]
    BY <1>1, <1>6 DEF Vmsplice
  <2>3. Append(<<>>, h) = <<h>> /\ <<h>> \in Seq(Token)
    OBVIOUS
  <2>4. v = [w EXCEPT !.pipe.data = <<h>>, !.pc = "copy"]
    BY <1>2, <1>3, <2>1, <2>2, <2>3
  <2>5. /\ v \in PipeRecs /\ v.pc = "copy" /\ v.msgs = <<>> /\ v.idx = 0 /\ v.extra = 0
        /\ v.pipe.data = <<h>> /\ v.job = k
    BY <1>3, <2>3, <2>4 DEF PipeRecs, PipePCs
  <2> QED
    BY <1>1, <2>1, <2>5 DEF Moved
<1>7. pw.broken \in BOOLEAN
  BY DEF Moved, PipeRecs
<1> QED
  BY <1>4, <1>5, <1>6, <1>7

LEMMA CopyToPipeMoved ==
    ASSUME Moved(pw), NEW res \in {"ok", "EAGAIN", "EINVAL", "error"}, NEW n \in 0..MaxPages,
           CopyToPipe(res, n)
    PROVE  Moved(pw')
<1>1. PICK w, v : w = pw /\ v = pw'
  OBVIOUS
<1>2. PICK k \in Nat : k = w.job
  BY <1>1 DEF Moved, PipeRecs
<1>3. /\ w \in PipeRecs /\ w.msgs = <<>> /\ w.idx = 0 /\ w.extra = 0
      /\ w.pipe.data = <<Hdr(k)>> /\ n <= w.avail
  BY <1>1, <1>2 DEF Moved, CopyToPipe
<1>4. PICK q \in Nat : q = n
  BY PipeAssumption
<1>5. PICK c : c = fuse_ll_clear_pipe(w)
  OBVIOUS
<1>6. c \in PipeRecs /\ c.pipe.data = <<>> /\ c = [w EXCEPT !.pipe = c.pipe]
  BY <1>3, <1>5, PipeOnly
<1>7. c.msgs = <<>> /\ c.idx = 0 /\ c.extra = 0
  BY <1>3, <1>6 DEF PipeRecs
<1>8. CASE res = "EAGAIN"
  <2>1. v = [c EXCEPT !.broken = TRUE, !.pc = "fallback"]
    BY <1>1, <1>5, <1>8 DEF CopyToPipe
  <2>2. /\ v \in PipeRecs /\ v.pc = "fallback" /\ v.msgs = <<>> /\ v.idx = 0 /\ v.extra = 0
        /\ v.pipe.data = <<>>
    BY <1>6, <1>7, <2>1 DEF PipeRecs, PipePCs
  <2> QED
    BY <1>1, <2>2 DEF Moved
<1>9. CASE res = "EINVAL"
  <2>1. v = [c EXCEPT !.pc = "fallback"]
    BY <1>1, <1>5, <1>9 DEF CopyToPipe
  <2>2. /\ v \in PipeRecs /\ v.pc = "fallback" /\ v.msgs = <<>> /\ v.idx = 0 /\ v.extra = 0
        /\ v.pipe.data = <<>>
    BY <1>6, <1>7, <2>1 DEF PipeRecs, PipePCs
  <2> QED
    BY <1>1, <2>2 DEF Moved
<1>10. CASE res = "error"
  <2>1. v = ReturnCleared(w, 5)
    BY <1>1, <1>10 DEF CopyToPipe
  <2>2. Moved(ReturnCleared(w, 5))
    BY <1>3, ReturnMoved
  <2> QED
    BY <1>1, <2>1, <2>2
<1>11. CASE res = "ok"
  <2>1. PICK m, p : /\ m = <<Hdr(k)>> \o Pages("data", k, 0, q)
                    /\ p = IF n # 0 /\ n < w.len THEN "more" ELSE "splice"
    OBVIOUS
  <2>2. m \in Seq(Token)
    <3>1. "data" \in What
      BY DEF What
    <3> QED
      BY <2>1, <3>1, MessageSeq
  <2>3. v = [w EXCEPT !.pipe.data = @ \o Pages("data", w.job, 0, n), !.idx = n, !.now = n,
                      !.pc = IF n # 0 /\ n < w.len THEN "more" ELSE "splice"]
    BY <1>1, <1>11 DEF CopyToPipe
  <2>4. w.pipe.data \o Pages("data", w.job, 0, n) = m
    BY <1>2, <1>3, <1>4, <2>1
  <2>5. v = [w EXCEPT !.pipe.data = m, !.idx = q, !.now = q, !.pc = p]
    BY <1>4, <2>1, <2>3, <2>4
  <2>6. /\ v \in PipeRecs /\ v.pc \in {"more", "splice"} /\ v.msgs = <<>> /\ v.idx = q
        /\ v.now = q /\ v.extra = 0 /\ v.avail = w.avail /\ v.pipe.data = m /\ v.job = k
    BY <1>2, <1>3, <2>1, <2>2, <2>5, ZenonT(30) DEF PipeRecs, PipePCs
  <2>7. v.now + v.extra <= v.avail
    BY <1>3, <1>4, <2>6
  <2> QED
    BY <1>1, <2>1, <2>6, <2>7 DEF Moved
<1> QED
  BY <1>8, <1>9, <1>10, <1>11

LEMMA CopyMoreMoved ==
    ASSUME Moved(pw), NEW res \in {"ok", "no_memory"}, NEW m \in 0..MaxPages, CopyMore(res, m)
    PROVE  Moved(pw')
<1>1. PICK w, v : w = pw /\ v = pw'
  OBVIOUS
<1>2. /\ w \in PipeRecs /\ w.msgs = <<>> /\ w.idx = w.now /\ w.extra = 0 /\ w.now + w.extra <= w.avail
      /\ w.pipe.data = <<Hdr(w.job)>> \o Pages("data", w.job, 0, w.now)
      /\ w.idx \in Nat /\ w.avail \in Nat /\ m \in Nat
  <2>1. /\ w \in PipeRecs /\ w.msgs = <<>> /\ w.idx = w.now /\ w.extra = 0
        /\ w.now + w.extra <= w.avail
        /\ w.pipe.data = <<Hdr(w.job)>> \o Pages("data", w.job, 0, w.now)
    BY <1>1 DEF Moved, CopyMore
  <2>2. w.idx \in Nat /\ w.avail \in Nat
    BY <2>1 DEF PipeRecs
  <2>3. m \in Nat
    BY PipeAssumption
  <2> QED
    BY <2>1, <2>2, <2>3
<1>3. m <= w.avail - w.idx
  BY <1>1 DEF CopyMore
<1>4. CASE res = "no_memory"
  <2>1. v = ReturnCleared(w, 12)
    BY <1>1, <1>4 DEF CopyMore
  <2>2. Moved(ReturnCleared(w, 12))
    BY <1>2, ReturnMoved
  <2> QED
    BY <1>1, <2>1, <2>2
<1>5. CASE res = "ok" /\ m = 0
  <2>1. v = [w EXCEPT !.pc = "splice"]
    BY <1>1, <1>5 DEF CopyMore
  <2>2. /\ v \in PipeRecs /\ v.pc = "splice" /\ v.msgs = <<>> /\ v.now = w.now /\ v.extra = w.extra
        /\ v.avail = w.avail /\ v.pipe.data = w.pipe.data /\ v.job = w.job
    BY <1>2, <2>1 DEF PipeRecs, PipePCs
  <2> QED
    BY <1>1, <1>2, <2>2 DEF Moved
<1>6. CASE res = "ok" /\ m > 0
  <2>1. v = [w EXCEPT !.idx = @ + m, !.extra = m, !.pc = "read_back"]
    BY <1>1, <1>6 DEF CopyMore
  <2>2. /\ v \in PipeRecs /\ v.pc = "read_back" /\ v.msgs = <<>> /\ v.now = w.now /\ v.extra = m
        /\ v.avail = w.avail /\ v.pipe.data = w.pipe.data /\ v.job = w.job
    <3>1. w.idx + m \in Nat
      BY <1>2
    <3> QED
      BY <1>2, <2>1, <3>1 DEF PipeRecs, PipePCs
  <2>3. v.now + v.extra <= v.avail
    BY <1>2, <1>3, <2>2
  <2> QED
    BY <1>1, <1>2, <2>2, <2>3 DEF Moved
<1> QED
  BY <1>2, <1>4, <1>5, <1>6

LEMMA ReadBackMoved ==
    ASSUME Moved(pw), NEW res \in {"ok", "no_memory", "fails"}, ReadBack(res)
    PROVE  Moved(pw')
<1>1. PICK w, v : w = pw /\ v = pw'
  OBVIOUS
<1>2. PICK k \in Nat : k = w.job
  BY <1>1 DEF Moved, PipeRecs
<1>3. PICK n \in Nat : n = w.now
  BY <1>1 DEF Moved, PipeRecs
<1>4. /\ w \in PipeRecs /\ w.msgs = <<>> /\ w.now + w.extra <= w.avail
      /\ w.pipe.data = <<Hdr(k)>> \o Pages("data", k, 0, n)
  BY <1>1, <1>2, <1>3 DEF Moved, ReadBack
<1>5. CASE res = "no_memory"
  <2>1. v = ReturnCleared(w, 12)
    BY <1>1, <1>5 DEF ReadBack
  <2>2. Moved(ReturnCleared(w, 12))
    BY <1>4, ReturnMoved
  <2> QED
    BY <1>1, <2>1, <2>2
<1>6. CASE res = "fails"
  <2>1. v = ReturnCleared(w, -5)
    BY <1>1, <1>6 DEF ReadBack
  <2>2. Moved(ReturnCleared(w, -5))
    BY <1>4, ReturnMoved
  <2> QED
    BY <1>1, <2>1, <2>2
<1>7. CASE res = "ok"
  <2>1. PICK d : d = Pages("data", k, 0, n)
    OBVIOUS
  <2>2. /\ SubSeq(w.pipe.data, 2, n + 1) = d /\ SubSeq(w.pipe.data, n + 2, Len(w.pipe.data)) = <<>>
        /\ d \in Seq(Token)
    <3>1. "data" \in What
      BY DEF What
    <3>2. PICK x : x = <<Hdr(k)>> \o d
      OBVIOUS
    <3>3. Len(x) = n + 1 /\ SubSeq(x, 2, n + 1) = d /\ SubSeq(x, n + 2, n + 1) = <<>> /\ d \in Seq(Token)
      BY <2>1, <3>1, <3>2, MessageSeq
    <3> QED
      BY <1>4, <2>1, <3>2, <3>3
  <2>3. v = [w EXCEPT !.pc = "write", !.got = SubSeq(w.pipe.data, 2, w.now + 1),
                      !.pipe.data = SubSeq(@, w.now + 2, Len(@))]
    BY <1>1, <1>7 DEF ReadBack
  <2>4. v = [w EXCEPT !.pc = "write", !.got = d, !.pipe.data = <<>>]
    BY <1>3, <2>2, <2>3
  <2>5. <<>> \in Seq(Token)
    OBVIOUS
  <2>6. /\ v \in PipeRecs /\ v.pc = "write" /\ v.msgs = <<>> /\ v.now = n /\ v.extra = w.extra
        /\ v.avail = w.avail /\ v.pipe.data = <<>> /\ v.got = d /\ v.job = k
    BY <1>2, <1>3, <1>4, <2>2, <2>4, <2>5 DEF PipeRecs, PipePCs
  <2> QED
    BY <1>1, <1>3, <1>4, <2>1, <2>6 DEF Moved
<1> QED
  BY <1>5, <1>6, <1>7

LEMMA WriteAnswerMoved ==
    ASSUME Moved(pw), NEW ok \in BOOLEAN, WriteAnswer(ok)
    PROVE  Moved(pw')
<1>1. PICK w, v : w = pw /\ v = pw'
  OBVIOUS
<1>2. PICK k \in Nat : k = w.job
  BY <1>1 DEF Moved, PipeRecs
<1>3. PICK n \in Nat : n = w.now
  BY <1>1 DEF Moved, PipeRecs
<1>4. PICK c \in Nat : c = w.now + w.extra
  BY <1>1 DEF Moved, PipeRecs
<1>5. /\ w \in PipeRecs /\ w.msgs = <<>> /\ c <= w.avail /\ w.pipe.data = <<>>
      /\ w.got = Pages("data", k, 0, n) /\ n <= c /\ w.extra \in Nat
  BY <1>1, <1>2, <1>3, <1>4 DEF Moved, WriteAnswer, PipeRecs
<1>6. CASE ok
  <2>1. PICK d, e, m : /\ d = Pages("data", k, 0, n) /\ e = Pages("data", k, n, c)
                       /\ m = <<Hdr(k)>> \o Pages("data", k, 0, c)
    OBVIOUS
  <2>2. (<<Hdr(k)>> \o d) \o e = m
    <3>1. "data" \in What /\ 0 \in Nat /\ 0 <= n
      BY DEF What
    <3>2. Hdr(k) \in Token /\ d \in Seq(Token)
      BY <2>1, <3>1, MessageSeq
    <3>3. e \in Seq(Token)
      BY <1>5, <2>1, <3>1, PagesSeq
    <3>4. d \o e = Pages("data", k, 0, c)
      <4>1. PICK o \in Nat : o = 0
        OBVIOUS
      <4>2. "data" \in What /\ o <= n /\ n <= c
        BY <1>5, <3>1, <4>1
      <4>3. Pages("data", k, o, n) \o Pages("data", k, n, c) = Pages("data", k, o, c)
        BY ONLY k \in Nat, o \in Nat, n \in Nat, c \in Nat, <4>2, PagesJoin
      <4> QED
        BY <2>1, <4>1, <4>3
    <3>5. <<Hdr(k)>> \in Seq(Token)
      BY <3>2
    <3>6. (<<Hdr(k)>> \o d) \o e = <<Hdr(k)>> \o (d \o e)
      BY <3>2, <3>3, <3>5, ConcatAssociative
    <3> QED
      BY <2>1, <3>4, <3>6
  <2>3. v = Return([w EXCEPT !.msgs = Append(@, (<<Hdr(w.job)>> \o w.got)
                                      \o Pages("data", w.job, w.now, w.now + w.extra))], 0)
    BY <1>1, <1>6 DEF WriteAnswer
  <2>4. v = Return([w EXCEPT !.msgs = Append(@, m)], 0)
    BY <1>2, <1>3, <1>4, <1>5, <2>1, <2>2, <2>3
  <2>5. \A res \in Int : res <= 0 => Moved(Return([w EXCEPT !.msgs = Append(@, m)], res))
    BY <1>2, <1>5, <2>1, WholeAnswer
  <2>6. 0 \in Int /\ 0 <= 0
    OBVIOUS
  <2> QED
    BY <1>1, <2>4, <2>5, <2>6
<1>7. CASE ~ok
  <2>1. v = Return(w, -2)
    BY <1>1, <1>7 DEF WriteAnswer
  <2>2. Moved(Return(w, -2))
    BY <1>5, ReturnMoved
  <2> QED
    BY <1>1, <2>1, <2>2
<1> QED
  BY <1>6, <1>7

LEMMA SpliceAnswerMoved ==
    ASSUME Moved(pw), NEW ok \in BOOLEAN, SpliceAnswer(ok)
    PROVE  Moved(pw')
<1>1. PICK w, v : w = pw /\ v = pw'
  OBVIOUS
<1>2. PICK k \in Nat : k = w.job
  BY <1>1 DEF Moved, PipeRecs
<1>3. PICK n \in Nat : n = w.now
  BY <1>1 DEF Moved, PipeRecs
<1>4. PICK m : m = <<Hdr(k)>> \o Pages("data", k, 0, n)
  OBVIOUS
<1>5. /\ w \in PipeRecs /\ w.msgs = <<>> /\ w.now + w.extra <= w.avail /\ w.pipe.data = m
  BY <1>1, <1>2, <1>3, <1>4 DEF Moved, SpliceAnswer
<1>6. n <= w.avail
  <2>1. w.extra \in Nat /\ w.avail \in Nat
    BY <1>5 DEF PipeRecs
  <2> QED
    BY <1>3, <1>5, <2>1
<1>7. CASE ok
  <2>1. SubSeq(m, 1, n + 1) = m /\ SubSeq(m, n + 2, Len(m)) = <<>>
    <3>1. "data" \in What
      BY DEF What
    <3>2. Len(m) = n + 1 /\ SubSeq(m, 1, n + 1) = m /\ SubSeq(m, n + 2, n + 1) = <<>>
      BY <1>4, <3>1, MessageSeq
    <3> QED
      BY <3>2
  <2>2. PICK u : u = [w EXCEPT !.pipe.data = <<>>]
    OBVIOUS
  <2>3. <<>> \in Seq(Token)
    OBVIOUS
  <2>4. u \in PipeRecs /\ u.pipe.data = <<>> /\ u.msgs = <<>> /\ u.job = k /\ u.avail = w.avail
    BY <1>2, <1>5, <2>2, <2>3 DEF PipeRecs
  <2>5. n <= u.avail
    BY <1>6, <2>4
  <2>6. v = Return([w EXCEPT !.msgs = Append(@, SubSeq(w.pipe.data, 1, w.now + 1)),
                             !.pipe.data = SubSeq(@, w.now + 2, Len(@))], 0)
    BY <1>1, <1>7 DEF SpliceAnswer
  <2>7. [w EXCEPT !.msgs = Append(@, SubSeq(w.pipe.data, 1, w.now + 1)),
                  !.pipe.data = SubSeq(@, w.now + 2, Len(@))] = [u EXCEPT !.msgs = Append(@, m)]
    BY <1>3, <1>5, <2>1, <2>2 DEF PipeRecs
  <2>8. \A res \in Int : res <= 0 => Moved(Return([u EXCEPT !.msgs = Append(@, m)], res))
    BY <1>4, <2>4, <2>5, WholeAnswer
  <2>9. 0 \in Int /\ 0 <= 0
    OBVIOUS
  <2> QED
    BY <1>1, <2>6, <2>7, <2>8, <2>9
<1>8. CASE ~ok
  <2>1. v = ReturnCleared(w, -5)
    BY <1>1, <1>8 DEF SpliceAnswer
  <2>2. Moved(ReturnCleared(w, -5))
    BY <1>5, ReturnMoved
  <2> QED
    BY <1>1, <2>1, <2>2
<1> QED
  BY <1>7, <1>8

LEMMA FallbackMoved ==
    ASSUME Moved(pw), NEW res \in {"ok", "error", "fails"}, Fallback(res)
    PROVE  Moved(pw')
<1>1. PICK w, v : w = pw /\ v = pw'
  OBVIOUS
<1>2. PICK k \in Nat : k = w.job
  BY <1>1 DEF Moved, PipeRecs
<1>3. PICK n \in Nat : n = w.avail
  BY <1>1 DEF Moved, PipeRecs
<1>4. w \in PipeRecs /\ w.msgs = <<>> /\ w.pipe.data = <<>> /\ w.idx = 0
  BY <1>1 DEF Moved, Fallback
<1>5. CASE res = "error"
  <2>1. v = Return(w, 5)
    BY <1>1, <1>5 DEF Fallback
  <2>2. Moved(Return(w, 5))
    BY <1>4, ReturnMoved
  <2> QED
    BY <1>1, <2>1, <2>2
<1>6. CASE res = "fails"
  <2>1. v = Return(w, -2)
    BY <1>1, <1>6 DEF Fallback
  <2>2. Moved(Return(w, -2))
    BY <1>4, ReturnMoved
  <2> QED
    BY <1>1, <2>1, <2>2
<1>7. CASE res = "ok"
  <2>1. PICK m : m = <<Hdr(k)>> \o Pages("data", k, 0, n)
    OBVIOUS
  <2>2. v = Return([w EXCEPT !.msgs = Append(@, <<Hdr(w.job)>>
                                                \o Pages("data", w.job, w.idx, w.avail))], 0)
    BY <1>1, <1>7 DEF Fallback
  <2>3. v = Return([w EXCEPT !.msgs = Append(@, m)], 0)
    BY <1>2, <1>3, <1>4, <2>1, <2>2
  <2>4. n <= w.avail
    BY <1>3
  <2>5. \A r \in Int : r <= 0 => Moved(Return([w EXCEPT !.msgs = Append(@, m)], r))
    BY <1>2, <1>4, <2>1, <2>4, WholeAnswer
  <2>6. 0 \in Int /\ 0 <= 0
    OBVIOUS
  <2> QED
    BY <1>1, <2>3, <2>5, <2>6
<1> QED
  BY <1>5, <1>6, <1>7

LEMMA NextJobMoved ==
    ASSUME Moved(pw), NextJob
    PROVE  Moved(pw')
<1>1. PICK w, v : w = pw /\ v = pw'
  OBVIOUS
<1>2. w \in PipeRecs /\ w.pipe.data = <<>> /\ w.job + 1 \in Nat
  BY <1>1 DEF Moved, NextJob, PipeRecs
<1>3. v = [Fresh EXCEPT !.job = w.job + 1, !.pipe = w.pipe, !.broken = w.broken]
  BY <1>1 DEF NextJob
<1>4. Fresh \in PipeRecs
  BY PipeAssumption DEF Fresh, NoPipe, PipeRecs, PipePCs
<1>5. Fresh.pc = "receive" /\ Fresh.msgs = <<>> /\ Fresh.idx = 0 /\ Fresh.extra = 0
  BY DEF Fresh
<1>6. /\ v \in PipeRecs /\ v.pc = "receive" /\ v.msgs = <<>> /\ v.idx = 0 /\ v.extra = 0
      /\ v.pipe.data = <<>>
  <2>1. PICK f : f = Fresh
    OBVIOUS
  <2>2. f \in PipeRecs /\ f.pc = "receive" /\ f.msgs = <<>> /\ f.idx = 0 /\ f.extra = 0
    BY <1>4, <1>5, <2>1
  <2>3. v = [f EXCEPT !.job = w.job + 1, !.pipe = w.pipe, !.broken = w.broken]
    BY <1>3, <2>1
  <2> QED
    BY <1>2, <2>2, <2>3 DEF PipeRecs
<1> QED
  BY <1>1, <1>6 DEF Moved

\* The end of the loop changes neither the pipe nor what was answered; the end of the
\* thread gives up the pipe.
LEMMA EndMoved ==
    ASSUME Moved(pw), LoopEnds \/ fuse_ll_pipe_free
    PROVE  Moved(pw')
<1>1. PICK w, v : w = pw /\ v = pw'
  OBVIOUS
<1>2. w \in PipeRecs /\ Answered(w)
  <2>1. w \in PipeRecs /\ (w.msgs = <<>> \/ Answered(w))
    BY <1>1 DEF Moved, LoopEnds, fuse_ll_pipe_free
  <2> QED
    BY <2>1 DEF Answered
<1>3. ASSUME v \in PipeRecs, v.msgs = w.msgs, v.job = w.job, v.avail = w.avail
      PROVE  Answered(v)
  BY <1>2, <1>3 DEF Answered
<1>4. CASE LoopEnds
  <2>1. v = [w EXCEPT !.pc = "exit"]
    BY <1>1, <1>4 DEF LoopEnds
  <2>2. v \in PipeRecs /\ v.pc = "exit" /\ v.msgs = w.msgs /\ v.job = w.job /\ v.avail = w.avail
    BY <1>2, <2>1 DEF PipeRecs, PipePCs
  <2> QED
    BY <1>1, <1>3, <2>2 DEF Moved
<1>5. CASE fuse_ll_pipe_free
  <2>1. v = [w EXCEPT !.pipe = NoPipe, !.pc = "gone"]
    BY <1>1, <1>5 DEF fuse_ll_pipe_free
  <2>2. NoPipe \in [open : BOOLEAN, data : Seq(Token)] /\ NoPipe.data = <<>>
    BY DEF NoPipe
  <2>3. /\ v \in PipeRecs /\ v.pc = "gone" /\ v.pipe.data = <<>>
        /\ v.msgs = w.msgs /\ v.job = w.job /\ v.avail = w.avail
    BY <1>2, <2>1, <2>2 DEF PipeRecs, PipePCs
  <2> QED
    BY <1>1, <1>3, <2>3 DEF Moved
<1> QED
  BY <1>4, <1>5

\* Whichever of its system calls fail or are short, a worker keeps nothing of one
\* request in its pipe for the next, hands its handlers their own request and
\* sends at most one answer, an error or header and data without a gap.
THEOREM PipeStaysRight == PipeSpec => []PipeInv
<1>1. PipeInit => Moved(pw)
  BY MovedInit
<1>2. Moved(pw) /\ [PipeNext]_pw => Moved(pw)'
  <2> SUFFICES ASSUME Moved(pw), [PipeNext]_pw
               PROVE  Moved(pw')
    OBVIOUS
  <2>1. CASE \E body \in 0..MaxPages, sp \in {"ok", "no_pipe", "no_grow"},
                res \in {"ok", "interrupted", "fails", "short", "exited"} : ReceiveBuf(body, sp, res)
    BY <2>1, ReceiveBufMoved
  <2>2. CASE \E ok \in BOOLEAN : SmallRequest(ok)
    BY <2>2, SmallRequestMoved
  <2>3. CASE \E res \in {"write", "other", "no_header", "no_request", "refused"} : ProcessBuf(res)
    BY <2>3, ProcessBufMoved
  <2>4. CASE \E ok \in BOOLEAN : CopyBody(ok)
    BY <2>4, CopyBodyMoved
  <2>5. CASE \E n \in 0..pw.body : do_write_buf(n)
    BY <2>5, do_write_bufMoved
  <2>6. CASE \E len \in 1..MaxPages, avail \in 0..MaxPages : Handler(len, avail)
    BY <2>6, HandlerMoved
  <2>7. CASE \E res \in {"ok", "fails", "short"}, sp \in {"ok", "no_pipe", "no_grow"} : Vmsplice(res, sp)
    BY <2>7, VmspliceMoved
  <2>8. CASE \E res \in {"ok", "EAGAIN", "EINVAL", "error"}, n \in 0..MaxPages : CopyToPipe(res, n)
    BY <2>8, CopyToPipeMoved
  <2>9. CASE \E res \in {"ok", "no_memory"}, m \in 0..MaxPages : CopyMore(res, m)
    BY <2>9, CopyMoreMoved
  <2>10. CASE \E res \in {"ok", "no_memory", "fails"} : ReadBack(res)
    BY <2>10, ReadBackMoved
  <2>11. CASE \E ok \in BOOLEAN : WriteAnswer(ok)
    BY <2>11, WriteAnswerMoved
  <2>12. CASE \E ok \in BOOLEAN : SpliceAnswer(ok)
    BY <2>12, SpliceAnswerMoved
  <2>13. CASE \E res \in {"ok", "error", "fails"} : Fallback(res)
    BY <2>13, FallbackMoved
  <2>14. CASE NextJob
    BY <2>14, NextJobMoved
  <2>15. CASE LoopEnds \/ fuse_ll_pipe_free
    BY <2>15, EndMoved
  <2>16. CASE UNCHANGED pw
    BY <2>16
  <2> QED
    BY <2>1, <2>2, <2>3, <2>4, <2>5, <2>6, <2>7, <2>8, <2>9, <2>10, <2>11, <2>12, <2>13, <2>14, <2>15, <2>16
       DEF PipeNext
<1>3. Moved(pw) => PipeInv
  BY MovedRight
<1> QED
  BY <1>1, <1>2, <1>3, PTL DEF PipeSpec

-----------------------------------------------------------------------------
(* The hash tables of the nodes.                                            *)

\* Division with remainder.
LEMMA ModDef ==
    ASSUME NEW a \in Nat, NEW n \in Nat \ {0}
    PROVE  a % n \in 0..(n - 1) /\ a \div n \in Nat /\ a = (a \div n) * n + (a % n)
  BY SMT

\* The remainder by twice a number determines the one by the number.
LEMMA ModHalf ==
    ASSUME NEW h \in Nat \ {0}, NEW x \in 0..(2 * h - 1)
    PROVE  x % h = IF x < h THEN x ELSE x - h
  BY SMT

\* The remainder is the only one.
LEMMA Unique ==
    ASSUME NEW n \in Nat \ {0}, NEW q \in Int, NEW p \in Int,
           NEW r \in 0..(n - 1), NEW s \in 0..(n - 1), q * n + r = p * n + s
    PROVE  r = s
<1>1. (q - p) * n = s - r
  BY SMT
<1>2. CASE q - p >= 1
  <2>1. (q - p) * n >= n
    BY <1>2, SMT
  <2> QED
    BY <1>1, <2>1
<1>3. CASE q - p <= -1
  <2>1. (q - p) * n <= -n
    BY <1>3, SMT
  <2> QED
    BY <1>1, <2>1
<1>4. CASE q - p = 0
  <2>1. (q - p) * n = 0
    BY <1>4, SMT
  <2> QED
    BY <1>1, <2>1
<1> QED
  BY <1>2, <1>3, <1>4

\* The two chains a bucket is split into, and the step of the loop for one node.
Chains == [stay : Seq(Key), moved : Seq(Key)]
NoChains == [stay |-> <<>>, moved |-> <<>>]
WalkStep(t, hash, v, k) ==
    IF id_hash(t, k) # hash
    THEN [stay |-> v.stay, moved |-> <<k>> \o v.moved]
    ELSE [stay |-> Append(v.stay, k), moved |-> v.moved]

\* One step of the loop keeps two lists of nodes.
LEMMA WalkStepType ==
    ASSUME NEW t, NEW hash, NEW v \in Chains, NEW k \in Key
    PROVE  WalkStep(t, hash, v, k) \in Chains
<1>1. /\ v.stay \in Seq(Key) /\ v.moved \in Seq(Key)
      /\ Append(v.stay, k) \in Seq(Key) /\ <<k>> \o v.moved \in Seq(Key)
  BY DEF Chains
<1> QED
  BY <1>1 DEF Chains, WalkStep

\* w holds the two chains after each step of the loop.
Walks(w, t, hash, chain) ==
    /\ w \in [0..Len(chain) -> Chains] /\ w[0] = NoChains
    /\ \A i \in 1..Len(chain) : w[i] = WalkStep(t, hash, w[i - 1], chain[i])

\* The loop exists: its first value, its steps and its end.
LEMMA WalkRuns ==
    ASSUME NEW t, NEW hash, NEW upper, NEW chain \in Seq(Key), chain = t.array[hash],
           t.array[upper] = <<>>
    PROVE  \E w : Walks(w, t, hash, chain) /\ SplitChain(t, hash, upper) = w[Len(chain)]
<1>1. PICK L \in Nat : L = Len(chain)
  OBVIOUS
<1>2. \A i \in 1..L : chain[i] \in Key
  BY <1>1
<1> DEFINE step == [p \in Nat \X Chains |->
                      IF p[1] \in 1..L THEN WalkStep(t, hash, p[2], chain[p[1]]) ELSE p[2]]
<1>3. NoChains \in Chains
  BY DEF NoChains, Chains
<1>4. step \in [Nat \X Chains -> Chains]
  <2>1. ASSUME NEW p \in Nat \X Chains
        PROVE  (IF p[1] \in 1..L THEN WalkStep(t, hash, p[2], chain[p[1]]) ELSE p[2]) \in Chains
    BY <1>2, WalkStepType
  <2> QED
    BY <2>1
<1>5. PICK g : Runs(g, Chains, NoChains, step, L)
  <2> HIDE DEF step
  <2> QED
    BY <1>1, <1>3, <1>4, RunsExist
<1>6. g \in [0..L -> Chains] /\ g[0] = NoChains
  BY <1>5 DEF Runs
<1>7. \A i \in 1..L : g[i] = WalkStep(t, hash, g[i - 1], chain[i])
  <2>1. SUFFICES ASSUME NEW i \in 1..L
                 PROVE  g[i] = WalkStep(t, hash, g[i - 1], chain[i])
    OBVIOUS
  <2>2. i \in Nat /\ i - 1 \in 0..L
    BY <1>1
  <2>3. g[i - 1] \in Chains
    BY <1>6, <2>2
  <2>4. g[i] = step[<<i, g[i - 1]>>]
    <3> HIDE DEF step
    <3> QED
      BY <1>5 DEF Runs
  <2> QED
    BY <2>2, <2>3, <2>4
<1> HIDE DEF step
<1> DEFINE body(f) == [i \in 0..Len(t.array[hash]) |->
              IF i = 0 THEN [stay |-> <<>>, moved |-> t.array[upper]]
              ELSE IF id_hash(t, t.array[hash][i]) # hash
              THEN [stay |-> f[i - 1].stay, moved |-> <<t.array[hash][i]>> \o f[i - 1].moved]
              ELSE [stay |-> Append(f[i - 1].stay, t.array[hash][i]), moved |-> f[i - 1].moved]]
<1>8. ASSUME NEW f
      PROVE  /\ body(f)[0] = NoChains
             /\ \A i \in 1..L : body(f)[i] = WalkStep(t, hash, f[i - 1], chain[i])
             /\ body(f) = [i \in 0..L |-> body(f)[i]]
  <2>1. body(f)[0] = NoChains
    BY <1>1 DEF NoChains
  <2>2. \A i \in 1..L : body(f)[i] = WalkStep(t, hash, f[i - 1], chain[i])
    BY <1>1 DEF WalkStep
  <2> QED
    BY <2>1, <2>2, <1>1
<1>9. g = body(g)
  <2> HIDE DEF body
  <2>1. \A i \in 0..L : i = 0 \/ i \in 1..L
    BY <1>1
  <2>2. \A i \in 0..L : g[i] = body(g)[i]
    BY <2>1, <1>6, <1>7, <1>8
  <2>3. g = [i \in 0..L |-> g[i]] /\ body(g) = [i \in 0..L |-> body(g)[i]]
    BY <1>6, <1>8
  <2> QED
    BY <2>2, <2>3
<1> DEFINE walk == CHOOSE f : f = body(f)
<1>10. walk = body(walk)
  BY <1>9, Zenon
<1>11. SplitChain(t, hash, upper) = walk[L]
  BY <1>1 DEF SplitChain
<1> HIDE DEF walk, body
<1>12. /\ walk[0] = NoChains
       /\ \A i \in 1..L : walk[i] = WalkStep(t, hash, walk[i - 1], chain[i])
       /\ walk = [i \in 0..L |-> walk[i]]
  BY <1>8, <1>10, Zenon
<1>13. L \in {i \in Nat : i <= L => \A j \in 0..i : walk[j] \in Chains}
  <2> DEFINE P == {i \in Nat : i <= L => \A j \in 0..i : walk[j] \in Chains}
  <2>1. 0 \in P
    BY <1>12, <1>3
  <2>2. ASSUME NEW i \in P
        PROVE  i + 1 \in P
    <3>1. SUFFICES ASSUME i + 1 <= L
                   PROVE  \A j \in 0..(i + 1) : walk[j] \in Chains
      OBVIOUS
    <3>2. i \in Nat /\ i <= L /\ i + 1 \in 1..L /\ (i + 1) - 1 = i
      BY <3>1, <1>1
    <3>3. \A j \in 0..i : walk[j] \in Chains
      BY <3>2
    <3>4. walk[i + 1] = WalkStep(t, hash, walk[i], chain[i + 1])
      BY <3>2, <1>12
    <3>5. walk[i + 1] \in Chains
      BY <3>2, <3>3, <3>4, <1>2, WalkStepType
    <3>6. \A j \in 0..(i + 1) : j = i + 1 \/ j \in 0..i
      BY <3>2
    <3> QED
      BY <3>3, <3>5, <3>6
  <2> HIDE DEF P
  <2>3. P \in SUBSET Nat
    BY DEF P
  <2>4. P = Nat
    BY <2>1, <2>2, <2>3, AllNaturals
  <2> QED
    BY <2>4, <1>1 DEF P
<1>14. walk \in [0..L -> Chains]
  <2>1. \A j \in 0..L : walk[j] \in Chains
    BY <1>13, <1>1
  <2> QED
    BY <2>1, <1>12
<1>15. Walks(walk, t, hash, chain)
  BY <1>1, <1>12, <1>14 DEF Walks
<1> QED
  BY <1>1, <1>11, <1>15

\* What the loop makes of a bucket: every node is in one of the two chains, once.
LEMMA WalkSplits ==
    ASSUME NEW t, NEW hash, NEW upper, t.array[hash] \in Seq(Key), IsInjective(t.array[hash]),
           t.array[upper] = <<>>
    PROVE  /\ SplitChain(t, hash, upper).stay \in Seq(Key) /\ IsInjective(SplitChain(t, hash, upper).stay)
           /\ SplitChain(t, hash, upper).moved \in Seq(Key) /\ IsInjective(SplitChain(t, hash, upper).moved)
           /\ ToSet(SplitChain(t, hash, upper).stay) = {k \in ToSet(t.array[hash]) : id_hash(t, k) = hash}
           /\ ToSet(SplitChain(t, hash, upper).moved) = {k \in ToSet(t.array[hash]) : id_hash(t, k) # hash}
<1>1. PICK chain \in Seq(Key) : chain = t.array[hash]
  OBVIOUS
<1>2. PICK L \in Nat : L = Len(chain)
  OBVIOUS
<1>3. PICK w : /\ w \in [0..L -> Chains] /\ w[0] = NoChains
               /\ \A i \in 1..L : w[i] = WalkStep(t, hash, w[i - 1], chain[i])
               /\ SplitChain(t, hash, upper) = w[L]
  <2>1. PICK w : Walks(w, t, hash, chain) /\ SplitChain(t, hash, upper) = w[Len(chain)]
    BY <1>1, WalkRuns
  <2> QED
    BY <1>2, <2>1 DEF Walks
<1> DEFINE Done(i) == {chain[j] : j \in 1..i}
           Right(i) == /\ IsInjective(w[i].stay) /\ IsInjective(w[i].moved)
                       /\ ToSet(w[i].stay) = {k \in Done(i) : id_hash(t, k) = hash}
                       /\ ToSet(w[i].moved) = {k \in Done(i) : id_hash(t, k) # hash}
           P == {i \in Nat : i <= L => Right(i)}
<1>4. 0 \in P
  <2>1. w[0].stay = <<>> /\ w[0].moved = <<>>
    BY <1>3 DEF NoChains
  <2>2. IsInjective(<<>>) /\ ToSet(<<>>) = {} /\ Done(0) = {}
    BY DEF IsInjective, ToSet
  <2> QED
    BY <2>1, <2>2
<1>5. ASSUME NEW i \in P
      PROVE  i + 1 \in P
  <2>1. SUFFICES ASSUME i + 1 <= L
                 PROVE  Right(i + 1)
    OBVIOUS
  <2>2. i \in Nat /\ i + 1 \in 1..L /\ i \in 0..L /\ i <= L /\ (i + 1) - 1 = i
    BY <1>2, <2>1
  <2>3. PICK k \in Key : k = chain[i + 1]
    BY <1>2, <2>2
  <2>4. w[i] \in Chains /\ w[i + 1] = WalkStep(t, hash, w[i], k)
    BY <1>3, <2>2, <2>3
  <2>5. PICK s \in Seq(Key), m \in Seq(Key) : w[i].stay = s /\ w[i].moved = m
    BY <2>4 DEF Chains
  <2>6. /\ IsInjective(s) /\ IsInjective(m)
        /\ ToSet(s) = {j \in Done(i) : id_hash(t, j) = hash}
        /\ ToSet(m) = {j \in Done(i) : id_hash(t, j) # hash}
    BY <2>2, <2>5
  <2>7. Done(i + 1) = Done(i) \cup {k}
    <3>1. 1..(i + 1) = (1..i) \cup {i + 1}
      BY <2>2
    <3> QED
      BY <3>1, <2>3
  <2>8. k \notin Done(i)
    BY <1>1, <1>2, <2>2, <2>3 DEF IsInjective
  <2> HIDE DEF Done
  <2>9. CASE id_hash(t, k) # hash
    <3>1. w[i + 1].stay = s /\ w[i + 1].moved = <<k>> \o m
      BY <2>4, <2>5, <2>9 DEF WalkStep
    <3>2. k \notin ToSet(m)
      BY <2>6, <2>8
    <3>3. ToSet(<<k>> \o m) = ToSet(m) \cup {k} /\ IsInjective(<<k>> \o m)
      BY <2>6, <3>2, ConsElement
    <3> QED
      BY <2>6, <2>7, <2>9, <3>1, <3>3
  <2>10. CASE id_hash(t, k) = hash
    <3>1. w[i + 1].stay = Append(s, k) /\ w[i + 1].moved = m
      BY <2>4, <2>5, <2>10 DEF WalkStep
    <3>2. k \notin ToSet(s)
      BY <2>6, <2>8
    <3>3. ToSet(Append(s, k)) = ToSet(s) \cup {k} /\ IsInjective(Append(s, k))
      BY <2>6, <3>2, AppendElement
    <3> QED
      BY <2>6, <2>7, <2>10, <3>1, <3>3
  <2> QED
    BY <2>9, <2>10
<1>6. Right(L)
  <2> HIDE DEF Right
  <2>1. P \in SUBSET Nat
    OBVIOUS
  <2> HIDE DEF P
  <2>2. P = Nat
    BY <1>4, <1>5, <2>1, AllNaturals
  <2> QED
    BY <2>2, <1>2 DEF P
<1>7. Done(L) = ToSet(chain)
  BY <1>2 DEF ToSet
<1>8. L \in 0..L /\ w[L] \in Chains
  BY <1>2, <1>3
<1> QED
  BY <1>1, <1>3, <1>6, <1>7, <1>8 DEF Chains

\* The sizes a table can have: the least one, doubled so many times.
Doubled(s) ==
    \E n \in Nat : \E f \in [0..n -> Nat \ {0}] :
       f[0] = NODE_TABLE_MIN_SIZE /\ (\A i \in 1..n : f[i] = 2 * f[i - 1]) /\ f[n] = s

\* The least size is one of the sizes.
LEMMA DoubledMin == Doubled(NODE_TABLE_MIN_SIZE)
<1> DEFINE f == [i \in 0..0 |-> NODE_TABLE_MIN_SIZE]
<1>1. f \in [0..0 -> Nat \ {0}] /\ f[0] = NODE_TABLE_MIN_SIZE /\ \A i \in 1..0 : f[i] = 2 * f[i - 1]
  BY TableAssumption
<1> QED
  BY <1>1 DEF Doubled

\* Every size is even, and half of one that may shrink is a size.
LEMMA DoubledEven ==
    ASSUME NEW s, Doubled(s)
    PROVE  /\ s \in Nat \ {0} /\ s \div 2 \in Nat \ {0} /\ s = 2 * (s \div 2)
           /\ s \div 2 >= NODE_TABLE_MIN_SIZE => Doubled(s \div 2)
<1>0. PICK n \in Nat : \E f \in [0..n -> Nat \ {0}] :
         f[0] = NODE_TABLE_MIN_SIZE /\ (\A i \in 1..n : f[i] = 2 * f[i - 1]) /\ f[n] = s
  BY DEF Doubled
<1>1. PICK f \in [0..n -> Nat \ {0}] :
         f[0] = NODE_TABLE_MIN_SIZE /\ (\A i \in 1..n : f[i] = 2 * f[i - 1]) /\ f[n] = s
  BY <1>0
<1>2. CASE n = 0
  <2>1. s = NODE_TABLE_MIN_SIZE
    BY <1>1, <1>2
  <2> QED
    BY <2>1, TableAssumption
<1>3. CASE n # 0
  <2>1. PICK m \in Nat : m = n - 1 /\ m \in 0..n /\ n \in 1..n
    BY <1>3
  <2>2. PICK r \in Nat \ {0} : r = f[m] /\ s = 2 * r
    BY <1>1, <2>1
  <2>3. s \div 2 = r
    BY <2>2
  <2> DEFINE g == [i \in 0..m |-> f[i]]
  <2>4. 0..m \subseteq 0..n /\ 1..m \subseteq 1..n /\ \A i \in 1..m : i - 1 \in 0..m
    BY <2>1
  <2>5. g \in [0..m -> Nat \ {0}] /\ g[0] = NODE_TABLE_MIN_SIZE /\ g[m] = r
    BY <1>1, <2>1, <2>2, <2>4
  <2>6. \A i \in 1..m : g[i] = 2 * g[i - 1]
    <3>1. SUFFICES ASSUME NEW i \in 1..m
                   PROVE  g[i] = 2 * g[i - 1]
      OBVIOUS
    <3>2. i \in 0..m /\ i - 1 \in 0..m /\ i \in 1..n
      BY <2>1, <2>4
    <3>3. f[i] = 2 * f[i - 1]
      BY <1>1, <3>2
    <3> QED
      BY <3>2, <3>3
  <2>7. Doubled(r)
    <3> HIDE DEF g
    <3> QED
      BY <2>1, <2>5, <2>6 DEF Doubled
  <2> QED
    BY <2>2, <2>3, <2>7
<1> QED
  BY <1>2, <1>3

\* Twice a size is a size.
LEMMA DoubledUp ==
    ASSUME NEW s, Doubled(s)
    PROVE  Doubled(2 * s)
<1>0. PICK n \in Nat : \E f \in [0..n -> Nat \ {0}] :
         f[0] = NODE_TABLE_MIN_SIZE /\ (\A i \in 1..n : f[i] = 2 * f[i - 1]) /\ f[n] = s
  BY DEF Doubled
<1>1. PICK f \in [0..n -> Nat \ {0}] :
         f[0] = NODE_TABLE_MIN_SIZE /\ (\A i \in 1..n : f[i] = 2 * f[i - 1]) /\ f[n] = s
  BY <1>0
<1>2. PICK m \in Nat : m = n + 1
  OBVIOUS
<1> DEFINE g == [i \in 0..m |-> IF i = m THEN 2 * s ELSE f[i]]
<1>3. s \in Nat \ {0} /\ 2 * s \in Nat \ {0}
  BY <1>1
<1>4. \A i \in 0..m : i = m \/ (i # m /\ i \in 0..n)
  BY <1>2
<1>5. g \in [0..m -> Nat \ {0}]
  BY <1>3, <1>4
<1>6. g[0] = NODE_TABLE_MIN_SIZE /\ g[m] = 2 * s
  BY <1>1, <1>2
<1>7. \A i \in 1..m : g[i] = 2 * g[i - 1]
  <2>1. SUFFICES ASSUME NEW i \in 1..m
                 PROVE  g[i] = 2 * g[i - 1]
    OBVIOUS
  <2>2. i - 1 \in 0..m /\ i - 1 # m /\ i \in 0..m
    BY <1>2
  <2>3. g[i - 1] = f[i - 1]
    BY <2>2
  <2>4. CASE i = m
    <3>1. i - 1 = n
      BY <1>2, <2>4
    <3> QED
      BY <2>2, <2>3, <2>4, <3>1, <1>1
  <2>5. CASE i # m
    <3>1. i \in 1..n
      BY <1>2, <2>5
    <3> QED
      BY <2>2, <2>3, <2>5, <3>1, <1>1
  <2> QED
    BY <2>4, <2>5
<1> HIDE DEF g
<1> QED
  BY <1>5, <1>6, <1>7 DEF Doubled

\* The hash cut to a table and to half of it.
LEMMA TwoHashes ==
    ASSUME NEW a \in Nat, NEW half \in Nat \ {0}
    PROVE  /\ a % half \in 0..(half - 1)
           /\ a % (2 * half) \in {a % half, (a % half) + half}
           /\ (a % (2 * half)) % half = a % half
<1>1. PICK r \in 0..(half - 1), q \in Nat : r = a % half /\ a = q * half + r
  BY ModDef
<1>2. PICK w \in Nat : w = 2 * half /\ w # 0
  OBVIOUS
<1>3. PICK b \in 0..(w - 1), p \in Nat : b = a % w /\ a = p * w + b
  <2>1. w \in Nat \ {0}
    BY <1>2
  <2>2. a % w \in 0..(w - 1) /\ a \div w \in Nat /\ a = (a \div w) * w + (a % w)
    BY <2>1, ModDef
  <2> QED
    BY <2>2
<1>4. b % half = IF b < half THEN b ELSE b - half
  BY <1>2, ModHalf
<1>5. b \in {r, r + half}
  <2>1. CASE b < half
    <3>1. p * w = (2 * p) * half
      BY <1>2
    <3>2. (2 * p) * half + b = q * half + r
      BY <1>1, <1>3, <3>1
    <3>3. 2 * p \in Int /\ b \in 0..(half - 1)
      BY <2>1, <1>2
    <3> QED
      BY <3>2, <3>3, Unique
  <2>2. CASE ~(b < half)
    <3>1. PICK c \in 0..(half - 1) : b = c + half
      BY <2>2, <1>2
    <3>2. p * w + half = (2 * p + 1) * half
      BY <1>2
    <3>3. (2 * p + 1) * half + c = q * half + r
      <4>1. PICK x \in Int, y \in Int, z \in Int : x = p * w /\ y = (2 * p + 1) * half /\ z = q * half
        BY <1>2
      <4>2. a = x + b /\ a = z + r /\ b = c + half /\ x + half = y
        BY <1>1, <1>3, <3>1, <3>2, <4>1
      <4>3. y + c = z + r
        BY <4>2
      <4> QED
        BY <4>1, <4>3
    <3>4. 2 * p + 1 \in Int
      OBVIOUS
    <3> QED
      BY <3>1, <3>3, <3>4, Unique
  <2> QED
    BY <2>1, <2>2
<1>6. (b < half => r = b) /\ (~(b < half) => r = b - half)
  BY <1>5, <1>2
<1> QED
  BY <1>1, <1>2, <1>3, <1>4, <1>5, <1>6

\* id_hash and name_hash, in a table of twice half, split up to split.
Bucket(k, half, split) ==
    IF HashOf[k] % half >= split THEN HashOf[k] % half ELSE HashOf[k] % (2 * half)

\* id_hash is the bucket of the hash.
LEMMA id_hashIs ==
    ASSUME NEW t, NEW k \in Key, NEW half \in Nat \ {0}, t.size = 2 * half
    PROVE  id_hash(t, k) = Bucket(k, half, t.split)
<1>1. HashOf[k] \in Nat
  BY TableAssumption
<1>2. PICK r, b : r = HashOf[k] % half /\ b = HashOf[k] % (2 * half) /\ b % half = r
  BY <1>1, TwoHashes
<1>3. t.size \div 2 = half
  OBVIOUS
<1> QED
  BY <1>2, <1>3 DEF id_hash, Bucket

\* What a bucket can be: that of half the hash below half, or the one above it.
LEMMA BucketIs ==
    ASSUME NEW k \in Key, NEW half \in Nat \ {0}
    PROVE  \E r \in 0..(half - 1) : \E b \in {r, r + half} :
              /\ r = HashOf[k] % half /\ b = HashOf[k] % (2 * half)
              /\ \A split \in Nat : Bucket(k, half, split) = IF r >= split THEN r ELSE b
<1>1. HashOf[k] \in Nat
  BY TableAssumption
<1>2. PICK r \in 0..(half - 1), b \in {HashOf[k] % (2 * half)} : r = HashOf[k] % half /\ b = HashOf[k] % (2 * half) /\ b \in {r, r + half}
  BY <1>1, TwoHashes
<1> QED
  BY <1>2 DEF Bucket

\* A table of twice half buckets a, split up to split, that holds the keys ks: its chains

\* are those of their hashes, and the buckets above split are empty.
Holds(a, half, split, ks) ==
    /\ half \in Nat \ {0} /\ Doubled(2 * half) /\ split \in 0..half
    /\ a \in [0..(2 * half - 1) -> Seq(Key)]
    /\ \A h \in (split + half)..(2 * half - 1) : a[h] = <<>>
    /\ \A h \in 0..(2 * half - 1) :
          IsInjective(a[h]) /\ ToSet(a[h]) = {k \in ks : Bucket(k, half, split) = h}

\* A table, and the chains of it with two of them replaced.
Table(a, use, size, split) == [array |-> a, use |-> use, size |-> size, split |-> split]
Replaced(a, g, x, h, y) == [a EXCEPT ![g] = x, ![h] = y]

TableHolds(t, ks) ==
    /\ t.use \in Int /\ Holds(t.array, t.size \div 2, t.split, ks)
    /\ t = [array |-> t.array, use |-> t.use, size |-> 2 * (t.size \div 2), split |-> t.split]

\* The inductive invariant: TableFindsAll and TableShape, with the types.
TableInv ==
    /\ hashed \subseteq Key /\ IsFiniteSet(hashed) /\ tbl.use = Cardinality(hashed)
    /\ TableHolds(tbl, hashed)

\* A table made of such chains.
LEMMA TableOf ==
    ASSUME NEW a, NEW use \in Int, NEW half \in Nat, NEW split, NEW ks, Holds(a, half, split, ks)
    PROVE  TableHolds([array |-> a, use |-> use, size |-> 2 * half, split |-> split], ks)
<1>1. (2 * half) \div 2 = half
  OBVIOUS
<1> QED
  BY <1>1 DEF TableHolds

\* The bucket of a node is below those not yet split into.
LEMMA BucketInRange ==
    ASSUME NEW half \in Nat \ {0}, NEW split \in 0..half, NEW k \in Key
    PROVE  Bucket(k, half, split) \in 0..(split + half - 1)
<1>1. PICK r \in 0..(half - 1) : \E b \in {r, r + half} : Bucket(k, half, split) = IF r >= split THEN r ELSE b
  BY BucketIs
<1> QED
  BY <1>1

\* The invariant gives what the table promises.
LEMMA TableInvRight ==
    ASSUME TableInv
    PROVE  TableRight
<1>0. PICK half \in Nat \ {0} : half = tbl.size \div 2 /\ tbl.size = 2 * half
  BY DEF TableInv, TableHolds, Holds
<1>1. PICK split \in 0..half, a \in [0..(2 * half - 1) -> Seq(Key)] :
         a = tbl.array /\ split = tbl.split /\ Holds(a, half, split, hashed)
  BY <1>0 DEF TableInv, TableHolds, Holds
<1>2. DOMAIN a = 0..(2 * half - 1)
  OBVIOUS
<1>3. TableShape
  BY <1>0, <1>1, <1>2 DEF Holds, TableShape
<1>4. ASSUME NEW k \in hashed
      PROVE  id_hash(tbl, k) = Bucket(k, half, split)
  BY <1>0, <1>1, id_hashIs DEF TableInv
<1>5. ASSUME NEW h \in DOMAIN a
      PROVE  /\ IsInjective(a[h])
             /\ \A i \in DOMAIN a[h] : a[h][i] \in hashed /\ id_hash(tbl, a[h][i]) = h
  <2>1. IsInjective(a[h]) /\ ToSet(a[h]) = {k \in hashed : Bucket(k, half, split) = h}
    BY <1>1, <1>2 DEF Holds
  <2>2. \A i \in DOMAIN a[h] : a[h][i] \in ToSet(a[h])
    BY DEF ToSet
  <2> QED
    BY <2>1, <2>2, <1>4
<1>6. ASSUME NEW k \in hashed
      PROVE  Contains(a[id_hash(tbl, k)], k)
  <2>1. PICK h : h = Bucket(k, half, split)
    OBVIOUS
  <2>2. h \in 0..(2 * half - 1)
    <3>1. h \in 0..(split + half - 1)
      BY <2>1, BucketInRange DEF TableInv
    <3> QED
      BY <3>1
  <2>3. k \in ToSet(a[h]) /\ a[h] \in Seq(Key)
    BY <1>1, <2>1, <2>2 DEF Holds
  <2>4. Contains(a[h], k)
    BY <2>3, ContainsIsToSet
  <2> QED
    BY <1>4, <2>1, <2>4
<1>7. TableFindsAll
  BY <1>1, <1>5, <1>6 DEF TableInv, TableFindsAll
<1> QED
  BY <1>3, <1>7 DEF TableRight

\* node_table_init.
LEMMA TableInitInv ==
    ASSUME TableInit
    PROVE  TableInv
<1>1. PICK half \in Nat \ {0} : NODE_TABLE_MIN_SIZE = 2 * half
  BY DoubledMin, DoubledEven
<1>2. PICK a : a = [h \in 0..(2 * half - 1) |-> <<>>]
  OBVIOUS
<1>3. tbl = [array |-> a, use |-> 0, size |-> 2 * half, split |-> 0] /\ hashed = {}
  BY <1>1, <1>2 DEF TableInit
<1>4. IsInjective(<<>>) /\ ToSet(<<>>) = {}
  BY DEF IsInjective, ToSet
<1>5. a \in [0..(2 * half - 1) -> Seq(Key)] /\ \A h \in 0..(2 * half - 1) : a[h] = <<>>
  BY <1>2
<1>6. Holds(a, half, 0, {})
  BY <1>1, <1>4, <1>5, DoubledMin DEF Holds
<1>7. TableHolds(tbl, {})
  BY <1>3, <1>6, TableOf
<1> QED
  BY <1>3, <1>7, FS_EmptySet DEF TableInv

\* A node is put in front of its chain.
LEMMA PutHolds ==
    ASSUME NEW ks \in SUBSET Key, NEW half, NEW split, NEW a, Holds(a, half, split, ks),
           NEW k \in Key \ ks, NEW g, g = Bucket(k, half, split)
    PROVE  g \in DOMAIN a /\ Holds([a EXCEPT ![g] = <<k>> \o @], half, split, ks \cup {k})
<1>0. half \in Nat \ {0} /\ split \in 0..half /\ a \in [0..(2 * half - 1) -> Seq(Key)]
  BY DEF Holds
<1>1. g \in 0..(split + half - 1) /\ g \in 0..(2 * half - 1)
  <2>1. g \in 0..(split + half - 1)
    BY <1>0, BucketInRange
  <2> QED
    BY <1>0, <2>1
<1>2. PICK c \in Seq(Key) : c = a[g] /\ IsInjective(c) /\ ToSet(c) = {j \in ks : Bucket(j, half, split) = g}
  BY <1>1 DEF Holds
<1>3. /\ <<k>> \o c \in Seq(Key) /\ ToSet(<<k>> \o c) = ToSet(c) \cup {k}
      /\ IsInjective(<<k>> \o c)
  BY <1>2, ConsElement
<1>4. PICK d : d = [a EXCEPT ![g] = <<k>> \o @]
  OBVIOUS
<1>41. d[g] = <<k>> \o c /\ \A h \in 0..(2 * half - 1) : h # g => d[h] = a[h]
  BY <1>0, <1>1, <1>2, <1>4
<1>42. d \in [0..(2 * half - 1) -> Seq(Key)]
  <2>1. \A h \in 0..(2 * half - 1) : d[h] \in Seq(Key)
    BY <1>0, <1>3, <1>41
  <2> QED
    BY <1>0, <1>4, <2>1
<1>5. \A h \in (split + half)..(2 * half - 1) : d[h] = <<>>
  <2>1. SUFFICES ASSUME NEW h \in (split + half)..(2 * half - 1)
                 PROVE  d[h] = <<>>
    OBVIOUS
  <2>2. h # g /\ h \in 0..(2 * half - 1)
    BY <1>0, <1>1
  <2>3. a[h] = <<>>
    BY DEF Holds
  <2> QED
    BY <1>41, <2>2, <2>3
<1>6. ASSUME NEW h \in 0..(2 * half - 1)
      PROVE  IsInjective(d[h]) /\ ToSet(d[h]) = {j \in ks \cup {k} : Bucket(j, half, split) = h}
  <2>1. CASE h = g
    BY <1>0, <1>1, <1>2, <1>3, <1>41, <2>1
  <2>2. CASE h # g
    <3>1. IsInjective(a[h]) /\ ToSet(a[h]) = {j \in ks : Bucket(j, half, split) = h}
      BY DEF Holds
    <3> QED
      BY <1>41, <2>2, <3>1
  <2> QED
    BY <2>1, <2>2
<1> QED
  BY <1>0, <1>1, <1>2, <1>4, <1>42, <1>5, <1>6 DEF Holds

\* A node is taken out of its chain, where it is.
LEMMA TakeHolds ==
    ASSUME NEW ks \in SUBSET Key, NEW half, NEW split, NEW a, Holds(a, half, split, ks),
           NEW k \in ks, NEW g, g = Bucket(k, half, split)
    PROVE  /\ g \in DOMAIN a /\ Contains(a[g], k)
           /\ Holds([a EXCEPT ![g] = RemoveFirst(@, k)], half, split, ks \ {k})
<1>0. half \in Nat \ {0} /\ split \in 0..half /\ a \in [0..(2 * half - 1) -> Seq(Key)]
  BY DEF Holds
<1>1. g \in 0..(split + half - 1) /\ g \in 0..(2 * half - 1)
  <2>1. g \in 0..(split + half - 1)
    BY <1>0, BucketInRange
  <2> QED
    BY <1>0, <2>1
<1>2. PICK c \in Seq(Key) : c = a[g] /\ IsInjective(c) /\ ToSet(c) = {j \in ks : Bucket(j, half, split) = g}
  BY <1>1 DEF Holds
<1>3. PICK e \in Seq(Key) : e = RemoveFirst(c, k) /\ ToSet(e) = ToSet(c) \ {k} /\ IsInjective(e)
  BY <1>2, UnlinkElement
<1>4. PICK d : d = [a EXCEPT ![g] = RemoveFirst(@, k)]
  OBVIOUS
<1>41. d[g] = e /\ \A h \in 0..(2 * half - 1) : h # g => d[h] = a[h]
  BY <1>0, <1>1, <1>2, <1>3, <1>4
<1>42. d \in [0..(2 * half - 1) -> Seq(Key)]
  <2>1. \A h \in 0..(2 * half - 1) : d[h] \in Seq(Key)
    BY <1>0, <1>3, <1>41
  <2> QED
    BY <1>0, <1>4, <2>1
<1>5. \A h \in (split + half)..(2 * half - 1) : d[h] = <<>>
  <2>1. SUFFICES ASSUME NEW h \in (split + half)..(2 * half - 1)
                 PROVE  d[h] = <<>>
    OBVIOUS
  <2>2. h # g /\ h \in 0..(2 * half - 1)
    BY <1>0, <1>1
  <2>3. a[h] = <<>>
    BY DEF Holds
  <2> QED
    BY <1>41, <2>2, <2>3
<1>6. ASSUME NEW h \in 0..(2 * half - 1)
      PROVE  IsInjective(d[h]) /\ ToSet(d[h]) = {j \in ks \ {k} : Bucket(j, half, split) = h}
  <2>1. CASE h = g
    BY <1>0, <1>1, <1>2, <1>3, <1>41, <2>1
  <2>2. CASE h # g
    <3>1. IsInjective(a[h]) /\ ToSet(a[h]) = {j \in ks : Bucket(j, half, split) = h}
      BY DEF Holds
    <3> QED
      BY <1>41, <2>2, <3>1
  <2> QED
    BY <2>1, <2>2
<1>7. k \in ToSet(c)
  BY <1>2
<1>8. Contains(c, k)
  BY <1>7, ContainsIsToSet
<1> QED
  BY <1>0, <1>1, <1>2, <1>4, <1>42, <1>5, <1>6, <1>8 DEF Holds

\* node_table_reduce, of a table none of whose buckets is split.
LEMMA ReduceHolds ==
    ASSUME NEW ks \in SUBSET Key, NEW half, NEW a, Holds(a, half, 0, ks), half >= NODE_TABLE_MIN_SIZE
    PROVE  /\ half \div 2 \in Nat \ {0} /\ half = 2 * (half \div 2)
           /\ Holds([h \in 0..(half - 1) |-> a[h]], half \div 2, half \div 2, ks)
<1>1. half \in Nat \ {0} /\ a \in [0..(2 * half - 1) -> Seq(Key)] /\ Doubled(2 * half)
  BY DEF Holds
<1>2. (2 * half) \div 2 = half
  BY <1>1
<1>3. Doubled(half)
  BY <1>1, <1>2, DoubledEven
<1>4. PICK q \in Nat \ {0} : q = half \div 2 /\ half = 2 * q
  BY <1>3, DoubledEven
<1>5. PICK d : d = [h \in 0..(2 * q - 1) |-> a[h]]
  OBVIOUS
<1>6. 0..(2 * q - 1) \subseteq 0..(2 * half - 1) /\ \A h \in 0..(2 * q - 1) : d[h] = a[h]
  BY <1>4, <1>5
<1>7. d \in [0..(2 * q - 1) -> Seq(Key)]
  BY <1>1, <1>5, <1>6
<1>8. ASSUME NEW k \in Key
      PROVE  Bucket(k, half, 0) = Bucket(k, q, q)
  <2>1. HashOf[k] % q \in 0..(q - 1)
    BY TwoHashes, TableAssumption
  <2>2. Bucket(k, q, q) = HashOf[k] % half
    BY <1>4, <2>1 DEF Bucket
  <2>3. PICK r \in 0..(half - 1) : r = HashOf[k] % half
    BY <1>1, TwoHashes, TableAssumption
  <2> QED
    BY <2>2, <2>3 DEF Bucket
<1>9. \A h \in 0..(2 * q - 1) : IsInjective(d[h]) /\ ToSet(d[h]) = {k \in ks : Bucket(k, q, q) = h}
  <2>1. \A h \in 0..(2 * q - 1) : IsInjective(a[h]) /\ ToSet(a[h]) = {k \in ks : Bucket(k, half, 0) = h}
    BY <1>6 DEF Holds
  <2> QED
    BY <1>6, <1>8, <2>1
<1>10. Holds(d, q, q, ks)
  <2>1. q \in 0..q /\ \A h \in (q + q)..(2 * q - 1) : d[h] = <<>>
    BY <1>4
  <2>2. Doubled(2 * q)
    BY <1>3, <1>4
  <2> QED
    BY <1>4, <1>7, <1>9, <2>1, <2>2 DEF Holds
<1> QED
  BY <1>4, <1>5, <1>10

\* node_table_resize, of a table all of whose buckets are split.
LEMMA ResizeHolds ==
    ASSUME NEW ks \in SUBSET Key, NEW half, NEW a, Holds(a, half, half, ks)
    PROVE  Holds([h \in 0..(2 * (2 * half) - 1) |-> IF h < 2 * half THEN a[h] ELSE <<>>], 2 * half, 0, ks)
<1>1. half \in Nat \ {0} /\ a \in [0..(2 * half - 1) -> Seq(Key)] /\ Doubled(2 * half)
  BY DEF Holds
<1>2. PICK n \in Nat \ {0} : n = 2 * half
  BY <1>1
<1>3. PICK d : d = [h \in 0..(2 * n - 1) |-> IF h < n THEN a[h] ELSE <<>>]
  OBVIOUS
<1>4. \A h \in 0..(2 * n - 1) : (h \in 0..(n - 1) /\ d[h] = a[h]) \/ (h \notin 0..(n - 1) /\ d[h] = <<>>)
  BY <1>2, <1>3
<1>5. d \in [0..(2 * n - 1) -> Seq(Key)]
  BY <1>1, <1>2, <1>3, <1>4
<1>6. ASSUME NEW k \in Key
      PROVE  Bucket(k, half, half) = Bucket(k, n, 0) /\ Bucket(k, n, 0) \in 0..(n - 1)
  <2>1. PICK r \in 0..(half - 1) : r = HashOf[k] % half
    BY <1>1, TwoHashes, TableAssumption
  <2>2. PICK b \in 0..(n - 1) : b = HashOf[k] % n
    BY TwoHashes, TableAssumption
  <2>3. ~(r >= half)
    BY <1>1
  <2>4. Bucket(k, half, half) = b
    BY <1>2, <2>1, <2>2, <2>3 DEF Bucket
  <2> QED
    BY <2>2, <2>4 DEF Bucket
<1>7. ASSUME NEW h \in 0..(2 * n - 1)
      PROVE  IsInjective(d[h]) /\ ToSet(d[h]) = {k \in ks : Bucket(k, n, 0) = h}
  <2>1. CASE h \in 0..(n - 1)
    <3>1. IsInjective(a[h]) /\ ToSet(a[h]) = {k \in ks : Bucket(k, half, half) = h}
      BY <1>2, <2>1 DEF Holds
    <3> QED
      BY <1>4, <1>6, <2>1, <3>1
  <2>2. CASE h \notin 0..(n - 1)
    <3>1. IsInjective(<<>>) /\ ToSet(<<>>) = {}
      BY DEF IsInjective, ToSet
    <3> QED
      BY <1>4, <1>6, <2>2, <3>1
  <2> QED
    BY <2>1, <2>2
<1>8. \A h \in n..(2 * n - 1) : d[h] = <<>>
  BY <1>4
<1>9. Holds(d, n, 0, ks)
  <2>1. 0 \in 0..n /\ \A h \in (0 + n)..(2 * n - 1) : d[h] = <<>>
    BY <1>8
  <2>2. Doubled(2 * n)
    BY <1>1, <1>2, DoubledUp
  <2> QED
    BY <1>5, <1>7, <2>1, <2>2 DEF Holds
<1> QED
  BY <1>2, <1>3, <1>9

\* Buckets are merged into those below while the ones above are empty.
LEMMA SkipHolds ==
    ASSUME NEW ks \in SUBSET Key, NEW half, NEW split, NEW a, Holds(a, half, split, ks),
           NEW low \in 0..split, \A h \in (low + half)..(split + half - 1) : a[h] = <<>>
    PROVE  Holds(a, half, low, ks)
<1>1. half \in Nat \ {0} /\ split \in 0..half /\ a \in [0..(2 * half - 1) -> Seq(Key)] /\ Doubled(2 * half)
  BY DEF Holds
<1>2. ASSUME NEW h \in (low + half)..(2 * half - 1)
      PROVE  a[h] = <<>>
  <2>1. CASE h \in (split + half)..(2 * half - 1)
    BY <2>1 DEF Holds
  <2>2. CASE h \in (low + half)..(split + half - 1)
    BY <2>2
  <2> QED
    BY <1>1, <1>2, <2>1, <2>2
<1>3. ASSUME NEW k \in ks
      PROVE  Bucket(k, half, low) = Bucket(k, half, split)
  <2>0. k \in Key
    OBVIOUS
  <2>1. PICK r \in 0..(half - 1) : \E b \in {r, r + half} :
           /\ r = HashOf[k] % half /\ b = HashOf[k] % (2 * half)
           /\ \A s \in Nat : Bucket(k, half, s) = IF r >= s THEN r ELSE b
    BY <1>1, <2>0, BucketIs
  <2>2. PICK b \in {r, r + half} : \A s \in Nat : Bucket(k, half, s) = IF r >= s THEN r ELSE b
    BY <2>1
  <2>3. Bucket(k, half, low) = (IF r >= low THEN r ELSE b) /\ Bucket(k, half, split) = (IF r >= split THEN r ELSE b)
    BY <1>1, <2>2
  <2>4. CASE r >= low /\ r < split
    <3>1. SUFFICES ASSUME b = r + half
                   PROVE  FALSE
      BY <2>2, <2>3, <2>4
    <3>2. r + half \in (low + half)..(split + half - 1) /\ r + half \in 0..(2 * half - 1)
      BY <1>1, <2>4
    <3>3. a[r + half] = <<>> /\ k \in ToSet(a[r + half])
      BY <3>1, <3>2, <2>3, <2>4, <1>1 DEF Holds
    <3> QED
      BY <3>3 DEF ToSet
  <2>5. CASE ~(r >= low /\ r < split)
    BY <1>1, <2>3, <2>5
  <2> QED
    BY <2>4, <2>5
<1>4. low \in 0..half
  BY <1>1
<1> QED
  BY <1>1, <1>2, <1>3, <1>4 DEF Holds

\* The bucket below split takes the one above it.
LEMMA MergeHolds ==
    ASSUME NEW ks \in SUBSET Key, NEW half, NEW split, NEW a, Holds(a, half, split, ks),
           NEW low \in Nat, split = low + 1
    PROVE  Holds(Replaced(a, low, a[low] \o a[low + half], low + half, <<>>), half, low, ks)
<1>1. half \in Nat \ {0} /\ split \in 0..half /\ a \in [0..(2 * half - 1) -> Seq(Key)] /\ Doubled(2 * half)
  BY DEF Holds
<1>2. PICK up : up = low + half /\ up # low /\ low \in 0..(2 * half - 1) /\ up \in 0..(2 * half - 1)
                /\ low \in 0..(half - 1)
  BY <1>1
<1>3. PICK s \in Seq(Key) : s = a[low] /\ IsInjective(s) /\ ToSet(s) = {k \in ks : Bucket(k, half, split) = low}
  BY <1>1, <1>2 DEF Holds
<1>4. PICK u \in Seq(Key) : u = a[up] /\ IsInjective(u) /\ ToSet(u) = {k \in ks : Bucket(k, half, split) = up}
  BY <1>1, <1>2 DEF Holds
<1>5. s \o u \in Seq(Key) /\ IsInjective(s \o u) /\ ToSet(s \o u) = ToSet(s) \cup ToSet(u)
  <2>1. ToSet(s) \cap ToSet(u) = {}
    BY <1>2, <1>3, <1>4
  <2> QED
    BY <1>3, <1>4, <2>1, DisjointLists, ConcatElements
<1>6. PICK d : /\ d = Replaced(a, low, a[low] \o a[low + half], low + half, <<>>)
               /\ d = [a EXCEPT ![low] = a[low] \o a[low + half], ![low + half] = <<>>]
  BY DEF Replaced
<1>7. /\ d[low] = s \o u /\ d[up] = <<>>
      /\ \A h \in 0..(2 * half - 1) : h # low /\ h # up => d[h] = a[h]
  BY <1>1, <1>2, <1>3, <1>4, <1>6
<1>8. d \in [0..(2 * half - 1) -> Seq(Key)]
  <2>1. ASSUME NEW h \in 0..(2 * half - 1)
        PROVE  d[h] \in Seq(Key)
    <3>1. CASE h = low
      BY <1>5, <1>7, <3>1
    <3>2. CASE h = up
      <4>1. d[h] = <<>>
        BY <1>7, <3>2
      <4> QED
        BY <4>1
    <3>3. CASE h # low /\ h # up
      BY <1>1, <1>7, <3>3
    <3> QED
      BY <3>1, <3>2, <3>3
  <2> QED
    BY <1>1, <1>6, <2>1
<1>9. ASSUME NEW k \in ks
      PROVE  \/ Bucket(k, half, split) \in {low, up} /\ Bucket(k, half, low) = low
             \/ Bucket(k, half, split) \notin {low, up} /\ Bucket(k, half, low) = Bucket(k, half, split)
  <2>0. k \in Key
    OBVIOUS
  <2>1. PICK r \in 0..(half - 1) : \E b \in {r, r + half} :
           /\ r = HashOf[k] % half /\ b = HashOf[k] % (2 * half)
           /\ \A x \in Nat : Bucket(k, half, x) = IF r >= x THEN r ELSE b
    BY <1>1, <2>0, BucketIs
  <2>2. PICK b \in {r, r + half} : \A x \in Nat : Bucket(k, half, x) = IF r >= x THEN r ELSE b
    BY <2>1
  <2>3. Bucket(k, half, low) = (IF r >= low THEN r ELSE b) /\ Bucket(k, half, split) = (IF r >= split THEN r ELSE b)
    BY <1>1, <2>2
  <2>4. CASE r = low
    <3>1. ~(r >= split) /\ r >= low /\ b \in {low, up}
      BY <1>1, <1>2, <2>2, <2>4
    <3> QED
      BY <2>3, <2>4, <3>1
  <2>5. CASE r # low
    <3>1. r # up /\ r + half # low /\ r + half # up /\ (r >= split <=> r >= low)
      BY <1>1, <1>2, <2>5
    <3>2. r \notin {low, up} /\ b \notin {low, up}
      BY <2>2, <2>5, <3>1
    <3> QED
      BY <2>3, <3>1, <3>2
  <2> QED
    BY <2>4, <2>5
<1>10. ASSUME NEW h \in (low + half)..(2 * half - 1)
       PROVE  d[h] = <<>>
  <2>1. CASE h = up
    BY <1>7, <2>1
  <2>2. CASE h # up
    <3>1. h \in (split + half)..(2 * half - 1) /\ h # low /\ h \in 0..(2 * half - 1)
      BY <1>1, <1>2, <2>2
    <3>2. a[h] = <<>>
      BY <3>1 DEF Holds
    <3> QED
      BY <1>7, <2>2, <3>1, <3>2
  <2> QED
    BY <2>1, <2>2
<1>11. ASSUME NEW h \in 0..(2 * half - 1)
       PROVE  IsInjective(d[h]) /\ ToSet(d[h]) = {k \in ks : Bucket(k, half, low) = h}
  <2>1. CASE h = low
    BY <1>3, <1>4, <1>5, <1>7, <1>9, <2>1
  <2>2. CASE h = up
    <3>1. IsInjective(<<>>) /\ ToSet(<<>>) = {}
      BY DEF IsInjective, ToSet
    <3> QED
      BY <1>2, <1>7, <1>9, <2>2, <3>1
  <2>3. CASE h # low /\ h # up
    <3>1. IsInjective(a[h]) /\ ToSet(a[h]) = {k \in ks : Bucket(k, half, split) = h}
      BY DEF Holds
    <3> QED
      BY <1>7, <1>9, <2>3, <3>1
  <2> QED
    BY <2>1, <2>2, <2>3
<1>12. low \in 0..half
  BY <1>1, <1>2
<1>13. Holds(d, half, low, ks)
  BY <1>1, <1>8, <1>10, <1>11, <1>12 DEF Holds
<1> QED
  BY <1>6, <1>13

\* The next bucket is split.
LEMMA SplitHolds ==
    ASSUME NEW ks \in SUBSET Key, NEW half, NEW split, NEW a, Holds(a, half, split, ks), split < half,
           NEW s \in Seq(Key), NEW m \in Seq(Key), IsInjective(s), IsInjective(m),
           ToSet(s) = {k \in ToSet(a[split]) : Bucket(k, half, split + 1) = split},
           ToSet(m) = {k \in ToSet(a[split]) : Bucket(k, half, split + 1) # split}
    PROVE  Holds([a EXCEPT ![split] = s, ![split + half] = m], half, split + 1, ks)
<1>1. half \in Nat \ {0} /\ split \in 0..half /\ a \in [0..(2 * half - 1) -> Seq(Key)] /\ Doubled(2 * half)
  BY DEF Holds
<1>2. PICK up : up = split + half /\ up # split /\ split \in 0..(2 * half - 1) /\ up \in 0..(2 * half - 1)
                /\ split \in 0..(half - 1)
  BY <1>1
<1>3. ToSet(a[split]) = {k \in ks : Bucket(k, half, split) = split}
  BY <1>1, <1>2 DEF Holds
<1>4. PICK d : d = [a EXCEPT ![split] = s, ![split + half] = m]
  OBVIOUS
<1>5. /\ d[split] = s /\ d[up] = m
      /\ \A h \in 0..(2 * half - 1) : h # split /\ h # up => d[h] = a[h]
  BY <1>1, <1>2, <1>4
<1>6. d \in [0..(2 * half - 1) -> Seq(Key)]
  BY <1>1, <1>4
<1>7. ASSUME NEW k \in ks
      PROVE  \/ Bucket(k, half, split) = split /\ Bucket(k, half, split + 1) \in {split, up}
             \/ /\ Bucket(k, half, split) \notin {split, up}
                /\ Bucket(k, half, split + 1) = Bucket(k, half, split)
  <2>0. k \in Key
    OBVIOUS
  <2>1. PICK r \in 0..(half - 1) : \E b \in {r, r + half} :
           /\ r = HashOf[k] % half /\ b = HashOf[k] % (2 * half)
           /\ \A x \in Nat : Bucket(k, half, x) = IF r >= x THEN r ELSE b
    BY <1>1, <2>0, BucketIs
  <2>2. PICK b \in {r, r + half} : \A x \in Nat : Bucket(k, half, x) = IF r >= x THEN r ELSE b
    BY <2>1
  <2>3. /\ Bucket(k, half, split + 1) = (IF r >= split + 1 THEN r ELSE b)
        /\ Bucket(k, half, split) = (IF r >= split THEN r ELSE b)
    <3>1. split \in Nat /\ split + 1 \in Nat
      BY <1>1
    <3> QED
      BY <2>2, <3>1
  <2>4. CASE r = split
    <3>1. ~(r >= split + 1) /\ r >= split /\ b \in {split, up}
      BY <1>1, <1>2, <2>2, <2>4
    <3> QED
      BY <2>3, <2>4, <3>1
  <2>5. CASE r # split
    <3>1. (r >= split <=> r >= split + 1) /\ r \notin {split, up} /\ b \notin {split, up}
      <4>1. r \in Int /\ split \in Int /\ half \in Int /\ r < half /\ 0 <= r /\ 0 <= split /\ split < half
        BY <1>1
      <4>2. up = split + half
        BY <1>2
      <4>3. r >= split <=> r >= split + 1
        BY <2>5, <4>1
      <4>4. r # split /\ r # up
        BY <2>5, <4>1, <4>2
      <4>5. r + half # split /\ r + half # up
        BY <2>5, <4>1, <4>2
      <4>6. b = r \/ b = r + half
        BY <2>2
      <4> QED
        BY <4>3, <4>4, <4>5, <4>6
    <3> QED
      BY <2>3, <3>1
  <2> QED
    BY <2>4, <2>5
<1>8. ASSUME NEW h \in ((split + 1) + half)..(2 * half - 1)
      PROVE  d[h] = <<>>
  <2>1. h \in (split + half)..(2 * half - 1) /\ h # split /\ h # up /\ h \in 0..(2 * half - 1)
    BY <1>1, <1>2
  <2>2. a[h] = <<>>
    BY <2>1 DEF Holds
  <2> QED
    BY <1>5, <2>1, <2>2
<1>9. ASSUME NEW h \in 0..(2 * half - 1)
      PROVE  IsInjective(d[h]) /\ ToSet(d[h]) = {k \in ks : Bucket(k, half, split + 1) = h}
  <2>1. CASE h = split
    <3>1. ToSet(s) = {k \in ks : Bucket(k, half, split + 1) = split}
      BY <1>2, <1>3, <1>7
    <3> QED
      BY <1>5, <2>1, <3>1
  <2>2. CASE h = up
    <3>1. ToSet(m) = {k \in ks : Bucket(k, half, split + 1) = up}
      BY <1>2, <1>3, <1>7
    <3> QED
      BY <1>5, <2>2, <3>1
  <2>3. CASE h # split /\ h # up
    <3>1. IsInjective(a[h]) /\ ToSet(a[h]) = {k \in ks : Bucket(k, half, split) = h}
      BY DEF Holds
    <3> QED
      BY <1>5, <1>7, <2>3, <3>1
  <2> QED
    BY <2>1, <2>2, <2>3
<1>10. split + 1 \in 0..half
  BY <1>1
<1>11. Holds(d, half, split + 1, ks)
  BY <1>1, <1>6, <1>8, <1>9, <1>10 DEF Holds
<1> QED
  BY <1>4, <1>11

\* The parts of a table that holds keys.
IsTable(t, ks, half, use, split, a) ==
    /\ half \in Nat \ {0} /\ use \in Int /\ split \in 0..half /\ a \in [0..(2 * half - 1) -> Seq(Key)]
    /\ half = t.size \div 2 /\ t.size = 2 * half /\ t.array = a /\ t.use = use /\ t.split = split
    /\ Holds(a, half, split, ks)
    /\ t = Table(a, use, 2 * half, split)

LEMMA TableParts ==
    ASSUME NEW t, NEW ks, TableHolds(t, ks)
    PROVE  \E half \in Nat \ {0}, use \in Int : IsTable(t, ks, half, use, t.split, t.array)
<1>1. PICK half \in Nat \ {0} : half = t.size \div 2
  BY DEF TableHolds, Holds
<1>2. t.split \in 0..half /\ t.array \in [0..(2 * half - 1) -> Seq(Key)] /\ Holds(t.array, half, t.split, ks)
  BY <1>1 DEF TableHolds, Holds
<1>3. t = Table(t.array, t.use, 2 * half, t.split)
  BY <1>1 DEF TableHolds, Table
<1>4. t.use \in Int /\ t.size = 2 * half
  <2>1. Table(t.array, t.use, 2 * half, t.split).size = 2 * half
    BY DEF Table
  <2> QED
    BY <1>3, <2>1 DEF TableHolds
<1>5. IsTable(t, ks, half, t.use, t.split, t.array)
  BY <1>1, <1>2, <1>3, <1>4 DEF IsTable
<1> QED
  BY <1>4, <1>5

\* node_table_reduce keeps what the table holds.
LEMMA ReduceTable ==
    ASSUME NEW ks \in SUBSET Key, NEW t, TableHolds(t, ks), t.split = 0
    PROVE  TableHolds(node_table_reduce(t), ks) /\ node_table_reduce(t).use = t.use
<1>0. PICK half \in Nat \ {0}, use \in Int : IsTable(t, ks, half, use, t.split, t.array)
  BY TableParts
<1>1. PICK a : a = t.array /\ IsTable(t, ks, half, use, 0, a)
  BY <1>0
<1>2. /\ half \in Nat \ {0} /\ use \in Int /\ a \in [0..(2 * half - 1) -> Seq(Key)]
      /\ half = t.size \div 2 /\ t.size = 2 * half /\ t.array = a /\ t.use = use
      /\ Holds(a, half, 0, ks)
  BY <1>1 DEF IsTable
<1>3. CASE half < NODE_TABLE_MIN_SIZE
  BY <1>2, <1>3 DEF node_table_reduce
<1>4. CASE ~(half < NODE_TABLE_MIN_SIZE)
  <2>1. PICK d : d = [h \in 0..(half - 1) |-> a[h]]
    OBVIOUS
  <2>2. PICK q \in Nat : half \div 2 = q /\ half = 2 * q /\ Holds(d, q, q, ks)
    <3>1. half >= NODE_TABLE_MIN_SIZE
      BY <1>4, TableAssumption
    <3>2. /\ half \div 2 \in Nat \ {0} /\ half = 2 * (half \div 2)
          /\ Holds([h \in 0..(half - 1) |-> a[h]], half \div 2, half \div 2, ks)
      <4>1. Holds(a, half, 0, ks)
        BY <1>2
      <4> QED
        BY <3>1, <4>1, ReduceHolds
    <3> QED
      BY <2>1, <3>2
  <2>20. t.size \div 2 = half /\ t.array = a /\ t.use = use
    BY <1>2
  <2>3. node_table_reduce(t) = [array |-> d, use |-> use, size |-> half, split |-> q]
    BY <1>4, <2>1, <2>2, <2>20 DEF node_table_reduce
  <2>4. TableHolds([array |-> d, use |-> use, size |-> 2 * q, split |-> q], ks)
    BY <2>2, TableOf
  <2> QED
    BY <1>2, <2>2, <2>3, <2>4
<1> QED
  BY <1>3, <1>4

\* node_table_resize does, if there is memory or not.
LEMMA ResizeTable ==
    ASSUME NEW ks \in SUBSET Key, NEW t, TableHolds(t, ks), t.split = t.size \div 2, NEW memory
    PROVE  TableHolds(node_table_resize(t, memory), ks) /\ node_table_resize(t, memory).use = t.use
<1>0. PICK half \in Nat \ {0}, use \in Int : IsTable(t, ks, half, use, t.split, t.array)
  BY TableParts
<1>1. PICK a : a = t.array /\ IsTable(t, ks, half, use, half, a)
  <2>1. half = t.split
    BY <1>0 DEF IsTable
  <2> QED
    BY <1>0, <2>1
<1>2. /\ half \in Nat \ {0} /\ use \in Int /\ a \in [0..(2 * half - 1) -> Seq(Key)]
      /\ half = t.size \div 2 /\ t.size = 2 * half /\ t.array = a /\ t.use = use
      /\ Holds(a, half, half, ks)
  BY <1>1 DEF IsTable
<1>3. CASE ~memory \/ 2 * t.size > MaxTableSize
  BY <1>2, <1>3 DEF node_table_resize
<1>4. CASE ~(~memory \/ 2 * t.size > MaxTableSize)
  <2>1. PICK d : d = [h \in 0..(2 * (2 * half) - 1) |-> IF h < 2 * half THEN a[h] ELSE <<>>]
    OBVIOUS
  <2>2. PICK n \in Nat : n = 2 * half /\ Holds(d, n, 0, ks)
    <3>1. Holds([h \in 0..(2 * (2 * half) - 1) |-> IF h < 2 * half THEN a[h] ELSE <<>>], 2 * half, 0, ks)
      BY <1>2, ResizeHolds
    <3>2. 2 * half \in Nat
      OBVIOUS
    <3> QED
      BY <2>1, <3>1, <3>2
  <2>20. t.size = 2 * half /\ t.array = a /\ t.use = use
    BY <1>2
  <2>3. node_table_resize(t, memory) = [array |-> d, use |-> use, size |-> 2 * n, split |-> 0]
    BY <1>4, <2>1, <2>2, <2>20 DEF node_table_resize
  <2>4. TableHolds([array |-> d, use |-> use, size |-> 2 * n, split |-> 0], ks)
    BY <2>2, TableOf
  <2> QED
    BY <1>2, <2>3, <2>4
<1> QED
  BY <1>3, <1>4

\* Assignments to buckets of a table, and to split.
LEMMA OneBucket ==
    ASSUME NEW a, NEW use, NEW size, NEW split, NEW g, NEW x
    PROVE  [[array |-> a, use |-> use, size |-> size, split |-> split] EXCEPT !.array[g] = x]
              = [array |-> [a EXCEPT ![g] = x], use |-> use, size |-> size, split |-> split]
  OBVIOUS

\* The nodes that move are those that do not stay.
LEMMA WalkMoves ==
    ASSUME NEW t, NEW hash, NEW upper, t.array[hash] \in Seq(Key), IsInjective(t.array[hash]),
           t.array[upper] = <<>>
    PROVE  ToSet(SplitChain(t, hash, upper).moved) = ToSet(t.array[hash]) \ ToSet(SplitChain(t, hash, upper).stay)
  BY WalkSplits

\* What rehash_id does: t is the table with split moved on, end the two chains of the bucket
\* and t1 the table with them.
Rehashes(t0, memory, t, end, t1) ==
    /\ t = Table(t0.array, t0.use, t0.size, t0.split + 1)
    /\ end = SplitChain(t, t0.split, t0.split + t0.size \div 2)
    /\ t1 = Table(Replaced(t0.array, t0.split, end.stay, t0.split + t0.size \div 2, end.moved),
                  t0.use, t0.size, t0.split + 1)
    /\ rehash(t0, memory) = IF t1.split = t1.size \div 2 THEN node_table_resize(t1, memory) ELSE t1

\* rehash, in these terms.
LEMMA RehashIs ==
    ASSUME NEW t0, NEW memory, t0 = Table(t0.array, t0.use, t0.size, t0.split), t0.split # t0.size \div 2
    PROVE  \E t, end, t1 : Rehashes(t0, memory, t, end, t1)
<1>1. PICK a, use, size, split, upper : /\ a = t0.array /\ use = t0.use /\ size = t0.size /\ split = t0.split
                                       /\ upper = t0.split + t0.size \div 2
  OBVIOUS
<1>2. PICK t : t = [array |-> a, use |-> use, size |-> size, split |-> split + 1]
  OBVIOUS
<1>3. t = [t0 EXCEPT !.split = @ + 1] /\ t.size = size
  BY <1>1, <1>2 DEF Table
<1>4. PICK end : end = SplitChain(t, split, upper)
  OBVIOUS
<1>5. PICK d, t1 : /\ d = [a EXCEPT ![split] = end.stay, ![upper] = end.moved]
                   /\ t1 = [array |-> d, use |-> use, size |-> size, split |-> split + 1]
  OBVIOUS
<1>6. t1 = [t EXCEPT !.array[split] = end.stay, !.array[upper] = end.moved]
  <2>1. PICK b : b = [a EXCEPT ![split] = end.stay]
    OBVIOUS
  <2>2. d = [b EXCEPT ![upper] = end.moved]
    BY <1>5, <2>1
  <2>3. PICK u : u = [t EXCEPT !.array[split] = end.stay]
    OBVIOUS
  <2>4. u = [array |-> b, use |-> use, size |-> size, split |-> split + 1]
    BY <1>2, <2>1, <2>3
  <2>5. [u EXCEPT !.array[upper] = end.moved] = t1
    <3>1. PICK next : next = split + 1
      OBVIOUS
    <3>2. u = [array |-> b, use |-> use, size |-> size, split |-> next]
      BY <2>4, <3>1
    <3>3. [u EXCEPT !.array[upper] = end.moved] = [array |-> d, use |-> use, size |-> size, split |-> next]
      BY <2>2, <3>2, OneBucket
    <3> QED
      BY <1>5, <3>1, <3>3
  <2> QED
    BY <2>3, <2>5
<1>7. rehash(t0, memory) = IF t1.split = t1.size \div 2 THEN node_table_resize(t1, memory) ELSE t1
  BY <1>1, <1>3, <1>4, <1>6 DEF rehash
<1>8. /\ t = Table(t0.array, t0.use, t0.size, t0.split + 1)
      /\ end = SplitChain(t, t0.split, t0.split + t0.size \div 2)
      /\ t1 = Table(Replaced(t0.array, t0.split, end.stay, t0.split + t0.size \div 2, end.moved),
                    t0.use, t0.size, t0.split + 1)
  <2>1. t = Table(t0.array, t0.use, t0.size, t0.split + 1)
    BY <1>1, <1>2 DEF Table
  <2>2. d = Replaced(t0.array, t0.split, end.stay, t0.split + t0.size \div 2, end.moved)
    BY <1>1, <1>5 DEF Replaced
  <2>3. t1 = Table(d, t0.use, t0.size, t0.split + 1)
    BY <1>1, <1>5 DEF Table
  <2> QED
    BY <1>1, <1>4, <2>1, <2>2, <2>3
<1>9. Rehashes(t0, memory, t, end, t1)
  BY <1>7, <1>8 DEF Rehashes
<1> QED
  BY <1>9

\* rehash_id keeps what the table holds.
LEMMA RehashTable ==
    ASSUME NEW ks \in SUBSET Key, NEW t0, TableHolds(t0, ks), NEW memory
    PROVE  TableHolds(rehash(t0, memory), ks) /\ rehash(t0, memory).use = t0.use
<1>10. PICK half \in Nat \ {0}, use \in Int : IsTable(t0, ks, half, use, t0.split, t0.array)
  BY TableParts
<1>11. t0.split \in 0..half
  BY <1>10 DEF IsTable
<1>1. PICK split \in 0..half, a \in {t0.array} : split = t0.split /\ IsTable(t0, ks, half, use, split, a)
  BY <1>10, <1>11
<1>2. /\ half \in Nat \ {0} /\ use \in Int /\ split \in 0..half /\ a \in [0..(2 * half - 1) -> Seq(Key)]
      /\ half = t0.size \div 2 /\ t0.size = 2 * half /\ t0.array = a /\ t0.use = use /\ t0.split = split
      /\ Holds(a, half, split, ks) /\ t0 = Table(a, use, 2 * half, split)
  BY <1>1 DEF IsTable
<1>3. CASE split = half
  <2>1. t0.split = t0.size \div 2
    BY <1>2, <1>3
  <2> QED
    BY <2>1 DEF rehash
<1>4. CASE split # half
  <2>1. /\ t0.split = split /\ t0.size = 2 * half /\ t0.size \div 2 = half /\ t0.array = a /\ t0.use = use
        /\ split # half
    BY <1>2, <1>4
  <2>2. t0 = Table(t0.array, t0.use, t0.size, t0.split)
    BY <1>2, <2>1 DEF Table
  <2>30. PICK t, end, t1 : Rehashes(t0, memory, t, end, t1)
    BY <2>1, <2>2, RehashIs
  <2>3. /\ t = Table(t0.array, t0.use, t0.size, t0.split + 1)
        /\ end = SplitChain(t, t0.split, t0.split + t0.size \div 2)
        /\ t1 = Table(Replaced(t0.array, t0.split, end.stay, t0.split + t0.size \div 2, end.moved),
                      t0.use, t0.size, t0.split + 1)
        /\ rehash(t0, memory) = IF t1.split = t1.size \div 2 THEN node_table_resize(t1, memory) ELSE t1
    BY <2>30 DEF Rehashes
  <2>4. PICK up : up = split + half /\ up \in (split + half)..(2 * half - 1) /\ split \in 0..(2 * half - 1)
    BY <1>4
  <2>5. t.array = a /\ t.size = 2 * half /\ t.split = split + 1
    BY <2>1, <2>3 DEF Table
  <2>6. end = SplitChain(t, split, up)
    BY <2>1, <2>3, <2>4
  <2>7. /\ t.array[up] = <<>> /\ t.array[split] \in Seq(Key) /\ IsInjective(t.array[split])
        /\ t.array[split] = a[split]
    <3>1. a[up] = <<>>
      BY <1>2, <2>4 DEF Holds
    <3>2. a[split] \in Seq(Key) /\ IsInjective(a[split])
      BY <1>2, <2>4 DEF Holds
    <3> QED
      BY <2>5, <3>1, <3>2
  <2>8. PICK s \in Seq(Key), m \in Seq(Key) : s = end.stay /\ m = end.moved /\ IsInjective(s) /\ IsInjective(m)
    BY <2>6, <2>7, WalkSplits
  <2>9. ToSet(s) = {k \in ToSet(t.array[split]) : id_hash(t, k) = split}
    BY <2>6, <2>7, <2>8, WalkSplits
  <2>10. ToSet(m) = ToSet(t.array[split]) \ ToSet(s)
    BY <2>6, <2>7, <2>8, WalkMoves
  <2>11. ASSUME NEW k \in ToSet(a[split])
         PROVE  id_hash(t, k) = Bucket(k, half, split + 1)
    <3>1. k \in Key
      <4>1. \A i \in DOMAIN a[split] : a[split][i] \in Key
        BY <2>7
      <4> QED
        BY <4>1 DEF ToSet
    <3> QED
      BY <2>5, <3>1, id_hashIs
  <2>12. /\ ToSet(s) = {k \in ToSet(a[split]) : Bucket(k, half, split + 1) = split}
         /\ ToSet(m) = {k \in ToSet(a[split]) : Bucket(k, half, split + 1) # split}
    BY <2>7, <2>9, <2>10, <2>11
  <2>13. Holds([a EXCEPT ![split] = s, ![split + half] = m], half, split + 1, ks)
    <3>1. split < half
      BY <1>4
    <3> QED
      <4>1. Holds(a, half, split, ks)
        BY <1>2
      <4> QED
        BY <2>8, <2>12, <3>1, <4>1, SplitHolds
  <2>14. PICK d : d = Replaced(a, split, s, split + half, m) /\ Holds(d, half, split + 1, ks)
    BY <2>13 DEF Replaced
  <2>15. t1 = [array |-> d, use |-> use, size |-> 2 * half, split |-> split + 1]
    BY <2>1, <2>3, <2>8, <2>14 DEF Table
  <2>16. TableHolds(t1, ks)
    BY <2>14, <2>15, TableOf
  <2>17. t1.use = t0.use
    BY <2>1, <2>15
  <2>18. CASE t1.split = t1.size \div 2
    <3>1. /\ TableHolds(node_table_resize(t1, memory), ks)
          /\ node_table_resize(t1, memory).use = t1.use
      BY <2>16, <2>18, ResizeTable
    <3> QED
      BY <2>3, <2>17, <2>18, <3>1
  <2>19. CASE t1.split # t1.size \div 2
    BY <2>3, <2>16, <2>17, <2>19
  <2> QED
    BY <2>18, <2>19
<1> QED
  BY <1>3, <1>4

\* How far remerge_id goes: to the first bucket above split that is not empty, or to the last

\* it looks at.
Remerged(r, t, half, split, low) ==
    \/ /\ \A h \in (low + half)..(split + half - 1) : t.array[h] = <<>>
       /\ r = Table(t.array, t.use, t.size, low)
    \/ /\ low < split
       /\ \A h \in (low + 1 + half)..(split + half - 1) : t.array[h] = <<>>
       /\ r = Table(Replaced(t.array, low, t.array[low] \o t.array[low + half], low + half, <<>>),
                    t.use, t.size, low)

LEMMA RemergeIs ==
    ASSUME NEW t0, NEW t, t = IF t0.split = 0 THEN node_table_reduce(t0) ELSE t0,
           t = Table(t.array, t.use, t.size, t.split), NEW half \in Nat, half = t.size \div 2, NEW split \in Nat,
           split = t.split
    PROVE  \E low \in 0..split : Remerged(remerge(t0), t, half, split, low)
<1>0. PICK a, use, size : /\ a = t.array /\ use = t.use /\ size = t.size
                         /\ t = [array |-> a, use |-> use, size |-> size, split |-> split]
  BY DEF Table
<1> DEFINE tries == {n \in 1..RemergeIter : n <= t.split}
           busy == {n \in tries : t.array[t.split - n + t.size \div 2] # <<>>}
           n0 == CHOOSE i \in 0..RemergeIter :
                   \/ busy # {} /\ i \in busy /\ \A j \in busy : i <= j
                   \/ busy = {} /\ i = Cardinality(tries)
           low0 == t.split - n0
<1>1. remerge(t0) = IF busy = {} THEN [t EXCEPT !.split = low0]
                    ELSE [t EXCEPT !.split = low0,
                                   !.array[low0] = @ \o t.array[low0 + t.size \div 2],
                                   !.array[low0 + t.size \div 2] = <<>>]
  BY DEF remerge
<1>2. t.array = a /\ t.use = use /\ t.size \div 2 = half /\ t.split = split
  BY <1>0
<1>3. PICK m \in 0..split : m \in 0..RemergeIter /\ tries = 1..m /\ 1..m \subseteq 1..RemergeIter
  <2>0. RemergeIter \in Nat
    BY TableAssumption
  <2>1. CASE RemergeIter <= split
    BY <1>2, <2>0, <2>1
  <2>2. CASE ~(RemergeIter <= split)
    BY <1>2, <2>0, <2>2
  <2> QED
    BY <2>1, <2>2
<1>4. busy = {n \in 1..m : a[split - n + half] # <<>>} /\ Cardinality(tries) = m
  <2>1. Cardinality(1..m) = m
    BY FS_Interval
  <2> QED
    BY <1>2, <1>3, <2>1
<1> HIDE DEF tries, busy
<1>41. \A j \in 1..m : j \notin busy => a[split - j + half] = <<>>
  BY <1>4
<1>5. CASE busy = {}
  <2>1. n0 = m
    BY <1>3, <1>4, <1>5
  <2> HIDE DEF n0
  <2>2. PICK low \in 0..split : low = split - m /\ low = low0
    <3>1. low0 = split - m
      BY <1>2, <2>1
    <3> HIDE DEF low0
    <3> QED
      BY <3>1
  <2> HIDE DEF low0
  <2>3. remerge(t0) = Table(a, use, size, low)
    BY <1>0, <1>1, <1>5, <2>2 DEF Table
  <2>4. ASSUME NEW h \in (low + half)..(split + half - 1)
        PROVE  a[h] = <<>>
    <3>1. split + half - h \in 1..m /\ split - (split + half - h) + half = h
      BY <2>2
    <3>2. PICK j \in 1..m : split - j + half = h
      BY <3>1
    <3> QED
      BY <1>41, <1>5, <3>2
  <2> QED
    BY <1>0, <2>3, <2>4 DEF Remerged
<1>6. CASE busy # {}
  <2>1. \E x \in busy : \A y \in busy : x <= y
    <3>1. busy \in SUBSET Nat
      BY <1>4
    <3> QED
      BY <1>6, <3>1, LeastNatural
  <2>2. n0 \in busy /\ \A j \in busy : n0 <= j
    <3>1. \E i \in 0..RemergeIter : busy # {} /\ i \in busy /\ \A j \in busy : i <= j
      <4>1. PICK x \in busy : \A y \in busy : x <= y
        BY <2>1
      <4>2. x \in 0..RemergeIter
        BY <1>3, <1>4
      <4> QED
        BY <1>6, <4>1, <4>2
    <3> QED
      BY <1>6, <3>1
  <2> HIDE DEF n0
  <2>3. n0 \in 1..m /\ a[split - n0 + half] # <<>>
    BY <1>4, <2>2
  <2>31. PICK n \in 1..m : n = n0 /\ n \in busy /\ \A j \in busy : n <= j
    BY <2>2, <2>3
  <2>4. PICK low \in 0..split : low = split - n /\ low = low0 /\ low < split
    <3>1. low0 = split - n
      BY <1>2, <2>31
    <3> HIDE DEF low0
    <3> QED
      BY <3>1
  <2>5. ASSUME NEW h \in (low + 1 + half)..(split + half - 1)
        PROVE  a[h] = <<>>
    <3>1. split + half - h \in 1..m /\ split - (split + half - h) + half = h /\ split + half - h < n
      BY <2>4
    <3> QED
      <4>1. PICK j \in 1..m : j = split + half - h /\ split - j + half = h /\ j < n
        BY <3>1
      <4>2. j \notin busy
        BY <2>31, <4>1
      <4> QED
        <5>1. a[split - j + half] = <<>>
          BY <1>41, <4>2
        <5> QED
          BY <4>1, <5>1
  <2> HIDE DEF low0
  <2>6. remerge(t0) = Table(Replaced(a, low, a[low] \o a[low + half], low + half, <<>>), use, size, low)
    <3>1. PICK g, up, both : g = low /\ up = low + half /\ both = a[g] \o a[up]
      OBVIOUS
    <3>2. remerge(t0) = [t EXCEPT !.split = g, !.array[g] = @ \o a[up], !.array[up] = <<>>]
      BY <1>1, <1>2, <1>6, <2>4, <3>1
    <3>3. PICK b : b = [a EXCEPT ![g] = both]
      OBVIOUS
    <3>4. PICK u1 : u1 = [t EXCEPT !.split = g]
      OBVIOUS
    <3>5. u1 = [array |-> a, use |-> use, size |-> size, split |-> g]
      BY <1>0, <3>4
    <3>6. PICK u2 : u2 = [u1 EXCEPT !.array[g] = @ \o a[up]]
      OBVIOUS
    <3>61. u2 = [u1 EXCEPT !.array[g] = both]
      BY <3>1, <3>5, <3>6
    <3>7. u2 = [array |-> b, use |-> use, size |-> size, split |-> g]
      BY <3>3, <3>5, <3>61, OneBucket
    <3>8. PICK d : d = [b EXCEPT ![up] = <<>>]
      OBVIOUS
    <3>9. [u2 EXCEPT !.array[up] = <<>>] = [array |-> d, use |-> use, size |-> size, split |-> g]
      BY <3>7, <3>8, OneBucket
    <3>10. remerge(t0) = [u2 EXCEPT !.array[up] = <<>>]
      BY <3>2, <3>4, <3>6
    <3>11. d = Replaced(a, g, both, up, <<>>)
      BY <3>3, <3>8 DEF Replaced
    <3> QED
      BY <3>1, <3>9, <3>10, <3>11 DEF Table
  <2> QED
    BY <1>0, <2>4, <2>5, <2>6 DEF Remerged
<1> QED
  BY <1>5, <1>6

\* remerge_id keeps what the table holds.
LEMMA RemergeTable ==
    ASSUME NEW ks \in SUBSET Key, NEW t0, TableHolds(t0, ks)
    PROVE  TableHolds(remerge(t0), ks) /\ remerge(t0).use = t0.use
<1>1. PICK t : t = IF t0.split = 0 THEN node_table_reduce(t0) ELSE t0
  OBVIOUS
<1>2. TableHolds(t, ks) /\ t.use = t0.use
  <2>1. CASE t0.split = 0
    BY <1>1, <2>1, ReduceTable
  <2>2. CASE t0.split # 0
    BY <1>1, <2>2
  <2> QED
    BY <2>1, <2>2
<1>30. PICK half \in Nat \ {0}, use \in Int : IsTable(t, ks, half, use, t.split, t.array)
  BY <1>2, TableParts
<1>31. t.split \in 0..half
  BY <1>30 DEF IsTable
<1>3. PICK split \in 0..half, a \in {t.array} : split = t.split /\ IsTable(t, ks, half, use, split, a)
  BY <1>30, <1>31
<1>4. /\ half \in Nat \ {0} /\ use \in Int /\ split \in 0..half /\ a \in [0..(2 * half - 1) -> Seq(Key)]
      /\ half = t.size \div 2 /\ t.size = 2 * half /\ t.array = a /\ t.use = use /\ t.split = split
      /\ Holds(a, half, split, ks) /\ t = Table(a, use, 2 * half, split)
  BY <1>3 DEF IsTable
<1>5. PICK low \in 0..split :
              \/ /\ \A h \in (low + half)..(split + half - 1) : a[h] = <<>>
                 /\ remerge(t0) = Table(a, use, t.size, low)
              \/ /\ low < split
                 /\ \A h \in (low + 1 + half)..(split + half - 1) : a[h] = <<>>
                 /\ remerge(t0) = Table(Replaced(a, low, a[low] \o a[low + half], low + half, <<>>), use, t.size, low)
  <2>1. /\ t = Table(t.array, t.use, t.size, t.split) /\ split = t.split /\ split \in Nat /\ half \in Nat
        /\ a = t.array /\ use = t.use
    <3>1. t = Table(t.array, t.use, t.size, t.split)
      BY <1>4
    <3>2. split = t.split /\ a = t.array /\ use = t.use
      BY <1>4
    <3>3. split \in Nat /\ half \in Nat
      OBVIOUS
    <3> QED
      BY <3>1, <3>2, <3>3
  <2>2. \E low \in 0..split : Remerged(remerge(t0), t, half, split, low)
    BY <1>1, <1>4, <2>1, RemergeIs
  <2> QED
    BY <2>1, <2>2 DEF Remerged
<1>6. use = t0.use
  BY <1>2, <1>4
<1>7. ASSUME NEW d, Holds(d, half, low, ks), remerge(t0) = Table(d, use, t.size, low)
      PROVE  TableHolds(remerge(t0), ks) /\ remerge(t0).use = t0.use
  <2>1. remerge(t0) = [array |-> d, use |-> use, size |-> 2 * half, split |-> low]
    BY <1>4, <1>7 DEF Table
  <2> QED
    BY <1>6, <1>7, <2>1, TableOf
<1>8. CASE /\ \A h \in (low + half)..(split + half - 1) : a[h] = <<>>
           /\ remerge(t0) = Table(a, use, t.size, low)
  <2>1. Holds(a, half, low, ks)
    BY <1>4, <1>8, SkipHolds
  <2> QED
    BY <1>7, <1>8, <2>1
<1>9. CASE /\ low < split
           /\ \A h \in (low + 1 + half)..(split + half - 1) : a[h] = <<>>
           /\ remerge(t0) = Table(Replaced(a, low, a[low] \o a[low + half], low + half, <<>>), use, t.size, low)
  <2>1. PICK next \in 0..split : next = low + 1
    BY <1>9
  <2>2. \A h \in (next + half)..(split + half - 1) : a[h] = <<>>
    BY <1>9, <2>1
  <2>3. Holds(a, half, next, ks)
    BY <1>4, <2>2, SkipHolds
  <2>5. PICK d : d = Replaced(a, low, a[low] \o a[low + half], low + half, <<>>)
    OBVIOUS
  <2>7. Holds(d, half, low, ks)
    <3>1. low \in Nat /\ next = low + 1
      BY <2>1
    <3>2. Holds(Replaced(a, low, a[low] \o a[low + half], low + half, <<>>), half, low, ks)
      BY <2>3, <3>1, MergeHolds
    <3> QED
      BY <2>5, <3>2
  <2> QED
    BY <1>7, <1>9, <2>5, <2>7
<1> QED
  BY <1>5, <1>8, <1>9

\* hash_id keeps the invariant.
LEMMA hash_idInv ==
    ASSUME TableInv, NEW k \in Key, NEW memory, hash_id(k, memory)
    PROVE  TableInv'
<1>1. hashed \in SUBSET Key /\ IsFiniteSet(hashed) /\ tbl.use = Cardinality(hashed) /\ TableHolds(tbl, hashed)
  BY DEF TableInv
<1>20. PICK half \in Nat \ {0}, use \in Int : IsTable(tbl, hashed, half, use, tbl.split, tbl.array)
  BY <1>1, TableParts
<1>21. tbl.split \in 0..half
  BY <1>20 DEF IsTable
<1>2. PICK split \in 0..half, a \in {tbl.array} : split = tbl.split /\ IsTable(tbl, hashed, half, use, split, a)
  BY <1>20, <1>21
<1>3. /\ half \in Nat \ {0} /\ use \in Int /\ split \in 0..half /\ a \in [0..(2 * half - 1) -> Seq(Key)]
      /\ half = tbl.size \div 2 /\ tbl.size = 2 * half /\ tbl.array = a /\ tbl.use = use /\ tbl.split = split
      /\ Holds(a, half, split, hashed) /\ tbl = Table(a, use, 2 * half, split)
  BY <1>2 DEF IsTable
<1>4. PICK h : h = id_hash(tbl, k) /\ h = Bucket(k, half, split)
  BY <1>3, id_hashIs
<1>5. k \notin hashed /\ hashed' = hashed \cup {k}
  BY DEF hash_id
<1>6. PICK t : t = [tbl EXCEPT !.array[h] = <<k>> \o @, !.use = @ + 1]
  OBVIOUS
<1>7. tbl' = IF t.use >= t.size \div 2 THEN rehash(t, memory) ELSE t
  BY <1>4, <1>6 DEF hash_id
<1>8. PICK d : d = [a EXCEPT ![h] = <<k>> \o @]
  OBVIOUS
<1>9. Holds(d, half, split, hashed')
  <2>1. Holds([a EXCEPT ![h] = <<k>> \o @], half, split, hashed \cup {k})
    BY <1>1, <1>3, <1>4, <1>5, PutHolds
  <2> QED
    BY <1>5, <1>8, <2>1
<1>10. t = [array |-> d, use |-> use + 1, size |-> 2 * half, split |-> split]
  <2>1. PICK x, size, us, sp : x = <<k>> \o a[h] /\ size = 2 * half /\ us = use /\ sp = split
    OBVIOUS
  <2>2. d = [a EXCEPT ![h] = x]
    BY <1>8, <2>1
  <2>3. PICK u : u = [tbl EXCEPT !.array[h] = <<k>> \o @]
    OBVIOUS
  <2>4. u = [tbl EXCEPT !.array[h] = x]
    BY <1>3, <2>1, <2>3
  <2>40. tbl = [array |-> a, use |-> us, size |-> size, split |-> sp]
    BY <1>3, <2>1 DEF Table
  <2>5. u = [array |-> d, use |-> us, size |-> size, split |-> sp]
    BY <2>40, <2>2, <2>4, OneBucket
  <2>6. t = [u EXCEPT !.use = @ + 1]
    BY <1>6, <2>3
  <2> QED
    BY <2>1, <2>5, <2>6
<1>11. TableHolds(t, hashed')
  BY <1>9, <1>10, TableOf
<1>12. hashed' \in SUBSET Key /\ IsFiniteSet(hashed') /\ Cardinality(hashed') = use + 1
  <2>1. use = Cardinality(hashed)
    BY <1>1, <1>3
  <2> QED
    BY <1>1, <1>5, <2>1, FS_AddElement
<1>13. TableHolds(tbl', hashed') /\ tbl'.use = use + 1
  <2>1. t.use = use + 1
    BY <1>10
  <2>2. CASE t.use >= t.size \div 2
    BY <1>7, <1>11, <1>12, <2>1, <2>2, RehashTable
  <2>3. CASE ~(t.use >= t.size \div 2)
    BY <1>7, <1>11, <2>1, <2>3
  <2> QED
    BY <2>2, <2>3
<1>14. hashed' \subseteq Key /\ IsFiniteSet(hashed') /\ tbl'.use = Cardinality(hashed')
  BY <1>12, <1>13
<1> QED
  BY <1>13, <1>14 DEF TableInv, TableHolds, Holds, Bucket, Doubled

\* unhash_id keeps the invariant; the node it looks for is always in its chain.
LEMMA unhash_idInv ==
    ASSUME TableInv, NEW k \in Key, unhash_id(k)
    PROVE  TableInv'
<1>1. hashed \in SUBSET Key /\ IsFiniteSet(hashed) /\ tbl.use = Cardinality(hashed) /\ TableHolds(tbl, hashed)
  BY DEF TableInv
<1>20. PICK half \in Nat \ {0}, use \in Int : IsTable(tbl, hashed, half, use, tbl.split, tbl.array)
  BY <1>1, TableParts
<1>21. tbl.split \in 0..half
  BY <1>20 DEF IsTable
<1>2. PICK split \in 0..half, a \in {tbl.array} : split = tbl.split /\ IsTable(tbl, hashed, half, use, split, a)
  BY <1>20, <1>21
<1>3. /\ half \in Nat \ {0} /\ use \in Int /\ split \in 0..half /\ a \in [0..(2 * half - 1) -> Seq(Key)]
      /\ half = tbl.size \div 2 /\ tbl.size = 2 * half /\ tbl.array = a /\ tbl.use = use /\ tbl.split = split
      /\ Holds(a, half, split, hashed) /\ tbl = Table(a, use, 2 * half, split)
  BY <1>2 DEF IsTable
<1>4. PICK h : h = id_hash(tbl, k) /\ h = Bucket(k, half, split)
  BY <1>3, id_hashIs
<1>5. k \in hashed /\ hashed' = hashed \ {k}
  BY DEF unhash_id
<1>6. PICK t : t = [tbl EXCEPT !.array[h] = RemoveFirst(@, k), !.use = @ - 1]
  OBVIOUS
<1>8. PICK d : d = [a EXCEPT ![h] = RemoveFirst(@, k)]
  OBVIOUS
<1>9. Holds(d, half, split, hashed') /\ Contains(a[h], k)
  <2>1. /\ Contains(a[h], k)
        /\ Holds([a EXCEPT ![h] = RemoveFirst(@, k)], half, split, hashed \ {k})
    BY <1>1, <1>3, <1>4, <1>5, TakeHolds
  <2> QED
    BY <1>5, <1>8, <2>1
<1>7. tbl' = IF t.use < t.size \div 4 THEN remerge(t) ELSE t
  <2>1. Contains(tbl.array[h], k)
    BY <1>3, <1>9
  <2> QED
    BY <1>4, <1>6, <2>1 DEF unhash_id
<1>10. t = [array |-> d, use |-> use - 1, size |-> 2 * half, split |-> split]
  <2>1. PICK x, size, us, sp : x = RemoveFirst(a[h], k) /\ size = 2 * half /\ us = use /\ sp = split
    OBVIOUS
  <2>2. d = [a EXCEPT ![h] = x]
    BY <1>8, <2>1
  <2>3. PICK u : u = [tbl EXCEPT !.array[h] = RemoveFirst(@, k)]
    OBVIOUS
  <2>4. u = [tbl EXCEPT !.array[h] = x]
    BY <1>3, <2>1, <2>3
  <2>40. tbl = [array |-> a, use |-> us, size |-> size, split |-> sp]
    BY <1>3, <2>1 DEF Table
  <2>5. u = [array |-> d, use |-> us, size |-> size, split |-> sp]
    BY <2>40, <2>2, <2>4, OneBucket
  <2>6. t = [u EXCEPT !.use = @ - 1]
    BY <1>6, <2>3
  <2> QED
    BY <2>1, <2>5, <2>6
<1>11. TableHolds(t, hashed')
  BY <1>9, <1>10, TableOf
<1>12. hashed' \in SUBSET Key /\ IsFiniteSet(hashed') /\ Cardinality(hashed') = use - 1
  <2>1. use = Cardinality(hashed)
    BY <1>1, <1>3
  <2> QED
    BY <1>1, <1>5, <2>1, FS_RemoveElement
<1>13. TableHolds(tbl', hashed') /\ tbl'.use = use - 1
  <2>1. t.use = use - 1
    BY <1>10
  <2>2. CASE t.use < t.size \div 4
    BY <1>7, <1>11, <1>12, <2>1, <2>2, RemergeTable
  <2>3. CASE ~(t.use < t.size \div 4)
    BY <1>7, <1>11, <2>1, <2>3
  <2> QED
    BY <2>2, <2>3
<1>14. hashed' \subseteq Key /\ IsFiniteSet(hashed') /\ tbl'.use = Cardinality(hashed')
  BY <1>12, <1>13
<1> QED
  BY <1>13, <1>14 DEF TableInv, TableHolds, Holds, Bucket, Doubled

\* However the table is split, grown, merged and shrunk, a bucket at a time, by hash_id and

\* unhash_id, for every hash function, every number of nodes and every outcome of the

\* allocations, a lookup finds every node entered and not removed, once, and no other.
THEOREM TableStaysRight == TableSpec => []TableRight
<1>1. TableInit => TableInv
  BY TableInitInv
<1>2. TableInv /\ [TableNext]_<<tbl, hashed>> => TableInv'
  <2>1. SUFFICES ASSUME TableInv, [TableNext]_<<tbl, hashed>>
                 PROVE  TableInv'
    OBVIOUS
  <2>2. CASE UNCHANGED <<tbl, hashed>>
    BY <2>1, <2>2 DEF TableInv, TableHolds, Holds, Bucket, Doubled
  <2>3. CASE TableNext
    BY <2>1, <2>3, hash_idInv, unhash_idInv DEF TableNext
  <2> QED
    BY <2>1, <2>2, <2>3
<1>3. TableInv => TableRight
  BY TableInvRight
<1> QED
  BY <1>1, <1>2, <1>3, PTL DEF TableSpec

-----------------------------------------------------------------------------
(* FuseLocks: locks_insert turns a list in order into one in order that says *)
(* of the bytes of the new lock its type and of all others what it said, by  *)
(* an invariant of its loop; the system invariant compares the list with     *)
(* what the file system has granted.                                         *)

\* The locks one can ask for, and those a list keeps.
Lock == {l \in [owner : Owner, type : LockType, start : Byte, end : Byte] : l.start <= l.end}
Kept == {l \in Lock : l.type # UNLCK}

\* Lock x of a list comes before lock y and apart from it.
Apart(x, y) ==
    x.owner = y.owner => x.end < y.start /\ (x.type = y.type => x.end < y.start - 1)

\* A list of locks as the library keeps it.
InOrder(ls) ==
    /\ ls \in Seq(Kept)
    /\ \A j, m \in 1..Len(ls) : j < m => Apart(ls[j], ls[m])

\* Lock l gives owner o a lock of type t on byte b; some lock of the list does.
Gives(l, o, t, b) == l.owner = o /\ l.type = t /\ Covers(l, b)
Has(ls, o, t, b) == \E j \in 1..Len(ls) : Gives(ls[j], o, t, b)

\* The fields of a lock.
LEMMA LockFields ==
    ASSUME NEW l \in Lock
    PROVE  /\ l.owner \in Owner /\ l.type \in LockType /\ l.start \in Int /\ l.end \in Int
           /\ l.start \in Byte /\ l.end \in Byte /\ l.start <= l.end
           /\ l = [owner |-> l.owner, type |-> l.type, start |-> l.start, end |-> l.end]
  BY LocksAssumption DEF Lock, Byte

\* What a list has after a lock is taken out of it, changed or put in.
LEMMA RemoveHas ==
    ASSUME NEW S, NEW ls \in Seq(S), NEW i \in 1..Len(ls), NEW o, NEW t, NEW b
    PROVE  Has(ls, o, t, b) <=> Has(RemoveAt(ls, i), o, t, b) \/ Gives(ls[i], o, t, b)
<1>1. PICK r : r = RemoveAt(ls, i) /\ Len(r) = Len(ls) - 1
               /\ \A j \in 1..(Len(ls) - 1) : r[j] = IF j < i THEN ls[j] ELSE ls[j + 1]
  BY RemoveAtIs
<1>2. ASSUME NEW j \in 1..Len(ls), Gives(ls[j], o, t, b), j # i
      PROVE  Has(r, o, t, b)
  <2>1. CASE j < i
    <3>1. j \in 1..Len(r) /\ r[j] = ls[j]
      BY <1>1, <2>1
    <3> QED
      BY <1>2, <3>1 DEF Has
  <2>2. CASE j > i
    <3>1. j - 1 \in 1..Len(r) /\ r[j - 1] = ls[j]
      BY <1>1, <2>2
    <3> QED
      BY <1>2, <3>1 DEF Has
  <2> QED
    BY <1>2, <2>1, <2>2
<1>3. ASSUME Has(r, o, t, b)
      PROVE  Has(ls, o, t, b)
  <2>1. PICK j \in 1..(Len(ls) - 1) : Gives(r[j], o, t, b)
    BY <1>1, <1>3 DEF Has
  <2>2. j \in 1..Len(ls) /\ j + 1 \in 1..Len(ls) /\ (r[j] = ls[j] \/ r[j] = ls[j + 1])
    BY <1>1
  <2> QED
    BY <2>1, <2>2 DEF Has
<1>4. Gives(ls[i], o, t, b) => Has(ls, o, t, b)
  BY DEF Has
<1>5. Has(ls, o, t, b) => Has(r, o, t, b) \/ Gives(ls[i], o, t, b)
  BY <1>2 DEF Has
<1> QED
  BY <1>1, <1>3, <1>4, <1>5

\* The same of a lock that is changed.
LEMMA ReplaceHas ==
    ASSUME NEW S, NEW ls \in Seq(S), NEW i \in 1..Len(ls), NEW e \in S, NEW o, NEW t, NEW b
    PROVE  Has(ReplaceAt(ls, i, e), o, t, b) <=> Has(RemoveAt(ls, i), o, t, b) \/ Gives(e, o, t, b)
<1>1. PICK q \in Seq(S) : q = ReplaceAt(ls, i, e) /\ Len(q) = Len(ls)
                          /\ \A j \in 1..Len(ls) : q[j] = IF j = i THEN e ELSE ls[j]
  <2>1. ChangedAt(ReplaceAt(ls, i, e), S, ls, i, e)
    BY ReplaceAtIs
  <2> QED
    BY <2>1, Zenon DEF ChangedAt
<1>2. i \in 1..Len(q) /\ q[i] = e
  BY <1>1
<1>3. Has(q, o, t, b) <=> Has(RemoveAt(q, i), o, t, b) \/ Gives(e, o, t, b)
  BY <1>2, RemoveHas
<1>4. PICK r : r = RemoveAt(ls, i) /\ Len(r) = Len(ls) - 1
               /\ \A j \in 1..(Len(ls) - 1) : r[j] = IF j < i THEN ls[j] ELSE ls[j + 1]
  BY RemoveAtIs
<1>5. PICK u : u = RemoveAt(q, i) /\ Len(u) = Len(ls) - 1
               /\ \A j \in 1..(Len(ls) - 1) : u[j] = IF j < i THEN q[j] ELSE q[j + 1]
  <2>1. /\ Len(RemoveAt(q, i)) = Len(q) - 1
        /\ \A j \in 1..(Len(q) - 1) : RemoveAt(q, i)[j] = IF j < i THEN q[j] ELSE q[j + 1]
    BY <1>2, RemoveAtIs
  <2> QED
    BY <1>1, <2>1
<1>6. \A j \in 1..(Len(ls) - 1) : u[j] = r[j]
  <2>1. SUFFICES ASSUME NEW j \in 1..(Len(ls) - 1)
                 PROVE  u[j] = r[j]
    OBVIOUS
  <2>2. CASE j < i
    BY <1>1, <1>4, <1>5, <2>2
  <2>3. CASE ~(j < i)
    <3>1. j + 1 \in 1..Len(ls) /\ j + 1 # i
      BY <2>3
    <3> QED
      BY <1>1, <1>4, <1>5, <2>3, <3>1
  <2> QED
    BY <2>2, <2>3
<1>7. Has(u, o, t, b) <=> Has(r, o, t, b)
  BY <1>4, <1>5, <1>6 DEF Has
<1> QED
  BY <1>1, <1>3, <1>4, <1>5, <1>7

\* The same of a lock that is put in.
LEMMA InsertHas ==
    ASSUME NEW S, NEW ls \in Seq(S), NEW i \in 1..(Len(ls) + 1), NEW e \in S, NEW o, NEW t, NEW b
    PROVE  Has(InsertAt(ls, i, e), o, t, b) <=> Has(ls, o, t, b) \/ Gives(e, o, t, b)
<1>1. PICK q : q = InsertAt(ls, i, e) /\ Len(q) = Len(ls) + 1
               /\ \A j \in 1..(Len(ls) + 1) : q[j] = IF j < i THEN ls[j] ELSE IF j = i THEN e ELSE ls[j - 1]
  BY InsertAtIs
<1>2. ASSUME Has(q, o, t, b)
      PROVE  Has(ls, o, t, b) \/ Gives(e, o, t, b)
  <2>1. PICK j \in 1..(Len(ls) + 1) : Gives(q[j], o, t, b)
    BY <1>1, <1>2 DEF Has
  <2>2. CASE j < i
    <3>1. j \in 1..Len(ls) /\ q[j] = ls[j]
      BY <1>1, <2>2
    <3> QED
      BY <2>1, <3>1 DEF Has
  <2>3. CASE j = i
    BY <1>1, <2>1, <2>3
  <2>4. CASE j > i
    <3>1. j - 1 \in 1..Len(ls) /\ q[j] = ls[j - 1]
      BY <1>1, <2>4
    <3> QED
      BY <2>1, <3>1 DEF Has
  <2> QED
    BY <2>2, <2>3, <2>4
<1>3. ASSUME Has(ls, o, t, b)
      PROVE  Has(q, o, t, b)
  <2>1. PICK j \in 1..Len(ls) : Gives(ls[j], o, t, b)
    BY <1>3 DEF Has
  <2>2. CASE j < i
    <3>1. j \in 1..Len(q) /\ q[j] = ls[j]
      BY <1>1, <2>2
    <3> QED
      BY <2>1, <3>1 DEF Has
  <2>3. CASE ~(j < i)
    <3>1. j + 1 \in 1..Len(q) /\ q[j + 1] = ls[j]
      BY <1>1, <2>3
    <3> QED
      BY <2>1, <3>1 DEF Has
  <2> QED
    BY <2>2, <2>3
<1>4. i \in 1..Len(q) /\ q[i] = e
  BY <1>1
<1> QED
  BY <1>1, <1>2, <1>3, <1>4 DEF Has

\* In a list in order no byte is locked twice by one owner.
LEMMA OneLock ==
    ASSUME NEW ls, InOrder(ls), NEW j \in 1..Len(ls), NEW m \in 1..Len(ls), NEW b \in Byte,
           ls[j].owner = ls[m].owner, Covers(ls[j], b), Covers(ls[m], b)
    PROVE  j = m
<1>1. ls[j] \in Lock /\ ls[m] \in Lock
  BY DEF InOrder, Kept
<1>2. b \in Int
  BY LocksAssumption DEF Byte
<1>3. ~(j < m)
  <2>1. SUFFICES ASSUME j < m
                 PROVE  FALSE
    OBVIOUS
  <2>2. ls[j].end < ls[m].start
    BY <2>1 DEF InOrder, Apart
  <2> QED
    BY <1>1, <1>2, <2>2, LockFields DEF Covers
<1>4. ~(m < j)
  <2>1. SUFFICES ASSUME m < j
                 PROVE  FALSE
    OBVIOUS
  <2>2. ls[m].end < ls[j].start
    BY <2>1 DEF InOrder, Apart
  <2> QED
    BY <1>1, <1>2, <2>2, LockFields DEF Covers
<1>5. j \in Int /\ m \in Int
  OBVIOUS
<1> QED
  BY <1>3, <1>4, <1>5

\* An owner has one type of lock on a byte.
LEMMA OneType ==
    ASSUME NEW ls, InOrder(ls), NEW o, NEW t, NEW u, NEW b \in Byte, Has(ls, o, t, b), Has(ls, o, u, b)
    PROVE  t = u
<1>1. PICK j \in 1..Len(ls) : Gives(ls[j], o, t, b)
  BY DEF Has
<1>2. PICK m \in 1..Len(ls) : Gives(ls[m], o, u, b)
  BY DEF Has
<1>3. j = m
  BY <1>1, <1>2, OneLock DEF Gives
<1> QED
  BY <1>1, <1>2, <1>3 DEF Gives

\* The list stays in order when a lock is taken out, shortened or put where it belongs.
LEMMA RemoveOrder ==
    ASSUME NEW ls, InOrder(ls), NEW i \in 1..Len(ls)
    PROVE  InOrder(RemoveAt(ls, i))
<1>0. ls \in Seq(Kept) /\ \A j, m \in 1..Len(ls) : j < m => Apart(ls[j], ls[m])
  BY DEF InOrder
<1>1. PICK r \in Seq(Kept) : r = RemoveAt(ls, i) /\ Len(r) = Len(ls) - 1
               /\ \A j \in 1..(Len(ls) - 1) : r[j] = IF j < i THEN ls[j] ELSE ls[j + 1]
  BY <1>0, RemoveAtIs
<1>2. ASSUME NEW j \in 1..Len(r), NEW m \in 1..Len(r), j < m
      PROVE  Apart(r[j], r[m])
  <2>1. PICK x \in 1..Len(ls) : r[j] = ls[x] /\ x = IF j < i THEN j ELSE j + 1
    BY <1>0, <1>1
  <2>2. PICK y \in 1..Len(ls) : r[m] = ls[y] /\ y = IF m < i THEN m ELSE m + 1
    BY <1>0, <1>1
  <2>3. x < y
    BY <1>0, <1>1, <1>2, <2>1, <2>2
  <2> QED
    BY <1>0, <2>1, <2>2, <2>3
<1> QED
  BY <1>1, <1>2 DEF InOrder

\* The same of a lock that is shortened.
LEMMA ReplaceOrder ==
    ASSUME NEW ls, InOrder(ls), NEW i \in 1..Len(ls), NEW e \in Kept,
           e.owner = ls[i].owner, e.type = ls[i].type, ls[i].start <= e.start, e.end <= ls[i].end
    PROVE  InOrder(ReplaceAt(ls, i, e))
<1>0. ls \in Seq(Kept) /\ \A j, m \in 1..Len(ls) : j < m => Apart(ls[j], ls[m])
  BY DEF InOrder
<1>1. PICK q \in Seq(Kept) : q = ReplaceAt(ls, i, e) /\ Len(q) = Len(ls)
                             /\ \A j \in 1..Len(ls) : q[j] = IF j = i THEN e ELSE ls[j]
  <2>1. ChangedAt(ReplaceAt(ls, i, e), Kept, ls, i, e)
    BY <1>0, ReplaceAtIs
  <2> QED
    BY <2>1, Zenon DEF ChangedAt
<1>2. ASSUME NEW j \in 1..Len(ls), NEW m \in 1..Len(ls), j < m
      PROVE  Apart(q[j], q[m])
  <2>1. Apart(ls[j], ls[m]) /\ ls[j] \in Lock /\ ls[m] \in Lock /\ e \in Lock
    BY <1>0, <1>2 DEF Kept
  <2>2. CASE j = i
    <3>1. q[j] = e /\ q[m] = ls[m]
      BY <1>0, <1>1, <1>2, <2>2
    <3> QED
      BY <2>1, <2>2, <3>1, LockFields DEF Apart
  <2>3. CASE m = i
    <3>1. q[m] = e /\ q[j] = ls[j]
      BY <1>0, <1>1, <1>2, <2>3
    <3> QED
      BY <2>1, <2>3, <3>1, LockFields DEF Apart
  <2>4. CASE j # i /\ m # i
    BY <1>1, <2>1, <2>4
  <2> QED
    BY <2>2, <2>3, <2>4
<1> QED
  BY <1>1, <1>2 DEF InOrder

\* The same of a lock that is put where it belongs.
LEMMA InsertOrder ==
    ASSUME NEW ls, InOrder(ls), NEW i \in 1..(Len(ls) + 1), NEW e \in Kept,
           \A j \in 1..(i - 1) : Apart(ls[j], e), \A j \in i..Len(ls) : Apart(e, ls[j])
    PROVE  InOrder(InsertAt(ls, i, e))
<1>0. ls \in Seq(Kept) /\ \A j, m \in 1..Len(ls) : j < m => Apart(ls[j], ls[m])
  BY DEF InOrder
<1>1. PICK q \in Seq(Kept) : q = InsertAt(ls, i, e) /\ Len(q) = Len(ls) + 1
               /\ \A j \in 1..(Len(ls) + 1) : q[j] = IF j < i THEN ls[j] ELSE IF j = i THEN e ELSE ls[j - 1]
  BY <1>0, InsertAtIs
<1>2. PICK L \in Nat : L = Len(ls)
  BY <1>0
<1>3. ASSUME NEW j \in 1..(L + 1), NEW m \in 1..(L + 1), j < m
      PROVE  Apart(q[j], q[m])
  <2>1. CASE m < i
    <3>1. q[j] = ls[j] /\ q[m] = ls[m] /\ j \in 1..L /\ m \in 1..L
      BY <1>1, <1>2, <1>3, <2>1
    <3> QED
      BY <1>0, <1>2, <1>3, <3>1
  <2>2. CASE m = i
    <3>1. q[j] = ls[j] /\ q[m] = e /\ j \in 1..(i - 1)
      BY <1>1, <1>2, <1>3, <2>2
    <3> QED
      BY <3>1
  <2>3. CASE j = i
    <3>1. q[j] = e /\ q[m] = ls[m - 1] /\ m - 1 \in i..Len(ls)
      BY <1>1, <1>2, <1>3, <2>3
    <3> QED
      BY <3>1
  <2>4. CASE j < i /\ m > i
    <3>1. q[j] = ls[j] /\ q[m] = ls[m - 1] /\ j \in 1..L /\ m - 1 \in 1..L /\ j < m - 1
      BY <1>1, <1>2, <1>3, <2>4
    <3> QED
      BY <1>0, <1>2, <3>1
  <2>5. CASE j > i
    <3>1. q[j] = ls[j - 1] /\ q[m] = ls[m - 1] /\ j - 1 \in 1..L /\ m - 1 \in 1..L /\ j - 1 < m - 1
      BY <1>1, <1>2, <1>3, <2>5
    <3> QED
      BY <1>0, <1>2, <3>1
  <2> QED
    BY <1>3, <2>1, <2>2, <2>3, <2>4, <2>5
<1> QED
  BY <1>1, <1>2, <1>3 DEF InOrder

-----------------------------------------------------------------------------

\* The loop of locks_insert, entering lock0 in the list ls0.  State of the loop:
St(ls, lock, i, go) == [ls |-> ls, lock |-> lock, i |-> i, go |-> go]

\* What the list says, outside of the new lock, is what it said, where lock counts as listed.
Says(ls, lock, ls0, lock0) ==
    /\ \A o \in Owner \ {lock0.owner}, t \in LockType, b \in Byte : Has(ls, o, t, b) <=> Has(ls0, o, t, b)
    /\ \A t \in LockType \ {lock0.type}, b \in Byte :
          ~Covers(lock0, b) => (Has(ls, lock0.owner, t, b) <=> Has(ls0, lock0.owner, t, b))
    /\ \A b \in Byte : ~Covers(lock0, b) =>
          (Has(ls, lock0.owner, lock0.type, b) \/ Covers(lock, b) <=> Has(ls0, lock0.owner, lock0.type, b))
    /\ \A b \in Byte : Covers(lock0, b) => Covers(lock, b)

\* The list up to i is in front of the lock.
Entering(ls, lock, i, ls0, lock0) ==
    /\ InOrder(ls) /\ lock \in Lock /\ lock.owner = lock0.owner /\ lock.type = lock0.type
    /\ i \in 1..(Len(ls) + 1)
    /\ \A j \in 1..(i - 1) : Apart(ls[j], lock)
    /\ Says(ls, lock, ls0, lock0)

\* The steps left: one for each lock from i on, and the split of a lock adds one that ends the loop.
StepsLeft(ls, lock, i, k, ls0) ==
    \/ k + (Len(ls) - i + 1) <= Len(ls0)
    \/ /\ k + (Len(ls) - i + 1) <= Len(ls0) + 1 /\ i <= Len(ls)
       /\ ls[i].owner = lock.owner /\ ls[i].type # lock.type /\ lock.end < ls[i].start

Loop(s, k, ls0, lock0) ==
    /\ s = St(s.ls, s.lock, s.i, s.go)
    /\ Entering(s.ls, s.lock, s.i, ls0, lock0)
    /\ \/ s.go = "on" /\ StepsLeft(s.ls, s.lock, s.i, k, ls0)
       \/ s.go = "break" /\ \A j \in s.i..Len(s.ls) : Apart(s.lock, s.ls[j])
       \/ /\ s.go = "out" /\ s.i <= Len(s.ls)
          /\ s.ls[s.i].owner = s.lock.owner /\ s.ls[s.i].type = s.lock.type
          /\ s.ls[s.i].start <= s.lock.start /\ s.lock.end <= s.ls[s.i].end

\* A lock of the list and the new one meet only where the new one was asked for.
LEMMA Meet ==
    ASSUME NEW ls0, InOrder(ls0), NEW lock0 \in Lock, NEW ls, NEW lock, NEW i,
           Entering(ls, lock, i, ls0, lock0), NEW m \in 1..Len(ls), NEW b \in Byte,
           ls[m].owner = lock.owner, ls[m].type # lock.type, Covers(ls[m], b), Covers(lock, b)
    PROVE  Covers(lock0, b)
<1>1. SUFFICES ASSUME ~Covers(lock0, b)
               PROVE  FALSE
  OBVIOUS
<1>2. PICK o, t, u : o = lock0.owner /\ t = lock0.type /\ u = ls[m].type /\ u # t
                     /\ o = lock.owner /\ o = ls[m].owner /\ u \in LockType
  <2>1. ls[m] \in Lock
    BY DEF Entering, InOrder, Kept
  <2> QED
    BY <2>1, LockFields DEF Entering
<1>3. Has(ls, o, u, b)
  BY <1>2 DEF Has, Gives
<1>4. Has(ls0, o, u, b) /\ Has(ls0, o, t, b)
  BY <1>1, <1>2, <1>3 DEF Entering, Says
<1> QED
  BY <1>2, <1>4, OneType

\* The lock that takes in l, and what is left of l in front of and behind a lock.
Joined(lock, l) ==
    [owner |-> lock.owner, type |-> lock.type, start |-> IF l.start < lock.start THEN l.start ELSE lock.start,
     end |-> IF lock.end < l.end THEN l.end ELSE lock.end]
FrontOf(l, lock) == [owner |-> l.owner, type |-> l.type, start |-> l.start, end |-> lock.start - 1]
BackOf(l, lock) == [owner |-> l.owner, type |-> l.type, start |-> lock.end + 1, end |-> l.end]

\* The fields of a state of the loop.
LEMMA StFields ==
    ASSUME NEW ls, NEW lock, NEW i, NEW go
    PROVE  /\ St(ls, lock, i, go).ls = ls /\ St(ls, lock, i, go).lock = lock
           /\ St(ls, lock, i, go).i = i /\ St(ls, lock, i, go).go = go
  BY DEF St

\* The next element of the list.
LEMMA StSkip ==
    ASSUME NEW ls, NEW lock, NEW i, NEW go
    PROVE  Skip(St(ls, lock, i, go)) = St(ls, lock, i + 1, go)
  BY DEF St, Skip

\* The element is taken out.
LEMMA StDelete ==
    ASSUME NEW ls, NEW lock, NEW i, NEW go
    PROVE  Delete(St(ls, lock, i, go)) = St(RemoveAt(ls, i), lock, i, go)
  BY DEF St, Delete

\* The loop is left.
LEMMA StBreak ==
    ASSUME NEW ls, NEW lock, NEW i, NEW go
    PROVE  Break(St(ls, lock, i, go)) = St(ls, lock, i, "break")
  BY DEF St, Break

\* The element is changed.
LEMMA StBecomes ==
    ASSUME NEW ls, NEW lock, NEW i, NEW go, NEW e
    PROVE  Becomes(St(ls, lock, i, go), e) = St(ReplaceAt(ls, i, e), lock, i, go)
  BY DEF St, Becomes

\* The records the code makes of a lock, field by field.
LEMMA JoinedIs ==
    ASSUME NEW lock \in Lock, NEW l
    PROVE  [lock EXCEPT !.start = IF l.start < @ THEN l.start ELSE @, !.end = IF @ < l.end THEN l.end ELSE @]
           = Joined(lock, l)
<1>1. PICK o, t, a, z : lock = [owner |-> o, type |-> t, start |-> a, end |-> z]
  BY LockFields
<1>2. PICK x : x = IF l.start < a THEN l.start ELSE a
  OBVIOUS
<1>3. PICK y : y = IF z < l.end THEN l.end ELSE z
  OBVIOUS
<1>4. lock.start = a /\ lock.end = z /\ lock.owner = o /\ lock.type = t
  BY <1>1
<1>5. Joined(lock, l) = [owner |-> o, type |-> t, start |-> x, end |-> y]
  BY <1>2, <1>3, <1>4 DEF Joined
<1>6. [lock EXCEPT !.start = x] = [owner |-> o, type |-> t, start |-> x, end |-> z]
  BY <1>1
<1>7. PICK u : u = [owner |-> o, type |-> t, start |-> x, end |-> z]
  OBVIOUS
<1>8. [u EXCEPT !.end = y] = [owner |-> o, type |-> t, start |-> x, end |-> y] /\ u.end = z
  BY <1>7
<1>9. [lock EXCEPT !.start = IF l.start < @ THEN l.start ELSE @] = u
  BY <1>2, <1>4, <1>6, <1>7
<1>10. [u EXCEPT !.end = IF @ < l.end THEN l.end ELSE @] = [u EXCEPT !.end = y]
  BY <1>3, <1>8
<1>11. [lock EXCEPT !.start = IF l.start < @ THEN l.start ELSE @, !.end = IF @ < l.end THEN l.end ELSE @]
       = [u EXCEPT !.end = IF @ < l.end THEN l.end ELSE @]
  BY <1>9
<1> QED
  BY <1>5, <1>8, <1>10, <1>11

\* The same of what is left in front.
LEMMA FrontIs ==
    ASSUME NEW l \in Lock, NEW lock
    PROVE  [l EXCEPT !.end = lock.start - 1] = FrontOf(l, lock)
<1>1. PICK o, t, a, z : l = [owner |-> o, type |-> t, start |-> a, end |-> z]
  BY LockFields
<1>2. PICK e : e = lock.start - 1
  OBVIOUS
<1>3. [l EXCEPT !.end = e] = [owner |-> o, type |-> t, start |-> a, end |-> e]
  BY <1>1
<1>4. l.owner = o /\ l.type = t /\ l.start = a
  BY <1>1
<1> QED
  BY <1>2, <1>3, <1>4 DEF FrontOf

\* The same of what is left behind.
LEMMA BackIs ==
    ASSUME NEW l \in Lock, NEW lock
    PROVE  [l EXCEPT !.start = lock.end + 1] = BackOf(l, lock)
<1>1. PICK o, t, a, z : l = [owner |-> o, type |-> t, start |-> a, end |-> z]
  BY LockFields
<1>2. PICK e : e = lock.end + 1
  OBVIOUS
<1>3. [l EXCEPT !.start = e] = [owner |-> o, type |-> t, start |-> e, end |-> z]
  BY <1>1
<1>4. l.owner = o /\ l.type = t /\ l.end = z
  BY <1>1
<1> QED
  BY <1>2, <1>3, <1>4 DEF BackOf

\* One step of the loop, at a lock of the same type.
LEMMA SameTypeIs ==
    ASSUME NEW ls, NEW lock \in Lock, NEW i, NEW l \in Lock, l.owner = lock.owner, l.type = lock.type,
           NEW s, s = St(ls, lock, i, "on")
    PROVE  \/ Apart(l, lock) /\ SameType(s, l) = St(ls, lock, i + 1, "on")
           \/ Apart(lock, l) /\ SameType(s, l) = St(ls, lock, i, "break")
           \/ l.start <= lock.start /\ lock.end <= l.end /\ SameType(s, l) = St(ls, lock, i, "out")
           \/ /\ lock.start - 1 <= l.end /\ l.start - 1 <= lock.end
              /\ SameType(s, l) = St(RemoveAt(ls, i), Joined(lock, l), i, "on")
<1>1. /\ l.start \in Int /\ l.end \in Int /\ lock.start \in Int /\ lock.end \in Int
      /\ l.start <= l.end /\ lock.start <= lock.end
  BY LockFields
<1>2. s.lock = lock
  BY StFields
<1>0. PICK w : w = Joined(lock, l) /\ w = [lock EXCEPT !.start = IF l.start < @ THEN l.start ELSE @,
                                                      !.end = IF @ < l.end THEN l.end ELSE @]
  BY JoinedIs
<1>3. CASE l.end < lock.start - 1
  <2>1. SameType(s, l) = Skip(s)
    BY <1>1, <1>2, <1>3 DEF SameType
  <2>2. Apart(l, lock)
    BY <1>1, <1>3 DEF Apart
  <2>3. Skip(St(ls, lock, i, "on")) = St(ls, lock, i + 1, "on")
    BY StSkip
  <2> QED
    BY <2>1, <2>2, <2>3
<1>4. CASE l.end >= lock.start - 1 /\ lock.end < l.start - 1
  <2>1. SameType(s, l) = Break(s)
    BY <1>1, <1>2, <1>4 DEF SameType
  <2>2. Apart(lock, l)
    BY <1>1, <1>4 DEF Apart
  <2>3. Break(St(ls, lock, i, "on")) = St(ls, lock, i, "break")
    BY StBreak
  <2> QED
    BY <2>1, <2>2, <2>3
<1>5. CASE /\ l.end >= lock.start - 1 /\ lock.end >= l.start - 1
           /\ l.start <= lock.start /\ lock.end <= l.end
  <2>1. SameType(s, l) = [s EXCEPT !.go = "out"]
    BY <1>1, <1>2, <1>5 DEF SameType
  <2>2. [s EXCEPT !.go = "out"] = St(ls, lock, i, "out")
    BY DEF St
  <2> QED
    BY <1>5, <2>1, <2>2
<1>6. CASE /\ l.end >= lock.start - 1 /\ lock.end >= l.start - 1
           /\ ~(l.start <= lock.start /\ lock.end <= l.end)
  <2>1. SameType(s, l) = Delete([s EXCEPT !.lock =
                             [s.lock EXCEPT !.start = IF l.start < @ THEN l.start ELSE @,
                                          !.end = IF @ < l.end THEN l.end ELSE @]])
    <3>1. /\ ~(l.end < s.lock.start - 1)
          /\ ~(l.end >= s.lock.start - 1 /\ s.lock.end < l.start - 1)
          /\ ~(l.start <= s.lock.start /\ s.lock.end <= l.end)
      BY <1>1, <1>2, <1>6
    <3> QED
      BY <3>1, Zenon DEF SameType
  <2>2. [s EXCEPT !.lock = w] = St(ls, w, i, "on")
    BY DEF St
  <2>3. Delete(St(ls, w, i, "on")) = St(RemoveAt(ls, i), w, i, "on")
    BY StDelete
  <2>4. SameType(s, l) = Delete([s EXCEPT !.lock = w])
    BY <1>0, <1>2, <2>1, Zenon
  <2>5. SameType(s, l) = St(RemoveAt(ls, i), Joined(lock, l), i, "on")
    BY <1>0, <2>2, <2>3, <2>4
  <2> QED
    BY <1>1, <1>6, <2>5
<1> QED
  BY <1>1, <1>3, <1>4, <1>5, <1>6

\* One step of the loop, at a lock of another type.
Cut(r, ls, lock, i, l) ==
    \/ Apart(l, lock) /\ r = St(ls, lock, i + 1, "on")
    \/ Apart(lock, l) /\ r = St(ls, lock, i, "break")
    \/ lock.start <= l.start /\ l.end <= lock.end /\ r = St(RemoveAt(ls, i), lock, i, "on")
    \/ /\ l.start < lock.start /\ lock.start <= l.end /\ l.end <= lock.end
       /\ r = St(ReplaceAt(ls, i, FrontOf(l, lock)), lock, i + 1, "on")
    \/ /\ lock.start <= l.start /\ l.start <= lock.end /\ lock.end < l.end
       /\ r = St(ReplaceAt(ls, i, BackOf(l, lock)), lock, i, "break")
    \/ /\ l.start < lock.start /\ lock.end < l.end
       /\ r = St(InsertAt(ReplaceAt(ls, i, FrontOf(l, lock)), i + 1, BackOf(l, lock)), lock, i + 1, "on")

\* The code makes one of these.
LEMMA OtherTypeIs ==
    ASSUME NEW ls, NEW lock \in Lock, NEW i, NEW l \in Lock, l.owner = lock.owner, l.type # lock.type,
           NEW s, s = St(ls, lock, i, "on")
    PROVE  Cut(OtherType(s, l), ls, lock, i, l)
<1>1. /\ l.start \in Int /\ l.end \in Int /\ lock.start \in Int /\ lock.end \in Int
      /\ l.start <= l.end /\ lock.start <= lock.end
  BY LockFields
<1>2. s.lock = lock /\ s.i = i
  BY StFields
<1>20. PICK a \in Int, z \in Int, p \in Int, q \in Int :
         /\ a = l.start /\ z = l.end /\ p = lock.start /\ q = lock.end /\ a <= z /\ p <= q
         /\ s.lock.start = p /\ s.lock.end = q
  BY <1>1, <1>2
<1>22. PICK f : f = FrontOf(l, lock) /\ f = [l EXCEPT !.end = s.lock.start - 1]
  BY <1>2, FrontIs
<1>23. PICK k : k = BackOf(l, lock) /\ k = [l EXCEPT !.start = s.lock.end + 1]
  BY <1>2, BackIs
<1>24. OtherType(s, l) =
         CASE z < p -> Skip(s)
          [] z >= p /\ q < a -> Break(s)
          [] p <= a /\ z <= q -> Delete(s)
          [] p > a /\ p <= z /\ z <= q -> Skip(Becomes(s, f))
          [] p <= a /\ a <= q /\ q < z -> Break(Becomes(s, k))
          [] p > a /\ q < z -> Skip([Becomes(s, f) EXCEPT !.ls = InsertAt(@, s.i + 1, k)])
  BY <1>20, <1>22, <1>23, Zenon DEF OtherType
<1>3. CASE z < p
  <2>1. OtherType(s, l) = Skip(s)
    BY <1>20, <1>24, <1>3
  <2>2. Apart(l, lock)
    BY <1>20, <1>3 DEF Apart
  <2>3. Skip(St(ls, lock, i, "on")) = St(ls, lock, i + 1, "on")
    BY StSkip
  <2> QED
    BY <2>1, <2>2, <2>3 DEF Cut
<1>4. CASE z >= p /\ q < a
  <2>1. OtherType(s, l) = Break(s)
    BY <1>20, <1>24, <1>4
  <2>2. Apart(lock, l)
    BY <1>20, <1>4 DEF Apart
  <2>3. Break(St(ls, lock, i, "on")) = St(ls, lock, i, "break")
    BY StBreak
  <2> QED
    BY <2>1, <2>2, <2>3 DEF Cut
<1>5. CASE p <= a /\ z <= q
  <2>1. OtherType(s, l) = Delete(s)
    BY <1>20, <1>24, <1>5
  <2>2. Delete(St(ls, lock, i, "on")) = St(RemoveAt(ls, i), lock, i, "on")
    BY StDelete
  <2> QED
    BY <1>20, <1>5, <2>1, <2>2 DEF Cut
<1>6. CASE p > a /\ p <= z /\ z <= q
  <2>1. OtherType(s, l) = Skip(Becomes(s, f))
    BY <1>20, <1>24, <1>6
  <2>2. PICK r : r = ReplaceAt(ls, i, f)
    OBVIOUS
  <2>3. Becomes(s, f) = St(r, lock, i, "on")
    BY <2>2, StBecomes
  <2>4. Skip(St(r, lock, i, "on")) = St(r, lock, i + 1, "on")
    BY StSkip
  <2>5. OtherType(s, l) = St(ReplaceAt(ls, i, FrontOf(l, lock)), lock, i + 1, "on")
    BY <1>22, <2>1, <2>2, <2>3, <2>4
  <2> QED
    BY <1>20, <1>6, <2>5 DEF Cut
<1>7. CASE p <= a /\ a <= q /\ q < z
  <2>1. OtherType(s, l) = Break(Becomes(s, k))
    BY <1>20, <1>24, <1>7
  <2>2. PICK r : r = ReplaceAt(ls, i, k)
    OBVIOUS
  <2>3. Becomes(s, k) = St(r, lock, i, "on")
    BY <2>2, StBecomes
  <2>4. Break(St(r, lock, i, "on")) = St(r, lock, i, "break")
    BY StBreak
  <2>5. OtherType(s, l) = St(ReplaceAt(ls, i, BackOf(l, lock)), lock, i, "break")
    BY <1>23, <2>1, <2>2, <2>3, <2>4
  <2> QED
    BY <1>20, <1>7, <2>5 DEF Cut
<1>8. CASE p > a /\ q < z
  <2>1. OtherType(s, l) = Skip([Becomes(s, f) EXCEPT !.ls = InsertAt(@, s.i + 1, k)])
    BY <1>20, <1>24, <1>8
  <2>2. PICK r : r = ReplaceAt(ls, i, f)
    OBVIOUS
  <2>3. Becomes(s, f) = St(r, lock, i, "on")
    BY <2>2, StBecomes
  <2>4. PICK u : u = InsertAt(r, i + 1, k)
    OBVIOUS
  <2>5. St(r, lock, i, "on").ls = r
    BY StFields
  <2>6. [St(r, lock, i, "on") EXCEPT !.ls = u] = St(u, lock, i, "on")
    BY DEF St
  <2>7. [St(r, lock, i, "on") EXCEPT !.ls = InsertAt(@, i + 1, k)] = St(u, lock, i, "on")
    BY <2>4, <2>5, <2>6
  <2>8. Skip(St(u, lock, i, "on")) = St(u, lock, i + 1, "on")
    BY StSkip
  <2>9. OtherType(s, l) = Skip(St(u, lock, i, "on"))
    BY <1>2, <2>1, <2>3, <2>7
  <2>10. u = InsertAt(ReplaceAt(ls, i, FrontOf(l, lock)), i + 1, BackOf(l, lock))
    BY <1>22, <1>23, <2>2, <2>4
  <2> QED
    BY <1>20, <1>8, <2>8, <2>9, <2>10 DEF Cut
<1>9. z < p \/ (z >= p /\ q < a) \/ (p <= a /\ z <= q) \/ (p > a /\ p <= z /\ z <= q)
      \/ (p <= a /\ a <= q /\ q < z) \/ (p > a /\ q < z)
  BY <1>20
<1> QED
  BY <1>3, <1>4, <1>5, <1>6, <1>7, <1>8, <1>9 DEF Cut

\* Entering, by its parts.
EntersAt(ls, lock, i, lock0) ==
    /\ InOrder(ls) /\ ls \in Seq(Kept) /\ Len(ls) \in Nat /\ lock \in Lock
    /\ lock.owner = lock0.owner /\ lock.type = lock0.type
    /\ i \in 1..(Len(ls) + 1) /\ i \in Nat
    /\ \A j \in 1..(i - 1) : Apart(ls[j], lock)
    /\ \A j \in 1..Len(ls) : ls[j] \in Lock /\ ls[j] \in Kept
    /\ \A j, m \in 1..Len(ls) : j < m => Apart(ls[j], ls[m])

\* They follow.
LEMMA EnterFacts ==
    ASSUME NEW ls0, NEW lock0 \in Lock, NEW ls, NEW lock, NEW i, Entering(ls, lock, i, ls0, lock0)
    PROVE  EntersAt(ls, lock, i, lock0)
<1>1. /\ InOrder(ls) /\ lock \in Lock /\ lock.owner = lock0.owner /\ lock.type = lock0.type
      /\ i \in 1..(Len(ls) + 1) /\ \A j \in 1..(i - 1) : Apart(ls[j], lock)
  BY DEF Entering
<1>2. ls \in Seq(Kept) /\ \A j, m \in 1..Len(ls) : j < m => Apart(ls[j], ls[m])
  BY <1>1 DEF InOrder
<1>3. Len(ls) \in Nat /\ i \in Nat
  BY <1>1, <1>2
<1>4. \A j \in 1..Len(ls) : ls[j] \in Lock /\ ls[j] \in Kept
  BY <1>2 DEF Kept
<1> QED
  BY <1>1, <1>2, <1>3, <1>4 DEF EntersAt

\* The loop goes past a lock that is in front of the new one.
LEMMA EnterSkip ==
    ASSUME NEW ls0, NEW lock0 \in Lock, NEW ls, NEW lock, NEW i, Entering(ls, lock, i, ls0, lock0),
           i <= Len(ls), Apart(ls[i], lock)
    PROVE  Entering(ls, lock, i + 1, ls0, lock0)
<1>1. /\ Len(ls) \in Nat /\ i \in 1..(Len(ls) + 1) /\ \A j \in 1..(i - 1) : Apart(ls[j], lock)
  BY EnterFacts DEF EntersAt
<1>2. i + 1 \in 1..(Len(ls) + 1) /\ \A j \in 1..((i + 1) - 1) : j = i \/ j \in 1..(i - 1)
  BY <1>1
<1>3. \A j \in 1..((i + 1) - 1) : Apart(ls[j], lock)
  BY <1>1, <1>2
<1> QED
  BY <1>2, <1>3 DEF Entering

\* What a lock of another type loses, it loses where the new one was asked for.
LEMMA CutSays ==
    ASSUME NEW ls0, InOrder(ls0), NEW lock0 \in Lock, NEW ls, NEW lock, NEW i,
           Entering(ls, lock, i, ls0, lock0), NEW m \in 1..Len(ls),
           ls[m].owner = lock.owner, ls[m].type # lock.type, NEW r,
           \A o \in Owner, t \in LockType, b \in Byte : Has(r, o, t, b) => Has(ls, o, t, b),
           \A o \in Owner, t \in LockType, b \in Byte :
              Has(ls, o, t, b) => Has(r, o, t, b) \/ (Gives(ls[m], o, t, b) /\ Covers(lock, b))
    PROVE  Says(r, lock, ls0, lock0)
<1>1. lock.owner = lock0.owner /\ lock.type = lock0.type
  BY DEF Entering
<1>2. Says(ls, lock, ls0, lock0)
  BY DEF Entering
<1>3. lock0.owner \in Owner /\ lock0.type \in LockType
  BY LockFields
<1>4. ASSUME NEW o \in Owner \ {lock0.owner}, NEW t \in LockType, NEW b \in Byte
      PROVE  Has(r, o, t, b) <=> Has(ls0, o, t, b)
  <2>1. ~Gives(ls[m], o, t, b)
    BY <1>1 DEF Gives
  <2>2. Has(ls, o, t, b) <=> Has(ls0, o, t, b)
    BY <1>2 DEF Says
  <2> QED
    BY <2>1, <2>2
<1>5. ASSUME NEW t \in LockType \ {lock0.type}, NEW b \in Byte, ~Covers(lock0, b)
      PROVE  Has(r, lock0.owner, t, b) <=> Has(ls0, lock0.owner, t, b)
  <2>1. ~(Gives(ls[m], lock0.owner, t, b) /\ Covers(lock, b))
    <3>1. SUFFICES ASSUME Gives(ls[m], lock0.owner, t, b), Covers(lock, b)
                   PROVE  FALSE
      OBVIOUS
    <3>2. Covers(ls[m], b)
      BY <3>1 DEF Gives
    <3>3. Covers(lock0, b)
      BY <3>1, <3>2, Meet
    <3> QED
      BY <1>5, <3>3
  <2>2. Has(ls, lock0.owner, t, b) <=> Has(ls0, lock0.owner, t, b)
    BY <1>2, <1>5 DEF Says
  <2> QED
    BY <1>3, <2>1, <2>2
<1>6. ASSUME NEW b \in Byte, ~Covers(lock0, b)
      PROVE  Has(r, lock0.owner, lock0.type, b) \/ Covers(lock, b) <=> Has(ls0, lock0.owner, lock0.type, b)
  <2>1. ~Gives(ls[m], lock0.owner, lock0.type, b)
    BY <1>1 DEF Gives
  <2>2. Has(ls, lock0.owner, lock0.type, b) \/ Covers(lock, b) <=> Has(ls0, lock0.owner, lock0.type, b)
    BY <1>2, <1>6 DEF Says
  <2> QED
    BY <1>3, <2>1, <2>2
<1>7. \A b \in Byte : Covers(lock0, b) => Covers(lock, b)
  BY <1>2 DEF Says
<1> QED
  BY <1>4, <1>5, <1>6, <1>7 DEF Says

\* A lock within the new one goes.
LEMMA EnterDelete ==
    ASSUME NEW ls0, InOrder(ls0), NEW lock0 \in Lock, NEW ls, NEW lock, NEW i,
           Entering(ls, lock, i, ls0, lock0), i <= Len(ls), NEW l, l = ls[i],
           l.owner = lock.owner, l.type # lock.type, lock.start <= l.start, l.end <= lock.end
    PROVE  Entering(RemoveAt(ls, i), lock, i, ls0, lock0)
<1>b. EntersAt(ls, lock, i, lock0)
  BY EnterFacts
<1>0. /\ InOrder(ls) /\ ls \in Seq(Kept) /\ Len(ls) \in Nat /\ lock \in Lock
      /\ lock.owner = lock0.owner /\ lock.type = lock0.type
      /\ i \in 1..(Len(ls) + 1) /\ i \in Nat /\ \A j \in 1..(i - 1) : Apart(ls[j], lock)
      /\ \A j \in 1..Len(ls) : ls[j] \in Lock /\ ls[j] \in Kept
  BY <1>b DEF EntersAt
<1>a. i \in 1..Len(ls)
  BY <1>0
<1>1. /\ InOrder(ls) /\ ls \in Seq(Kept) /\ Len(ls) \in Nat /\ lock \in Lock
      /\ lock.owner = lock0.owner /\ lock.type = lock0.type
      /\ i \in 1..Len(ls) /\ i \in Nat /\ \A j \in 1..(i - 1) : Apart(ls[j], lock)
      /\ l \in Lock
  BY <1>0, <1>a
<1>2. PICK r : r = RemoveAt(ls, i) /\ Len(r) = Len(ls) - 1
               /\ \A j \in 1..(Len(ls) - 1) : r[j] = IF j < i THEN ls[j] ELSE ls[j + 1]
  BY <1>1, RemoveAtIs
<1>3. InOrder(r)
  BY <1>1, <1>2, RemoveOrder
<1>4. i \in 1..(Len(r) + 1) /\ \A j \in 1..(i - 1) : r[j] = ls[j]
  BY <1>1, <1>2
<1>5. \A j \in 1..(i - 1) : Apart(r[j], lock)
  BY <1>1, <1>4
<1>6. \A o \in Owner, t \in LockType, b \in Byte : Has(ls, o, t, b) <=> Has(r, o, t, b) \/ Gives(l, o, t, b)
  BY <1>1, <1>2, RemoveHas
<1>7. ASSUME NEW b \in Byte, Covers(l, b)
      PROVE  Covers(lock, b)
  <2>1. b \in Int
    BY LocksAssumption DEF Byte
  <2> QED
    BY <1>1, <1>7, <2>1, LockFields DEF Covers
<1>8. Says(r, lock, ls0, lock0)
  <2>1. \A o \in Owner, t \in LockType, b \in Byte :
           Has(ls, o, t, b) => Has(r, o, t, b) \/ (Gives(ls[i], o, t, b) /\ Covers(lock, b))
    BY <1>6, <1>7 DEF Gives
  <2>2. \A o \in Owner, t \in LockType, b \in Byte : Has(r, o, t, b) => Has(ls, o, t, b)
    BY <1>6
  <2> QED
    BY <1>1, <2>1, <2>2, CutSays
<1> QED
  BY <1>1, <1>2, <1>3, <1>4, <1>5, <1>8 DEF Entering

\* What is left of a lock that the new one cuts.
LEMMA PartsOfLock ==
    ASSUME NEW l \in Kept, NEW lock \in Lock, l.owner = lock.owner
    PROVE  /\ l.start < lock.start /\ lock.start <= l.end => FrontOf(l, lock) \in Kept
           /\ lock.end < l.end /\ l.start <= lock.end => BackOf(l, lock) \in Kept
           /\ FrontOf(l, lock).owner = l.owner /\ FrontOf(l, lock).type = l.type
           /\ FrontOf(l, lock).start = l.start /\ FrontOf(l, lock).end = lock.start - 1
           /\ BackOf(l, lock).owner = l.owner /\ BackOf(l, lock).type = l.type
           /\ BackOf(l, lock).start = lock.end + 1 /\ BackOf(l, lock).end = l.end
<1>1. PICK o \in Owner, t \in LockType, a \in Int, z \in Int : /\ o = l.owner /\ t = l.type /\ a = l.start /\ z = l.end
                                    /\ o \in Owner /\ t \in LockType /\ t # UNLCK /\ a \in Byte /\ z \in Byte
  <2>1. l \in Lock /\ l.type # UNLCK
    BY DEF Kept
  <2> QED
    BY <2>1, LockFields
<1>2. PICK p \in Int, q \in Int : /\ p = lock.start /\ q = lock.end /\ p \in Byte /\ q \in Byte /\ p <= q
  BY LockFields
<1>3. PICK e : e = p - 1
  OBVIOUS
<1>4. PICK d : d = q + 1
  OBVIOUS
<1>5. FrontOf(l, lock) = [owner |-> o, type |-> t, start |-> a, end |-> e]
  BY <1>1, <1>2, <1>3 DEF FrontOf
<1>6. BackOf(l, lock) = [owner |-> o, type |-> t, start |-> d, end |-> z]
  BY <1>1, <1>2, <1>4 DEF BackOf
<1>7. a < p => e \in Byte /\ a <= e
  BY <1>1, <1>2, <1>3, LocksAssumption DEF Byte
<1>8. q < z => d \in Byte /\ d <= z
  BY <1>1, <1>2, <1>4, LocksAssumption DEF Byte
<1>9. a < p => FrontOf(l, lock) \in Kept
  <2>1. SUFFICES ASSUME a < p
                 PROVE  FrontOf(l, lock) \in Kept
    OBVIOUS
  <2>2. e \in Byte /\ a <= e
    BY <1>7, <2>1
  <2> QED
    BY <1>1, <1>5, <2>2 DEF Kept, Lock
<1>10. q < z => BackOf(l, lock) \in Kept
  <2>1. SUFFICES ASSUME q < z
                 PROVE  BackOf(l, lock) \in Kept
    OBVIOUS
  <2>2. d \in Byte /\ d <= z
    BY <1>8, <2>1
  <2> QED
    BY <1>1, <1>6, <2>2 DEF Kept, Lock
<1>11. /\ FrontOf(l, lock).owner = l.owner /\ FrontOf(l, lock).type = l.type
       /\ FrontOf(l, lock).start = l.start /\ FrontOf(l, lock).end = lock.start - 1
  BY <1>1, <1>2, <1>3, <1>5
<1>12. /\ BackOf(l, lock).owner = l.owner /\ BackOf(l, lock).type = l.type
       /\ BackOf(l, lock).start = lock.end + 1 /\ BackOf(l, lock).end = l.end
  BY <1>1, <1>2, <1>4, <1>6
<1> QED
  BY <1>1, <1>2, <1>9, <1>10, <1>11, <1>12

\* The locks behind one that ends behind the new lock are behind the new lock.
LEMMA ApartAfter ==
    ASSUME NEW ls, InOrder(ls), NEW lock \in Lock, NEW i \in 1..Len(ls), ls[i].owner = lock.owner,
           lock.end < ls[i].end, NEW j \in 1..Len(ls), i < j
    PROVE  Apart(lock, ls[j])
<1>1. Apart(ls[i], ls[j]) /\ ls[i] \in Lock /\ ls[j] \in Lock
  BY DEF InOrder, Kept
<1> QED
  BY <1>1, LockFields DEF Apart

\* Lists of locks where one is replaced, or one put in.
LockReplaced(r, ls, i, f) ==
    /\ r \in Seq(Kept) /\ Len(r) = Len(ls)
    /\ \A j \in 1..Len(ls) : r[j] = IF j = i THEN f ELSE ls[j]
Entered(r, ls, i, f) ==
    /\ r \in Seq(Kept) /\ Len(r) = Len(ls) + 1
    /\ \A j \in 1..(Len(ls) + 1) : r[j] = IF j < i THEN ls[j] ELSE IF j = i THEN f ELSE ls[j - 1]

\* ReplaceAt makes the one.
LEMMA IsReplaced ==
    ASSUME NEW ls \in Seq(Kept), NEW i \in 1..Len(ls), NEW f \in Kept
    PROVE  LockReplaced(ReplaceAt(ls, i, f), ls, i, f)
<1>1. ChangedAt(ReplaceAt(ls, i, f), Kept, ls, i, f)
  BY ReplaceAtIs
<1> QED
  BY <1>1, Zenon DEF LockReplaced, ChangedAt

\* InsertAt makes the other.
LEMMA IsEntered ==
    ASSUME NEW ls \in Seq(Kept), NEW i \in 1..(Len(ls) + 1), NEW f \in Kept
    PROVE  Entered(InsertAt(ls, i, f), ls, i, f)
<1>1. /\ InsertAt(ls, i, f) \in Seq(Kept) /\ Len(InsertAt(ls, i, f)) = Len(ls) + 1
      /\ \A j \in 1..(Len(ls) + 1) :
           InsertAt(ls, i, f)[j] = IF j < i THEN ls[j] ELSE IF j = i THEN f ELSE ls[j - 1]
  BY InsertAtIs
<1> QED
  BY <1>1 DEF Entered

\* A lock that begins in front of the new one keeps its front.
LEMMA EnterFront ==
    ASSUME NEW ls0, InOrder(ls0), NEW lock0 \in Lock, NEW ls, NEW lock, NEW i,
           Entering(ls, lock, i, ls0, lock0), i <= Len(ls), NEW l, l = ls[i],
           l.owner = lock.owner, l.type # lock.type, l.start < lock.start, lock.start <= l.end, l.end <= lock.end,
           NEW f, f = FrontOf(l, lock)
    PROVE  Entering(ReplaceAt(ls, i, f), lock, i + 1, ls0, lock0) /\ Len(ReplaceAt(ls, i, f)) = Len(ls)
<1>b. EntersAt(ls, lock, i, lock0)
  BY EnterFacts
<1>0. /\ InOrder(ls) /\ ls \in Seq(Kept) /\ Len(ls) \in Nat /\ lock \in Lock
      /\ lock.owner = lock0.owner /\ lock.type = lock0.type
      /\ i \in 1..(Len(ls) + 1) /\ i \in Nat /\ \A j \in 1..(i - 1) : Apart(ls[j], lock)
      /\ \A j \in 1..Len(ls) : ls[j] \in Lock /\ ls[j] \in Kept
  BY <1>b DEF EntersAt
<1>a. i \in 1..Len(ls)
  BY <1>0
<1>1. l \in Lock /\ l \in Kept
  BY <1>0, <1>a
<1>2. /\ l.start \in Int /\ l.end \in Int /\ lock.start \in Int /\ lock.end \in Int
      /\ l.start <= l.end /\ lock.start <= lock.end
  BY <1>0, <1>1, LockFields
<1>3. /\ f \in Kept /\ f.owner = l.owner /\ f.type = l.type /\ f.start = l.start /\ f.end = lock.start - 1
  BY <1>0, <1>1, PartsOfLock
<1>4. PICK r \in Seq(Kept) : r = ReplaceAt(ls, i, f) /\ Len(r) = Len(ls)
                             /\ \A j \in 1..Len(ls) : r[j] = IF j = i THEN f ELSE ls[j]
  <2>1. ls \in Seq(Kept) /\ f \in Kept
    BY <1>0, <1>3
  <2>2. LockReplaced(ReplaceAt(ls, i, f), ls, i, f)
    BY <1>a, <2>1, IsReplaced
  <2> QED
    BY <2>2 DEF LockReplaced
<1>5. InOrder(r)
  <2>1. ls[i].start <= f.start /\ f.end <= ls[i].end
    BY <1>2, <1>3
  <2>2. InOrder(ReplaceAt(ls, i, f))
    BY <1>0, <1>a, <1>3, <2>1, ReplaceOrder
  <2> QED
    BY <1>4, <2>2
<1>6. \A j \in 1..((i + 1) - 1) : Apart(r[j], lock)
  <2>1. SUFFICES ASSUME NEW j \in 1..i
                 PROVE  Apart(r[j], lock)
    BY <1>0
  <2>2. CASE j = i
    <3>1. r[j] = f
      BY <1>4, <1>a, <2>2
    <3> QED
      BY <1>2, <1>3, <3>1 DEF Apart
  <2>3. CASE j # i
    <3>1. j \in 1..(i - 1) /\ j \in 1..Len(ls)
      BY <1>0, <1>a, <2>3
    <3>2. r[j] = ls[j]
      BY <1>4, <2>3, <3>1
    <3> QED
      BY <1>0, <3>1, <3>2
  <2> QED
    BY <2>2, <2>3
<1>7. ASSUME NEW o \in Owner, NEW t \in LockType, NEW b \in Byte
      PROVE  /\ Has(r, o, t, b) => Has(ls, o, t, b)
             /\ Has(ls, o, t, b) => Has(r, o, t, b) \/ (Gives(l, o, t, b) /\ Covers(lock, b))
  <2>1. Has(ls, o, t, b) <=> Has(RemoveAt(ls, i), o, t, b) \/ Gives(l, o, t, b)
    BY <1>0, <1>a, RemoveHas
  <2>2. Has(r, o, t, b) <=> Has(RemoveAt(ls, i), o, t, b) \/ Gives(f, o, t, b)
    BY <1>0, <1>a, <1>3, <1>4, ReplaceHas
  <2>3. b \in Int
    BY LocksAssumption DEF Byte
  <2>4. Gives(f, o, t, b) => Gives(l, o, t, b)
    BY <1>2, <1>3, <2>3 DEF Gives, Covers
  <2>5. Gives(l, o, t, b) => Gives(f, o, t, b) \/ Covers(lock, b)
    BY <1>2, <1>3, <2>3 DEF Gives, Covers
  <2> QED
    BY <2>1, <2>2, <2>4, <2>5
<1>8. Says(r, lock, ls0, lock0)
  <2>1. \A o \in Owner, t \in LockType, b \in Byte :
           Has(ls, o, t, b) => Has(r, o, t, b) \/ (Gives(ls[i], o, t, b) /\ Covers(lock, b))
    BY <1>7
  <2>2. \A o \in Owner, t \in LockType, b \in Byte : Has(r, o, t, b) => Has(ls, o, t, b)
    BY <1>7
  <2> QED
    BY <1>a, <2>1, <2>2, CutSays
<1>9. i + 1 \in 1..(Len(r) + 1)
  BY <1>0, <1>a, <1>4
<1>10. Entering(r, lock, i + 1, ls0, lock0)
  BY <1>0, <1>5, <1>6, <1>8, <1>9 DEF Entering
<1> QED
  BY <1>4, <1>10

\* One that ends behind it keeps its back, and the new lock goes in front of it.
LEMMA EnterBack ==
    ASSUME NEW ls0, InOrder(ls0), NEW lock0 \in Lock, NEW ls, NEW lock, NEW i,
           Entering(ls, lock, i, ls0, lock0), i <= Len(ls), NEW l, l = ls[i],
           l.owner = lock.owner, l.type # lock.type, lock.start <= l.start, l.start <= lock.end, lock.end < l.end,
           NEW f, f = BackOf(l, lock)
    PROVE  /\ Entering(ReplaceAt(ls, i, f), lock, i, ls0, lock0) /\ Len(ReplaceAt(ls, i, f)) = Len(ls)
           /\ \A j \in i..Len(ls) : Apart(lock, ReplaceAt(ls, i, f)[j])
<1>b. EntersAt(ls, lock, i, lock0)
  BY EnterFacts
<1>0. /\ InOrder(ls) /\ ls \in Seq(Kept) /\ Len(ls) \in Nat /\ lock \in Lock
      /\ lock.owner = lock0.owner /\ lock.type = lock0.type
      /\ i \in 1..(Len(ls) + 1) /\ i \in Nat /\ \A j \in 1..(i - 1) : Apart(ls[j], lock)
      /\ \A j \in 1..Len(ls) : ls[j] \in Lock /\ ls[j] \in Kept
  BY <1>b DEF EntersAt
<1>a. i \in 1..Len(ls)
  BY <1>0
<1>1. l \in Lock /\ l \in Kept
  BY <1>0, <1>a
<1>2. /\ l.start \in Int /\ l.end \in Int /\ lock.start \in Int /\ lock.end \in Int
      /\ l.start <= l.end /\ lock.start <= lock.end
  BY <1>0, <1>1, LockFields
<1>3. /\ f \in Kept /\ f.owner = l.owner /\ f.type = l.type /\ f.start = lock.end + 1 /\ f.end = l.end
  BY <1>0, <1>1, PartsOfLock
<1>4. PICK r \in Seq(Kept) : r = ReplaceAt(ls, i, f) /\ Len(r) = Len(ls)
                             /\ \A j \in 1..Len(ls) : r[j] = IF j = i THEN f ELSE ls[j]
  <2>1. ls \in Seq(Kept) /\ f \in Kept
    BY <1>0, <1>3
  <2>2. LockReplaced(ReplaceAt(ls, i, f), ls, i, f)
    BY <1>a, <2>1, IsReplaced
  <2> QED
    BY <2>2 DEF LockReplaced
<1>5. InOrder(r)
  <2>1. ls[i].start <= f.start /\ f.end <= ls[i].end
    BY <1>2, <1>3
  <2>2. InOrder(ReplaceAt(ls, i, f))
    BY <1>0, <1>a, <1>3, <2>1, ReplaceOrder
  <2> QED
    BY <1>4, <2>2
<1>6. \A j \in 1..(i - 1) : Apart(r[j], lock)
  <2>1. SUFFICES ASSUME NEW j \in 1..(i - 1)
                 PROVE  Apart(r[j], lock)
    BY <1>0
  <2>2. j \in 1..Len(ls) /\ j # i
    BY <1>0, <1>a
  <2>3. r[j] = ls[j]
    BY <1>4, <2>2
  <2> QED
    BY <1>0, <2>3
<1>7. ASSUME NEW o \in Owner, NEW t \in LockType, NEW b \in Byte
      PROVE  /\ Has(r, o, t, b) => Has(ls, o, t, b)
             /\ Has(ls, o, t, b) => Has(r, o, t, b) \/ (Gives(l, o, t, b) /\ Covers(lock, b))
  <2>1. Has(ls, o, t, b) <=> Has(RemoveAt(ls, i), o, t, b) \/ Gives(l, o, t, b)
    BY <1>0, <1>a, RemoveHas
  <2>2. Has(r, o, t, b) <=> Has(RemoveAt(ls, i), o, t, b) \/ Gives(f, o, t, b)
    BY <1>0, <1>a, <1>3, <1>4, ReplaceHas
  <2>3. b \in Int
    BY LocksAssumption DEF Byte
  <2>4. Gives(f, o, t, b) => Gives(l, o, t, b)
    BY <1>2, <1>3, <2>3 DEF Gives, Covers
  <2>5. Gives(l, o, t, b) => Gives(f, o, t, b) \/ Covers(lock, b)
    BY <1>2, <1>3, <2>3 DEF Gives, Covers
  <2> QED
    BY <2>1, <2>2, <2>4, <2>5
<1>8. Says(r, lock, ls0, lock0)
  <2>1. \A o \in Owner, t \in LockType, b \in Byte :
           Has(ls, o, t, b) => Has(r, o, t, b) \/ (Gives(ls[i], o, t, b) /\ Covers(lock, b))
    BY <1>7
  <2>2. \A o \in Owner, t \in LockType, b \in Byte : Has(r, o, t, b) => Has(ls, o, t, b)
    BY <1>7
  <2> QED
    BY <1>a, <2>1, <2>2, CutSays
<1>9. ASSUME NEW j \in i..Len(ls)
      PROVE  Apart(lock, r[j])
  <2>1. j \in 1..Len(ls) /\ (j = i \/ i < j)
    BY <1>0
  <2>2. CASE j = i
    <3>1. r[j] = f
      BY <1>4, <1>a, <2>2
    <3> QED
      BY <1>2, <1>3, <3>1 DEF Apart
  <2>3. CASE i < j
    <3>1. r[j] = ls[j]
      BY <1>0, <1>4, <2>1, <2>3
    <3>2. Apart(lock, ls[j])
      BY <1>0, <1>a, <2>1, <2>3, ApartAfter
    <3> QED
      BY <3>1, <3>2
  <2> QED
    BY <2>1, <2>2, <2>3
<1>10. Entering(r, lock, i, ls0, lock0)
  BY <1>0, <1>4, <1>5, <1>6, <1>8 DEF Entering
<1> QED
  BY <1>4, <1>9, <1>10

\* One around it is cut in two.
LEMMA EnterSplit ==
    ASSUME NEW ls0, InOrder(ls0), NEW lock0 \in Lock, NEW ls, NEW lock, NEW i,
           Entering(ls, lock, i, ls0, lock0), i <= Len(ls), NEW l, l = ls[i],
           l.owner = lock.owner, l.type # lock.type, l.start < lock.start, lock.end < l.end,
           NEW f, f = FrontOf(l, lock), NEW g, g = BackOf(l, lock), NEW r, r = InsertAt(ReplaceAt(ls, i, f), i + 1, g)
    PROVE  Entering(r, lock, i + 1, ls0, lock0) /\ Len(r) = Len(ls) + 1 /\ r[i + 1] = g
           /\ g.owner = lock.owner /\ g.type # lock.type /\ lock.end < g.start
<1>b. EntersAt(ls, lock, i, lock0)
  BY EnterFacts
<1>0. /\ InOrder(ls) /\ ls \in Seq(Kept) /\ Len(ls) \in Nat /\ lock \in Lock
      /\ lock.owner = lock0.owner /\ lock.type = lock0.type
      /\ i \in 1..(Len(ls) + 1) /\ i \in Nat /\ \A j \in 1..(i - 1) : Apart(ls[j], lock)
      /\ \A j \in 1..Len(ls) : ls[j] \in Lock /\ ls[j] \in Kept
  BY <1>b DEF EntersAt
<1>a. i \in 1..Len(ls)
  BY <1>0
<1>1. l \in Lock /\ l \in Kept
  BY <1>0, <1>a
<1>2. /\ l.start \in Int /\ l.end \in Int /\ lock.start \in Int /\ lock.end \in Int
      /\ l.start <= l.end /\ lock.start <= lock.end
  BY <1>0, <1>1, LockFields
<1>3. /\ f \in Kept /\ f.owner = l.owner /\ f.type = l.type /\ f.start = l.start /\ f.end = lock.start - 1
      /\ g \in Kept /\ g.owner = l.owner /\ g.type = l.type /\ g.start = lock.end + 1 /\ g.end = l.end
  <2>1. lock.start <= l.end /\ l.start <= lock.end
    BY <1>2
  <2> QED
    BY <1>0, <1>1, <2>1, PartsOfLock
<1>4. PICK q \in Seq(Kept) : q = ReplaceAt(ls, i, f) /\ Len(q) = Len(ls)
                             /\ \A j \in 1..Len(ls) : q[j] = IF j = i THEN f ELSE ls[j]
  <2>1. ls \in Seq(Kept) /\ f \in Kept
    BY <1>0, <1>3
  <2>2. LockReplaced(ReplaceAt(ls, i, f), ls, i, f)
    BY <1>a, <2>1, IsReplaced
  <2> QED
    BY <2>2 DEF LockReplaced
<1>5. InOrder(q)
  <2>1. ls[i].start <= f.start /\ f.end <= ls[i].end
    BY <1>2, <1>3
  <2>2. InOrder(ReplaceAt(ls, i, f))
    BY <1>0, <1>a, <1>3, <2>1, ReplaceOrder
  <2> QED
    BY <1>4, <2>2
<1>6. i + 1 \in 1..(Len(q) + 1)
  BY <1>0, <1>a, <1>4
<1>7. /\ Len(r) = Len(ls) + 1
      /\ \A j \in 1..(Len(ls) + 1) : r[j] = IF j < i + 1 THEN q[j] ELSE IF j = i + 1 THEN g ELSE q[j - 1]
  <2>0. g \in Kept
    BY <1>3
  <2>1. Entered(InsertAt(q, i + 1, g), q, i + 1, g)
    BY <1>6, <2>0, IsEntered
  <2>2. r = InsertAt(q, i + 1, g) /\ Len(q) = Len(ls)
    BY <1>4
  <2>3. Entered(r, q, i + 1, g)
    BY <2>1, <2>2
  <2> QED
    BY <2>2, <2>3 DEF Entered
<1>8. /\ r[i + 1] = g /\ r[i] = f /\ \A j \in 1..(i - 1) : r[j] = ls[j]
  <2>1. r[i + 1] = g
    BY <1>0, <1>a, <1>7
  <2>2. r[i] = q[i] /\ q[i] = f
    BY <1>0, <1>a, <1>4, <1>7
  <2>3. \A j \in 1..(i - 1) : j \in 1..Len(ls) /\ j \in 1..(Len(ls) + 1) /\ j < i + 1 /\ j # i
    BY <1>0, <1>a
  <2>4. \A j \in 1..(i - 1) : r[j] = ls[j]
    BY <1>4, <1>7, <2>3
  <2> QED
    BY <2>1, <2>2, <2>4
<1>9. InOrder(r)
  <2>1. \A j \in 1..Len(ls) : /\ j < i => Apart(ls[j], l)
                              /\ i < j => Apart(l, ls[j])
    BY <1>0, <1>a DEF InOrder
  <2>2. ASSUME NEW j \in 1..((i + 1) - 1)
        PROVE  Apart(q[j], g)
    <3>0. j \in 1..Len(ls)
      BY <1>0, <1>a
    <3>1. CASE j = i
      <4>1. q[j] = f
        BY <1>4, <3>0, <3>1
      <4> QED
        BY <1>2, <1>3, <4>1 DEF Apart
    <3>2. CASE j # i
      <4>1. q[j] = ls[j] /\ Apart(ls[j], l) /\ ls[j] \in Lock
        BY <1>0, <1>4, <2>1, <3>0, <3>2
      <4>2. ls[j].end \in Int
        BY <4>1, LockFields
      <4>3. g.owner = l.owner /\ g.type = l.type /\ g.start = lock.end + 1
        BY <1>3
      <4>4. l.start \in Int /\ g.start \in Int /\ l.start < g.start
        <5>1. l.start < lock.end
          BY <1>2
        <5> QED
          BY <1>2, <4>3, <5>1
      <4>5. ASSUME ls[j].owner = g.owner
            PROVE  ls[j].end < g.start /\ (ls[j].type = g.type => ls[j].end < g.start - 1)
        <5>1. ls[j].end < l.start /\ (ls[j].type = l.type => ls[j].end < l.start - 1)
          BY <4>1, <4>3, <4>5 DEF Apart
        <5>2. ls[j].end < g.start
          BY <4>2, <4>4, <5>1
        <5>3. ls[j].end < l.start - 1 => ls[j].end < g.start - 1
          BY <4>2, <4>4
        <5> QED
          BY <4>3, <5>1, <5>2, <5>3
      <4>6. Apart(ls[j], g)
        BY <4>5 DEF Apart
      <4> QED
        BY <4>1, <4>6
    <3> QED
      BY <3>1, <3>2
  <2>3. ASSUME NEW j \in (i + 1)..Len(q)
        PROVE  Apart(g, q[j])
    <3>1. j \in 1..Len(ls) /\ i < j /\ j # i
      BY <1>0, <1>a, <1>4
    <3>2. q[j] = ls[j] /\ Apart(l, ls[j])
      BY <1>4, <2>1, <3>1
    <3> QED
      BY <1>3, <3>2 DEF Apart
  <2>4. InOrder(InsertAt(q, i + 1, g))
    BY <1>3, <1>5, <1>6, <2>2, <2>3, InsertOrder
  <2> QED
    BY <1>4, <2>4
<1>10. \A j \in 1..((i + 1) - 1) : Apart(r[j], lock)
  <2>1. SUFFICES ASSUME NEW j \in 1..i
                 PROVE  Apart(r[j], lock)
    BY <1>0
  <2>2. CASE j = i
    <3>1. r[j] = f
      BY <1>8, <2>2
    <3> QED
      BY <1>2, <1>3, <3>1 DEF Apart
  <2>3. CASE j # i
    <3>1. j \in 1..(i - 1)
      BY <1>0, <2>3
    <3>2. r[j] = ls[j]
      BY <1>8, <3>1
    <3> QED
      BY <1>0, <3>1, <3>2
  <2> QED
    BY <2>2, <2>3
<1>11. ASSUME NEW o \in Owner, NEW t \in LockType, NEW b \in Byte
      PROVE  /\ Has(r, o, t, b) => Has(ls, o, t, b)
             /\ Has(ls, o, t, b) => Has(r, o, t, b) \/ (Gives(l, o, t, b) /\ Covers(lock, b))
  <2>1. Has(ls, o, t, b) <=> Has(RemoveAt(ls, i), o, t, b) \/ Gives(l, o, t, b)
    BY <1>0, <1>a, RemoveHas
  <2>2. Has(q, o, t, b) <=> Has(RemoveAt(ls, i), o, t, b) \/ Gives(f, o, t, b)
    BY <1>0, <1>a, <1>3, <1>4, ReplaceHas
  <2>6. Has(r, o, t, b) <=> Has(q, o, t, b) \/ Gives(g, o, t, b)
    BY <1>3, <1>4, <1>6, InsertHas
  <2>3. b \in Int
    BY LocksAssumption DEF Byte
  <2>7. Covers(f, b) \/ Covers(g, b) => Covers(l, b)
    <3>1. Covers(f, b) => Covers(l, b)
      BY <1>2, <1>3, <2>3 DEF Covers
    <3>2. Covers(g, b) => Covers(l, b)
      BY <1>2, <1>3, <2>3 DEF Covers
    <3> QED
      BY <3>1, <3>2
  <2>8. Covers(l, b) => Covers(f, b) \/ Covers(g, b) \/ Covers(lock, b)
    BY <1>2, <1>3, <2>3 DEF Covers
  <2>4. Gives(f, o, t, b) \/ Gives(g, o, t, b) => Gives(l, o, t, b)
    BY <1>3, <2>7 DEF Gives
  <2>5. Gives(l, o, t, b) => Gives(f, o, t, b) \/ Gives(g, o, t, b) \/ Covers(lock, b)
    BY <1>3, <2>8 DEF Gives
  <2> QED
    BY <2>1, <2>2, <2>4, <2>5, <2>6
<1>12. Says(r, lock, ls0, lock0)
  <2>1. \A o \in Owner, t \in LockType, b \in Byte :
           Has(ls, o, t, b) => Has(r, o, t, b) \/ (Gives(ls[i], o, t, b) /\ Covers(lock, b))
    BY <1>11
  <2>2. \A o \in Owner, t \in LockType, b \in Byte : Has(r, o, t, b) => Has(ls, o, t, b)
    BY <1>11
  <2> QED
    BY <1>a, <2>1, <2>2, CutSays
<1>13. i + 1 \in 1..(Len(r) + 1)
  BY <1>0, <1>a, <1>7
<1>14. Entering(r, lock, i + 1, ls0, lock0)
  BY <1>0, <1>9, <1>10, <1>12, <1>13 DEF Entering
<1>15. lock.end < g.start
  BY <1>2, <1>3
<1> QED
  BY <1>3, <1>7, <1>8, <1>14, <1>15

\* A lock of the same type that touches the new one becomes part of it.
LEMMA EnterJoin ==
    ASSUME NEW ls0, InOrder(ls0), NEW lock0 \in Lock, NEW ls, NEW lock, NEW i,
           Entering(ls, lock, i, ls0, lock0), i <= Len(ls), NEW l, l = ls[i],
           l.owner = lock.owner, l.type = lock.type, lock.start - 1 <= l.end, l.start - 1 <= lock.end,
           NEW w, w = Joined(lock, l)
    PROVE  Entering(RemoveAt(ls, i), w, i, ls0, lock0)
<1>b. EntersAt(ls, lock, i, lock0)
  BY EnterFacts
<1>0. /\ InOrder(ls) /\ ls \in Seq(Kept) /\ Len(ls) \in Nat /\ lock \in Lock
      /\ lock.owner = lock0.owner /\ lock.type = lock0.type
      /\ i \in 1..(Len(ls) + 1) /\ i \in Nat /\ \A j \in 1..(i - 1) : Apart(ls[j], lock)
      /\ \A j \in 1..Len(ls) : ls[j] \in Lock /\ ls[j] \in Kept
  BY <1>b DEF EntersAt
<1>a. i \in 1..Len(ls)
  BY <1>0
<1>1. l \in Lock /\ l \in Kept
  BY <1>0, <1>a
<1>2. /\ l.start \in Int /\ l.end \in Int /\ lock.start \in Int /\ lock.end \in Int
      /\ l.start <= l.end /\ lock.start <= lock.end
  BY <1>0, <1>1, LockFields
<1>3. /\ w \in Lock /\ w.owner = lock.owner /\ w.type = lock.type
      /\ w.start \in Int /\ w.end \in Int
      /\ w.start = IF l.start < lock.start THEN l.start ELSE lock.start
      /\ w.end = IF lock.end < l.end THEN l.end ELSE lock.end
  <2>1. PICK a \in Int : a = IF l.start < lock.start THEN l.start ELSE lock.start
    BY <1>2
  <2>2. PICK z \in Int : z = IF lock.end < l.end THEN l.end ELSE lock.end
    BY <1>2
  <2>3. a \in Byte /\ z \in Byte /\ a <= z /\ lock.owner \in Owner /\ lock.type \in LockType
    <3>1. /\ lock.owner \in Owner /\ lock.type \in LockType /\ lock.start \in Byte /\ lock.end \in Byte
          /\ l.start \in Byte /\ l.end \in Byte
      BY <1>0, <1>1 DEF Lock
    <3>2. a \in Byte /\ z \in Byte
      BY <2>1, <2>2, <3>1
    <3>3. a <= lock.start /\ lock.end <= z
      BY <1>2, <2>1, <2>2
    <3>4. a <= z
      BY <1>2, <3>3
    <3> QED
      BY <3>1, <3>2, <3>4
  <2>4. w = [owner |-> lock.owner, type |-> lock.type, start |-> a, end |-> z]
    BY <2>1, <2>2 DEF Joined
  <2>5. w.owner = lock.owner /\ w.type = lock.type /\ w.start = a /\ w.end = z
    BY <2>4
  <2>6. w \in Lock
    BY <2>3, <2>4 DEF Lock
  <2> QED
    BY <2>1, <2>2, <2>5, <2>6
<1>4. PICK r : r = RemoveAt(ls, i) /\ Len(r) = Len(ls) - 1
               /\ \A j \in 1..(Len(ls) - 1) : r[j] = IF j < i THEN ls[j] ELSE ls[j + 1]
  BY <1>0, <1>a, RemoveAtIs
<1>5. InOrder(r)
  BY <1>0, <1>a, <1>4, RemoveOrder
<1>6. i \in 1..(Len(r) + 1) /\ \A j \in 1..(i - 1) : r[j] = ls[j]
  BY <1>0, <1>a, <1>4
<1>7. ASSUME NEW j \in 1..(i - 1)
      PROVE  Apart(r[j], w)
  <2>1. r[j] = ls[j] /\ Apart(ls[j], lock) /\ j \in 1..Len(ls) /\ j < i
    BY <1>0, <1>a, <1>6
  <2>2. Apart(ls[j], l) /\ ls[j] \in Lock
    BY <1>0, <1>a, <2>1 DEF InOrder
  <2>3. ls[j].end \in Int
    BY <2>2, LockFields
  <2> QED
    BY <1>2, <1>3, <2>1, <2>2, <2>3 DEF Apart
<1>8. ASSUME NEW b \in Byte
      PROVE  Covers(w, b) <=> Covers(l, b) \/ Covers(lock, b)
  <2>1. b \in Int
    BY LocksAssumption DEF Byte
  <2>2. Covers(l, b) \/ Covers(lock, b) => Covers(w, b)
    <3>1. w.start <= l.start /\ w.start <= lock.start /\ l.end <= w.end /\ lock.end <= w.end
      BY <1>2, <1>3
    <3> QED
      BY <1>2, <1>3, <2>1, <3>1 DEF Covers
  <2>3. Covers(w, b) => Covers(l, b) \/ Covers(lock, b)
    <3>1. CASE b <= l.end /\ b <= lock.end
      BY <1>2, <1>3, <2>1, <3>1 DEF Covers
    <3>2. CASE l.start <= b /\ lock.start <= b
      BY <1>2, <1>3, <2>1, <3>2 DEF Covers
    <3>3. CASE l.end < b /\ b < lock.start
      BY <1>2, <2>1, <3>3
    <3>4. CASE lock.end < b /\ b < l.start
      BY <1>2, <2>1, <3>4
    <3>6. l.end < b => l.start <= b
      BY <1>2, <2>1
    <3>7. lock.end < b => lock.start <= b
      BY <1>2, <2>1
    <3>8. /\ b <= l.end \/ l.end < b
          /\ b <= lock.end \/ lock.end < b
          /\ l.start <= b \/ b < l.start
          /\ lock.start <= b \/ b < lock.start
      BY <1>2, <2>1
    <3> QED
      BY <3>1, <3>2, <3>3, <3>4, <3>6, <3>7, <3>8
  <2> QED
    BY <2>2, <2>3
<1>9. \A o, t, b : Has(ls, o, t, b) <=> Has(r, o, t, b) \/ Gives(l, o, t, b)
  BY <1>0, <1>a, <1>4, RemoveHas
<1>10. Says(ls, lock, ls0, lock0)
  BY DEF Entering
<1>11. Says(r, w, ls0, lock0)
  <2>1. ASSUME NEW o \in Owner \ {lock0.owner}, NEW t \in LockType, NEW b \in Byte
        PROVE  Has(r, o, t, b) <=> Has(ls0, o, t, b)
    <3>1. ~Gives(l, o, t, b)
      BY <1>0 DEF Gives
    <3>2. Has(ls, o, t, b) <=> Has(ls0, o, t, b)
      BY <1>10 DEF Says
    <3> QED
      BY <1>9, <3>1, <3>2
  <2>2. ASSUME NEW t \in LockType \ {lock0.type}, NEW b \in Byte, ~Covers(lock0, b)
        PROVE  Has(r, lock0.owner, t, b) <=> Has(ls0, lock0.owner, t, b)
    <3>1. ~Gives(l, lock0.owner, t, b)
      BY <1>0 DEF Gives
    <3>2. Has(ls, lock0.owner, t, b) <=> Has(ls0, lock0.owner, t, b)
      BY <1>10, <2>2 DEF Says
    <3> QED
      BY <1>9, <3>1, <3>2
  <2>3. ASSUME NEW b \in Byte, ~Covers(lock0, b)
        PROVE  Has(r, lock0.owner, lock0.type, b) \/ Covers(w, b) <=> Has(ls0, lock0.owner, lock0.type, b)
    <3>1. Gives(l, lock0.owner, lock0.type, b) <=> Covers(l, b)
      BY <1>0 DEF Gives
    <3>2. Has(ls, lock0.owner, lock0.type, b) \/ Covers(lock, b) <=> Has(ls0, lock0.owner, lock0.type, b)
      BY <1>10, <2>3 DEF Says
    <3>3. Has(ls, lock0.owner, lock0.type, b) <=> Has(r, lock0.owner, lock0.type, b) \/ Covers(l, b)
      BY <1>9, <3>1
    <3> QED
      BY <1>8, <3>2, <3>3
  <2>4. \A b \in Byte : Covers(lock0, b) => Covers(w, b)
    BY <1>8, <1>10 DEF Says
  <2> QED
    BY <2>1, <2>2, <2>3, <2>4 DEF Says
<1>12. Entering(r, w, i, ls0, lock0)
  BY <1>0, <1>3, <1>5, <1>6, <1>7, <1>11 DEF Entering
<1> QED
  BY <1>4, <1>12

\* A state in which the loop goes on.
LEMMA LoopOn ==
    ASSUME NEW ls0, NEW lock0, NEW ls, NEW lock, NEW i, NEW k,
           Entering(ls, lock, i, ls0, lock0), StepsLeft(ls, lock, i, k, ls0)
    PROVE  Loop(St(ls, lock, i, "on"), k, ls0, lock0)
<1>1. PICK s : s = St(ls, lock, i, "on")
  OBVIOUS
<1>2. s.ls = ls /\ s.lock = lock /\ s.i = i /\ s.go = "on"
  BY <1>1, StFields
<1>3. Loop(s, k, ls0, lock0)
  BY <1>1, <1>2 DEF Loop
<1> QED
  BY <1>1, <1>3

\* One in which it has found the place of the lock.
LEMMA LoopBreak ==
    ASSUME NEW ls0, NEW lock0, NEW ls, NEW lock, NEW i, NEW k,
           Entering(ls, lock, i, ls0, lock0), \A j \in i..Len(ls) : Apart(lock, ls[j])
    PROVE  Loop(St(ls, lock, i, "break"), k, ls0, lock0)
<1>1. PICK s : s = St(ls, lock, i, "break")
  OBVIOUS
<1>2. s.ls = ls /\ s.lock = lock /\ s.i = i /\ s.go = "break"
  BY <1>1, StFields
<1>3. Loop(s, k, ls0, lock0)
  BY <1>1, <1>2 DEF Loop
<1> QED
  BY <1>1, <1>3

\* One in which it has found the lock in the list.
LEMMA LoopOut ==
    ASSUME NEW ls0, NEW lock0, NEW ls, NEW lock, NEW i, NEW k,
           Entering(ls, lock, i, ls0, lock0), i <= Len(ls), ls[i].owner = lock.owner, ls[i].type = lock.type,
           ls[i].start <= lock.start, lock.end <= ls[i].end
    PROVE  Loop(St(ls, lock, i, "out"), k, ls0, lock0)
<1>1. PICK s : s = St(ls, lock, i, "out")
  OBVIOUS
<1>2. s.ls = ls /\ s.lock = lock /\ s.i = i /\ s.go = "out"
  BY <1>1, StFields
<1>3. Loop(s, k, ls0, lock0)
  BY <1>1, <1>2 DEF Loop
<1> QED
  BY <1>1, <1>3

\* What a step of the loop makes of the steps left.
LEMMA LeftAfter ==
    ASSUME NEW ls, NEW lock, NEW i \in Nat, NEW k \in Nat, NEW ls0, Len(ls) \in Nat, Len(ls0) \in Nat,
           StepsLeft(ls, lock, i, k, ls0),
           ~(ls[i].owner = lock.owner /\ ls[i].type # lock.type /\ lock.end < ls[i].start),
           NEW r, NEW w, NEW m \in Nat, Len(r) \in Nat, Len(r) - m = Len(ls) - i - 1
    PROVE  StepsLeft(r, w, m, k + 1, ls0)
<1>1. k + (Len(ls) - i + 1) <= Len(ls0)
  BY DEF StepsLeft
<1>2. (k + 1) + (Len(r) - m + 1) <= Len(ls0)
  BY <1>1
<1> QED
  BY <1>2 DEF StepsLeft

\* Every step of the loop keeps Loop: the cases of locks_insert.
LEMMA LoopStep ==
    ASSUME NEW ls0, InOrder(ls0), NEW lock0 \in Lock, NEW k \in Nat, NEW s, Loop(s, k, ls0, lock0)
    PROVE  Loop(InsertStep(s), k + 1, ls0, lock0)
<1>1. PICK ls, lock, i, go : ls = s.ls /\ lock = s.lock /\ i = s.i /\ go = s.go
  OBVIOUS
<1>2. s = St(ls, lock, i, go) /\ Entering(ls, lock, i, ls0, lock0)
  BY <1>1 DEF Loop
<1>3. \/ go = "on" /\ StepsLeft(ls, lock, i, k, ls0)
      \/ go = "break" /\ \A j \in i..Len(ls) : Apart(lock, ls[j])
      \/ /\ go = "out" /\ i <= Len(ls)
         /\ ls[i].owner = lock.owner /\ ls[i].type = lock.type
         /\ ls[i].start <= lock.start /\ lock.end <= ls[i].end
  BY <1>1 DEF Loop
<1>4. EntersAt(ls, lock, i, lock0)
  BY <1>2, EnterFacts
<1>5. /\ InOrder(ls) /\ ls \in Seq(Kept) /\ Len(ls) \in Nat /\ lock \in Lock
      /\ lock.owner = lock0.owner /\ lock.type = lock0.type
      /\ i \in 1..(Len(ls) + 1) /\ i \in Nat
      /\ \A j \in 1..Len(ls) : ls[j] \in Lock /\ ls[j] \in Kept
  BY <1>4 DEF EntersAt
<1>6. Len(ls0) \in Nat
  BY DEF InOrder
<1>7. CASE go # "on"
  <2>1. InsertStep(s) = s
    BY <1>1, <1>7 DEF InsertStep
  <2>2. CASE go = "break"
    BY <1>2, <1>3, <2>1, <2>2, LoopBreak
  <2>3. CASE go = "out"
    BY <1>2, <1>3, <2>1, <2>3, LoopOut
  <2> QED
    BY <1>3, <1>7, <2>2, <2>3
<1>8. CASE go = "on" /\ i > Len(ls)
  <2>1. InsertStep(s) = Break(s)
    BY <1>1, <1>8 DEF InsertStep
  <2>2. Break(St(ls, lock, i, "on")) = St(ls, lock, i, "break")
    BY StBreak
  <2>3. \A j \in i..Len(ls) : Apart(lock, ls[j])
    BY <1>5, <1>8
  <2>4. Loop(St(ls, lock, i, "break"), k + 1, ls0, lock0)
    BY <1>2, <2>3, LoopBreak
  <2> QED
    BY <1>2, <1>8, <2>1, <2>2, <2>4
<1>9. CASE go = "on" /\ i <= Len(ls)
  <2>1. PICK l : l = ls[i] /\ l \in Lock /\ l \in Kept
    BY <1>5, <1>9
  <2>2. i \in 1..Len(ls) /\ StepsLeft(ls, lock, i, k, ls0) /\ s = St(ls, lock, i, "on")
    BY <1>2, <1>3, <1>5, <1>9
  <2>3. InsertStep(s) = CASE l.owner # lock.owner -> Skip(s)
                          [] l.owner = lock.owner /\ l.type = lock.type -> SameType(s, l)
                          [] l.owner = lock.owner /\ l.type # lock.type -> OtherType(s, l)
    <3>1. ~(s.go # "on") /\ ~(s.i > Len(s.ls)) /\ s.ls[s.i] = l /\ s.lock = lock
      BY <1>1, <1>5, <1>9, <2>1
    <3> QED
      BY <3>1, Zenon DEF InsertStep
  <2>31. /\ l.start \in Int /\ l.end \in Int /\ lock.start \in Int /\ lock.end \in Int
         /\ l.start <= l.end /\ lock.start <= lock.end
    BY <1>5, <2>1, LockFields
  <2>a. ASSUME Apart(l, lock), InsertStep(s) = St(ls, lock, i + 1, "on"),
               ~(l.owner = lock.owner /\ l.type # lock.type /\ lock.end < l.start)
        PROVE  Loop(InsertStep(s), k + 1, ls0, lock0)
    <3>1. Entering(ls, lock, i + 1, ls0, lock0)
      BY <1>2, <1>9, <2>1, <2>a, EnterSkip
    <3>2. i + 1 \in Nat /\ Len(ls) - (i + 1) = Len(ls) - i - 1
      BY <1>5
    <3>3. StepsLeft(ls, lock, i + 1, k + 1, ls0)
      BY <1>5, <1>6, <2>1, <2>2, <2>a, <3>2, LeftAfter
    <3>4. Loop(St(ls, lock, i + 1, "on"), k + 1, ls0, lock0)
      BY <3>1, <3>3, LoopOn
    <3> QED
      BY <2>a, <3>4
  <2>b. ASSUME l.owner = lock.owner, Apart(lock, l), InsertStep(s) = St(ls, lock, i, "break")
        PROVE  Loop(InsertStep(s), k + 1, ls0, lock0)
    <3>1. ls[i].owner = lock.owner /\ lock.end < ls[i].end
      BY <2>1, <2>31, <2>b DEF Apart
    <3>2. ASSUME NEW j \in i..Len(ls)
          PROVE  Apart(lock, ls[j])
      <4>1. CASE j = i
        BY <2>1, <2>b, <4>1
      <4>2. CASE j # i
        <5>1. j \in 1..Len(ls) /\ i < j
          BY <1>5, <4>2
        <5> QED
          BY <1>5, <2>2, <3>1, <5>1, ApartAfter
      <4> QED
        BY <4>1, <4>2
    <3>3. Loop(St(ls, lock, i, "break"), k + 1, ls0, lock0)
      BY <1>2, <3>2, LoopBreak
    <3> QED
      BY <2>b, <3>3
  <2>4. CASE l.owner # lock.owner
    <3>1. InsertStep(s) = Skip(s)
      BY <2>3, <2>4
    <3>2. Skip(St(ls, lock, i, "on")) = St(ls, lock, i + 1, "on")
      BY StSkip
    <3>3. Apart(l, lock)
      BY <2>4 DEF Apart
    <3> QED
      BY <2>2, <2>4, <2>a, <3>1, <3>2, <3>3
  <2>5. CASE l.owner = lock.owner /\ l.type = lock.type
    <3>1. InsertStep(s) = SameType(s, l)
      BY <2>3, <2>5
    <3>2. \/ Apart(l, lock) /\ SameType(s, l) = St(ls, lock, i + 1, "on")
          \/ Apart(lock, l) /\ SameType(s, l) = St(ls, lock, i, "break")
          \/ l.start <= lock.start /\ lock.end <= l.end /\ SameType(s, l) = St(ls, lock, i, "out")
          \/ /\ lock.start - 1 <= l.end /\ l.start - 1 <= lock.end
             /\ SameType(s, l) = St(RemoveAt(ls, i), Joined(lock, l), i, "on")
      BY <1>5, <2>1, <2>2, <2>5, SameTypeIs
    <3>3. CASE Apart(l, lock) /\ SameType(s, l) = St(ls, lock, i + 1, "on")
      BY <2>5, <2>a, <3>1, <3>3
    <3>4. CASE Apart(lock, l) /\ SameType(s, l) = St(ls, lock, i, "break")
      BY <2>5, <2>b, <3>1, <3>4
    <3>5. CASE l.start <= lock.start /\ lock.end <= l.end /\ SameType(s, l) = St(ls, lock, i, "out")
      <4>1. Loop(St(ls, lock, i, "out"), k + 1, ls0, lock0)
        BY <1>2, <1>9, <2>1, <2>5, <3>5, LoopOut
      <4> QED
        BY <3>1, <3>5, <4>1
    <3>6. CASE /\ lock.start - 1 <= l.end /\ l.start - 1 <= lock.end
               /\ SameType(s, l) = St(RemoveAt(ls, i), Joined(lock, l), i, "on")
      <4>1. PICK r, w : r = RemoveAt(ls, i) /\ w = Joined(lock, l)
        OBVIOUS
      <4>2. Entering(r, w, i, ls0, lock0)
        BY <1>2, <1>9, <2>1, <2>5, <3>6, <4>1, EnterJoin
      <4>3. Len(r) = Len(ls) - 1
        BY <1>5, <2>2, <4>1, RemoveAtIs
      <4>4. Len(r) \in Nat /\ Len(r) - i = Len(ls) - i - 1
        BY <1>5, <1>9, <2>2, <4>3
      <4>5. StepsLeft(r, w, i, k + 1, ls0)
        BY <1>5, <1>6, <2>1, <2>2, <2>5, <4>4, LeftAfter
      <4>6. Loop(St(r, w, i, "on"), k + 1, ls0, lock0)
        BY <4>2, <4>5, LoopOn
      <4> QED
        BY <3>1, <3>6, <4>1, <4>6
    <3> QED
      BY <3>2, <3>3, <3>4, <3>5, <3>6
  <2>6. CASE l.owner = lock.owner /\ l.type # lock.type
    <3>1. InsertStep(s) = OtherType(s, l)
      BY <2>3, <2>6
    <3>2. \/ Apart(l, lock) /\ OtherType(s, l) = St(ls, lock, i + 1, "on")
          \/ Apart(lock, l) /\ OtherType(s, l) = St(ls, lock, i, "break")
          \/ lock.start <= l.start /\ l.end <= lock.end /\ OtherType(s, l) = St(RemoveAt(ls, i), lock, i, "on")
          \/ /\ l.start < lock.start /\ lock.start <= l.end /\ l.end <= lock.end
             /\ OtherType(s, l) = St(ReplaceAt(ls, i, FrontOf(l, lock)), lock, i + 1, "on")
          \/ /\ lock.start <= l.start /\ l.start <= lock.end /\ lock.end < l.end
             /\ OtherType(s, l) = St(ReplaceAt(ls, i, BackOf(l, lock)), lock, i, "break")
          \/ /\ l.start < lock.start /\ lock.end < l.end
             /\ OtherType(s, l) =
                  St(InsertAt(ReplaceAt(ls, i, FrontOf(l, lock)), i + 1, BackOf(l, lock)), lock, i + 1, "on")
      <4>1. Cut(OtherType(s, l), ls, lock, i, l)
        BY <1>5, <2>1, <2>2, <2>6, OtherTypeIs
      <4> QED
        BY <4>1 DEF Cut
    <3>3. CASE Apart(l, lock) /\ OtherType(s, l) = St(ls, lock, i + 1, "on")
      <4>1. ~(lock.end < l.start)
        BY <2>6, <2>31, <3>3 DEF Apart
      <4> QED
        BY <2>a, <3>1, <3>3, <4>1
    <3>4. CASE Apart(lock, l) /\ OtherType(s, l) = St(ls, lock, i, "break")
      BY <2>6, <2>b, <3>1, <3>4
    <3>5. CASE lock.start <= l.start /\ l.end <= lock.end /\ OtherType(s, l) = St(RemoveAt(ls, i), lock, i, "on")
      <4>1. PICK r : r = RemoveAt(ls, i)
        OBVIOUS
      <4>2. Entering(r, lock, i, ls0, lock0)
        BY <1>2, <1>9, <2>1, <2>6, <3>5, <4>1, EnterDelete
      <4>3. Len(r) = Len(ls) - 1
        BY <1>5, <2>2, <4>1, RemoveAtIs
      <4>7. ~(lock.end < l.start)
        BY <2>31, <3>5
      <4>8. Len(r) \in Nat
        BY <1>5, <2>2, <4>3
      <4>4. Len(r) \in Nat /\ Len(r) - i = Len(ls) - i - 1 /\ ~(lock.end < l.start)
        BY <1>5, <4>3, <4>7, <4>8
      <4>5. StepsLeft(r, lock, i, k + 1, ls0)
        BY <1>5, <1>6, <2>1, <2>2, <2>6, <4>4, LeftAfter
      <4>6. Loop(St(r, lock, i, "on"), k + 1, ls0, lock0)
        BY <4>2, <4>5, LoopOn
      <4> QED
        BY <3>1, <3>5, <4>1, <4>6
    <3>6. CASE /\ l.start < lock.start /\ lock.start <= l.end /\ l.end <= lock.end
               /\ OtherType(s, l) = St(ReplaceAt(ls, i, FrontOf(l, lock)), lock, i + 1, "on")
      <4>1. PICK f : f = FrontOf(l, lock)
        OBVIOUS
      <4>2. Entering(ReplaceAt(ls, i, f), lock, i + 1, ls0, lock0) /\ Len(ReplaceAt(ls, i, f)) = Len(ls)
        BY <1>2, <1>9, <2>1, <2>6, <3>6, <4>1, EnterFront
      <4>3. PICK r : r = ReplaceAt(ls, i, f) /\ Entering(r, lock, i + 1, ls0, lock0) /\ Len(r) = Len(ls)
        BY <4>2
      <4>7. ~(lock.end < l.start)
        BY <2>31, <3>6
      <4>4. Len(r) \in Nat /\ i + 1 \in Nat /\ Len(r) - (i + 1) = Len(ls) - i - 1 /\ ~(lock.end < l.start)
        BY <1>5, <4>3, <4>7
      <4>5. StepsLeft(r, lock, i + 1, k + 1, ls0)
        BY <1>5, <1>6, <2>1, <2>2, <2>6, <4>4, LeftAfter
      <4>6. Loop(St(r, lock, i + 1, "on"), k + 1, ls0, lock0)
        BY <4>3, <4>5, LoopOn
      <4> QED
        BY <3>1, <3>6, <4>1, <4>3, <4>6
    <3>7. CASE /\ lock.start <= l.start /\ l.start <= lock.end /\ lock.end < l.end
               /\ OtherType(s, l) = St(ReplaceAt(ls, i, BackOf(l, lock)), lock, i, "break")
      <4>1. PICK f : f = BackOf(l, lock)
        OBVIOUS
      <4>2. /\ Entering(ReplaceAt(ls, i, f), lock, i, ls0, lock0) /\ Len(ReplaceAt(ls, i, f)) = Len(ls)
            /\ \A j \in i..Len(ls) : Apart(lock, ReplaceAt(ls, i, f)[j])
        BY <1>2, <1>9, <2>1, <2>6, <3>7, <4>1, EnterBack
      <4>3. PICK r : r = ReplaceAt(ls, i, f) /\ Entering(r, lock, i, ls0, lock0)
                     /\ \A j \in i..Len(r) : Apart(lock, r[j])
        BY <4>2
      <4>4. Loop(St(r, lock, i, "break"), k + 1, ls0, lock0)
        BY <4>3, LoopBreak
      <4> QED
        BY <3>1, <3>7, <4>1, <4>3, <4>4
    <3>8. CASE /\ l.start < lock.start /\ lock.end < l.end
               /\ OtherType(s, l) =
                    St(InsertAt(ReplaceAt(ls, i, FrontOf(l, lock)), i + 1, BackOf(l, lock)), lock, i + 1, "on")
      <4>1. PICK f, g : f = FrontOf(l, lock) /\ g = BackOf(l, lock)
        OBVIOUS
      <4>2. PICK r : r = InsertAt(ReplaceAt(ls, i, f), i + 1, g)
        OBVIOUS
      <4>3. /\ Entering(r, lock, i + 1, ls0, lock0) /\ Len(r) = Len(ls) + 1 /\ r[i + 1] = g
            /\ g.owner = lock.owner /\ g.type # lock.type /\ lock.end < g.start
        BY <1>2, <1>9, <2>1, <2>6, <3>8, <4>1, <4>2, EnterSplit
      <4>4. ~(lock.end < l.start)
        BY <2>31, <3>8
      <4>5. k + (Len(ls) - i + 1) <= Len(ls0)
        BY <2>1, <2>2, <4>4 DEF StepsLeft
      <4>6. (k + 1) + (Len(r) - (i + 1) + 1) <= Len(ls0) + 1 /\ i + 1 <= Len(r)
        BY <1>5, <1>6, <1>9, <4>3, <4>5
      <4>7. StepsLeft(r, lock, i + 1, k + 1, ls0)
        BY <4>3, <4>6 DEF StepsLeft
      <4>8. Loop(St(r, lock, i + 1, "on"), k + 1, ls0, lock0)
        BY <4>3, <4>7, LoopOn
      <4> QED
        BY <3>1, <3>8, <4>1, <4>2, <4>8
    <3> QED
      BY <3>2, <3>3, <3>4, <3>5, <3>6, <3>7, <3>8
  <2> QED
    BY <2>4, <2>5, <2>6
<1>10. go # "on" \/ i > Len(ls) \/ i <= Len(ls)
  BY <1>5
<1> QED
  BY <1>7, <1>8, <1>9, <1>10

\* The states of the loop.
LoopStates == [ls : Seq(Kept), lock : Lock, i : Nat, go : {"on", "break", "out"}]

\* Loop holds of no others.
LEMMA LoopInStates ==
    ASSUME NEW ls0, NEW lock0 \in Lock, NEW k, NEW s, Loop(s, k, ls0, lock0)
    PROVE  s \in LoopStates
<1>1. PICK ls, lock, i, go : ls = s.ls /\ lock = s.lock /\ i = s.i /\ go = s.go
  OBVIOUS
<1>2. s = St(ls, lock, i, go) /\ Entering(ls, lock, i, ls0, lock0) /\ go \in {"on", "break", "out"}
  BY <1>1 DEF Loop
<1>3. EntersAt(ls, lock, i, lock0)
  BY <1>2, EnterFacts
<1>4. ls \in Seq(Kept) /\ lock \in Lock /\ i \in Nat
  BY <1>3 DEF EntersAt
<1> QED
  BY <1>2, <1>4 DEF St, LoopStates

\* Where the loop begins.
LEMMA LoopBegins ==
    ASSUME NEW ls0, InOrder(ls0), NEW lock0 \in Lock
    PROVE  Loop(St(ls0, lock0, 1, "on"), 0, ls0, lock0)
<1>1. Len(ls0) \in Nat
  BY DEF InOrder
<1>2. StepsLeft(ls0, lock0, 1, 0, ls0)
  <2>1. 0 + (Len(ls0) - 1 + 1) <= Len(ls0)
    BY <1>1
  <2> QED
    BY <2>1 DEF StepsLeft
<1>3. ASSUME NEW b \in Byte, ~Covers(lock0, b)
      PROVE  Has(ls0, lock0.owner, lock0.type, b) \/ Covers(lock0, b) <=> Has(ls0, lock0.owner, lock0.type, b)
  BY <1>3
<1>4. Says(ls0, lock0, ls0, lock0)
  BY <1>3, Zenon DEF Says
<1>5. Entering(ls0, lock0, 1, ls0, lock0)
  <2>1. 1 \in 1..(Len(ls0) + 1) /\ \A j \in 1..(1 - 1) : Apart(ls0[j], lock0)
    BY <1>1
  <2> QED
    BY <1>4, <2>1 DEF Entering
<1> QED
  BY <1>2, <1>5, LoopOn

\* Its steps, one after the other.
LEMMA LoopAll ==
    ASSUME NEW ls0, InOrder(ls0), NEW lock0 \in Lock, NEW N \in Nat, NEW f,
           f[0] = St(ls0, lock0, 1, "on"),
           \A k \in 1..N : InsertStep(f[k - 1]) \in LoopStates => f[k] = InsertStep(f[k - 1])
    PROVE  \A k \in 0..N : Loop(f[k], k, ls0, lock0)
<1> DEFINE P == {k \in Nat : k <= N => Loop(f[k], k, ls0, lock0)}
<1>1. 0 \in P
  BY LoopBegins
<1>2. ASSUME NEW k \in P
      PROVE  k + 1 \in P
  <2>1. SUFFICES ASSUME k + 1 <= N
                 PROVE  Loop(f[k + 1], k + 1, ls0, lock0)
    OBVIOUS
  <2>2. k \in Nat /\ k <= N /\ k + 1 \in 1..N /\ (k + 1) - 1 = k
    BY <2>1
  <2>3. Loop(f[k], k, ls0, lock0)
    BY <2>2
  <2>4. Loop(InsertStep(f[k]), k + 1, ls0, lock0)
    BY <2>2, <2>3, LoopStep
  <2>5. InsertStep(f[k]) \in LoopStates
    BY <2>4, LoopInStates
  <2>6. f[k + 1] = InsertStep(f[k])
    BY <2>2, <2>5
  <2> QED
    BY <2>4, <2>6
<1> HIDE DEF P
<1>3. P = Nat
  <2>1. P \in SUBSET Nat
    BY DEF P
  <2> QED
    BY <1>1, <1>2, <2>1, AllNaturals
<1>4. SUFFICES ASSUME NEW k \in 0..N
               PROVE  Loop(f[k], k, ls0, lock0)
  OBVIOUS
<1>5. k \in P /\ k <= N
  BY <1>3
<1> QED
  BY <1>5 DEF P

\* The loop ends with a state of which Loop holds.
LEMMA LoopFinishes ==
    ASSUME NEW ls0, InOrder(ls0), NEW lock0 \in Lock
    PROVE  \E final : /\ Loop(final, Len(ls0) + 2, ls0, lock0)
                      /\ locks_insert(ls0, lock0) =
                            IF final.go = "break" /\ lock0.type # UNLCK
                            THEN InsertAt(final.ls, final.i, final.lock) ELSE final.ls
<1>1. PICK N \in Nat : N = Len(ls0) + 2
  BY DEF InOrder
<1>2. PICK first : first = St(ls0, lock0, 1, "on") /\ first \in LoopStates
                   /\ first = [ls |-> ls0, lock |-> lock0, i |-> 1, go |-> "on"]
  <2>1. St(ls0, lock0, 1, "on") \in LoopStates
    BY LoopBegins, LoopInStates
  <2> QED
    BY <2>1 DEF St
<1> DEFINE step == [p \in Nat \X LoopStates |->
                      IF InsertStep(p[2]) \in LoopStates THEN InsertStep(p[2]) ELSE p[2]]
<1>3. step \in [Nat \X LoopStates -> LoopStates]
  OBVIOUS
<1>4. PICK g : Runs(g, LoopStates, first, step, N)
  <2> HIDE DEF step
  <2> QED
    BY <1>2, <1>3, RunsExist
<1>5. g \in [0..N -> LoopStates] /\ g[0] = first
  BY <1>4 DEF Runs
<1>6. ASSUME NEW k \in 1..N, InsertStep(g[k - 1]) \in LoopStates
      PROVE  g[k] = InsertStep(g[k - 1])
  <2>1. k \in Nat /\ k - 1 \in 0..N
    BY <1>1
  <2>2. PICK v \in LoopStates : v = g[k - 1]
    BY <1>5, <2>1
  <2>3. g[k] = step[<<k, v>>]
    <3> HIDE DEF step
    <3> QED
      BY <1>4, <2>2 DEF Runs
  <2>4. step[<<k, v>>] = InsertStep(v)
    BY <1>6, <2>1, <2>2
  <2> QED
    BY <2>2, <2>3, <2>4
<1>7. \A k \in 0..N : Loop(g[k], k, ls0, lock0)
  BY <1>2, <1>5, <1>6, LoopAll
<1> HIDE DEF step
<1>8. \A k \in 1..N : g[k] = InsertStep(g[k - 1])
  <2>1. SUFFICES ASSUME NEW k \in 1..N
                 PROVE  g[k] = InsertStep(g[k - 1])
    OBVIOUS
  <2>2. k - 1 \in 0..N /\ k - 1 \in Nat
    BY <1>1
  <2>3. PICK j \in Nat : j = k - 1 /\ Loop(g[j], j, ls0, lock0)
    BY <1>7, <2>2
  <2>4. Loop(InsertStep(g[j]), j + 1, ls0, lock0)
    BY <2>3, LoopStep
  <2>5. InsertStep(g[j]) \in LoopStates
    BY <2>4, LoopInStates
  <2> QED
    BY <1>6, <2>3, <2>5
<1> DEFINE body(f) == [k \in 0..(Len(ls0) + 2) |->
              IF k = 0 THEN [ls |-> ls0, lock |-> lock0, i |-> 1, go |-> "on"] ELSE InsertStep(f[k - 1])]
<1>9. ASSUME NEW f
      PROVE  /\ body(f)[0] = first
             /\ \A k \in 1..N : body(f)[k] = InsertStep(f[k - 1])
             /\ body(f) = [k \in 0..N |-> body(f)[k]]
  <2>1. body(f)[0] = first
    BY <1>1, <1>2
  <2>2. \A k \in 1..N : body(f)[k] = InsertStep(f[k - 1])
    BY <1>1
  <2> QED
    BY <2>1, <2>2, <1>1
<1>10. g = body(g)
  <2> HIDE DEF body
  <2>1. \A k \in 0..N : k = 0 \/ k \in 1..N
    BY <1>1
  <2>2. \A k \in 0..N : g[k] = body(g)[k]
    BY <2>1, <1>5, <1>8, <1>9
  <2>3. g = [k \in 0..N |-> g[k]] /\ body(g) = [k \in 0..N |-> body(g)[k]]
    BY <1>5, <1>9
  <2> QED
    BY <2>2, <2>3
<1> DEFINE run == CHOOSE f : f = body(f)
<1>11. run = body(run)
  BY <1>10, Zenon
<1>12. locks_insert(ls0, lock0) =
          IF run[Len(ls0) + 2].go = "break" /\ lock0.type # UNLCK
          THEN InsertAt(run[Len(ls0) + 2].ls, run[Len(ls0) + 2].i, run[Len(ls0) + 2].lock)
          ELSE run[Len(ls0) + 2].ls
  BY Zenon DEF locks_insert
<1> HIDE DEF run, body
<1>13. run[0] = first /\ \A k \in 1..N : run[k] = InsertStep(run[k - 1])
  BY <1>9, <1>11, Zenon
<1>14. \A k \in 0..N : Loop(run[k], k, ls0, lock0)
  BY <1>2, <1>13, LoopAll
<1>15. N \in 0..N
  BY <1>1
<1>16. Loop(run[N], N, ls0, lock0)
  BY <1>14, <1>15
<1> QED
  BY <1>1, <1>12, <1>16

\* The list r is ls0 with the bytes of lock0 given its type.
Inserted(r, ls0, lock0) ==
    /\ InOrder(r)
    /\ \A o \in Owner \ {lock0.owner}, t \in LockType, b \in Byte : Has(r, o, t, b) <=> Has(ls0, o, t, b)
    /\ \A t \in LockType, b \in Byte : ~Covers(lock0, b) =>
          (Has(r, lock0.owner, t, b) <=> Has(ls0, lock0.owner, t, b))
    /\ \A t \in LockType, b \in Byte : Covers(lock0, b) =>
          (Has(r, lock0.owner, t, b) <=> t = lock0.type /\ t # UNLCK)

\* No lock of a list gives F_UNLCK.
LEMMA NoUnlock ==
    ASSUME NEW ls, InOrder(ls), NEW o, NEW b
    PROVE  ~Has(ls, o, UNLCK, b)
<1>1. \A j \in 1..Len(ls) : ls[j].type # UNLCK
  BY DEF InOrder, Kept
<1> QED
  BY <1>1 DEF Has, Gives

\* A list that says so of the bytes of the new lock.
LEMMA InsertedIf ==
    ASSUME NEW ls0, InOrder(ls0), NEW lock0 \in Lock, NEW r, InOrder(r),
           \A o \in Owner \ {lock0.owner}, t \in LockType, b \in Byte : Has(r, o, t, b) <=> Has(ls0, o, t, b),
           \A t \in LockType, b \in Byte : ~Covers(lock0, b) =>
              (Has(r, lock0.owner, t, b) <=> Has(ls0, lock0.owner, t, b)),
           \A b \in Byte : Covers(lock0, b) /\ lock0.type # UNLCK => Has(r, lock0.owner, lock0.type, b),
           \A t \in LockType, b \in Byte :
              Covers(lock0, b) /\ lock0.type = UNLCK => ~Has(r, lock0.owner, t, b)
    PROVE  Inserted(r, ls0, lock0)
<1>1. ASSUME NEW t \in LockType, NEW b \in Byte, Covers(lock0, b)
      PROVE  Has(r, lock0.owner, t, b) <=> t = lock0.type /\ t # UNLCK
  <2>1. CASE lock0.type = UNLCK
    BY <1>1, <2>1
  <2>2. CASE lock0.type # UNLCK
    <3>1. Has(r, lock0.owner, lock0.type, b)
      BY <1>1, <2>2
    <3>2. Has(r, lock0.owner, t, b) => t = lock0.type
      BY <3>1, OneType
    <3> QED
      BY <2>2, <3>1, <3>2
  <2> QED
    BY <2>1, <2>2
<1> QED
  BY <1>1 DEF Inserted

\* The lock is entered where the loop stopped.
LEMMA InsertAtBreak ==
    ASSUME NEW ls0, InOrder(ls0), NEW lock0 \in Lock, NEW ls, NEW lock, NEW i,
           Entering(ls, lock, i, ls0, lock0), \A j \in i..Len(ls) : Apart(lock, ls[j]), lock0.type # UNLCK
    PROVE  Inserted(InsertAt(ls, i, lock), ls0, lock0)
<1>1. EntersAt(ls, lock, i, lock0)
  BY EnterFacts
<1>2. /\ InOrder(ls) /\ ls \in Seq(Kept) /\ lock \in Kept /\ lock.owner = lock0.owner /\ lock.type = lock0.type
      /\ i \in 1..(Len(ls) + 1) /\ \A j \in 1..(i - 1) : Apart(ls[j], lock)
  BY <1>1 DEF EntersAt, Kept
<1>3. PICK r : r = InsertAt(ls, i, lock)
  OBVIOUS
<1>4. InOrder(r)
  BY <1>2, <1>3, InsertOrder
<1>5. \A o, t, b : Has(r, o, t, b) <=> Has(ls, o, t, b) \/ Gives(lock, o, t, b)
  BY <1>2, <1>3, InsertHas
<1>6. Says(ls, lock, ls0, lock0)
  BY DEF Entering
<1>7. ASSUME NEW o \in Owner \ {lock0.owner}, NEW t \in LockType, NEW b \in Byte
      PROVE  Has(r, o, t, b) <=> Has(ls0, o, t, b)
  <2>1. ~Gives(lock, o, t, b)
    BY <1>2 DEF Gives
  <2>2. Has(ls, o, t, b) <=> Has(ls0, o, t, b)
    BY <1>6 DEF Says
  <2> QED
    BY <1>5, <2>1, <2>2
<1>8. ASSUME NEW t \in LockType, NEW b \in Byte, ~Covers(lock0, b)
      PROVE  Has(r, lock0.owner, t, b) <=> Has(ls0, lock0.owner, t, b)
  <2>1. CASE t = lock0.type
    <3>1. Gives(lock, lock0.owner, lock0.type, b) <=> Covers(lock, b)
      BY <1>2 DEF Gives
    <3>2. Has(ls, lock0.owner, lock0.type, b) \/ Covers(lock, b) <=> Has(ls0, lock0.owner, lock0.type, b)
      BY <1>6, <1>8 DEF Says
    <3>3. Has(r, lock0.owner, lock0.type, b) <=> Has(ls0, lock0.owner, lock0.type, b)
      BY <1>5, <3>1, <3>2
    <3> QED
      BY <2>1, <3>3
  <2>2. CASE t # lock0.type
    <3>1. ~Gives(lock, lock0.owner, t, b)
      BY <1>2, <2>2 DEF Gives
    <3>2. Has(ls, lock0.owner, t, b) <=> Has(ls0, lock0.owner, t, b)
      BY <1>6, <1>8, <2>2 DEF Says
    <3> QED
      BY <1>5, <3>1, <3>2
  <2> QED
    BY <2>1, <2>2
<1>9. ASSUME NEW b \in Byte, Covers(lock0, b)
      PROVE  Has(r, lock0.owner, lock0.type, b)
  <2>1. Covers(lock, b)
    BY <1>6, <1>9 DEF Says
  <2>2. Gives(lock, lock0.owner, lock0.type, b)
    BY <1>2, <2>1 DEF Gives
  <2> QED
    BY <1>5, <2>2
<1>10. Inserted(r, ls0, lock0)
  BY <1>4, <1>7, <1>8, <1>9, InsertedIf
<1> QED
  BY <1>3, <1>10

\* The lock is a request to unlock: what is left is in front of it or behind it.
LEMMA UnlockAtBreak ==
    ASSUME NEW ls0, InOrder(ls0), NEW lock0 \in Lock, NEW ls, NEW lock, NEW i,
           Entering(ls, lock, i, ls0, lock0), \A j \in i..Len(ls) : Apart(lock, ls[j]), lock0.type = UNLCK
    PROVE  Inserted(ls, ls0, lock0)
<1>1. EntersAt(ls, lock, i, lock0)
  BY EnterFacts
<1>2. /\ InOrder(ls) /\ Len(ls) \in Nat /\ lock \in Lock /\ lock.owner = lock0.owner /\ lock.type = lock0.type
      /\ i \in 1..(Len(ls) + 1) /\ \A j \in 1..(i - 1) : Apart(ls[j], lock)
      /\ \A j \in 1..Len(ls) : ls[j] \in Lock
  BY <1>1 DEF EntersAt
<1>6. Says(ls, lock, ls0, lock0)
  BY DEF Entering
<1>7. \A o \in Owner \ {lock0.owner}, t \in LockType, b \in Byte : Has(ls, o, t, b) <=> Has(ls0, o, t, b)
  BY <1>6 DEF Says
<1>8. ASSUME NEW t \in LockType, NEW b \in Byte, ~Covers(lock0, b)
      PROVE  Has(ls, lock0.owner, t, b) <=> Has(ls0, lock0.owner, t, b)
  <2>1. CASE t = UNLCK
    <3>1. ~Has(ls, lock0.owner, UNLCK, b) /\ ~Has(ls0, lock0.owner, UNLCK, b)
      BY <1>2, NoUnlock
    <3> QED
      BY <2>1, <3>1
  <2>2. CASE t # UNLCK
    BY <1>6, <1>8, <2>2 DEF Says
  <2> QED
    BY <2>1, <2>2
<1>9. ASSUME NEW t \in LockType, NEW b \in Byte, Covers(lock0, b)
      PROVE  ~Has(ls, lock0.owner, t, b)
  <2>1. Covers(lock, b)
    BY <1>6, <1>9 DEF Says
  <2>2. b \in Int /\ lock.start \in Int /\ lock.end \in Int
    BY <1>2, LocksAssumption, LockFields DEF Byte
  <2>3. ASSUME NEW j \in 1..Len(ls), Gives(ls[j], lock0.owner, t, b)
        PROVE  FALSE
    <3>1. ls[j].owner = lock.owner /\ Covers(ls[j], b) /\ ls[j].start \in Int /\ ls[j].end \in Int
      BY <1>2, <2>3, LockFields DEF Gives
    <3>2. j \in 1..(i - 1) \/ j \in i..Len(ls)
      BY <1>2
    <3>3. CASE j \in 1..(i - 1)
      <4>1. ls[j].end < lock.start
        BY <1>2, <3>1, <3>3 DEF Apart
      <4> QED
        BY <2>1, <2>2, <3>1, <4>1 DEF Covers
    <3>4. CASE j \in i..Len(ls)
      <4>1. lock.end < ls[j].start
        BY <3>1, <3>4 DEF Apart
      <4> QED
        BY <2>1, <2>2, <3>1, <4>1 DEF Covers
    <3> QED
      BY <3>2, <3>3, <3>4
  <2> QED
    BY <2>3 DEF Has
<1> QED
  BY <1>2, <1>7, <1>8, <1>9, InsertedIf

\* A lock of the list holds all of it already.
LEMMA InsertOut ==
    ASSUME NEW ls0, InOrder(ls0), NEW lock0 \in Lock, NEW ls, NEW lock, NEW i,
           Entering(ls, lock, i, ls0, lock0), i <= Len(ls), ls[i].owner = lock.owner, ls[i].type = lock.type,
           ls[i].start <= lock.start, lock.end <= ls[i].end
    PROVE  Inserted(ls, ls0, lock0)
<1>1. EntersAt(ls, lock, i, lock0)
  BY EnterFacts
<1>2. /\ InOrder(ls) /\ Len(ls) \in Nat /\ lock \in Lock /\ lock.owner = lock0.owner /\ lock.type = lock0.type
      /\ i \in 1..(Len(ls) + 1) /\ \A j \in 1..Len(ls) : ls[j] \in Lock /\ ls[j] \in Kept
  BY <1>1 DEF EntersAt
<1>3. i \in 1..Len(ls)
  BY <1>2
<1>4. lock0.type # UNLCK
  BY <1>2, <1>3 DEF Kept
<1>5. ASSUME NEW b \in Byte, Covers(lock, b)
      PROVE  Has(ls, lock0.owner, lock0.type, b)
  <2>1. b \in Int /\ lock.start \in Int /\ lock.end \in Int /\ ls[i].start \in Int /\ ls[i].end \in Int
    BY <1>2, <1>3, LocksAssumption, LockFields DEF Byte
  <2>2. Covers(ls[i], b)
    BY <1>5, <2>1 DEF Covers
  <2> QED
    BY <1>2, <1>3, <2>2 DEF Has, Gives
<1>6. Says(ls, lock, ls0, lock0)
  BY DEF Entering
<1>7. \A o \in Owner \ {lock0.owner}, t \in LockType, b \in Byte : Has(ls, o, t, b) <=> Has(ls0, o, t, b)
  BY <1>6 DEF Says
<1>8. ASSUME NEW t \in LockType, NEW b \in Byte, ~Covers(lock0, b)
      PROVE  Has(ls, lock0.owner, t, b) <=> Has(ls0, lock0.owner, t, b)
  <2>1. CASE t = lock0.type
    <3>1. Has(ls, lock0.owner, lock0.type, b) \/ Covers(lock, b) <=> Has(ls0, lock0.owner, lock0.type, b)
      BY <1>6, <1>8 DEF Says
    <3> QED
      BY <1>5, <2>1, <3>1
  <2>2. CASE t # lock0.type
    BY <1>6, <1>8, <2>2 DEF Says
  <2> QED
    BY <2>1, <2>2
<1>9. \A b \in Byte : Covers(lock0, b) => Has(ls, lock0.owner, lock0.type, b)
  BY <1>5, <1>6 DEF Says
<1> QED
  BY <1>2, <1>4, <1>7, <1>8, <1>9, InsertedIf

\* locks_insert does what it is for.
LEMMA InsertRight ==
    ASSUME NEW ls0, InOrder(ls0), NEW lock0 \in Lock
    PROVE  Inserted(locks_insert(ls0, lock0), ls0, lock0)
<1>1. PICK s : /\ Loop(s, Len(ls0) + 2, ls0, lock0)
               /\ locks_insert(ls0, lock0) = IF s.go = "break" /\ lock0.type # UNLCK
                                             THEN InsertAt(s.ls, s.i, s.lock) ELSE s.ls
  BY LoopFinishes
<1>2. PICK ls, lock, i, go : ls = s.ls /\ lock = s.lock /\ i = s.i /\ go = s.go
  OBVIOUS
<1>3. Entering(ls, lock, i, ls0, lock0)
  BY <1>1, <1>2 DEF Loop
<1>4. \/ go = "on" /\ StepsLeft(ls, lock, i, Len(ls0) + 2, ls0)
      \/ go = "break" /\ \A j \in i..Len(ls) : Apart(lock, ls[j])
      \/ /\ go = "out" /\ i <= Len(ls)
         /\ ls[i].owner = lock.owner /\ ls[i].type = lock.type
         /\ ls[i].start <= lock.start /\ lock.end <= ls[i].end
  BY <1>1, <1>2 DEF Loop
<1>5. EntersAt(ls, lock, i, lock0)
  BY <1>3, EnterFacts
<1>6. Len(ls) \in Nat /\ i \in 1..(Len(ls) + 1)
  BY <1>5 DEF EntersAt
<1>7. ~StepsLeft(ls, lock, i, Len(ls0) + 2, ls0)
  <2>1. Len(ls0) \in Nat
    BY DEF InOrder
  <2>2. /\ ~((Len(ls0) + 2) + (Len(ls) - i + 1) <= Len(ls0))
        /\ ~((Len(ls0) + 2) + (Len(ls) - i + 1) <= Len(ls0) + 1)
    BY <1>6, <2>1
  <2> QED
    BY <2>2 DEF StepsLeft
<1>8. CASE go = "break"
  <2>1. \A j \in i..Len(ls) : Apart(lock, ls[j])
    BY <1>4, <1>8
  <2>2. CASE lock0.type # UNLCK
    <3>1. locks_insert(ls0, lock0) = InsertAt(ls, i, lock)
      BY <1>1, <1>2, <1>8, <2>2
    <3> QED
      BY <1>3, <2>1, <2>2, <3>1, InsertAtBreak
  <2>3. CASE lock0.type = UNLCK
    <3>1. locks_insert(ls0, lock0) = ls
      BY <1>1, <1>2, <2>3
    <3> QED
      BY <1>3, <2>1, <2>3, <3>1, UnlockAtBreak
  <2> QED
    BY <2>2, <2>3
<1>9. CASE go = "out"
  <2>1. locks_insert(ls0, lock0) = ls
    BY <1>1, <1>2, <1>9
  <2> QED
    BY <1>3, <1>4, <1>9, <2>1, InsertOut
<1> QED
  BY <1>4, <1>7, <1>8, <1>9

\* The list says of a byte what f does.
Agrees(ls, f, o, b) == \A t \in LockType : Has(ls, o, t, b) <=> f[o][b] = t /\ t # UNLCK

\* The calls that are not in the list yet.
Calls == {c \in [lock : Lock, last : SUBSET Byte] : c.last \subseteq Bytes(c.lock)}

\* Of the bytes a call was answered last on, the file system has what it asked for.
Lasting(o, h, g) ==
    \A i \in 1..Len(g) : g[i].lock.owner = o /\ \A b \in g[i].last : h[b] = g[i].lock.type

\* A call after the i-th was answered last on byte b.
CallAfter(g, i, b) == \E j \in 1..Len(g) : i < j /\ b \in g[j].last

\* The lock of each byte is entered, or on its way and behind all that it replaces.
OnItsWay(g, cur) ==
    /\ \A b \in Byte \ cur : CallAfter(g, 0, b)
    /\ \A i \in 1..Len(g) : \A b \in Bytes(g[i].lock) \ g[i].last : CallAfter(g, i, b)

OwnerRight(o) ==
    /\ Lasting(o, held[o], granted[o])
    /\ \A b \in current[o] : told[o][b] = held[o][b]
    /\ calm[o] => OnItsWay(granted[o], current[o])

\* The inductive invariant.  The list agrees with what was entered; that agrees with the
\* file system where it is current; and the calls that are still to be entered make it
\* current everywhere if nothing comes out of order.
LocksInv ==
    /\ InOrder(locks)
    /\ held \in [Owner -> [Byte -> LockType]] /\ told \in [Owner -> [Byte -> LockType]]
    /\ granted \in [Owner -> Seq(Calls)]
    /\ current \in [Owner -> SUBSET Byte] /\ calm \in [Owner -> BOOLEAN]
    /\ \A o \in Owner, b \in Byte : Agrees(locks, told, o, b)
    /\ \A o \in Owner : OwnerRight(o)

\* A flock is a lock of the caller.
LEMMA FlockIsLock ==
    ASSUME NEW o \in Owner, NEW fl \in Flocks
    PROVE  /\ flock_to_lock(o, fl) \in Lock /\ flock_to_lock(o, fl).owner = o
           /\ flock_to_lock(o, fl).type = fl.l_type
<1>1. PICK t \in LockType, a \in Byte, n \in Byte : /\ t = fl.l_type /\ a = fl.l_start /\ n = fl.l_len
                                               /\ (n = 0 \/ a + n - 1 < OFFSET_MAX)
  BY DEF Flocks
<1>2. PICK e : e = IF n = 0 THEN OFFSET_MAX ELSE a + n - 1
  OBVIOUS
<1>3. e \in Byte /\ a <= e
  BY <1>1, <1>2, LocksAssumption DEF Byte
<1>4. flock_to_lock(o, fl) = [owner |-> o, type |-> t, start |-> a, end |-> e]
  BY <1>1, <1>2 DEF flock_to_lock
<1> QED
  BY <1>1, <1>3, <1>4 DEF Lock

\* Putting a lock over what is said of each byte.
LEMMA OverlaidIs ==
    ASSUME NEW f \in [Byte -> LockType], NEW l \in Lock
    PROVE  /\ Overlaid(f, l) \in [Byte -> LockType]
           /\ \A b \in Byte : Overlaid(f, l)[b] = IF Covers(l, b) THEN l.type ELSE f[b]
<1>1. l.type \in LockType
  BY LockFields
<1> QED
  BY <1>1 DEF Overlaid

\* One call less.
LEMMA CallGone ==
    ASSUME NEW o, NEW h, NEW g \in Seq(Calls), Lasting(o, h, g), NEW i \in 1..Len(g)
    PROVE  RemoveAt(g, i) \in Seq(Calls) /\ Lasting(o, h, RemoveAt(g, i))
<1>1. PICK r : r = RemoveAt(g, i)
  OBVIOUS
<1>2. /\ r \in Seq(Calls) /\ Len(r) = Len(g) - 1
      /\ \A j \in 1..(Len(g) - 1) : r[j] = IF j < i THEN g[j] ELSE g[j + 1]
  BY <1>1, RemoveAtIs
<1>3. ASSUME NEW j \in 1..Len(r)
      PROVE  \E k \in 1..Len(g) : r[j] = g[k]
  <2>1. j \in 1..Len(g) /\ j + 1 \in 1..Len(g) /\ (r[j] = g[j] \/ r[j] = g[j + 1])
    BY <1>2
  <2> QED
    BY <2>1
<1>4. ASSUME NEW j \in 1..Len(r)
      PROVE  r[j].lock.owner = o /\ \A b \in r[j].last : h[b] = r[j].lock.type
  BY <1>3 DEF Lasting
<1> QED
  BY <1>1, <1>2, <1>4 DEF Lasting

\* The call that is made now is the last one on the bytes of its lock.
Made(g, l) == Append(Outdated(g, l), [lock |-> l, last |-> Bytes(l)])
LEMMA CallMade ==
    ASSUME NEW g \in Seq(Calls), NEW l \in Lock, NEW r, r = Made(g, l)
    PROVE  /\ r \in Seq(Calls) /\ Len(r) = Len(g) + 1
           /\ \A i \in 1..Len(g) : r[i].lock = g[i].lock /\ r[i].last = g[i].last \ Bytes(l)
           /\ r[Len(g) + 1].lock = l /\ r[Len(g) + 1].last = Bytes(l)
<1>1. PICK q : q = Outdated(g, l)
  OBVIOUS
<1>2. PICK B \in SUBSET Byte : B = Bytes(l)
  BY DEF Bytes
<1>3. q = [i \in 1..Len(g) |-> [g[i] EXCEPT !.last = g[i].last \ B]]
  BY <1>1, <1>2 DEF Outdated
<1>4. ASSUME NEW i \in 1..Len(g)
      PROVE  /\ [g[i] EXCEPT !.last = g[i].last \ B] \in Calls
             /\ [g[i] EXCEPT !.last = g[i].last \ B].lock = g[i].lock
             /\ [g[i] EXCEPT !.last = g[i].last \ B].last = g[i].last \ B
  <2>1. PICK c \in [lock : Lock, last : SUBSET Byte] : c = g[i] /\ c.last \subseteq Bytes(c.lock)
    BY DEF Calls
  <2>2. PICK d : d = [c EXCEPT !.last = c.last \ B]
    OBVIOUS
  <2>3. d \in [lock : Lock, last : SUBSET Byte] /\ d.lock = c.lock /\ d.last = c.last \ B
    BY <2>2
  <2>4. d \in Calls
    BY <2>1, <2>3 DEF Calls
  <2> QED
    BY <2>1, <2>2, <2>3, <2>4
<1>5. q \in Seq(Calls) /\ Len(q) = Len(g) /\ \A i \in 1..Len(g) : q[i] = [g[i] EXCEPT !.last = g[i].last \ B]
  BY <1>3, <1>4
<1>6. PICK c : c = [lock |-> l, last |-> B]
  OBVIOUS
<1>7. c \in Calls /\ c.lock = l /\ c.last = B
  BY <1>2, <1>6 DEF Calls
<1>8. /\ Append(q, c) \in Seq(Calls) /\ Len(Append(q, c)) = Len(g) + 1
      /\ \A i \in 1..Len(g) : Append(q, c)[i] = q[i]
      /\ Append(q, c)[Len(g) + 1] = c
  BY <1>5, <1>7, AppendProperties
<1> QED
  BY <1>1, <1>2, <1>4, <1>5, <1>6, <1>7, <1>8 DEF Made

\* At the start no byte is locked.
LEMMA LocksStart == LocksInit => LocksInv
<1>1. SUFFICES ASSUME LocksInit
               PROVE  LocksInv
  OBVIOUS
<1>2. /\ locks = <<>> /\ granted = [o \in Owner |-> <<>>]
      /\ held = [o \in Owner |-> [b \in Byte |-> UNLCK]]
      /\ told = [o \in Owner |-> [b \in Byte |-> UNLCK]]
      /\ current = [o \in Owner |-> Byte] /\ calm = [o \in Owner |-> TRUE]
  BY <1>1 DEF LocksInit
<1>3. InOrder(locks)
  BY <1>2 DEF InOrder
<1>4. /\ held \in [Owner -> [Byte -> LockType]] /\ told \in [Owner -> [Byte -> LockType]]
      /\ granted \in [Owner -> Seq(Calls)] /\ current \in [Owner -> SUBSET Byte]
      /\ calm \in [Owner -> BOOLEAN]
  <2>1. UNLCK \in LockType /\ <<>> \in Seq(Calls)
    BY DEF LockType
  <2> QED
    BY <1>2, <2>1
<1>5. ASSUME NEW o \in Owner, NEW b \in Byte, NEW t \in LockType
      PROVE  Has(locks, o, t, b) <=> told[o][b] = t /\ t # UNLCK
  <2>1. ~Has(locks, o, t, b)
    BY <1>2 DEF Has
  <2>2. told[o][b] = UNLCK
    BY <1>2
  <2> QED
    BY <2>1, <2>2
<1>6. ASSUME NEW o \in Owner
      PROVE  OwnerRight(o)
  <2>1. granted[o] = <<>> /\ current[o] = Byte /\ told[o] = held[o]
    BY <1>2
  <2>2. Len(granted[o]) = 0
    BY <2>1
  <2> QED
    BY <2>1, <2>2 DEF OwnerRight, Lasting, OnItsWay
<1> QED
  BY <1>3, <1>4, <1>5, <1>6 DEF LocksInv, Agrees

\* The file system grants a lock.
LEMMA LocksCall ==
    ASSUME LocksInv, NEW o \in Owner, NEW fl \in Flocks, SetLkCall(o, fl)
    PROVE  LocksInv'
<1>1. PICK l \in Lock : l = flock_to_lock(o, fl) /\ l.owner = o
  BY FlockIsLock
<1>2. PICK B \in SUBSET Byte : B = Bytes(l) /\ \A b \in Byte : b \in B <=> Covers(l, b)
  <2>1. Bytes(l) \in SUBSET Byte /\ \A b \in Byte : b \in Bytes(l) <=> Covers(l, b)
    BY DEF Bytes
  <2> QED
    BY <2>1
<1>3. PICK g \in Seq(Calls), h \in [Byte -> LockType], cur \in SUBSET Byte :
         g = granted[o] /\ h = held[o] /\ cur = current[o]
  BY DEF LocksInv
<1>4. PICK r \in Seq(Calls) :
         /\ r = Made(g, l) /\ Len(r) = Len(g) + 1
         /\ \A i \in 1..Len(g) : r[i].lock = g[i].lock /\ r[i].last = g[i].last \ B
         /\ r[Len(g) + 1].lock = l /\ r[Len(g) + 1].last = B
  <2>1. PICK r : r = Made(g, l)
    OBVIOUS
  <2>2. /\ r \in Seq(Calls) /\ Len(r) = Len(g) + 1
        /\ \A i \in 1..Len(g) : r[i].lock = g[i].lock /\ r[i].last = g[i].last \ Bytes(l)
        /\ r[Len(g) + 1].lock = l /\ r[Len(g) + 1].last = Bytes(l)
    BY <2>1, CallMade
  <2> QED
    BY <1>2, <2>1, <2>2
<1>5. PICK n \in [Byte -> LockType] :
         n = Overlaid(h, l) /\ \A b \in Byte : n[b] = IF b \in B THEN l.type ELSE h[b]
  BY <1>2, OverlaidIs
<1>6. /\ held' = [held EXCEPT ![o] = n] /\ granted' = [granted EXCEPT ![o] = r]
      /\ current' = [current EXCEPT ![o] = cur \ B] /\ UNCHANGED <<locks, told, calm>>
  BY <1>1, <1>2, <1>3, <1>4, <1>5 DEF SetLkCall, Made
<1>7. /\ held' \in [Owner -> [Byte -> LockType]] /\ granted' \in [Owner -> Seq(Calls)]
      /\ current' \in [Owner -> SUBSET Byte]
      /\ held'[o] = n /\ granted'[o] = r /\ current'[o] = cur \ B
      /\ \A x \in Owner \ {o} : held'[x] = held[x] /\ granted'[x] = granted[x] /\ current'[x] = current[x]
  BY <1>6 DEF LocksInv
<1>8. /\ Lasting(o, h, g) /\ \A b \in cur : told[o][b] = h[b]
      /\ calm[o] => OnItsWay(g, cur)
  BY <1>3 DEF LocksInv, OwnerRight
<1>9. Lasting(o, n, r)
  <2>1. ASSUME NEW i \in 1..Len(r)
        PROVE  r[i].lock.owner = o /\ \A b \in r[i].last : n[b] = r[i].lock.type
    <3>1. CASE i \in 1..Len(g)
      <4>1. g[i].lock.owner = o /\ \A b \in g[i].last : h[b] = g[i].lock.type
        BY <1>8, <3>1 DEF Lasting
      <4>2. g[i].last \subseteq Byte
        BY <3>1 DEF Calls
      <4> QED
        BY <1>4, <1>5, <3>1, <4>1, <4>2
    <3>2. CASE i = Len(g) + 1
      BY <1>1, <1>4, <1>5, <3>2
    <3> QED
      BY <1>4, <3>1, <3>2
  <2> QED
    BY <2>1 DEF Lasting
<1>10. \A b \in cur \ B : told[o][b] = n[b]
  BY <1>5, <1>8
\* What was on its way still is, or is replaced by this lock.
<1>11. ASSUME NEW i \in Nat, NEW b \in Byte, CallAfter(g, i, b) \/ (b \in B /\ i < Len(g) + 1)
       PROVE  CallAfter(r, i, b)
  <2>1. CASE b \in B /\ i < Len(g) + 1
    BY <1>4, <2>1 DEF CallAfter
  <2>2. ASSUME b \notin B, NEW j \in 1..Len(g), i < j, b \in g[j].last
        PROVE  CallAfter(r, i, b)
    BY <1>4, <2>2 DEF CallAfter
  <2>3. ASSUME b \in B, NEW j \in 1..Len(g), i < j
        PROVE  CallAfter(r, i, b)
    <3>1. Len(g) + 1 \in 1..Len(r) /\ i < Len(g) + 1
      BY <1>4, <2>3
    <3> QED
      BY <1>4, <2>3, <3>1 DEF CallAfter
  <2> QED
    BY <1>11, <2>1, <2>2, <2>3 DEF CallAfter
<1>12. calm[o] => OnItsWay(r, cur \ B)
  <2>1. SUFFICES ASSUME OnItsWay(g, cur)
                 PROVE  OnItsWay(r, cur \ B)
    BY <1>8
  <2>2. ASSUME NEW b \in Byte \ (cur \ B)
        PROVE  CallAfter(r, 0, b)
    <3>1. b \in Byte /\ 0 \in Nat /\ 0 < Len(g) + 1 /\ (b \in B \/ b \in Byte \ cur)
      BY <2>2
    <3>2. CASE b \in B
      BY <1>11, <3>1, <3>2
    <3>3. CASE b \in Byte \ cur
      <4>1. CallAfter(g, 0, b)
        BY <2>1, <3>3 DEF OnItsWay
      <4> QED
        BY <1>11, <3>1, <4>1
    <3> QED
      BY <3>1, <3>2, <3>3
  <2>3. ASSUME NEW i \in 1..Len(r), NEW b \in Bytes(r[i].lock) \ r[i].last
        PROVE  CallAfter(r, i, b)
    <3>1. CASE i \in 1..Len(g)
      <4>1. b \in Bytes(g[i].lock) /\ b \in Byte /\ (b \in B \/ b \notin g[i].last)
        BY <1>4, <2>3, <3>1 DEF Bytes
      <4>2. b \notin g[i].last => CallAfter(g, i, b)
        BY <2>1, <3>1, <4>1 DEF OnItsWay
      <4> QED
        BY <1>11, <3>1, <4>1, <4>2
    <3>2. CASE i = Len(g) + 1
      BY <1>2, <1>4, <2>3, <3>2
    <3> QED
      BY <1>4, <3>1, <3>2
  <2> QED
    BY <2>2, <2>3 DEF OnItsWay
<1>13. ASSUME NEW x \in Owner
       PROVE  OwnerRight(x)'
  <2>1. CASE x = o
    BY <1>6, <1>7, <1>9, <1>10, <1>12, <2>1 DEF OwnerRight
  <2>2. CASE x # o
    <3>1. OwnerRight(x)
      BY DEF LocksInv
    <3> QED
      BY <1>6, <1>7, <2>2, <3>1 DEF OwnerRight
  <2> QED
    BY <2>1, <2>2
<1>14. \A x \in Owner, b \in Byte : Agrees(locks, told, x, b)'
  BY <1>6 DEF LocksInv, Agrees
<1> QED
  BY <1>6, <1>7, <1>13, <1>14 DEF LocksInv

\* A call that is never entered, or that is entered though the file system has refused it,
\* changes nothing but the calls on their way.
LEMMA LocksAmiss ==
    ASSUME LocksInv, NEW o \in Owner, NEW r \in Seq(Calls), Lasting(o, held[o], r),
           granted' = [granted EXCEPT ![o] = r], calm' = [calm EXCEPT ![o] = FALSE],
           UNCHANGED <<locks, held, told, current>>
    PROVE  LocksInv'
<1>1. /\ granted' \in [Owner -> Seq(Calls)] /\ calm' \in [Owner -> BOOLEAN]
      /\ granted'[o] = r /\ ~calm'[o]
      /\ \A x \in Owner \ {o} : granted'[x] = granted[x] /\ calm'[x] = calm[x]
  BY DEF LocksInv
<1>2. ASSUME NEW x \in Owner
      PROVE  OwnerRight(x)'
  <2>0. OwnerRight(x)
    BY DEF LocksInv
  <2>1. CASE x = o
    BY <1>1, <2>0, <2>1 DEF OwnerRight
  <2>2. CASE x # o
    BY <1>1, <2>0, <2>2 DEF OwnerRight
  <2> QED
    BY <2>1, <2>2
<1>3. \A x \in Owner, b \in Byte : Agrees(locks, told, x, b)'
  BY DEF LocksInv, Agrees
<1> QED
  BY <1>1, <1>2, <1>3 DEF LocksInv

LEMMA LocksLost ==
    ASSUME LocksInv, NEW o \in Owner, NEW i \in DOMAIN granted[o], SetLkLost(o, i)
    PROVE  LocksInv'
<1>1. granted[o] \in Seq(Calls) /\ Lasting(o, held[o], granted[o]) /\ i \in 1..Len(granted[o])
  BY DEF LocksInv, OwnerRight
<1>2. RemoveAt(granted[o], i) \in Seq(Calls) /\ Lasting(o, held[o], RemoveAt(granted[o], i))
  BY <1>1, CallGone
<1> QED
  BY <1>2, LocksAmiss DEF SetLkLost

LEMMA LocksRefused ==
    ASSUME LocksInv, NEW o \in Owner, FlushRefused(o)
    PROVE  LocksInv'
<1>1. PICK g \in Seq(Calls) : g = granted[o] /\ Lasting(o, held[o], g)
  BY DEF LocksInv, OwnerRight
<1>2. PICK l \in Lock : /\ l = [owner |-> o, type |-> UNLCK, start |-> 0, end |-> OFFSET_MAX]
                        /\ l.owner = o
  <2>1. 0 \in Byte /\ OFFSET_MAX \in Byte /\ 0 <= OFFSET_MAX /\ UNLCK \in LockType
    BY LocksAssumption DEF Byte, LockType
  <2>2. PICK l : l = [owner |-> o, type |-> UNLCK, start |-> 0, end |-> OFFSET_MAX]
    OBVIOUS
  <2>3. l \in Lock /\ l.owner = o
    BY <2>1, <2>2 DEF Lock
  <2> QED
    BY <2>2, <2>3
<1>3. PICK c \in Calls : c = [lock |-> l, last |-> {}] /\ c.lock = l /\ c.last = {}
  <2>1. PICK c : c = [lock |-> l, last |-> {}]
    OBVIOUS
  <2>2. c \in Calls /\ c.lock = l /\ c.last = {}
    BY <2>1 DEF Calls
  <2> QED
    BY <2>1, <2>2
<1>4. PICK r \in Seq(Calls) : /\ r = Append(g, c) /\ Len(r) = Len(g) + 1 /\ r[Len(g) + 1] = c
                              /\ \A i \in 1..Len(g) : r[i] = g[i]
  <2>1. /\ Append(g, c) \in Seq(Calls) /\ Len(Append(g, c)) = Len(g) + 1
        /\ Append(g, c)[Len(g) + 1] = c
        /\ \A i \in 1..Len(g) : Append(g, c)[i] = g[i]
    BY AppendProperties
  <2> QED
    BY <2>1
<1>5. ASSUME NEW i \in 1..Len(r)
      PROVE  r[i].lock.owner = o /\ \A b \in r[i].last : held[o][b] = r[i].lock.type
  <2>1. CASE i \in 1..Len(g)
    BY <1>1, <1>4, <2>1 DEF Lasting
  <2>2. CASE i = Len(g) + 1
    BY <1>2, <1>3, <1>4, <2>2
  <2> QED
    BY <1>4, <2>1, <2>2
<1>6. Lasting(o, held[o], r)
  BY <1>5 DEF Lasting
<1>7. granted' = [granted EXCEPT ![o] = r]
  BY <1>1, <1>2, <1>3, <1>4 DEF FlushRefused
<1> QED
  BY <1>6, <1>7, LocksAmiss DEF FlushRefused

\* The first of the calls leaves: what was on its way still is, or it has arrived.
LEMMA FirstLeaves ==
    ASSUME NEW g \in Seq(Calls), 1 \in 1..Len(g), NEW cur, OnItsWay(g, cur)
    PROVE  OnItsWay(RemoveAt(g, 1), (cur \ Bytes(g[1].lock)) \cup g[1].last)
<1>1. PICK r : r = RemoveAt(g, 1)
  OBVIOUS
<1>2. /\ Len(r) = Len(g) - 1 /\ Len(g) \in Nat
      /\ \A j \in 1..(Len(g) - 1) : r[j] = g[j + 1]
  <2>1. /\ Len(r) = Len(g) - 1
        /\ \A j \in 1..(Len(g) - 1) : r[j] = IF j < 1 THEN g[j] ELSE g[j + 1]
    BY <1>1, RemoveAtIs
  <2> QED
    BY <2>1
<1>3. ASSUME NEW i \in Nat, NEW b, CallAfter(g, i + 1, b)
      PROVE  CallAfter(r, i, b)
  <2>1. PICK j \in 1..Len(g) : i + 1 < j /\ b \in g[j].last
    BY <1>3 DEF CallAfter
  <2>2. j - 1 \in 1..Len(r) /\ i < j - 1 /\ j - 1 \in 1..(Len(g) - 1) /\ (j - 1) + 1 = j
    BY <1>2, <2>1
  <2>3. r[j - 1] = g[j]
    BY <1>2, <2>2
  <2> QED
    BY <2>1, <2>2, <2>3 DEF CallAfter
<1>4. ASSUME NEW b \in Byte \ ((cur \ Bytes(g[1].lock)) \cup g[1].last)
      PROVE  CallAfter(r, 0, b)
  <2>1. CASE b \notin cur
    <3>1. PICK j \in 1..Len(g) : 0 < j /\ b \in g[j].last
      BY <1>4, <2>1 DEF OnItsWay, CallAfter
    <3>2. j # 1
      BY <1>4, <3>1
    <3>3. CallAfter(g, 0 + 1, b)
      BY <3>1, <3>2 DEF CallAfter
    <3> QED
      BY <1>3, <3>3
  <2>2. CASE b \in cur
    <3>1. CallAfter(g, 1, b)
      BY <1>4, <2>2 DEF OnItsWay
    <3>2. CallAfter(g, 0 + 1, b)
      BY <3>1
    <3> QED
      BY <1>3, <3>2
  <2> QED
    BY <2>1, <2>2
<1>5. ASSUME NEW i \in 1..Len(r), NEW b \in Bytes(r[i].lock) \ r[i].last
      PROVE  CallAfter(r, i, b)
  <2>1. r[i] = g[i + 1] /\ i + 1 \in 1..Len(g) /\ i \in Nat
    BY <1>2
  <2>2. CallAfter(g, i + 1, b)
    BY <1>5, <2>1 DEF OnItsWay
  <2> QED
    BY <1>3, <2>1, <2>2
<1> QED
  BY <1>1, <1>4, <1>5 DEF OnItsWay

\* The lock is entered in the list.
LEMMA LocksEnter ==
    ASSUME LocksInv, NEW o \in Owner, NEW i \in DOMAIN granted[o], SetLkEnter(o, i)
    PROVE  LocksInv'
<1>1. PICK g \in Seq(Calls), h \in [Byte -> LockType], f \in [Byte -> LockType], cur \in SUBSET Byte :
         g = granted[o] /\ h = held[o] /\ f = told[o] /\ cur = current[o]
  BY DEF LocksInv
<1>2. i \in 1..Len(g) /\ g[i] \in Calls
  BY <1>1
<1>3. PICK l \in Lock, B \in SUBSET Byte, last \in SUBSET Byte :
         /\ l = g[i].lock /\ last = g[i].last /\ last \subseteq B
         /\ B = Bytes(l) /\ \A b \in Byte : b \in B <=> Covers(l, b)
  <2>1. PICK l \in Lock, last \in SUBSET Byte :
           l = g[i].lock /\ last = g[i].last /\ last \subseteq Bytes(l)
    BY <1>2 DEF Calls
  <2>2. Bytes(l) \in SUBSET Byte /\ \A b \in Byte : b \in Bytes(l) <=> Covers(l, b)
    BY DEF Bytes
  <2> QED
    BY <2>1, <2>2
<1>4. PICK n \in [Byte -> LockType] :
         n = Overlaid(f, l) /\ \A b \in Byte : n[b] = IF b \in B THEN l.type ELSE f[b]
  BY <1>3, OverlaidIs
<1>5. /\ Lasting(o, h, g) /\ \A b \in cur : f[b] = h[b]
      /\ calm[o] => OnItsWay(g, cur)
  BY <1>1 DEF LocksInv, OwnerRight
<1>6. PICK r \in Seq(Calls) : r = RemoveAt(g, i) /\ Lasting(o, h, r)
  BY <1>2, <1>5, CallGone
<1>7. PICK new \in SUBSET Byte : new = (cur \ B) \cup last
  BY <1>3
<1>8. /\ locks' = locks_insert(locks, l) /\ held' = held
      /\ granted' = [granted EXCEPT ![o] = r] /\ told' = [told EXCEPT ![o] = n]
      /\ current' = [current EXCEPT ![o] = new]
  BY <1>1, <1>3, <1>4, <1>6, <1>7 DEF SetLkEnter
<1>9. PICK still \in BOOLEAN : /\ calm' = [calm EXCEPT ![o] = still]
                               /\ still => calm[o] /\ i = 1
  <2>1. PICK q \in BOOLEAN : q = (calm[o] /\ i = 1)
    BY Zenon
  <2>2. calm' = [calm EXCEPT ![o] = q]
    BY <2>1, Zenon DEF SetLkEnter
  <2>3. q => calm[o] /\ i = 1
    BY <2>1, Zenon
  <2> QED
    BY <2>2, <2>3
<1>10. /\ granted' \in [Owner -> Seq(Calls)] /\ told' \in [Owner -> [Byte -> LockType]]
       /\ current' \in [Owner -> SUBSET Byte] /\ calm' \in [Owner -> BOOLEAN]
       /\ granted'[o] = r /\ told'[o] = n /\ current'[o] = new /\ (calm'[o] => still)
  BY <1>8, <1>9 DEF LocksInv
<1>11. \A x \in Owner \ {o} : /\ granted'[x] = granted[x] /\ told'[x] = told[x]
                              /\ current'[x] = current[x] /\ calm'[x] = calm[x]
  BY <1>8, <1>9 DEF LocksInv
<1>12. InOrder(locks) /\ \A x \in Owner, b \in Byte : Agrees(locks, told, x, b)
  BY DEF LocksInv
<1>13. l.owner = o /\ \A b \in last : h[b] = l.type
  BY <1>2, <1>3, <1>5 DEF Lasting
<1>14. Inserted(locks', locks, l)
  BY <1>8, <1>12, InsertRight
<1>15. ASSUME NEW x \in Owner, NEW b \in Byte
       PROVE  Agrees(locks', told', x, b)
  <2>1. CASE x # o
    <3>1. \A t \in LockType : Has(locks', x, t, b) <=> Has(locks, x, t, b)
      BY <1>13, <1>14, <2>1 DEF Inserted
    <3> QED
      BY <1>11, <1>12, <2>1, <3>1 DEF Agrees
  <2>2. CASE x = o /\ b \in B
    <3>1. \A t \in LockType : Has(locks', o, t, b) <=> t = l.type /\ t # UNLCK
      BY <1>3, <1>13, <1>14, <2>2 DEF Inserted
    <3>2. told'[o][b] = l.type
      BY <1>4, <1>10, <2>2
    <3> QED
      BY <2>2, <3>1, <3>2 DEF Agrees
  <2>3. CASE x = o /\ b \notin B
    <3>1. \A t \in LockType : Has(locks', o, t, b) <=> Has(locks, o, t, b)
      BY <1>3, <1>13, <1>14, <2>3 DEF Inserted
    <3>2. told'[o][b] = told[o][b]
      BY <1>1, <1>4, <1>10, <2>3
    <3> QED
      BY <1>12, <2>3, <3>1, <3>2 DEF Agrees
  <2> QED
    BY <2>1, <2>2, <2>3
<1>16. \A b \in new : n[b] = h[b]
  BY <1>3, <1>4, <1>5, <1>7, <1>13
<1>17. still => OnItsWay(r, new)
  <2>1. SUFFICES ASSUME still
                 PROVE  OnItsWay(r, new)
    OBVIOUS
  <2>2. i = 1 /\ OnItsWay(g, cur) /\ 1 \in 1..Len(g)
    BY <1>2, <1>5, <1>9, <2>1
  <2>3. OnItsWay(RemoveAt(g, 1), (cur \ Bytes(g[1].lock)) \cup g[1].last)
    BY <2>2, FirstLeaves
  <2> QED
    BY <1>3, <1>6, <1>7, <2>2, <2>3
<1>18. ASSUME NEW x \in Owner
       PROVE  OwnerRight(x)'
  <2>1. CASE x = o
    BY <1>1, <1>6, <1>8, <1>10, <1>16, <1>17, <2>1 DEF OwnerRight
  <2>2. CASE x # o
    <3>1. OwnerRight(x)
      BY DEF LocksInv
    <3> QED
      BY <1>8, <1>11, <2>2, <3>1 DEF OwnerRight
  <2> QED
    BY <2>1, <2>2
<1>19. InOrder(locks)' /\ held' \in [Owner -> [Byte -> LockType]]
  BY <1>8, <1>14 DEF Inserted, LocksInv, InOrder
<1> QED
  BY <1>10, <1>15, <1>18, <1>19 DEF LocksInv, Agrees

\* The invariant is inductive.
LEMMA LocksStep == LocksInv /\ [LocksNext]_lkvars => LocksInv'
<1>1. SUFFICES ASSUME LocksInv, [LocksNext]_lkvars
               PROVE  LocksInv'
  OBVIOUS
<1>2. CASE UNCHANGED lkvars
  BY <1>1, <1>2 DEF LocksInv, OwnerRight, Agrees, InOrder, lkvars
<1>3. CASE \E o \in Owner : \E fl \in Flocks : SetLkCall(o, fl)
  BY <1>1, <1>3, LocksCall
<1>4. CASE \E o \in Owner : FlushRefused(o)
  BY <1>1, <1>4, LocksRefused
<1>5. CASE \E o \in Owner : \E i \in DOMAIN granted[o] : SetLkEnter(o, i)
  BY <1>1, <1>5, LocksEnter
<1>6. CASE \E o \in Owner : \E i \in DOMAIN granted[o] : SetLkLost(o, i)
  BY <1>1, <1>6, LocksLost
<1> QED
  BY <1>1, <1>2, <1>3, <1>4, <1>5, <1>6 DEF LocksNext

\* It implies the parts of the property: the order of the list,
LEMMA LocksInvSorted == LocksInv => ListSorted
<1>1. SUFFICES ASSUME LocksInv
               PROVE  ListSorted
  OBVIOUS
<1>2. InOrder(locks) /\ DOMAIN locks = 1..Len(locks)
  BY <1>1 DEF LocksInv, InOrder
<1>3. ASSUME NEW i \in 1..Len(locks), NEW j \in 1..Len(locks)
      PROVE  /\ locks[i].start <= locks[i].end
             /\ i < j /\ locks[i].owner = locks[j].owner =>
                   /\ locks[i].end < locks[j].start
                   /\ locks[i].type = locks[j].type => locks[i].end < locks[j].start - 1
  <2>1. locks[i] \in Lock
    BY <1>2 DEF InOrder, Kept
  <2>2. i < j => Apart(locks[i], locks[j])
    BY <1>2 DEF InOrder
  <2> QED
    BY <2>1, <2>2, LockFields DEF Apart
<1> QED
  BY <1>2, <1>3 DEF ListSorted

\* What the list says of a byte is what f does.
LEMMA ListedIs ==
    ASSUME InOrder(locks), NEW f, NEW o, NEW b \in Byte, f[o][b] \in LockType, Agrees(locks, f, o, b)
    PROVE  Listed(o, b) = f[o][b]
<1>1. DOMAIN locks = 1..Len(locks)
  BY DEF InOrder
<1> DEFINE on == {i \in DOMAIN locks : locks[i].owner = o /\ Covers(locks[i], b)}
<1>2. \A i \in 1..Len(locks) : locks[i] \in Lock /\ locks[i].type # UNLCK
  BY DEF InOrder, Kept
<1>3. CASE on = {}
  <2>1. Listed(o, b) = UNLCK
    BY <1>3 DEF Listed
  <2>2. ~Has(locks, o, f[o][b], b)
    BY <1>1, <1>3 DEF Has, Gives
  <2>3. f[o][b] = UNLCK
    BY <2>2 DEF Agrees
  <2> QED
    BY <2>1, <2>3
<1>4. CASE on # {}
  <2>1. PICK i : i = CHOOSE j \in on : TRUE
    OBVIOUS
  <2>2. i \in on
    BY <1>4, <2>1
  <2>3. Listed(o, b) = locks[i].type
    BY <1>4, <2>1 DEF Listed
  <2>4. i \in 1..Len(locks) /\ locks[i].owner = o /\ Covers(locks[i], b)
    BY <1>1, <2>2
  <2>5. locks[i].type \in LockType /\ Has(locks, o, locks[i].type, b)
    BY <1>2, <2>4, LockFields DEF Has, Gives
  <2> QED
    BY <2>3, <2>5 DEF Agrees
<1> QED
  BY <1>3, <1>4

\* that it says what was entered last,
LEMMA LocksInvEntered == LocksInv => ListSaysEntered
<1>1. SUFFICES ASSUME LocksInv, NEW o \in Owner, NEW b \in Byte
               PROVE  Listed(o, b) = told[o][b]
  BY DEF ListSaysEntered
<1>2. InOrder(locks) /\ told[o][b] \in LockType /\ Agrees(locks, told, o, b)
  BY <1>1 DEF LocksInv
<1> QED
  BY <1>2, ListedIs

\* that this is what the file system holds where no call came out of order,
LEMMA LocksInvMatches == LocksInv => ListMatchesFs
<1>1. SUFFICES ASSUME LocksInv, NEW o \in Owner, NEW b \in Byte,
                      b \in current[o] \/ (calm[o] /\ granted[o] = <<>>)
               PROVE  Listed(o, b) = held[o][b]
  <2>1. current \in [Owner -> SUBSET Byte] \/ ~LocksInv
    BY DEF LocksInv
  <2> QED
    BY <2>1 DEF ListMatchesFs
<1>2. Listed(o, b) = told[o][b]
  BY <1>1, LocksInvEntered DEF ListSaysEntered
<1>3. OwnerRight(o)
  BY <1>1 DEF LocksInv
<1>4. b \in current[o]
  <2>1. CASE calm[o] /\ granted[o] = <<>>
    <3>1. b \notin current[o] => CallAfter(granted[o], 0, b)
      BY <1>3, <2>1 DEF OwnerRight, OnItsWay
    <3>2. ~CallAfter(granted[o], 0, b)
      BY <2>1 DEF CallAfter
    <3> QED
      BY <3>1, <3>2
  <2> QED
    BY <1>1, <2>1
<1> QED
  BY <1>2, <1>3, <1>4 DEF OwnerRight

\* The test of locks_conflict.
Conflicts(l, lock) == /\ l.owner # lock.owner
                      /\ lock.start <= l.end /\ l.start <= lock.end
                      /\ (l.type = "WRLCK" \/ lock.type = "WRLCK")

\* locks_conflict finds a conflict if there is one.
LEMMA ConflictIs ==
    ASSUME NEW ls, Len(ls) \in Nat, NEW lock
    PROVE  \/ locks_conflict(ls, lock) = 0 /\ \A j \in 1..Len(ls) : ~Conflicts(ls[j], lock)
           \/ locks_conflict(ls, lock) \in 1..Len(ls) /\ Conflicts(ls[locks_conflict(ls, lock)], lock)
<1> DEFINE I == {j \in 1..Len(ls) : Conflicts(ls[j], lock)}
<1>1. locks_conflict(ls, lock) = IF I = {} THEN 0 ELSE Min(I)
  BY DEF locks_conflict, SelectInSeq, Conflicts
<1>2. CASE I = {}
  BY <1>1, <1>2
<1>3. CASE I # {}
  <2>1. PICK x \in I : \A y \in I : x <= y
    <3>1. I \in SUBSET Nat
      OBVIOUS
    <3> QED
      BY <1>3, <3>1, LeastNatural
  <2>2. Min(I) \in I
    <3> HIDE DEF I
    <3> QED
      BY <2>1 DEF Min
  <2> QED
    BY <1>1, <1>3, <2>2
<1> QED
  BY <1>2, <1>3

\* The byte where two ranges that are not apart meet.
LEMMA RangesMeet ==
    ASSUME NEW l \in Lock, NEW lock \in Lock, lock.start <= l.end, l.start <= lock.end
    PROVE  \E b \in Byte : Covers(l, b) /\ Covers(lock, b)
<1>1. /\ l.start \in Int /\ l.end \in Int /\ lock.start \in Int /\ lock.end \in Int
      /\ l.start \in Byte /\ lock.start \in Byte /\ l.start <= l.end /\ lock.start <= lock.end
  BY LockFields
<1>2. PICK b \in Byte : b = IF l.start < lock.start THEN lock.start ELSE l.start
  BY <1>1
<1>3. Covers(l, b) /\ Covers(lock, b)
  BY <1>1, <1>2 DEF Covers
<1> QED
  BY <1>3

\* A lock told to the caller and back.
LEMMA FlockBack ==
    ASSUME NEW l \in Lock
    PROVE  /\ flock_to_lock(l.owner, lock_to_flock(l)).start = l.start
           /\ flock_to_lock(l.owner, lock_to_flock(l)).end = l.end
           /\ lock_to_flock(l).l_type = l.type
<1>1. PICK a \in Int, z \in Int : a = l.start /\ z = l.end /\ a <= z /\ a \in Byte /\ z \in Byte
  BY LockFields
<1>2. PICK n \in Int : n = IF z = OFFSET_MAX THEN 0 ELSE z - a + 1
  BY <1>1
<1>3. PICK fl : fl = [l_type |-> l.type, l_start |-> a, l_len |-> n]
  OBVIOUS
<1>4. fl = lock_to_flock(l)
  BY <1>1, <1>2, <1>3 DEF lock_to_flock
<1>5. fl.l_type = l.type /\ fl.l_start = a /\ fl.l_len = n
  BY <1>3
<1>6. PICK e : e = IF n = 0 THEN OFFSET_MAX ELSE a + n - 1
  OBVIOUS
<1>7. e = z
  BY <1>1, <1>2, <1>6, LocksAssumption DEF Byte
<1>8. flock_to_lock(l.owner, fl) = [owner |-> l.owner, type |-> l.type, start |-> a, end |-> e]
  BY <1>5, <1>6 DEF flock_to_lock
<1>9. flock_to_lock(l.owner, fl).start = a /\ flock_to_lock(l.owner, fl).end = e
  BY <1>8
<1> QED
  BY <1>1, <1>4, <1>5, <1>7, <1>9

\* The list names a conflict exactly if the file system would not grant the lock.
LEMMA ConflictMeansRefused ==
    ASSUME InOrder(locks), \A o \in Owner, b \in Byte : Agrees(locks, held, o, b) /\ held[o][b] \in LockType,
           NEW lock \in Lock, lock.type # UNLCK
    PROVE  Grants(lock) <=> \A j \in 1..Len(locks) : ~Conflicts(locks[j], lock)
<1>1. \A j \in 1..Len(locks) : locks[j] \in Lock /\ locks[j].type # UNLCK
  BY DEF InOrder, Kept
<1>2. lock.owner \in Owner /\ lock.type \in {"RDLCK", "WRLCK"}
  BY LockFields DEF LockType
<1>3. ASSUME Grants(lock), NEW j \in 1..Len(locks), Conflicts(locks[j], lock)
      PROVE  FALSE
  <2>1. PICK l \in Lock : l = locks[j] /\ l.type # UNLCK
    BY <1>1
  <2>2. PICK b \in Byte : Covers(l, b) /\ Covers(lock, b)
    BY <1>3, <2>1, RangesMeet DEF Conflicts
  <2>3. l.owner \in Owner \ {lock.owner} /\ l.type \in LockType
    BY <1>3, <2>1, LockFields DEF Conflicts
  <2>4. Has(locks, l.owner, l.type, b)
    BY <2>1, <2>2 DEF Has, Gives
  <2>5. held[l.owner][b] = l.type
    BY <2>3, <2>4 DEF Agrees
  <2>6. held[l.owner][b] = UNLCK \/ (lock.type = "RDLCK" /\ held[l.owner][b] = "RDLCK")
    BY <1>3, <2>2, <2>3 DEF Grants
  <2> QED
    BY <1>3, <2>1, <2>5, <2>6 DEF Conflicts
<1>4. ASSUME ~Grants(lock)
      PROVE  \E j \in 1..Len(locks) : Conflicts(locks[j], lock)
  <2>1. PICK b \in Byte, o \in Owner \ {lock.owner} :
             /\ Covers(lock, b) /\ held[o][b] # UNLCK
             /\ ~(lock.type = "RDLCK" /\ held[o][b] = "RDLCK")
    BY <1>4 DEF Grants
  <2>2. Has(locks, o, held[o][b], b) /\ held[o][b] \in LockType
    BY <2>1 DEF Agrees
  <2>3. PICK j \in 1..Len(locks) : Gives(locks[j], o, held[o][b], b)
    BY <2>2 DEF Has
  <2>4. locks[j].owner # lock.owner /\ locks[j].type = held[o][b] /\ Covers(locks[j], b)
    BY <2>1, <2>3 DEF Gives
  <2>5. b \in Int /\ lock.start \in Int /\ lock.end \in Int /\ locks[j].start \in Int /\ locks[j].end \in Int
    BY <1>1, LocksAssumption, LockFields DEF Byte
  <2>6. lock.start <= locks[j].end /\ locks[j].start <= lock.end
    BY <2>1, <2>4, <2>5 DEF Covers
  <2>7. locks[j].type = "WRLCK" \/ lock.type = "WRLCK"
    BY <1>2, <2>1, <2>2, <2>4 DEF LockType
  <2> QED
    BY <2>4, <2>6, <2>7 DEF Conflicts
<1> QED
  BY <1>3, <1>4

\* and that F_GETLK answers as the file system would.
LEMMA LocksInvGetLk == LocksInv => GetLkRight
<1>1. SUFFICES ASSUME LocksInv, \A o \in Owner : current[o] = Byte,
                      NEW o \in Owner, NEW fl \in Flocks, fl.l_type # UNLCK
               PROVE  LET lock == flock_to_lock(o, fl)
                          found == fuse_lib_getlk(o, fl)
                      IN  IF Grants(lock) THEN found.l_type = UNLCK
                          ELSE \E other \in Owner \ {o} :
                                 LET l == flock_to_lock(other, found)
                                 IN  /\ \A b \in Byte : Covers(l, b) => held[other][b] = found.l_type
                                     /\ \E b \in Byte : Covers(l, b) /\ Covers(lock, b)
                                     /\ "WRLCK" \in {found.l_type, fl.l_type}
  BY DEF GetLkRight
<1>2. InOrder(locks) /\ \A x \in Owner, b \in Byte : Agrees(locks, held, x, b) /\ held[x][b] \in LockType
  <2>1. /\ InOrder(locks) /\ held \in [Owner -> [Byte -> LockType]]
        /\ \A x \in Owner, b \in Byte : Agrees(locks, told, x, b)
        /\ \A x \in Owner : OwnerRight(x)
    BY <1>1 DEF LocksInv
  <2>2. ASSUME NEW x \in Owner, NEW b \in Byte
        PROVE  Agrees(locks, held, x, b) /\ held[x][b] \in LockType
    <3>1. told[x][b] = held[x][b] /\ held[x][b] \in LockType
      BY <1>1, <2>1 DEF OwnerRight
    <3> QED
      BY <2>1, <3>1 DEF Agrees
  <2> QED
    BY <2>1, <2>2
<1>3. PICK lock \in Lock : lock = flock_to_lock(o, fl) /\ lock.owner = o /\ lock.type = fl.l_type
  BY FlockIsLock
<1>4. Grants(lock) <=> \A j \in 1..Len(locks) : ~Conflicts(locks[j], lock)
  BY <1>1, <1>2, <1>3, ConflictMeansRefused
<1>5. PICK i : i = locks_conflict(locks, lock)
  OBVIOUS
<1>6. \/ i = 0 /\ \A j \in 1..Len(locks) : ~Conflicts(locks[j], lock)
      \/ i \in 1..Len(locks) /\ Conflicts(locks[i], lock)
  <2>1. Len(locks) \in Nat
    BY <1>2 DEF InOrder
  <2> QED
    BY <1>5, <2>1, ConflictIs
<1>7. PICK found : found = fuse_lib_getlk(o, fl)
  OBVIOUS
<1>8. found = IF i = 0 THEN [fl EXCEPT !.l_type = UNLCK] ELSE lock_to_flock(locks[i])
  BY <1>3, <1>5, <1>7 DEF fuse_lib_getlk
<1>9. CASE Grants(lock)
  <2>1. i = 0
    BY <1>4, <1>6, <1>9
  <2>2. found.l_type = UNLCK
    BY <1>8, <2>1 DEF Flocks
  <2> QED
    BY <1>3, <1>7, <1>9, <2>2
<1>10. CASE ~Grants(lock)
  <2>1. i \in 1..Len(locks) /\ Conflicts(locks[i], lock)
    BY <1>4, <1>6, <1>10
  <2>2. PICK k \in Lock : k = locks[i]
    BY <1>2, <2>1 DEF InOrder, Kept
  <2>3. found = lock_to_flock(k) /\ found.l_type = k.type
    BY <1>8, <2>1, <2>2, FlockBack
  <2>4. PICK other \in Owner \ {o} : other = k.owner
    BY <1>3, <2>1, <2>2, LockFields DEF Conflicts
  <2>5. PICK l : l = flock_to_lock(other, found)
    OBVIOUS
  <2>6. l.start = k.start /\ l.end = k.end
    BY <2>3, <2>4, <2>5, FlockBack
  <2>7. ASSUME NEW b \in Byte, Covers(l, b)
        PROVE  held[other][b] = found.l_type
    <3>1. Covers(k, b) /\ k.type \in LockType
      BY <2>2, <2>6, <2>7, LockFields DEF Covers
    <3>2. Has(locks, other, k.type, b)
      BY <2>1, <2>2, <2>4, <3>1 DEF Has, Gives
    <3> QED
      BY <1>2, <2>3, <3>1, <3>2 DEF Agrees
  <2>8. \E b \in Byte : Covers(l, b) /\ Covers(lock, b)
    <3>1. PICK b \in Byte : Covers(k, b) /\ Covers(lock, b)
      BY <2>1, <2>2, RangesMeet DEF Conflicts
    <3> QED
      BY <2>6, <3>1 DEF Covers
  <2>9. "WRLCK" \in {found.l_type, fl.l_type}
    BY <1>3, <2>1, <2>2, <2>3 DEF Conflicts
  <2>10. /\ \A b \in Byte : Covers(flock_to_lock(other, found), b) => held[other][b] = found.l_type
         /\ \E b \in Byte : Covers(flock_to_lock(other, found), b) /\ Covers(lock, b)
    BY <2>5, <2>7, <2>8
  <2> QED
    BY <1>3, <1>7, <1>10, <2>9, <2>10, Zenon
<1> QED
  BY <1>9, <1>10

\* The list of locks is in order and says what was entered in it last; where nothing was
\* lost, refused or overtaken it says what the file system has granted, and answers as the
\* file system would; for any owners, any number of calls and any size of file.
THEOREM LocksStayRight == LocksSpec => []LockListRight
<1>1. LocksInit => LocksInv
  BY LocksStart
<1>2. LocksInv /\ [LocksNext]_lkvars => LocksInv'
  BY LocksStep
<1>3. LocksInv => LockListRight
  BY LocksInvSorted, LocksInvEntered, LocksInvMatches, LocksInvGetLk DEF LockListRight
<1> QED
  BY <1>1, <1>2, <1>3, PTL DEF LocksSpec

-----------------------------------------------------------------------------
(* Listing a directory.                                                      *)

\* The units up to the end of an entry are those up to the one before, and its own.
LEMMA EndIs ==
    ASSUME NEW s \in Seq(Entry)
    PROVE  /\ \A i \in 0..Len(s) : End(s, i) \in Nat
           /\ End(s, 0) = 0
           /\ \A i \in 1..Len(s) : /\ EntrySize[s[i]] \in Nat \ {0}
                                   /\ End(s, i) = End(s, i - 1) + EntrySize[s[i]]
<1>1. PICK L \in Nat : L = Len(s) /\ \A i \in 1..L : s[i] \in Entry
  OBVIOUS
<1>2. \A i \in 1..L : EntrySize[s[i]] \in Nat \ {0}
  BY <1>1, DirAssumption DEF DirAssumption
<1> DEFINE step == [p \in Nat \X Nat |-> IF p[1] \in 1..L THEN p[2] + EntrySize[s[p[1]]] ELSE p[2]]
<1>3. step \in [Nat \X Nat -> Nat]
  <2>1. \A p \in Nat \X Nat : p[1] \in 1..L => p[2] + EntrySize[s[p[1]]] \in Nat
    BY <1>2
  <2> QED
    BY <2>1
<1>4. PICK g : Runs(g, Nat, 0, step, L)
  <2> HIDE DEF step
  <2> QED
    BY <1>1, <1>3, RunsExist
<1>5. g \in [0..L -> Nat] /\ g[0] = 0
  BY <1>4 DEF Runs
<1>6. ASSUME NEW i \in 1..L
      PROVE  g[i] = g[i - 1] + EntrySize[s[i]]
  <2>1. i \in Nat /\ i - 1 \in 0..L
    BY <1>1
  <2>2. PICK n \in Nat : n = g[i - 1]
    BY <1>5, <2>1
  <2>3. g[i] = step[<<i, n>>]
    <3> HIDE DEF step
    <3> QED
      BY <1>4, <2>2 DEF Runs
  <2> QED
    BY <2>1, <2>2, <2>3
<1> HIDE DEF step
<1> DEFINE body(f) == [k \in 0..Len(s) |-> IF k = 0 THEN 0 ELSE f[k - 1] + EntrySize[s[k]]]
<1>7. ASSUME NEW f
      PROVE  /\ body(f)[0] = 0 /\ \A i \in 1..L : body(f)[i] = f[i - 1] + EntrySize[s[i]]
             /\ body(f) = [i \in 0..L |-> body(f)[i]]
  <2>1. body(f)[0] = 0
    BY <1>1
  <2>2. \A i \in 1..L : body(f)[i] = f[i - 1] + EntrySize[s[i]]
    BY <1>1
  <2> QED
    BY <2>1, <2>2, <1>1
<1>8. g = body(g)
  <2> HIDE DEF body
  <2>1. \A i \in 0..L : i = 0 \/ i \in 1..L
    BY <1>1
  <2>2. \A i \in 0..L : g[i] = body(g)[i]
    BY <2>1, <1>5, <1>6, <1>7
  <2>3. g = [i \in 0..L |-> g[i]] /\ body(g) = [i \in 0..L |-> body(g)[i]]
    BY <1>5, <1>7
  <2> QED
    BY <2>2, <2>3
<1> DEFINE end == CHOOSE f : f = body(f)
<1>9. end = body(end)
  BY <1>8, Zenon
<1>10. ASSUME NEW i
       PROVE  End(s, i) = end[i]
  BY DEF End
<1> HIDE DEF end, body
<1>11. end[0] = 0 /\ \A i \in 1..L : end[i] = end[i - 1] + EntrySize[s[i]]
  BY <1>7, <1>9, Zenon
<1>12. \A j \in 0..L : end[j] \in Nat
  <2> DEFINE P == {i \in Nat : i <= L => end[i] \in Nat}
  <2>1. 0 \in P
    BY <1>11
  <2>2. ASSUME NEW i \in P
        PROVE  i + 1 \in P
    <3>1. SUFFICES ASSUME i + 1 <= L
                   PROVE  end[i + 1] \in Nat
      OBVIOUS
    <3>2. i \in Nat /\ i <= L /\ i + 1 \in 1..L /\ (i + 1) - 1 = i
      BY <3>1, <1>1
    <3>3. end[i] \in Nat /\ EntrySize[s[i + 1]] \in Nat
      BY <3>2, <1>2
    <3>4. end[i + 1] = end[i] + EntrySize[s[i + 1]]
      BY <3>2, <1>11
    <3> QED
      BY <3>3, <3>4
  <2> HIDE DEF P
  <2>3. P \in SUBSET Nat
    BY DEF P
  <2>4. P = Nat
    BY <2>1, <2>2, <2>3, AllNaturals
  <2> QED
    BY <2>4, <1>1 DEF P
<1>13. /\ \A i \in 0..L : End(s, i) \in Nat
       /\ End(s, 0) = 0
       /\ \A i \in 1..L : End(s, i) = End(s, i - 1) + EntrySize[s[i]]
  BY <1>10, <1>11, <1>12
<1> QED
  BY <1>1, <1>2, <1>13

\* A later entry ends later.
LEMMA EndGrows ==
    ASSUME NEW s \in Seq(Entry)
    PROVE  \A i, j \in 0..Len(s) : i < j => End(s, i) < End(s, j)
<1>1. PICK L \in Nat : L = Len(s)
  OBVIOUS
<1>2. \A i \in 0..L : End(s, i) \in Nat
  BY <1>1, EndIs
<1>3. ASSUME NEW j \in 1..L
      PROVE  End(s, j - 1) < End(s, j)
  <2>1. j - 1 \in 0..L
    BY <1>1
  <2>2. PICK z \in Nat \ {0} : z = EntrySize[s[j]] /\ End(s, j) = End(s, j - 1) + z
    BY <1>1, EndIs
  <2> QED
    BY <1>2, <2>1, <2>2
<1> DEFINE P == {j \in Nat : j <= L => \A i \in 0..L : i < j => End(s, i) < End(s, j)}
<1>4. 0 \in P
  BY <1>1
<1>5. ASSUME NEW j \in P
      PROVE  j + 1 \in P
  <2>1. SUFFICES ASSUME j + 1 <= L, NEW i \in 0..L, i < j + 1
                 PROVE  End(s, i) < End(s, j + 1)
    OBVIOUS
  <2>2. j \in Nat /\ j + 1 \in 1..L /\ (j + 1) - 1 = j /\ j \in 0..L /\ j + 1 \in 0..L
    BY <1>1, <2>1
  <2>3. End(s, j) < End(s, j + 1)
    BY <1>3, <2>2
  <2>4. i = j \/ i < j
    BY <1>1, <2>1, <2>2
  <2>5. i < j => End(s, i) < End(s, j)
    BY <2>2
  <2> HIDE DEF P
  <2> QED
    BY <1>2, <2>2, <2>3, <2>4, <2>5
<1> HIDE DEF P
<1>6. P \in SUBSET Nat
  BY DEF P
<1>7. P = Nat
  BY <1>4, <1>5, <1>6, AllNaturals
<1> QED
  BY <1>1, <1>7 DEF P

\* Within counts the entries that end within n units: the next one does not.
LEMMA WithinIs ==
    ASSUME NEW s \in Seq(Entry), NEW n \in Nat
    PROVE  /\ Within(s, n) \in 0..Len(s) /\ End(s, Within(s, n)) <= n
           /\ Within(s, n) < Len(s) => End(s, Within(s, n) + 1) > n
<1>1. PICK L \in Nat : L = Len(s)
  OBVIOUS
<1>2. (\A i \in 0..L : End(s, i) \in Nat) /\ End(s, 0) = 0
  BY <1>1, EndIs
<1> DEFINE S == {i \in 0..L : End(s, i) <= n}
           T == {k \in 0..L : End(s, L - k) <= n}
<1>3. L \in T
  BY <1>2
<1>4. T \in SUBSET Nat /\ T # {}
  BY <1>1, <1>3
<1>5. PICK k \in T : \A y \in T : k <= y
  <2> HIDE DEF T
  <2> QED
    BY <1>4, LeastNatural
<1>6. L - k \in S
  BY <1>1
<1>7. ASSUME NEW y \in S
      PROVE  L - k >= y
  <2>1. L - y \in 0..L /\ L - (L - y) = y
    BY <1>1
  <2>2. L - y \in T
    BY <2>1
  <2>3. k <= L - y /\ k \in 0..L /\ y \in 0..L
    BY <1>5, <2>2
  <2> HIDE DEF S, T
  <2> QED
    BY <1>1, <2>3
<1>8. PICK m : m = Within(s, n)
  OBVIOUS
<1>9. m \in S /\ \A y \in S : m >= y
  BY <1>1, <1>6, <1>7, <1>8 DEF Within, Max
<1>10. ASSUME m < L
       PROVE  End(s, m + 1) > n
  <2>1. m + 1 \in 0..L /\ ~(m >= m + 1)
    BY <1>1, <1>9, <1>10
  <2>2. m + 1 \notin S
    BY <1>9, <2>1
  <2> QED
    BY <1>2, <2>1, <2>2
<1> QED
  BY <1>1, <1>8, <1>9, <1>10

\* A position is where one entry ends.
LEMMA WithinEnd ==
    ASSUME NEW s \in Seq(Entry), NEW i \in 0..Len(s)
    PROVE  Within(s, End(s, i)) = i
<1>1. PICK L \in Nat : L = Len(s) /\ i \in 0..L
  OBVIOUS
<1>2. PICK n \in Nat : n = End(s, i)
  BY EndIs
<1>3. PICK m \in 0..L : m = Within(s, n) /\ End(s, m) <= n /\ (m < L => End(s, m + 1) > n)
  BY <1>1, WithinIs
<1>4. \A a, b \in 0..L : a < b => End(s, a) < End(s, b)
  BY <1>1, EndGrows
<1>5. \A a \in 0..L : End(s, a) \in Nat
  BY <1>1, EndIs
<1>6. ~(m > i)
  BY <1>1, <1>2, <1>3, <1>4, <1>5
<1>7. ~(m < i)
  <2>1. SUFFICES ASSUME m < i
                 PROVE  FALSE
    OBVIOUS
  <2>2. m + 1 \in 0..L /\ m < L /\ (m + 1 = i \/ m + 1 < i)
    BY <1>1, <1>3, <2>1
  <2>3. End(s, m + 1) <= End(s, i)
    BY <1>1, <1>4, <1>5, <2>2
  <2> QED
    BY <1>1, <1>2, <1>3, <1>5, <2>2, <2>3
<1> QED
  BY <1>1, <1>2, <1>3, <1>6, <1>7

\* part is what follows the first i entries of s, up to entry k: as many as fit in size,
\* and one at least unless there are none.
Follows(s, i, size, part, k) ==
    /\ k \in i..Len(s)
    /\ part = SubSeq(s, i + 1, k) /\ part \in Seq(Entry) /\ Len(part) = k - i
    /\ SubSeq(s, 1, i) \o part = SubSeq(s, 1, k)
    /\ i < Len(s) => i < k
    /\ End(s, k) <= End(s, i) + size
    /\ k < Len(s) => End(s, k + 1) > End(s, i) + size

\* What the kernel makes of a piece that begins at an entry.
LEMMA PieceIs ==
    ASSUME NEW s \in Seq(Entry), NEW i \in 0..Len(s), NEW size \in RequestSizes
    PROVE  Follows(s, i, size, Piece(s, End(s, i), End(s, i) + size), Within(s, End(s, i) + size))
<1>1. PICK L \in Nat : L = Len(s) /\ i \in 0..L
  OBVIOUS
<1>2. PICK e \in Nat, n \in Nat : e = End(s, i) /\ n = e + size
  BY EndIs, DirAssumption DEF DirAssumption
<1>3. PICK k \in 0..L : k = Within(s, n) /\ End(s, k) <= n /\ (k < L => End(s, k + 1) > n)
  BY <1>1, WithinIs
<1>4. \A a, b \in 0..L : a < b => End(s, a) < End(s, b)
  BY <1>1, EndGrows
<1>5. \A a \in 0..L : End(s, a) \in Nat
  BY <1>1, EndIs
<1>6. size \in Nat
  BY DirAssumption DEF DirAssumption
<1>7. i < L => i < k
  <2>1. SUFFICES ASSUME i < L, k <= i
                 PROVE  FALSE
    BY <1>1, <1>3
  <2>2. i + 1 \in 1..L /\ (i + 1) - 1 = i /\ s[i + 1] \in Entry
    BY <1>1, <2>1
  <2>3. PICK z \in Nat : z = EntrySize[s[i + 1]] /\ z <= size
    BY <2>2, DirAssumption DEF DirAssumption
  <2>4. End(s, i + 1) = e + z
    BY <1>1, <1>2, <2>2, <2>3, EndIs
  <2>5. End(s, i + 1) <= n
    BY <1>2, <1>6, <2>3, <2>4
  <2>6. k + 1 \in 0..L /\ i + 1 \in 0..L /\ k < L /\ (k + 1 = i + 1 \/ k + 1 < i + 1)
    BY <1>1, <1>3, <2>1
  <2>7. End(s, k + 1) <= End(s, i + 1)
    BY <1>4, <1>5, <2>6
  <2>8. PICK x \in Nat, y \in Nat : x = End(s, k + 1) /\ y = End(s, i + 1)
    BY <1>5, <2>6
  <2>9. x > n
    BY <1>3, <2>6, <2>8
  <2> QED
    BY <1>2, <2>5, <2>7, <2>8, <2>9
<1>8. i <= k
  <2>1. SUFFICES ASSUME k < i
                 PROVE  FALSE
    BY <1>1, <1>3
  <2>2. k + 1 \in 0..L /\ k < L /\ (k + 1 = i \/ k + 1 < i)
    BY <1>1, <1>3, <2>1
  <2>3. End(s, k + 1) <= End(s, i)
    BY <1>1, <1>4, <1>5, <2>2
  <2>4. PICK x \in Nat : x = End(s, k + 1)
    BY <1>5, <2>2
  <2>5. x > n
    BY <1>3, <2>2, <2>4
  <2> QED
    BY <1>2, <1>6, <2>3, <2>4, <2>5
<1>9. PICK part : part = Piece(s, e, n)
  OBVIOUS
<1>10. part = SubSeq(s, i + 1, k)
  BY <1>2, <1>3, <1>9, WithinEnd DEF Piece
<1>11. i + 1 \in 1..(L + 1) /\ k \in 0..L /\ i + 1 <= k + 1 /\ k - (i + 1) + 1 = k - i
  BY <1>1, <1>8
<1>12. part \in Seq(Entry) /\ Len(part) = k - i /\ \A j \in 1..(k - i) : part[j] = s[i + 1 + j - 1]
  BY <1>1, <1>10, <1>11, PartIs
<1>13. Continues(part, s, i)
  <2>1. \A j \in 1..(k - i) : i + 1 + j - 1 = i + j
    BY <1>1
  <2> QED
    BY <1>12, <2>1 DEF Continues
<1>14. Prolongs(part, s, i, k)
  <2>1. k = i + Len(part) /\ i \in Nat /\ k \in 0..Len(s)
    BY <1>1, <1>3, <1>12
  <2> QED
    BY <1>12, <1>13, <2>1, PrefixGrows
<1>15. k \in i..L
  BY <1>1, <1>8
<1>16. Follows(s, i, size, part, k)
  BY <1>1, <1>2, <1>3, <1>7, <1>10, <1>12, <1>14, <1>15 DEF Follows, Prolongs
<1> QED
  BY <1>2, <1>3, <1>9, <1>16

\* With the whole directory handed over, the positions are ends of entries of the contents.
WholeInv ==
    /\ ~dh.ended
    /\ (kpos.seen = {0} /\ ~scan.whole) \/ (dh.filled /\ dh.contents = scan.of)
    /\ \A off \in kpos.seen : \E i \in 0..Len(scan.of) : off = End(scan.of, i)
    /\ scan.whole => \E j \in 0..Len(scan.of) :
          /\ kpos.at = End(scan.of, j) /\ scan.got = SubSeq(scan.of, 1, j)
          /\ scan.done => j = Len(scan.of)

\* With the offsets of the file system, they are numbers of entries of the directory.
OffsetInv ==
    /\ dh.filled = dh.ended /\ (dh.filled => dh.contents = <<>>)
    /\ \A off \in kpos.seen : off <= Len(dir)
    /\ scan.whole =>
          /\ scan.of = dir /\ scan.got = SubSeq(dir, 1, kpos.at)
          /\ scan.done \/ dh.filled => kpos.at = Len(dir)

\* The inductive invariant of a listing.
DirHandles == [contents : Seq(Entry), filled : BOOLEAN, ended : BOOLEAN]
Scans == [got : Seq(Entry), of : Seq(Entry), whole : BOOLEAN, done : BOOLEAN]

DirInv ==
    /\ style \in {"whole", "offset"} /\ dir \in Seq(Entry)
    /\ dh \in DirHandles /\ scan \in Scans
    /\ kpos \in [at : Nat, seen : SUBSET Nat] /\ kpos.at \in kpos.seen
    /\ style = "whole" => WholeInv
    /\ style = "offset" => OffsetInv

\* An answer from contents that are all there.
LEMMA FilledAnswer ==
    ASSUME NEW d \in DirHandles, d.filled, NEW i \in 0..Len(d.contents), NEW size \in RequestSizes
    PROVE  \E k : /\ Follows(d.contents, i, size, Answer(d, End(d.contents, i), size).got, k)
                  /\ Answer(d, End(d.contents, i), size).at = End(d.contents, k)
<1>1. PICK s \in Seq(Entry) : s = d.contents
  BY DEF DirHandles
<1>2. PICK off : off = End(s, i)
  OBVIOUS
<1>3. PICK k : k = Within(s, off + size)
  OBVIOUS
<1>4. PICK part : part = Piece(s, off, off + size)
  OBVIOUS
<1>5. Follows(s, i, size, part, k)
  BY <1>1, <1>2, <1>3, <1>4, PieceIs
<1>6. Answer(d, off, size) = [got |-> part, at |-> IF part = <<>> THEN off ELSE End(s, k)]
  BY <1>1, <1>3, <1>4 DEF Answer
<1>7. part = <<>> => off = End(s, k)
  <2>1. SUFFICES ASSUME part = <<>>
                 PROVE  off = End(s, k)
    OBVIOUS
  <2>2. k \in i..Len(s) /\ k - i = 0
    BY <1>5, <2>1 DEF Follows
  <2>3. k = i
    BY <1>1, <2>2
  <2> QED
    BY <1>2, <2>3
<1> QED
  BY <1>1, <1>2, <1>5, <1>6, <1>7

\* An answer from contents that are empty.
LEMMA EmptyAnswer ==
    ASSUME NEW d \in DirHandles, d.filled, d.contents = <<>>, NEW off \in Nat, NEW size \in RequestSizes
    PROVE  Answer(d, off, size) = [got |-> <<>>, at |-> off]
<1>1. \A n \in Nat : Within(<<>>, n) = 0
  <2>1. <<>> \in Seq(Entry) /\ Len(<<>>) = 0
    OBVIOUS
  <2>2. \A n \in Nat : Within(<<>>, n) \in 0..0
    BY <2>1, WithinIs
  <2> QED
    BY <2>2
<1>2. off + size \in Nat
  BY DirAssumption DEF DirAssumption
<1>3. Piece(<<>>, off, off + size) = SubSeq(<<>>, 0 + 1, 0)
  BY <1>1, <1>2 DEF Piece
<1>4. SubSeq(<<>>, 0 + 1, 0) = <<>>
  OBVIOUS
<1>5. Piece(d.contents, off, off + size) = <<>>
  BY <1>3, <1>4
<1> QED
  BY <1>5 DEF Answer

\* An answer from the entries the file system gives behind an offset.
LEMMA FromAnswer ==
    ASSUME dir \in Seq(Entry), NEW off \in 0..Len(dir), NEW size \in RequestSizes,
           NEW d, d = FilledFrom(off, size)
    PROVE  /\ d \in DirHandles /\ d.filled = d.ended /\ (d.filled => d.contents = <<>>)
           /\ d.filled => off = Len(dir)
           /\ \E k : Follows(dir, off, size, Answer(d, off, size).got, k) /\ Answer(d, off, size).at = k
<1>1. PICK L \in Nat : L = Len(dir) /\ off \in 0..L
  OBVIOUS
<1>2. PICK k : k = Within(dir, End(dir, off) + size)
  OBVIOUS
<1>3. PICK part : part = Piece(dir, End(dir, off), End(dir, off) + size)
  OBVIOUS
<1>4. Follows(dir, off, size, part, k)
  BY <1>2, <1>3, PieceIs
<1>5. d = [contents |-> part, filled |-> off >= L, ended |-> off >= L]
  BY <1>1, <1>3 DEF FilledFrom
<1>6. k \in off..L /\ part \in Seq(Entry) /\ Len(part) = k - off
  BY <1>1, <1>4 DEF Follows
<1>7. PICK all \in BOOLEAN : all = (off >= L)
  <2>1. (off >= L) \in BOOLEAN
    OBVIOUS
  <2> QED
    BY <2>1, Zenon
<1>8. d \in DirHandles /\ d.filled = d.ended /\ d.contents = part /\ (d.filled <=> off >= L)
  <2>1. d = [contents |-> part, filled |-> all, ended |-> all]
    BY <1>5, <1>7, Zenon
  <2>2. all <=> off >= L
    BY <1>7
  <2> QED
    BY <1>6, <2>1, <2>2 DEF DirHandles
<1>9. CASE off >= L
  <2>1. off = L /\ k = L /\ Len(part) = 0
    BY <1>1, <1>6, <1>9
  <2>2. part = <<>>
    BY <1>6, <2>1
  <2>3. d.filled /\ d.contents = <<>> /\ off \in Nat
    BY <1>1, <1>8, <1>9, <2>2
  <2>4. Answer(d, off, size) = [got |-> <<>>, at |-> off]
    BY <1>8, <2>3, EmptyAnswer
  <2> QED
    BY <1>1, <1>4, <1>8, <1>9, <2>1, <2>2, <2>4
<1>10. CASE ~(off >= L)
  <2>1. Answer(d, off, size) = [got |-> part, at |-> off + Len(part)]
    BY <1>8, <1>10 DEF Answer
  <2>2. off + Len(part) = k
    BY <1>1, <1>6
  <2>3. Answer(d, off, size).got = part /\ Answer(d, off, size).at = k
    BY <2>1, <2>2
  <2>4. Follows(dir, off, size, Answer(d, off, size).got, k)
    BY <1>4, <2>3
  <2> QED
    BY <1>8, <1>10, <2>3, <2>4
<1> QED
  BY <1>9, <1>10

\* A listing begins with nothing.
LEMMA NothingRead ==
    ASSUME NEW s \in Seq(Entry)
    PROVE  SubSeq(s, 1, 0) = <<>> /\ 0 \in 0..Len(s)
  OBVIOUS

\* What the kernel has got after an answer, in a reading in order or out of order.
LEMMA ScanSet ==
    ASSUME DirInv, NEW off, NEW size, fuse_lib_readdir(off, size), NEW a,
           a = Answer(Contents(off, size), off, size), a.got \in Seq(Entry)
    PROVE  /\ scan' \in Scans
           /\ scan'.whole => (scan'.done <=> a.got = <<>>)
           /\ off = 0 => scan'.got = a.got /\ scan'.of = dir
           /\ off # 0 => scan'.of = scan.of
           /\ off # 0 /\ scan'.whole => /\ scan.whole /\ off = kpos.at
                                        /\ scan'.got = scan.got \o a.got
<1>1. scan \in Scans /\ dir \in Seq(Entry)
  BY DEF DirInv
<1>2. (a.got = <<>>) \in BOOLEAN
  OBVIOUS
<1>3. CASE off = 0
  <2>1. scan' = [[got |-> <<>>, of |-> dir, whole |-> TRUE, done |-> FALSE]
                   EXCEPT !.got = @ \o a.got, !.done = (a.got = <<>>)]
    BY <1>3 DEF fuse_lib_readdir
  <2>2. scan' = [got |-> <<>> \o a.got, of |-> dir, whole |-> TRUE, done |-> a.got = <<>>]
    BY <2>1
  <2>3. <<>> \o a.got = a.got
    OBVIOUS
  <2>4. scan' = [got |-> a.got, of |-> dir, whole |-> TRUE, done |-> a.got = <<>>]
    BY <2>2, <2>3
  <2>5. scan' \in Scans
    BY <1>1, <1>2, <2>4 DEF Scans
  <2> QED
    BY <1>3, <2>4, <2>5
<1>4. CASE off # 0
  <2>1. scan' = IF scan.whole /\ off = kpos.at
                THEN [scan EXCEPT !.got = @ \o a.got, !.done = (a.got = <<>>)]
                ELSE [NoScan EXCEPT !.of = scan.of]
    BY <1>4 DEF fuse_lib_readdir
  <2>2. CASE scan.whole /\ off = kpos.at
    <3>1. scan.got \o a.got \in Seq(Entry)
      BY <1>1 DEF Scans
    <3>2. scan' = [scan EXCEPT !.got = scan.got \o a.got, !.done = (a.got = <<>>)]
      BY <2>1, <2>2
    <3>3. /\ scan' \in Scans /\ scan'.of = scan.of
          /\ scan'.got = scan.got \o a.got /\ (scan'.done <=> a.got = <<>>)
      BY <1>1, <1>2, <3>1, <3>2 DEF Scans
    <3> QED
      BY <1>4, <2>2, <3>3
  <2>3. CASE ~(scan.whole /\ off = kpos.at)
    <3>1. scan' = [got |-> <<>>, of |-> scan.of, whole |-> FALSE, done |-> FALSE]
      BY <2>1, <2>3 DEF NoScan
    <3>2. scan' \in Scans
      BY <1>1, <3>1 DEF Scans
    <3> QED
      BY <1>4, <3>1, <3>2
  <2> QED
    BY <2>2, <2>3
<1> QED
  BY <1>3, <1>4

\* What the handler sets besides the kernel's reading.
LEMMA ReaddirSets ==
    ASSUME DirInv, NEW off \in kpos.seen, NEW size, fuse_lib_readdir(off, size), NEW a,
           a = Answer(Contents(off, size), off, size), a.at \in Nat
    PROVE  /\ dh' = Contents(off, size) /\ style' = style /\ dir' = dir
           /\ kpos' \in [at : Nat, seen : SUBSET Nat] /\ kpos'.at \in kpos'.seen
           /\ kpos'.at = a.at /\ kpos'.seen = (IF off = 0 THEN {0} ELSE kpos.seen) \cup {a.at}
<1>1. kpos \in [at : Nat, seen : SUBSET Nat]
  BY DEF DirInv
<1>2. PICK old \in SUBSET Nat : old = IF off = 0 THEN {0} ELSE kpos.seen
  BY <1>1
<1>3. kpos' = [at |-> a.at, seen |-> old \cup {a.at}]
  BY <1>2 DEF fuse_lib_readdir
<1> QED
  BY <1>2, <1>3 DEF fuse_lib_readdir

\* A request at the beginning reads the directory anew.
LEMMA WholeAnew ==
    ASSUME DirInv, style = "whole", NEW size \in RequestSizes, 0 \in kpos.seen, fuse_lib_readdir(0, size)
    PROVE  DirInv'
<1>1. dir \in Seq(Entry)
  BY DEF DirInv
<1>2. PICK d : d = Contents(0, size)
  OBVIOUS
<1>3. d = [contents |-> dir, filled |-> TRUE, ended |-> FALSE]
  BY <1>2 DEF Contents, NeedsFill, FilledWhole
<1>4. d \in DirHandles /\ d.filled /\ ~d.ended /\ d.contents = dir
  BY <1>1, <1>3 DEF DirHandles
<1>5. End(dir, 0) = 0 /\ \A i \in 0..Len(dir) : End(dir, i) \in Nat
  BY <1>1, EndIs
<1>6. PICK a : a = Answer(d, 0, size)
  OBVIOUS
<1>7. 0 \in 0..Len(dir)
  BY <1>1, NothingRead
<1>8. PICK k : Follows(dir, 0, size, a.got, k) /\ a.at = End(dir, k)
  BY <1>4, <1>5, <1>6, <1>7, FilledAnswer
<1>9. PICK L \in Nat : L = Len(dir) /\ k \in 0..L /\ a.got \in Seq(Entry) /\ Len(a.got) = k - 0
  BY <1>1, <1>8 DEF Follows
<1>10. a.at \in Nat
  BY <1>5, <1>8, <1>9
<1>11. /\ dh' = d /\ style' = style /\ dir' = dir
       /\ kpos' \in [at : Nat, seen : SUBSET Nat] /\ kpos'.at \in kpos'.seen
       /\ kpos'.at = a.at /\ kpos'.seen = {0} \cup {a.at}
  BY <1>2, <1>6, <1>10, ReaddirSets
<1>12. scan' \in Scans /\ scan'.got = a.got /\ scan'.of = dir /\ (scan'.whole => (scan'.done <=> a.got = <<>>))
  BY <1>2, <1>6, <1>9, ScanSet
<1>14. a.got = SubSeq(dir, 1, k)
  <2>1. SubSeq(dir, 1, 0) \o a.got = SubSeq(dir, 1, k) /\ SubSeq(dir, 1, 0) = <<>>
    BY <1>1, <1>8, NothingRead DEF Follows
  <2>2. <<>> \o a.got = a.got
    BY <1>9
  <2> QED
    BY <2>1, <2>2
<1>15. a.got = <<>> => k = L
  <2>1. SUFFICES ASSUME a.got = <<>>
                 PROVE  k = L
    OBVIOUS
  <2>2. k = 0 /\ ~(0 < L)
    BY <1>8, <1>9, <2>1 DEF Follows
  <2> QED
    BY <1>9, <2>2
<1>16. WholeInv'
  <2>1. \A off \in kpos'.seen : \E i \in 0..Len(scan'.of) : off = End(scan'.of, i)
    BY <1>5, <1>7, <1>8, <1>9, <1>11, <1>12
  <2>2. /\ k \in 0..Len(scan'.of) /\ kpos'.at = End(scan'.of, k) /\ scan'.got = SubSeq(scan'.of, 1, k)
        /\ scan'.whole /\ scan'.done => k = Len(scan'.of)
    BY <1>8, <1>9, <1>11, <1>12, <1>14, <1>15
  <2>3. ~dh'.ended /\ dh'.filled /\ dh'.contents = scan'.of
    BY <1>4, <1>11, <1>12
  <2> QED
    BY <2>1, <2>2, <2>3 DEF WholeInv
<1> QED
  BY <1>1, <1>4, <1>11, <1>12, <1>16 DEF DirInv

\* A request further on goes on with the contents.
LEMMA WholeOn ==
    ASSUME DirInv, style = "whole", NEW off \in kpos.seen, off # 0, NEW size \in RequestSizes,
           fuse_lib_readdir(off, size)
    PROVE  DirInv'
<1>1. dir \in Seq(Entry) /\ dh \in DirHandles /\ scan \in Scans /\ WholeInv
  BY DEF DirInv
<1>2. dh.filled /\ ~dh.ended
  BY <1>1 DEF WholeInv
<1>3. PICK s \in Seq(Entry) : s = scan.of /\ s = dh.contents
  BY <1>1 DEF WholeInv, Scans
<1>4. PICK i \in 0..Len(s) : off = End(s, i)
  BY <1>1, <1>3 DEF WholeInv
<1>5. Contents(off, size) = dh
  BY <1>2 DEF Contents, NeedsFill
<1>6. PICK a : a = Answer(dh, off, size)
  OBVIOUS
<1>7. PICK k : Follows(s, i, size, a.got, k) /\ a.at = End(s, k)
  BY <1>1, <1>2, <1>3, <1>4, <1>6, FilledAnswer
<1>8. PICK L \in Nat : L = Len(s) /\ i \in 0..L /\ k \in i..L /\ a.got \in Seq(Entry) /\ Len(a.got) = k - i
  BY <1>3, <1>4, <1>7 DEF Follows
<1>9. k \in 0..L
  BY <1>8
<1>10. a.at \in Nat
  BY <1>7, <1>8, <1>9, EndIs
<1>11. /\ dh' = dh /\ style' = style /\ dir' = dir
       /\ kpos' \in [at : Nat, seen : SUBSET Nat] /\ kpos'.at \in kpos'.seen
       /\ kpos'.at = a.at /\ kpos'.seen = kpos.seen \cup {a.at}
  BY <1>5, <1>6, <1>10, ReaddirSets
<1>12. /\ scan' \in Scans /\ scan'.of = s
       /\ scan'.whole => /\ scan.whole /\ off = kpos.at
                         /\ scan'.got = scan.got \o a.got /\ (scan'.done <=> a.got = <<>>)
  <2>1. a = Answer(Contents(off, size), off, size) /\ a.got \in Seq(Entry)
    BY <1>5, <1>6, <1>8
  <2>2. scan' \in Scans
    BY <2>1, ScanSet
  <2>3. scan'.of = scan.of
    BY <2>1, ScanSet
  <2>4. scan'.whole => scan.whole /\ off = kpos.at
    BY <2>1, ScanSet
  <2>5. scan'.whole => (scan'.done <=> a.got = <<>>)
    BY <2>1, ScanSet
  <2>6. scan'.whole => scan'.got = scan.got \o a.got
    BY <2>1, ScanSet
  <2> QED
    BY <1>3, <2>2, <2>3, <2>4, <2>5, <2>6
<1>13. ASSUME scan'.whole
       PROVE  scan'.got = SubSeq(s, 1, k) /\ (scan'.done => k = L)
  <2>1. PICK j \in 0..L : kpos.at = End(s, j) /\ scan.got = SubSeq(s, 1, j)
    BY <1>1, <1>3, <1>8, <1>12, <1>13 DEF WholeInv
  <2>2. j = i
    <3>1. Within(s, End(s, j)) = j /\ Within(s, End(s, i)) = i
      BY <1>8, <2>1, WithinEnd
    <3> QED
      BY <1>4, <1>12, <1>13, <2>1, <3>1
  <2>3. scan'.got = SubSeq(s, 1, k)
    BY <1>7, <1>12, <1>13, <2>1, <2>2 DEF Follows
  <2>4. ASSUME a.got = <<>>
        PROVE  k = L
    <3>1. k - i = 0 /\ (i < L => i < k)
      BY <1>7, <1>8, <2>4 DEF Follows
    <3> QED
      BY <1>8, <3>1
  <2> QED
    BY <1>12, <1>13, <2>3, <2>4
<1>14. WholeInv'
  <2>1. \A o \in kpos'.seen : \E n \in 0..Len(scan'.of) : o = End(scan'.of, n)
    BY <1>1, <1>3, <1>7, <1>8, <1>9, <1>11, <1>12 DEF WholeInv
  <2>2. scan'.whole => \E n \in 0..Len(scan'.of) :
          /\ kpos'.at = End(scan'.of, n) /\ scan'.got = SubSeq(scan'.of, 1, n)
          /\ scan'.done => n = Len(scan'.of)
    BY <1>7, <1>8, <1>9, <1>11, <1>12, <1>13
  <2>3. ~dh'.ended /\ dh'.filled /\ dh'.contents = scan'.of
    BY <1>2, <1>3, <1>11, <1>12
  <2> QED
    BY <2>1, <2>2, <2>3 DEF WholeInv
<1> QED
  BY <1>1, <1>11, <1>12, <1>14 DEF DirInv

\* With the offsets of the file system, the answer is what follows the offset.
LEMMA OffsetContents ==
    ASSUME DirInv, style = "offset", NEW off \in kpos.seen, NEW size \in RequestSizes,
           NEW d, d = Contents(off, size), NEW a, a = Answer(d, off, size)
    PROVE  /\ off \in 0..Len(dir)
           /\ d \in DirHandles /\ d.filled = d.ended /\ (d.filled => d.contents = <<>>)
           /\ NeedsFill(off) =>
                /\ d.filled => off = Len(dir)
                /\ \E k : Follows(dir, off, size, a.got, k) /\ a.at = k
           /\ ~NeedsFill(off) => off # 0 /\ d = dh /\ dh.filled /\ a = [got |-> <<>>, at |-> off]
<1>1. dir \in Seq(Entry) /\ dh \in DirHandles /\ OffsetInv /\ off \in Nat
  BY DEF DirInv
<1>2. off \in 0..Len(dir)
  BY <1>1 DEF OffsetInv
<1>3. CASE NeedsFill(off)
  <2>1. d = FilledFrom(off, size)
    BY <1>3 DEF Contents
  <2> QED
    BY <1>1, <1>2, <1>3, <2>1, FromAnswer
<1>4. CASE ~NeedsFill(off)
  <2>1. d = dh /\ dh.filled /\ off # 0
    BY <1>4 DEF Contents, NeedsFill
  <2>2. dh.contents = <<>> /\ dh.filled = dh.ended
    BY <1>1, <2>1 DEF OffsetInv
  <2>3. a = [got |-> <<>>, at |-> off]
    BY <1>1, <2>1, <2>2, EmptyAnswer
  <2> QED
    BY <1>1, <1>2, <1>4, <2>1, <2>2, <2>3
<1> QED
  BY <1>3, <1>4

\* A request of the other kind.
LEMMA OffsetOn ==
    ASSUME DirInv, style = "offset", NEW off \in kpos.seen, NEW size \in RequestSizes,
           fuse_lib_readdir(off, size)
    PROVE  DirInv'
<1>1. dir \in Seq(Entry) /\ scan \in Scans /\ OffsetInv
  BY DEF DirInv
<1>2. PICK d, a : d = Contents(off, size) /\ a = Answer(d, off, size)
  OBVIOUS
<1>3. PICK L \in Nat : L = Len(dir) /\ off \in 0..L
  BY <1>1, <1>2, OffsetContents
<1>4. d \in DirHandles /\ d.filled = d.ended /\ (d.filled => d.contents = <<>>)
  BY <1>2, OffsetContents
<1>5. PICK k \in off..L :
        /\ a.got \in Seq(Entry) /\ Len(a.got) = k - off /\ a.at = k
        /\ NeedsFill(off) => /\ SubSeq(dir, 1, off) \o a.got = SubSeq(dir, 1, k)
                             /\ off < L => off < k
                             /\ d.filled => off = L
        /\ ~NeedsFill(off) => off # 0 /\ dh.filled /\ a.got = <<>> /\ k = off
  <2>1. CASE NeedsFill(off)
    <3>1. d.filled => off = L
      BY <1>2, <1>3, <2>1, OffsetContents
    <3>2. PICK k : Follows(dir, off, size, a.got, k) /\ a.at = k
      BY <1>2, <2>1, OffsetContents
    <3>3. /\ k \in off..L /\ a.got \in Seq(Entry) /\ Len(a.got) = k - off
          /\ SubSeq(dir, 1, off) \o a.got = SubSeq(dir, 1, k) /\ (off < L => off < k)
      BY <1>3, <3>2 DEF Follows
    <3> QED
      BY <2>1, <3>1, <3>2, <3>3
  <2>2. CASE ~NeedsFill(off)
    <3>1. off # 0 /\ dh.filled /\ a = [got |-> <<>>, at |-> off]
      BY <1>2, <2>2, OffsetContents
    <3>2. a.got = <<>> /\ a.at = off /\ <<>> \in Seq(Entry) /\ Len(<<>>) = 0
      BY <3>1
    <3>3. off \in off..L /\ off - off = 0
      BY <1>3
    <3> QED
      BY <2>2, <3>1, <3>2, <3>3
  <2> QED
    BY <2>1, <2>2
<1>6. k \in Nat /\ k <= L
  BY <1>3, <1>5
<1>7. /\ dh' = d /\ style' = style /\ dir' = dir
      /\ kpos' \in [at : Nat, seen : SUBSET Nat] /\ kpos'.at \in kpos'.seen
      /\ kpos'.at = k /\ kpos'.seen = (IF off = 0 THEN {0} ELSE kpos.seen) \cup {k}
  BY <1>2, <1>5, <1>6, ReaddirSets
<1>8. scan' \in Scans
  BY <1>2, <1>5, ScanSet
<1>9. off = 0 => scan'.of = dir /\ scan'.got = a.got
  BY <1>2, <1>5, ScanSet
<1>10. off # 0 => scan'.of = scan.of
  BY <1>2, <1>5, ScanSet
<1>11. off # 0 /\ scan'.whole => scan.whole /\ off = kpos.at
  BY <1>2, <1>5, ScanSet
<1>12. off # 0 /\ scan'.whole => scan'.got = scan.got \o a.got
  BY <1>2, <1>5, ScanSet
<1>13. scan'.whole => (scan'.done <=> a.got = <<>>)
  BY <1>2, <1>5, ScanSet
<1>14. ASSUME scan'.whole
       PROVE  /\ scan'.of = dir /\ scan'.got = SubSeq(dir, 1, k)
              /\ scan'.done \/ d.filled => k = L
  <2>1. CASE NeedsFill(off)
    <3>1. scan'.of = dir /\ scan'.got = SubSeq(dir, 1, k)
      <4>1. CASE off = 0
        <5>1. SubSeq(dir, 1, 0) = <<>> /\ <<>> \o a.got = a.got
          BY <1>1, <1>5, NothingRead
        <5> QED
          BY <1>5, <1>9, <2>1, <4>1, <5>1
      <4>2. CASE off # 0
        <5>1. scan.of = dir /\ scan.got = SubSeq(dir, 1, off)
          BY <1>1, <1>11, <1>14, <4>2 DEF OffsetInv
        <5> QED
          BY <1>5, <1>10, <1>12, <1>14, <2>1, <4>2, <5>1
      <4> QED
        BY <4>1, <4>2
    <3>2. ASSUME a.got = <<>>
          PROVE  k = L
      <4>1. k - off = 0 /\ (off < L => off < k)
        BY <1>5, <2>1, <3>2
      <4> QED
        BY <1>3, <1>5, <4>1
    <3>3. d.filled => k = L
      BY <1>3, <1>5, <2>1
    <3> QED
      BY <1>13, <1>14, <3>1, <3>2, <3>3
  <2>2. CASE ~NeedsFill(off)
    <3>1. off # 0 /\ dh.filled /\ a.got = <<>> /\ k = off
      BY <1>5, <2>2
    <3>2. scan.whole /\ off = kpos.at
      BY <1>11, <1>14, <3>1
    <3>3. scan.of = dir /\ scan.got = SubSeq(dir, 1, off) /\ off = L
      BY <1>1, <1>3, <3>1, <3>2 DEF OffsetInv
    <3>4. scan.got \o <<>> = scan.got
      BY <1>1 DEF Scans
    <3> QED
      BY <1>10, <1>12, <1>14, <3>1, <3>3, <3>4
  <2> QED
    BY <2>1, <2>2
<1>15. \A o \in kpos'.seen : o <= L
  <2>1. \A o \in kpos.seen : o <= L
    BY <1>1, <1>3 DEF OffsetInv
  <2> QED
    BY <1>3, <1>6, <1>7, <2>1
<1>16. OffsetInv'
  BY <1>3, <1>4, <1>7, <1>14, <1>15 DEF OffsetInv
<1> QED
  BY <1>1, <1>4, <1>7, <1>8, <1>16 DEF DirInv

\* Starting again: nothing has been read.
LEMMA NoScanIs == NoScan \in Scans /\ ~NoScan.whole /\ NoScan.of = <<>>
  BY DEF NoScan, Scans

\* After an error the kernel starts again.
LEMMA FailsAnew ==
    ASSUME DirInv, NEW off, ReaddirFails(off)
    PROVE  DirInv'
<1>1. style \in {"whole", "offset"} /\ dir \in Seq(Entry)
  BY DEF DirInv
<1>2. PICK n \in 0..Len(dir) : dh' = [contents |-> SubSeq(dir, 1, n), filled |-> FALSE, ended |-> FALSE]
  BY DEF ReaddirFails
<1>3. SubSeq(dir, 1, n) \in Seq(Entry)
  BY <1>1, PrefixIs
<1>4. dh' \in DirHandles /\ ~dh'.filled /\ ~dh'.ended
  BY <1>2, <1>3 DEF DirHandles
<1>5. dh'.filled = dh'.ended
  BY <1>2
<1>6. /\ kpos' = [at |-> 0, seen |-> {0}] /\ scan' \in Scans /\ ~scan'.whole /\ scan'.of = <<>>
      /\ style' = style /\ dir' = dir
  BY NoScanIs DEF ReaddirFails
<1>7. kpos' \in [at : Nat, seen : SUBSET Nat] /\ kpos'.at \in kpos'.seen /\ kpos'.seen = {0}
  BY <1>6
<1>8. WholeInv'
  <2>1. <<>> \in Seq(Entry) /\ 0 \in 0..Len(<<>>)
    OBVIOUS
  <2>2. End(<<>>, 0) = 0
    BY <2>1, EndIs
  <2>3. \A o \in kpos'.seen : \E i \in 0..Len(scan'.of) : o = End(scan'.of, i)
    BY <1>6, <1>7, <2>1, <2>2
  <2> QED
    BY <1>4, <1>6, <1>7, <2>3 DEF WholeInv
<1>9. OffsetInv'
  <2>1. 0 <= Len(dir)
    BY <1>1
  <2> QED
    BY <1>4, <1>5, <1>6, <1>7, <2>1 DEF OffsetInv
<1> QED
  BY <1>1, <1>4, <1>6, <1>7, <1>8, <1>9 DEF DirInv

\* The directories are lists of entries.
LEMMA DirsAre == SetToAllKPermutations(Entry) \subseteq Seq(Entry)
<1>1. SUFFICES ASSUME NEW s \in SUBSET Entry, NEW d \in SetToSeqs(s)
               PROVE  d \in Seq(Entry)
  BY DEF SetToAllKPermutations
<1>2. Cardinality(s) \in Nat
  BY DirAssumption, FS_Subset, FS_CardinalityType DEF DirAssumption
<1>3. d \in [1..Cardinality(s) -> s]
  BY DEF SetToSeqs
<1> QED
  BY <1>2, <1>3

\* A change of the directory leaves the positions right.
LEMMA ChangeKeeps ==
    ASSUME DirInv, NEW d \in SetToAllKPermutations(Entry), ChangeDir(d)
    PROVE  DirInv'
<1>1. d \in Seq(Entry) /\ dir \in Seq(Entry)
  BY DirsAre DEF DirInv
<1>2. dir' = d /\ style' = style /\ dh' = dh /\ kpos' = kpos
  BY DEF ChangeDir
<1>3. CASE style = "whole"
  <2>1. scan' = scan
    BY <1>3 DEF ChangeDir
  <2>2. WholeInv'
    BY <1>2, <1>3, <2>1 DEF DirInv, WholeInv
  <2> QED
    BY <1>1, <1>2, <1>3, <2>1, <2>2 DEF DirInv
<1>4. CASE style = "offset"
  <2>1. scan' \in Scans /\ ~scan'.whole
    BY <1>4, NoScanIs DEF ChangeDir
  <2>2. PICK L \in Nat, M \in Nat : L = Len(dir) /\ M = Len(d) /\ L <= M
    BY <1>1, <1>4 DEF ChangeDir, IsPrefix
  <2>3. \A off \in kpos.seen : off \in Nat /\ off <= L
    BY <1>4, <2>2 DEF DirInv, OffsetInv
  <2>4. \A off \in kpos.seen : off <= M
    BY <2>2, <2>3
  <2>5. OffsetInv'
    BY <1>2, <1>4, <2>1, <2>2, <2>4 DEF DirInv, OffsetInv
  <2> QED
    BY <1>1, <1>2, <1>4, <2>1, <2>5 DEF DirInv
<1> QED
  BY <1>3, <1>4 DEF DirInv

\* The invariant says what a listing gives.
LEMMA DirInvRight == DirInv => ListingRight
<1>1. SUFFICES ASSUME DirInv
               PROVE  ListingRight
  OBVIOUS
<1>2. dir \in Seq(Entry) /\ dh \in DirHandles /\ scan \in Scans /\ style \in {"whole", "offset"}
  BY <1>1 DEF DirInv
<1>3. \A s \in Seq(Entry) : SubSeq(s, 1, Len(s)) = s
  OBVIOUS
<1>4. ListingInPieces
  <2>1. SUFFICES ASSUME scan.whole, scan.done
                 PROVE  scan.got = scan.of
    BY DEF ListingInPieces
  <2>2. scan.got = SubSeq(scan.of, 1, Len(scan.of))
    BY <1>1, <1>2, <2>1 DEF DirInv, WholeInv, OffsetInv
  <2> QED
    BY <1>2, <1>3, <2>2 DEF Scans
<1>5. ASSUME ~dh.ended, NEW off \in kpos.seen \ {0}, NEW size \in RequestSizes,
             NEW listing, listing = IF style = "whole" THEN scan.of ELSE dir
      PROVE  \E i \in 0..Len(listing) :
                /\ off = IF style = "whole" THEN End(listing, i) ELSE i
                /\ Follow(listing, i, size, Answer(Contents(off, size), off, size).got)
  <2>1. PICK a : a = Answer(Contents(off, size), off, size)
    OBVIOUS
  <2>2. CASE style = "whole"
    <3>1. WholeInv /\ off # 0 /\ listing = scan.of
      BY <1>1, <1>5, <2>2 DEF DirInv
    <3>2. dh.filled /\ dh.contents = scan.of
      BY <1>5, <3>1 DEF WholeInv
    <3>3. PICK i \in 0..Len(listing) : off = End(listing, i)
      BY <1>5, <3>1 DEF WholeInv
    <3>4. Contents(off, size) = dh
      BY <3>1, <3>2 DEF Contents, NeedsFill
    <3>5. PICK k : Follows(listing, i, size, a.got, k)
      BY <1>2, <2>1, <3>1, <3>2, <3>3, <3>4, FilledAnswer
    <3>6. Follow(listing, i, size, a.got)
      BY <3>5 DEF Follow, Follows
    <3> QED
      BY <2>1, <2>2, <3>3, <3>6
  <2>3. CASE style = "offset"
    <3>1. OffsetInv /\ listing = dir
      BY <1>1, <1>5, <2>3 DEF DirInv
    <3>2. NeedsFill(off)
      BY <1>5, <3>1 DEF OffsetInv, NeedsFill
    <3>3. off \in 0..Len(dir)
      BY <1>1, <1>5, <2>3, OffsetContents
    <3>4. PICK k : Follows(dir, off, size, a.got, k)
      BY <1>1, <1>5, <2>1, <2>3, <3>2, OffsetContents
    <3>5. Follow(listing, off, size, a.got)
      BY <3>1, <3>4 DEF Follow, Follows
    <3> QED
      BY <2>1, <2>3, <3>1, <3>3, <3>5
  <2> QED
    BY <1>2, <2>2, <2>3
<1>6. SeekFindsRest
  BY <1>5, Zenon DEF SeekFindsRest
<1> QED
  BY <1>4, <1>6 DEF ListingRight

\* The start.
LEMMA DirStart == DirInit => DirInv
<1>1. SUFFICES ASSUME DirInit
               PROVE  DirInv
  OBVIOUS
<1>2. dir \in Seq(Entry) /\ style \in {"whole", "offset"}
  BY <1>1, DirsAre DEF DirInit, DirStarts
<1>3. /\ dh = [contents |-> <<>>, filled |-> FALSE, ended |-> FALSE]
      /\ kpos = [at |-> 0, seen |-> {0}] /\ scan \in Scans /\ ~scan.whole /\ scan.of = <<>>
  BY <1>1, NoScanIs DEF DirInit
<1>4. <<>> \in Seq(Entry) /\ 0 \in 0..Len(<<>>) /\ 0 <= Len(dir)
  BY <1>2
<1>5. End(<<>>, 0) = 0
  BY <1>4, EndIs
<1>6. dh \in DirHandles /\ kpos \in [at : Nat, seen : SUBSET Nat] /\ kpos.at \in kpos.seen
  BY <1>3, <1>4 DEF DirHandles
<1>7. WholeInv
  <2>1. \A off \in kpos.seen : \E i \in 0..Len(scan.of) : off = End(scan.of, i)
    BY <1>3, <1>4, <1>5
  <2> QED
    BY <1>3, <2>1 DEF WholeInv
<1>8. OffsetInv
  BY <1>3, <1>4 DEF OffsetInv
<1> QED
  BY <1>2, <1>3, <1>6, <1>7, <1>8 DEF DirInv

\* Every step keeps it.
LEMMA DirStep == DirInv /\ [DirNext]_dirvars => DirInv'
<1>1. SUFFICES ASSUME DirInv, [DirNext]_dirvars
               PROVE  DirInv'
  OBVIOUS
<1>2. ASSUME NEW size \in RequestSizes, NEW off \in kpos.seen, fuse_lib_readdir(off, size)
      PROVE  DirInv'
  <2>1. CASE style = "whole" /\ off = 0
    <3>1. 0 \in kpos.seen /\ fuse_lib_readdir(0, size)
      BY <1>2, <2>1
    <3> QED
      BY <1>1, <2>1, <3>1, WholeAnew
  <2>2. CASE style = "whole" /\ off # 0
    BY <1>1, <1>2, <2>2, WholeOn
  <2>3. CASE style = "offset"
    BY <1>1, <1>2, <2>3, OffsetOn
  <2> QED
    BY <1>1, <2>1, <2>2, <2>3 DEF DirInv
<1>3. ASSUME NEW off \in kpos.seen, ReaddirFails(off)
      PROVE  DirInv'
  BY <1>1, <1>3, FailsAnew
<1>4. ASSUME NEW d \in SetToAllKPermutations(Entry), ChangeDir(d)
      PROVE  DirInv'
  BY <1>1, <1>4, ChangeKeeps
<1>5. CASE UNCHANGED dirvars
  BY <1>1, <1>5 DEF dirvars, DirInv, WholeInv, OffsetInv
<1> QED
  BY <1>1, <1>2, <1>3, <1>4, <1>5 DEF DirNext

\* Reading a directory in pieces of any sizes gives what the callback gave, for any names
\* and lengths of names, whatever happens to the directory (fuse_lib_readdir).
THEOREM ListingStaysRight == DirSpec => []ListingRight
<1>1. DirInit => DirInv
  BY DirStart
<1>2. DirInv /\ [DirNext]_dirvars => DirInv'
  BY DirStep
<1>3. DirInv => ListingRight
  BY DirInvRight
<1> QED
  BY <1>1, <1>2, <1>3, PTL DEF DirSpec
=============================================================================
