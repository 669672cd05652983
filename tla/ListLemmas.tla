----------------------------- MODULE ListLemmas -----------------------------
(***************************************************************************)
(* The linked lists of the library as sequences without repetitions: what  *)
(* an insertion at either end and a deletion make of their elements.       *)
(***************************************************************************)
EXTENDS Integers, Sequences, SequencesExt, SequenceTheorems, WellFoundedInduction, TLAPS

\* What an append does to a list without repetitions.
LEMMA AppendElement ==
    ASSUME NEW S, NEW s \in Seq(S), NEW e \in S
    PROVE  /\ Append(s, e) \in Seq(S)
           /\ ToSet(Append(s, e)) = ToSet(s) \cup {e}
           /\ Len(Append(s, e)) = Len(s) + 1
           /\ IsInjective(s) /\ e \notin ToSet(s) => IsInjective(Append(s, e))
<1>1. /\ Append(s, e) \in Seq(S) /\ Len(Append(s, e)) = Len(s) + 1 /\ Len(s) \in Nat
      /\ \A i \in 1..Len(s) : Append(s, e)[i] = s[i]
      /\ Append(s, e)[Len(s) + 1] = e
  OBVIOUS
<1>2. ToSet(Append(s, e)) = ToSet(s) \cup {e}
  <2>1. DOMAIN s = 1..Len(s) /\ DOMAIN Append(s, e) = 1..(Len(s) + 1)
    BY <1>1
  <2> QED
    BY <1>1, <2>1 DEF ToSet
<1>3. ASSUME IsInjective(s), e \notin ToSet(s)
      PROVE  IsInjective(Append(s, e))
  <2>1. DOMAIN s = 1..Len(s) /\ DOMAIN Append(s, e) = 1..(Len(s) + 1)
    BY <1>1
  <2>2. \A i \in 1..Len(s) : s[i] # e
    BY <1>3, <2>1 DEF ToSet
  <2> QED
    BY <1>1, <1>3, <2>1, <2>2 DEF IsInjective
<1> QED
  BY <1>1, <1>2, <1>3

\* What list_del does to one.
LEMMA UnlinkElement ==
    ASSUME NEW S, NEW s \in Seq(S), NEW e, IsInjective(s)
    PROVE  /\ RemoveFirst(s, e) \in Seq(S)
           /\ ToSet(RemoveFirst(s, e)) = ToSet(s) \ {e}
           /\ Len(RemoveFirst(s, e)) = IF e \in ToSet(s) THEN Len(s) - 1 ELSE Len(s)
           /\ IsInjective(RemoveFirst(s, e))
<1>0. Len(s) \in Nat /\ DOMAIN s = 1..Len(s) /\ \A i \in 1..Len(s) : s[i] \in S
  OBVIOUS
<1>1. CASE ~(\E i \in 1..Len(s) : s[i] = e)
  <2>1. RemoveFirst(s, e) = s
    BY <1>1 DEF RemoveFirst
  <2>2. e \notin ToSet(s)
    BY <1>0, <1>1 DEF ToSet
  <2> QED
    BY <2>1, <2>2
<1>2. CASE \E i \in 1..Len(s) : s[i] = e
  <2>1. PICK i \in 1..Len(s) : s[i] = e
    BY <1>2
  <2>2. {j \in 1..Len(s) : s[j] = e} = {i}
    BY <2>1, <1>0 DEF IsInjective
  <2>3. Min({i}) = i
    BY <1>0 DEF Min
  <2>4. SelectInSeq(s, LAMBDA v : v = e) = i
    BY <2>2, <2>3 DEF SelectInSeq
  <2> DEFINE r == RemoveFirst(s, e)
  <2>5. r = SubSeq(s, 1, i - 1) \o SubSeq(s, i + 1, Len(s))
    BY <1>2, <2>4 DEF RemoveFirst, RemoveAt
  <2>6. /\ r \in Seq(S) /\ Len(r) = Len(s) - 1
        /\ \A j \in 1..Len(r) : r[j] = IF j < i THEN s[j] ELSE s[j + 1]
    <3> HIDE DEF r
    <3> DEFINE a == SubSeq(s, 1, i - 1)
               b == SubSeq(s, i + 1, Len(s))
    <3>1. /\ a \in Seq(S) /\ Len(a) = i - 1
          /\ \A j \in 1..(i - 1) : a[j] = s[j]
      BY <1>0, <2>1, SubSeqProperties
    <3>2. /\ b \in Seq(S) /\ Len(b) = Len(s) - i
          /\ \A j \in 1..(Len(s) - i) : b[j] = s[i + j]
      <4>1. \A j \in (i + 1)..Len(s) : s[j] \in S
        BY <1>0
      <4>2. /\ b \in Seq(S)
            /\ Len(b) = IF i + 1 <= Len(s) THEN Len(s) - (i + 1) + 1 ELSE 0
            /\ \A j \in 1..(Len(s) - (i + 1) + 1) : b[j] = s[i + 1 + j - 1]
        BY <1>0, <4>1, SubSeqProperties
      <4> HIDE DEF b
      <4>3. Len(s) - (i + 1) + 1 = Len(s) - i /\ Len(b) = Len(s) - i
        <5>1. Len(s) \in Nat /\ i \in Nat /\ i <= Len(s)
          BY <1>0
        <5>2. Len(s) - (i + 1) + 1 = Len(s) - i
          BY <5>1
        <5>3. CASE i + 1 <= Len(s)
          BY <5>2, <5>3, <4>2
        <5>4. CASE ~(i + 1 <= Len(s))
          <6>1. Len(b) = 0
            BY <5>4, <4>2
          <6>2. i = Len(s)
            BY <5>1, <5>4
          <6>3. Len(s) - i = 0
            BY <5>1, <6>2
          <6> QED
            BY <5>2, <6>1, <6>3
        <5> QED
          BY <5>2, <5>3, <5>4
      <4>4. ASSUME NEW j \in 1..(Len(s) - i)
            PROVE  b[j] = s[i + j]
        <5>1. i + 1 + j - 1 = i + j
          BY <1>0, <2>1
        <5>2. b[j] = s[i + 1 + j - 1]
          BY <4>2, <4>3
        <5> QED
          BY <5>1, <5>2, Zenon
      <4> QED
        BY <4>2, <4>3, <4>4
    <3>3. r = a \o b
      BY <2>5
    <3> HIDE DEF a, b
    <3>4. /\ a \o b \in Seq(S) /\ Len(a \o b) = Len(a) + Len(b)
          /\ \A j \in 1..(Len(a) + Len(b)) : (a \o b)[j] = IF j <= Len(a) THEN a[j] ELSE b[j - Len(a)]
      BY <3>1, <3>2, ConcatProperties
    <3>5. r \in Seq(S) /\ Len(r) = Len(s) - 1
      BY <1>0, <3>1, <3>2, <3>3, <3>4
    <3>6. ASSUME NEW j \in 1..Len(r)
          PROVE  r[j] = IF j < i THEN s[j] ELSE s[j + 1]
      <4>1. j \in 1..(Len(a) + Len(b)) /\ r[j] = IF j <= Len(a) THEN a[j] ELSE b[j - Len(a)]
        BY <3>3, <3>4, <3>6
      <4>2. CASE j < i
        BY <4>1, <4>2, <3>1, <1>0
      <4>3. CASE ~(j < i)
        <5>1. j - Len(a) \in 1..(Len(s) - i) /\ ~(j <= Len(a)) /\ i + (j - Len(a)) = j + 1
          BY <1>0, <3>1, <3>5, <3>6, <4>3
        <5> QED
          BY <4>1, <4>3, <5>1, <3>2
      <4> QED
        BY <4>2, <4>3
    <3> QED
      BY <3>5, <3>6
  <2> HIDE DEF r
  <2>7. DOMAIN r = 1..Len(r)
    BY <2>6
  <2>8. IsInjective(r)
    <3> SUFFICES ASSUME NEW a \in 1..Len(r), NEW b \in 1..Len(r), r[a] = r[b]
                 PROVE  a = b
      BY <2>7 DEF IsInjective
    <3> DEFINE k(j) == IF j < i THEN j ELSE j + 1
    <3>1. Len(r) = Len(s) - 1 /\ i \in Nat
      BY <1>0, <2>1, <2>6
    <3>2. k(a) \in 1..Len(s) /\ k(b) \in 1..Len(s)
      BY <1>0, <2>1, <3>1
    <3>3. s[k(a)] = s[k(b)]
      BY <2>6
    <3>4. k(a) = k(b)
      <4> HIDE DEF k
      <4> QED
        BY <1>0, <3>2, <3>3 DEF IsInjective
    <3> QED
      BY <3>1, <3>4
  <2>9. ToSet(r) = ToSet(s) \ {e}
    <3>1. ASSUME NEW x \in ToSet(r)
          PROVE  x \in ToSet(s) \ {e}
      <4>1. PICK j \in 1..Len(r) : r[j] = x
        BY <2>7, <3>1 DEF ToSet
      <4>2. PICK k \in 1..Len(s) : s[k] = x /\ k # i
        BY <1>0, <2>1, <2>6, <4>1
      <4> QED
        BY <1>0, <2>1, <4>2 DEF ToSet, IsInjective
    <3>2. ASSUME NEW x \in ToSet(s) \ {e}
          PROVE  x \in ToSet(r)
      <4>1. PICK j \in 1..Len(s) : s[j] = x /\ j # i
        BY <1>0, <2>1 DEF ToSet
      <4>2. CASE j < i
        <5>1. j \in 1..Len(r) /\ r[j] = x
          BY <4>1, <4>2, <2>6, <1>0, <2>1
        <5> QED
          BY <5>1, <2>7 DEF ToSet
      <4>3. CASE j > i
        <5>1. j - 1 \in 1..Len(r) /\ r[j - 1] = x
          BY <4>1, <4>3, <2>6, <1>0, <2>1
        <5> QED
          BY <5>1, <2>7 DEF ToSet
      <4> QED
        BY <4>1, <4>2, <4>3, <2>1
    <3> QED
      BY <3>1, <3>2
  <2>10. e \in ToSet(s)
    BY <1>0, <2>1 DEF ToSet
  <2> QED
    BY <2>6, <2>8, <2>9, <2>10 DEF r
<1> QED
  BY <1>1, <1>2

\* What list_add_head does to one.
LEMMA ConsElement ==
    ASSUME NEW S, NEW s \in Seq(S), NEW e \in S
    PROVE  /\ <<e>> \o s \in Seq(S) /\ <<e>> \o s # <<>>
           /\ ToSet(<<e>> \o s) = ToSet(s) \cup {e}
           /\ Len(<<e>> \o s) = Len(s) + 1
           /\ IsInjective(s) /\ e \notin ToSet(s) => IsInjective(<<e>> \o s)
<1> DEFINE r == <<e>> \o s
<1>1. /\ r \in Seq(S) /\ Len(r) = Len(s) + 1 /\ Len(s) \in Nat
      /\ DOMAIN s = 1..Len(s) /\ DOMAIN r = 1..(Len(s) + 1)
      /\ r[1] = e /\ \A i \in 1..Len(s) : r[i + 1] = s[i]
  OBVIOUS
<1> HIDE DEF r
<1>2. \A j \in 1..(Len(s) + 1) : j = 1 \/ (j - 1 \in 1..Len(s) /\ r[j] = s[j - 1])
  <2> TAKE j \in 1..(Len(s) + 1)
  <2>1. CASE j # 1
    <3>1. j - 1 \in 1..Len(s) /\ (j - 1) + 1 = j
      BY <1>1, <2>1
    <3> QED
      BY <1>1, <3>1
  <2> QED
    BY <2>1
<1>3. ToSet(r) = ToSet(s) \cup {e}
  <2>1. \A x \in ToSet(r) : x \in ToSet(s) \cup {e}
    BY <1>1, <1>2, SMTT(30) DEF ToSet
  <2>2. e \in ToSet(r)
    BY <1>1 DEF ToSet
  <2>3. ASSUME NEW i \in 1..Len(s)
        PROVE  s[i] \in ToSet(r)
    <3>1. i + 1 \in 1..(Len(s) + 1) /\ r[i + 1] = s[i]
      BY <1>1
    <3> QED
      BY <1>1, <3>1 DEF ToSet
  <2>4. \A x \in ToSet(s) : x \in ToSet(r)
    BY <1>1, <2>3 DEF ToSet
  <2> QED
    BY <2>1, <2>2, <2>4
<1>4. ASSUME IsInjective(s), e \notin ToSet(s)
      PROVE  IsInjective(r)
  <2>1. \A i \in 1..Len(s) : s[i] # e
    BY <1>1, <1>4 DEF ToSet
  <2> SUFFICES ASSUME NEW a \in 1..(Len(s) + 1), NEW b \in 1..(Len(s) + 1), r[a] = r[b]
               PROVE  a = b
    BY <1>1 DEF IsInjective
  <2>2. CASE a = 1 \/ b = 1
    BY <1>1, <1>2, <2>1, <2>2
  <2>3. CASE a # 1 /\ b # 1
    <3>1. a - 1 \in 1..Len(s) /\ b - 1 \in 1..Len(s) /\ s[a - 1] = s[b - 1]
      BY <1>2, <2>3
    <3>2. a - 1 = b - 1
      BY <1>1, <1>4, <3>1 DEF IsInjective
    <3> QED
      BY <3>2
  <2> QED
    BY <2>2, <2>3
<1>5. r # <<>>
  BY <1>1
<1> QED
  BY <1>1, <1>3, <1>4, <1>5 DEF r

\* What deleting the first element does to one.
LEMMA TailElement ==
    ASSUME NEW S, NEW s \in Seq(S), s # <<>>, IsInjective(s)
    PROVE  /\ Head(s) \in S /\ Head(s) \in ToSet(s)
           /\ Tail(s) \in Seq(S) /\ Len(Tail(s)) = Len(s) - 1
           /\ ToSet(Tail(s)) = ToSet(s) \ {Head(s)}
           /\ IsInjective(Tail(s))
<1> DEFINE r == Tail(s)
<1>1. /\ r \in Seq(S) /\ Len(r) = Len(s) - 1 /\ Len(s) \in Nat /\ Len(s) > 0
      /\ DOMAIN s = 1..Len(s) /\ DOMAIN r = 1..(Len(s) - 1)
      /\ Head(s) = s[1] /\ Head(s) \in S
      /\ \A i \in 1..(Len(s) - 1) : r[i] = s[i + 1]
  OBVIOUS
<1> HIDE DEF r
<1>2. \A i, j \in 1..Len(s) : s[i] = s[j] => i = j
  BY <1>1 DEF IsInjective
<1>3. Head(s) \in ToSet(s)
  BY <1>1 DEF ToSet
<1>4. IsInjective(r)
  <2> SUFFICES ASSUME NEW a \in 1..(Len(s) - 1), NEW b \in 1..(Len(s) - 1), r[a] = r[b]
               PROVE  a = b
    BY <1>1 DEF IsInjective
  <2>1. a + 1 \in 1..Len(s) /\ b + 1 \in 1..Len(s) /\ s[a + 1] = s[b + 1]
    BY <1>1
  <2>2. a + 1 = b + 1
    BY <1>2, <2>1
  <2> QED
    BY <2>2
<1>5. ToSet(r) = ToSet(s) \ {Head(s)}
  <2>1. ASSUME NEW i \in 1..(Len(s) - 1)
        PROVE  r[i] \in ToSet(s) \ {Head(s)}
    <3>1. i + 1 \in 1..Len(s) /\ 1 \in 1..Len(s) /\ i + 1 # 1 /\ r[i] = s[i + 1]
      BY <1>1
    <3>2. s[i + 1] # s[1]
      BY <1>2, <3>1
    <3> QED
      BY <1>1, <3>1, <3>2 DEF ToSet
  <2>2. ASSUME NEW i \in 1..Len(s), s[i] # Head(s)
        PROVE  s[i] \in ToSet(r)
    <3>1. i - 1 \in 1..(Len(s) - 1) /\ (i - 1) + 1 = i
      BY <1>1, <2>2
    <3>2. r[i - 1] = s[i]
      BY <1>1, <3>1
    <3> QED
      BY <1>1, <3>1, <3>2 DEF ToSet
  <2>3. ToSet(r) \subseteq ToSet(s) \ {Head(s)}
    BY <1>1, <2>1 DEF ToSet
  <2>4. ToSet(s) \ {Head(s)} \subseteq ToSet(r)
    <3>1. \A x \in ToSet(s) : \E i \in 1..Len(s) : x = s[i]
      BY <1>1 DEF ToSet
    <3> QED
      BY <2>2, <3>1
  <2> QED
    BY <2>3, <2>4
<1> QED
  BY <1>1, <1>3, <1>4, <1>5 DEF r

\* Two lists without an element in common.
LEMMA DisjointLists ==
    ASSUME NEW S, NEW s \in Seq(S), NEW t \in Seq(S), IsInjective(s), IsInjective(t),
           ToSet(s) \cap ToSet(t) = {}
    PROVE  IsInjective(s \o t)
<1> DEFINE r == s \o t
<1>1. /\ r \in Seq(S) /\ Len(r) = Len(s) + Len(t) /\ Len(s) \in Nat /\ Len(t) \in Nat
      /\ DOMAIN s = 1..Len(s) /\ DOMAIN t = 1..Len(t) /\ DOMAIN r = 1..(Len(s) + Len(t))
      /\ \A i \in 1..Len(r) : r[i] = IF i <= Len(s) THEN s[i] ELSE t[i - Len(s)]
  BY ConcatProperties, LenProperties
<1> HIDE DEF r
<1>2. \A i \in 1..Len(s), j \in 1..Len(t) : s[i] # t[j]
  BY <1>1 DEF ToSet
<1>3. \A i \in 1..Len(r) : IF i <= Len(s) THEN i \in 1..Len(s) /\ r[i] = s[i]
                            ELSE i - Len(s) \in 1..Len(t) /\ r[i] = t[i - Len(s)]
  BY <1>1
<1> SUFFICES ASSUME NEW a \in 1..Len(r), NEW b \in 1..Len(r), r[a] = r[b]
             PROVE  a = b
  BY <1>1 DEF IsInjective, r
<1>4. CASE a <= Len(s) /\ b <= Len(s)
  BY <1>1, <1>3, <1>4 DEF IsInjective
<1>5. CASE ~(a <= Len(s)) /\ ~(b <= Len(s))
  <2> DEFINE x == a - Len(s)
             y == b - Len(s)
  <2>0. x \in 1..Len(t) /\ y \in 1..Len(t) /\ t[x] = t[y]
    BY <1>3, <1>5
  <2> HIDE DEF x, y
  <2>1. x = y
    BY <1>1, <2>0 DEF IsInjective
  <2> QED
    BY <1>1, <2>1 DEF x, y
<1>6. CASE (a <= Len(s)) # (b <= Len(s))
  BY <1>2, <1>3, <1>6
<1> QED
  BY <1>4, <1>5, <1>6

\* An element of a list is in its set.
LEMMA ContainsIsToSet ==
    ASSUME NEW S, NEW s \in Seq(S), NEW e
    PROVE  Contains(s, e) <=> e \in ToSet(s)
<1>1. DOMAIN s = 1..Len(s)
  OBVIOUS
<1> QED
  BY <1>1 DEF Contains, ToSet

\* The elements of two lists one after the other.
LEMMA ConcatElements ==
    ASSUME NEW S, NEW s \in Seq(S), NEW r \in Seq(S)
    PROVE  s \o r \in Seq(S) /\ ToSet(s \o r) = ToSet(s) \cup ToSet(r)
<1> DEFINE q == s \o r
<1>1. /\ q \in Seq(S) /\ Len(q) = Len(s) + Len(r) /\ Len(s) \in Nat /\ Len(r) \in Nat
      /\ DOMAIN s = 1..Len(s) /\ DOMAIN r = 1..Len(r) /\ DOMAIN q = 1..(Len(s) + Len(r))
      /\ \A i \in 1..Len(q) : q[i] = IF i <= Len(s) THEN s[i] ELSE r[i - Len(s)]
  BY ConcatProperties, LenProperties
<1> HIDE DEF q
<1>2. ASSUME NEW x \in ToSet(q)
      PROVE  x \in ToSet(s) \cup ToSet(r)
  <2>1. PICK i \in 1..Len(q) : q[i] = x
    BY <1>1, <1>2 DEF ToSet
  <2>2. CASE i <= Len(s)
    <3>1. i \in 1..Len(s) /\ x = s[i]
      BY <1>1, <2>1, <2>2
    <3> QED
      BY <1>1, <3>1 DEF ToSet
  <2>3. CASE ~(i <= Len(s))
    <3>1. i - Len(s) \in 1..Len(r) /\ x = r[i - Len(s)]
      BY <1>1, <2>1, <2>3
    <3> QED
      BY <1>1, <3>1 DEF ToSet
  <2> QED
    BY <2>2, <2>3
<1>3. ToSet(s) \subseteq ToSet(q)
  <2>1. \A i \in 1..Len(s) : i \in 1..Len(q) /\ q[i] = s[i]
    BY <1>1
  <2> QED
    BY <1>1, <2>1 DEF ToSet
<1>4. ToSet(r) \subseteq ToSet(q)
  <2>1. \A i \in 1..Len(r) : i + Len(s) \in 1..Len(q) /\ q[i + Len(s)] = r[i]
    <3>1. SUFFICES ASSUME NEW i \in 1..Len(r)
                   PROVE  i + Len(s) \in 1..Len(q) /\ q[i + Len(s)] = r[i]
      OBVIOUS
    <3>2. i + Len(s) \in 1..Len(q) /\ ~(i + Len(s) <= Len(s)) /\ (i + Len(s)) - Len(s) = i
      BY <1>1
    <3> QED
      BY <1>1, <3>2
  <2> QED
    BY <1>1, <2>1 DEF ToSet
<1> QED
  BY <1>1, <1>2, <1>3, <1>4 DEF q

\* A part of a list.
LEMMA PartIs ==
    ASSUME NEW S, NEW s \in Seq(S), NEW m \in 1..(Len(s) + 1), NEW n \in 0..Len(s), m <= n + 1
    PROVE  /\ SubSeq(s, m, n) \in Seq(S) /\ Len(SubSeq(s, m, n)) = n - m + 1
           /\ \A j \in 1..(n - m + 1) : SubSeq(s, m, n)[j] = s[m + j - 1]
<1>1. m \in Int /\ n \in Int /\ \A i \in m..n : s[i] \in S
  OBVIOUS
<1>2. /\ SubSeq(s, m, n) \in Seq(S) /\ Len(SubSeq(s, m, n)) = IF m <= n THEN n - m + 1 ELSE 0
      /\ \A i \in 1..(n - m + 1) : SubSeq(s, m, n)[i] = s[m + i - 1]
  BY <1>1, SubSeqProperties
<1> QED
  BY <1>2

\* Two lists one after the other.
LEMMA ConcatIs ==
    ASSUME NEW S, NEW p \in Seq(S), NEW q \in Seq(S)
    PROVE  /\ p \o q \in Seq(S) /\ Len(p \o q) = Len(p) + Len(q)
           /\ \A j \in 1..(Len(p) + Len(q)) : (p \o q)[j] = IF j <= Len(p) THEN p[j] ELSE q[j - Len(p)]
  BY ConcatProperties

\* RemoveAt of the library, by its elements.
LEMMA RemoveAtIs ==
    ASSUME NEW S, NEW s \in Seq(S), NEW i \in 1..Len(s)
    PROVE  /\ RemoveAt(s, i) \in Seq(S) /\ Len(RemoveAt(s, i)) = Len(s) - 1
           /\ \A j \in 1..(Len(s) - 1) : RemoveAt(s, i)[j] = IF j < i THEN s[j] ELSE s[j + 1]
<1>0. PICK L \in Nat : L = Len(s) /\ i \in 1..L
  OBVIOUS
<1>1. PICK p \in Seq(S) : p = SubSeq(s, 1, i - 1) /\ Len(p) = i - 1 /\ \A j \in 1..(i - 1) : p[j] = s[j]
  <2>1. i - 1 \in 0..Len(s) /\ 1 \in 1..(Len(s) + 1) /\ 1 <= (i - 1) + 1
    BY <1>0
  <2>2. /\ SubSeq(s, 1, i - 1) \in Seq(S) /\ Len(SubSeq(s, 1, i - 1)) = (i - 1) - 1 + 1
        /\ \A j \in 1..((i - 1) - 1 + 1) : SubSeq(s, 1, i - 1)[j] = s[1 + j - 1]
    BY <2>1, PartIs
  <2>3. (i - 1) - 1 + 1 = i - 1 /\ \A j \in 1..(i - 1) : 1 + j - 1 = j
    OBVIOUS
  <2> QED
    BY <2>2, <2>3
<1>2. PICK q \in Seq(S) : q = SubSeq(s, i + 1, L) /\ Len(q) = L - i /\ \A j \in 1..(L - i) : q[j] = s[i + j]
  <2>1. i + 1 \in 1..(Len(s) + 1) /\ L \in 0..Len(s) /\ i + 1 <= L + 1
    BY <1>0
  <2>2. /\ SubSeq(s, i + 1, L) \in Seq(S) /\ Len(SubSeq(s, i + 1, L)) = L - (i + 1) + 1
        /\ \A j \in 1..(L - (i + 1) + 1) : SubSeq(s, i + 1, L)[j] = s[(i + 1) + j - 1]
    BY <2>1, PartIs
  <2>3. ASSUME NEW j \in 1..(L - i)
        PROVE  SubSeq(s, i + 1, L)[j] = s[i + j]
    <3>1. j \in 1..(L - (i + 1) + 1) /\ (i + 1) + j - 1 = i + j
      BY <1>0
    <3>2. SubSeq(s, i + 1, L)[j] = s[(i + 1) + j - 1]
      BY <2>2, <3>1
    <3> QED
      BY <3>1, <3>2
  <2>4. L - (i + 1) + 1 = L - i
    BY <1>0
  <2> QED
    BY <2>2, <2>3, <2>4
<1>3. PICK r : r = p \o q /\ r \in Seq(S) /\ Len(r) = L - 1
               /\ \A j \in 1..(L - 1) : r[j] = IF j <= i - 1 THEN p[j] ELSE q[j - (i - 1)]
  <2>1. /\ p \o q \in Seq(S) /\ Len(p \o q) = Len(p) + Len(q)
        /\ \A j \in 1..(Len(p) + Len(q)) : (p \o q)[j] = IF j <= Len(p) THEN p[j] ELSE q[j - Len(p)]
    BY ConcatIs
  <2>2. Len(p) = i - 1 /\ Len(q) = L - i
    BY <1>1, <1>2
  <2>3. (i - 1) + (L - i) = L - 1
    BY <1>0
  <2>4. /\ p \o q \in Seq(S) /\ Len(p \o q) = L - 1
        /\ \A j \in 1..(L - 1) : (p \o q)[j] = IF j <= i - 1 THEN p[j] ELSE q[j - (i - 1)]
    BY <2>1, <2>2, <2>3
  <2> QED
    BY <2>4
<1>4. r = RemoveAt(s, i)
  BY <1>0, <1>1, <1>2, <1>3 DEF RemoveAt
<1>5. ASSUME NEW j \in 1..(L - 1)
      PROVE  r[j] = IF j < i THEN s[j] ELSE s[j + 1]
  <2>1. CASE j < i
    <3>1. j <= i - 1 /\ j \in 1..(i - 1)
      BY <2>1
    <3> QED
      BY <1>1, <1>3, <2>1, <3>1
  <2>2. CASE ~(j < i)
    <3>1. j - (i - 1) \in 1..(L - i) /\ i + (j - (i - 1)) = j + 1 /\ ~(j <= i - 1)
      BY <1>0, <2>2
    <3> QED
      BY <1>2, <1>3, <2>2, <3>1
  <2> QED
    BY <2>1, <2>2
<1> QED
  BY <1>0, <1>3, <1>4, <1>5

\* The same of an element put in.
LEMMA InsertAtIs ==
    ASSUME NEW S, NEW s \in Seq(S), NEW i \in 1..(Len(s) + 1), NEW e \in S
    PROVE  /\ InsertAt(s, i, e) \in Seq(S) /\ Len(InsertAt(s, i, e)) = Len(s) + 1
           /\ \A j \in 1..(Len(s) + 1) :
                 InsertAt(s, i, e)[j] = IF j < i THEN s[j] ELSE IF j = i THEN e ELSE s[j - 1]
<1>0. PICK L \in Nat : L = Len(s) /\ i \in 1..(L + 1)
  OBVIOUS
<1>1. PICK p \in Seq(S) : p = SubSeq(s, 1, i - 1) /\ Len(p) = i - 1 /\ \A j \in 1..(i - 1) : p[j] = s[j]
  <2>1. i - 1 \in 0..Len(s) /\ 1 \in 1..(Len(s) + 1) /\ 1 <= (i - 1) + 1
    BY <1>0
  <2>2. /\ SubSeq(s, 1, i - 1) \in Seq(S) /\ Len(SubSeq(s, 1, i - 1)) = (i - 1) - 1 + 1
        /\ \A j \in 1..((i - 1) - 1 + 1) : SubSeq(s, 1, i - 1)[j] = s[1 + j - 1]
    BY <2>1, PartIs
  <2>3. (i - 1) - 1 + 1 = i - 1 /\ \A j \in 1..(i - 1) : 1 + j - 1 = j
    OBVIOUS
  <2> QED
    BY <2>2, <2>3
<1>2. PICK q \in Seq(S) : q = SubSeq(s, i, L) /\ Len(q) = L - i + 1 /\ \A j \in 1..(L - i + 1) : q[j] = s[i + j - 1]
  <2>1. i \in 1..(Len(s) + 1) /\ L \in 0..Len(s) /\ i <= L + 1
    BY <1>0
  <2>2. /\ SubSeq(s, i, L) \in Seq(S) /\ Len(SubSeq(s, i, L)) = L - i + 1
        /\ \A j \in 1..(L - i + 1) : SubSeq(s, i, L)[j] = s[i + j - 1]
    BY <2>1, PartIs
  <2> QED
    BY <2>2
<1>4. PICK r \in Seq(S) : r = p \o <<e>> /\ Len(r) = i /\ r[i] = e /\ \A j \in 1..(i - 1) : r[j] = s[j]
  <2>1. Append(p, e) = p \o <<e>>
    OBVIOUS
  <2>2. Append(p, e) \in Seq(S) /\ Len(Append(p, e)) = i /\ Append(p, e)[i] = e
        /\ \A j \in 1..(i - 1) : Append(p, e)[j] = p[j]
    BY <1>1
  <2> QED
    BY <1>1, <2>1, <2>2
<1>3. PICK u : u = r \o q /\ u \in Seq(S) /\ Len(u) = L + 1
               /\ \A j \in 1..(L + 1) : u[j] = IF j <= i THEN r[j] ELSE q[j - i]
  <2>1. /\ r \o q \in Seq(S) /\ Len(r \o q) = Len(r) + Len(q)
        /\ \A j \in 1..(Len(r) + Len(q)) : (r \o q)[j] = IF j <= Len(r) THEN r[j] ELSE q[j - Len(r)]
    BY ConcatIs
  <2>2. Len(r) + Len(q) = L + 1
    BY <1>0, <1>2, <1>4
  <2> QED
    BY <1>4, <2>1, <2>2
<1>5. u = InsertAt(s, i, e)
  BY <1>0, <1>1, <1>2, <1>3, <1>4 DEF InsertAt
<1>6. ASSUME NEW j \in 1..(L + 1)
      PROVE  u[j] = IF j < i THEN s[j] ELSE IF j = i THEN e ELSE s[j - 1]
  <2>1. CASE j < i
    <3>1. j <= i /\ j \in 1..(i - 1)
      BY <2>1
    <3> QED
      BY <1>3, <1>4, <2>1, <3>1
  <2>2. CASE j = i
    BY <1>3, <1>4, <2>2
  <2>3. CASE j > i
    <3>1. j - i \in 1..(L - i + 1) /\ i + (j - i) - 1 = j - 1 /\ ~(j <= i) /\ ~(j < i) /\ j # i
      BY <1>0, <2>3
    <3> QED
      BY <1>2, <1>3, <3>1
  <2> QED
    BY <1>0, <2>1, <2>2, <2>3
<1> QED
  BY <1>0, <1>3, <1>5, <1>6

\* r is s with e in the place of its element i.
ChangedAt(r, S, s, i, e) ==
    /\ r \in Seq(S) /\ Len(r) = Len(s)
    /\ \A j \in 1..Len(s) : r[j] = IF j = i THEN e ELSE s[j]

\* ReplaceAt of the library, by its elements.
LEMMA ReplaceAtIs ==
    ASSUME NEW S, NEW s \in Seq(S), NEW i \in 1..Len(s), NEW e \in S
    PROVE  ChangedAt(ReplaceAt(s, i, e), S, s, i, e)
  BY DEF ReplaceAt, ChangedAt

\* The first m elements of a list.
LEMMA PrefixIs ==
    ASSUME NEW X, NEW all \in Seq(X), NEW m \in 0..Len(all)
    PROVE  /\ SubSeq(all, 1, m) \in Seq(X) /\ Len(SubSeq(all, 1, m)) = m
           /\ \A j \in 1..m : SubSeq(all, 1, m)[j] = all[j]
<1>1. PICK N \in Nat : N = Len(all) /\ m \in 0..N
  OBVIOUS
<1>2. 1 \in 1..(N + 1) /\ m \in Int /\ 1 <= m + 1
  BY <1>1
<1>3. /\ SubSeq(all, 1, m) \in Seq(X) /\ Len(SubSeq(all, 1, m)) = m - 1 + 1
      /\ \A j \in 1..(m - 1 + 1) : SubSeq(all, 1, m)[j] = all[1 + j - 1]
  BY <1>1, <1>2, PartIs
<1>4. m - 1 + 1 = m /\ \A j \in 1..m : 1 + j - 1 = j
  BY <1>2
<1> QED
  BY <1>3, <1>4

\* The elements of part are those of all behind the first m.
Continues(part, all, m) == \A k \in 1..Len(part) : part[k] = all[m + k]

\* With part behind them, the first m elements become the first w.
Prolongs(part, all, m, w) == SubSeq(all, 1, m) \o part = SubSeq(all, 1, w)

\* The elements that come next make it longer.
LEMMA PrefixGrows ==
    ASSUME NEW X, NEW all \in Seq(X), NEW m \in Nat, NEW part \in Seq(X), NEW w \in 0..Len(all),
           w = m + Len(part), Continues(part, all, m)
    PROVE  Prolongs(part, all, m, w)
<1>1. PICK n \in Nat : n = Len(part) /\ w = m + n /\ w \in Nat
  OBVIOUS
<1>2. m \in 0..Len(all) /\ w \in 0..Len(all)
  <2>1. PICK N \in Nat : N = Len(all)
    OBVIOUS
  <2> QED
    BY <1>1, <2>1
<1>3. /\ SubSeq(all, 1, m) \in Seq(X) /\ Len(SubSeq(all, 1, m)) = m
      /\ \A j \in 1..m : SubSeq(all, 1, m)[j] = all[j]
  BY <1>2, PrefixIs
<1>4. /\ SubSeq(all, 1, w) \in Seq(X) /\ Len(SubSeq(all, 1, w)) = w
      /\ \A j \in 1..w : SubSeq(all, 1, w)[j] = all[j]
  BY <1>2, PrefixIs
<1>5. PICK a \in Seq(X), b \in Seq(X) : a = SubSeq(all, 1, m) /\ b = SubSeq(all, 1, w)
  BY <1>3, <1>4
<1>6. Len(a) = m /\ Len(b) = w /\ \A j \in 1..m : a[j] = all[j]
  BY <1>3, <1>4, <1>5
<1>7. \A j \in 1..w : b[j] = all[j]
  BY <1>4, <1>5
<1>8. /\ a \o part \in Seq(X) /\ Len(a \o part) = Len(a) + Len(part)
      /\ \A j \in 1..(Len(a) + Len(part)) : (a \o part)[j] = IF j <= Len(a) THEN a[j] ELSE part[j - Len(a)]
  BY ConcatIs
<1>9. PICK c \in Seq(X) : c = a \o part
  BY <1>8
<1>10. Len(c) = w /\ \A j \in 1..w : c[j] = IF j <= m THEN a[j] ELSE part[j - m]
  <2>1. Len(a) + Len(part) = w
    BY <1>1, <1>6
  <2> QED
    BY <1>6, <1>8, <1>9, <2>1
<1>11. ASSUME NEW j \in 1..w
       PROVE  c[j] = b[j]
  <2>1. CASE j <= m
    <3>1. j \in 1..m
      BY <1>1, <2>1
    <3> QED
      BY <1>6, <1>7, <1>10, <2>1, <3>1
  <2>2. CASE ~(j <= m)
    <3>1. j - m \in 1..n /\ m + (j - m) = j
      BY <1>1, <2>2
    <3>2. part[j - m] = all[m + (j - m)]
      BY <1>1, <3>1 DEF Continues
    <3> QED
      BY <1>7, <1>10, <2>2, <3>1, <3>2
  <2> QED
    BY <2>1, <2>2
<1>12. c = b
  BY <1>6, <1>10, <1>11, SeqEqual
<1> QED
  BY <1>1, <1>5, <1>9, <1>12 DEF Prolongs

-----------------------------------------------------------------------------
(* The functions defined by recursion over the natural numbers.              *)

\* A set of natural numbers has a least one.
LEMMA LeastNatural ==
    ASSUME NEW T \in SUBSET Nat, T # {}
    PROVE  \E x \in T : \A y \in T : x <= y
<1>1. PICK x \in T : \A y \in T : ~(<<y, x>> \in OpToRel(<, Nat))
  BY NatLessThanWellFounded, WFMin, Zenon
<1>2. \A y \in T : ~(y < x)
  BY <1>1, Zenon DEF OpToRel
<1> QED
  BY <1>2

\* Induction over the natural numbers, as a fact about a set of them.
LEMMA AllNaturals ==
    ASSUME NEW P \in SUBSET Nat, 0 \in P, \A n \in P : n + 1 \in P
    PROVE  P = Nat
<1>1. SUFFICES ASSUME Nat \ P # {}
               PROVE  FALSE
  OBVIOUS
<1>2. PICK x \in Nat \ P : \A y \in Nat \ P : ~(<<y, x>> \in OpToRel(<, Nat))
  BY <1>1, NatLessThanWellFounded, WFMin, Zenon
<1>3. \A y \in Nat \ P : ~(y < x)
  BY <1>2, Zenon DEF OpToRel
<1>4. x # 0 /\ x \in Nat
  OBVIOUS
<1>5. x - 1 \in Nat /\ x - 1 < x /\ (x - 1) + 1 = x
  BY <1>4
<1>6. x - 1 \in P
  BY <1>3, <1>5
<1> QED
  BY <1>5, <1>6

\* f is a function defined by its value at 0 and the step from each value to the next.
Runs(f, V, first, step, L) ==
    /\ f \in [0..L -> V]
    /\ f[0] = first
    /\ \A i \in 1..L : f[i] = step[<<i, f[i - 1]>>]

\* There is one, as long as the steps stay in one set.
LEMMA RunsExist ==
    ASSUME NEW V, NEW first \in V, NEW step \in [Nat \X V -> V], NEW L \in Nat
    PROVE  \E f : Runs(f, V, first, step, L)
<1> DEFINE Good(n, f) == Runs(f, V, first, step, n)
           P == {n \in Nat : \E f : Good(n, f)}
<1>1. 0 \in P
  <2>1. Good(0, [i \in 0..0 |-> first])
    BY DEF Runs
  <2> QED
    BY <2>1
<1>2. ASSUME NEW n \in P
      PROVE  n + 1 \in P
  <2>1. PICK f : Good(n, f)
    BY <1>2
  <2>a. f \in [0..n -> V] /\ f[0] = first /\ \A i \in 1..n : f[i] = step[<<i, f[i - 1]>>]
    BY <2>1 DEF Runs
  <2>2. n \in Nat /\ n + 1 \in Nat
    OBVIOUS
  <2> DEFINE v == step[<<n + 1, f[n]>>]
             g == [i \in 0..(n + 1) |-> IF i = n + 1 THEN v ELSE f[i]]
  <2>3. v \in V
    BY <2>a, <2>2
  <2>4. \A i \in 0..n : g[i] = f[i] /\ f[i] \in V
    BY <2>a, <2>2
  <2>5. g[n + 1] = v
    BY <2>2
  <2>6. ASSUME NEW i \in 1..(n + 1)
        PROVE  g[i] = step[<<i, g[i - 1]>>]
    <3>1. i - 1 \in 0..n /\ g[i - 1] = f[i - 1]
      BY <2>2, <2>4
    <3>2. CASE i = n + 1
      <4>1. i - 1 = n
        BY <3>2, <2>2
      <4>2. <<i, g[i - 1]>> = <<n + 1, f[n]>>
        BY <4>1, <3>1, <3>2
      <4> QED
        BY <4>2, <3>2, <2>5
    <3>3. CASE i # n + 1
      <4>1. i \in 1..n /\ i \in 0..n
        BY <3>3, <2>2
      <4> QED
        BY <4>1, <3>1, <2>4, <2>a
    <3> QED
      BY <3>2, <3>3
  <2>7. g \in [0..(n + 1) -> V]
    <3>1. \A i \in 0..(n + 1) : i = n + 1 \/ i \in 0..n
      BY <2>2
    <3>2. \A i \in 0..(n + 1) : g[i] \in V
      BY <3>1, <2>3, <2>4, <2>5
    <3> QED
      BY <3>2
  <2>8. g[0] = first
    BY <2>a, <2>2, <2>4
  <2>9. Good(n + 1, g)
    BY <2>6, <2>7, <2>8 DEF Runs
  <2> QED
    BY <2>9, <2>2
<1>3. P = Nat
  <2> HIDE DEF P
  <2>1. P \in SUBSET Nat
    BY DEF P
  <2> QED
    BY <1>1, <1>2, <2>1, AllNaturals
<1> QED
  BY <1>3
=============================================================================
