--------------------------- MODULE FuseCopyProofs ---------------------------
(***************************************************************************)
(* Proofs about FuseBuf: what fuse_buf_copy reports is what has arrived,   *)
(* for all vectors and whatever the calls do.                              *)
(***************************************************************************)
EXTENDS FuseBuf, ListLemmas, FiniteSetTheorems

-----------------------------------------------------------------------------
(***************************************************************************)
(* Joining lists.                                                          *)
(***************************************************************************)

\* g[i] is the first i lists of v joined.
Joins(g, v, X) ==
    /\ g \in [0..Len(v) -> Seq(X)]
    /\ g[0] = <<>>
    /\ \A i \in 1..Len(v) : g[i] = g[i - 1] \o v[i]

\* There are such partial joins.
LEMMA JoinsExist ==
    ASSUME NEW X, NEW v \in Seq(Seq(X))
    PROVE  \E g : Joins(g, v, X)
<1>1. PICK L \in Nat : L = Len(v)
  OBVIOUS
<1> DEFINE step == [p \in Nat \X Seq(X) |-> IF p[1] \in 1..L THEN p[2] \o v[p[1]] ELSE p[2]]
<1>2. step \in [Nat \X Seq(X) -> Seq(X)]
  <2>1. \A p \in Nat \X Seq(X) : p[1] \in 1..L => p[2] \o v[p[1]] \in Seq(X)
    BY <1>1
  <2> QED
    BY <2>1
<1>3. <<>> \in Seq(X)
  OBVIOUS
<1>4. PICK g : Runs(g, Seq(X), <<>>, step, L)
  <2> HIDE DEF step
  <2> QED
    BY <1>2, <1>3, RunsExist
<1>5. g \in [0..L -> Seq(X)] /\ g[0] = <<>> /\ \A i \in 1..L : g[i] = step[<<i, g[i - 1]>>]
  <2> HIDE DEF step
  <2> QED
    BY <1>4 DEF Runs
<1>6. ASSUME NEW i \in 1..L
      PROVE  g[i] = g[i - 1] \o v[i]
  <2>1. i - 1 \in 0..L
    BY <1>1
  <2>2. PICK s \in Seq(X) : s = g[i - 1]
    BY <1>5, <2>1
  <2>3. step[<<i, s>>] = s \o v[i]
    <3>1. i \in Nat /\ <<i, s>> \in Nat \X Seq(X)
      BY <1>1
    <3> QED
      BY <3>1
  <2> HIDE DEF step
  <2> QED
    BY <1>5, <2>2, <2>3
<1> QED
  BY <1>1, <1>5, <1>6 DEF Joins

\* FlattenSeq joins the lists of a list one after another.
LEMMA FlattenIs ==
    ASSUME NEW X, NEW v \in Seq(Seq(X)), NEW g, Joins(g, v, X)
    PROVE  FlattenSeq(v) = g[Len(v)]
<1>1. PICK L \in Nat : L = Len(v)
  OBVIOUS
<1>2. CASE L = 0
  <2>1. v = <<>>
    BY <1>1, <1>2, EmptySeq
  <2>2. FlattenSeq(v) = v
    BY <1>1, <1>2 DEF FlattenSeq
  <2>3. g[Len(v)] = <<>>
    BY <1>1, <1>2 DEF Joins
  <2> QED
    BY <2>1, <2>2, <2>3
<1>3. CASE L # 0
  <2>1. /\ g \in [0..L -> Seq(X)] /\ g[0] = <<>>
        /\ \A i \in 1..L : g[i] = g[i - 1] \o v[i]
    BY <1>1 DEF Joins
  <2> DEFINE body(f) == [i \in 1..Len(v) |-> IF i = 1 THEN v[i] ELSE f[i - 1] \o v[i]]
             h == [i \in 1..L |-> g[i]]
             fl == CHOOSE f : f = body(f)
  <2>2. h = body(h)
    <3>1. ASSUME NEW i \in 1..L
          PROVE  h[i] = IF i = 1 THEN v[i] ELSE h[i - 1] \o v[i]
      <4>1. CASE i = 1
        <5>0. 1 \in 1..L /\ 1 - 1 = 0
          BY <1>3
        <5>1. g[1] = g[0] \o v[1] /\ v[1] \in Seq(X)
          <6>1. g[1] = g[1 - 1] \o v[1]
            BY <5>0, <2>1
          <6>2. g[1 - 1] = g[0]
            BY <5>0
          <6> QED
            BY <6>1, <6>2, <5>0, <1>1, ElementOfSeq
        <5>2. <<>> \o v[1] = v[1]
          BY <5>1
        <5> QED
          BY <4>1, <5>1, <5>2, <2>1
      <4>2. CASE i # 1
        <5>1. i - 1 \in 1..L
          BY <1>1, <4>2
        <5> QED
          BY <4>2, <5>1, <2>1
      <4> QED
        BY <4>1, <4>2
    <3> QED
      BY <1>1, <3>1
  <2>3. fl = body(fl)
    <3> HIDE DEF body, h
    <3> QED
      BY <2>2, Zenon
  <2>4. FlattenSeq(v) = fl[Len(v)]
    BY <1>1, <1>3 DEF FlattenSeq
  <2> HIDE DEF fl
  <2>5. /\ fl[1] = v[1]
        /\ \A i \in 1..L : i # 1 => fl[i] = fl[i - 1] \o v[i]
    <3>1. \A i \in 1..L : body(fl)[i] = IF i = 1 THEN v[i] ELSE fl[i - 1] \o v[i]
      BY <1>1
    <3> HIDE DEF body
    <3>2. \A i \in 1..L : fl[i] = IF i = 1 THEN v[i] ELSE fl[i - 1] \o v[i]
      BY <2>3, <3>1
    <3>3. 1 \in 1..L
      BY <1>3
    <3> QED
      BY <3>2, <3>3
  <2> DEFINE P == {n \in Nat : n \in 1..L => fl[n] = g[n]}
  <2>6. 0 \in P
    OBVIOUS
  <2>7. ASSUME NEW n \in P
        PROVE  n + 1 \in P
    <3> SUFFICES ASSUME n + 1 \in 1..L
                 PROVE  fl[n + 1] = g[n + 1]
      OBVIOUS
    <3>1. CASE n = 0
      <4>0. 1 \in 1..L /\ 1 - 1 = 0
        BY <1>3
      <4>1. fl[1] = v[1] /\ g[1] = g[0] \o v[1] /\ v[1] \in Seq(X)
        <5>1. g[1] = g[1 - 1] \o v[1]
          BY <4>0, <2>1
        <5>2. g[1 - 1] = g[0]
          BY <4>0
        <5> QED
          BY <5>1, <5>2, <4>0, <1>1, <2>5, ElementOfSeq
      <4>2. <<>> \o v[1] = v[1]
        BY <4>1
      <4> QED
        BY <3>1, <4>1, <4>2, <2>1
    <3>2. CASE n # 0
      <4>1. PICK m \in 1..L : m = n + 1 /\ m # 1 /\ m - 1 = n
        BY <3>2
      <4>2. fl[m] = fl[m - 1] \o v[m] /\ g[m] = g[m - 1] \o v[m]
        BY <4>1, <2>1, <2>5
      <4>3. n \in 1..L
        BY <1>1, <3>2
      <4> QED
        BY <4>1, <4>2, <4>3
    <3> QED
      BY <3>1, <3>2
  <2>8. P = Nat
    <3> HIDE DEF P
    <3>1. P \in SUBSET Nat
      BY DEF P
    <3> QED
      BY <2>6, <2>7, <3>1, AllNaturals
  <2>9. L \in P /\ L \in 1..L
    BY <1>3, <2>8
  <2> QED
    BY <1>1, <2>4, <2>9
<1> QED
  BY <1>2, <1>3
\* The order of two joins makes no difference.
Associates(a, b, c) == a \o (b \o c) = (a \o b) \o c

\* Three lists joined, element by element.
LEMMA ConcatAssociates ==
    ASSUME NEW X, NEW a \in Seq(X), NEW b \in Seq(X), NEW c \in Seq(X)
    PROVE  Associates(a, b, c)
<1>1. PICK p \in Seq(X), q \in Seq(X) : p = b \o c /\ q = a \o b
  <2>1. b \o c \in Seq(X) /\ a \o b \in Seq(X)
    OBVIOUS
  <2> QED
    BY <2>1
<1>2. /\ Len(p) = Len(b) + Len(c) /\ \A i \in 1..Len(p) : p[i] = IF i <= Len(b) THEN b[i] ELSE c[i - Len(b)]
      /\ Len(q) = Len(a) + Len(b) /\ \A i \in 1..Len(q) : q[i] = IF i <= Len(a) THEN a[i] ELSE b[i - Len(a)]
  BY <1>1
<1>3. PICK r \in Seq(X), t \in Seq(X) : r = a \o p /\ t = q \o c
  <2>1. a \o p \in Seq(X) /\ q \o c \in Seq(X)
    BY <1>1
  <2> QED
    BY <2>1
<1>4. /\ Len(r) = Len(a) + Len(p) /\ \A i \in 1..Len(r) : r[i] = IF i <= Len(a) THEN a[i] ELSE p[i - Len(a)]
      /\ Len(t) = Len(q) + Len(c) /\ \A i \in 1..Len(t) : t[i] = IF i <= Len(q) THEN q[i] ELSE c[i - Len(q)]
  BY <1>1, <1>3
<1>5. PICK A \in Nat, B \in Nat, C \in Nat : A = Len(a) /\ B = Len(b) /\ C = Len(c)
  OBVIOUS
<1>6. Len(r) = A + B + C /\ Len(t) = A + B + C /\ Len(p) = B + C /\ Len(q) = A + B
  BY <1>2, <1>4, <1>5
<1>7. ASSUME NEW i \in 1..Len(r)
      PROVE  r[i] = t[i]
  <2>0. i \in 1..Len(t) /\ i \in Int
    BY <1>6
  <2>1. CASE i <= A
    <3>1. i \in 1..Len(q) /\ i <= Len(q)
      BY <1>6, <2>1
    <3> QED
      BY <1>2, <1>4, <1>5, <2>0, <2>1, <3>1
  <2>2. CASE A < i /\ i <= A + B
    <3>1. PICK k \in Nat : k = i - A /\ k \in 1..Len(p) /\ k <= B
      BY <1>6, <2>2
    <3>2. i \in 1..Len(q) /\ i <= Len(q) /\ ~(i <= A)
      BY <1>6, <2>2
    <3>3. r[i] = p[k] /\ p[k] = b[k]
      BY <1>2, <1>4, <1>5, <3>1, <3>2
    <3>4. t[i] = q[i] /\ q[i] = b[k]
      BY <1>2, <1>4, <1>5, <2>0, <3>1, <3>2
    <3> QED
      BY <3>3, <3>4
  <2>3. CASE A + B < i
    <3>1. PICK k \in Nat : k = i - A /\ k \in 1..Len(p) /\ ~(k <= B) /\ k - B = i - Len(q)
      BY <1>6, <2>3
    <3>2. ~(i <= Len(q)) /\ ~(i <= A)
      BY <1>6, <2>3
    <3>3. r[i] = p[k] /\ p[k] = c[k - B]
      BY <1>2, <1>4, <1>5, <3>1, <3>2
    <3>4. t[i] = c[k - B]
      BY <1>4, <2>0, <3>1, <3>2
    <3> QED
      BY <3>3, <3>4
  <2> QED
    BY <2>0, <2>1, <2>2, <2>3
<1>8. r = t
  BY <1>6, <1>7, SeqEqual
<1>9. a \o p = q \o c
  BY <1>3, <1>8
<1> QED
  BY <1>1, <1>9 DEF Associates

\* w is v with bytes added to list d.
Grown(w, v, d, bytes, X) ==
    /\ w \in Seq(Seq(X)) /\ Len(w) = Len(v) /\ w[d] = v[d] \o bytes
    /\ \A j \in 1..Len(v) : j # d => w[j] = v[j]

\* Nothing is behind list d of v.
NoneAfter(v, d) == \A j \in 1..Len(v) : j > d => v[j] = <<>>

\* The joined list is longer by them.
FlatGrown(w, v, bytes, X) == FlattenSeq(v) \in Seq(X) /\ FlattenSeq(w) = FlattenSeq(v) \o bytes

\* A list at place d that is longer by bytes, with nothing behind it.
LEMMA FlattenGrows ==
    ASSUME NEW X, NEW v \in Seq(Seq(X)), NEW d \in 1..Len(v), NEW bytes \in Seq(X), NEW w,
           Grown(w, v, d, bytes, X), NoneAfter(v, d)
    PROVE  FlatGrown(w, v, bytes, X)
<1> SUFFICES ASSUME w \in Seq(Seq(X)), Len(w) = Len(v), w[d] = v[d] \o bytes,
                    \A j \in 1..Len(v) : j # d => w[j] = v[j],
                    \A j \in 1..Len(v) : j > d => v[j] = <<>>
             PROVE  FlattenSeq(v) \in Seq(X) /\ FlattenSeq(w) = FlattenSeq(v) \o bytes
  BY DEF Grown, NoneAfter, FlatGrown
<1>1. PICK L \in Nat : L = Len(v) /\ L = Len(w) /\ d \in 1..L
  OBVIOUS
<1>2. PICK g : Joins(g, v, X)
  BY JoinsExist
<1>3. PICK h : Joins(h, w, X)
  BY JoinsExist
<1>4. /\ g \in [0..L -> Seq(X)] /\ g[0] = <<>> /\ \A i \in 1..L : g[i] = g[i - 1] \o v[i]
      /\ h \in [0..L -> Seq(X)] /\ h[0] = <<>> /\ \A i \in 1..L : h[i] = h[i - 1] \o w[i]
  BY <1>1, <1>2, <1>3 DEF Joins
<1> DEFINE Right(n) == h[n] = IF n < d THEN g[n] ELSE g[n] \o bytes
           P == {n \in Nat : n \in 0..L => Right(n)}
<1>5. 0 \in P
  BY <1>1, <1>4
<1>6. ASSUME NEW n \in P
      PROVE  n + 1 \in P
  <2> SUFFICES ASSUME n + 1 \in 0..L
               PROVE  Right(n + 1)
    OBVIOUS
  <2>1. PICK m \in 1..L : m = n + 1 /\ m - 1 = n /\ n \in 0..L
    BY <1>1
  <2>2. PICK a \in Seq(X), b \in Seq(X) : a = g[n] /\ b = v[m]
    BY <1>1, <1>4, <2>1, ElementOfSeq
  <2>3. PICK c, e : c = h[n] /\ e = w[m]
    OBVIOUS
  <2>4. g[m] = a \o b /\ h[m] = c \o e
    BY <1>4, <2>1, <2>2, <2>3
  <2>5. Right(n)
    BY <2>1
  <2>6. CASE m < d
    <3>1. c = a /\ e = b
      BY <1>1, <2>1, <2>2, <2>3, <2>5, <2>6
    <3> QED
      BY <2>1, <2>4, <2>6, <3>1
  <2>7. CASE m = d
    <3>1. c = a
      BY <1>1, <2>1, <2>2, <2>3, <2>5, <2>7
    <3>2. e = b \o bytes
      BY <2>2, <2>3, <2>7
    <3>3. a \o e = g[m] \o bytes
      <4>1. Associates(a, b, bytes)
        BY ConcatAssociates
      <4> QED
        BY <2>4, <3>2, <4>1, Zenon DEF Associates
    <3>4. ~(n + 1 < d) /\ m = n + 1
      BY <1>1, <2>1, <2>7
    <3> HIDE DEF P
    <3> QED
      BY <2>4, <3>1, <3>2, <3>3, <3>4, Zenon
  <2>8. CASE m > d
    <3>1. c = a \o bytes
      <4>1. ~(n < d)
        BY <1>1, <2>1, <2>8
      <4> QED
        BY <4>1, <2>2, <2>3, <2>5
    <3>2. e = <<>> /\ b = <<>>
      <4>1. m # d /\ m \in 1..Len(v)
        BY <1>1, <2>1, <2>8
      <4>2. v[m] = <<>>
        BY <4>1, <2>8
      <4>3. w[m] = v[m]
        BY <4>1
      <4> QED
        BY <2>2, <2>3, <4>2, <4>3
    <3>3. a \o bytes \in Seq(X)
      OBVIOUS
    <3>4. (a \o bytes) \o <<>> = a \o bytes /\ a \o <<>> = a
      BY <3>3, ConcatEmptySeq
    <3>5. ~(n + 1 < d) /\ m = n + 1
      BY <1>1, <2>1, <2>8
    <3> HIDE DEF P
    <3> QED
      BY <2>4, <3>1, <3>2, <3>4, <3>5, Zenon
  <2> QED
    BY <1>1, <2>6, <2>7, <2>8
<1>7. P = Nat
  <2> HIDE DEF P
  <2>1. P \in SUBSET Nat
    BY DEF P
  <2> QED
    BY <1>5, <1>6, <2>1, AllNaturals
<1>8. L \in 0..L /\ ~(L < d)
  BY <1>1
<1>a. h[L] = g[L] \o bytes
  BY <1>7, <1>8
<1>9. FlattenSeq(v) = g[L] /\ FlattenSeq(w) = h[L]
  BY <1>1, <1>2, <1>3, FlattenIs
<1> QED
  BY <1>4, <1>8, <1>9, <1>a

\* t begins with s.
Extends(t, s) == Len(s) <= Len(t) /\ \A m \in 1..Len(s) : t[m] = s[m]

\* Joining on keeps what has been joined.
LEMMA JoinsKeep ==
    ASSUME NEW X, NEW v \in Seq(Seq(X)), NEW g, Joins(g, v, X), NEW i \in 0..Len(v), NEW j \in i..Len(v)
    PROVE  Extends(g[j], g[i])
<1>1. PICK L \in Nat : L = Len(v) /\ i \in 0..L /\ j \in i..L
  OBVIOUS
<1>2. g \in [0..L -> Seq(X)] /\ \A k \in 1..L : g[k] = g[k - 1] \o v[k]
  BY <1>1 DEF Joins
<1> DEFINE Keeps(n) == Len(g[i]) <= Len(g[n]) /\ \A m \in 1..Len(g[i]) : g[n][m] = g[i][m]
           P == {n \in Nat : i + n <= L => Keeps(i + n)}
<1>3. 0 \in P
  <2>1. i + 0 = i /\ Len(g[i]) \in Nat
    BY <1>1, <1>2
  <2> QED
    BY <2>1
<1>4. ASSUME NEW n \in P
      PROVE  n + 1 \in P
  <2>0. n \in Nat /\ n + 1 \in Nat
    OBVIOUS
  <2> HIDE DEF Keeps
  <2> SUFFICES ASSUME i + (n + 1) <= L
               PROVE  Keeps(i + (n + 1))
    BY <2>0
  <2> USE DEF Keeps
  <2>1. PICK k \in 1..L : k = i + (n + 1) /\ k - 1 = i + n /\ k - 1 \in 0..L /\ i + n <= L
    BY <1>1
  <2>2. PICK a \in Seq(X), b \in Seq(X) : a = g[k - 1] /\ b = v[k]
    BY <1>1, <1>2, <2>1, ElementOfSeq
  <2>3. PICK c \in Seq(X) : c = g[i]
    BY <1>1, <1>2
  <2>4. Len(c) <= Len(a) /\ \A m \in 1..Len(c) : a[m] = c[m]
    BY <2>1, <2>2, <2>3
  <2>5. g[k] = a \o b
    BY <1>2, <2>1, <2>2
  <2>6. Len(a \o b) >= Len(a) /\ \A m \in 1..Len(a) : (a \o b)[m] = a[m]
    OBVIOUS
  <2>7. Len(c) <= Len(a \o b) /\ \A m \in 1..Len(c) : (a \o b)[m] = c[m]
    <3>0. PICK lc \in Nat, la \in Nat : lc = Len(c) /\ la = Len(a)
      OBVIOUS
    <3>1. PICK d \in Seq(X) : d = a \o b
      <4>1. a \o b \in Seq(X)
        OBVIOUS
      <4> QED
        BY <4>1
    <3>2. Len(d) \in Nat /\ lc <= la /\ la <= Len(d)
      BY <2>4, <2>6, <3>0, <3>1
    <3>3. lc <= Len(d)
      BY <3>2
    <3>4. ASSUME NEW m \in 1..lc
          PROVE  d[m] = c[m]
      <4>1. m \in 1..la
        BY <3>2
      <4> QED
        BY <2>4, <2>6, <3>0, <3>1, <4>1
    <3> QED
      BY <3>0, <3>1, <3>3, <3>4
  <2> QED
    BY <2>1, <2>3, <2>5, <2>7
<1>5. P = Nat
  <2> HIDE DEF P
  <2>1. P \in SUBSET Nat
    BY DEF P
  <2> QED
    BY <1>3, <1>4, <2>1, AllNaturals
<1>6. PICK n \in Nat : i + n = j
  <2>1. j - i \in Nat /\ i + (j - i) = j
    BY <1>1
  <2> QED
    BY <2>1
<1>7. Keeps(j)
  <2>1. n \in P
    <3> HIDE DEF P
    <3> QED
      BY <1>5, <1>6
  <2>3. i + n <= L
    BY <1>1, <1>6
  <2>2. Keeps(i + n)
    BY <2>1, <2>3
  <2> QED
    BY <1>6, <2>2
<1> QED
  BY <1>7 DEF Extends
-----------------------------------------------------------------------------
-----------------------------------------------------------------------------
(***************************************************************************)
(* The bytes of a vector and where each buffer begins among them.          *)
(***************************************************************************)
\* The bytes of each buffer of v.
BytesOf(v) == [i \in DOMAIN v |-> [k \in 1..v[i].size |-> <<i, k>>]]

\* A byte is its buffer and its place there.
Byte == Nat \X Nat

\* The partial joins of these lists.
Flat(v) == CHOOSE g : Joins(g, BytesOf(v), Byte)

\* Where buffer i begins among all bytes of v.
Place(v, i) == Len(Flat(v)[i - 1])

\* The bytes of a vector, buffer by buffer.
LEMMA BytesOfIs ==
    ASSUME NEW v \in Seq(Buf)
    PROVE  /\ BytesOf(v) \in Seq(Seq(Byte)) /\ Len(BytesOf(v)) = Len(v)
           /\ \A i \in 1..Len(v) : /\ v[i].size \in Nat
                                   /\ Len(BytesOf(v)[i]) = v[i].size
                                   /\ \A k \in 1..v[i].size : BytesOf(v)[i][k] = <<i, k>>
<1>1. PICK L \in Nat : L = Len(v) /\ DOMAIN v = 1..L
  OBVIOUS
<1>2. ASSUME NEW i \in 1..L
      PROVE  /\ v[i].size \in Nat
             /\ [k \in 1..v[i].size |-> <<i, k>>] \in Seq(Byte)
             /\ Len([k \in 1..v[i].size |-> <<i, k>>]) = v[i].size
  <2>1. v[i] \in Buf
    BY <1>1, ElementOfSeq
  <2>2. PICK z \in Nat : z = v[i].size
    BY <2>1 DEF Buf
  <2>3. \A k \in 1..z : <<i, k>> \in Byte
    BY <1>1 DEF Byte
  <2>4. [k \in 1..z |-> <<i, k>>] \in Seq(Byte) /\ Len([k \in 1..z |-> <<i, k>>]) = z
    <3>1. PICK f : f = [k \in 1..z |-> <<i, k>>]
      OBVIOUS
    <3>2. f \in [1..z -> Byte]
      BY <2>3, <3>1
    <3>3. f \in Seq(Byte) /\ Len(f) = z
      BY <3>2
    <3> QED
      BY <3>1, <3>3
  <2> QED
    BY <2>2, <2>4
<1>3. BytesOf(v) = [i \in 1..L |-> [k \in 1..v[i].size |-> <<i, k>>]]
  BY <1>1 DEF BytesOf
<1>4. [i \in 1..L |-> [k \in 1..v[i].size |-> <<i, k>>]] \in [1..L -> Seq(Byte)]
  BY <1>2
<1>5. BytesOf(v) \in Seq(Seq(Byte)) /\ Len(BytesOf(v)) = L
  BY <1>1, <1>3, <1>4
<1>6. ASSUME NEW i \in 1..L
      PROVE  /\ v[i].size \in Nat /\ Len(BytesOf(v)[i]) = v[i].size
             /\ \A k \in 1..v[i].size : BytesOf(v)[i][k] = <<i, k>>
  BY <1>2, <1>3
<1> QED
  BY <1>1, <1>5, <1>6

\* Places add up the sizes, and each buffer's bytes stand at its place.
PlacesRight(v) ==
    /\ \A i \in 1..(Len(v) + 1) : Place(v, i) \in Nat
    /\ Place(v, 1) = 0
    /\ \A i \in 1..Len(v) : v[i].size \in Nat /\ Place(v, i + 1) = Place(v, i) + v[i].size
    /\ \A i, j \in 1..(Len(v) + 1) : i <= j => Place(v, i) <= Place(v, j)
    /\ AllBytes(v) \in Seq(Byte) /\ Len(AllBytes(v)) = Place(v, Len(v) + 1)
    /\ \A i \in 1..Len(v) : \A k \in 1..v[i].size : AllBytes(v)[Place(v, i) + k] = <<i, k>>

\* Where the buffers of a vector stand among all its bytes.
LEMMA Places ==
    ASSUME NEW v \in Seq(Buf)
    PROVE  PlacesRight(v)
<1>1. PICK L \in Nat : L = Len(v)
  OBVIOUS
<1>2. PICK w : w = BytesOf(v)
  OBVIOUS
<1>3. /\ w \in Seq(Seq(Byte)) /\ Len(w) = L
      /\ \A i \in 1..L : v[i].size \in Nat /\ Len(w[i]) = v[i].size /\ \A k \in 1..v[i].size : w[i][k] = <<i, k>>
  BY <1>1, <1>2, BytesOfIs
<1>4. PICK g : g = Flat(v)
  OBVIOUS
<1>5. Joins(g, w, Byte)
  <2>1. \E h : Joins(h, w, Byte)
    BY <1>3, JoinsExist
  <2> QED
    BY <1>2, <1>4, <2>1, Zenon DEF Flat
<1>6. g \in [0..L -> Seq(Byte)] /\ g[0] = <<>> /\ \A i \in 1..L : g[i] = g[i - 1] \o w[i]
  BY <1>3, <1>5 DEF Joins
<1>7. \A i : Place(v, i) = Len(g[i - 1])
  BY <1>4 DEF Place
<1>8. AllBytes(v) = g[L]
  <2>1. AllBytes(v) = FlattenSeq(w)
    BY <1>2 DEF AllBytes, BytesOf
  <2> QED
    BY <2>1, <1>3, <1>5, FlattenIs
<1>9. \A i \in 1..(L + 1) : Place(v, i) \in Nat
  <2>1. \A i \in 1..(L + 1) : i - 1 \in 0..L
    OBVIOUS
  <2>2. \A i \in 0..L : Len(g[i]) \in Nat
    BY <1>6
  <2> QED
    BY <1>7, <2>1, <2>2
<1>10. Place(v, 1) = 0
  <2>1. 1 - 1 = 0 /\ Len(<<>>) = 0
    OBVIOUS
  <2>2. Place(v, 1) = Len(g[1 - 1])
    BY <1>7
  <2> QED
    BY <1>6, <2>1, <2>2
<1>11. ASSUME NEW i \in 1..L
       PROVE  Place(v, i + 1) = Place(v, i) + v[i].size
  <2>1. PICK a \in Seq(Byte), b \in Seq(Byte) : a = g[i - 1] /\ b = w[i]
    <3>1. i - 1 \in 0..L
      BY <1>1
    <3> QED
      BY <3>1, <1>3, <1>6, ElementOfSeq
  <2>2. g[i] = a \o b /\ Len(b) = v[i].size
    BY <1>3, <1>6, <2>1
  <2>3. Len(a \o b) = Len(a) + Len(b)
    OBVIOUS
  <2>4. Place(v, i + 1) = Len(g[i]) /\ Place(v, i) = Len(a)
    <3>1. (i + 1) - 1 = i
      BY <1>1
    <3> QED
      BY <3>1, <1>7, <2>1
  <2> QED
    BY <2>2, <2>3, <2>4
<1>12. ASSUME NEW i \in 1..(L + 1), NEW j \in 1..(L + 1), i <= j
       PROVE  Place(v, i) <= Place(v, j)
  <2>1. PICK m \in 0..L, n \in 0..L : m = i - 1 /\ n = j - 1 /\ n \in m..L
    <3>1. i - 1 \in 0..L /\ j - 1 \in 0..L /\ j - 1 \in (i - 1)..L
      BY <1>1, <1>12
    <3> QED
      BY <3>1
  <2>2. Len(g[m]) <= Len(g[n])
    <3>1. m \in 0..Len(w) /\ n \in m..Len(w)
      BY <1>3, <2>1
    <3>2. Extends(g[n], g[m])
      BY <1>3, <1>5, <3>1, JoinsKeep
    <3> QED
      BY <3>2 DEF Extends
  <2> QED
    BY <1>7, <2>1, <2>2
<1>13. ASSUME NEW i \in 1..L, NEW k \in 1..v[i].size
       PROVE  g[L][Place(v, i) + k] = <<i, k>>
  <2>1. PICK a \in Seq(Byte), b \in Seq(Byte) : a = g[i - 1] /\ b = w[i]
    <3>1. i - 1 \in 0..L
      BY <1>1
    <3> QED
      BY <3>1, <1>3, <1>6, ElementOfSeq
  <2>2. g[i] = a \o b /\ Len(b) = v[i].size /\ b[k] = <<i, k>>
    BY <1>3, <1>6, <2>1
  <2>3. k \in 1..Len(b)
    BY <2>2
  <2>4. Len(a) + k \in 1..Len(a \o b) /\ (a \o b)[Len(a) + k] = b[k]
    BY <2>3
  <2>5. i \in 0..L /\ L \in i..L
    BY <1>1
  <2>6. \A m \in 1..Len(g[i]) : g[L][m] = g[i][m]
    <3>1. i \in 0..Len(w) /\ L \in i..Len(w)
      BY <1>3, <2>5
    <3>2. Extends(g[L], g[i])
      BY <1>3, <1>5, <3>1, JoinsKeep
    <3> QED
      BY <3>2 DEF Extends
  <2>7. Place(v, i) = Len(a)
    BY <1>7, <2>1
  <2> QED
    BY <2>2, <2>4, <2>6, <2>7
<1>14. g[L] \in Seq(Byte) /\ Len(g[L]) = Place(v, L + 1)
  <2>1. L \in 0..L /\ (L + 1) - 1 = L
    BY <1>1
  <2> QED
    BY <2>1, <1>6, <1>7
<1> QED
  BY <1>1, <1>3, <1>8, <1>9, <1>10, <1>11, <1>12, <1>13, <1>14 DEF PlacesRight

\* bytes are those of buffer i behind offset o.
Carries(bytes, i, o) == \A k \in 1..Len(bytes) : bytes[k] = <<i, o + k>>

\* Arithmetic of places.
LEMMA EndInside ==
    ASSUME NEW o \in Nat, NEW n \in Nat, NEW z \in Nat, NEW p \in Nat, NEW N \in Nat, o + n <= z, p + z <= N,
           NEW m, m = p + o, NEW w, w = m + n
    PROVE  w \in 0..N
  OBVIOUS

\* What comes next in the source.
Follows(bytes, src, si, o, m, w) ==
    /\ src \in Seq(Buf) /\ si \in 1..Len(src) /\ m \in Nat /\ o \in Nat /\ w \in Nat /\ bytes \in Seq(Byte)
    /\ m = Place(src, si) + o /\ w = m + Len(bytes)
    /\ o + Len(bytes) <= src[si].size /\ Carries(bytes, si, o)

\* With bytes, the first m bytes of src become the first w.
Completes(bytes, src, m, w) == SubSeq(AllBytes(src), 1, m) \o bytes = SubSeq(AllBytes(src), 1, w)

\* Bytes that carry on from where a copy stands are the next ones of the source.
LEMMA NextInSource ==
    ASSUME NEW src, NEW si, NEW m, NEW o, NEW w, NEW bytes, Follows(bytes, src, si, o, m, w)
    PROVE  Completes(bytes, src, m, w)
<1> SUFFICES ASSUME src \in Seq(Buf), si \in 1..Len(src), m \in Nat, o \in Nat, w \in Nat, bytes \in Seq(Byte),
                    m = Place(src, si) + o, w = m + Len(bytes),
                    o + Len(bytes) <= src[si].size, Carries(bytes, si, o)
             PROVE  Completes(bytes, src, m, w)
  BY DEF Follows
<1>1. PlacesRight(src)
  BY Places
<1>2. PICK all \in Seq(Byte) : all = AllBytes(src)
  BY <1>1 DEF PlacesRight
<1>3. PICK L \in Nat : L = Len(src) /\ si \in 1..L
  OBVIOUS
<1>4. src[si].size \in Nat /\ Place(src, si + 1) = Place(src, si) + src[si].size
  BY <1>1 DEF PlacesRight
<1>5. si \in 1..(L + 1) /\ si + 1 \in 1..(L + 1) /\ L + 1 \in 1..(L + 1) /\ si + 1 <= L + 1
  BY <1>3
<1>6. Place(src, si) \in Nat /\ Place(src, L + 1) \in Nat /\ Place(src, si + 1) <= Place(src, L + 1)
  BY <1>1, <1>3, <1>5 DEF PlacesRight
<1>7. Len(all) = Place(src, L + 1)
  BY <1>1, <1>2, <1>3 DEF PlacesRight
<1>8. PICK z \in Nat, p \in Nat, N \in Nat : z = src[si].size /\ p = Place(src, si) /\ N = Len(all) /\ p + z <= N
  BY <1>4, <1>6, <1>7
<1>9. PICK n \in Nat : n = Len(bytes) /\ m = p + o /\ o + n <= z /\ w = m + n
  BY <1>8
<1>11. w \in 0..Len(all)
  BY <1>8, <1>9, EndInside
<1>10. ASSUME NEW k \in 1..n
       PROVE  bytes[k] = all[m + k]
  <2>1. o + k \in 1..z /\ p + (o + k) = m + k
    <3>1. o + n <= z /\ m = p + o
      BY <1>9
    <3>2. o + k \in 1..z
      BY <3>1
    <3>3. p + (o + k) = m + k
      <4>1. k \in Nat
        OBVIOUS
      <4>2. p + (o + k) = (p + o) + k
        BY <4>1
      <4> QED
        BY <3>1, <4>2
    <3> QED
      BY <3>2, <3>3
  <2>2. AllBytes(src)[Place(src, si) + (o + k)] = <<si, o + k>>
    BY <1>1, <1>8, <2>1 DEF PlacesRight
  <2>3. all[p + (o + k)] = <<si, o + k>>
    BY <1>2, <1>8, <2>2
  <2>4. bytes[k] = <<si, o + k>>
    BY <1>9 DEF Carries
  <2> QED
    BY <2>1, <2>3, <2>4
<1>12. Continues(bytes, all, m)
  BY <1>9, <1>10 DEF Continues
<1>13. w = m + Len(bytes)
  BY <1>9
<1>14. Prolongs(bytes, all, m, w)
  BY <1>11, <1>12, <1>13, PrefixGrows
<1> QED
  BY <1>2, <1>14 DEF Prolongs, Completes

-----------------------------------------------------------------------------
(***************************************************************************)
(* Where a copy stands, and what reading and writing make of that.         *)
(***************************************************************************)
\* Offset n is inside buffer i of v, or v has ended.
Fits(v, i, n) == IF i <= Len(v) THEN n <= v[i].size ELSE n = 0

\* The descriptors without a position have given all before buffer si and n bytes of it.
Drawn(src, si, n, tk) ==
    \A i \in 1..Len(src) : src[i].kind = "stream" =>
       tk[i] = IF i < si THEN src[i].size ELSE IF i = si THEN n ELSE 0

\* A copy in progress: c bytes have arrived, the last of them a bytes into source si and
\* e bytes into destination di; tmp has been read behind them and not been written.
At(src, si, a, di, e, c, tmp, tk, out) ==
    /\ src \in Seq(Buf) /\ si \in 1..(Len(src) + 1) /\ di \in 1..(Len(out) + 1)
    /\ a \in Nat /\ e \in Nat /\ c \in Nat /\ tmp \in Seq(Byte)
    /\ tk \in Seq(Nat) /\ Len(tk) = Len(src) /\ out \in Seq(Seq(Byte))
    /\ Fits(src, si, a + Len(tmp))
    /\ di <= Len(out) => Len(out[di]) = e
    /\ c = Place(src, si) + a
    /\ FlattenSeq(out) = SubSeq(AllBytes(src), 1, c)
    /\ NoneAfter(out, di)
    /\ Drawn(src, si, a + Len(tmp), tk)
    /\ Carries(tmp, si, a)

\* The next n bytes of source si, from offset off or where the descriptor stands.
NextBytes(src, si, off, tk, n) ==
    [k \in 1..n |-> <<si, (IF src[si].kind = "stream" THEN tk[si] ELSE off) + k>>]

\* What has been taken when they have been read.
TakenOf(src, si, tk, n) == IF src[si].kind = "stream" THEN [tk EXCEPT ![si] = @ + n] ELSE tk

\* They carry on from there.
LEMMA NextCarries ==
    ASSUME NEW src, NEW si \in Nat, NEW off \in Nat, NEW tk, NEW n \in Nat,
           src[si].kind = "stream" => tk[si] = off
    PROVE  /\ NextBytes(src, si, off, tk, n) \in Seq(Byte)
           /\ Len(NextBytes(src, si, off, tk, n)) = n
           /\ Carries(NextBytes(src, si, off, tk, n), si, off)
<1>1. PICK b : b = NextBytes(src, si, off, tk, n)
  OBVIOUS
<1>2. b = [k \in 1..n |-> <<si, off + k>>]
  BY <1>1 DEF NextBytes
<1>3. \A k \in 1..n : <<si, off + k>> \in Byte
  BY DEF Byte
<1>4. b \in [1..n -> Byte]
  BY <1>2, <1>3
<1>5. b \in Seq(Byte) /\ Len(b) = n
  BY <1>4
<1>6. \A k \in 1..n : b[k] = <<si, off + k>>
  BY <1>2
<1>7. Carries(b, si, off)
  BY <1>5, <1>6 DEF Carries
<1> QED
  BY <1>1, <1>5, <1>7

\* What carries on from what has been read.
LEMMA CarriesOn ==
    ASSUME NEW t \in Seq(Byte), NEW b \in Seq(Byte), NEW si, NEW a \in Nat, NEW x \in Nat, x = a + Len(t),
           Carries(t, si, a), Carries(b, si, x)
    PROVE  t \o b \in Seq(Byte) /\ Len(t \o b) = Len(t) + Len(b) /\ Carries(t \o b, si, a)
<1>1. PICK T \in Nat, B \in Nat : T = Len(t) /\ B = Len(b) /\ x = a + T
  OBVIOUS
<1>2. PICK c : c = t \o b
  OBVIOUS
<1>3. /\ t \o b \in Seq(Byte) /\ Len(t \o b) = Len(t) + Len(b)
      /\ \A j \in 1..(Len(t) + Len(b)) : (t \o b)[j] = IF j <= Len(t) THEN t[j] ELSE b[j - Len(t)]
  BY ConcatIs
<1>4. c \in Seq(Byte) /\ Len(c) = T + B /\ \A j \in 1..(T + B) : c[j] = IF j <= T THEN t[j] ELSE b[j - T]
  BY <1>1, <1>2, <1>3
<1>5. ASSUME NEW k \in 1..(T + B)
      PROVE  c[k] = <<si, a + k>>
  <2>1. CASE k <= T
    <3>1. k \in 1..Len(t)
      BY <1>1, <2>1
    <3> QED
      BY <1>4, <2>1, <3>1 DEF Carries
  <2>2. CASE ~(k <= T)
    <3>1. k - T \in 1..Len(b)
      BY <1>1, <2>2
    <3>2. x + (k - T) = a + k
      BY <1>1
    <3>3. b[k - T] = <<si, x + (k - T)>>
      BY <3>1 DEF Carries
    <3> QED
      BY <1>4, <2>2, <3>2, <3>3
  <2> QED
    BY <2>1, <2>2
<1>6. Carries(c, si, a)
  BY <1>4, <1>5 DEF Carries
<1> QED
  BY <1>2, <1>3, <1>6

\* The descriptor has given n more.
LEMMA TakenDrawn ==
    ASSUME NEW src \in Seq(Buf), NEW si \in 1..Len(src), NEW x \in Nat, NEW y, NEW n \in Nat, y = x + n,
           NEW tk \in Seq(Nat), Len(tk) = Len(src), Drawn(src, si, x, tk)
    PROVE  /\ TakenOf(src, si, tk, n) \in Seq(Nat) /\ Len(TakenOf(src, si, tk, n)) = Len(src)
           /\ Drawn(src, si, y, TakenOf(src, si, tk, n))
<1>1. PICK L \in Nat : L = Len(src) /\ L = Len(tk) /\ si \in 1..L
  OBVIOUS
<1>2. PICK t : t = TakenOf(src, si, tk, n)
  OBVIOUS
<1>3. CASE src[si].kind = "stream"
  <2>1. tk \in [1..L -> Nat]
    BY <1>1
  <2>2. t = [tk EXCEPT ![si] = tk[si] + n] /\ tk[si] = x
    <3>1. tk[si] = x
      BY <1>1, <1>3 DEF Drawn
    <3> QED
      BY <1>2, <1>3, <3>1 DEF TakenOf
  <2>3. t \in [1..L -> Nat] /\ t[si] = y /\ \A i \in 1..L : i # si => t[i] = tk[i]
    BY <1>1, <2>1, <2>2
  <2>4. t \in Seq(Nat) /\ Len(t) = L
    BY <2>3
  <2>5. Drawn(src, si, y, t)
    BY <1>1, <2>3 DEF Drawn
  <2> QED
    BY <1>1, <1>2, <2>4, <2>5
<1>4. CASE src[si].kind # "stream"
  <2>1. t = tk
    BY <1>2, <1>4 DEF TakenOf
  <2>2. Drawn(src, si, y, tk)
    BY <1>1, <1>4 DEF Drawn
  <2> QED
    BY <1>1, <1>2, <2>1, <2>2
<1> QED
  BY <1>3, <1>4

\* Reading n bytes into the buffer.
LEMMA ReadOn ==
    ASSUME NEW src, NEW si, NEW a, NEW di, NEW e, NEW c, NEW tmp, NEW tk, NEW out,
           At(src, si, a, di, e, c, tmp, tk, out), si <= Len(src), NEW n \in Nat,
           a + Len(tmp) + n <= src[si].size
    PROVE  /\ Len(NextBytes(src, si, a + Len(tmp), tk, n)) = n
           /\ NextBytes(src, si, a + Len(tmp), tk, n) \in Seq(Byte)
           /\ At(src, si, a, di, e, c, tmp \o NextBytes(src, si, a + Len(tmp), tk, n),
                 TakenOf(src, si, tk, n), out)
<1>1. /\ src \in Seq(Buf) /\ si \in 1..(Len(src) + 1) /\ di \in 1..(Len(out) + 1)
      /\ a \in Nat /\ e \in Nat /\ c \in Nat /\ tmp \in Seq(Byte)
      /\ tk \in Seq(Nat) /\ Len(tk) = Len(src) /\ out \in Seq(Seq(Byte))
      /\ di <= Len(out) => Len(out[di]) = e
      /\ c = Place(src, si) + a /\ FlattenSeq(out) = SubSeq(AllBytes(src), 1, c)
      /\ NoneAfter(out, di) /\ Drawn(src, si, a + Len(tmp), tk) /\ Carries(tmp, si, a)
  BY DEF At
<1>2. si \in 1..Len(src) /\ si \in Nat
  <2>1. PICK L \in Nat : L = Len(src) /\ si \in 1..(L + 1)
    BY <1>1
  <2>2. si \in 1..L
    BY <2>1
  <2> QED
    BY <2>1, <2>2
<1>3. PICK x \in Nat : x = a + Len(tmp)
  BY <1>1
<1>4. src[si].kind = "stream" => tk[si] = x
  <2>1. Drawn(src, si, x, tk)
    BY <1>1, <1>3
  <2> QED
    BY <1>2, <2>1 DEF Drawn
<1>5. PICK b : b = NextBytes(src, si, x, tk, n)
  OBVIOUS
<1>6. b \in Seq(Byte) /\ Len(b) = n /\ Carries(b, si, x)
  BY <1>2, <1>4, <1>5, NextCarries
<1>7. tmp \o b \in Seq(Byte) /\ Len(tmp \o b) = Len(tmp) + Len(b) /\ Carries(tmp \o b, si, a)
  BY <1>1, <1>3, <1>6, CarriesOn
<1>8. PICK t \in Seq(Byte) : t = tmp \o b /\ Carries(t, si, a)
  BY <1>7
<1>9. PICK y \in Nat : y = x + n /\ y = a + Len(t)
  <2>1. Len(t) = Len(tmp) + n
    BY <1>6, <1>7, <1>8
  <2>2. a + (Len(tmp) + n) = (a + Len(tmp)) + n
    BY <1>1
  <2> QED
    BY <1>3, <2>1, <2>2
<1>10. PICK tk2 : tk2 = TakenOf(src, si, tk, n)
  OBVIOUS
<1>11. tk2 \in Seq(Nat) /\ Len(tk2) = Len(src) /\ Drawn(src, si, y, tk2)
  <2>1. Drawn(src, si, x, tk)
    BY <1>1, <1>3
  <2>2. tk \in Seq(Nat) /\ Len(tk) = Len(src) /\ y = x + n /\ src \in Seq(Buf)
    BY <1>1, <1>9
  <2>3. /\ TakenOf(src, si, tk, n) \in Seq(Nat) /\ Len(TakenOf(src, si, tk, n)) = Len(src)
        /\ Drawn(src, si, y, TakenOf(src, si, tk, n))
    BY <1>2, <2>1, <2>2, TakenDrawn
  <2> QED
    BY <1>10, <2>3
<1>12. Fits(src, si, y)
  <2>1. y <= src[si].size
    BY <1>3, <1>9
  <2> QED
    BY <2>1 DEF Fits
<1>13. At(src, si, a, di, e, c, t, tk2, out)
  <2>1. Fits(src, si, a + Len(t)) /\ Drawn(src, si, a + Len(t), tk2)
    BY <1>9, <1>11, <1>12
  <2> QED
    BY <1>1, <1>8, <1>11, <2>1 DEF At
<1> QED
  BY <1>3, <1>5, <1>6, <1>8, <1>10, <1>13

\* The first n of them, and the others.
LEMMA CarriesParts ==
    ASSUME NEW t \in Seq(Byte), NEW si, NEW a \in Nat, NEW n \in 0..Len(t), Carries(t, si, a), NEW x, x = a + n
    PROVE  /\ SubSeq(t, 1, n) \in Seq(Byte) /\ Len(SubSeq(t, 1, n)) = n /\ Carries(SubSeq(t, 1, n), si, a)
           /\ SubSeq(t, n + 1, Len(t)) \in Seq(Byte) /\ Len(SubSeq(t, n + 1, Len(t))) = Len(t) - n
           /\ Carries(SubSeq(t, n + 1, Len(t)), si, x)
<1>1. PICK T \in Nat : T = Len(t) /\ n \in 0..T /\ n \in Nat
  OBVIOUS
<1>2. PICK p, q : p = SubSeq(t, 1, n) /\ q = SubSeq(t, n + 1, T)
  OBVIOUS
<1>3. /\ SubSeq(t, 1, n) \in Seq(Byte) /\ Len(SubSeq(t, 1, n)) = n
      /\ \A j \in 1..n : SubSeq(t, 1, n)[j] = t[j]
  BY <1>1, PrefixIs
<1>4. p \in Seq(Byte) /\ Len(p) = n /\ \A j \in 1..n : p[j] = t[j]
  BY <1>2, <1>3
<1>5. Carries(p, si, a)
  <2>1. ASSUME NEW k \in 1..n
        PROVE  p[k] = <<si, a + k>>
    <3>1. k \in 1..Len(t)
      BY <1>1
    <3> QED
      BY <1>4, <3>1 DEF Carries
  <2> QED
    BY <1>4, <2>1 DEF Carries
<1>6. PICK m \in 1..(T + 1) : m = n + 1 /\ m <= T + 1
  <2>1. n + 1 \in 1..(T + 1)
    BY <1>1
  <2> QED
    BY <2>1
<1>7. /\ SubSeq(t, m, T) \in Seq(Byte) /\ Len(SubSeq(t, m, T)) = T - m + 1
      /\ \A j \in 1..(T - m + 1) : SubSeq(t, m, T)[j] = t[m + j - 1]
  <2>1. T \in 0..Len(t) /\ m \in 1..(Len(t) + 1) /\ m <= T + 1
    BY <1>1, <1>6
  <2> QED
    BY <2>1, PartIs
<1>8. T - m + 1 = T - n /\ \A j \in 1..(T - n) : m + j - 1 = n + j
  BY <1>1, <1>6
<1>9. q \in Seq(Byte) /\ Len(q) = T - n /\ \A j \in 1..(T - n) : q[j] = t[n + j]
  BY <1>2, <1>6, <1>7, <1>8
<1>10. Carries(q, si, x)
  <2>1. ASSUME NEW k \in 1..(T - n)
        PROVE  q[k] = <<si, x + k>>
    <3>1. n + k \in 1..Len(t) /\ a + (n + k) = x + k
      BY <1>1
    <3>2. t[n + k] = <<si, a + (n + k)>>
      BY <3>1 DEF Carries
    <3> QED
      BY <1>9, <3>1, <3>2
  <2> QED
    BY <1>9, <2>1 DEF Carries
<1> QED
  BY <1>1, <1>2, <1>4, <1>5, <1>9, <1>10

\* The three offsets are n further.
Further(n, a, e, c, x, y, w) == x = a + n /\ y = e + n /\ w = c + n

\* Writing the first n bytes of the buffer.
LEMMA WriteOn ==
    ASSUME NEW src \in Seq(Buf), NEW tmp \in Seq(Byte), NEW tk, NEW out \in Seq(Seq(Byte)),
           NEW si \in 1..Len(src), NEW di \in 1..Len(out), NEW a \in Nat, NEW e \in Nat, NEW c \in Nat,
           At(src, si, a, di, e, c, tmp, tk, out), NEW n \in 0..Len(tmp),
           NEW out2, Grown(out2, out, di, SubSeq(tmp, 1, n), Byte), NEW x, NEW y, NEW w, Further(n, a, e, c, x, y, w)
    PROVE  At(src, si, x, di, y, w, SubSeq(tmp, n + 1, Len(tmp)), tk, out2)
<1>1. /\ src \in Seq(Buf) /\ si \in 1..(Len(src) + 1) /\ di \in 1..(Len(out) + 1)
      /\ a \in Nat /\ e \in Nat /\ c \in Nat /\ tmp \in Seq(Byte)
      /\ tk \in Seq(Nat) /\ Len(tk) = Len(src) /\ out \in Seq(Seq(Byte))
      /\ (di <= Len(out) => Len(out[di]) = e) /\ Fits(src, si, a + Len(tmp))
      /\ c = Place(src, si) + a /\ FlattenSeq(out) = SubSeq(AllBytes(src), 1, c)
      /\ NoneAfter(out, di) /\ Drawn(src, si, a + Len(tmp), tk) /\ Carries(tmp, si, a)
  BY DEF At
<1>3. n \in Nat /\ x \in Nat /\ y \in Nat /\ w \in Nat
  BY DEF Further
<1>4. PICK p, q : p = SubSeq(tmp, 1, n) /\ q = SubSeq(tmp, n + 1, Len(tmp))
  OBVIOUS
<1>5. /\ p \in Seq(Byte) /\ Len(p) = n /\ Carries(p, si, a)
      /\ q \in Seq(Byte) /\ Len(q) = Len(tmp) - n /\ Carries(q, si, x)
  <2>1. Carries(tmp, si, a)
    BY <1>1
  <2>2. /\ SubSeq(tmp, 1, n) \in Seq(Byte) /\ Len(SubSeq(tmp, 1, n)) = n /\ Carries(SubSeq(tmp, 1, n), si, a)
        /\ SubSeq(tmp, n + 1, Len(tmp)) \in Seq(Byte) /\ Len(SubSeq(tmp, n + 1, Len(tmp))) = Len(tmp) - n
        /\ Carries(SubSeq(tmp, n + 1, Len(tmp)), si, x)
    BY <2>1, CarriesParts DEF Further
  <2> QED
    BY <1>4, <2>2
<1>6. a + Len(tmp) = x + Len(q)
  <2>1. PICK T \in Nat : T = Len(tmp) /\ n \in 0..T /\ Len(q) = T - n
    BY <1>1, <1>5
  <2> QED
    BY <1>1, <1>3, <2>1 DEF Further
<1>7. out2 \in Seq(Seq(Byte)) /\ Len(out2) = Len(out) /\ out2[di] = out[di] \o p
      /\ \A j \in 1..Len(out) : j # di => out2[j] = out[j]
  BY <1>4 DEF Grown
<1>8. FlattenSeq(out2) = FlattenSeq(out) \o p
  <2>1. NoneAfter(out, di) /\ Grown(out2, out, di, p, Byte)
    BY <1>1, <1>4
  <2>2. p \in Seq(Byte)
    BY <1>5
  <2>4. out \in Seq(Seq(Byte)) /\ di \in 1..Len(out)
    BY <1>1
  <2>3. FlatGrown(out2, out, p, Byte)
    BY <2>1, <2>2, <2>4, FlattenGrows
  <2> QED
    BY <2>3 DEF FlatGrown
<1>9. a + Len(p) <= src[si].size
  <2>1. a + Len(tmp) <= src[si].size
    BY <1>1 DEF Fits
  <2>2. src[si] \in Buf
    BY <1>1, ElementOfSeq
  <2>3. PICK z \in Nat : z = src[si].size
    BY <2>2 DEF Buf
  <2>4. PICK T \in Nat : T = Len(tmp) /\ n \in 0..T
    OBVIOUS
  <2>5. a + T <= z
    BY <2>1, <2>3, <2>4
  <2>6. a + n <= z
    BY <2>4, <2>5
  <2> QED
    BY <1>5, <2>3, <2>6
<1>10. SubSeq(AllBytes(src), 1, c) \o p = SubSeq(AllBytes(src), 1, w)
  <2>1. w = c + Len(p)
    BY <1>5 DEF Further
  <2>2. c = Place(src, si) + a
    BY <1>1
  <2>3. p \in Seq(Byte) /\ Carries(p, si, a) /\ w \in Nat
    BY <1>3, <1>5
  <2>4. Follows(p, src, si, a, c, w)
    BY <1>9, <2>1, <2>2, <2>3 DEF Follows
  <2>5. Completes(p, src, c, w)
    BY <2>4, NextInSource
  <2> QED
    BY <2>5 DEF Completes
<1>11. Len(out2[di]) = y
  <2>1. out[di] \in Seq(Byte)
    BY <1>1, ElementOfSeq
  <2>2. Len(out[di] \o p) = Len(out[di]) + Len(p)
    BY <2>1, <1>5, ConcatIs
  <2>3. Len(out[di]) = e
    BY <1>1
  <2> QED
    BY <1>5, <1>7, <2>2, <2>3 DEF Further
<1>12. NoneAfter(out2, di)
  <2>1. ASSUME NEW j \in 1..Len(out), j > di
        PROVE  out2[j] = <<>>
    <3>1. j # di
      BY <2>1
    <3> QED
      BY <1>1, <1>7, <2>1, <3>1 DEF NoneAfter
  <2> QED
    BY <1>7, <2>1 DEF NoneAfter
<1>13. w = Place(src, si) + x
  <2>1. PlacesRight(src)
    BY <1>1, Places
  <2>2. Place(src, si) \in Nat
    BY <1>1, <2>1 DEF PlacesRight
  <2>3. PICK P \in Nat : P = Place(src, si) /\ c = P + a
    BY <1>1, <2>2
  <2>4. w = P + x
    BY <1>3, <2>3 DEF Further
  <2> QED
    BY <2>3, <2>4
<1>14. At(src, si, x, di, y, w, q, tk, out2)
  <2>1. Fits(src, si, x + Len(q)) /\ Drawn(src, si, x + Len(q), tk)
    BY <1>1, <1>6
  <2>2. FlattenSeq(out2) = SubSeq(AllBytes(src), 1, w)
    BY <1>1, <1>8, <1>10
  <2>3. di \in 1..(Len(out2) + 1)
    BY <1>1, <1>7
  <2> QED
    BY <1>1, <1>3, <1>5, <1>7, <1>11, <1>12, <1>13, <2>1, <2>2, <2>3 DEF At
<1> QED
  BY <1>4, <1>14

\* An empty buffer carries on from anywhere.
LEMMA NothingCarries ==
    ASSUME NEW si, NEW a
    PROVE  <<>> \in Seq(Byte) /\ Len(<<>>) = 0 /\ Carries(<<>>, si, a)
  BY DEF Carries

\* A copy whose buffer is empty.
AtNone(src, si, a, di, e, c, tk, out) ==
    /\ tk \in Seq(Nat) /\ Len(tk) = Len(src) /\ Fits(src, si, a)
    /\ di <= Len(out) => Len(out[di]) = e
    /\ c = Place(src, si) + a
    /\ FlattenSeq(out) = SubSeq(AllBytes(src), 1, c)
    /\ NoneAfter(out, di) /\ Drawn(src, si, a, tk)

\* Where a copy with an empty buffer stands.
LEMMA AtEmpty ==
    ASSUME NEW src \in Seq(Buf), NEW si \in 1..(Len(src) + 1), NEW out \in Seq(Seq(Byte)), NEW di \in 1..(Len(out) + 1),
           NEW a \in Nat, NEW e \in Nat, NEW c \in Nat, NEW tk
    PROVE  At(src, si, a, di, e, c, <<>>, tk, out) <=> AtNone(src, si, a, di, e, c, tk, out)
<1>1. <<>> \in Seq(Byte) /\ Carries(<<>>, si, a)
  BY NothingCarries
<1>2. a + Len(<<>>) = a
  BY NothingCarries
<1> QED
  BY <1>1, <1>2 DEF At, AtNone

\* The source buffer is used up and there is another one.
LEMMA NextSource ==
    ASSUME NEW src \in Seq(Buf), NEW si \in 1..Len(src), NEW out \in Seq(Seq(Byte)), NEW di \in 1..Len(out),
           NEW a \in Nat, NEW e \in Nat, NEW c \in Nat, NEW tk,
           At(src, si, a, di, e, c, <<>>, tk, out), a = src[si].size, si # Len(src)
    PROVE  At(src, si + 1, 0, di, e, c, <<>>, tk, out)
<1>1. PICK L \in Nat : L = Len(src) /\ si \in 1..L /\ si # L
  OBVIOUS
<1>2. si \in 1..(Len(src) + 1) /\ si + 1 \in 1..(Len(src) + 1) /\ si + 1 \in 1..Len(src) /\ 0 \in Nat
  BY <1>1
<1>3. di \in 1..(Len(out) + 1)
  OBVIOUS
<1>4. /\ tk \in Seq(Nat) /\ Len(tk) = Len(src) /\ (di <= Len(out) => Len(out[di]) = e)
      /\ c = Place(src, si) + a /\ FlattenSeq(out) = SubSeq(AllBytes(src), 1, c)
      /\ NoneAfter(out, di) /\ Drawn(src, si, a, tk)
  <2>1. AtNone(src, si, a, di, e, c, tk, out)
    BY <1>2, <1>3, AtEmpty
  <2> QED
    BY <2>1 DEF AtNone
<1>5. PlacesRight(src)
  BY Places
<1>6. c = Place(src, si + 1) + 0
  <2>1. Place(src, si + 1) = Place(src, si) + src[si].size
    BY <1>5 DEF PlacesRight
  <2>2. c = Place(src, si + 1)
    BY <1>4, <2>1
  <2> QED
    BY <2>2
<1>7. Fits(src, si + 1, 0)
  <2>1. src[si + 1].size \in Nat
    BY <1>2, <1>5 DEF PlacesRight
  <2> QED
    BY <1>2, <2>1 DEF Fits
<1>8. Drawn(src, si + 1, 0, tk)
  <2>1. ASSUME NEW i \in 1..Len(src), src[i].kind = "stream"
        PROVE  tk[i] = IF i < si + 1 THEN src[i].size ELSE IF i = si + 1 THEN 0 ELSE 0
    <3>1. tk[i] = IF i < si THEN src[i].size ELSE IF i = si THEN a ELSE 0
      BY <1>4, <2>1 DEF Drawn
    <3>2. i < si + 1 <=> (i < si \/ i = si)
      BY <1>1
    <3> QED
      BY <3>1, <3>2
  <2> QED
    BY <2>1 DEF Drawn
<1>9. AtNone(src, si + 1, 0, di, e, c, tk, out)
  BY <1>4, <1>6, <1>7, <1>8 DEF AtNone
<1> QED
  BY <1>2, <1>3, <1>9, AtEmpty

\* The same of the destination.
LEMMA NextDestination ==
    ASSUME NEW src \in Seq(Buf), NEW si \in 1..Len(src), NEW out \in Seq(Seq(Byte)), NEW di \in 1..Len(out),
           NEW a \in Nat, NEW e \in Nat, NEW c \in Nat, NEW tk,
           At(src, si, a, di, e, c, <<>>, tk, out), di # Len(out)
    PROVE  At(src, si, a, di + 1, 0, c, <<>>, tk, out)
<1>1. PICK L \in Nat : L = Len(out) /\ di \in 1..L /\ di # L
  OBVIOUS
<1>2. di \in 1..(Len(out) + 1) /\ di + 1 \in 1..(Len(out) + 1) /\ di + 1 \in 1..Len(out) /\ 0 \in Nat
  BY <1>1
<1>3. si \in 1..(Len(src) + 1)
  OBVIOUS
<1>4. /\ tk \in Seq(Nat) /\ Len(tk) = Len(src) /\ Fits(src, si, a)
      /\ c = Place(src, si) + a /\ FlattenSeq(out) = SubSeq(AllBytes(src), 1, c)
      /\ NoneAfter(out, di) /\ Drawn(src, si, a, tk)
  <2>1. AtNone(src, si, a, di, e, c, tk, out)
    BY <1>2, <1>3, AtEmpty
  <2> QED
    BY <2>1 DEF AtNone
<1>5. out[di + 1] = <<>>
  <2>1. di + 1 > di
    BY <1>1
  <2> QED
    BY <1>2, <1>4, <2>1 DEF NoneAfter
<1>6. Len(out[di + 1]) = 0
  BY <1>5, NothingCarries
<1>7. NoneAfter(out, di + 1)
  <2>1. ASSUME NEW j \in 1..Len(out), j > di + 1
        PROVE  out[j] = <<>>
    <3>1. j > di
      BY <1>1, <2>1
    <3> QED
      BY <1>4, <3>1 DEF NoneAfter
  <2> QED
    BY <2>1 DEF NoneAfter
<1>9. AtNone(src, si, a, di + 1, 0, c, tk, out)
  BY <1>4, <1>6, <1>7 DEF AtNone
<1> QED
  BY <1>2, <1>3, <1>9, AtEmpty

\* Empty lists joined are empty.
LEMMA FlattenEmpty ==
    ASSUME NEW X, NEW v \in Seq(Seq(X)), \A i \in 1..Len(v) : v[i] = <<>>
    PROVE  FlattenSeq(v) = <<>>
<1>1. PICK L \in Nat : L = Len(v)
  OBVIOUS
<1>2. PICK g : Joins(g, v, X)
  BY JoinsExist
<1>3. g \in [0..L -> Seq(X)] /\ g[0] = <<>> /\ \A i \in 1..L : g[i] = g[i - 1] \o v[i]
  BY <1>1, <1>2 DEF Joins
<1> DEFINE P == {n \in Nat : n \in 0..L => g[n] = <<>>}
<1>4. 0 \in P
  BY <1>3
<1>5. ASSUME NEW n \in P
      PROVE  n + 1 \in P
  <2> SUFFICES ASSUME n + 1 \in 0..L
               PROVE  g[n + 1] = <<>>
    OBVIOUS
  <2>1. n + 1 \in 1..L /\ (n + 1) - 1 = n /\ n \in 0..L
    BY <1>1
  <2>2. g[n + 1] = g[n] \o v[n + 1]
    BY <1>3, <2>1
  <2>3. g[n] = <<>> /\ v[n + 1] = <<>>
    BY <1>1, <2>1
  <2>4. <<>> \o <<>> = <<>>
    OBVIOUS
  <2> QED
    BY <2>2, <2>3, <2>4
<1>6. P = Nat
  <2> HIDE DEF P
  <2>1. P \in SUBSET Nat
    BY DEF P
  <2> QED
    BY <1>4, <1>5, <2>1, AllNaturals
<1>7. g[L] = <<>>
  BY <1>1, <1>6
<1> QED
  BY <1>1, <1>2, <1>7, FlattenIs

-----------------------------------------------------------------------------
(***************************************************************************)
(* Counting the bytes of one source among those that have arrived.         *)
(***************************************************************************)
\* Every byte of a vector is one of its buffers'.
LEMMA InSomeBuffer ==
    ASSUME NEW src \in Seq(Buf), NEW k \in 1..Len(AllBytes(src))
    PROVE  \E j \in 1..Len(src) : /\ Place(src, j) < k /\ k <= Place(src, j + 1)
                                  /\ AllBytes(src)[k][1] = j
<1>1. PlacesRight(src)
  BY Places
<1>2. PICK L \in Nat : L = Len(src)
  OBVIOUS
<1>3. /\ Place(src, 1) = 0 /\ Len(AllBytes(src)) = Place(src, L + 1)
      /\ \A i \in 1..(L + 1) : Place(src, i) \in Nat
  BY <1>1, <1>2 DEF PlacesRight
<1>4. k \in Nat /\ 0 < k /\ k <= Place(src, L + 1)
  <2>1. L + 1 \in 1..(L + 1)
    BY <1>2
  <2> QED
    BY <1>3, <2>1
<1>5. L # 0
  BY <1>3, <1>4
<1> DEFINE T == {n \in Nat : n \in 1..L /\ k <= Place(src, n + 1)}
<1>6. T \in SUBSET Nat /\ L \in T
  BY <1>2, <1>4, <1>5
<1>7. PICK j \in T : \A n \in T : j <= n
  <2> HIDE DEF T
  <2> QED
    BY <1>6, LeastNatural
<1>8. j \in 1..L /\ k <= Place(src, j + 1)
  BY <1>7
<1>9. Place(src, j) < k
  <2>1. CASE j = 1
    BY <1>3, <1>4, <2>1
  <2>2. CASE j # 1
    <3>1. j - 1 \in 1..L /\ j - 1 \in Nat /\ (j - 1) + 1 = j /\ ~(j <= j - 1) /\ j \in 1..(L + 1)
      BY <1>2, <1>8, <2>2
    <3>2. j - 1 \notin T
      <4> HIDE DEF T
      <4> QED
        BY <1>7, <3>1
    <3>3. ~(k <= Place(src, j))
      BY <3>1, <3>2
    <3>4. Place(src, j) \in Nat
      BY <1>3, <3>1
    <3> QED
      BY <1>4, <3>3, <3>4
  <2> QED
    BY <2>1, <2>2
<1> HIDE DEF T
<1>10. AllBytes(src)[k][1] = j
  <2>1. src[j].size \in Nat /\ Place(src, j + 1) = Place(src, j) + src[j].size
    BY <1>1, <1>2, <1>8 DEF PlacesRight
  <2>2. j \in 1..(L + 1)
    BY <1>2, <1>8
  <2>3. PICK p \in Nat : p = Place(src, j)
    BY <1>3, <2>2
  <2>4. PICK z \in Nat : z = src[j].size
    BY <2>1
  <2>5. p < k /\ k <= p + z
    BY <1>8, <1>9, <2>1, <2>3, <2>4
  <2>6. k - p \in 1..z /\ p + (k - p) = k
    BY <1>4, <2>5
  <2>7. AllBytes(src)[Place(src, j) + (k - p)] = <<j, k - p>>
    BY <1>1, <1>2, <1>8, <2>4, <2>6 DEF PlacesRight
  <2>8. AllBytes(src)[k] = <<j, k - p>>
    BY <2>3, <2>6, <2>7
  <2> QED
    BY <2>8
<1> QED
  BY <1>2, <1>8, <1>9, <1>10

\* Those of buffer i are the ones from its place to the next.
LEMMA OfBuffer ==
    ASSUME NEW src \in Seq(Buf), NEW i \in 1..Len(src), NEW k \in 1..Len(AllBytes(src))
    PROVE  AllBytes(src)[k][1] = i <=> Place(src, i) < k /\ k <= Place(src, i + 1)
<1>1. PlacesRight(src)
  BY Places
<1>2. PICK L \in Nat : L = Len(src)
  OBVIOUS
<1>3. PICK j \in 1..L : /\ Place(src, j) < k /\ k <= Place(src, j + 1) /\ AllBytes(src)[k][1] = j
  BY <1>2, InSomeBuffer
<1>4. \A n \in 1..(L + 1) : Place(src, n) \in Nat
  BY <1>1, <1>2 DEF PlacesRight
<1>5. \A m, n \in 1..(L + 1) : m <= n => Place(src, m) <= Place(src, n)
  BY <1>1, <1>2 DEF PlacesRight
<1>6. /\ i \in 1..(L + 1) /\ i + 1 \in 1..(L + 1) /\ j \in 1..(L + 1) /\ j + 1 \in 1..(L + 1)
      /\ i \in Nat /\ j \in Nat
  BY <1>2, <1>3
<1>7. ASSUME Place(src, i) < k, k <= Place(src, i + 1)
      PROVE  i = j
  <2>1. CASE j < i
    <3>1. j + 1 <= i
      BY <1>6, <2>1
    <3>2. Place(src, j + 1) <= Place(src, i)
      BY <1>5, <1>6, <3>1
    <3>3. Place(src, j + 1) \in Nat /\ Place(src, i) \in Nat
      BY <1>4, <1>6
    <3> QED
      BY <1>3, <1>7, <3>2, <3>3
  <2>2. CASE i < j
    <3>1. i + 1 <= j
      BY <1>6, <2>2
    <3>2. Place(src, i + 1) <= Place(src, j)
      BY <1>5, <1>6, <3>1
    <3>3. Place(src, i + 1) \in Nat /\ Place(src, j) \in Nat
      BY <1>4, <1>6
    <3> QED
      BY <1>3, <1>7, <3>2, <3>3
  <2>3. j < i \/ i < j \/ i = j
    BY <1>6
  <2> QED
    BY <2>1, <2>2, <2>3
<1> QED
  BY <1>3, <1>7

\* How many of the first c bytes of a vector are buffer i's.
CountOf(src, c, i) == Cardinality({k \in 1..c : AllBytes(src)[k][1] = i})

\* They end where the buffer ends or the first c bytes do.
LEMMA CountIs ==
    ASSUME NEW src \in Seq(Buf), NEW i \in 1..Len(src), NEW c \in 0..Len(AllBytes(src)), NEW m \in Nat,
           m = MinOf(c, Place(src, i + 1))
    PROVE  CountOf(src, c, i) = IF Place(src, i) + 1 > m THEN 0 ELSE m - Place(src, i)
<1>1. PlacesRight(src)
  BY Places
<1>2. PICK L \in Nat : L = Len(src)
  OBVIOUS
<1>3. PICK p \in Nat, u \in Nat : p = Place(src, i) /\ u = Place(src, i + 1)
  <2>1. i \in 1..(L + 1) /\ i + 1 \in 1..(L + 1)
    BY <1>2
  <2> QED
    BY <1>1, <1>2, <2>1 DEF PlacesRight
<1>4. PICK N \in Nat : N = Len(AllBytes(src)) /\ c \in 0..N
  <2>1. AllBytes(src) \in Seq(Byte)
    BY <1>1 DEF PlacesRight
  <2> QED
    BY <2>1
<1>5. m = IF c < u THEN c ELSE u
  BY <1>3 DEF MinOf
<1>6. ASSUME NEW k \in 1..c
      PROVE  AllBytes(src)[k][1] = i <=> k \in (p + 1)..m
  <2>1. k \in 1..Len(AllBytes(src))
    BY <1>4
  <2>2. AllBytes(src)[k][1] = i <=> p < k /\ k <= u
    BY <1>3, <2>1, OfBuffer
  <2>3. p < k /\ k <= u <=> k \in (p + 1)..m
    BY <1>3, <1>4, <1>5
  <2> QED
    BY <2>2, <2>3
<1>7. \A k \in (p + 1)..m : k \in 1..c
  BY <1>3, <1>4, <1>5
<1>8. {k \in 1..c : AllBytes(src)[k][1] = i} = (p + 1)..m
  BY <1>6, <1>7
<1>9. Cardinality((p + 1)..m) = IF p + 1 > m THEN 0 ELSE m - (p + 1) + 1
  <2>1. p + 1 \in Int /\ m \in Int
    BY <1>3
  <2> QED
    BY <2>1, FS_Interval
<1>10. m - (p + 1) + 1 = m - p
  BY <1>3
<1> QED
  BY <1>3, <1>8, <1>9, <1>10 DEF CountOf

\* What has arrived is no more than there is.
LEMMA ArrivedInside ==
    ASSUME NEW src \in Seq(Buf), NEW si \in 1..(Len(src) + 1), NEW a \in Nat, NEW c \in Nat,
           Fits(src, si, a), c = Place(src, si) + a
    PROVE  c \in 0..Len(AllBytes(src))
<1>1. PlacesRight(src)
  BY Places
<1>2. PICK L \in Nat : L = Len(src)
  OBVIOUS
<1>3. L + 1 \in 1..(L + 1) /\ si \in 1..(L + 1)
  BY <1>2
<1>4. Len(AllBytes(src)) = Place(src, L + 1) /\ Place(src, L + 1) \in Nat /\ Place(src, si) \in Nat
  BY <1>1, <1>2, <1>3 DEF PlacesRight
<1>5. CASE si <= L
  <2>1. si \in 1..L /\ si + 1 \in 1..(L + 1) /\ si + 1 <= L + 1
    BY <1>2, <1>5
  <2>2. /\ Place(src, si + 1) = Place(src, si) + src[si].size /\ src[si].size \in Nat
        /\ Place(src, si + 1) <= Place(src, L + 1)
    BY <1>1, <1>2, <1>3, <2>1 DEF PlacesRight
  <2>3. a <= src[si].size
    BY <1>2, <1>5 DEF Fits
  <2>4. PICK p \in Nat, z \in Nat, u \in Nat : p = Place(src, si) /\ z = src[si].size /\ u = Place(src, L + 1)
    BY <1>4, <2>2
  <2>5. p + z <= u /\ a <= z /\ c = p + a
    BY <2>2, <2>3, <2>4
  <2>6. c <= u
    <3>1. p + a <= p + z
      BY <2>5
    <3>2. p + a \in Nat /\ p + z \in Nat
      OBVIOUS
    <3> QED
      BY <2>5, <3>1, <3>2
  <2> QED
    BY <1>4, <2>4, <2>6
<1>6. CASE ~(si <= L)
  <2>1. si = L + 1
    BY <1>2, <1>6
  <2>2. a = 0
    BY <1>2, <1>6 DEF Fits
  <2> QED
    BY <1>4, <2>1, <2>2
<1> QED
  BY <1>5, <1>6

\* Arithmetic of counts.
LEMMA CountOfLength ==
    ASSUME NEW p \in Nat, NEW n \in Nat, NEW m, m = p + n
    PROVE  (IF p + 1 > m THEN 0 ELSE m - p) = n
  OBVIOUS

\* What was taken of source i is what has arrived of it.
Accounted(tk, out, i) == tk[i] = Cardinality({k \in DOMAIN FlattenSeq(out) : FlattenSeq(out)[k][1] = i})

\* A source without a position has lost what has arrived of it, and no more.
LEMMA NoneLost ==
    ASSUME NEW src \in Seq(Buf), NEW si \in 1..(Len(src) + 1), NEW a \in Nat, NEW c \in Nat,
           NEW di, NEW e, NEW tk, NEW out, AtNone(src, si, a, di, e, c, tk, out),
           NEW i \in 1..Len(src), src[i].kind = "stream"
    PROVE  Accounted(tk, out, i)
<1>1. PlacesRight(src)
  BY Places
<1>2. PICK L \in Nat : L = Len(src)
  OBVIOUS
<1>3. /\ Fits(src, si, a) /\ c = Place(src, si) + a /\ Drawn(src, si, a, tk)
      /\ FlattenSeq(out) = SubSeq(AllBytes(src), 1, c)
  BY DEF AtNone
<1>4. c \in 0..Len(AllBytes(src)) /\ AllBytes(src) \in Seq(Byte)
  <2>1. AllBytes(src) \in Seq(Byte)
    BY <1>1 DEF PlacesRight
  <2>2. c \in 0..Len(AllBytes(src))
    BY <1>3, ArrivedInside
  <2> QED
    BY <2>1, <2>2
<1>5. {k \in DOMAIN FlattenSeq(out) : FlattenSeq(out)[k][1] = i} = {k \in 1..c : AllBytes(src)[k][1] = i}
  <2>1. PICK f \in Seq(Byte) : f = FlattenSeq(out) /\ Len(f) = c /\ \A k \in 1..c : f[k] = AllBytes(src)[k]
    <3>1. /\ SubSeq(AllBytes(src), 1, c) \in Seq(Byte) /\ Len(SubSeq(AllBytes(src), 1, c)) = c
          /\ \A k \in 1..c : SubSeq(AllBytes(src), 1, c)[k] = AllBytes(src)[k]
      BY <1>4, PrefixIs
    <3> QED
      BY <1>3, <3>1
  <2>2. DOMAIN f = 1..c
    BY <2>1
  <2> QED
    BY <2>1, <2>2
<1>6. tk[i] = IF i < si THEN src[i].size ELSE IF i = si THEN a ELSE 0
  BY <1>3 DEF Drawn
<1>7. /\ i \in 1..(L + 1) /\ i + 1 \in 1..(L + 1) /\ si \in 1..(L + 1) /\ i \in Nat /\ si \in Nat
  BY <1>2
<1>8. PICK p \in Nat, u \in Nat, z \in Nat, s \in Nat :
         p = Place(src, i) /\ u = Place(src, i + 1) /\ z = src[i].size /\ s = Place(src, si)
  <2>1. Place(src, i) \in Nat /\ Place(src, i + 1) \in Nat /\ src[i].size \in Nat /\ Place(src, si) \in Nat
    BY <1>1, <1>2, <1>7 DEF PlacesRight
  <2> QED
    BY <2>1
<1>a. u = p + z
  <2>1. Place(src, i + 1) = Place(src, i) + src[i].size
    BY <1>1, <1>2 DEF PlacesRight
  <2> QED
    BY <1>8, <2>1
<1>9. PICK m \in Nat : m = MinOf(c, Place(src, i + 1))
  BY <1>8 DEF MinOf
<1>b. m = (IF c < u THEN c ELSE u)
  BY <1>8, <1>9 DEF MinOf
<1>10. CountOf(src, c, i) = IF p + 1 > m THEN 0 ELSE m - p
  <2>1. CountOf(src, c, i) = IF Place(src, i) + 1 > m THEN 0 ELSE m - Place(src, i)
    BY <1>4, <1>9, CountIs
  <2> QED
    BY <1>8, <2>1
<1>11. c = s + a
  BY <1>3, <1>8
<1>12. \A j, n \in 1..(L + 1) : j <= n => Place(src, j) <= Place(src, n)
  BY <1>1, <1>2 DEF PlacesRight
<1>13. CountOf(src, c, i) = tk[i]
  <2>1. CASE i < si
    <3>1. i + 1 <= si
      BY <1>7, <2>1
    <3>2. u <= s
      BY <1>7, <1>8, <1>12, <3>1
    <3>3. m = p + z
      BY <1>a, <1>b, <1>11, <3>2
    <3>4. (IF p + 1 > m THEN 0 ELSE m - p) = z
      BY <3>3, CountOfLength
    <3> QED
      BY <1>6, <1>8, <1>10, <2>1, <3>4
  <2>2. CASE i = si
    <3>1. p = s /\ a <= z
      <4>1. i <= Len(src)
        BY <1>2
      <4> QED
        BY <1>3, <1>8, <2>2, <4>1 DEF Fits
    <3>2. m = p + a
      <4>1. c = p + a
        BY <1>11, <3>1
      <4>2. c <= u
        BY <1>a, <3>1, <4>1
      <4> QED
        BY <1>b, <4>1, <4>2
    <3>3. (IF p + 1 > m THEN 0 ELSE m - p) = a
      BY <3>2, CountOfLength
    <3> QED
      BY <1>6, <1>7, <1>10, <2>2, <3>3
  <2>3. CASE si < i
    <3>1. si + 1 <= i /\ si + 1 \in 1..(L + 1) /\ si \in 1..L
      BY <1>2, <1>7, <2>3
    <3>2. Place(src, si + 1) = Place(src, si) + src[si].size /\ src[si].size \in Nat
      BY <1>1, <1>2, <3>1 DEF PlacesRight
    <3>3. PICK y \in Nat : y = src[si].size /\ Place(src, si + 1) = s + y /\ a <= y
      <4>1. a <= src[si].size
        BY <1>2, <1>3, <3>1 DEF Fits
      <4> QED
        BY <1>8, <3>2, <4>1
    <3>4. s + y <= p
      BY <1>7, <1>8, <1>12, <3>1, <3>3
    <3>5. p + 1 > m
      <4>1. a <= y
        BY <3>3
      <4>2. c <= p
        BY <1>11, <3>4, <4>1
      <4>3. m <= c
        BY <1>b
      <4> QED
        BY <4>2, <4>3
    <3>6. ~(i < si) /\ i # si
      BY <1>7, <2>3
    <3> QED
      BY <1>6, <1>10, <3>5, <3>6
  <2> QED
    BY <1>7, <2>1, <2>2, <2>3
<1> QED
  BY <1>5, <1>13 DEF CountOf, Accounted

-----------------------------------------------------------------------------
(***************************************************************************)
(* The inductive invariant.                                                *)
(***************************************************************************)
\* The states with a system call next, outside and inside fd_to_fd.
Calls == {"write", "read", "splice"}
TmpCalls == {"tmp_read", "tmp_write"}
Modes == {"splice", "force", "no_splice"}

\* The type of a call's state.
BufRec ==
    [pc : {"loop", "return"} \cup Calls \cup TmpCalls, src : Seq(Buf), dst : Seq(Buf), mode : Modes,
     sidx : Nat, soff : Nat, didx : Nat, doff : Nat, copied : Nat, result : Int, len : Nat, moved : Nat,
     tmp : Seq(Byte), asked : Nat, taken : Seq(Nat), out : Seq(Seq(Byte)), viaTmp : BOOLEAN]

\* The copy stands r bytes behind where its current round began.
Here(b, r) ==
    /\ At(b.src, b.sidx, b.soff + r, b.didx, b.doff + r, b.copied + r, b.tmp, b.taken, b.out)
    /\ Len(b.out) = Len(b.dst)
    /\ b.didx <= Len(b.dst) => b.doff + r <= b.dst[b.didx].size

\* What a call leaves behind.
Done(b) ==
    /\ FlattenSeq(b.out) = IF b.result < 0 THEN <<>> ELSE SubSeq(AllBytes(b.src), 1, b.result)
    /\ ~b.viaTmp =>
         \A i \in DOMAIN b.src : b.src[i].kind = "stream" =>
            Accounted(b.taken, b.out, i)

\* A round is under way.
Active(b) ==
    /\ b.sidx <= Len(b.src) /\ b.didx <= Len(b.dst)
    /\ b.moved <= b.len /\ b.soff + b.len <= b.src[b.sidx].size
    /\ b.doff + b.len <= b.dst[b.didx].size
    /\ Here(b, b.moved)

\* Between system calls what has arrived and what lies in fd_to_fd's buffer are the bytes before
\* the source's position, in order, and every position is inside its buffer: only then do a short
\* call and its retry carry on at the right byte, and is nothing counted that did not arrive.
CopyInv(b) ==
    /\ b \in BufRec
    /\ b.pc = "loop" => Here(b, 0)
    /\ b.pc \in Calls \cup TmpCalls => Active(b)
    /\ b.pc \in Calls \cup {"loop"} => b.tmp = <<>>
    /\ b.pc \in TmpCalls => b.viaTmp = TRUE
    /\ b.pc = "tmp_read" => Len(b.tmp) <= TmpSize /\ b.moved + Len(b.tmp) <= b.len
    /\ b.pc = "tmp_write" => Len(b.tmp) <= b.asked /\ b.moved + b.asked <= b.len
    /\ b.pc = "return" => Done(b)

\* r is b when it returns: with what has arrived, or with an error if that is nothing.
Reports(r, b, res) ==
    /\ r.src = b.src /\ r.out = b.out /\ r.taken = b.taken /\ r.viaTmp = b.viaTmp
    /\ r.result = b.copied + res \/ (r.result < 0 /\ b.copied + res = 0)

\* A copy that ends where it stands.
LEMMA Finishes ==
    ASSUME NEW b \in BufRec, NEW res \in Nat, Here(b, res), b.tmp = <<>> \/ b.viaTmp = TRUE,
           NEW r \in BufRec, Reports(r, b, res)
    PROVE  Done(r)
<1>1. PICK src \in Seq(Buf), out \in Seq(Seq(Byte)), si \in Nat, di \in Nat, tk \in Seq(Nat), tmp \in Seq(Byte) :
         src = b.src /\ out = b.out /\ si = b.sidx /\ di = b.didx /\ tk = b.taken /\ tmp = b.tmp
  BY DEF BufRec
<1>2. PICK a \in Nat, e \in Nat, c \in Nat : a = b.soff + res /\ e = b.doff + res /\ c = b.copied + res
  <2>1. PICK so \in Nat, dn \in Nat, cp \in Nat : so = b.soff /\ dn = b.doff /\ cp = b.copied
    BY DEF BufRec
  <2>2. PICK a \in Nat : a = so + res
    OBVIOUS
  <2>3. PICK e \in Nat : e = dn + res
    OBVIOUS
  <2>4. PICK c \in Nat : c = cp + res
    OBVIOUS
  <2> QED
    BY <2>1, <2>2, <2>3, <2>4
<1>3. At(src, si, a, di, e, c, tmp, tk, out)
  BY <1>1, <1>2 DEF Here
<1>4. si \in 1..(Len(src) + 1) /\ di \in 1..(Len(out) + 1) /\ FlattenSeq(out) = SubSeq(AllBytes(src), 1, c)
  BY <1>3 DEF At
<1>5. r.src = src /\ r.out = out /\ r.taken = tk /\ r.viaTmp = b.viaTmp
  BY <1>1 DEF Reports
<1>6. FlattenSeq(out) = IF r.result < 0 THEN <<>> ELSE SubSeq(AllBytes(src), 1, r.result)
  <2>1. CASE r.result = c
    <3>1. ~(r.result < 0)
      BY <2>1
    <3> QED
      BY <1>4, <2>1, <3>1
  <2>2. CASE r.result < 0 /\ c = 0
    <3>1. AllBytes(src) \in Seq(Byte)
      BY Places DEF PlacesRight
    <3>2. 0 \in 0..Len(AllBytes(src))
      BY <3>1
    <3>3. SubSeq(AllBytes(src), 1, 0) \in Seq(Byte) /\ Len(SubSeq(AllBytes(src), 1, 0)) = 0
      BY <3>1, <3>2, PrefixIs
    <3>4. SubSeq(AllBytes(src), 1, 0) = <<>>
      BY <3>3, EmptySeq
    <3> QED
      BY <1>4, <2>2, <3>4
  <2> QED
    BY <1>2, <2>1, <2>2 DEF Reports
<1>7. ASSUME b.tmp = <<>>, NEW i \in 1..Len(src), src[i].kind = "stream"
      PROVE  Accounted(tk, out, i)
  <2>1. At(src, si, a, di, e, c, <<>>, tk, out)
    BY <1>1, <1>3, <1>7
  <2>2. AtNone(src, si, a, di, e, c, tk, out)
    BY <1>4, <2>1, AtEmpty
  <2> QED
    BY <1>4, <1>7, <2>2, NoneLost
<1>8. r.viaTmp = FALSE \/ r.viaTmp = TRUE
  BY DEF BufRec
<1>9. ~r.viaTmp => b.tmp = <<>>
  BY <1>5, <1>8
<1>10. DOMAIN src = 1..Len(src)
  OBVIOUS
<1> QED
  BY <1>5, <1>6, <1>7, <1>9, <1>10 DEF Done

-----------------------------------------------------------------------------
(***************************************************************************)
(* The end of a round.                                                     *)
(***************************************************************************)
\* What the end of a round leaves alone.
Keeps(r, b) ==
    /\ r.src = b.src /\ r.dst = b.dst /\ r.out = b.out /\ r.taken = b.taken /\ r.viaTmp = b.viaTmp
    /\ r.tmp = b.tmp

\* The source's position and the count are set, the destination's position, the result.
SetSource(r, b, cp, si, so) == r = [b EXCEPT !.copied = cp, !.sidx = si, !.soff = so]
SourceIs(r, b, cp, si, so) ==
    /\ r \in BufRec /\ Keeps(r, b) /\ r.copied = cp /\ r.sidx = si /\ r.soff = so
    /\ r.didx = b.didx /\ r.doff = b.doff
SetDestination(r, b, di, dn) == r = [b EXCEPT !.didx = di, !.doff = dn]
DestinationIs(r, b, di, dn) ==
    /\ r \in BufRec /\ Keeps(r, b) /\ r.copied = b.copied /\ r.sidx = b.sidx /\ r.soff = b.soff
    /\ r.didx = di /\ r.doff = dn
SetReturn(r, b, x) == r = [b EXCEPT !.pc = "return", !.result = x]
ReturnIs(r, b, x) == r \in BufRec /\ Keeps(r, b) /\ r.pc = "return" /\ r.result = x

\* What setting the source's position and the count leaves alone.
LEMMA SourceSet ==
    ASSUME NEW b \in BufRec, NEW cp \in Nat, NEW si \in Nat, NEW so \in Nat, NEW r, SetSource(r, b, cp, si, so)
    PROVE  SourceIs(r, b, cp, si, so)
  BY DEF BufRec, Keeps, SetSource, SourceIs

\* What setting the destination's position leaves alone.
LEMMA DestinationSet ==
    ASSUME NEW b \in BufRec, NEW di \in Nat, NEW dn \in Nat, NEW r, SetDestination(r, b, di, dn)
    PROVE  DestinationIs(r, b, di, dn)
  BY DEF BufRec, Keeps, SetDestination, DestinationIs

\* What setting the result leaves alone.
LEMMA ReturnSet ==
    ASSUME NEW b \in BufRec, NEW x \in Int, NEW r, SetReturn(r, b, x)
    PROVE  ReturnIs(r, b, x)
  BY DEF BufRec, Keeps, SetReturn, ReturnIs

\* What going back to the head of the loop leaves alone.
LEMMA LoopSet ==
    ASSUME NEW b \in BufRec, NEW r, r = [b EXCEPT !.pc = "loop"]
    PROVE  /\ r \in BufRec /\ Keeps(r, b) /\ r.pc = "loop"
           /\ r.copied = b.copied /\ r.sidx = b.sidx /\ r.soff = b.soff /\ r.didx = b.didx /\ r.doff = b.doff
  BY DEF BufRec, Keeps

\* Leaving alone is transitive.
LEMMA KeepsOn ==
    ASSUME NEW a, NEW b, NEW c, Keeps(b, a), Keeps(c, b)
    PROVE  Keeps(c, a)
  BY DEF Keeps

\* A copy that has returned.
LEMMA Returned ==
    ASSUME NEW r \in BufRec, r.pc = "return", Done(r)
    PROVE  CopyInv(r)
  BY DEF CopyInv, Calls, TmpCalls

\* fuse_bufvec_advance.
AdvancedTo(s, idx, off, n, v) ==
    /\ s.idx \in Nat /\ s.off \in Nat /\ s.done \in BOOLEAN
    /\ off + n = v[idx].size =>
          s.idx = idx + 1 /\ (s.done <=> idx = Len(v)) /\ (idx # Len(v) => s.off = 0)
    /\ off + n # v[idx].size => s.idx = idx /\ s.off = off + n /\ ~s.done

\* Advancing a position goes to the next buffer exactly when this one is used up.
LEMMA AdvancedIs ==
    ASSUME NEW idx \in Nat, NEW off \in Nat, NEW n \in Nat, NEW v
    PROVE  AdvancedTo(Advanced(idx, off, n, v), idx, off, n, v)
<1>0. PICK s : s = Advanced(idx, off, n, v)
  OBVIOUS
<1>1. CASE off + n = v[idx].size
  <2>1. s = [idx |-> idx + 1, off |-> IF idx = Len(v) THEN off + n ELSE 0, done |-> idx = Len(v)]
    BY <1>0, <1>1 DEF Advanced
  <2>2. s.idx = idx + 1 /\ s.off = IF idx = Len(v) THEN off + n ELSE 0
    BY <2>1
  <2>3. s.done = (idx = Len(v))
    BY <2>1, Zenon
  <2>4. s.done \in BOOLEAN /\ (s.done <=> idx = Len(v))
    BY <2>3
  <2>5. s.idx \in Nat /\ s.off \in Nat /\ (idx # Len(v) => s.off = 0)
    BY <2>2
  <2> QED
    BY <1>0, <1>1, <2>2, <2>4, <2>5 DEF AdvancedTo
<1>2. CASE off + n # v[idx].size
  <2>1. s = [idx |-> idx, off |-> off + n, done |-> FALSE]
    BY <1>0, <1>2 DEF Advanced
  <2>2. s.idx = idx /\ s.off = off + n /\ s.done = FALSE
    BY <2>1
  <2>3. s.done \in BOOLEAN /\ ~s.done
    BY <2>2
  <2>4. s.idx \in Nat /\ s.off \in Nat
    BY <2>2
  <2> QED
    BY <1>0, <1>2, <2>2, <2>3, <2>4 DEF AdvancedTo
<1> QED
  BY <1>1, <1>2

\* The bytes of a round are counted and both vectors advanced: the copy goes on where it stands
\* or reports what has arrived.
LEMMA CopiedRight ==
    ASSUME NEW b \in BufRec, b.sidx <= Len(b.src), b.didx <= Len(b.dst), NEW res \in Nat, Here(b, res),
           b.tmp = <<>> \/ b.viaTmp = TRUE, res >= b.len => b.tmp = <<>>
    PROVE  CopyInv(Copied1(b, res))
<1>1. PICK s, d : s = Advanced(b.sidx, b.soff, res, b.src) /\ d = Advanced(b.didx, b.doff, res, b.dst)
  OBVIOUS
<1>2. PICK src \in Seq(Buf), out \in Seq(Seq(Byte)), si \in Nat, di \in Nat, tk \in Seq(Nat), tmp \in Seq(Byte) :
         src = b.src /\ out = b.out /\ si = b.sidx /\ di = b.didx /\ tk = b.taken /\ tmp = b.tmp
  BY DEF BufRec
<1>3. PICK so \in Nat, dn \in Nat, cp \in Nat : so = b.soff /\ dn = b.doff /\ cp = b.copied
  BY DEF BufRec
<1>4. PICK a \in Nat, e \in Nat, c \in Nat : a = so + res /\ e = dn + res /\ c = cp + res
  <2>1. so + res \in Nat /\ dn + res \in Nat /\ cp + res \in Nat
    OBVIOUS
  <2> QED
    BY <2>1
<1>5. At(src, si, a, di, e, c, tmp, tk, out) /\ Len(out) = Len(b.dst)
  BY <1>2, <1>3, <1>4 DEF Here
<1>6. si \in 1..Len(src) /\ di \in 1..Len(out)
  <2>1. si \in 1..(Len(src) + 1) /\ di \in 1..(Len(out) + 1)
    BY <1>5 DEF At
  <2>2. si <= Len(src) /\ di <= Len(out)
    BY <1>2, <1>5
  <2> QED
    BY <2>1, <2>2
<1>7. /\ s.idx \in Nat /\ s.off \in Nat /\ s.done \in BOOLEAN
      /\ so + res = src[si].size =>
            s.idx = si + 1 /\ (s.done <=> si = Len(src)) /\ (si # Len(src) => s.off = 0)
      /\ so + res # src[si].size => s.idx = si /\ s.off = so + res /\ ~s.done
  <2>1. AdvancedTo(s, si, so, res, src)
    BY <1>1, <1>2, <1>3, AdvancedIs
  <2> QED
    BY <2>1 DEF AdvancedTo
<1>8. /\ d.idx \in Nat /\ d.off \in Nat /\ d.done \in BOOLEAN
      /\ dn + res = b.dst[di].size =>
            d.idx = di + 1 /\ (d.done <=> di = Len(b.dst)) /\ (di # Len(b.dst) => d.off = 0)
      /\ dn + res # b.dst[di].size => d.idx = di /\ d.off = dn + res /\ ~d.done
  <2>1. AdvancedTo(d, di, dn, res, b.dst)
    BY <1>1, <1>2, <1>3, AdvancedIs
  <2> QED
    BY <2>1 DEF AdvancedTo
<1>9. PICK b1 : b1 = [b EXCEPT !.copied = c, !.sidx = s.idx, !.soff = s.off]
  OBVIOUS
<1>10. PICK b2 : b2 = [b1 EXCEPT !.didx = d.idx, !.doff = d.off]
  OBVIOUS
<1>11. /\ b1 \in BufRec /\ Keeps(b1, b) /\ b1.copied = c /\ b1.sidx = s.idx /\ b1.soff = s.off
       /\ b1.didx = b.didx /\ b1.doff = b.doff
  <2>1. SetSource(b1, b, c, s.idx, s.off)
    BY <1>9 DEF SetSource
  <2>2. SourceIs(b1, b, c, s.idx, s.off)
    BY <1>7, <2>1, SourceSet
  <2> QED
    BY <2>2 DEF SourceIs
<1>12. /\ b2 \in BufRec /\ Keeps(b2, b1) /\ b2.copied = b1.copied /\ b2.sidx = b1.sidx /\ b2.soff = b1.soff
       /\ b2.didx = d.idx /\ b2.doff = d.off
  <2>1. SetDestination(b2, b1, d.idx, d.off)
    BY <1>10 DEF SetDestination
  <2>2. DestinationIs(b2, b1, d.idx, d.off)
    BY <1>8, <1>11, <2>1, DestinationSet
  <2> QED
    BY <2>2 DEF DestinationIs
<1>13. Copied1(b, res) =
         CASE s.done -> [b1 EXCEPT !.pc = "return", !.result = b1.copied]
           [] ~s.done /\ (d.done \/ res < b.len) -> [b2 EXCEPT !.pc = "return", !.result = b2.copied]
           [] ~s.done /\ ~d.done /\ res >= b.len -> [b2 EXCEPT !.pc = "loop"]
  <2>1. b1 = [b EXCEPT !.copied = b.copied + res, !.sidx = s.idx, !.soff = s.off]
    BY <1>3, <1>4, <1>9
  <2> QED
    BY <1>1, <1>10, <2>1 DEF Copied1
<1>14. ASSUME NEW b0 \in BufRec, Keeps(b0, b), b0.copied = c
       PROVE  CopyInv([b0 EXCEPT !.pc = "return", !.result = b0.copied])
  <2>1. PICK r : r = [b0 EXCEPT !.pc = "return", !.result = c]
    OBVIOUS
  <2>2. r \in BufRec /\ Keeps(r, b0) /\ r.pc = "return" /\ r.result = c
    <3>1. SetReturn(r, b0, c)
      BY <2>1 DEF SetReturn
    <3>2. ReturnIs(r, b0, c)
      BY <3>1, ReturnSet
    <3> QED
      BY <3>2 DEF ReturnIs
  <2>3. Keeps(r, b)
    BY <1>14, <2>2, KeepsOn
  <2>4. Reports(r, b, res)
    BY <1>3, <1>4, <2>2, <2>3 DEF Keeps, Reports
  <2>5. Done(r)
    BY <2>2, <2>4, Finishes
  <2>6. CopyInv(r)
    BY <2>2, <2>5, Returned
  <2> QED
    BY <1>14, <2>1, <2>6
<1>15. CASE s.done
  <2>1. Copied1(b, res) = [b1 EXCEPT !.pc = "return", !.result = b1.copied]
    BY <1>13, <1>15
  <2> QED
    BY <1>11, <1>14, <2>1
<1>16. CASE ~s.done /\ (d.done \/ res < b.len)
  <2>0. ~(~s.done /\ ~d.done /\ res >= b.len)
    <3>1. b.len \in Nat
      BY DEF BufRec
    <3>2. CASE d.done
      BY <3>2
    <3>3. CASE res < b.len
      BY <3>1, <3>3
    <3> QED
      BY <1>16, <3>2, <3>3
  <2>1. Copied1(b, res) = [b2 EXCEPT !.pc = "return", !.result = b2.copied]
    BY <1>13, <1>16, <2>0
  <2>2. Keeps(b2, b) /\ b2.copied = c
    BY <1>11, <1>12, KeepsOn
  <2> QED
    BY <1>12, <1>14, <2>1, <2>2
<1>17. CASE ~s.done /\ ~d.done /\ res >= b.len
  <2>1. Copied1(b, res) = [b2 EXCEPT !.pc = "loop"]
    BY <1>13, <1>17
  <2>2. PICK r : r = [b2 EXCEPT !.pc = "loop"]
    OBVIOUS
  <2>3. /\ r \in BufRec /\ Keeps(r, b2) /\ r.pc = "loop"
        /\ r.copied = b2.copied /\ r.sidx = b2.sidx /\ r.soff = b2.soff /\ r.didx = b2.didx /\ r.doff = b2.doff
    BY <1>12, <2>2, LoopSet
  <2>4. Keeps(r, b)
    BY <1>11, <1>12, <2>3, KeepsOn
  <2>5. tmp = <<>>
    BY <1>2, <1>17
  <2>6. At(src, s.idx, s.off, di, e, c, <<>>, tk, out) /\ s.idx \in 1..Len(src)
    <3>1. At(src, si, a, di, e, c, <<>>, tk, out)
      BY <1>5, <2>5
    <3>2. CASE so + res = src[si].size
      <4>1. s.idx = si + 1 /\ si # Len(src) /\ s.off = 0
        BY <1>7, <1>17, <3>2
      <4>2. a = src[si].size
        BY <1>4, <3>2
      <4>3. At(src, si + 1, 0, di, e, c, <<>>, tk, out)
        BY <1>6, <3>1, <4>1, <4>2, NextSource
      <4>4. si + 1 \in 1..Len(src)
        BY <1>6, <4>1
      <4> QED
        BY <4>1, <4>3, <4>4
    <3>3. CASE so + res # src[si].size
      <4>1. s.idx = si /\ s.off = a
        BY <1>4, <1>7, <3>3
      <4> QED
        BY <1>6, <3>1, <4>1
    <3> QED
      BY <3>2, <3>3
  <2>7. At(src, s.idx, s.off, d.idx, d.off, c, <<>>, tk, out)
    <3>1. CASE dn + res = b.dst[di].size
      <4>1. d.idx = di + 1 /\ di # Len(out) /\ d.off = 0
        BY <1>5, <1>8, <1>17, <3>1
      <4>2. At(src, s.idx, s.off, di + 1, 0, c, <<>>, tk, out)
        BY <1>6, <1>7, <2>6, <4>1, NextDestination
      <4> QED
        BY <4>1, <4>2
    <3>2. CASE dn + res # b.dst[di].size
      <4>1. d.idx = di /\ d.off = e
        BY <1>4, <1>8, <3>2
      <4> QED
        BY <2>6, <4>1
    <3> QED
      BY <3>1, <3>2
  <2>8. /\ r.src = src /\ r.out = out /\ r.taken = tk /\ r.tmp = <<>> /\ r.dst = b.dst
        /\ r.sidx = s.idx /\ r.soff = s.off /\ r.didx = d.idx /\ r.doff = d.off /\ r.copied = c
    BY <1>2, <1>11, <1>12, <2>3, <2>4, <2>5 DEF Keeps
  <2>9. r.soff + 0 = s.off /\ r.doff + 0 = d.off /\ r.copied + 0 = c
    <3>1. PICK x \in Nat, y \in Nat : x = s.off /\ y = d.off
      BY <1>7, <1>8
    <3>2. x + 0 = x /\ y + 0 = y /\ c + 0 = c
      OBVIOUS
    <3>3. r.soff = x /\ r.doff = y /\ r.copied = c
      BY <2>8, <3>1
    <3> QED
      BY <3>1, <3>2, <3>3
  <2>10. Here(r, 0)
    <3>1. ASSUME d.idx <= Len(b.dst)
          PROVE  d.off <= b.dst[d.idx].size
      <4>0. b.dst \in Seq(Buf) /\ di \in 1..Len(b.dst)
        BY <1>5, <1>6 DEF BufRec
      <4>1. CASE dn + res = b.dst[di].size
        <5>1. d.idx = di + 1 /\ d.off = 0
          BY <1>8, <1>17, <4>1
        <5>2. d.idx \in 1..Len(b.dst)
          BY <3>1, <4>0, <5>1
        <5>3. b.dst[d.idx] \in Buf
          BY <4>0, <5>2, ElementOfSeq
        <5>4. b.dst[d.idx].size \in Nat
          BY <5>3 DEF Buf
        <5> QED
          BY <5>1, <5>4
      <4>2. CASE dn + res # b.dst[di].size
        <5>1. d.idx = di /\ d.off = dn + res
          BY <1>8, <4>2
        <5>2. dn + res <= b.dst[di].size
          BY <1>2, <1>3, <1>5, <1>6 DEF Here
        <5> QED
          BY <5>1, <5>2
      <4> QED
        BY <4>1, <4>2
    <3>2. r.didx <= Len(r.dst) => r.doff + 0 <= r.dst[r.didx].size
      BY <2>8, <2>9, <3>1
    <3> QED
      BY <1>5, <2>7, <2>8, <2>9, <3>2 DEF Here
  <2>11. CopyInv(r)
    BY <2>3, <2>8, <2>10 DEF CopyInv, Calls, TmpCalls
  <2> QED
    BY <2>1, <2>2, <2>11
<1>18. res < b.len \/ res >= b.len
  <2>1. b.len \in Nat
    BY DEF BufRec
  <2> QED
    BY <2>1
<1> QED
  BY <1>15, <1>16, <1>17, <1>18

\* A round under way, and what is lost of it when it ends.
Ending(b) ==
    /\ b \in BufRec /\ Active(b)
    /\ b.tmp = <<>> \/ b.viaTmp = TRUE
    /\ b.moved >= b.len => b.tmp = <<>>

\* A round may end with what it has moved.
LEMMA EndsRight ==
    ASSUME NEW b, Ending(b)
    PROVE  CopyInv(Ends(b))
<1>1. b \in BufRec /\ Here(b, b.moved) /\ b.sidx <= Len(b.src) /\ b.didx <= Len(b.dst) /\ b.moved \in Nat
  BY DEF Ending, Active, BufRec
<1>2. CopyInv(Copied1(b, b.moved))
  BY <1>1, CopiedRight DEF Ending
<1> QED
  BY <1>2 DEF Ends

\* A round may fail: an error is reported when nothing has arrived.
LEMMA FailsRight ==
    ASSUME NEW b, Ending(b)
    PROVE  CopyInv(Fails(b))
<1>1. CASE b.moved = 0
  <2>1. b \in BufRec /\ Here(b, 0) /\ (b.tmp = <<>> \/ b.viaTmp = TRUE)
    BY <1>1 DEF Ending, Active
  <2>2. b.copied \in Nat
    BY <2>1 DEF BufRec
  <2>3. PICK x \in Int : x = IF b.copied = 0 THEN -5 ELSE b.copied
    BY <2>2
  <2>4. PICK r : r = [b EXCEPT !.pc = "return", !.result = x]
    OBVIOUS
  <2>5. SetReturn(r, b, x)
    BY <2>4 DEF SetReturn
  <2>6. ReturnIs(r, b, x)
    BY <2>1, <2>5, ReturnSet
  <2>7. x = b.copied + 0 \/ (x < 0 /\ b.copied + 0 = 0)
    BY <2>2, <2>3
  <2>8. Reports(r, b, 0) /\ r \in BufRec /\ r.pc = "return"
    BY <2>6, <2>7 DEF ReturnIs, Keeps, Reports
  <2>9. Done(r)
    BY <2>1, <2>8, Finishes
  <2>10. CopyInv(r)
    BY <2>8, <2>9, Returned
  <2>11. Fails(b) = r
    BY <1>1, <2>3, <2>4 DEF Fails, Failed1
  <2> QED
    BY <2>10, <2>11
<1>2. CASE b.moved # 0
  <2>1. CopyInv(Ends(b))
    BY EndsRight
  <2> QED
    BY <1>2, <2>1 DEF Fails
<1> QED
  BY <1>1, <1>2

\* Reading n bytes and writing them at once.
LEMMA PassOn ==
    ASSUME NEW src \in Seq(Buf), NEW tk \in Seq(Nat), NEW out \in Seq(Seq(Byte)),
           NEW si \in 1..Len(src), NEW di \in 1..Len(out), NEW a \in Nat, NEW e \in Nat, NEW c \in Nat,
           At(src, si, a, di, e, c, <<>>, tk, out), NEW n \in Nat, a + n <= src[si].size,
           NEW out2, Grown(out2, out, di, NextBytes(src, si, a, tk, n), Byte),
           NEW x, NEW y, NEW w, Further(n, a, e, c, x, y, w)
    PROVE  At(src, si, x, di, y, w, <<>>, TakenOf(src, si, tk, n), out2)
<1>1. PICK bytes, tk2 : bytes = NextBytes(src, si, a, tk, n) /\ tk2 = TakenOf(src, si, tk, n)
  OBVIOUS
<1>2. a + Len(<<>>) = a
  BY NothingCarries
<1>3. si <= Len(src) /\ a + Len(<<>>) + n <= src[si].size
  BY <1>2
<1>4. /\ Len(bytes) = n /\ bytes \in Seq(Byte) /\ At(src, si, a, di, e, c, <<>> \o bytes, tk2, out)
  <2>1. /\ Len(NextBytes(src, si, a + Len(<<>>), tk, n)) = n
        /\ NextBytes(src, si, a + Len(<<>>), tk, n) \in Seq(Byte)
        /\ At(src, si, a, di, e, c, <<>> \o NextBytes(src, si, a + Len(<<>>), tk, n), TakenOf(src, si, tk, n), out)
    BY <1>3, ReadOn
  <2> QED
    BY <1>1, <1>2, <2>1
<1>5. <<>> \o bytes = bytes
  BY <1>4
<1>6. At(src, si, a, di, e, c, bytes, tk2, out)
  BY <1>4, <1>5
<1>7. SubSeq(bytes, 1, n) = bytes /\ SubSeq(bytes, n + 1, Len(bytes)) = <<>> /\ n \in 0..Len(bytes)
  <2>1. n \in 0..Len(bytes)
    BY <1>4
  <2>2. /\ SubSeq(bytes, 1, n) \in Seq(Byte) /\ Len(SubSeq(bytes, 1, n)) = n
        /\ \A j \in 1..n : SubSeq(bytes, 1, n)[j] = bytes[j]
    BY <1>4, <2>1, PrefixIs
  <2>3. SubSeq(bytes, 1, n) = bytes
    BY <1>4, <2>2, SeqEqual
  <2>4. n + 1 \in 1..(Len(bytes) + 1) /\ n \in 0..Len(bytes) /\ n + 1 <= n + 1
    BY <1>4
  <2>5. SubSeq(bytes, n + 1, n) \in Seq(Byte) /\ Len(SubSeq(bytes, n + 1, n)) = n - (n + 1) + 1
    BY <1>4, <2>4, PartIs
  <2>6. n - (n + 1) + 1 = 0
    OBVIOUS
  <2>7. SubSeq(bytes, n + 1, n) = <<>>
    BY <2>5, <2>6, EmptySeq
  <2> QED
    BY <1>4, <2>1, <2>3, <2>7
<1>8. Grown(out2, out, di, SubSeq(bytes, 1, n), Byte)
  BY <1>1, <1>7
<1>9. At(src, si, x, di, y, w, SubSeq(bytes, n + 1, Len(bytes)), tk2, out2)
  BY <1>4, <1>6, <1>7, <1>8, WriteOn
<1> QED
  BY <1>1, <1>7, <1>9

-----------------------------------------------------------------------------
(***************************************************************************)
(* The calls that pass bytes on directly.                                  *)
(***************************************************************************)
\* The list that Arrive makes of old when bytes arrive at its end.
Overlaid(old, at, bytes) ==
    [k \in 1..(IF Len(old) > at + Len(bytes) THEN Len(old) ELSE at + Len(bytes)) |->
       CASE k > at /\ k <= at + Len(bytes) -> bytes[k - at]
         [] k <= at /\ k <= Len(old) -> old[k]
         [] k > at + Len(bytes) -> old[k]
         [] OTHER -> <<0, 0>>]

\* It is the old list with the bytes behind it.
LEMMA OverlaidIs ==
    ASSUME NEW old \in Seq(Byte), NEW bytes \in Seq(Byte)
    PROVE  Overlaid(old, Len(old), bytes) = old \o bytes
<1>1. PICK m \in Nat, n \in Nat : m = Len(old) /\ n = Len(bytes)
  OBVIOUS
<1>2. PICK f : f = Overlaid(old, Len(old), bytes)
  OBVIOUS
<1>3. /\ old \o bytes \in Seq(Byte) /\ Len(old \o bytes) = Len(old) + Len(bytes)
      /\ \A j \in 1..(Len(old) + Len(bytes)) :
            (old \o bytes)[j] = IF j <= Len(old) THEN old[j] ELSE bytes[j - Len(old)]
  BY ConcatIs
<1>4. PICK g \in Seq(Byte) : g = old \o bytes /\ Len(g) = m + n
                             /\ \A j \in 1..(m + n) : g[j] = IF j <= m THEN old[j] ELSE bytes[j - m]
  BY <1>1, <1>3
<1>5. (IF m > m + n THEN m ELSE m + n) = m + n
  OBVIOUS
<1>6. f = [k \in 1..(m + n) |->
             CASE k > m /\ k <= m + n -> bytes[k - m]
               [] k <= m /\ k <= m -> old[k]
               [] k > m + n -> old[k]
               [] OTHER -> <<0, 0>>]
  BY <1>1, <1>2, <1>5 DEF Overlaid
<1>7. ASSUME NEW k \in 1..(m + n)
      PROVE  f[k] = g[k]
  <2>1. CASE k <= m
    <3>1. ~(k > m /\ k <= m + n)
      BY <2>1
    <3>2. f[k] = old[k]
      BY <1>6, <2>1, <3>1
    <3> QED
      BY <1>4, <2>1, <3>2
  <2>2. CASE ~(k <= m)
    <3>1. k > m /\ k <= m + n
      BY <2>2
    <3>2. f[k] = bytes[k - m]
      BY <1>6, <3>1
    <3> QED
      BY <1>4, <2>2, <3>2
  <2> QED
    BY <2>1, <2>2
<1>8. \A k \in 1..(m + n) : f[k] \in Byte
  <2>1. \A k \in 1..(m + n) : g[k] \in Byte
    BY <1>4, ElementOfSeq
  <2> QED
    BY <1>7, <2>1
<1>9. f \in [1..(m + n) -> Byte]
  BY <1>6, <1>8
<1>10. f \in Seq(Byte) /\ Len(f) = m + n
  <2>1. m + n \in Nat
    OBVIOUS
  <2> QED
    BY <1>9, <2>1
<1>11. f = g
  BY <1>4, <1>7, <1>10, SeqEqual
<1> QED
  BY <1>2, <1>4, <1>11

\* Bytes that arrive at the end of the current destination are added to it.
ArrivesAt(r, b, bytes) ==
    \E o : r = [b EXCEPT !.out = o] /\ Grown(o, b.out, b.didx, bytes, Byte)

\* Arrive adds them there, for every kind of destination.
LEMMA ArriveIs ==
    ASSUME NEW b \in BufRec, b.didx \in 1..Len(b.out), NEW bytes \in Seq(Byte), NEW off, off = Len(b.out[b.didx])
    PROVE  ArrivesAt(Arrive(b, off, bytes), b, bytes)
<1>1. PICK out \in Seq(Seq(Byte)), di \in Nat : out = b.out /\ di = b.didx /\ di \in 1..Len(out)
  BY DEF BufRec
<1>2. PICK old \in Seq(Byte) : old = out[di]
  BY <1>1, ElementOfSeq
<1>3. PICK o : o = [out EXCEPT ![di] = old \o bytes]
  OBVIOUS
<1>4. Arrive(b, off, bytes) = [b EXCEPT !.out = o]
  <2>1. (IF Dst.kind = "stream" THEN Len(old) ELSE off) = Len(old)
    BY <1>1, <1>2
  <2>2. Arrive(b, off, bytes) = [b EXCEPT !.out = [out EXCEPT ![di] = Overlaid(old, Len(old), bytes)]]
    BY <1>1, <1>2, <2>1 DEF Arrive, Overlaid, BufRec
  <2>3. Overlaid(old, Len(old), bytes) = old \o bytes
    BY OverlaidIs
  <2> QED
    BY <1>3, <2>2, <2>3
<1>5. Grown(o, out, di, bytes, Byte)
  <2>1. old \o bytes \in Seq(Byte)
    OBVIOUS
  <2>2. PICK t \in Seq(Byte) : t = old \o bytes
    BY <2>1
  <2>3. o = [out EXCEPT ![di] = t]
    BY <1>3, <2>2
  <2>4. o \in Seq(Seq(Byte)) /\ Len(o) = Len(out) /\ o[di] = t /\ \A j \in 1..Len(out) : j # di => o[j] = out[j]
    BY <1>1, <2>3
  <2> QED
    BY <1>2, <2>2, <2>4 DEF Grown
<1> QED
  BY <1>1, <1>4, <1>5 DEF ArrivesAt

\* The bytes a call takes from the source of the step, and what it leaves there.
LEMMA FromIs ==
    ASSUME NEW b, b.sidx = bc.sidx, b.taken = bc.taken, NEW off, NEW n
    PROVE  From(b, off, n) = NextBytes(bc.src, bc.sidx, off, bc.taken, n)
  BY DEF From, NextBytes, Src

\* A descriptor without a position has given them, nothing else has changed.
LEMMA TakeIs ==
    ASSUME bc \in BufRec, NEW n
    PROVE  Take(bc, n) = [bc EXCEPT !.taken = TakenOf(bc.src, bc.sidx, bc.taken, n)]
<1>1. CASE Src.kind = "stream"
  BY <1>1 DEF Take, TakenOf, Src, BufRec
<1>2. CASE Src.kind # "stream"
  <2>1. TakenOf(bc.src, bc.sidx, bc.taken, n) = bc.taken
    BY <1>2 DEF TakenOf, Src
  <2>2. bc = [bc EXCEPT !.taken = bc.taken]
    BY DEF BufRec
  <2> QED
    BY <1>2, <2>1, <2>2 DEF Take
<1> QED
  BY <1>1, <1>2

\* r is in the same round as b.
SameRound(r, b) ==
    /\ r.pc = b.pc /\ r.src = b.src /\ r.dst = b.dst /\ r.sidx = b.sidx /\ r.soff = b.soff /\ r.didx = b.didx
    /\ r.doff = b.doff /\ r.copied = b.copied /\ r.len = b.len /\ r.viaTmp = b.viaTmp /\ r.asked = b.asked

\* n bytes have been taken from the source and have arrived, mv bytes into the round.
Passes(r, b, mv, n) ==
    /\ r.taken = TakenOf(b.src, b.sidx, b.taken, n)
    /\ Grown(r.out, b.out, b.didx, NextBytes(b.src, b.sidx, b.soff + mv, b.taken, n), Byte)
    /\ r.tmp = <<>> /\ b.tmp = <<>>

\* Where a round stands.
LEMMA HereIs ==
    ASSUME NEW b \in BufRec, NEW mv \in Nat, Here(b, mv), b.sidx <= Len(b.src), b.didx <= Len(b.dst)
    PROVE  /\ b.sidx \in 1..Len(b.src) /\ b.didx \in 1..Len(b.out) /\ Len(b.out[b.didx]) = b.doff + mv
           /\ b.soff + mv \in Nat /\ b.doff + mv \in Nat /\ b.copied + mv \in Nat
           /\ At(b.src, b.sidx, b.soff + mv, b.didx, b.doff + mv, b.copied + mv, b.tmp, b.taken, b.out)
<1>1. PICK src \in Seq(Buf), out \in Seq(Seq(Byte)), si \in Nat, di \in Nat :
         src = b.src /\ out = b.out /\ si = b.sidx /\ di = b.didx
  BY DEF BufRec
<1>2. /\ At(b.src, b.sidx, b.soff + mv, b.didx, b.doff + mv, b.copied + mv, b.tmp, b.taken, b.out)
      /\ Len(b.out) = Len(b.dst)
  BY DEF Here
<1>3. /\ si \in 1..(Len(src) + 1) /\ di \in 1..(Len(out) + 1)
      /\ (di <= Len(out) => Len(out[di]) = b.doff + mv)
      /\ b.soff + mv \in Nat /\ b.doff + mv \in Nat /\ b.copied + mv \in Nat
  BY <1>1, <1>2 DEF At
<1>4. si <= Len(src) /\ di <= Len(out)
  BY <1>1, <1>2
<1>5. si \in 1..Len(src) /\ di \in 1..Len(out)
  BY <1>3, <1>4
<1> QED
  BY <1>1, <1>2, <1>3, <1>4, <1>5

\* A round stands n bytes further when n bytes have been passed on.
LEMMA Passed ==
    ASSUME NEW b \in BufRec, NEW mv \in Nat, Here(b, mv), b.sidx <= Len(b.src), b.didx <= Len(b.dst),
           NEW n \in Nat, b.soff + mv + n <= b.src[b.sidx].size, b.doff + mv + n <= b.dst[b.didx].size,
           NEW r \in BufRec, SameRound(r, b), Passes(r, b, mv, n)
    PROVE  Here(r, mv + n)
<1>1. PICK src \in Seq(Buf), out \in Seq(Seq(Byte)), si \in Nat, di \in Nat, tk \in Seq(Nat) :
         si \in 1..Len(src) /\ di \in 1..Len(out) /\ src = b.src /\ out = b.out /\ si = b.sidx /\ di = b.didx /\ tk = b.taken
  <2>1. b.sidx \in 1..Len(b.src) /\ b.didx \in 1..Len(b.out)
    BY HereIs
  <2>2. b.src \in Seq(Buf) /\ b.out \in Seq(Seq(Byte)) /\ b.taken \in Seq(Nat) /\ b.sidx \in Nat /\ b.didx \in Nat
    BY DEF BufRec
  <2> QED
    BY <2>1, <2>2
<1>2. PICK so \in Nat, dn \in Nat, cp \in Nat : so = b.soff /\ dn = b.doff /\ cp = b.copied
  BY DEF BufRec
<1>3. PICK a \in Nat, e \in Nat, c \in Nat : a = so + mv /\ e = dn + mv /\ c = cp + mv
  <2>1. so + mv \in Nat /\ dn + mv \in Nat /\ cp + mv \in Nat
    OBVIOUS
  <2> QED
    BY <2>1
<1>4. At(src, si, a, di, e, c, <<>>, tk, out) /\ Len(out) = Len(b.dst)
  BY <1>1, <1>2, <1>3 DEF Here, Passes
<1>5. PICK out2, tk2 : out2 = r.out /\ tk2 = r.taken
  OBVIOUS
<1>6. Grown(out2, out, di, NextBytes(src, si, a, tk, n), Byte) /\ tk2 = TakenOf(src, si, tk, n)
  BY <1>1, <1>2, <1>3, <1>5 DEF Passes
<1>7. PICK x \in Nat, y \in Nat, w \in Nat : x = a + n /\ y = e + n /\ w = c + n
  <2>1. a + n \in Nat /\ e + n \in Nat /\ c + n \in Nat
    OBVIOUS
  <2> QED
    BY <2>1
<1>8. Further(n, a, e, c, x, y, w)
  BY <1>7 DEF Further
<1>9. a + n <= src[si].size
  BY <1>1, <1>2, <1>3
<1>10. At(src, si, x, di, y, w, <<>>, tk2, out2)
  <2>1. Grown(out2, out, di, NextBytes(src, si, a, tk, n), Byte) /\ At(src, si, a, di, e, c, <<>>, tk, out)
    BY <1>4, <1>6
  <2>3. si \in 1..Len(src) /\ di \in 1..Len(out)
    BY <1>1
  <2>2. At(src, si, x, di, y, w, <<>>, TakenOf(src, si, tk, n), out2)
    BY <1>8, <1>9, <2>1, <2>3, PassOn
  <2> QED
    BY <1>6, <2>2
<1>11. /\ r.src = src /\ r.sidx = si /\ r.didx = di /\ r.tmp = <<>> /\ r.taken = tk2 /\ r.out = out2 /\ r.dst = b.dst
       /\ r.soff = so /\ r.doff = dn /\ r.copied = cp
  BY <1>1, <1>2, <1>5 DEF SameRound, Passes
<1>12. r.soff + (mv + n) = x /\ r.doff + (mv + n) = y /\ r.copied + (mv + n) = w
  <2>1. so + (mv + n) = (so + mv) + n /\ dn + (mv + n) = (dn + mv) + n /\ cp + (mv + n) = (cp + mv) + n
    OBVIOUS
  <2> QED
    BY <1>3, <1>7, <1>11, <2>1
<1>13. Len(out2) = Len(out)
  BY <1>6 DEF Grown
<1>14. y <= r.dst[r.didx].size
  BY <1>1, <1>2, <1>3, <1>7, <1>11
<1>15. At(r.src, r.sidx, r.soff + (mv + n), r.didx, r.doff + (mv + n), r.copied + (mv + n), r.tmp, r.taken, r.out)
  BY <1>10, <1>11, <1>12
<1> QED
  BY <1>4, <1>11, <1>12, <1>13, <1>14, <1>15 DEF Here

\* What comes next is bytes, and so are the positions behind them.
LEMMA NextOfRound ==
    ASSUME NEW b \in BufRec, NEW mv \in Nat, Here(b, mv), b.sidx <= Len(b.src), b.didx <= Len(b.dst),
           NEW n \in Nat, b.soff + mv + Len(b.tmp) + n <= b.src[b.sidx].size
    PROVE  /\ NextBytes(b.src, b.sidx, b.soff + mv + Len(b.tmp), b.taken, n) \in Seq(Byte)
           /\ Len(NextBytes(b.src, b.sidx, b.soff + mv + Len(b.tmp), b.taken, n)) = n
           /\ At(b.src, b.sidx, b.soff + mv, b.didx, b.doff + mv, b.copied + mv,
                 b.tmp \o NextBytes(b.src, b.sidx, b.soff + mv + Len(b.tmp), b.taken, n),
                 TakenOf(b.src, b.sidx, b.taken, n), b.out)
           /\ TakenOf(b.src, b.sidx, b.taken, n) \in Seq(Nat)
<1>1. PICK src, si, a, di, e, c, tmp, tk, out :
         /\ src = b.src /\ si = b.sidx /\ a = b.soff + mv /\ di = b.didx /\ e = b.doff + mv /\ c = b.copied + mv
         /\ tmp = b.tmp /\ tk = b.taken /\ out = b.out
  OBVIOUS
<1>2. At(src, si, a, di, e, c, tmp, tk, out)
  BY <1>1 DEF Here
<1>3. si <= Len(src) /\ a + Len(tmp) + n <= src[si].size
  BY <1>1
<1>4. /\ Len(NextBytes(src, si, a + Len(tmp), tk, n)) = n
      /\ NextBytes(src, si, a + Len(tmp), tk, n) \in Seq(Byte)
      /\ At(src, si, a, di, e, c, tmp \o NextBytes(src, si, a + Len(tmp), tk, n),
            TakenOf(src, si, tk, n), out)
  BY <1>2, <1>3, ReadOn
<1>5. TakenOf(src, si, tk, n) \in Seq(Nat)
  BY <1>4 DEF At
<1> QED
  BY <1>1, <1>4, <1>5

\* The size of the current destination.
LEMMA RoundRoom ==
    ASSUME NEW b \in BufRec, Active(b)
    PROVE  b.dst[b.didx].size \in Nat
<1>1. Here(b, b.moved) /\ b.sidx <= Len(b.src) /\ b.didx <= Len(b.dst) /\ b.moved \in Nat /\ b.dst \in Seq(Buf)
  BY DEF Active, BufRec
<1>2. b.didx \in 1..Len(b.out) /\ Len(b.out) = Len(b.dst)
  BY <1>1, HereIs DEF Here
<1>3. b.dst[b.didx] \in Buf
  BY <1>1, <1>2, ElementOfSeq
<1> QED
  BY <1>3 DEF Buf

\* The record a call of write, read or splice that moves n bytes leaves.
MovedBy(n) ==
    [Arrive(Take(bc, n), bc.doff + bc.moved, From(bc, bc.soff + bc.moved, n)) EXCEPT !.moved = @ + n]

\* It is in the same round, n bytes further.
LEMMA MovedRight ==
    ASSUME CopyInv(bc), bc.pc \in Calls, NEW n \in Nat, n <= bc.len - bc.moved
    PROVE  /\ MovedBy(n) \in BufRec /\ Active(MovedBy(n)) /\ MovedBy(n).tmp = <<>> /\ MovedBy(n).pc = bc.pc
<1>1. bc \in BufRec /\ Active(bc) /\ bc.tmp = <<>>
  BY DEF CopyInv, Calls, TmpCalls
<1>2. PICK mv \in Nat, len \in Nat, so \in Nat : mv = bc.moved /\ len = bc.len /\ so = bc.soff
  BY <1>1 DEF BufRec
<1>3. /\ Here(bc, mv) /\ bc.sidx <= Len(bc.src) /\ bc.didx <= Len(bc.dst) /\ mv <= len
      /\ so + len <= bc.src[bc.sidx].size /\ bc.doff + len <= bc.dst[bc.didx].size
  BY <1>1, <1>2 DEF Active
<1>4. PICK sz \in Nat : sz = bc.src[bc.sidx].size
  <2>1. bc.sidx \in 1..Len(bc.src)
    BY <1>1, <1>3, HereIs
  <2>2. bc.src \in Seq(Buf)
    BY <1>1 DEF BufRec
  <2>3. bc.src[bc.sidx] \in Buf
    BY <2>1, <2>2, ElementOfSeq
  <2> QED
    BY <2>3 DEF Buf
<1>5. so + mv + n <= sz /\ mv + n <= len
  <2>1. n <= len - mv /\ so + len <= sz
    BY <1>2, <1>3, <1>4
  <2>2. mv + n <= len
    BY <2>1
  <2>3. so + mv + n <= so + len
    BY <2>2
  <2> QED
    BY <2>1, <2>2, <2>3
<1>6. PICK bytes, tk2 : /\ bytes = NextBytes(bc.src, bc.sidx, bc.soff + mv, bc.taken, n)
                        /\ tk2 = TakenOf(bc.src, bc.sidx, bc.taken, n)
  OBVIOUS
<1>7. bytes \in Seq(Byte) /\ tk2 \in Seq(Nat)
  <2>1. bc.soff + mv + Len(bc.tmp) = bc.soff + mv
    BY <1>1, <1>2, NothingCarries
  <2>2. bc.soff + mv + Len(bc.tmp) + n <= bc.src[bc.sidx].size
    BY <1>2, <1>4, <1>5, <2>1
  <2>3. /\ NextBytes(bc.src, bc.sidx, bc.soff + mv + Len(bc.tmp), bc.taken, n) \in Seq(Byte)
        /\ TakenOf(bc.src, bc.sidx, bc.taken, n) \in Seq(Nat)
    BY <1>1, <1>3, <2>2, NextOfRound
  <2> QED
    BY <1>6, <2>1, <2>3
<1>8. PICK t : t = [bc EXCEPT !.taken = tk2]
  OBVIOUS
<1>9. t \in BufRec /\ SameRound(t, bc) /\ t.taken = tk2 /\ t.out = bc.out /\ t.tmp = bc.tmp /\ t.moved = bc.moved
  BY <1>1, <1>7, <1>8 DEF BufRec, SameRound
<1>10. Take(bc, n) = t /\ From(bc, bc.soff + bc.moved, n) = bytes
  <2>1. Take(bc, n) = t
    BY <1>1, <1>6, <1>8, TakeIs
  <2>2. From(bc, bc.soff + bc.moved, n) = NextBytes(bc.src, bc.sidx, bc.soff + bc.moved, bc.taken, n)
    BY FromIs
  <2> QED
    BY <1>2, <1>6, <2>1, <2>2
<1>11. PICK q : q = Arrive(t, bc.doff + bc.moved, bytes)
  OBVIOUS
<1>12. ArrivesAt(q, t, bytes)
  <2>1. bc.didx \in 1..Len(bc.out) /\ Len(bc.out[bc.didx]) = bc.doff + mv
    BY <1>1, <1>3, HereIs
  <2>2. t.didx \in 1..Len(t.out) /\ bc.doff + bc.moved = Len(t.out[t.didx])
    BY <1>2, <1>9, <2>1 DEF SameRound
  <2> QED
    BY <1>7, <1>9, <1>11, <2>2, ArriveIs
<1>13. PICK o : q = [t EXCEPT !.out = o] /\ Grown(o, t.out, t.didx, bytes, Byte)
  BY <1>12 DEF ArrivesAt
<1>14. o \in Seq(Seq(Byte))
  BY <1>13 DEF Grown
<1>15. PICK r : r = [q EXCEPT !.moved = @ + n]
  OBVIOUS
<1>16. /\ q \in BufRec /\ SameRound(q, t) /\ q.taken = tk2 /\ q.out = o /\ q.tmp = t.tmp /\ q.moved = t.moved
  BY <1>9, <1>13, <1>14 DEF BufRec, SameRound
<1>17. r \in BufRec /\ SameRound(r, q) /\ r.taken = tk2 /\ r.out = o /\ r.tmp = q.tmp /\ r.moved = mv + n
  <2>1. q.moved = mv /\ mv + n \in Nat
    BY <1>2, <1>9, <1>16
  <2>2. r = [q EXCEPT !.moved = mv + n]
    BY <1>15, <2>1
  <2> QED
    BY <1>16, <2>1, <2>2 DEF BufRec, SameRound
<1>18. r.tmp = <<>> /\ SameRound(r, bc)
  BY <1>1, <1>9, <1>16, <1>17 DEF SameRound
<1>19. Passes(r, bc, mv, n)
  <2>1. Grown(r.out, bc.out, bc.didx, bytes, Byte)
    BY <1>9, <1>13, <1>17 DEF SameRound
  <2> QED
    BY <1>1, <1>6, <1>17, <1>18, <2>1 DEF Passes
<1>20. Here(r, mv + n)
  <2>1. bc.soff + mv + n <= bc.src[bc.sidx].size
    BY <1>2, <1>4, <1>5
  <2>2. PICK dn \in Nat, room \in Nat : dn = bc.doff /\ room = bc.dst[bc.didx].size
    BY <1>1, RoundRoom DEF BufRec
  <2>3. dn + mv + n <= dn + len /\ dn + len <= room
    BY <1>3, <1>5, <2>2
  <2>4. bc.doff + mv + n <= bc.dst[bc.didx].size
    BY <2>2, <2>3
  <2> QED
    BY <1>1, <1>3, <1>17, <1>18, <1>19, <2>1, <2>4, Passed
<1>21. Active(r)
  BY <1>2, <1>3, <1>5, <1>17, <1>18, <1>20 DEF Active, SameRound
<1>22. MovedBy(n) = r
  BY <1>10, <1>11, <1>15 DEF MovedBy
<1>23. r.pc = bc.pc
  BY <1>18 DEF SameRound
<1> QED
  BY <1>17, <1>18, <1>21, <1>22, <1>23

\* fuse_buf_write, fuse_buf_read and fuse_buf_splice, done, short or retried.
LEMMA MovesRight ==
    ASSUME CopyInv(bc), NEW pc \in Calls, NEW n \in Nat, NEW retry, Moves(pc, n, retry)
    PROVE  CopyInv(bc')
<1>1. bc.pc = pc /\ n <= bc.len - bc.moved
  BY DEF Moves
<1>2. PICK r : r = MovedBy(n)
  OBVIOUS
<1>3. r \in BufRec /\ Active(r) /\ r.tmp = <<>> /\ r.pc = pc
  BY <1>1, <1>2, MovedRight
<1>4. bc' = Ends(r) \/ bc' = r
  BY <1>2 DEF Moves, MovedBy
<1>5. Ending(r)
  BY <1>3 DEF Ending
<1>6. CopyInv(Ends(r))
  BY <1>5, EndsRight
<1>7. CopyInv(r)
  BY <1>3 DEF CopyInv, Calls, TmpCalls
<1> QED
  BY <1>4, <1>6, <1>7

-----------------------------------------------------------------------------
(***************************************************************************)
(* fuse_buf_fd_to_fd.                                                      *)
(***************************************************************************)
\* The round that is under way while fd_to_fd works.
LEMMA TmpRound ==
    ASSUME NEW b, CopyInv(b), b.pc \in TmpCalls
    PROVE  /\ b \in BufRec /\ Active(b) /\ b.viaTmp = TRUE
           /\ Here(b, b.moved) /\ b.sidx <= Len(b.src) /\ b.didx <= Len(b.dst) /\ b.moved <= b.len
           /\ b.soff + b.len <= b.src[b.sidx].size
           /\ b.moved \in Nat /\ b.len \in Nat /\ b.soff \in Nat /\ b.asked \in Nat /\ b.tmp \in Seq(Byte)
  BY DEF CopyInv, Active, BufRec, TmpCalls, Calls

\* The size of the current source buffer.
LEMMA RoundSize ==
    ASSUME NEW b \in BufRec, Active(b)
    PROVE  b.src[b.sidx].size \in Nat
<1>1. Here(b, b.moved) /\ b.sidx <= Len(b.src) /\ b.didx <= Len(b.dst) /\ b.moved \in Nat /\ b.src \in Seq(Buf)
  BY DEF Active, BufRec
<1>2. b.sidx \in 1..Len(b.src)
  BY <1>1, HereIs
<1>3. b.src[b.sidx] \in Buf
  BY <1>1, <1>2, ElementOfSeq
<1> QED
  BY <1>3 DEF Buf

\* The record that a read of n bytes into the buffer leaves.
ReadBy(n) == [Take(bc, n) EXCEPT !.tmp = @ \o From(bc, bc.soff + bc.moved + Len(bc.tmp), n)]

\* It is in the same round, with n bytes more in the buffer.
LEMMA ReadRight ==
    ASSUME CopyInv(bc), bc.pc = "tmp_read", NEW n \in Nat, bc.moved + Len(bc.tmp) + n <= bc.len
    PROVE  /\ ReadBy(n) \in BufRec /\ Active(ReadBy(n)) /\ SameRound(ReadBy(n), bc) /\ ReadBy(n).moved = bc.moved
           /\ Len(ReadBy(n).tmp) = Len(bc.tmp) + n
<1>0. bc.pc \in TmpCalls
  BY DEF TmpCalls
<1>1. /\ bc \in BufRec /\ Active(bc)
      /\ Here(bc, bc.moved) /\ bc.sidx <= Len(bc.src) /\ bc.didx <= Len(bc.dst) /\ bc.moved <= bc.len
      /\ bc.soff + bc.len <= bc.src[bc.sidx].size
      /\ bc.moved \in Nat /\ bc.len \in Nat /\ bc.soff \in Nat /\ bc.tmp \in Seq(Byte)
  BY <1>0, TmpRound
<1>2. PICK mv \in Nat, len \in Nat, so \in Nat, T \in Nat, sz \in Nat :
         mv = bc.moved /\ len = bc.len /\ so = bc.soff /\ T = Len(bc.tmp) /\ sz = bc.src[bc.sidx].size
  <2>1. bc.src[bc.sidx].size \in Nat
    BY <1>1, RoundSize
  <2>2. Len(bc.tmp) \in Nat
    BY <1>1
  <2> QED
    BY <1>1, <2>1, <2>2
<1>3. so + mv + T + n <= sz
  <2>1. mv + T + n <= len /\ so + len <= sz
    BY <1>1, <1>2
  <2>2. so + mv + T + n <= so + len
    BY <2>1
  <2> QED
    BY <2>1, <2>2
<1>4. PICK bytes, tk2 : /\ bytes = NextBytes(bc.src, bc.sidx, bc.soff + mv + Len(bc.tmp), bc.taken, n)
                        /\ tk2 = TakenOf(bc.src, bc.sidx, bc.taken, n)
  OBVIOUS
<1>5. /\ bytes \in Seq(Byte) /\ Len(bytes) = n /\ tk2 \in Seq(Nat)
      /\ At(bc.src, bc.sidx, bc.soff + mv, bc.didx, bc.doff + mv, bc.copied + mv, bc.tmp \o bytes, tk2, bc.out)
  <2>1. bc.soff + mv + Len(bc.tmp) + n <= bc.src[bc.sidx].size
    BY <1>2, <1>3
  <2>2. Here(bc, mv)
    BY <1>1, <1>2
  <2>3. /\ NextBytes(bc.src, bc.sidx, bc.soff + mv + Len(bc.tmp), bc.taken, n) \in Seq(Byte)
        /\ Len(NextBytes(bc.src, bc.sidx, bc.soff + mv + Len(bc.tmp), bc.taken, n)) = n
        /\ At(bc.src, bc.sidx, bc.soff + mv, bc.didx, bc.doff + mv, bc.copied + mv,
              bc.tmp \o NextBytes(bc.src, bc.sidx, bc.soff + mv + Len(bc.tmp), bc.taken, n),
              TakenOf(bc.src, bc.sidx, bc.taken, n), bc.out)
        /\ TakenOf(bc.src, bc.sidx, bc.taken, n) \in Seq(Nat)
    BY <1>1, <2>1, <2>2, NextOfRound
  <2> QED
    BY <1>4, <2>3
<1>6. PICK t : t = [bc EXCEPT !.taken = tk2]
  OBVIOUS
<1>7. t \in BufRec /\ SameRound(t, bc) /\ t.taken = tk2 /\ t.out = bc.out /\ t.tmp = bc.tmp /\ t.moved = bc.moved
  BY <1>1, <1>5, <1>6 DEF BufRec, SameRound
<1>8. Take(bc, n) = t /\ From(bc, bc.soff + bc.moved + Len(bc.tmp), n) = bytes
  <2>1. Take(bc, n) = t
    BY <1>1, <1>4, <1>6, TakeIs
  <2>2. PICK off : off = bc.soff + bc.moved + Len(bc.tmp)
    OBVIOUS
  <2>3. From(bc, off, n) = NextBytes(bc.src, bc.sidx, off, bc.taken, n)
    BY FromIs
  <2>4. off = bc.soff + mv + Len(bc.tmp)
    BY <1>2, <2>2
  <2> QED
    BY <1>4, <2>1, <2>2, <2>3, <2>4
<1>9. PICK tmp2 : tmp2 = bc.tmp \o bytes
  OBVIOUS
<1>10. tmp2 \in Seq(Byte) /\ Len(tmp2) = Len(bc.tmp) + n
  <2>0. PICK p \in Seq(Byte), q \in Seq(Byte) : p = bc.tmp /\ q = bytes
    BY <1>1, <1>5
  <2>1. p \o q \in Seq(Byte) /\ Len(p \o q) = Len(p) + Len(q)
    BY ConcatIs
  <2> QED
    BY <1>5, <1>9, <2>0, <2>1
<1>11. PICK r : r = [t EXCEPT !.tmp = tmp2]
  OBVIOUS
<1>12. /\ r \in BufRec /\ SameRound(r, t) /\ r.taken = t.taken /\ r.out = t.out /\ r.tmp = tmp2 /\ r.moved = t.moved
  BY <1>7, <1>10, <1>11 DEF BufRec, SameRound
<1>13. SameRound(r, bc) /\ r.taken = tk2 /\ r.out = bc.out /\ r.moved = mv
  BY <1>2, <1>7, <1>12 DEF SameRound
<1>14. Here(r, mv)
  <2>1. Len(bc.out) = Len(bc.dst) /\ (bc.didx <= Len(bc.dst) => bc.doff + mv <= bc.dst[bc.didx].size)
    BY <1>1, <1>2 DEF Here
  <2>2. At(bc.src, bc.sidx, bc.soff + mv, bc.didx, bc.doff + mv, bc.copied + mv, tmp2, tk2, bc.out)
    BY <1>5, <1>9
  <2> QED
    BY <1>12, <1>13, <2>1, <2>2 DEF Here, SameRound
<1>15. Active(r)
  BY <1>1, <1>2, <1>13, <1>14 DEF Active, SameRound
<1>16. ReadBy(n) = r
  BY <1>7, <1>8, <1>9, <1>11 DEF ReadBy
<1> QED
  BY <1>2, <1>10, <1>12, <1>13, <1>15, <1>16

\* The record of a call of write that follows.
LEMMA WriteSet ==
    ASSUME NEW b \in BufRec, Active(b), b.viaTmp = TRUE, NEW want \in Nat,
           Len(b.tmp) <= want, b.moved + want <= b.len
    PROVE  CopyInv([b EXCEPT !.pc = "tmp_write", !.asked = want])
<1>1. PICK r : r = [b EXCEPT !.pc = "tmp_write", !.asked = want]
  OBVIOUS
<1>2. r \in BufRec /\ r.pc = "tmp_write"
  BY <1>1 DEF BufRec, TmpCalls
<1>3. /\ r.src = b.src /\ r.dst = b.dst /\ r.sidx = b.sidx /\ r.soff = b.soff /\ r.didx = b.didx
      /\ r.doff = b.doff /\ r.copied = b.copied /\ r.len = b.len /\ r.viaTmp = b.viaTmp /\ r.asked = want
      /\ r.tmp = b.tmp /\ r.taken = b.taken /\ r.out = b.out /\ r.moved = b.moved
  BY <1>1 DEF BufRec
<1>4. Active(r)
  BY <1>3 DEF Active, Here
<1>5. CopyInv(r)
  BY <1>2, <1>3, <1>4 DEF CopyInv, Calls, TmpCalls
<1> QED
  BY <1>1, <1>5

\* What fd_to_fd asks for at a time.
LEMMA WantIs ==
    ASSUME NEW mv \in Nat, NEW len \in Nat, mv <= len, NEW T \in Nat, T <= TmpSize, mv + T <= len
    PROVE  /\ MinOf(TmpSize, len - mv) \in Nat /\ T <= MinOf(TmpSize, len - mv)
           /\ mv + MinOf(TmpSize, len - mv) <= len /\ MinOf(TmpSize, len - mv) <= TmpSize
  BY BufAssumption DEF MinOf

\* A read into fd_to_fd's buffer.
LEMMA TmpReadRight ==
    ASSUME CopyInv(bc), NEW n \in Nat, TmpRead(n)
    PROVE  CopyInv(bc')
<1>0. bc.pc = "tmp_read" /\ bc.pc \in TmpCalls
  BY DEF TmpRead, TmpCalls
<1>1. /\ bc \in BufRec /\ bc.viaTmp = TRUE /\ bc.moved <= bc.len
      /\ bc.moved \in Nat /\ bc.len \in Nat /\ bc.tmp \in Seq(Byte)
  BY <1>0, TmpRound
<1>2. Len(bc.tmp) <= TmpSize /\ bc.moved + Len(bc.tmp) <= bc.len
  BY <1>0 DEF CopyInv
<1>3. PICK mv \in Nat, len \in Nat, T \in Nat : mv = bc.moved /\ len = bc.len /\ T = Len(bc.tmp)
  BY <1>1
<1>4. PICK want \in Nat : want = MinOf(TmpSize, bc.len - bc.moved) /\ T <= want /\ mv + want <= len /\ want <= TmpSize
  <2>1. mv <= len /\ T <= TmpSize /\ mv + T <= len
    BY <1>1, <1>2, <1>3
  <2>2. /\ MinOf(TmpSize, len - mv) \in Nat /\ T <= MinOf(TmpSize, len - mv)
        /\ mv + MinOf(TmpSize, len - mv) <= len /\ MinOf(TmpSize, len - mv) <= TmpSize
    BY <2>1, WantIs
  <2> QED
    BY <1>3, <2>2
<1>5. n <= want - T
  BY <1>3, <1>4 DEF TmpRead
<1>6. T + n <= want /\ mv + T + n <= len
  <2>1. T + n <= want
    BY <1>5
  <2>2. mv + T + n <= mv + want
    BY <2>1
  <2> QED
    BY <1>4, <2>1, <2>2
<1>7. PICK b : b = ReadBy(n)
  OBVIOUS
<1>8. b \in BufRec /\ Active(b) /\ SameRound(b, bc) /\ b.moved = bc.moved /\ Len(b.tmp) = Len(bc.tmp) + n
  <2>1. bc.moved + Len(bc.tmp) + n <= bc.len
    BY <1>3, <1>6
  <2> QED
    BY <1>0, <1>7, <2>1, ReadRight
<1>9. b.viaTmp = TRUE /\ b.pc = "tmp_read" /\ b.len = len /\ b.moved = mv /\ Len(b.tmp) = T + n
  BY <1>0, <1>1, <1>3, <1>8 DEF SameRound
<1>10. bc' = b \/ (b.tmp = <<>> /\ bc' = Ends(b)) \/ bc' = [b EXCEPT !.pc = "tmp_write", !.asked = want]
  BY <1>4, <1>7 DEF TmpRead, ReadBy
<1>11. CopyInv(b)
  <2>1. Len(b.tmp) <= TmpSize /\ b.moved + Len(b.tmp) <= b.len
    <3>1. T + n <= TmpSize
      BY <1>4, <1>6, BufAssumption
    <3>2. mv + (T + n) <= len
      BY <1>6
    <3> QED
      BY <1>9, <3>1, <3>2
  <2> QED
    BY <1>8, <1>9, <2>1 DEF CopyInv, Calls, TmpCalls
<1>12. ASSUME b.tmp = <<>>
       PROVE  CopyInv(Ends(b))
  BY <1>8, <1>12, EndsRight DEF Ending
<1>13. CopyInv([b EXCEPT !.pc = "tmp_write", !.asked = want])
  <2>1. Len(b.tmp) <= want /\ b.moved + want <= b.len
    BY <1>4, <1>6, <1>9
  <2> QED
    BY <1>8, <1>9, <2>1, WriteSet
<1> QED
  BY <1>10, <1>11, <1>12, <1>13

\* ... and one that fails, with or without bytes in the buffer.
LEMMA TmpReadFailsRight ==
    ASSUME CopyInv(bc), TmpReadFails
    PROVE  CopyInv(bc')
<1>0. bc.pc = "tmp_read" /\ bc.pc \in TmpCalls
  BY DEF TmpReadFails, TmpCalls
<1>1. /\ bc \in BufRec /\ Active(bc) /\ bc.viaTmp = TRUE /\ bc.moved <= bc.len
      /\ bc.moved \in Nat /\ bc.len \in Nat /\ bc.tmp \in Seq(Byte)
  BY <1>0, TmpRound
<1>2. Len(bc.tmp) <= TmpSize /\ bc.moved + Len(bc.tmp) <= bc.len
  BY <1>0 DEF CopyInv
<1>3. CASE bc.tmp = <<>>
  <2>1. Ending(bc)
    BY <1>1, <1>3 DEF Ending
  <2>2. CopyInv(Fails(bc))
    BY <2>1, FailsRight
  <2> QED
    BY <1>3, <2>2 DEF TmpReadFails
<1>4. CASE bc.tmp # <<>>
  <2>1. PICK want : want = MinOf(TmpSize, bc.len - bc.moved)
    OBVIOUS
  <2>2. want \in Nat /\ Len(bc.tmp) <= want /\ bc.moved + want <= bc.len
    <3>1. Len(bc.tmp) \in Nat
      BY <1>1
    <3>2. /\ MinOf(TmpSize, bc.len - bc.moved) \in Nat /\ Len(bc.tmp) <= MinOf(TmpSize, bc.len - bc.moved)
          /\ bc.moved + MinOf(TmpSize, bc.len - bc.moved) <= bc.len
      BY <1>1, <1>2, <3>1, WantIs
    <3> QED
      BY <2>1, <3>2
  <2>3. CopyInv([bc EXCEPT !.pc = "tmp_write", !.asked = want])
    BY <1>1, <2>2, WriteSet
  <2> QED
    BY <1>4, <2>1, <2>3 DEF TmpReadFails
<1> QED
  BY <1>3, <1>4

\* The record that a write of n bytes of the buffer leaves.
WrittenBy(n) ==
    [Arrive(bc, bc.doff + bc.moved, SubSeq(bc.tmp, 1, n)) EXCEPT
       !.moved = @ + n, !.asked = @ - n, !.tmp = SubSeq(@, n + 1, Len(@))]

\* What it has changed.
SetWritten(r, q, mv, left, tmp) == r = [q EXCEPT !.moved = mv, !.asked = left, !.tmp = tmp]

\* What it leaves alone.
LEMMA WrittenSet ==
    ASSUME NEW q \in BufRec, NEW mv \in Nat, NEW left \in Nat, NEW tmp \in Seq(Byte), NEW r, SetWritten(r, q, mv, left, tmp)
    PROVE  /\ r \in BufRec /\ r.moved = mv /\ r.asked = left /\ r.tmp = tmp /\ r.pc = q.pc
           /\ r.src = q.src /\ r.dst = q.dst /\ r.sidx = q.sidx /\ r.soff = q.soff /\ r.didx = q.didx
           /\ r.doff = q.doff /\ r.copied = q.copied /\ r.len = q.len /\ r.viaTmp = q.viaTmp
           /\ r.out = q.out /\ r.taken = q.taken
  BY DEF BufRec, SetWritten

\* It is in the same round, n bytes further and with n bytes fewer in the buffer.
LEMMA WrittenRight ==
    ASSUME CopyInv(bc), bc.pc = "tmp_write", NEW n \in 0..Len(bc.tmp)
    PROVE  /\ WrittenBy(n) \in BufRec /\ Active(WrittenBy(n)) /\ WrittenBy(n).viaTmp = TRUE
           /\ WrittenBy(n).pc = "tmp_write" /\ Len(WrittenBy(n).tmp) <= WrittenBy(n).asked
           /\ WrittenBy(n).moved + WrittenBy(n).asked <= WrittenBy(n).len
<1>0. bc.pc \in TmpCalls
  BY DEF TmpCalls
<1>1. /\ bc \in BufRec /\ Active(bc) /\ bc.viaTmp = TRUE
      /\ Here(bc, bc.moved) /\ bc.sidx <= Len(bc.src) /\ bc.didx <= Len(bc.dst) /\ bc.moved <= bc.len
      /\ bc.soff + bc.len <= bc.src[bc.sidx].size
      /\ bc.moved \in Nat /\ bc.len \in Nat /\ bc.soff \in Nat /\ bc.asked \in Nat /\ bc.tmp \in Seq(Byte)
  BY <1>0, TmpRound
<1>2. Len(bc.tmp) <= bc.asked /\ bc.moved + bc.asked <= bc.len
  BY DEF CopyInv
<1>3. PICK mv \in Nat, len \in Nat, ask \in Nat, T \in Nat :
         mv = bc.moved /\ len = bc.len /\ ask = bc.asked /\ T = Len(bc.tmp) /\ n \in 0..T /\ n \in Nat
  <2>1. Len(bc.tmp) \in Nat
    BY <1>1
  <2> QED
    BY <1>1, <2>1
<1>4. PICK left \in Nat, mv2 \in Nat, rest \in Nat :
         /\ left = ask - n /\ mv2 = mv + n /\ rest = T - n
         /\ rest <= left /\ mv2 + left <= len /\ mv2 <= len
  <2>1. n <= T /\ T <= ask /\ mv + ask <= len
    BY <1>2, <1>3
  <2>2. ask - n \in Nat /\ mv + n \in Nat /\ T - n \in Nat
    BY <2>1
  <2>3. T - n <= ask - n /\ (mv + n) + (ask - n) <= len /\ mv + n <= len
    BY <2>1
  <2> QED
    BY <2>2, <2>3
<1>5. PICK src \in Seq(Buf), out \in Seq(Seq(Byte)), tmp \in Seq(Byte), si \in Nat, di \in Nat, tk \in Seq(Nat) :
         /\ si \in 1..Len(src) /\ di \in 1..Len(out) /\ Len(out[di]) = bc.doff + mv
         /\ src = bc.src /\ out = bc.out /\ tmp = bc.tmp /\ si = bc.sidx /\ di = bc.didx /\ tk = bc.taken
  <2>1. bc.sidx \in 1..Len(bc.src) /\ bc.didx \in 1..Len(bc.out) /\ Len(bc.out[bc.didx]) = bc.doff + mv
    BY <1>1, <1>3, HereIs
  <2>2. bc.src \in Seq(Buf) /\ bc.out \in Seq(Seq(Byte)) /\ bc.taken \in Seq(Nat) /\ bc.sidx \in Nat /\ bc.didx \in Nat
    BY <1>1 DEF BufRec
  <2> QED
    BY <1>1, <2>1, <2>2
<1>6. PICK so \in Nat, dn \in Nat, cp \in Nat : so = bc.soff /\ dn = bc.doff /\ cp = bc.copied
  BY <1>1 DEF BufRec
<1>7. PICK a \in Nat, e \in Nat, c \in Nat : a = so + mv /\ e = dn + mv /\ c = cp + mv
  <2>1. so + mv \in Nat /\ dn + mv \in Nat /\ cp + mv \in Nat
    OBVIOUS
  <2> QED
    BY <2>1
<1>8. At(src, si, a, di, e, c, tmp, tk, out) /\ Len(out) = Len(bc.dst)
  BY <1>1, <1>3, <1>5, <1>6, <1>7 DEF Here
<1>9. n \in 0..Len(tmp)
  BY <1>5
<1>10. PICK p, q : p = SubSeq(tmp, 1, n) /\ q = SubSeq(tmp, n + 1, Len(tmp))
  OBVIOUS
<1>11. p \in Seq(Byte) /\ q \in Seq(Byte) /\ Len(q) = rest
  <2>1. Carries(tmp, si, a)
    BY <1>8 DEF At
  <2>2. PICK x : x = a + n
    OBVIOUS
  <2>3. /\ SubSeq(tmp, 1, n) \in Seq(Byte)
        /\ SubSeq(tmp, n + 1, Len(tmp)) \in Seq(Byte) /\ Len(SubSeq(tmp, n + 1, Len(tmp))) = Len(tmp) - n
    BY <1>9, <2>1, <2>2, CarriesParts
  <2> QED
    BY <1>3, <1>4, <1>5, <1>10, <2>3
<1>12. PICK t : t = Arrive(bc, bc.doff + bc.moved, p)
  OBVIOUS
<1>13. ArrivesAt(t, bc, p)
  <2>1. bc.didx \in 1..Len(bc.out) /\ bc.doff + bc.moved = Len(bc.out[bc.didx])
    BY <1>3, <1>5
  <2> QED
    BY <1>1, <1>11, <1>12, <2>1, ArriveIs
<1>14. PICK o : t = [bc EXCEPT !.out = o] /\ Grown(o, bc.out, bc.didx, p, Byte)
  BY <1>13 DEF ArrivesAt
<1>15. o \in Seq(Seq(Byte)) /\ Len(o) = Len(out)
  BY <1>5, <1>14 DEF Grown
<1>16. t \in BufRec /\ SameRound(t, bc) /\ t.taken = bc.taken /\ t.out = o /\ t.tmp = bc.tmp /\ t.moved = bc.moved
  BY <1>1, <1>14, <1>15 DEF BufRec, SameRound
<1>17. PICK r : r = WrittenBy(n)
  OBVIOUS
<1>18. SetWritten(r, t, mv2, left, q)
  <2>1. r = [t EXCEPT !.moved = t.moved + n, !.asked = t.asked - n, !.tmp = SubSeq(t.tmp, n + 1, Len(t.tmp))]
    <3>1. p = SubSeq(bc.tmp, 1, n)
      BY <1>5, <1>10
    <3> QED
      BY <1>12, <1>17, <3>1 DEF WrittenBy
  <2>2. t.moved + n = mv2 /\ t.asked - n = left
    BY <1>3, <1>4, <1>16 DEF SameRound
  <2>3. SubSeq(t.tmp, n + 1, Len(t.tmp)) = q
    BY <1>5, <1>10, <1>16
  <2> QED
    BY <2>1, <2>2, <2>3 DEF SetWritten
<1>19. /\ r \in BufRec /\ r.moved = mv2 /\ r.asked = left /\ r.tmp = q /\ r.pc = t.pc
       /\ r.src = t.src /\ r.dst = t.dst /\ r.sidx = t.sidx /\ r.soff = t.soff /\ r.didx = t.didx
       /\ r.doff = t.doff /\ r.copied = t.copied /\ r.len = t.len /\ r.viaTmp = t.viaTmp
       /\ r.out = t.out /\ r.taken = t.taken
  BY <1>11, <1>16, <1>18, WrittenSet
<1>20. /\ r.src = src /\ r.dst = bc.dst /\ r.sidx = si /\ r.soff = so /\ r.didx = di /\ r.doff = dn /\ r.copied = cp
       /\ r.len = len /\ r.viaTmp = TRUE /\ r.out = o /\ r.taken = tk /\ r.pc = "tmp_write"
  BY <1>1, <1>3, <1>5, <1>6, <1>16, <1>19 DEF SameRound
<1>21. PICK x \in Nat, y \in Nat, w \in Nat : x = a + n /\ y = e + n /\ w = c + n
  <2>1. a + n \in Nat /\ e + n \in Nat /\ c + n \in Nat
    BY <1>3
  <2> QED
    BY <2>1
<1>22. At(src, si, x, di, y, w, q, tk, o)
  <2>1. Further(n, a, e, c, x, y, w)
    BY <1>21 DEF Further
  <2>2. Grown(o, out, di, SubSeq(tmp, 1, n), Byte)
    BY <1>5, <1>10, <1>14
  <2>3. si \in 1..Len(src) /\ di \in 1..Len(out) /\ At(src, si, a, di, e, c, tmp, tk, out)
    BY <1>5, <1>8
  <2>4. At(src, si, x, di, y, w, SubSeq(tmp, n + 1, Len(tmp)), tk, o)
    BY <1>9, <2>1, <2>2, <2>3, WriteOn
  <2> QED
    BY <1>10, <2>4
<1>23. so + mv2 = x /\ dn + mv2 = y /\ cp + mv2 = w
  <2>1. n \in Nat
    BY <1>3
  <2>2. so + (mv + n) = (so + mv) + n
    BY <2>1
  <2>3. dn + (mv + n) = (dn + mv) + n
    BY <2>1
  <2>4. cp + (mv + n) = (cp + mv) + n
    BY <2>1
  <2> QED
    BY <1>4, <1>7, <1>21, <2>2, <2>3, <2>4
<1>24. At(r.src, r.sidx, r.soff + mv2, r.didx, r.doff + mv2, r.copied + mv2, r.tmp, r.taken, r.out)
  BY <1>19, <1>20, <1>22, <1>23
<1>25. dn + len <= bc.dst[di].size
  BY <1>1, <1>3, <1>5, <1>6 DEF Active
<1>26. dn + mv2 <= bc.dst[di].size
  <2>1. PICK room \in Nat : room = bc.dst[di].size
    BY <1>1, <1>5, RoundRoom
  <2>2. dn + mv2 <= dn + len /\ dn + len <= room
    <3>1. mv2 <= len
      BY <1>4
    <3>2. dn + len <= room
      BY <1>25, <2>1
    <3> QED
      BY <3>1, <3>2
  <2>3. dn + mv2 <= room
    BY <2>2
  <2> QED
    BY <2>1, <2>3
<1>27. Here(r, mv2)
  <2>1. Len(r.out) = Len(r.dst)
    BY <1>8, <1>15, <1>20
  <2>2. r.doff + mv2 <= r.dst[r.didx].size
    BY <1>20, <1>26
  <2> QED
    BY <1>24, <2>1, <2>2 DEF Here
<1>28. Active(r)
  <2>1. r.sidx <= Len(r.src) /\ r.didx <= Len(r.dst)
    BY <1>1, <1>5, <1>20
  <2>2. r.moved <= r.len
    BY <1>4, <1>19, <1>20
  <2>3. r.soff + r.len <= r.src[r.sidx].size /\ r.doff + r.len <= r.dst[r.didx].size
    BY <1>1, <1>3, <1>5, <1>6, <1>20, <1>25
  <2> QED
    BY <1>19, <1>27, <2>1, <2>2, <2>3 DEF Active
<1>29. Len(r.tmp) <= r.asked /\ r.moved + r.asked <= r.len
  BY <1>4, <1>11, <1>19, <1>20
<1> QED
  BY <1>17, <1>19, <1>20, <1>28, <1>29

\* A buffer of fd_to_fd that ends its round: when all was moved, all was written.
LEMMA WrittenEnds ==
    ASSUME NEW b \in BufRec, Active(b), b.viaTmp = TRUE, Len(b.tmp) <= b.asked, b.moved + b.asked <= b.len
    PROVE  Ending(b) /\ (b.asked <= 0 => b.tmp = <<>>)
<1>1. b.moved \in Nat /\ b.asked \in Nat /\ b.len \in Nat /\ b.tmp \in Seq(Byte) /\ Len(b.tmp) \in Nat
  BY DEF BufRec
<1>2. ASSUME b.asked <= 0
      PROVE  b.tmp = <<>>
  <2>1. Len(b.tmp) = 0
    BY <1>1, <1>2
  <2> QED
    BY <1>1, <2>1, EmptySeq
<1>3. b.moved >= b.len => b.asked <= 0
  BY <1>1
<1> QED
  BY <1>2, <1>3 DEF Ending

\* ... and one that is full and written: the next is read.
LEMMA ReadSet ==
    ASSUME NEW b \in BufRec, Active(b), b.tmp = <<>>, NEW r, r = [b EXCEPT !.pc = "tmp_read", !.viaTmp = TRUE]
    PROVE  CopyInv(r)
<1>1. r \in BufRec /\ r.pc = "tmp_read" /\ r.viaTmp = TRUE
  BY DEF BufRec, TmpCalls
<1>2. /\ r.src = b.src /\ r.dst = b.dst /\ r.sidx = b.sidx /\ r.soff = b.soff /\ r.didx = b.didx
      /\ r.doff = b.doff /\ r.copied = b.copied /\ r.len = b.len
      /\ r.tmp = b.tmp /\ r.taken = b.taken /\ r.out = b.out /\ r.moved = b.moved
  BY DEF BufRec
<1>3. Active(r)
  BY <1>2 DEF Active, Here
<1>4. Len(r.tmp) <= TmpSize /\ r.moved + Len(r.tmp) <= r.len
  <2>1. Len(r.tmp) = 0
    BY <1>2, NothingCarries
  <2>2. r.moved \in Nat /\ r.len \in Nat /\ r.moved <= r.len
    BY <1>1, <1>3 DEF BufRec, Active
  <2>3. 0 <= TmpSize
    BY BufAssumption
  <2>4. r.moved + 0 <= r.len
    BY <2>2
  <2> QED
    BY <2>1, <2>3, <2>4
<1> QED
  BY <1>1, <1>2, <1>3, <1>4 DEF CopyInv, Calls, TmpCalls

\* A write of fd_to_fd's buffer.
LEMMA TmpWriteRight ==
    ASSUME CopyInv(bc), NEW n \in Nat, TmpWrite(n)
    PROVE  CopyInv(bc')
<1>0. bc.pc = "tmp_write" /\ n <= Len(bc.tmp) /\ bc.pc \in TmpCalls
  BY DEF TmpWrite, TmpCalls
<1>1. n \in 0..Len(bc.tmp)
  <2>1. bc.tmp \in Seq(Byte)
    BY <1>0, TmpRound
  <2> QED
    BY <1>0, <2>1
<1>2. PICK b : b = WrittenBy(n)
  OBVIOUS
<1>3. /\ b \in BufRec /\ Active(b) /\ b.viaTmp = TRUE
      /\ b.pc = "tmp_write" /\ Len(b.tmp) <= b.asked /\ b.moved + b.asked <= b.len
  BY <1>0, <1>1, <1>2, WrittenRight
<1>4. bc' = b \/ bc' = TmpWritten(b)
  BY <1>2 DEF TmpWrite, WrittenBy
<1>5. Ending(b) /\ (b.asked <= 0 => b.tmp = <<>>)
  BY <1>3, WrittenEnds
<1>6. CopyInv(b)
  BY <1>3 DEF CopyInv, Calls, TmpCalls
<1>7. CopyInv(Ends(b))
  BY <1>5, EndsRight
<1>8. CASE b.asked > 0 \/ b.moved = b.len
  BY <1>4, <1>6, <1>7, <1>8 DEF TmpWritten
<1>9. CASE ~(b.asked > 0 \/ b.moved = b.len)
  <2>1. b.tmp = <<>>
    <3>1. b.asked \in Nat
      BY <1>3 DEF BufRec
    <3>2. b.asked <= 0
      BY <1>9, <3>1
    <3> QED
      BY <1>5, <3>2
  <2>2. PICK r : r = [b EXCEPT !.pc = "tmp_read", !.viaTmp = TRUE]
    OBVIOUS
  <2>3. [b EXCEPT !.pc = "tmp_read", !.tmp = <<>>] = r
    BY <1>3, <2>1, <2>2 DEF BufRec
  <2>4. CopyInv(r)
    BY <1>3, <2>1, <2>2, ReadSet
  <2> QED
    BY <1>4, <1>6, <1>9, <2>3, <2>4 DEF TmpWritten
<1> QED
  BY <1>8, <1>9

\* ... and one that fails: the copy reports what has been written.
LEMMA TmpWriteFailsRight ==
    ASSUME CopyInv(bc), TmpWriteFails
    PROVE  CopyInv(bc')
<1>0. bc.pc = "tmp_write" /\ bc.pc \in TmpCalls
  BY DEF TmpWriteFails, TmpCalls
<1>1. bc \in BufRec /\ Active(bc) /\ bc.viaTmp = TRUE
  BY <1>0, TmpRound
<1>2. Len(bc.tmp) <= bc.asked /\ bc.moved + bc.asked <= bc.len
  BY <1>0 DEF CopyInv
<1>3. Ending(bc)
  BY <1>1, <1>2, WrittenEnds
<1>4. CopyInv(Fails(bc))
  BY <1>3, FailsRight
<1> QED
  BY <1>4 DEF TmpWriteFails

\* A failing read, write or splice.
LEMMA CallFailsRight ==
    ASSUME CopyInv(bc), SpliceFails(TRUE) \/ SpliceFails(FALSE) \/ ReadWriteFails
    PROVE  CopyInv(bc')
<1>0. bc.pc \in Calls
  BY DEF SpliceFails, ReadWriteFails, Calls
<1>1. bc \in BufRec /\ Active(bc) /\ bc.tmp = <<>>
  BY <1>0 DEF CopyInv
<1>2. Ending(bc)
  BY <1>1 DEF Ending
<1>3. CopyInv(Fails(bc))
  BY <1>2, FailsRight
<1>4. PICK r : r = [bc EXCEPT !.pc = "tmp_read", !.viaTmp = TRUE]
  OBVIOUS
<1>5. CopyInv(r)
  BY <1>1, <1>4, ReadSet
<1>6. bc' = r \/ bc' = Fails(bc)
  BY <1>4 DEF SpliceFails, ReadWriteFails
<1> QED
  BY <1>3, <1>5, <1>6

-----------------------------------------------------------------------------
(***************************************************************************)
(* The start of a round, and the theorem.                                  *)
(***************************************************************************)
\* The record of a round of n bytes.
RoundOf(n) == [bc EXCEPT !.len = n, !.moved = 0]

SetRound(r, b, n) == r = [b EXCEPT !.len = n, !.moved = 0]

\* What the start of a round leaves alone.
LEMMA RoundSet ==
    ASSUME NEW b \in BufRec, NEW n \in Nat, NEW r, SetRound(r, b, n)
    PROVE  /\ r \in BufRec /\ r.moved = 0 /\ r.len = n /\ r.pc = b.pc /\ r.mode = b.mode
           /\ r.src = b.src /\ r.dst = b.dst /\ r.sidx = b.sidx /\ r.soff = b.soff /\ r.didx = b.didx
           /\ r.doff = b.doff /\ r.copied = b.copied /\ r.viaTmp = b.viaTmp
           /\ r.tmp = b.tmp /\ r.out = b.out /\ r.taken = b.taken
  BY DEF BufRec, SetRound

\* What both buffers have left, and what of it a round is for.
LEMMA RoundIs ==
    ASSUME CopyInv(bc), bc.pc = "loop", bc.sidx <= Len(bc.src), bc.didx <= Len(bc.dst),
           NEW n, n = MinOf(Src.size - bc.soff, Dst.size - bc.doff)
    PROVE  /\ n \in Nat /\ RoundOf(n) \in BufRec /\ Active(RoundOf(n)) /\ Here(RoundOf(n), 0)
           /\ RoundOf(n).tmp = <<>> /\ RoundOf(n).moved = 0 /\ RoundOf(n).len = n
           /\ RoundOf(n).sidx = bc.sidx /\ RoundOf(n).taken = bc.taken /\ RoundOf(n).src = bc.src
<1>1. bc \in BufRec /\ Here(bc, 0) /\ bc.tmp = <<>>
  BY DEF CopyInv
<1>2. bc.sidx \in 1..Len(bc.src) /\ bc.didx \in 1..Len(bc.out)
  BY <1>1, HereIs
<1>3. bc.src \in Seq(Buf) /\ bc.dst \in Seq(Buf) /\ bc.soff \in Nat /\ bc.doff \in Nat
  BY <1>1 DEF BufRec
<1>4. PICK ssz \in Nat, dsz \in Nat : ssz = bc.src[bc.sidx].size /\ dsz = bc.dst[bc.didx].size
  <2>1. Len(bc.out) = Len(bc.dst)
    BY <1>1 DEF Here
  <2>2. bc.src[bc.sidx] \in Buf /\ bc.dst[bc.didx] \in Buf
    BY <1>2, <1>3, <2>1, ElementOfSeq
  <2> QED
    BY <2>2 DEF Buf
<1>5. PICK so \in Nat, dn \in Nat : so = bc.soff /\ dn = bc.doff
  BY <1>3
<1>6. so <= ssz
  <2>1. Fits(bc.src, bc.sidx, bc.soff + 0 + Len(bc.tmp))
    BY <1>1 DEF Here, At
  <2>2. bc.soff + 0 + Len(bc.tmp) = so
    BY <1>1, <1>5, NothingCarries
  <2> QED
    BY <1>4, <2>1, <2>2 DEF Fits
<1>7. dn <= dsz
  <2>1. bc.doff + 0 <= bc.dst[bc.didx].size
    BY <1>1 DEF Here
  <2>2. bc.doff + 0 = dn
    BY <1>5
  <2> QED
    BY <1>4, <2>1, <2>2
<1>8. n \in Nat /\ so + n <= ssz /\ dn + n <= dsz
  <2>1. n = MinOf(ssz - so, dsz - dn)
    BY <1>4, <1>5 DEF Src, Dst
  <2> QED
    BY <1>6, <1>7, <2>1 DEF MinOf
<1>9. PICK b : b = RoundOf(n)
  OBVIOUS
<1>10. /\ b \in BufRec /\ b.moved = 0 /\ b.len = n /\ b.pc = bc.pc
       /\ b.src = bc.src /\ b.dst = bc.dst /\ b.sidx = bc.sidx /\ b.soff = bc.soff /\ b.didx = bc.didx
       /\ b.doff = bc.doff /\ b.copied = bc.copied /\ b.viaTmp = bc.viaTmp
       /\ b.tmp = bc.tmp /\ b.out = bc.out /\ b.taken = bc.taken
  <2>1. SetRound(b, bc, n)
    BY <1>9 DEF SetRound, RoundOf
  <2> QED
    BY <1>1, <1>8, <2>1, RoundSet
<1>11. Here(b, 0)
  BY <1>1, <1>10 DEF Here
<1>12. Active(b)
  <2>1. b.moved <= b.len
    BY <1>8, <1>10
  <2>2. b.soff + b.len <= b.src[b.sidx].size /\ b.doff + b.len <= b.dst[b.didx].size
    BY <1>4, <1>5, <1>8, <1>10
  <2>3. b.sidx <= Len(b.src) /\ b.didx <= Len(b.dst)
    BY <1>10
  <2> QED
    BY <1>10, <1>11, <2>1, <2>2, <2>3 DEF Active
<1> QED
  BY <1>1, <1>8, <1>9, <1>10, <1>11, <1>12

\* Memory is copied at once.
LEMMA MemRight ==
    ASSUME NEW b \in BufRec, Active(b), Here(b, 0), b.tmp = <<>>, NEW n \in Nat, b.len = n,
           b.sidx = bc.sidx, b.taken = bc.taken, b.src = bc.src, Src.kind = "mem"
    PROVE  CopyInv(Copied1(Arrive(b, b.doff, From(b, b.soff, n)), n))
<1>1. /\ b.sidx <= Len(b.src) /\ b.didx <= Len(b.dst) /\ b.soff + n <= b.src[b.sidx].size
      /\ b.doff + n <= b.dst[b.didx].size
  BY DEF Active
<1>2. PICK so \in Nat, dn \in Nat : so = b.soff /\ dn = b.doff
  BY DEF BufRec
<1>3. so + 0 = so /\ dn + 0 = dn /\ so + 0 + n = so + n /\ dn + 0 + n = dn + n /\ 0 + n = n
  OBVIOUS
<1>4. PICK bytes : bytes = NextBytes(b.src, b.sidx, b.soff + 0, b.taken, n)
  OBVIOUS
<1>5. bytes \in Seq(Byte)
  <2>1. b.soff + 0 + Len(b.tmp) = b.soff + 0
    BY <1>2, NothingCarries
  <2>2. b.soff + 0 + Len(b.tmp) + n <= b.src[b.sidx].size
    BY <1>1, <1>2, <1>3, <2>1
  <2>3. NextBytes(b.src, b.sidx, b.soff + 0 + Len(b.tmp), b.taken, n) \in Seq(Byte)
    BY <1>1, <2>2, NextOfRound
  <2> QED
    BY <1>4, <2>1, <2>3
<1>6. From(b, b.soff, n) = bytes
  <2>1. From(b, b.soff, n) = NextBytes(bc.src, bc.sidx, b.soff, bc.taken, n)
    BY FromIs
  <2> QED
    BY <1>2, <1>3, <1>4, <2>1
<1>7. PICK r : r = Arrive(b, b.doff, bytes)
  OBVIOUS
<1>8. ArrivesAt(r, b, bytes)
  <2>1. b.didx \in 1..Len(b.out) /\ Len(b.out[b.didx]) = b.doff + 0
    BY <1>1, HereIs
  <2>2. b.doff = Len(b.out[b.didx])
    BY <1>2, <1>3, <2>1
  <2> QED
    BY <1>5, <1>7, <2>1, <2>2, ArriveIs
<1>9. PICK o : r = [b EXCEPT !.out = o] /\ Grown(o, b.out, b.didx, bytes, Byte)
  BY <1>8 DEF ArrivesAt
<1>10. o \in Seq(Seq(Byte))
  BY <1>9 DEF Grown
<1>11. r \in BufRec /\ SameRound(r, b) /\ r.taken = b.taken /\ r.out = o /\ r.tmp = b.tmp
  BY <1>9, <1>10 DEF BufRec, SameRound
<1>12. TakenOf(b.src, b.sidx, b.taken, n) = b.taken
  BY DEF TakenOf, Src
<1>13. Passes(r, b, 0, n)
  BY <1>4, <1>9, <1>11, <1>12 DEF Passes
<1>14. Here(r, 0 + n)
  <2>1. b.soff + 0 + n <= b.src[b.sidx].size /\ b.doff + 0 + n <= b.dst[b.didx].size
    BY <1>1, <1>2, <1>3
  <2> QED
    BY <1>1, <1>11, <1>13, <2>1, Passed
<1>15. Here(r, n) /\ r.sidx <= Len(r.src) /\ r.didx <= Len(r.dst) /\ r.tmp = <<>>
  BY <1>1, <1>3, <1>11, <1>14 DEF SameRound
<1>16. CopyInv(Copied1(r, n))
  BY <1>11, <1>15, CopiedRight
<1> QED
  BY <1>6, <1>7, <1>16

\* A round that is about to make its first call.
LEMMA CallSet ==
    ASSUME NEW b \in BufRec, Active(b), b.tmp = <<>>, NEW pc \in Calls
    PROVE  CopyInv([b EXCEPT !.pc = pc])
<1>1. PICK r : r = [b EXCEPT !.pc = pc]
  OBVIOUS
<1>2. r \in BufRec /\ r.pc = pc
  BY <1>1 DEF BufRec
<1>3. /\ r.src = b.src /\ r.dst = b.dst /\ r.sidx = b.sidx /\ r.soff = b.soff /\ r.didx = b.didx
      /\ r.doff = b.doff /\ r.copied = b.copied /\ r.len = b.len
      /\ r.tmp = b.tmp /\ r.taken = b.taken /\ r.out = b.out /\ r.moved = b.moved
  BY <1>1 DEF BufRec
<1>4. Active(r)
  BY <1>3 DEF Active, Here
<1>5. CopyInv(r)
  BY <1>2, <1>3, <1>4 DEF CopyInv, Calls, TmpCalls
<1> QED
  BY <1>1, <1>5

\* The head of the loop and fuse_buf_copy_one.
LEMMA CopyOneRight ==
    ASSUME CopyInv(bc), CopyOne
    PROVE  CopyInv(bc')
<1>1. bc.pc = "loop" /\ bc \in BufRec /\ Here(bc, 0) /\ bc.tmp = <<>> /\ bc.copied \in Nat
  BY DEF CopyOne, CopyInv, BufRec
<1>2. CASE bc.sidx > Len(bc.src) \/ bc.didx > Len(bc.dst)
  <2>0. PICK x \in Int : x = bc.copied
    BY <1>1
  <2>1. PICK r : r = [bc EXCEPT !.pc = "return", !.result = x]
    OBVIOUS
  <2>2. bc' = r
    BY <1>2, <2>0, <2>1 DEF CopyOne
  <2>3. ReturnIs(r, bc, x)
    BY <1>1, <2>1, ReturnSet DEF SetReturn
  <2>4. Reports(r, bc, 0) /\ r \in BufRec /\ r.pc = "return"
    <3>1. x = bc.copied + 0
      BY <1>1, <2>0
    <3> QED
      BY <2>3, <3>1 DEF ReturnIs, Keeps, Reports
  <2>5. Done(r)
    BY <1>1, <2>4, Finishes
  <2>6. CopyInv(r)
    BY <2>4, <2>5, Returned
  <2> QED
    BY <2>2, <2>6
<1>3. CASE ~(bc.sidx > Len(bc.src) \/ bc.didx > Len(bc.dst))
  <2>1. PICK n : n = MinOf(Src.size - bc.soff, Dst.size - bc.doff)
    OBVIOUS
  <2>2. bc' = fuse_buf_copy_one(n)
    BY <1>3, <2>1 DEF CopyOne
  <2>3. bc.sidx <= Len(bc.src) /\ bc.didx <= Len(bc.dst)
    <3>1. bc.sidx \in Nat /\ bc.didx \in Nat /\ Len(bc.src) \in Nat /\ Len(bc.dst) \in Nat
      BY <1>1 DEF BufRec
    <3> QED
      BY <1>3, <3>1
  <2>4. PICK b : b = RoundOf(n)
    OBVIOUS
  <2>5. /\ n \in Nat /\ b \in BufRec /\ Active(b) /\ Here(b, 0) /\ b.tmp = <<>> /\ b.moved = 0 /\ b.len = n
        /\ b.sidx = bc.sidx /\ b.taken = bc.taken /\ b.src = bc.src
    BY <1>1, <2>1, <2>3, <2>4, RoundIs
  <2>6. fuse_buf_copy_one(n) =
          CASE n = 0 -> Copied1(b, 0)
            [] n > 0 /\ Src.kind = "mem" /\ Dst.kind = "mem" ->
                  Copied1(Arrive(b, b.doff, From(b, b.soff, n)), n)
            [] n > 0 /\ Src.kind = "mem" /\ Dst.kind # "mem" -> [b EXCEPT !.pc = "write"]
            [] n > 0 /\ Src.kind # "mem" /\ Dst.kind = "mem" -> [b EXCEPT !.pc = "read"]
            [] n > 0 /\ Src.kind # "mem" /\ Dst.kind # "mem" ->
                  [b EXCEPT !.pc = IF b.mode = "no_splice" THEN "tmp_read" ELSE "splice",
                            !.viaTmp = @ \/ b.mode = "no_splice"]
    BY <2>4 DEF fuse_buf_copy_one, RoundOf
  <2>7. CASE n = 0
    <3>1. ~(n > 0)
      BY <2>7
    <3>2. bc' = Copied1(b, 0)
      BY <2>2, <2>6, <2>7, <3>1
    <3>3. CopyInv(Copied1(b, 0))
      <4>1. b.sidx <= Len(b.src) /\ b.didx <= Len(b.dst)
        BY <2>5 DEF Active
      <4>2. 0 \in Nat
        OBVIOUS
      <4> QED
        BY <2>5, <4>1, <4>2, CopiedRight
    <3> QED
      BY <3>2, <3>3
  <2>8. CASE n # 0
    <3>1. n > 0
      BY <2>5, <2>8
    <3>2. CASE Src.kind = "mem" /\ Dst.kind = "mem"
      <4>1. bc' = Copied1(Arrive(b, b.doff, From(b, b.soff, n)), n)
        BY <2>2, <2>6, <2>8, <3>1, <3>2
      <4>2. CopyInv(Copied1(Arrive(b, b.doff, From(b, b.soff, n)), n))
        BY <2>5, <3>2, MemRight
      <4> QED
        BY <4>1, <4>2
    <3>3. CASE Src.kind = "mem" /\ Dst.kind # "mem"
      <4>1. bc' = [b EXCEPT !.pc = "write"]
        BY <2>2, <2>6, <2>8, <3>1, <3>3
      <4>2. CopyInv([b EXCEPT !.pc = "write"])
        BY <2>5, CallSet DEF Calls
      <4> QED
        BY <4>1, <4>2
    <3>4. CASE Src.kind # "mem" /\ Dst.kind = "mem"
      <4>1. bc' = [b EXCEPT !.pc = "read"]
        BY <2>2, <2>6, <2>8, <3>1, <3>4
      <4>2. CopyInv([b EXCEPT !.pc = "read"])
        BY <2>5, CallSet DEF Calls
      <4> QED
        BY <4>1, <4>2
    <3>5. CASE Src.kind # "mem" /\ Dst.kind # "mem"
      <4>1. bc' = [b EXCEPT !.pc = IF b.mode = "no_splice" THEN "tmp_read" ELSE "splice",
                            !.viaTmp = b.viaTmp \/ b.mode = "no_splice"]
        BY <2>2, <2>6, <2>8, <3>1, <3>5
      <4>2. CASE b.mode = "no_splice"
        <5>1. (b.viaTmp \/ b.mode = "no_splice") = TRUE
          BY <4>2
        <5>2. PICK r : r = [b EXCEPT !.pc = "tmp_read", !.viaTmp = TRUE]
          OBVIOUS
        <5>3. bc' = r
          BY <4>1, <4>2, <5>1, <5>2
        <5>4. CopyInv(r)
          BY <2>5, <5>2, ReadSet
        <5> QED
          BY <5>3, <5>4
      <4>3. CASE b.mode # "no_splice"
        <5>1. b.viaTmp \in BOOLEAN
          BY <2>5 DEF BufRec
        <5>2. (b.viaTmp \/ b.mode = "no_splice") = b.viaTmp
          BY <4>3, <5>1, Zenon
        <5>3. bc' = [b EXCEPT !.pc = "splice", !.viaTmp = b.viaTmp]
          BY <4>1, <4>3, <5>2, Zenon
        <5>4. [b EXCEPT !.pc = "splice", !.viaTmp = b.viaTmp] = [b EXCEPT !.pc = "splice"]
          BY <2>5 DEF BufRec
        <5>5. CopyInv([b EXCEPT !.pc = "splice"])
          BY <2>5, CallSet DEF Calls
        <5> QED
          BY <5>3, <5>4, <5>5
      <4> QED
        BY <4>2, <4>3
    <3> QED
      BY <3>2, <3>3, <3>4, <3>5
  <2> QED
    BY <2>7, <2>8
<1> QED
  BY <1>2, <1>3

\* Nothing has been copied yet.
LEMMA StartsRight ==
    ASSUME NEW src \in Seq(Buf), NEW dst \in Seq(Buf), NEW tk, tk = [i \in DOMAIN src |-> 0],
           NEW out, out = [j \in DOMAIN dst |-> <<>>]
    PROVE  /\ tk \in Seq(Nat) /\ out \in Seq(Seq(Byte)) /\ Len(out) = Len(dst)
           /\ At(src, 1, 0, 1, 0, 0, <<>>, tk, out)
<1>1. PICK S \in Nat, D \in Nat : S = Len(src) /\ D = Len(dst) /\ DOMAIN src = 1..S /\ DOMAIN dst = 1..D
  OBVIOUS
<1>2. tk \in Seq(Nat) /\ Len(tk) = S /\ \A i \in 1..S : tk[i] = 0
  <2>1. tk \in [1..S -> Nat]
    BY <1>1
  <2> QED
    BY <1>1, <2>1
<1>3. <<>> \in Seq(Byte) /\ Len(<<>>) = 0
  BY NothingCarries
<1>4. out \in Seq(Seq(Byte)) /\ Len(out) = D /\ \A j \in 1..D : out[j] = <<>>
  <2>1. out \in [1..D -> Seq(Byte)] /\ \A j \in 1..D : out[j] = <<>>
    BY <1>1, <1>3
  <2> QED
    BY <2>1
<1>5. FlattenSeq(out) = <<>>
  <2>1. \A i \in 1..Len(out) : out[i] = <<>>
    BY <1>4
  <2> QED
    BY <1>4, <2>1, FlattenEmpty
<1>6. Place(src, 1) = 0 /\ AllBytes(src) \in Seq(Byte)
  BY Places DEF PlacesRight
<1>7. SubSeq(AllBytes(src), 1, 0) = <<>>
  <2>1. 0 \in 0..Len(AllBytes(src))
    BY <1>6
  <2>2. SubSeq(AllBytes(src), 1, 0) \in Seq(Byte) /\ Len(SubSeq(AllBytes(src), 1, 0)) = 0
    BY <1>6, <2>1, PrefixIs
  <2> QED
    BY <2>2, EmptySeq
<1>8. Fits(src, 1, 0)
  <2>1. CASE 1 <= Len(src)
    <3>1. 1 \in 1..Len(src)
      BY <1>1, <2>1
    <3>2. src[1] \in Buf
      BY <3>1, ElementOfSeq
    <3>3. src[1].size \in Nat
      BY <3>2 DEF Buf
    <3> QED
      BY <3>3 DEF Fits
  <2>2. CASE ~(1 <= Len(src))
    BY <2>2 DEF Fits
  <2> QED
    BY <2>1, <2>2
<1>9. Drawn(src, 1, 0, tk)
  <2>1. ASSUME NEW i \in 1..Len(src)
        PROVE  tk[i] = IF i < 1 THEN src[i].size ELSE IF i = 1 THEN 0 ELSE 0
    <3>1. ~(i < 1) /\ tk[i] = 0
      BY <1>1, <1>2
    <3> QED
      BY <3>1
  <2> QED
    BY <2>1 DEF Drawn
<1>10. NoneAfter(out, 1)
  BY <1>4 DEF NoneAfter
<1>11. AtNone(src, 1, 0, 1, 0, 0, tk, out)
  <2>1. 1 <= Len(out) => Len(out[1]) = 0
    <3>1. ASSUME 1 <= Len(out)
          PROVE  Len(out[1]) = 0
      <4>1. 1 \in 1..D
        BY <1>4, <3>1
      <4>2. out[1] = <<>>
        BY <1>4, <4>1
      <4> QED
        BY <1>3, <4>2
    <3> QED
      BY <3>1
  <2>2. 0 = Place(src, 1) + 0
    BY <1>6
  <2> QED
    BY <1>1, <1>2, <1>5, <1>7, <1>8, <1>9, <1>10, <2>1, <2>2 DEF AtNone
<1>12. 1 \in 1..(Len(src) + 1) /\ 1 \in 1..(Len(out) + 1) /\ 0 \in Nat
  BY <1>1, <1>4
<1>13. At(src, 1, 0, 1, 0, 0, <<>>, tk, out)
  BY <1>4, <1>11, <1>12, AtEmpty
<1> QED
  BY <1>1, <1>2, <1>4, <1>13

\* Every call starts so.
LEMMA CopyInit ==
    ASSUME BufInit
    PROVE  CopyInv(bc)
<1>1. PICK src \in SrcVecs, dst \in DstVecs, mode \in Modes :
        bc = [pc |-> "loop", src |-> src, dst |-> dst, mode |-> mode,
              sidx |-> 1, soff |-> 0, didx |-> 1, doff |-> 0, copied |-> 0, result |-> 0,
              len |-> 0, moved |-> 0, tmp |-> <<>>, asked |-> 0,
              taken |-> [i \in DOMAIN src |-> 0],
              out |-> [j \in DOMAIN dst |-> <<>>],
              viaTmp |-> FALSE]
  BY DEF BufInit, BufStarts, Modes
<1>2. src \in Seq(Buf) /\ dst \in Seq(Buf)
  BY BufAssumption
<1>3. PICK tk, out : tk = [i \in DOMAIN src |-> 0] /\ out = [j \in DOMAIN dst |-> <<>>]
  OBVIOUS
<1>4. /\ tk \in Seq(Nat) /\ out \in Seq(Seq(Byte)) /\ Len(out) = Len(dst)
      /\ At(src, 1, 0, 1, 0, 0, <<>>, tk, out)
  BY <1>2, <1>3, StartsRight
<1>5. bc = [pc |-> "loop", src |-> src, dst |-> dst, mode |-> mode,
            sidx |-> 1, soff |-> 0, didx |-> 1, doff |-> 0, copied |-> 0, result |-> 0,
            len |-> 0, moved |-> 0, tmp |-> <<>>, asked |-> 0, taken |-> tk, out |-> out, viaTmp |-> FALSE]
  BY <1>1, <1>3
<1>6. <<>> \in Seq(Byte)
  BY NothingCarries
<1>7. bc \in BufRec
  BY <1>2, <1>4, <1>5, <1>6 DEF BufRec
<1>8. /\ bc.pc = "loop" /\ bc.src = src /\ bc.dst = dst /\ bc.sidx = 1 /\ bc.soff = 0 /\ bc.didx = 1 /\ bc.doff = 0
      /\ bc.copied = 0 /\ bc.tmp = <<>> /\ bc.taken = tk /\ bc.out = out
  BY <1>5
<1>9. 1 <= Len(dst) => dst[1].size >= 0
  <2>1. ASSUME 1 <= Len(dst)
        PROVE  dst[1].size >= 0
    <3>1. 1 \in 1..Len(dst)
      BY <1>2, <2>1
    <3>2. dst[1] \in Buf
      BY <1>2, <3>1, ElementOfSeq
    <3>3. dst[1].size \in Nat
      BY <3>2 DEF Buf
    <3> QED
      BY <3>3
  <2> QED
    BY <2>1
<1>10. bc.soff + 0 = 0 /\ bc.doff + 0 = 0 /\ bc.copied + 0 = 0
  BY <1>8
<1>11. Here(bc, 0)
  <2>1. bc.didx <= Len(bc.dst) => bc.doff + 0 <= bc.dst[bc.didx].size
    BY <1>8, <1>9, <1>10
  <2> QED
    BY <1>4, <1>8, <1>10, <2>1 DEF Here
<1> QED
  BY <1>7, <1>8, <1>11 DEF CopyInv, Calls, TmpCalls

\* Every step of a call keeps it so.
LEMMA CopyNext ==
    ASSUME CopyInv(bc), [BufNext]_bc
    PROVE  CopyInv(bc')
<1>0. 0..bc.len \subseteq Nat
  BY DEF CopyInv, BufRec
<1>1. CASE CopyOne
  BY <1>1, CopyOneRight
<1>2. ASSUME NEW n \in 0..bc.len, fuse_buf_write(n)
      PROVE  CopyInv(bc')
  BY <1>0, <1>2, MovesRight DEF fuse_buf_write, Calls
<1>3. ASSUME NEW n \in 0..bc.len, fuse_buf_read(n)
      PROVE  CopyInv(bc')
  BY <1>0, <1>3, MovesRight DEF fuse_buf_read, Calls
<1>4. ASSUME NEW n \in 0..bc.len, fuse_buf_splice(n)
      PROVE  CopyInv(bc')
  BY <1>0, <1>4, MovesRight DEF fuse_buf_splice, Calls
<1>5. ASSUME NEW einval \in BOOLEAN, SpliceFails(einval)
      PROVE  CopyInv(bc')
  <2>1. SpliceFails(TRUE) \/ SpliceFails(FALSE)
    BY <1>5, Zenon
  <2> QED
    BY <2>1, CallFailsRight
<1>6. CASE ReadWriteFails
  BY <1>6, CallFailsRight
<1>7. ASSUME NEW n \in 0..bc.len, TmpRead(n)
      PROVE  CopyInv(bc')
  BY <1>0, <1>7, TmpReadRight
<1>8. CASE TmpReadFails
  BY <1>8, TmpReadFailsRight
<1>9. ASSUME NEW n \in 0..bc.len, TmpWrite(n)
      PROVE  CopyInv(bc')
  BY <1>0, <1>9, TmpWriteRight
<1>10. CASE TmpWriteFails
  BY <1>10, TmpWriteFailsRight
<1>11. CASE UNCHANGED bc
  BY <1>11 DEF CopyInv
<1> QED
  BY <1>1, <1>2, <1>3, <1>4, <1>5, <1>6, <1>7, <1>8, <1>9, <1>10, <1>11 DEF BufNext

\* A call that has returned reports what has arrived, and has lost nothing else.
LEMMA CopyIs ==
    ASSUME CopyInv(bc)
    PROVE  CopyRight
<1>1. ASSUME bc.pc = "return"
      PROVE  Done(bc)
  BY <1>1 DEF CopyInv
<1>2. CopyFaithful
  BY <1>1 DEF CopyFaithful, Done
<1>3. NothingLost
  BY <1>1 DEF NothingLost, Done, Accounted
<1> QED
  BY <1>2, <1>3 DEF CopyRight

\* fuse_buf_copy, for all vectors of buffers, all sizes of fd_to_fd's buffer and all short, failing
\* and retried calls: the result is the number of bytes that have arrived, they are the first of
\* the source in order, and a descriptor without a position has given exactly its share of them.
THEOREM CopyStaysRight == BufSpec => []CopyRight
<1>1. BufInit => CopyInv(bc)
  BY CopyInit
<1>2. CopyInv(bc) /\ [BufNext]_bc => CopyInv(bc)'
  BY CopyNext
<1>3. CopyInv(bc) => CopyRight
  BY CopyIs
<1> QED
  BY <1>1, <1>2, <1>3, PTL DEF BufSpec
=============================================================================
