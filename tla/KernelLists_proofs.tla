------------------------ MODULE KernelLists_proofs ------------------------
(***************************************************************************)
(* What the operations on kernel lists do to their entries.                *)
(***************************************************************************)
EXTENDS KernelLists, TLAPS, SequenceTheorems, FiniteSetTheorems

\* The entries of a list over S are members of S; an empty list has none.
LEMMA ElemsType ==
    ASSUME NEW S, NEW l \in Seq(S)
    PROVE  /\ Elems(l) \subseteq S
           /\ l # <<>> => Head(l) \in Elems(l)
           /\ Tail(l) \in Seq(S) \/ l = <<>>
           /\ l # <<>> => Elems(Tail(l)) \subseteq Elems(l)
           /\ l = <<>> => Elems(l) = {}
  <1>1. Elems(l) \subseteq S
    BY DEF Elems
  <1>2. l # <<>> => Head(l) \in Elems(l)
    BY DEF Elems
  <1>3. l # <<>> => Tail(l) \in Seq(S)
    OBVIOUS
  <1>4. l # <<>> => Elems(Tail(l)) \subseteq Elems(l)
    <2>1. SUFFICES ASSUME l # <<>>, NEW i \in DOMAIN Tail(l)
                   PROVE  Tail(l)[i] \in Elems(l)
      BY DEF Elems
    <2>2. i + 1 \in DOMAIN l /\ Tail(l)[i] = l[i + 1]
      BY <2>1
    <2> QED BY <2>2 DEF Elems
  <1>5. l = <<>> => Elems(l) = {}
    BY DEF Elems
  <1> QED BY <1>1, <1>2, <1>3, <1>4, <1>5

\* Taking the first entry off a list without duplicates removes exactly it.
LEMMA ElemsTail ==
    ASSUME NEW S, NEW l \in Seq(S), NoDup(l), l # <<>>
    PROVE  Elems(Tail(l)) = Elems(l) \ {Head(l)} /\ NoDup(Tail(l))
  <1>1. /\ Len(l) \in Nat /\ DOMAIN l = 1 .. Len(l) /\ Head(l) = l[1] /\ 1 \in DOMAIN l
        /\ DOMAIN Tail(l) = 1 .. (Len(l) - 1)
        /\ \A i \in 1 .. (Len(l) - 1) : Tail(l)[i] = l[i + 1]
    OBVIOUS
  <1>2. \A i \in 1 .. (Len(l) - 1) : Tail(l)[i] \in Elems(l) \ {Head(l)}
    BY <1>1 DEF Elems, NoDup
  <1>3. ASSUME NEW i \in DOMAIN l, i # 1
        PROVE  l[i] \in Elems(Tail(l))
    <2>1. i - 1 \in 1 .. (Len(l) - 1) /\ Tail(l)[i - 1] = l[i]
      BY <1>1, <1>3
    <2> QED BY <1>1, <2>1 DEF Elems
  <1>4. Elems(l) \ {Head(l)} \subseteq Elems(Tail(l))
    BY <1>1, <1>3 DEF Elems
  <1>5. Elems(Tail(l)) \subseteq Elems(l) \ {Head(l)}
    BY <1>1, <1>2 DEF Elems
  <1>6. NoDup(Tail(l))
    BY <1>1 DEF NoDup
  <1> QED BY <1>4, <1>5, <1>6

\* list_add_tail adds one entry, and keeps the entries distinct when the new
\* one was not in the list.
LEMMA ElemsAppend ==
    ASSUME NEW S, NEW l \in Seq(S), NEW x \in S
    PROVE  /\ Append(l, x) \in Seq(S)
           /\ Elems(Append(l, x)) = Elems(l) \cup {x}
           /\ NoDup(l) /\ x \notin Elems(l) => NoDup(Append(l, x))
  <1>1. Append(l, x) \in Seq(S)
    OBVIOUS
  <1>2. /\ DOMAIN Append(l, x) = 1 .. (Len(l) + 1)
        /\ DOMAIN l = 1 .. Len(l) /\ Len(l) \in Nat
        /\ Append(l, x)[Len(l) + 1] = x
        /\ \A i \in 1 .. Len(l) : Append(l, x)[i] = l[i]
    OBVIOUS
  <1>3. Elems(Append(l, x)) = Elems(l) \cup {x}
    <2>1. Elems(Append(l, x)) \subseteq Elems(l) \cup {x}
      <3>1. SUFFICES ASSUME NEW i \in DOMAIN Append(l, x)
                     PROVE  Append(l, x)[i] \in Elems(l) \cup {x}
        BY DEF Elems
      <3>2. i = Len(l) + 1 \/ i \in 1 .. Len(l)
        BY <1>2
      <3> QED BY <3>2, <1>2 DEF Elems
    <2>2. x \in Elems(Append(l, x))
      BY <1>2 DEF Elems
    <2>3. Elems(l) \subseteq Elems(Append(l, x))
      <3>1. SUFFICES ASSUME NEW i \in DOMAIN l
                     PROVE  l[i] \in Elems(Append(l, x))
        BY DEF Elems
      <3>2. i \in DOMAIN Append(l, x) /\ Append(l, x)[i] = l[i]
        BY <1>2
      <3> QED BY <3>2 DEF Elems
    <2> QED BY <2>1, <2>2, <2>3
  <1>4. NoDup(l) /\ x \notin Elems(l) => NoDup(Append(l, x))
    BY <1>2 DEF NoDup, Elems
  <1> QED BY <1>1, <1>3, <1>4

\* list_del_init removes exactly the given entry of a list without duplicates.
LEMMA ElemsListDel ==
    ASSUME NEW S, NEW l \in Seq(S), NoDup(l), NEW x
    PROVE  /\ ListDel(l, x) \in Seq(S)
           /\ Elems(ListDel(l, x)) = Elems(l) \ {x}
           /\ NoDup(ListDel(l, x))
  <1>1. CASE x \notin Elems(l)
    BY <1>1 DEF ListDel
  <1>2. CASE x \in Elems(l)
    <2> DEFINE k == CHOOSE i \in DOMAIN l : l[i] = x
               r == [j \in 1 .. (Len(l) - 1) |-> IF j < k THEN l[j] ELSE l[j + 1]]
    <2>1. ListDel(l, x) = r
      BY <1>2 DEF ListDel
    <2>2. k \in DOMAIN l /\ l[k] = x
      BY <1>2 DEF Elems
    <2> HIDE DEF k
    <2>3. Len(l) \in Nat /\ DOMAIN l = 1 .. Len(l) /\ k \in 1 .. Len(l)
      BY <2>2
    <2>4. \A j \in 1 .. (Len(l) - 1) : r[j] \in S
      BY <2>3
    <2>5. r \in Seq(S) /\ DOMAIN r = 1 .. (Len(l) - 1)
      <3>1. Len(l) - 1 \in Nat
        BY <2>3
      <3>2. r \in [1 .. (Len(l) - 1) -> S]
        BY <2>4
      <3> QED BY <3>1, <3>2, SeqDef
    <2>6. Elems(r) \subseteq Elems(l) \ {x}
      <3>1. SUFFICES ASSUME NEW j \in 1 .. (Len(l) - 1)
                     PROVE  r[j] \in Elems(l) \ {x}
        BY <2>5 DEF Elems
      <3>2. CASE j < k
        BY <3>2, <2>2, <2>3 DEF Elems, NoDup
      <3>3. CASE ~(j < k)
        <4>1. j + 1 \in DOMAIN l /\ j + 1 # k /\ r[j] = l[j + 1]
          BY <3>3, <2>3
        <4> QED BY <4>1, <2>2, <2>3 DEF Elems, NoDup
      <3> QED BY <3>2, <3>3
    <2>7. Elems(l) \ {x} \subseteq Elems(r)
      <3>1. SUFFICES ASSUME NEW i \in DOMAIN l, i # k
                     PROVE  l[i] \in Elems(r)
        BY <2>2 DEF Elems
      <3>2. CASE i < k
        <4>1. i \in 1 .. (Len(l) - 1) /\ r[i] = l[i]
          BY <3>1, <3>2, <2>3
        <4> QED BY <4>1, <2>5 DEF Elems
      <3>3. CASE i > k
        <4>1. i - 1 \in 1 .. (Len(l) - 1) /\ r[i - 1] = l[i]
          BY <3>1, <3>3, <2>3
        <4> QED BY <4>1, <2>5 DEF Elems
      <3> QED BY <3>1, <3>2, <3>3, <2>3
    <2>8. NoDup(r)
      <3>1. SUFFICES ASSUME NEW i \in 1 .. (Len(l) - 1), NEW j \in 1 .. (Len(l) - 1),
                            r[i] = r[j]
                     PROVE  i = j
        BY <2>5 DEF NoDup
      <3> DEFINE up(n) == IF n < k THEN n ELSE n + 1
      <3>2. r[i] = l[up(i)] /\ r[j] = l[up(j)] /\ up(i) \in DOMAIN l /\ up(j) \in DOMAIN l
        BY <2>3
      <3>3. up(i) = up(j)
        BY <3>1, <3>2 DEF NoDup
      <3> QED BY <3>3, <2>3
    <2> QED BY <2>1, <2>5, <2>6, <2>7, <2>8
  <1> QED BY <1>1, <1>2

\* list_splice, or moving entries one by one to the end of another list.
LEMMA ElemsConcat ==
    ASSUME NEW S, NEW l \in Seq(S), NEW m \in Seq(S)
    PROVE  /\ l \o m \in Seq(S) /\ Len(l \o m) = Len(l) + Len(m)
           /\ Elems(l \o m) = Elems(l) \cup Elems(m)
           /\ NoDup(l) /\ NoDup(m) /\ Elems(l) \cap Elems(m) = {} => NoDup(l \o m)
  <1>1. /\ l \o m \in Seq(S) /\ Len(l \o m) = Len(l) + Len(m)
        /\ DOMAIN (l \o m) = 1 .. (Len(l) + Len(m))
        /\ DOMAIN l = 1 .. Len(l) /\ DOMAIN m = 1 .. Len(m) /\ Len(l) \in Nat /\ Len(m) \in Nat
        /\ \A i \in 1 .. (Len(l) + Len(m)) :
             (l \o m)[i] = IF i <= Len(l) THEN l[i] ELSE m[i - Len(l)]
    OBVIOUS
  <1> DEFINE r == l \o m
             p == Len(l)
             q == Len(m)
  <1> HIDE DEF r, p, q
  <1>2. /\ r \in Seq(S) /\ Len(r) = p + q /\ DOMAIN r = 1 .. (p + q)
        /\ DOMAIN l = 1 .. p /\ DOMAIN m = 1 .. q /\ p \in Nat /\ q \in Nat
        /\ \A i \in 1 .. (p + q) : r[i] = IF i <= p THEN l[i] ELSE m[i - p]
    BY <1>1 DEF r, p, q
  <1>3. \A i \in 1 .. p : r[i] = l[i] /\ i \in DOMAIN r
    BY <1>2
  <1>4. \A i \in 1 .. q : r[i + p] = m[i] /\ i + p \in DOMAIN r
    <2> SUFFICES ASSUME NEW i \in 1 .. q PROVE r[i + p] = m[i] /\ i + p \in DOMAIN r
      OBVIOUS
    <2>1. i + p \in 1 .. (p + q) /\ ~(i + p <= p) /\ (i + p) - p = i
      BY <1>2
    <2> QED BY <1>2, <2>1
  <1>5. \A i \in DOMAIN r : i \in 1 .. p \/ (i - p \in 1 .. q /\ r[i] = m[i - p])
    BY <1>2
  <1>6. Elems(r) = Elems(l) \cup Elems(m)
    <2>1. Elems(r) \subseteq Elems(l) \cup Elems(m)
      BY <1>2, <1>3, <1>5 DEF Elems
    <2>2. Elems(l) \subseteq Elems(r)
      BY <1>2, <1>3 DEF Elems
    <2>3. Elems(m) \subseteq Elems(r)
      BY <1>2, <1>4 DEF Elems
    <2> QED BY <2>1, <2>2, <2>3
  <1>7. ASSUME NoDup(l), NoDup(m), Elems(l) \cap Elems(m) = {}
        PROVE  NoDup(r)
    <2> SUFFICES ASSUME NEW i \in DOMAIN r, NEW j \in DOMAIN r, r[i] = r[j]
                 PROVE  i = j
      BY DEF NoDup
    <2>1. CASE i \in 1 .. p /\ j \in 1 .. p
      BY <1>2, <1>3, <1>7, <2>1 DEF NoDup
    <2>2. CASE i \in 1 .. p /\ j \notin 1 .. p
      <3>1. r[i] \in Elems(l) /\ r[j] \in Elems(m)
        BY <1>2, <1>3, <1>5, <2>2 DEF Elems
      <3> QED BY <1>7, <3>1
    <2>3. CASE i \notin 1 .. p /\ j \in 1 .. p
      <3>1. r[j] \in Elems(l) /\ r[i] \in Elems(m)
        BY <1>2, <1>3, <1>5, <2>3 DEF Elems
      <3> QED BY <1>7, <3>1
    <2>4. CASE i \notin 1 .. p /\ j \notin 1 .. p
      <3>1. /\ i - p \in 1 .. q /\ r[i] = m[i - p]
            /\ j - p \in 1 .. q /\ r[j] = m[j - p]
        BY <1>5, <2>4
      <3>2. i - p = j - p
        BY <1>2, <1>7, <3>1 DEF NoDup
      <3> QED BY <1>2, <3>2
    <2> QED BY <2>1, <2>2, <2>3, <2>4
  <1> QED BY <1>1, <1>6, <1>7 DEF r

\* list_move: an entry becomes the first one.
LEMMA ElemsFirst ==
    ASSUME NEW S, NEW l \in Seq(S), NEW x \in S
    PROVE  /\ <<x>> \o l \in Seq(S) /\ Elems(<<x>> \o l) = Elems(l) \cup {x}
           /\ NoDup(l) /\ x \notin Elems(l) => NoDup(<<x>> \o l)
  <1>1. <<x>> \in Seq(S) /\ Elems(<<x>>) = {x} /\ NoDup(<<x>>)
    <2>1. <<x>> \in Seq(S) /\ DOMAIN <<x>> = {1} /\ <<x>>[1] = x
      OBVIOUS
    <2> QED BY <2>1 DEF Elems, NoDup
  <1> DEFINE h == <<x>>
  <1> HIDE DEF h
  <1>2. h \in Seq(S) /\ Elems(h) = {x} /\ NoDup(h)
    BY <1>1 DEF h
  <1>3. /\ h \o l \in Seq(S) /\ Elems(h \o l) = Elems(h) \cup Elems(l)
        /\ NoDup(h) /\ NoDup(l) /\ Elems(h) \cap Elems(l) = {} => NoDup(h \o l)
    BY <1>2, ElemsConcat
  <1> QED BY <1>2, <1>3 DEF h

\* The first n entries and the others divide a list.
LEMMA ElemsSplit ==
    ASSUME NEW S, NEW l \in Seq(S), NEW n \in 0 .. Len(l)
    PROVE  LET a == SubSeq(l, 1, n)
               b == SubSeq(l, n + 1, Len(l))
           IN  /\ a \in Seq(S) /\ b \in Seq(S) /\ Len(a) = n /\ Len(b) = Len(l) - n
               /\ Elems(a) \cup Elems(b) = Elems(l)
               /\ NoDup(l) => NoDup(a) /\ NoDup(b) /\ Elems(a) \cap Elems(b) = {}
  <1> DEFINE a == SubSeq(l, 1, n)
             b == SubSeq(l, n + 1, Len(l))
             p == Len(l)
  <1>1. p \in Nat /\ DOMAIN l = 1 .. p /\ n \in 0 .. p /\ \A i \in 1 .. p : l[i] \in S
    OBVIOUS
  <1>2. a \in Seq(S) /\ Len(a) = n /\ \A i \in 1 .. n : a[i] = l[i]
    <2>1. 1 \in Int /\ n \in Int /\ \A i \in 1 .. n : l[i] \in S
      BY <1>1
    <2> HIDE DEF p
    <2>2. /\ a \in Seq(S) /\ Len(a) = (IF 1 <= n THEN n - 1 + 1 ELSE 0)
          /\ \A i \in 1 .. n - 1 + 1 : a[i] = l[1 + i - 1]
      BY <2>1, SubSeqProperties
    <2>3. n - 1 + 1 = n /\ \A i \in 1 .. n : 1 + i - 1 = i
      BY <1>1
    <2>4. Len(a) = n
      <3> HIDE DEF a
      <3> QED BY <1>1, <2>2
    <2>5. \A i \in 1 .. n : a[i] = l[i]
      <3> HIDE DEF a
      <3> QED BY <2>2, <2>3
    <2> QED BY <2>2, <2>4, <2>5
  <1>3. b \in Seq(S) /\ Len(b) = p - n /\ \A i \in 1 .. (p - n) : b[i] = l[n + i]
    <2>1. n + 1 \in Int /\ p \in Int /\ \A i \in n + 1 .. p : l[i] \in S
      BY <1>1
    <2>2. /\ b \in Seq(S) /\ Len(b) = (IF n + 1 <= p THEN p - (n + 1) + 1 ELSE 0)
          /\ \A i \in 1 .. p - (n + 1) + 1 : b[i] = l[n + 1 + i - 1]
      BY <2>1, SubSeqProperties
    <2> HIDE DEF b, p
    <2>3. p - (n + 1) + 1 = p - n /\ \A i \in 1 .. (p - n) : n + 1 + i - 1 = n + i
      BY <1>1
    <2>4. Len(b) = p - n
      BY <1>1, <2>2
    <2>5. \A i \in 1 .. (p - n) : b[i] = l[n + i]
      BY <2>2, <2>3
    <2> QED BY <2>2, <2>4, <2>5
  <1>4. DOMAIN a = 1 .. n /\ DOMAIN b = 1 .. (p - n)
    BY <1>1, <1>2, <1>3, LenProperties
  <1> HIDE DEF a, b, p
  <1>5. Elems(a) \cup Elems(b) = Elems(l)
    <2>1. Elems(a) \subseteq Elems(l)
      BY <1>1, <1>2, <1>4 DEF Elems
    <2>2. Elems(b) \subseteq Elems(l)
      <3>1. \A i \in 1 .. (p - n) : n + i \in 1 .. p
        BY <1>1
      <3> QED BY <1>1, <1>3, <1>4, <3>1 DEF Elems
    <2>3. ASSUME NEW i \in 1 .. p PROVE l[i] \in Elems(a) \cup Elems(b)
      <3>1. CASE i <= n
        BY <1>1, <1>2, <1>4, <3>1 DEF Elems
      <3>2. CASE ~(i <= n)
        <4>1. i - n \in 1 .. (p - n) /\ n + (i - n) = i
          BY <1>1, <3>2
        <4>2. b[i - n] = l[i]
          BY <1>3, <4>1
        <4> QED BY <1>4, <4>1, <4>2 DEF Elems
      <3> QED BY <3>1, <3>2
    <2> QED BY <1>1, <2>1, <2>2, <2>3 DEF Elems
  <1>6. ASSUME NoDup(l) PROVE NoDup(a) /\ NoDup(b) /\ Elems(a) \cap Elems(b) = {}
    <2>1. NoDup(a)
      BY <1>1, <1>2, <1>4, <1>6 DEF NoDup
    <2>2. NoDup(b)
      <3> SUFFICES ASSUME NEW i \in 1 .. (p - n), NEW j \in 1 .. (p - n), b[i] = b[j]
                   PROVE  i = j
        BY <1>4 DEF NoDup
      <3>1. l[n + i] = l[n + j] /\ n + i \in 1 .. p /\ n + j \in 1 .. p
        BY <1>1, <1>3
      <3>2. n + i = n + j
        BY <1>1, <1>6, <3>1 DEF NoDup
      <3> QED BY <1>1, <3>2
    <2>3. ASSUME NEW i \in 1 .. n, NEW j \in 1 .. (p - n) PROVE a[i] # b[j]
      <3>1. n + j \in 1 .. p /\ i \in 1 .. p /\ i # n + j
        BY <1>1
      <3>2. l[i] # l[n + j]
        BY <1>1, <1>6, <3>1 DEF NoDup
      <3> QED BY <1>2, <1>3, <3>2
    <2>4. Elems(a) \cap Elems(b) = {}
      BY <1>4, <2>3 DEF Elems
    <2> QED BY <2>1, <2>2, <2>4
  <1> QED BY <1>2, <1>3, <1>5, <1>6 DEF a, b, p

\* A list without duplicates is as long as its set of entries is large.
LEMMA LenNoDup ==
    ASSUME NEW S, NEW l \in Seq(S)
    PROVE  /\ IsFiniteSet(Elems(l)) /\ Cardinality(Elems(l)) \in Nat
           /\ NoDup(l) => Cardinality(Elems(l)) = Len(l)
  <1> DEFINE p == Len(l)
  <1>1. p \in Nat /\ DOMAIN l = 1 .. p /\ l \in [1 .. p -> S]
    OBVIOUS
  <1>2. IsFiniteSet(1 .. p) /\ Cardinality(1 .. p) = p
    BY <1>1, FS_Interval
  <1>3. l \in Surjection(1 .. p, Elems(l))
    BY <1>1 DEF Elems, Surjection
  <1>4. IsFiniteSet(Elems(l)) /\ (Cardinality(Elems(l)) = Cardinality(1 .. p)
                                   <=> l \in Injection(1 .. p, Elems(l)))
    BY <1>2, <1>3, FS_Surjection
  <1>5. NoDup(l) => l \in Injection(1 .. p, Elems(l))
    BY <1>1, <1>3 DEF NoDup, Injection, IsInjective, Surjection
  <1> QED BY <1>2, <1>4, <1>5, FS_CardinalityType

\* ListKeep keeps exactly the entries that are in the set.
LEMMA ElemsListKeep ==
    ASSUME NEW S, NEW l \in Seq(S), NEW T
    PROVE  /\ ListKeep(l, T) \in Seq(S)
           /\ Elems(ListKeep(l, T)) = Elems(l) \cap T
           /\ NoDup(l) => NoDup(ListKeep(l, T))
  <1> DEFINE p == Len(l)
             at == {k \in DOMAIN l : l[k] \in T}
             upto(k) == {j \in at : j <= k}
             n == Cardinality(at)
             rank == [k \in at |-> Cardinality(upto(k))]
             r == [m \in 1 .. n |-> l[CHOOSE k \in at : Cardinality(upto(k)) = m]]
  <1>1. p \in Nat /\ DOMAIN l = 1 .. p /\ \A i \in 1 .. p : l[i] \in S
    OBVIOUS
  <1>2. at \subseteq 1 .. p /\ IsFiniteSet(at) /\ n \in Nat
    <2>1. at \subseteq 1 .. p
      BY <1>1
    <2>2. IsFiniteSet(1 .. p)
      BY <1>1, FS_Interval
    <2> HIDE DEF at
    <2> QED BY <2>1, <2>2, FS_Subset, FS_CardinalityType
  <1>3. \A k \in at : upto(k) \subseteq at /\ IsFiniteSet(upto(k)) /\ rank[k] \in 1 .. n
    <2> SUFFICES ASSUME NEW k \in at
                 PROVE  upto(k) \subseteq at /\ IsFiniteSet(upto(k)) /\ rank[k] \in 1 .. n
      OBVIOUS
    <2>1. upto(k) \subseteq at /\ k \in upto(k)
      BY <1>2
    <2>2. IsFiniteSet(upto(k)) /\ Cardinality(upto(k)) \in Nat /\ Cardinality(upto(k)) <= n
      BY <1>2, <2>1, FS_Subset, FS_CardinalityType
    <2>3. Cardinality(upto(k)) # 0
      BY <2>1, <2>2, FS_EmptySet
    <2> QED BY <1>2, <2>1, <2>2, <2>3
  <1>4. \A j, k \in at : j < k => rank[j] < rank[k]
    <2> SUFFICES ASSUME NEW j \in at, NEW k \in at, j < k PROVE rank[j] < rank[k]
      OBVIOUS
    <2>1. upto(j) \subseteq upto(k) /\ k \in upto(k) /\ k \notin upto(j)
      BY <1>2
    <2>2. upto(j) # upto(k)
      BY <2>1
    <2>3. Cardinality(upto(j)) < Cardinality(upto(k))
      <3> HIDE DEF upto, at
      <3>1. /\ Cardinality(upto(j)) <= Cardinality(upto(k))
            /\ Cardinality(upto(j)) = Cardinality(upto(k)) => upto(j) = upto(k)
        BY <1>3, <2>1, FS_Subset
      <3>2. Cardinality(upto(j)) \in Nat /\ Cardinality(upto(k)) \in Nat
        BY <1>3, FS_CardinalityType
      <3> QED BY <2>2, <3>1, <3>2
    <2> QED BY <2>3
  <1>5. rank \in [at -> 1 .. n]
    BY <1>3
  <1>6. \A j, k \in at : rank[j] = rank[k] => j = k
    <2> SUFFICES ASSUME NEW j \in at, NEW k \in at, rank[j] = rank[k] PROVE j = k
      OBVIOUS
    <2>1. j \in Int /\ k \in Int /\ rank[j] \in Int
      <3> HIDE DEF rank, at, n
      <3>1. rank[j] \in 1 .. n
        BY <1>5
      <3> QED BY <1>2, <3>1
    <2> HIDE DEF rank, at
    <2> QED BY <1>4, <2>1
  <1>7. \A m \in 1 .. n : \E k \in at : rank[k] = m
    <2> HIDE DEF rank, at, n
    <2>1. rank \in Injection(at, 1 .. n)
      BY <1>5, <1>6 DEF Injection, IsInjective
    <2>2. IsFiniteSet(1 .. n) /\ Cardinality(1 .. n) = n
      BY <1>2, FS_Interval
    <2>3. rank \in Surjection(at, 1 .. n)
      BY <2>1, <2>2, FS_Injection DEF n
    <2> QED BY <2>3 DEF Surjection
  <1> DEFINE pos(m) == CHOOSE k \in at : Cardinality(upto(k)) = m
  <1>8. \A m \in 1 .. n : pos(m) \in at /\ rank[pos(m)] = m /\ r[m] = l[pos(m)]
    <2> SUFFICES ASSUME NEW m \in 1 .. n
                 PROVE  pos(m) \in at /\ rank[pos(m)] = m /\ r[m] = l[pos(m)]
      OBVIOUS
    <2>1. \E k \in at : Cardinality(upto(k)) = m
      BY <1>7
    <2>2. pos(m) \in at /\ Cardinality(upto(pos(m))) = m
      <3> HIDE DEF at, upto
      <3> QED BY <2>1
    <2> QED BY <2>2
  <1>9. \A k \in at : rank[k] \in 1 .. n /\ pos(rank[k]) = k
    BY <1>3, <1>6, <1>8
  <1>10. ListKeep(l, T) = r
    BY DEF ListKeep
  <1>11. \A k \in at : k \in 1 .. p /\ l[k] \in T
    BY <1>1
  <1>12. \A k \in 1 .. p : l[k] \in T => k \in at
    BY <1>1
  <1>13. DOMAIN r = 1 .. n
    OBVIOUS
  <1> HIDE DEF p, at, upto, n, rank, r, pos
  <1>14. r \in Seq(S)
    <2>1. \A m \in 1 .. n : r[m] \in S
      BY <1>1, <1>8, <1>11
    <2>2. r \in [1 .. n -> S]
      BY <2>1, <1>13 DEF r
    <2> QED BY <1>2, <2>2, SeqDef
  <1>15. Elems(r) = Elems(l) \cap T
    <2>1. Elems(r) \subseteq Elems(l) \cap T
      BY <1>1, <1>8, <1>11, <1>13 DEF Elems
    <2>2. ASSUME NEW k \in 1 .. p, l[k] \in T PROVE l[k] \in Elems(r)
      <3>1. k \in at /\ rank[k] \in 1 .. n /\ pos(rank[k]) = k
        BY <1>9, <1>12, <2>2
      <3>2. r[rank[k]] = l[k]
        BY <1>8, <3>1
      <3> QED BY <1>13, <3>1, <3>2 DEF Elems
    <2> QED BY <1>1, <2>1, <2>2 DEF Elems
  <1>16. NoDup(l) => NoDup(r)
    <2> SUFFICES ASSUME NoDup(l), NEW i \in 1 .. n, NEW j \in 1 .. n, r[i] = r[j]
                 PROVE  i = j
      BY <1>13 DEF NoDup
    <2>1. l[pos(i)] = l[pos(j)] /\ pos(i) \in 1 .. p /\ pos(j) \in 1 .. p
      BY <1>8, <1>11
    <2>2. pos(i) = pos(j)
      BY <1>1, <2>1 DEF NoDup
    <2> QED BY <1>8, <2>2
  <1> QED BY <1>10, <1>14, <1>15, <1>16

=============================================================================
