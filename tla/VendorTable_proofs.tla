------------------------- MODULE VendorTable_proofs -------------------------
(***************************************************************************)
(* What the item table of the vendor storage keeps, whatever is written:   *)
(* the lemmas that the proofs about EmmcVendor and MtdVendor rest on.      *)
(***************************************************************************)
EXTENDS VendorTable, FiniteSetTheorems, NaturalsInduction, TLAPS

(* Arithmetic of the allocation units. *)

\* Integer division, as the provers know it.
LEMMA Division ==
    ASSUME NEW a \in Nat, NEW b \in Nat \ {0}
    PROVE  /\ a \div b \in Nat
           /\ (a \div b) * b <= a
           /\ a < (a \div b) * b + b
  OBVIOUS

\* ALIGN rounds up.
LEMMA AlignUp ==
    ASSUME NEW n \in Nat
    PROVE  ALIGN(n) \in Nat /\ n <= ALIGN(n)
  <1> DEFINE q == (n + Align - 1) \div Align
  <1>1. n + Align - 1 \in Nat /\ Align \in Nat \ {0}
    BY VendorTableAssumption
  <1>2. q \in Nat /\ q * Align <= n + Align - 1 /\ n + Align - 1 < q * Align + Align
    BY <1>1, Division
  <1>3. q * Align \in Nat
    BY <1>1, <1>2
  <1> HIDE DEF q
  <1>4. n <= q * Align
    BY <1>1, <1>2, <1>3
  <1> QED BY <1>3, <1>4 DEF ALIGN, q

\* Multiples of a unit that are less than a unit apart are in order.
LEMMA MultiplesInOrder ==
    ASSUME NEW q \in Nat, NEW r \in Nat, NEW b \in Nat \ {0}, q * b < r * b + b
    PROVE  q <= r
  <1> SUFFICES ASSUME q >= r + 1 PROVE FALSE
    OBVIOUS
  <1>1. q * b >= (r + 1) * b
    OBVIOUS
  <1>2. (r + 1) * b = r * b + b
    OBVIOUS
  <1>3. q * b \in Int /\ r * b \in Int
    OBVIOUS
  <1> QED BY <1>1, <1>2, <1>3

\* What fits into the units of another item needs no more units.
LEMMA AlignFits ==
    ASSUME NEW n \in Nat, NEW m \in Nat, n <= ALIGN(m)
    PROVE  ALIGN(n) <= ALIGN(m)
  <1> DEFINE q == (n + Align - 1) \div Align
             r == (m + Align - 1) \div Align
  <1>1. n + Align - 1 \in Nat /\ m + Align - 1 \in Nat /\ Align \in Nat \ {0}
    BY VendorTableAssumption
  <1>2. q \in Nat /\ r \in Nat /\ q * Align <= n + Align - 1
    BY <1>1, Division
  <1>3. n <= r * Align
    BY DEF ALIGN
  <1> HIDE DEF q, r
  <1>4. q * Align \in Nat /\ r * Align \in Nat
    BY <1>1, <1>2
  <1>5. q * Align < r * Align + Align
    BY <1>1, <1>2, <1>3, <1>4
  <1>6. q <= r
    BY <1>1, <1>2, <1>5, MultiplesInOrder
  <1>7. q * Align <= r * Align
    BY <1>1, <1>2, <1>6
  <1> QED BY <1>7 DEF ALIGN, q, r

-----------------------------------------------------------------------------
(* Least elements. *)

\* A nonempty set of naturals has a least element, which Min chooses.
LEMMA MinIsLeast ==
    ASSUME NEW K \in SUBSET Nat, K # {}
    PROVE  Min(K) \in K /\ \A m \in K : Min(K) <= m
  <1> DEFINE R == {ss \in Nat \X Nat : ss[1] < ss[2]}
  <1>1. IsWellFoundedOn(R, Nat)
    BY NatLessThanWellFounded, Zenon DEF OpToRel
  <1> HIDE DEF R
  <1>2. PICK k \in K : \A m \in K : ~(<<m, k>> \in R)
    BY <1>1, WFMin
  <1>3. ASSUME NEW m \in K PROVE k <= m
    <2>1. k \in Nat /\ m \in Nat /\ <<m, k>> \in Nat \X Nat
      OBVIOUS
    <2>2. ~(m < k)
      BY <1>2, <2>1 DEF R
    <2> QED BY <2>1, <2>2
  <1> QED BY <1>3 DEF Min
-----------------------------------------------------------------------------
(* A table. *)

End(entry) == entry.offset + ALIGN(entry.size)

\* The items of a table have different ids and lie one behind the other, in
\* front of free_offset.
TableOrder(v) ==
    /\ v \in Tables
    /\ \A p, q \in 1 .. Len(v.items) :
          p < q => /\ v.items[p].id # v.items[q].id
                   /\ End(v.items[p]) <= v.items[q].offset
    /\ \A p \in 1 .. Len(v.items) : End(v.items[p]) <= v.free_offset

\* And the free space is inside data.
TableInv(v) == TableOrder(v) /\ v.free_offset + v.free_size <= DataSize

\* What the parts of an item are.
LEMMA ItemFacts ==
    ASSUME NEW v \in Tables, NEW p \in 1 .. Len(v.items)
    PROVE  /\ v.items[p] \in Items
           /\ v.items[p].id \in Ids /\ v.items[p].offset \in Nat
           /\ v.items[p].size \in Nat /\ ALIGN(v.items[p].size) \in Nat
           /\ v.items[p].size <= ALIGN(v.items[p].size)
           /\ End(v.items[p]) \in Nat
           /\ End(v.items[p]) = v.items[p].offset + ALIGN(v.items[p].size)
           /\ v.items[p].offset + v.items[p].size <= End(v.items[p])
  <1>1. v.items \in Seq(Items) /\ p \in DOMAIN v.items
    BY DEF Tables
  <1>2. v.items[p] \in Items
    BY <1>1
  <1>3. v.items[p].id \in Ids /\ v.items[p].offset \in Nat /\ v.items[p].size \in Nat
    BY <1>2 DEF Items
  <1>4. ALIGN(v.items[p].size) \in Nat /\ v.items[p].size <= ALIGN(v.items[p].size)
    BY <1>3, AlignUp
  <1> QED BY <1>2, <1>3, <1>4 DEF End

\* What the parts of a table are.
LEMMA TableFacts ==
    ASSUME NEW v \in Tables
    PROVE  /\ v.items \in Seq(Items) /\ Len(v.items) \in Nat
           /\ DOMAIN v.items = 1 .. Len(v.items)
           /\ v.free_offset \in Nat /\ v.free_size \in Nat
           /\ v.data \in [0 .. (DataSize - 1) -> Bytes]
           /\ DOMAIN v.data = 0 .. (DataSize - 1)
           /\ DataSize \in Nat
  BY VendorTableAssumption DEF Tables

\* The items of a table end inside data.
LEMMA EndInside ==
    ASSUME NEW v, TableInv(v), NEW p \in 1 .. Len(v.items)
    PROVE  End(v.items[p]) <= DataSize
  <1>1. PICK e, o, s : /\ e = End(v.items[p]) /\ o = v.free_offset /\ s = v.free_size
                       /\ e \in Nat /\ o \in Nat /\ s \in Nat
    BY ItemFacts, TableFacts DEF TableInv, TableOrder
  <1>2. e <= o /\ o + s <= DataSize
    BY <1>1 DEF TableInv, TableOrder
  <1>3. e <= DataSize
    <2>1. e \in Nat /\ o \in Nat /\ s \in Nat /\ DataSize \in Nat
      BY <1>1, VendorTableAssumption
    <2> QED BY <1>2, <2>1
  <1> QED BY <1>1, <1>3

\* A cleared table.
LEMMA EmptyTableInv == TableInv(EmptyTable)
  <1>1. EmptyTable \in Tables
    BY VendorTableAssumption DEF EmptyTable, Tables, Bytes
  <1>2. Len(EmptyTable.items) = 0 /\ EmptyTable.free_offset = 0
        /\ EmptyTable.free_size = DataSize
    BY DEF EmptyTable
  <1> QED BY <1>1, <1>2, VendorTableAssumption DEF TableInv, TableOrder

\* The table invariant implies what the runs check of a table.
LEMMA TableInvConsistent ==
    ASSUME NEW v, TableInv(v)
    PROVE  TableConsistent(v)
  <1>t. v \in Tables /\ TableOrder(v)
    BY DEF TableInv, TableOrder
  <1>d. DOMAIN v.items = 1 .. Len(v.items) /\ Len(v.items) \in Nat
    BY <1>t, TableFacts
  <1>1. \A p, q \in 1 .. Len(v.items) :
           p < q => /\ v.items[p].id # v.items[q].id
                    /\ End(v.items[p]) <= v.items[q].offset
    BY <1>t DEF TableOrder
  <1>2. ASSUME NEW p \in 1 .. Len(v.items), NEW q \in 1 .. Len(v.items), p < q
        PROVE  Area(v.items[p]) \cap Area(v.items[q]) = {}
    <2>1. End(v.items[p]) <= v.items[q].offset
      BY <1>1, <1>2
    <2>2. /\ v.items[p].offset \in Nat /\ ALIGN(v.items[p].size) \in Nat
          /\ v.items[q].offset \in Nat /\ ALIGN(v.items[q].size) \in Nat
          /\ End(v.items[p]) = v.items[p].offset + ALIGN(v.items[p].size)
      BY <1>t, ItemFacts
    <2>3. ASSUME NEW x \in Area(v.items[p]) PROVE x \notin Area(v.items[q])
      <3>1. PICK po, qo, qa : /\ qo = v.items[q].offset /\ qa = ALIGN(v.items[q].size)
                              /\ po = End(v.items[p])
        OBVIOUS
      <3>2. x < po /\ x \in Int /\ po \in Nat
        BY <2>2, <2>3, <3>1 DEF Area
      <3>3. po <= qo /\ qo \in Nat /\ qa \in Nat
        BY <2>1, <2>2, <3>1
      <3>4. x \notin qo .. (qo + qa - 1)
        BY <3>2, <3>3
      <3> QED BY <3>1, <3>4 DEF Area
    <2> QED BY <2>3
  <1>3. ASSUME NEW p \in DOMAIN v.items, NEW q \in DOMAIN v.items, p # q
        PROVE  /\ v.items[p].id # v.items[q].id
               /\ Area(v.items[p]) \cap Area(v.items[q]) = {}
    <2>1. CASE p < q
      BY <1>1, <1>2, <1>d, <2>1
    <2>2. CASE q < p
      <3>1. Area(v.items[q]) \cap Area(v.items[p]) = {} /\ v.items[q].id # v.items[p].id
        BY <1>1, <1>2, <1>d, <2>2
      <3> QED BY <3>1
    <2> QED BY <1>3, <1>d, <2>1, <2>2
  <1>4. Len(v.items) <= ItemNum
    <2> DEFINE f == [p \in 1 .. Len(v.items) |-> v.items[p].id]
    <2>1. \A p \in 1 .. Len(v.items) : v.items[p].id \in Ids
      BY <1>t, ItemFacts
    <2>2. f \in Injection(1 .. Len(v.items), Ids)
      BY <1>3, <1>d, <2>1 DEF Injection, IsInjective
    <2> HIDE DEF f
    <2>3. IsFiniteSet(Ids) /\ Cardinality(Ids) <= ItemNum /\ ItemNum \in Nat
      BY VendorTableAssumption
    <2>4. Cardinality(1 .. Len(v.items)) <= Cardinality(Ids)
      BY <2>2, <2>3, FS_Injection
    <2>5. Cardinality(1 .. Len(v.items)) = Len(v.items)
      BY <1>d, FS_Interval
    <2>6. Cardinality(Ids) \in Nat
      BY <2>3, FS_CardinalityType
    <2> QED BY <1>d, <2>3, <2>4, <2>5, <2>6
  <1>5. \A p \in DOMAIN v.items :
           v.items[p].offset + ALIGN(v.items[p].size) <= v.free_offset
    BY <1>t, <1>d DEF TableOrder, End
  <1>6. v.free_size >= 0 /\ v.free_offset + v.free_size <= DataSize
    BY <1>t, TableFacts DEF TableInv
  <1> QED BY <1>3, <1>4, <1>5, <1>6 DEF TableConsistent

-----------------------------------------------------------------------------
(* The loop that moves items down. *)

\* The values of the loop's variables after each of n rounds from item i on.
Start(v, i) == [v |-> v, offset |-> v.items[i].offset]
Rounds(v, i, n, f) ==
    f = [k \in 0 .. n |-> IF k = 0 THEN [v |-> v, offset |-> v.items[i].offset]
                          ELSE MoveDown(f[k - 1], i + k - 1)]

\* There are such values, for each number of rounds.
LEMMA RoundsExist ==
    ASSUME NEW v, NEW i, NEW n \in Nat
    PROVE  \E f : Rounds(v, i, n, f)
  <1> DEFINE bad == {m \in Nat : ~ \E f : Rounds(v, i, m, f)}
  <1>1. SUFFICES ASSUME bad # {} PROVE FALSE
    OBVIOUS
  <1>2. PICK m \in bad : \A k \in bad : m <= k
    <2> HIDE DEF bad
    <2>1. bad \in SUBSET Nat
      BY DEF bad
    <2> QED BY <1>1, <2>1, MinIsLeast
  <1>3. m # 0
    <2>1. Rounds(v, i, 0, [k \in 0 .. 0 |-> Start(v, i)])
      BY DEF Rounds, Start
    <2> QED BY <2>1
  <1>4. PICK f : Rounds(v, i, m - 1, f)
    <2>1. m - 1 \in Nat /\ ~(m <= m - 1)
      BY <1>3
    <2> QED BY <1>2, <2>1
  <1> DEFINE g == [k \in 0 .. m |-> IF k = m THEN MoveDown(f[m - 1], i + m - 1) ELSE f[k]]
  <1>5. Rounds(v, i, m, g)
    <2>1. ASSUME NEW k \in 0 .. m
          PROVE  g[k] = IF k = 0 THEN [v |-> v, offset |-> v.items[i].offset]
                        ELSE MoveDown(g[k - 1], i + k - 1)
      <3>1. CASE k = 0
        BY <1>3, <1>4, <3>1 DEF Rounds
      <3>2. CASE k = m
        BY <1>3, <3>2
      <3>3. CASE k # 0 /\ k # m
        <4>1. k \in 0 .. (m - 1) /\ k - 1 \in 0 .. m /\ k - 1 # m
          BY <3>3
        <4>2. f[k] = MoveDown(f[k - 1], i + k - 1)
          BY <1>4, <3>3, <4>1 DEF Rounds
        <4> QED BY <3>3, <4>1, <4>2
      <3> QED BY <3>1, <3>2, <3>3
    <2> QED BY <2>1 DEF Rounds
  <1> QED BY <1>2, <1>5

\* Moved is what the last round leaves.
LEMMA MovedIsLast ==
    ASSUME NEW v, NEW i, NEW n \in Nat
    PROVE  \E f : Rounds(v, i, n, f) /\ Moved(v, i, n) = f[n]
  <1> DEFINE a == CHOOSE f : Rounds(v, i, n, f)
  <1>1. Rounds(v, i, n, a)
    BY RoundsExist
  <1>2. Moved(v, i, n) = a[n]
    BY DEF Moved, Rounds
  <1> QED BY <1>1, <1>2

\* The item that ends up in entry p when item i is taken out.
Source(i, p) == IF p < i THEN p ELSE p + 1

\* The loop's invariant, after k rounds from item i on: the entries in front of
\* i + k are filled in order, in front of the next item's place, ...
MovedOrder(v, i, k, a) ==
    /\ a \in [v : Tables, offset : Nat]
    /\ Len(a.v.items) = Len(v.items)
    /\ a.v.free_size = v.free_size /\ a.v.free_offset = v.free_offset
    /\ a.offset + ALIGN(v.items[i].size) <= End(v.items[i + k])
    /\ \A p \in 1 .. Len(v.items) :
          IF p < i + k
          THEN /\ a.v.items[p].id = v.items[Source(i, p)].id
               /\ a.v.items[p].size = v.items[Source(i, p)].size
               /\ End(a.v.items[p]) <= a.offset
          ELSE a.v.items[p] = v.items[p]
    /\ \A p, q \in 1 .. Len(v.items) :
          p < q /\ q < i + k => End(a.v.items[p]) <= a.v.items[q].offset

\* ... they hold the bytes of the items that they were filled with, and the data
\* behind item i + k is as it was.
MovedData(v, i, k, a) ==
    /\ \A p \in 1 .. Len(v.items) : p < i + k =>
          \A b \in Nat : b < ALIGN(a.v.items[p].size) =>
             a.v.data[a.v.items[p].offset + b]
                = v.data[v.items[Source(i, p)].offset + b]
    /\ \A x \in 0 .. (DataSize - 1) :
          End(v.items[i + k]) <= x => a.v.data[x] = v.data[x]

Moving(v, i, k, a) == MovedOrder(v, i, k, a) /\ MovedData(v, i, k, a)

\* It holds before the first round.
LEMMA MovingStart ==
    ASSUME NEW v, TableInv(v), NEW i \in 1 .. Len(v.items)
    PROVE  Moving(v, i, 0, Start(v, i))
  <1>t. v \in Tables /\ TableOrder(v)
    BY DEF TableInv, TableOrder
  <1>1. /\ Start(v, i).v = v /\ Start(v, i).offset = v.items[i].offset
        /\ v.items[i].offset \in Nat /\ i + 0 = i
    BY <1>t, ItemFacts DEF Start
  <1>2. Start(v, i) \in [v : Tables, offset : Nat]
    BY <1>t, <1>1 DEF Start
  <1>3. ASSUME NEW p \in 1 .. Len(v.items), p < i
        PROVE  /\ Source(i, p) = p
               /\ End(v.items[p]) <= v.items[i].offset
    BY <1>t, <1>3 DEF TableOrder, Source
  <1>4. MovedOrder(v, i, 0, Start(v, i))
    <2>1. v.items[i].offset + ALIGN(v.items[i].size) <= End(v.items[i])
      BY <1>t, ItemFacts
    <2>2. \A p, q \in 1 .. Len(v.items) :
             p < q /\ q < i => End(v.items[p]) <= v.items[q].offset
      BY <1>t DEF TableOrder
    <2> QED BY <1>1, <1>2, <1>3, <2>1, <2>2 DEF MovedOrder
  <1>5. MovedData(v, i, 0, Start(v, i))
    BY <1>1, <1>3 DEF MovedData
  <1> QED BY <1>4, <1>5 DEF Moving

\* What a copy leaves: the bytes of the source where they were put, and the rest.
CopyInside(data, to, src, len, from, n) ==
    /\ data \in [0 .. (DataSize - 1) -> Bytes]
    /\ len \in Nat /\ src \in [0 .. (len - 1) -> Bytes]
    /\ to \in Nat /\ from \in Nat /\ n \in Nat
    /\ to + n <= DataSize /\ from + n <= len

Copied(w, data, to, src, from, n) ==
    /\ w \in [0 .. (DataSize - 1) -> Bytes]
    /\ \A b \in Nat : b < n => w[to + b] = src[from + b]
    /\ \A x \in 0 .. (DataSize - 1) : x < to \/ to + n <= x => w[x] = data[x]

\* memcpy does that when both ranges lie inside.
LEMMA MemcpyCopies ==
    ASSUME NEW data, NEW to, NEW src, NEW len, NEW from, NEW n,
           CopyInside(data, to, src, len, from, n)
    PROVE  Copied(Memcpy(data, to, src, from, n), data, to, src, from, n)
  <1>0. /\ data \in [0 .. (DataSize - 1) -> Bytes]
        /\ len \in Nat /\ src \in [0 .. (len - 1) -> Bytes]
        /\ to \in Nat /\ from \in Nat /\ n \in Nat
        /\ to + n <= DataSize /\ from + n <= len
    BY DEF CopyInside
  <1> DataSize \in Nat
    BY VendorTableAssumption
  <1> DEFINE w == Memcpy(data, to, src, from, n)
  <1>1. w = [k \in 0 .. (DataSize - 1) |->
                IF to <= k /\ k < to + n THEN src[from + k - to] ELSE data[k]]
    BY <1>0 DEF Memcpy
  <1>2. ASSUME NEW k \in 0 .. (DataSize - 1), to <= k, k < to + n
        PROVE  src[from + k - to] \in Bytes
    <2>1. from + k - to \in 0 .. (len - 1)
      BY <1>0, <1>2
    <2> QED BY <1>0, <2>1
  <1>3. w \in [0 .. (DataSize - 1) -> Bytes]
    BY <1>0, <1>1, <1>2
  <1>4. ASSUME NEW b \in Nat, b < n PROVE w[to + b] = src[from + b]
    <2>1. to + b \in 0 .. (DataSize - 1) /\ to <= to + b /\ to + b < to + n
      BY <1>0, <1>4
    <2>2. from + (to + b) - to = from + b
      BY <1>0
    <2>3. w[to + b] = src[from + (to + b) - to]
      BY <1>1, <2>1
    <2> QED BY <2>2, <2>3
  <1>5. ASSUME NEW x \in 0 .. (DataSize - 1), x < to \/ to + n <= x
        PROVE  w[x] = data[x]
    BY <1>0, <1>1, <1>5
  <1> QED BY <1>3, <1>4, <1>5 DEF Copied

\* What is known before round k, of the item that is moved and of its place.
LEMMA MovingNext ==
    ASSUME NEW v, TableInv(v), NEW i \in 1 .. Len(v.items), NEW k \in Nat, NEW a,
           i + k < Len(v.items), MovedOrder(v, i, k, a)
    PROVE  /\ v \in Tables /\ a.v \in Tables /\ a.offset \in Nat
           /\ i + k \in 1 .. Len(v.items) /\ i + k + 1 \in 1 .. Len(v.items)
           /\ a.v.items[i + k + 1] = v.items[i + k + 1]
           /\ Source(i, i + k) = i + k + 1
           /\ a.offset + ALIGN(v.items[i].size) <= v.items[i + k + 1].offset
           /\ ALIGN(v.items[i].size) \in Nat
           /\ End(v.items[i + k]) <= v.items[i + k + 1].offset
           /\ End(v.items[i + k + 1]) <= DataSize
           /\ End(v.items[i + k]) \in Nat
  <1>t. v \in Tables /\ TableOrder(v) /\ v.free_offset + v.free_size <= DataSize
    BY DEF TableInv, TableOrder
  <1>1. Len(v.items) \in Nat /\ v.free_offset \in Nat /\ v.free_size \in Nat
        /\ DataSize \in Nat
    BY <1>t, TableFacts
  <1>2. i + k \in 1 .. Len(v.items) /\ i + k + 1 \in 1 .. Len(v.items)
    BY <1>1
  <1>3. a.v \in Tables /\ a.offset \in Nat
        /\ a.offset + ALIGN(v.items[i].size) <= End(v.items[i + k])
    BY DEF MovedOrder
  <1>4. a.v.items[i + k + 1] = v.items[i + k + 1]
    BY <1>2 DEF MovedOrder
  <1>5. Source(i, i + k) = i + k + 1
    BY <1>2 DEF Source
  <1>6. End(v.items[i + k]) <= v.items[i + k + 1].offset
        /\ End(v.items[i + k + 1]) <= v.free_offset
    BY <1>t, <1>2 DEF TableOrder
  <1>7. /\ End(v.items[i + k]) \in Nat /\ End(v.items[i + k + 1]) \in Nat
        /\ v.items[i + k + 1].offset \in Nat /\ ALIGN(v.items[i].size) \in Nat
    BY <1>t, <1>2, ItemFacts
  <1>8. a.offset + ALIGN(v.items[i].size) <= v.items[i + k + 1].offset
    <2> DEFINE e == End(v.items[i + k])
               z == ALIGN(v.items[i].size)
               o == v.items[i + k + 1].offset
    <2>1. e \in Nat /\ z \in Nat /\ o \in Nat /\ a.offset + z <= e /\ e <= o
      BY <1>3, <1>6, <1>7
    <2> HIDE DEF e, z, o
    <2>2. a.offset + z <= o
      BY <1>3, <2>1
    <2> QED BY <2>2 DEF z, o
  <1>9. End(v.items[i + k + 1]) <= DataSize
    <2> DEFINE e == End(v.items[i + k + 1])
    <2>1. e \in Nat /\ e <= v.free_offset
      BY <1>6, <1>7
    <2> HIDE DEF e
    <2>2. e <= DataSize
      BY <1>t, <1>1, <2>1
    <2> QED BY <2>2 DEF e
  <1> QED BY <1>t, <1>2, <1>3, <1>4, <1>5, <1>6, <1>7, <1>8, <1>9

\* The fields after a round.
Round(a, j, next, items, data, w) ==
    /\ a.v \in Tables /\ next = a.v.items[j + 1]
    /\ items \in Seq(Items) /\ data \in [0 .. (DataSize - 1) -> Bytes]
    /\ items = [a.v.items EXCEPT ![j] =
                   [id |-> next.id, offset |-> a.offset, size |-> next.size]]
    /\ data = Memcpy(a.v.data, a.offset, a.v.data, next.offset, ALIGN(next.size))
    /\ w = MoveDown(a, j).v

\* What the table is after one round of the loop.
LEMMA MoveDownFields ==
    ASSUME NEW a, NEW j, NEW next, NEW items, NEW data, NEW w,
           Round(a, j, next, items, data, w)
    PROVE  /\ MoveDown(a, j) = [offset |-> a.offset + ALIGN(next.size), v |-> w]
           /\ w \in Tables
           /\ w.items = items /\ w.data = data
           /\ w.free_offset = a.v.free_offset /\ w.free_size = a.v.free_size
  <1> DEFINE new == [id |-> next.id, offset |-> a.offset, size |-> next.size]
             u == [a.v EXCEPT !.items[j] = new,
                              !.data = Memcpy(@, a.offset, @, next.offset, ALIGN(next.size))]
  <1>0. /\ a.v \in Tables /\ next = a.v.items[j + 1]
        /\ items \in Seq(Items) /\ data \in [0 .. (DataSize - 1) -> Bytes]
        /\ items = [a.v.items EXCEPT ![j] = new]
        /\ data = Memcpy(a.v.data, a.offset, a.v.data, next.offset, ALIGN(next.size))
        /\ w = MoveDown(a, j).v
    BY DEF Round
  <1>1. MoveDown(a, j) = [offset |-> a.offset + ALIGN(next.size), v |-> u]
    BY <1>0 DEF MoveDown
  <1> HIDE DEF new, u
  <1>2. w = u
    BY <1>0, <1>1
  <1>3. u = [[a.v EXCEPT !.items[j] = new] EXCEPT
                !.data = Memcpy(a.v.data, a.offset, a.v.data, next.offset, ALIGN(next.size))]
    BY <1>0 DEF Tables, u
  <1>4. [a.v EXCEPT !.items[j] = new] = [a.v EXCEPT !.items = [a.v.items EXCEPT ![j] = new]]
    BY <1>0 DEF Tables
  <1>5. w = [[a.v EXCEPT !.items = items] EXCEPT !.data = data]
    BY <1>0, <1>2, <1>3, <1>4, Zenon
  <1>6. /\ w \in Tables /\ w.items = items /\ w.data = data
        /\ w.free_offset = a.v.free_offset /\ w.free_size = a.v.free_size
    BY <1>0, <1>5 DEF Tables
  <1> QED BY <1>1, <1>2, <1>6

\* A round keeps the invariant.
LEMMA MovingStep ==
    ASSUME NEW v, TableInv(v), NEW i \in 1 .. Len(v.items), NEW k \in Nat, NEW a,
           i + k < Len(v.items), Moving(v, i, k, a)
    PROVE  Moving(v, i, k + 1, MoveDown(a, i + k))
  <1>m. MovedOrder(v, i, k, a) /\ MovedData(v, i, k, a)
    BY DEF Moving
  <1>p. PICK j, next, n, new, w, data, items, to, from, e, z :
           /\ j = i + k /\ next = v.items[i + k + 1] /\ n = ALIGN(next.size)
           /\ new = [id |-> next.id, offset |-> a.offset, size |-> next.size]
           /\ w = MoveDown(a, i + k).v
           /\ data = Memcpy(a.v.data, a.offset, a.v.data, next.offset, n)
           /\ items = [a.v.items EXCEPT ![j] = new]
           /\ to = a.offset /\ from = next.offset
           /\ e = End(v.items[i + k]) /\ z = ALIGN(v.items[i].size)
    OBVIOUS
  <1>j. i + (k + 1) = j + 1 /\ i + k = j /\ j \in Nat /\ Len(v.items) \in Nat
    BY <1>p, TableFacts DEF TableInv, TableOrder
  <1>0. /\ v \in Tables /\ a.v \in Tables
        /\ j \in 1 .. Len(v.items) /\ j + 1 \in 1 .. Len(v.items)
        /\ a.v.items[j + 1] = next /\ v.items[j + 1] = next /\ Source(i, j) = j + 1
    <2>1. /\ v \in Tables /\ a.v \in Tables
          /\ i + k \in 1 .. Len(v.items) /\ i + k + 1 \in 1 .. Len(v.items)
          /\ a.v.items[i + k + 1] = v.items[i + k + 1]
          /\ Source(i, i + k) = i + k + 1
      BY <1>m, MovingNext
    <2> QED BY <1>p, <2>1, Zenon
  <1>1. /\ next.id \in Ids /\ next.offset \in Nat /\ next.size \in Nat /\ n \in Nat
        /\ End(next) = from + n
    BY <1>0, <1>p, ItemFacts
  <1>n. /\ to \in Nat /\ from \in Nat /\ n \in Nat /\ z \in Nat /\ e \in Nat
        /\ DataSize \in Nat
        /\ to + z <= from /\ e <= from /\ from + n <= DataSize
    <2>1. /\ a.offset \in Nat /\ a.offset + z <= next.offset /\ z \in Nat
          /\ e <= next.offset /\ End(next) <= DataSize /\ e \in Nat
      BY <1>m, <1>p, MovingNext
    <2>2. DataSize \in Nat
      BY VendorTableAssumption
    <2> QED BY <1>1, <1>p, <2>1, <2>2
  <1>2. /\ a.v.items \in Seq(Items) /\ Len(a.v.items) = Len(v.items)
        /\ a.v.data \in [0 .. (DataSize - 1) -> Bytes]
        /\ a.v.free_size = v.free_size /\ a.v.free_offset = v.free_offset
    BY <1>0, <1>m, TableFacts DEF MovedOrder
  <1>6. /\ data \in [0 .. (DataSize - 1) -> Bytes]
        /\ \A b \in Nat : b < n => data[to + b] = a.v.data[from + b]
        /\ \A x \in 0 .. (DataSize - 1) : x < to \/ to + n <= x => data[x] = a.v.data[x]
    <2>1. data = Memcpy(a.v.data, to, a.v.data, from, n)
      BY <1>p, Zenon
    <2>2. PICK d : d = a.v.data
      OBVIOUS
    <2>3. d \in [0 .. (DataSize - 1) -> Bytes]
      BY <1>2, <2>2
    <2>4. to + n <= DataSize
      BY <1>n
    <2>5. CopyInside(d, to, d, DataSize, from, n)
      BY <1>n, <2>3, <2>4 DEF CopyInside
    <2>6. Copied(Memcpy(d, to, d, from, n), d, to, d, from, n)
      BY <2>5, MemcpyCopies
    <2> QED BY <2>1, <2>2, <2>6 DEF Copied
  <1>7. /\ new \in Items /\ new.id = next.id /\ new.size = next.size
        /\ new.offset = to /\ End(new) = to + n
    <2>1. a.offset \in Nat
      BY <1>n, <1>p
    <2> QED BY <1>1, <1>p, <2>1 DEF Items, End
  <1>8. /\ items \in Seq(Items) /\ Len(items) = Len(v.items)
        /\ items[j] = new
        /\ \A p \in 1 .. Len(v.items) : p # j => items[p] = a.v.items[p]
    BY <1>0, <1>2, <1>7, <1>p
  <1>5. /\ MoveDown(a, j) = [offset |-> to + n, v |-> w] /\ w \in Tables
        /\ w.items = items /\ w.data = data
        /\ w.free_size = v.free_size /\ w.free_offset = v.free_offset
    <2>1. /\ items = [a.v.items EXCEPT ![j] =
                         [id |-> next.id, offset |-> a.offset, size |-> next.size]]
          /\ data = Memcpy(a.v.data, a.offset, a.v.data, next.offset, ALIGN(next.size))
          /\ w = MoveDown(a, j).v
      BY <1>p, Zenon
    <2>2. items \in Seq(Items) /\ data \in [0 .. (DataSize - 1) -> Bytes]
          /\ a.v \in Tables /\ next = a.v.items[j + 1]
      BY <1>0, <1>6, <1>8
    <2>3. /\ MoveDown(a, j) = [offset |-> a.offset + ALIGN(next.size), v |-> w]
          /\ w \in Tables
          /\ w.items = items /\ w.data = data
          /\ w.free_offset = a.v.free_offset /\ w.free_size = a.v.free_size
      <3>1. Round(a, j, next, items, data, w)
        BY <2>1, <2>2, Zenon DEF Round
      <3> QED BY <3>1, MoveDownFields
    <2> QED BY <1>2, <1>p, <2>3
  <1>10. /\ MoveDown(a, j) \in [v : Tables, offset : Nat]
         /\ MoveDown(a, j).offset = to + n /\ MoveDown(a, j).v = w
    BY <1>n, <1>5
  <1>a. \A p \in 1 .. Len(v.items) :
          /\ End(a.v.items[p]) \in Nat
          /\ IF p < j
             THEN /\ a.v.items[p].id = v.items[Source(i, p)].id
                  /\ a.v.items[p].size = v.items[Source(i, p)].size
                  /\ End(a.v.items[p]) <= to
             ELSE a.v.items[p] = v.items[p]
    <2>1. \A p \in 1 .. Len(v.items) : End(a.v.items[p]) \in Nat
      BY <1>0, <1>2, ItemFacts
    <2>2. \A p \in 1 .. Len(v.items) :
             IF p < i + k
             THEN /\ a.v.items[p].id = v.items[Source(i, p)].id
                  /\ a.v.items[p].size = v.items[Source(i, p)].size
                  /\ End(a.v.items[p]) <= a.offset
             ELSE a.v.items[p] = v.items[p]
      BY <1>m DEF MovedOrder
    <2> QED BY <1>p, <2>1, <2>2
  <1>11. ASSUME NEW p \in 1 .. Len(v.items)
         PROVE  IF p < j + 1
                THEN /\ items[p].id = v.items[Source(i, p)].id
                     /\ items[p].size = v.items[Source(i, p)].size
                     /\ End(items[p]) <= to + n
                ELSE items[p] = v.items[p]
    <2>0. p \in Nat /\ j \in Nat
      BY <1>j
    <2>1. CASE p = j
      <3>1. items[p] = new /\ v.items[Source(i, p)] = next /\ p < j + 1
        BY <1>0, <1>8, <2>0, <2>1
      <3> QED BY <1>n, <1>7, <3>1
    <2>2. CASE p < j
      <3>1. items[p] = a.v.items[p] /\ p < j + 1
        BY <1>8, <2>0, <2>2
      <3>2. End(a.v.items[p]) <= to + n
        <4>1. End(a.v.items[p]) <= to /\ End(a.v.items[p]) \in Nat
          BY <1>a, <2>2
        <4> QED BY <1>n, <4>1
      <3> QED BY <1>a, <2>2, <3>1, <3>2
    <2>3. CASE p > j
      <3>1. items[p] = a.v.items[p] /\ ~(p < j + 1) /\ ~(p < j)
        BY <1>8, <2>0, <2>3
      <3> QED BY <1>a, <3>1
    <2> QED BY <2>0, <2>1, <2>2, <2>3
  <1>12. ASSUME NEW p \in 1 .. Len(v.items), NEW q \in 1 .. Len(v.items), p < q, q < j + 1
         PROVE  End(items[p]) <= items[q].offset
    <2>1. p < j /\ items[p] = a.v.items[p]
      BY <1>8, <1>12, <1>j
    <2>2. CASE q = j
      BY <1>7, <1>8, <1>a, <2>1, <2>2
    <2>3. CASE q # j
      <3>1. q < j /\ items[q] = a.v.items[q]
        BY <1>8, <1>12, <1>j, <2>3
      <3>2. p < q /\ q < i + k
        BY <1>12, <1>p, <3>1
      <3>3. End(a.v.items[p]) <= a.v.items[q].offset
        BY <1>m, <3>2 DEF MovedOrder
      <3> QED BY <2>1, <3>1, <3>3
    <2> QED BY <2>2, <2>3
  <1>13. to + n + ALIGN(v.items[i].size) <= End(v.items[j + 1])
    <2>1. to + n + z <= from + n
      BY <1>n
    <2> QED BY <1>0, <1>1, <1>p, <2>1
  <1>14. MovedOrder(v, i, k + 1, MoveDown(a, j))
    BY <1>5, <1>8, <1>10, <1>11, <1>12, <1>13, <1>j DEF MovedOrder
  <1>15. ASSUME NEW p \in 1 .. Len(v.items), p < j + 1, NEW b \in Nat,
                b < ALIGN(items[p].size)
         PROVE  data[items[p].offset + b] = v.data[v.items[Source(i, p)].offset + b]
    <2>1. CASE p = j
      <3>1. items[p] = new /\ v.items[Source(i, p)] = next
        BY <1>0, <1>8, <2>1
      <3>2. b < n
        BY <1>7, <1>15, <1>p, <3>1
      <3>3. data[to + b] = a.v.data[from + b]
        BY <1>6, <3>2
      <3>4. a.v.data[from + b] = v.data[from + b]
        <4>1. from + b \in 0 .. (DataSize - 1) /\ e <= from + b
          BY <1>n, <3>2
        <4> QED BY <1>m, <1>p, <4>1 DEF MovedData
      <3> QED BY <1>7, <1>p, <3>1, <3>3, <3>4
    <2>2. CASE p < j
      <3>1. items[p] = a.v.items[p]
        BY <1>8, <2>2, <1>j
      <3>2. a.v.data[a.v.items[p].offset + b] = v.data[v.items[Source(i, p)].offset + b]
        <4>1. p < i + k /\ b < ALIGN(a.v.items[p].size)
          BY <1>15, <1>p, <2>2, <3>1
        <4> QED BY <1>m, <4>1 DEF MovedData
      <3>3. PICK o, l : /\ o = a.v.items[p].offset /\ l = ALIGN(a.v.items[p].size)
                        /\ o \in Nat /\ l \in Nat /\ o + l = End(a.v.items[p])
        <4>1. p \in 1 .. Len(a.v.items)
          BY <1>2
        <4>2. /\ a.v.items[p].offset \in Nat /\ ALIGN(a.v.items[p].size) \in Nat
              /\ End(a.v.items[p]) = a.v.items[p].offset + ALIGN(a.v.items[p].size)
          BY <1>0, <4>1, ItemFacts
        <4> QED BY <4>2
      <3>4. o + l <= to /\ b < l
        <4>1. End(a.v.items[p]) <= to
          BY <1>a, <2>2
        <4>2. b < ALIGN(a.v.items[p].size)
          BY <1>15, <3>1
        <4>3. o + l <= to
          BY <3>3, <4>1, Zenon
        <4>4. b < l
          BY <3>3, <4>2, Zenon
        <4> QED BY <4>3, <4>4
      <3>5. o + b \in 0 .. (DataSize - 1) /\ o + b < to
        <4>1. to <= DataSize
          BY <1>n
        <4>2. o \in Nat /\ l \in Nat
          BY <3>3
        <4> QED BY <1>n, <3>4, <4>1, <4>2
      <3>6. data[o + b] = a.v.data[o + b]
        BY <1>6, <3>5
      <3> QED BY <3>1, <3>2, <3>3, <3>6
    <2> QED BY <1>15, <1>j, <2>1, <2>2
  <1>16. ASSUME NEW x \in 0 .. (DataSize - 1), End(v.items[j + 1]) <= x
         PROVE  data[x] = v.data[x]
    <2>1. e <= x /\ to + n <= x
      BY <1>0, <1>1, <1>n, <1>16
    <2>2. data[x] = a.v.data[x]
      BY <1>6, <2>1
    <2>3. a.v.data[x] = v.data[x]
      BY <1>m, <1>p, <2>1 DEF MovedData
    <2> QED BY <2>2, <2>3
  <1>17. MovedData(v, i, k + 1, MoveDown(a, j))
    BY <1>5, <1>10, <1>15, <1>16, <1>j DEF MovedData
  <1> QED BY <1>14, <1>17, <1>p DEF Moving

\* The invariant holds after every round.
LEMMA MovingAll ==
    ASSUME NEW v, TableInv(v), NEW i \in 1 .. Len(v.items), NEW n \in Nat,
           i + n <= Len(v.items)
    PROVE  Moving(v, i, n, Moved(v, i, n))
  <1>1. PICK f : Rounds(v, i, n, f) /\ Moved(v, i, n) = f[n]
    BY MovedIsLast
  <1>2. /\ f[0] = Start(v, i)
        /\ \A k \in 0 .. n : k # 0 => f[k] = MoveDown(f[k - 1], i + k - 1)
    <2>1. ASSUME NEW k \in 0 .. n
          PROVE  f[k] = IF k = 0 THEN Start(v, i) ELSE MoveDown(f[k - 1], i + k - 1)
      BY <1>1, Zenon DEF Rounds, Start
    <2>2. 0 \in 0 .. n
      OBVIOUS
    <2> QED BY <2>1, <2>2
  <1> DEFINE bad == {k \in 0 .. n : ~ Moving(v, i, k, f[k])}
  <1>3. SUFFICES ASSUME bad # {} PROVE FALSE
    <2>1. n \in 0 .. n
      OBVIOUS
    <2>2. Moving(v, i, n, f[n])
      BY <1>3, <2>1
    <2> QED BY <1>1, <2>2
  <1>4. PICK m \in bad : \A k \in bad : m <= k
    <2>1. bad \in SUBSET Nat
      OBVIOUS
    <2> HIDE DEF bad
    <2> QED BY <1>3, <2>1, MinIsLeast
  <1>5. m \in 0 .. n /\ ~ Moving(v, i, m, f[m])
    BY <1>4
  <1>6. m # 0
    BY <1>2, <1>5, MovingStart
  <1>7. PICK k : k = m - 1
    OBVIOUS
  <1>8. k \in Nat /\ k \in 0 .. n /\ m = k + 1 /\ ~(m <= k) /\ i + k < Len(v.items)
        /\ i + m - 1 = i + k
    <2>1. Len(v.items) \in Nat
      BY TableFacts DEF TableInv, TableOrder
    <2> QED BY <1>5, <1>6, <1>7, <2>1
  <1>9. Moving(v, i, k, f[k])
    BY <1>4, <1>8
  <1>10. Moving(v, i, k + 1, MoveDown(f[k], i + k))
    BY <1>8, <1>9, MovingStep
  <1>11. f[m] = MoveDown(f[k], i + k)
    <2>1. f[m] = MoveDown(f[m - 1], i + m - 1)
      BY <1>2, <1>5, <1>6
    <2> QED BY <1>7, <1>8, <2>1
  <1> QED BY <1>5, <1>8, <1>10, <1>11

-----------------------------------------------------------------------------
(* Writes. *)

\* The entry of an item that a table in order holds, and what a read returns.
LEMMA EntryIs ==
    ASSUME NEW v, TableOrder(v), NEW p \in 1 .. Len(v.items)
    PROVE  /\ Entries(v, v.items[p].id) = {p}
           /\ Entry(v, v.items[p].id) = p
           /\ VendorRead(v, v.items[p].id) =
                Answer([k \in 0 .. (v.items[p].size - 1) |-> v.data[v.items[p].offset + k]],
                       v.items[p].size)
  <1>1. DOMAIN v.items = 1 .. Len(v.items) /\ Len(v.items) \in Nat
    BY TableFacts DEF TableOrder
  <1>2. ASSUME NEW q \in 1 .. Len(v.items), v.items[q].id = v.items[p].id
        PROVE  q = p
    <2>1. ~(q < p) /\ ~(p < q)
      BY <1>2 DEF TableOrder
    <2> QED BY <1>1, <2>1
  <1>3. Entries(v, v.items[p].id) = {p}
    BY <1>1, <1>2 DEF Entries
  <1>4. Entry(v, v.items[p].id) = p
    <2>1. {p} \in SUBSET Nat /\ {p} # {}
      BY <1>1
    <2>2. Min({p}) \in {p}
      BY <2>1, MinIsLeast
    <2> QED BY <1>3, <2>2 DEF Entry
  <1>5. Entries(v, v.items[p].id) # {}
    BY <1>3
  <1> QED BY <1>3, <1>4, <1>5 DEF VendorRead

\* An id without an entry, and one with.
LEMMA EntryCases ==
    ASSUME NEW v, TableOrder(v), NEW id
    PROVE  /\ Entries(v, id) = {} => VendorRead(v, id) = NoItem
           /\ Entries(v, id) # {} =>
                 /\ Entry(v, id) \in 1 .. Len(v.items)
                 /\ v.items[Entry(v, id)].id = id
           /\ Entries(v, id) = {} <=> \A p \in 1 .. Len(v.items) : v.items[p].id # id
  <1>1. DOMAIN v.items = 1 .. Len(v.items) /\ Len(v.items) \in Nat
    BY TableFacts DEF TableOrder
  <1>2. Entries(v, id) = {} => VendorRead(v, id) = NoItem
    BY DEF VendorRead
  <1>3. ASSUME Entries(v, id) # {}
        PROVE  /\ Entry(v, id) \in 1 .. Len(v.items)
               /\ v.items[Entry(v, id)].id = id
    <2>1. Entries(v, id) \in SUBSET Nat
      BY <1>1 DEF Entries
    <2>2. Entry(v, id) \in Entries(v, id)
      BY <1>3, <2>1, MinIsLeast DEF Entry
    <2> QED BY <1>1, <2>2 DEF Entries
  <1>4. Entries(v, id) = {} <=> \A p \in 1 .. Len(v.items) : v.items[p].id # id
    BY <1>1 DEF Entries
  <1> QED BY <1>2, <1>3, <1>4

\* An item of one table and an item of another hold the same; an item holds what
\* was written.
SameItem(w, q, v, p) ==
    /\ w.items[q].id = v.items[p].id /\ w.items[q].size = v.items[p].size
    /\ \A b \in Nat : b < v.items[p].size =>
          w.data[w.items[q].offset + b] = v.data[v.items[p].offset + b]

HoldsItem(w, q, id, buf, size) ==
    /\ w.items[q].id = id /\ w.items[q].size = size
    /\ \A b \in Nat : b < size => w.data[w.items[q].offset + b] = buf[b]

\* What a read returns is decided by an item's size and its bytes.
LEMMA HeldIsRead ==
    ASSUME NEW v, TableOrder(v), NEW p \in 1 .. Len(v.items), NEW id, NEW size \in Nat,
           NEW buf, buf = [k \in 0 .. (size - 1) |-> buf[k]], HoldsItem(v, p, id, buf, size)
    PROVE  VendorRead(v, id) = Answer(buf, size)
  <1>0. /\ v.items[p].id = id /\ v.items[p].size = size
        /\ \A b \in Nat : b < size => v.data[v.items[p].offset + b] = buf[b]
    BY DEF HoldsItem
  <1>1. VendorRead(v, id) =
           Answer([k \in 0 .. (size - 1) |-> v.data[v.items[p].offset + k]], size)
    BY <1>0, EntryIs
  <1>2. [k \in 0 .. (size - 1) |-> v.data[v.items[p].offset + k]]
           = [k \in 0 .. (size - 1) |-> buf[k]]
    <2>1. ASSUME NEW k \in 0 .. (size - 1) PROVE v.data[v.items[p].offset + k] = buf[k]
      <3>1. k \in Nat /\ k < size
        OBVIOUS
      <3> QED BY <1>0, <3>1
    <2> QED BY <2>1
  <1> QED BY <1>1, <1>2

\* Table w is table v after a write of one item.
Written(v, w, id, buf, size) ==
    \A x \in Ids : VendorRead(w, x) = IF x = id THEN Answer(buf, size) ELSE VendorRead(v, x)

\* It is so when the item is there and every other one is where it was or has
\* been moved as it was.
LEMMA WrittenItems ==
    ASSUME NEW v, NEW w, TableOrder(v), TableOrder(w), NEW id, NEW size \in Nat,
           NEW buf \in [0 .. (size - 1) -> Bytes],
           \E q \in 1 .. Len(w.items) : HoldsItem(w, q, id, buf, size),
           \A p \in 1 .. Len(v.items) : v.items[p].id # id =>
              \E q \in 1 .. Len(w.items) : SameItem(w, q, v, p),
           \A q \in 1 .. Len(w.items) : w.items[q].id # id =>
              \E p \in 1 .. Len(v.items) : v.items[p].id = w.items[q].id
    PROVE  Written(v, w, id, buf, size)
  <1>1. VendorRead(w, id) = Answer(buf, size)
    <2>1. PICK q \in 1 .. Len(w.items) : HoldsItem(w, q, id, buf, size)
      OBVIOUS
    <2>2. buf = [k \in 0 .. (size - 1) |-> buf[k]]
      OBVIOUS
    <2> QED BY <2>1, <2>2, HeldIsRead
  <1>2. ASSUME NEW x \in Ids, x # id
        PROVE  VendorRead(w, x) = VendorRead(v, x)
    <2>1. CASE Entries(v, x) = {}
      <3>1. \A p \in 1 .. Len(v.items) : v.items[p].id # x
        BY <2>1, EntryCases
      <3>2. \A q \in 1 .. Len(w.items) : w.items[q].id # x
        BY <1>2, <3>1
      <3>3. Entries(w, x) = {}
        BY <3>2, EntryCases
      <3> QED BY <2>1, <3>3, EntryCases
    <2>2. CASE Entries(v, x) # {}
      <3>1. PICK p \in 1 .. Len(v.items) : v.items[p].id = x
        BY <2>2, EntryCases
      <3>2. PICK q \in 1 .. Len(w.items) : SameItem(w, q, v, p)
        BY <1>2, <3>1
      <3>3. PICK size2, off : size2 = v.items[p].size /\ off = v.items[p].offset
                              /\ size2 \in Nat
        BY ItemFacts DEF TableOrder
      <3>o. PICK old : old = [k \in 0 .. (size2 - 1) |-> v.data[off + k]]
        OBVIOUS
      <3>4. VendorRead(v, x) = Answer(old, size2)
        <4>1. VendorRead(v, v.items[p].id) =
                 Answer([k \in 0 .. (v.items[p].size - 1) |-> v.data[v.items[p].offset + k]],
                        v.items[p].size)
          BY EntryIs
        <4> QED BY <3>1, <3>3, <3>o, <4>1, Zenon
      <3>5. /\ w.items[q].id = x /\ w.items[q].size = size2
            /\ \A b \in Nat : b < size2 => w.data[w.items[q].offset + b] = v.data[off + b]
        BY <3>1, <3>2, <3>3 DEF SameItem
      <3>6. \A b \in Nat : b < size2 => w.data[w.items[q].offset + b] = old[b]
        BY <3>3, <3>5, <3>o
      <3>7. old = [k \in 0 .. (size2 - 1) |-> old[k]]
        BY <3>o
      <3>8. HoldsItem(w, q, x, old, size2)
        BY <3>5, <3>6 DEF HoldsItem
      <3>9. VendorRead(w, x) = Answer(old, size2)
        <4>1. size2 \in Nat
          BY <3>3
        <4> QED BY <3>7, <3>8, <4>1, HeldIsRead
      <3> QED BY <3>4, <3>9
    <2> QED BY <2>1, <2>2
  <1> QED BY <1>1, <1>2 DEF Written

\* What a write of an item starts from.
Writes(v, id, buf, size) ==
    /\ TableInv(v) /\ id \in Ids /\ size \in Nat /\ buf \in [0 .. (size - 1) -> Bytes]

\* A new item.
Added(v, id, size, buf, items, data, fo, fs, w) ==
    /\ v \in Tables /\ fo \in Nat /\ fs \in Nat
    /\ items \in Seq(Items) /\ data \in [0 .. (DataSize - 1) -> Bytes]
    /\ items = Append(v.items, [id |-> id, offset |-> v.free_offset, size |-> size])
    /\ data = Memcpy(v.data, v.free_offset, buf, 0, size)
    /\ fo = v.free_offset + ALIGN(size) /\ fs = v.free_size - ALIGN(size)
    /\ w = AddItem(v, id, buf, size)

\* What the table is after an item is added.
LEMMA AddItemFields ==
    ASSUME NEW v, NEW id, NEW size, NEW buf, NEW items, NEW data, NEW fo, NEW fs, NEW w,
           Added(v, id, size, buf, items, data, fo, fs, w)
    PROVE  /\ w \in Tables /\ w.items = items /\ w.data = data
           /\ w.free_offset = fo /\ w.free_size = fs
  <1>1. w = [v EXCEPT !.items = Append(v.items, [id |-> id, offset |-> v.free_offset,
                                                  size |-> size]),
                      !.data = Memcpy(v.data, v.free_offset, buf, 0, size),
                      !.free_offset = v.free_offset + ALIGN(size),
                      !.free_size = v.free_size - ALIGN(size)]
    BY DEF Added, AddItem, Tables
  <1>2. w = [v EXCEPT !.items = items, !.data = data, !.free_offset = fo, !.free_size = fs]
    BY <1>1, Zenon DEF Added
  <1>3. v \in Tables /\ items \in Seq(Items) /\ data \in [0 .. (DataSize - 1) -> Bytes]
        /\ fo \in Nat /\ fs \in Nat
    BY DEF Added
  <1> QED BY <1>2, <1>3 DEF Tables

\* An item added behind the others reads as written, the others as before.
LEMMA AddItemWrites ==
    ASSUME NEW v, NEW id, NEW size, NEW buf, Writes(v, id, buf, size),
           Entries(v, id) = {}, v.free_size >= ALIGN(size)
    PROVE  /\ TableInv(AddItem(v, id, buf, size))
           /\ Written(v, AddItem(v, id, buf, size), id, buf, size)
           /\ AddItem(v, id, buf, size).free_offset = v.free_offset + ALIGN(size)
           /\ AddItem(v, id, buf, size).free_size = v.free_size - ALIGN(size)
  <1>0. /\ v \in Tables /\ TableOrder(v) /\ v.free_offset + v.free_size <= DataSize
        /\ id \in Ids /\ size \in Nat /\ buf \in [0 .. (size - 1) -> Bytes]
    BY DEF Writes, TableInv, TableOrder
  <1>p. PICK new, w, items, data, fo, fs, to, l, n :
           /\ to = v.free_offset /\ l = Len(v.items) /\ n = ALIGN(size)
           /\ new = [id |-> id, offset |-> v.free_offset, size |-> size]
           /\ items = Append(v.items, new)
           /\ data = Memcpy(v.data, v.free_offset, buf, 0, size)
           /\ fo = v.free_offset + ALIGN(size) /\ fs = v.free_size - ALIGN(size)
           /\ w = AddItem(v, id, buf, size)
    OBVIOUS
  <1>n. /\ to \in Nat /\ l \in Nat /\ n \in Nat /\ size <= n /\ DataSize \in Nat
        /\ fo \in Nat /\ fs \in Nat /\ fo = to + n /\ fo + fs <= DataSize
    <2>1. ALIGN(size) \in Nat /\ size <= ALIGN(size)
      BY <1>0, AlignUp
    <2>2. /\ v.free_offset \in Nat /\ v.free_size \in Nat /\ Len(v.items) \in Nat
          /\ DataSize \in Nat
      BY <1>0, TableFacts
    <2>3. /\ to = v.free_offset /\ l = Len(v.items) /\ n = ALIGN(size)
          /\ fo = v.free_offset + ALIGN(size) /\ fs = v.free_size - ALIGN(size)
      BY <1>p, Zenon
    <2>4. fo = to + n /\ to \in Nat /\ l \in Nat /\ n \in Nat /\ size <= n /\ fo \in Nat
      BY <2>1, <2>2, <2>3
    <2>5. fs \in Nat /\ fo + fs <= DataSize
      <3>1. ALIGN(size) <= v.free_size
        BY <2>1, <2>2
      <3>2. PICK y : y = v.free_size
        OBVIOUS
      <3>3. /\ y \in Nat /\ n <= y /\ fs = y - n
            /\ v.free_offset + y <= DataSize /\ fo = v.free_offset + n
        BY <1>0, <2>2, <2>3, <3>1, <3>2
      <3>4. PICK x : x = v.free_offset
        OBVIOUS
      <3>5. x \in Nat /\ x + y <= DataSize /\ fo = x + n
        BY <2>2, <3>3, <3>4
      <3>6. y \in Nat /\ n \in Nat /\ DataSize \in Nat /\ n <= y /\ fs = y - n
        BY <2>2, <2>4, <3>3
      <3>7. fs \in Nat
        BY <3>6
      <3>8. fo + fs <= DataSize
        BY <3>5, <3>6
      <3> QED BY <3>7, <3>8
    <2> QED BY <2>2, <2>4, <2>5
  <1>l. l = Len(v.items) /\ to = v.free_offset
    BY <1>p, Zenon
  <1>1. /\ new \in Items /\ new.id = id /\ new.offset = to /\ new.size = size
        /\ End(new) = to + n
    BY <1>0, <1>n, <1>p DEF Items, End
  <1>2. /\ items \in Seq(Items) /\ Len(items) = l + 1 /\ items[l + 1] = new
        /\ \A p \in 1 .. l : items[p] = v.items[p]
    <2>1. v.items \in Seq(Items)
      BY <1>0, TableFacts
    <2> QED BY <1>1, <1>p, <2>1
  <1>3. Copied(data, v.data, to, buf, 0, size)
    <2>1. v.data \in [0 .. (DataSize - 1) -> Bytes]
      BY <1>0, TableFacts
    <2>2. to + size <= DataSize /\ 0 + size <= size
      BY <1>0, <1>n
    <2>3. CopyInside(v.data, to, buf, size, 0, size)
      BY <1>0, <1>n, <2>1, <2>2 DEF CopyInside
    <2>4. data = Memcpy(v.data, to, buf, 0, size)
      BY <1>p, Zenon
    <2> QED BY <2>3, <2>4, MemcpyCopies
  <1>4. /\ w \in Tables /\ w.items = items /\ w.data = data
        /\ w.free_offset = fo /\ w.free_size = fs
    <2>1. data \in [0 .. (DataSize - 1) -> Bytes]
      BY <1>3 DEF Copied
    <2>2. items = Append(v.items, [id |-> id, offset |-> v.free_offset, size |-> size])
      BY <1>p, Zenon
    <2>3. Added(v, id, size, buf, items, data, fo, fs, w)
      <3>1. /\ data = Memcpy(v.data, v.free_offset, buf, 0, size)
            /\ fo = v.free_offset + ALIGN(size) /\ fs = v.free_size - ALIGN(size)
            /\ w = AddItem(v, id, buf, size)
        BY <1>p, Zenon
      <3> QED BY <1>0, <1>2, <1>n, <2>1, <2>2, <3>1, Zenon DEF Added
    <2> QED BY <2>3, AddItemFields
  <1>5. \A p \in 1 .. l : /\ End(v.items[p]) <= to
                          /\ v.items[p].id # id
    <2>1. \A p \in 1 .. Len(v.items) : End(v.items[p]) <= v.free_offset
      BY <1>0 DEF TableOrder
    <2>2. \A p \in 1 .. Len(v.items) : v.items[p].id # id
      BY <1>0, EntryCases
    <2>3. to = v.free_offset /\ l = Len(v.items)
      BY <1>p, Zenon
    <2> QED BY <2>1, <2>2, <2>3
  <1>6. TableInv(w)
    <2>1. ASSUME NEW p \in 1 .. (l + 1), NEW q \in 1 .. (l + 1), p < q
          PROVE  items[p].id # items[q].id /\ End(items[p]) <= items[q].offset
      <3>1. p \in 1 .. l /\ items[p] = v.items[p]
        BY <1>2, <1>n, <2>1
      <3>2. CASE q = l + 1
        BY <1>1, <1>2, <1>5, <3>1, <3>2
      <3>3. CASE q # l + 1
        <4>1. q \in 1 .. l /\ items[q] = v.items[q]
          BY <1>2, <1>n, <3>3
        <4> QED BY <1>0, <1>p, <2>1, <3>1, <4>1 DEF TableOrder
      <3> QED BY <3>2, <3>3
    <2>2. ASSUME NEW p \in 1 .. (l + 1) PROVE End(items[p]) <= fo
      <3>1. CASE p = l + 1
        <4>1. End(items[p]) = to + n
          BY <1>1, <1>2, <3>1
        <4> QED BY <1>n, <4>1
      <3>2. CASE p # l + 1
        <4>1. p \in 1 .. l /\ items[p] = v.items[p]
          BY <1>2, <1>n, <3>2
        <4>2. End(items[p]) <= to /\ End(items[p]) \in Nat
          <5>1. p \in 1 .. Len(v.items)
            BY <1>l, <4>1
          <5>2. End(v.items[p]) \in Nat
            BY <1>0, <5>1, ItemFacts
          <5> QED BY <1>5, <4>1, <5>2
        <4> QED BY <1>n, <4>2
      <3> QED BY <3>1, <3>2
    <2> QED BY <1>2, <1>4, <1>n, <2>1, <2>2 DEF TableInv, TableOrder
  <1>7. Written(v, w, id, buf, size)
    <2>1. HoldsItem(w, l + 1, id, buf, size)
      <3>1. \A b \in Nat : b < size => data[to + b] = buf[b]
        BY <1>3 DEF Copied
      <3> QED BY <1>1, <1>2, <1>4, <3>1 DEF HoldsItem
    <2>2. ASSUME NEW p \in 1 .. l PROVE SameItem(w, p, v, p)
      <3>1. PICK o, z : /\ o = v.items[p].offset /\ z = v.items[p].size
                        /\ o \in Nat /\ z \in Nat /\ o + z <= to
        <4>1. /\ v.items[p].offset \in Nat /\ v.items[p].size \in Nat
              /\ v.items[p].offset + v.items[p].size <= End(v.items[p])
              /\ End(v.items[p]) \in Nat
          BY <1>0, <1>p, ItemFacts
        <4>2. End(v.items[p]) <= to
          BY <1>5
        <4> QED BY <1>n, <4>1, <4>2
      <3>2. ASSUME NEW b \in Nat, b < z PROVE data[o + b] = v.data[o + b]
        <4>1. o + b \in 0 .. (DataSize - 1) /\ o + b < to
          BY <1>n, <3>1, <3>2
        <4> QED BY <1>3, <4>1 DEF Copied
      <3> QED BY <1>2, <1>4, <3>1, <3>2 DEF SameItem
    <2>3. /\ l + 1 \in 1 .. Len(w.items) /\ \A p \in 1 .. l : p \in 1 .. Len(w.items)
          /\ l = Len(v.items)
      BY <1>2, <1>4, <1>n, <1>p
    <2>4. ASSUME NEW q \in 1 .. Len(w.items), w.items[q].id # id
          PROVE  \E p \in 1 .. Len(v.items) : v.items[p].id = w.items[q].id
      <3>1. q # l + 1
        BY <1>1, <1>2, <1>4, <2>4
      <3>2. q \in 1 .. l
        BY <1>2, <1>4, <1>n, <3>1
      <3> QED BY <1>2, <1>4, <2>3, <3>2
    <2>5. \E q \in 1 .. Len(w.items) : HoldsItem(w, q, id, buf, size)
      BY <2>1, <2>3
    <2>6. \A p \in 1 .. Len(v.items) : v.items[p].id # id =>
             \E q \in 1 .. Len(w.items) : SameItem(w, q, v, p)
      BY <2>2, <2>3
    <2>7. TableOrder(w)
      BY <1>6 DEF TableInv
    <2> QED BY <1>0, <2>4, <2>5, <2>6, <2>7, WrittenItems
  <1> QED BY <1>4, <1>6, <1>7, <1>p

\* The item's size and bytes are replaced where it is.
Replaced(v, i, size, buf, items, data, w) ==
    /\ v \in Tables /\ i \in 1 .. Len(v.items)
    /\ items \in Seq(Items) /\ data \in [0 .. (DataSize - 1) -> Bytes]
    /\ items = [v.items EXCEPT ![i] =
                  [id |-> v.items[i].id, offset |-> v.items[i].offset, size |-> size]]
    /\ data = Memcpy(v.data, v.items[i].offset, buf, 0, size)
    /\ w = Overwrite(v, i, buf, size)

\* What the table is after an item is overwritten.
LEMMA OverwriteFields ==
    ASSUME NEW v, NEW i, NEW size, NEW buf, NEW items, NEW data, NEW w,
           Replaced(v, i, size, buf, items, data, w)
    PROVE  /\ w \in Tables /\ w.items = items /\ w.data = data
           /\ w.free_offset = v.free_offset /\ w.free_size = v.free_size
  <1>0. /\ v \in Tables /\ i \in 1 .. Len(v.items)
        /\ items \in Seq(Items) /\ data \in [0 .. (DataSize - 1) -> Bytes]
        /\ items = [v.items EXCEPT ![i] =
                      [id |-> v.items[i].id, offset |-> v.items[i].offset, size |-> size]]
        /\ data = Memcpy(v.data, v.items[i].offset, buf, 0, size)
    BY DEF Replaced
  <1>e. v.items[i] \in Items /\ DOMAIN v.items = 1 .. Len(v.items)
    BY <1>0, ItemFacts, TableFacts
  <1>1. [v.items EXCEPT ![i].size = size] = items
    <2>1. [v.items[i] EXCEPT !.size = size]
             = [id |-> v.items[i].id, offset |-> v.items[i].offset, size |-> size]
      BY <1>e DEF Items
    <2>2. [v.items EXCEPT ![i].size = size]
             = [v.items EXCEPT ![i] = [v.items[i] EXCEPT !.size = size]]
      OBVIOUS
    <2> QED BY <1>0, <2>1, <2>2, Zenon
  <1>2. w = [v EXCEPT !.data = Memcpy(v.data, v.items[i].offset, buf, 0, size),
                      !.items = [v.items EXCEPT ![i].size = size]]
    BY <1>0 DEF Replaced, Overwrite, Tables
  <1>3. w = [v EXCEPT !.data = data, !.items = items]
    BY <1>0, <1>1, <1>2, Zenon
  <1> QED BY <1>0, <1>3 DEF Tables

\* An item that fits where it is reads as written, the others as before.
LEMMA OverwriteWrites ==
    ASSUME NEW v, NEW id, NEW size, NEW buf, Writes(v, id, buf, size),
           NEW i \in 1 .. Len(v.items), v.items[i].id = id,
           size <= ALIGN(v.items[i].size)
    PROVE  /\ TableInv(Overwrite(v, i, buf, size))
           /\ Written(v, Overwrite(v, i, buf, size), id, buf, size)
           /\ Overwrite(v, i, buf, size).free_offset = v.free_offset
           /\ Overwrite(v, i, buf, size).free_size = v.free_size
  <1>0. /\ v \in Tables /\ TableOrder(v) /\ v.free_offset + v.free_size <= DataSize
        /\ id \in Ids /\ size \in Nat /\ buf \in [0 .. (size - 1) -> Bytes]
    BY DEF Writes, TableInv, TableOrder
  <1>p. PICK new, w, items, data, to, l, n, e :
           /\ to = v.items[i].offset /\ l = Len(v.items) /\ n = ALIGN(size)
           /\ e = End(v.items[i])
           /\ new = [id |-> v.items[i].id, offset |-> v.items[i].offset, size |-> size]
           /\ items = [v.items EXCEPT ![i] = new]
           /\ data = Memcpy(v.data, v.items[i].offset, buf, 0, size)
           /\ w = Overwrite(v, i, buf, size)
    OBVIOUS
  <1>l. l = Len(v.items) /\ to = v.items[i].offset /\ e = End(v.items[i]) /\ n = ALIGN(size)
    BY <1>p, Zenon
  <1>n. /\ to \in Nat /\ l \in Nat /\ n \in Nat /\ size <= n /\ DataSize \in Nat
        /\ e \in Nat /\ to + n <= e /\ e <= DataSize /\ i \in 1 .. l
    <2>1. ALIGN(size) \in Nat /\ size <= ALIGN(size)
      BY <1>0, AlignUp
    <2>2. /\ v.items[i].offset \in Nat /\ v.items[i].size \in Nat
          /\ ALIGN(v.items[i].size) \in Nat
          /\ End(v.items[i]) = v.items[i].offset + ALIGN(v.items[i].size)
      BY <1>0, ItemFacts
    <2>3. ALIGN(size) <= ALIGN(v.items[i].size)
      BY <1>0, <2>2, AlignFits
    <2>4. /\ v.free_offset \in Nat /\ v.free_size \in Nat /\ Len(v.items) \in Nat
          /\ DataSize \in Nat
      BY <1>0, TableFacts
    <2>5. End(v.items[i]) <= DataSize /\ End(v.items[i]) \in Nat
      BY <1>0, EndInside, ItemFacts DEF Writes
    <2>6. e \in Nat /\ e <= DataSize
      BY <1>l, <2>5
    <2>7. to + n <= e
      BY <1>l, <2>1, <2>2, <2>3
    <2> QED BY <1>l, <2>1, <2>2, <2>4, <2>6, <2>7
  <1>1. /\ new \in Items /\ new.id = id /\ new.offset = to /\ new.size = size
        /\ End(new) = to + n
    <2>1. new = [id |-> id, offset |-> to, size |-> size]
      BY <1>p
    <2> QED BY <1>0, <1>n, <1>l, <2>1 DEF Items, End
  <1>2. /\ items \in Seq(Items) /\ Len(items) = l /\ items[i] = new
        /\ \A p \in 1 .. l : p # i => items[p] = v.items[p]
    <2>1. v.items \in Seq(Items)
      BY <1>0, TableFacts
    <2> QED BY <1>1, <1>p, <2>1
  <1>3. Copied(data, v.data, to, buf, 0, size)
    <2>1. v.data \in [0 .. (DataSize - 1) -> Bytes]
      BY <1>0, TableFacts
    <2>2. to + size <= DataSize /\ 0 + size <= size
      BY <1>0, <1>n
    <2>3. CopyInside(v.data, to, buf, size, 0, size)
      BY <1>0, <1>n, <2>1, <2>2 DEF CopyInside
    <2>4. data = Memcpy(v.data, to, buf, 0, size)
      BY <1>p, Zenon
    <2> QED BY <2>3, <2>4, MemcpyCopies
  <1>4. /\ w \in Tables /\ w.items = items /\ w.data = data
        /\ w.free_offset = v.free_offset /\ w.free_size = v.free_size
    <2>1. data \in [0 .. (DataSize - 1) -> Bytes]
      BY <1>3 DEF Copied
    <2>2. /\ items = [v.items EXCEPT ![i] =
                        [id |-> v.items[i].id, offset |-> v.items[i].offset, size |-> size]]
          /\ data = Memcpy(v.data, v.items[i].offset, buf, 0, size)
          /\ w = Overwrite(v, i, buf, size)
      BY <1>p, Zenon
    <2>3. Replaced(v, i, size, buf, items, data, w)
      BY <1>0, <1>2, <2>1, <2>2, Zenon DEF Replaced
    <2> QED BY <2>3, OverwriteFields
  <1>5. ASSUME NEW p \in 1 .. l
        PROVE  /\ v.items[p].id = items[p].id /\ v.items[p].offset = items[p].offset
               /\ End(items[p]) <= End(v.items[p])
               /\ End(items[p]) \in Nat /\ End(v.items[p]) \in Nat
               /\ v.items[p].offset \in Nat
    <2>1. End(v.items[p]) \in Nat /\ v.items[p].offset \in Nat
      BY <1>0, <1>l, ItemFacts
    <2>2. CASE p = i
      BY <1>1, <1>2, <1>l, <1>n, <2>1, <2>2
    <2>3. CASE p # i
      BY <1>2, <2>1, <2>3
    <2> QED BY <2>2, <2>3
  <1>6. TableInv(w)
    <2>1. ASSUME NEW p \in 1 .. l, NEW q \in 1 .. l, p < q
          PROVE  items[p].id # items[q].id /\ End(items[p]) <= items[q].offset
      <3>1. v.items[p].id # v.items[q].id /\ End(v.items[p]) <= v.items[q].offset
        BY <1>0, <1>l, <2>1 DEF TableOrder
      <3> QED BY <1>5, <3>1
    <2>2. ASSUME NEW p \in 1 .. l PROVE End(items[p]) <= v.free_offset
      <3>1. End(v.items[p]) <= v.free_offset /\ v.free_offset \in Nat
        BY <1>0, <1>l, TableFacts DEF TableOrder
      <3> QED BY <1>5, <3>1
    <2> QED BY <1>0, <1>2, <1>4, <2>1, <2>2 DEF TableInv, TableOrder
  <1>7. Written(v, w, id, buf, size)
    <2>1. HoldsItem(w, i, id, buf, size)
      <3>1. \A b \in Nat : b < size => data[to + b] = buf[b]
        BY <1>3 DEF Copied
      <3> QED BY <1>1, <1>2, <1>4, <3>1 DEF HoldsItem
    <2>2. ASSUME NEW p \in 1 .. l, p # i PROVE SameItem(w, p, v, p)
      <3>1. PICK o, z, f : /\ o = v.items[p].offset /\ z = v.items[p].size
                           /\ o \in Nat /\ z \in Nat
                           /\ f = End(v.items[p]) /\ f \in Nat /\ o + z <= f
        BY <1>0, <1>l, ItemFacts
      <3>2. f <= DataSize
        <4>1. End(v.items[p]) <= DataSize
          BY <1>l, EndInside DEF Writes
        <4> QED BY <3>1, <4>1
      <3>3. f <= to \/ e <= o
        <4>1. p < i \/ i < p
          BY <1>n, <2>2
        <4> QED BY <1>0, <1>l, <3>1, <4>1 DEF TableOrder
      <3>4. ASSUME NEW b \in Nat, b < z PROVE data[o + b] = v.data[o + b]
        <4>1. o \in Nat /\ z \in Nat /\ f \in Nat /\ o + z <= f
          BY <3>1
        <4>2. o + b \in 0 .. (DataSize - 1)
          BY <1>n, <3>2, <3>4, <4>1
        <4>3. o + b < to \/ to + size <= o + b
          BY <1>0, <1>n, <3>3, <3>4, <4>1
        <4> QED BY <1>3, <4>2, <4>3 DEF Copied
      <3> QED BY <1>2, <1>4, <2>2, <3>1, <3>4 DEF SameItem
    <2>3. i \in 1 .. Len(w.items) /\ Len(w.items) = Len(v.items) /\ l = Len(v.items)
      BY <1>2, <1>4, <1>l, <1>n
    <2>4. \A q \in 1 .. Len(w.items) : w.items[q].id # id =>
             \E p \in 1 .. Len(v.items) : v.items[p].id = w.items[q].id
      BY <1>4, <1>5, <2>3
    <2>5. \E q \in 1 .. Len(w.items) : HoldsItem(w, q, id, buf, size)
      BY <2>1, <2>3
    <2>6. \A p \in 1 .. Len(v.items) : v.items[p].id # id =>
             \E q \in 1 .. Len(w.items) : SameItem(w, q, v, p)
      BY <2>2, <2>3
    <2>7. TableOrder(w)
      BY <1>6 DEF TableInv
    <2> QED BY <1>0, <2>4, <2>5, <2>6, <2>7, WrittenItems
  <1> QED BY <1>4, <1>6, <1>7, <1>p

\* The item is taken out, the ones behind it are moved down, and it is put at
\* the end.
MovedToEnd(v, i, id, size, buf, a, items, data, fo, w) ==
    /\ a = Moved(v, i, Len(v.items) - i) /\ a.v \in Tables /\ fo \in Nat
    /\ items \in Seq(Items) /\ data \in [0 .. (DataSize - 1) -> Bytes]
    /\ items = [a.v.items EXCEPT ![Len(v.items)] =
                  [id |-> id, offset |-> a.offset, size |-> size]]
    /\ data = Memcpy(a.v.data, a.offset, buf, 0, size)
    /\ fo = a.offset + ALIGN(size)
    /\ w = Grow(v, i, id, buf, size)

\* What the table is after the grown item is put at the end.
LEMMA GrowFields ==
    ASSUME NEW v, NEW i, NEW id, NEW size, NEW buf, NEW a, NEW items, NEW data, NEW fo,
           NEW w, MovedToEnd(v, i, id, size, buf, a, items, data, fo, w)
    PROVE  /\ w \in Tables /\ w.items = items /\ w.data = data
           /\ w.free_offset = fo /\ w.free_size = a.v.free_size
  <1>p. PICK l, new : /\ l = Len(v.items)
                      /\ new = [id |-> id, offset |-> a.offset, size |-> size]
    OBVIOUS
  <1>0. /\ a.v \in Tables /\ fo \in Nat
        /\ items \in Seq(Items) /\ data \in [0 .. (DataSize - 1) -> Bytes]
        /\ items = [a.v.items EXCEPT ![l] = new]
        /\ data = Memcpy(a.v.data, a.offset, buf, 0, size)
        /\ fo = a.offset + ALIGN(size)
    BY <1>p DEF MovedToEnd
  <1>1. w = [a.v EXCEPT
               !.items[l] = new, !.data = Memcpy(@, a.offset, buf, 0, size),
               !.free_offset = a.offset + ALIGN(size)]
    BY <1>p, Zenon DEF MovedToEnd, Grow
  <1>2. w = [[a.v EXCEPT !.items[l] = new] EXCEPT
               !.data = Memcpy(a.v.data, a.offset, buf, 0, size),
               !.free_offset = a.offset + ALIGN(size)]
    BY <1>0, <1>1 DEF Tables
  <1>3. [a.v EXCEPT !.items[l] = new] = [a.v EXCEPT !.items = [a.v.items EXCEPT ![l] = new]]
    BY <1>0 DEF Tables
  <1>4. w = [[a.v EXCEPT !.items = items] EXCEPT !.data = data, !.free_offset = fo]
    BY <1>0, <1>2, <1>3, Zenon
  <1> QED BY <1>0, <1>4 DEF Tables

\* An item that grows is moved behind the others, which move down: it reads as
\* written, the others as before; and what they take is at most the growth.
LEMMA GrowWrites ==
    ASSUME NEW v, NEW id, NEW size, NEW buf, Writes(v, id, buf, size),
           NEW i \in 1 .. Len(v.items), v.items[i].id = id,
           v.free_size >= ALIGN(size)
    PROVE  /\ TableOrder(Grow(v, i, id, buf, size))
           /\ Written(v, Grow(v, i, id, buf, size), id, buf, size)
           /\ Grow(v, i, id, buf, size).free_offset
                 <= v.free_offset + ALIGN(size) - ALIGN(v.items[i].size)
           /\ Grow(v, i, id, buf, size).free_size = v.free_size
  <1>0. /\ v \in Tables /\ TableInv(v) /\ TableOrder(v)
        /\ id \in Ids /\ size \in Nat /\ buf \in [0 .. (size - 1) -> Bytes]
    BY DEF Writes, TableInv, TableOrder
  <1>p. PICK a, new, w, items, data, to, l, n, e, z, fo :
           /\ a = Moved(v, i, Len(v.items) - i)
           /\ to = a.offset /\ l = Len(v.items) /\ n = ALIGN(size)
           /\ e = End(v.items[l]) /\ z = ALIGN(v.items[i].size)
           /\ new = [id |-> id, offset |-> a.offset, size |-> size]
           /\ items = [a.v.items EXCEPT ![l] = new]
           /\ data = Memcpy(a.v.data, a.offset, buf, 0, size)
           /\ fo = a.offset + n
           /\ w = Grow(v, i, id, buf, size)
    OBVIOUS
  <1>l. l = Len(v.items) /\ to = a.offset /\ n = ALIGN(size) /\ z = ALIGN(v.items[i].size)
    BY <1>p, Zenon
  <1>i. l \in Nat /\ i \in 1 .. l /\ l \in 1 .. l /\ l - i \in Nat /\ i + (l - i) = l
        /\ i + (l - i) <= Len(v.items)
    <2>1. l \in Nat /\ i \in 1 .. l
      BY <1>0, <1>l, TableFacts, Zenon
    <2>2. l \in 1 .. l /\ l - i \in Nat /\ i + (l - i) = l
      BY <2>1
    <2> QED BY <1>l, <2>1, <2>2
  <1>m. MovedOrder(v, i, l - i, a) /\ MovedData(v, i, l - i, a)
    <2>1. a = Moved(v, i, l - i)
      BY <1>p, Zenon
    <2> QED BY <1>0, <1>i, <2>1, MovingAll DEF Moving
  <1>a. /\ a.v \in Tables /\ to \in Nat /\ Len(a.v.items) = l
        /\ a.v.free_size = v.free_size
        /\ to + z <= e
    <2>1. a \in [v : Tables, offset : Nat] /\ Len(a.v.items) = l
          /\ a.v.free_size = v.free_size
      BY <1>m, <1>l DEF MovedOrder
    <2>2. a.offset + ALIGN(v.items[i].size) <= End(v.items[l])
      BY <1>i, <1>m DEF MovedOrder
    <2> QED BY <1>p, <2>1, <2>2
  <1>b. ASSUME NEW p \in 1 .. l, p # l
        PROVE  /\ p < l /\ Source(i, p) \in 1 .. l /\ Source(i, p) # i
               /\ a.v.items[p].id = v.items[Source(i, p)].id
               /\ a.v.items[p].size = v.items[Source(i, p)].size
               /\ End(a.v.items[p]) <= to /\ End(a.v.items[p]) \in Nat
    <2>1. p < i + (l - i) /\ p < l
      BY <1>b, <1>i
    <2>2. Source(i, p) \in 1 .. l /\ Source(i, p) # i
      BY <1>i, <2>1 DEF Source
    <2>3. /\ a.v.items[p].id = v.items[Source(i, p)].id
          /\ a.v.items[p].size = v.items[Source(i, p)].size
          /\ End(a.v.items[p]) <= a.offset
      BY <1>l, <1>m, <2>1 DEF MovedOrder
    <2>4. End(a.v.items[p]) \in Nat
      BY <1>a, ItemFacts
    <2> QED BY <1>l, <2>1, <2>2, <2>3, <2>4
  <1>n. /\ n \in Nat /\ size <= n /\ DataSize \in Nat /\ e \in Nat /\ z \in Nat
        /\ fo \in Nat /\ fo = to + n /\ fo <= DataSize
        /\ fo <= v.free_offset + n - z
    <2>1. ALIGN(size) \in Nat /\ size <= ALIGN(size)
      BY <1>0, AlignUp
    <2>2. ALIGN(v.items[i].size) \in Nat /\ End(v.items[l]) \in Nat
      BY <1>0, <1>i, <1>l, ItemFacts
    <2>3. PICK x, y : /\ x = v.free_offset /\ y = v.free_size /\ x \in Nat /\ y \in Nat
                      /\ x + y <= DataSize /\ DataSize \in Nat /\ n <= y /\ e <= x
      <3>1. v.free_offset \in Nat /\ v.free_size \in Nat /\ DataSize \in Nat
            /\ v.free_offset + v.free_size <= DataSize
        BY <1>0, TableFacts DEF TableInv
      <3>2. n <= v.free_size
        BY <1>l, <2>1, <3>1
      <3>3. End(v.items[l]) <= v.free_offset
        BY <1>0, <1>i, <1>l DEF TableOrder
      <3>4. e = End(v.items[l])
        BY <1>p, Zenon
      <3> QED BY <3>1, <3>2, <3>3, <3>4
    <2>4. n \in Nat /\ size <= n /\ z \in Nat /\ e \in Nat
      BY <1>p, <2>1, <2>2
    <2>5. fo = to + n
      BY <1>p
    <2>6. fo \in Nat /\ fo <= DataSize /\ fo <= x + n - z
      <3>1. to \in Nat /\ to + z <= e /\ n \in Nat /\ z \in Nat /\ e \in Nat /\ fo = to + n
        BY <1>a, <2>4, <2>5, Zenon
      <3>2. /\ x \in Nat /\ y \in Nat /\ DataSize \in Nat
            /\ x + y <= DataSize /\ n <= y /\ e <= x
        BY <2>3, Zenon
      <3>3. to + z <= x
        BY <3>1, <3>2
      <3> QED BY <3>1, <3>2, <3>3
    <2> QED BY <2>3, <2>4, <2>5, <2>6
  <1>1. /\ new \in Items /\ new.id = id /\ new.offset = to /\ new.size = size
        /\ End(new) = fo
    <2>1. new = [id |-> id, offset |-> to, size |-> size]
      BY <1>p
    <2> QED BY <1>0, <1>a, <1>l, <1>n, <2>1 DEF Items, End
  <1>2. /\ items \in Seq(Items) /\ Len(items) = l /\ items[l] = new
        /\ \A p \in 1 .. l : p # l => items[p] = a.v.items[p]
    <2>1. a.v.items \in Seq(Items)
      BY <1>a, TableFacts
    <2>2. items = [a.v.items EXCEPT ![l] = new]
      BY <1>p, Zenon
    <2> QED BY <1>1, <1>a, <1>i, <2>1, <2>2
  <1>3. Copied(data, a.v.data, to, buf, 0, size)
    <2>1. a.v.data \in [0 .. (DataSize - 1) -> Bytes]
      BY <1>a, TableFacts
    <2>2. to + size <= DataSize /\ 0 + size <= size
      BY <1>0, <1>a, <1>n
    <2>3. CopyInside(a.v.data, to, buf, size, 0, size)
      BY <1>0, <1>a, <1>n, <2>1, <2>2 DEF CopyInside
    <2>4. data = Memcpy(a.v.data, to, buf, 0, size)
      BY <1>p, Zenon
    <2> QED BY <2>3, <2>4, MemcpyCopies
  <1>4. /\ w \in Tables /\ w.items = items /\ w.data = data
        /\ w.free_offset = fo /\ w.free_size = v.free_size
    <2>1. data \in [0 .. (DataSize - 1) -> Bytes]
      BY <1>3 DEF Copied
    <2>2. /\ a = Moved(v, i, Len(v.items) - i)
          /\ items = [a.v.items EXCEPT ![Len(v.items)] =
                        [id |-> id, offset |-> a.offset, size |-> size]]
          /\ data = Memcpy(a.v.data, a.offset, buf, 0, size)
          /\ fo = a.offset + ALIGN(size)
          /\ w = Grow(v, i, id, buf, size)
      BY <1>p, Zenon
    <2>3. MovedToEnd(v, i, id, size, buf, a, items, data, fo, w)
      BY <1>2, <1>a, <1>n, <2>1, <2>2, Zenon DEF MovedToEnd
    <2> QED BY <1>a, <2>3, GrowFields
  <1>5. TableOrder(w)
    <2>1. ASSUME NEW p \in 1 .. l, NEW q \in 1 .. l, p < q
          PROVE  items[p].id # items[q].id /\ End(items[p]) <= items[q].offset
      <3>0. p # l
        BY <1>i, <2>1
      <3>1. p # l /\ items[p] = a.v.items[p] /\ Source(i, p) \in 1 .. l
        BY <1>2, <1>b, <3>0
      <3>2. CASE q = l
        <4>1. items[q] = new
          BY <1>2, <3>2
        <4>2. End(items[p]) <= items[q].offset
          BY <1>1, <1>b, <3>1, <4>1
        <4>3. Source(i, p) # i /\ items[p].id = v.items[Source(i, p)].id
          BY <1>b, <3>1
        <4>4. v.items[Source(i, p)].id # v.items[i].id
          <5>1. Source(i, p) < i \/ i < Source(i, p)
            BY <1>i, <3>1, <4>3
          <5> QED BY <1>0, <1>l, <3>1, <5>1 DEF TableOrder
        <4> QED BY <1>1, <4>1, <4>2, <4>3, <4>4
      <3>3. CASE q # l
        <4>1. /\ items[q] = a.v.items[q] /\ q < l /\ Source(i, q) \in 1 .. l
              /\ q < i + (l - i)
          BY <1>2, <1>b, <1>i, <3>3
        <4>2. Source(i, p) < Source(i, q)
          BY <1>i, <2>1 DEF Source
        <4>3. v.items[Source(i, p)].id # v.items[Source(i, q)].id
          BY <1>0, <1>l, <3>1, <4>1, <4>2 DEF TableOrder
        <4>4. items[p].id # items[q].id
          BY <1>b, <3>1, <3>3, <4>1, <4>3
        <4>5. End(a.v.items[p]) <= a.v.items[q].offset
          BY <1>l, <1>m, <2>1, <4>1 DEF MovedOrder
        <4> QED BY <3>1, <4>1, <4>4, <4>5
      <3> QED BY <3>2, <3>3
    <2>2. ASSUME NEW p \in 1 .. l PROVE End(items[p]) <= fo
      <3>1. CASE p = l
        <4>1. End(items[p]) = fo
          BY <1>1, <1>2, <3>1
        <4> QED BY <1>n, <4>1
      <3>2. CASE p # l
        <4>1. End(items[p]) <= to /\ End(items[p]) \in Nat
          BY <1>2, <1>b, <3>2
        <4> QED BY <1>a, <1>n, <4>1
      <3> QED BY <3>1, <3>2
    <2> QED BY <1>2, <1>4, <2>1, <2>2 DEF TableOrder
  <1>6. Written(v, w, id, buf, size)
    <2>1. HoldsItem(w, l, id, buf, size)
      <3>1. \A b \in Nat : b < size => data[to + b] = buf[b]
        BY <1>3 DEF Copied
      <3> QED BY <1>1, <1>2, <1>4, <3>1 DEF HoldsItem
    <2>2. ASSUME NEW p \in 1 .. l, p # l PROVE SameItem(w, p, v, Source(i, p))
      <3>1. PICK o, s, f, c : /\ o = a.v.items[p].offset /\ s = a.v.items[p].size
                              /\ o \in Nat /\ s \in Nat /\ c = ALIGN(s) /\ c \in Nat
                              /\ s <= c /\ f = End(a.v.items[p]) /\ f = o + c
        <4>1. a.v \in Tables /\ p \in 1 .. Len(a.v.items)
          BY <1>a
        <4> QED BY <4>1, ItemFacts, Zenon
      <3>2. o \in Nat /\ s \in Nat /\ c \in Nat /\ s <= c /\ o + c <= to /\ to <= DataSize
        <4>1. f <= to
          BY <1>b, <2>2, <3>1
        <4>2. f = o + c
          BY <3>1
        <4>3. to <= DataSize
          BY <1>a, <1>n
        <4> QED BY <3>1, <4>1, <4>2, <4>3
      <3>3. ASSUME NEW b \in Nat, b < s
            PROVE  data[o + b] = v.data[v.items[Source(i, p)].offset + b]
        <4>0. to \in Nat /\ DataSize \in Nat
          BY <1>a, <1>n
        <4>1. o + b \in 0 .. (DataSize - 1) /\ o + b < to /\ b < c
          <5>1. o + b \in Nat /\ o + b < to /\ b < c
            BY <3>2, <3>3, <4>0
          <5> QED BY <3>2, <4>0, <5>1
        <4>2. data[o + b] = a.v.data[o + b]
          BY <1>3, <4>1 DEF Copied
        <4>3. p < i + (l - i) /\ b < ALIGN(a.v.items[p].size) /\ p \in 1 .. Len(v.items)
          BY <1>b, <1>i, <1>l, <2>2, <3>1, <4>1
        <4>4. a.v.data[a.v.items[p].offset + b] = v.data[v.items[Source(i, p)].offset + b]
          BY <1>m, <4>3 DEF MovedData
        <4> QED BY <3>1, <4>2, <4>4
      <3>4. w.items[p] = a.v.items[p] /\ w.data = data
        BY <1>2, <1>4, <2>2
      <3>5. v.items[Source(i, p)].size = s /\ w.items[p].size = s
            /\ w.items[p].id = v.items[Source(i, p)].id /\ w.items[p].offset = o
        BY <1>b, <2>2, <3>1, <3>4
      <3> QED BY <3>3, <3>4, <3>5 DEF SameItem
    <2>3. Len(w.items) = l /\ Len(v.items) = l
      BY <1>2, <1>4, <1>l
    <2>4. ASSUME NEW q \in 1 .. Len(w.items), w.items[q].id # id
          PROVE  \E p \in 1 .. Len(v.items) : v.items[p].id = w.items[q].id
      <3>1. q \in 1 .. l /\ q # l
        BY <1>1, <1>2, <1>4, <2>3, <2>4
      <3>2. Source(i, q) \in 1 .. Len(v.items) /\ v.items[Source(i, q)].id = w.items[q].id
        BY <1>2, <1>4, <1>b, <2>3, <3>1
      <3> QED BY <3>2
    <2>5. \E q \in 1 .. Len(w.items) : HoldsItem(w, q, id, buf, size)
      BY <1>i, <2>1, <2>3
    <2>6. ASSUME NEW p \in 1 .. Len(v.items), v.items[p].id # id
          PROVE  \E q \in 1 .. Len(w.items) : SameItem(w, q, v, p)
      <3>1. p # i
        BY <2>6
      <3>2. PICK q : q = IF p < i THEN p ELSE p - 1
        OBVIOUS
      <3>3. q \in 1 .. l /\ q # l /\ Source(i, q) = p
        BY <1>i, <1>l, <3>1, <3>2 DEF Source
      <3> QED BY <2>2, <2>3, <3>3
    <2>7. \A p \in 1 .. Len(v.items) : v.items[p].id # id =>
             \E q \in 1 .. Len(w.items) : SameItem(w, q, v, p)
      BY <2>6
    <2>8. \A q \in 1 .. Len(w.items) : w.items[q].id # id =>
             \E p \in 1 .. Len(v.items) : v.items[p].id = w.items[q].id
      BY <2>4
    <2> QED BY <1>0, <1>5, <2>5, <2>7, <2>8, WrittenItems
  <1>7. w.free_offset <= v.free_offset + ALIGN(size) - ALIGN(v.items[i].size)
    BY <1>4, <1>l, <1>n
  <1> QED BY <1>4, <1>5, <1>6, <1>7, <1>p

\* A write that fits keeps the table well formed, whatever free_size becomes in
\* the room that is left, and changes what is read of its own item and of no
\* other.
LEMMA VendorWriteWrites ==
    ASSUME NEW v, NEW id, NEW size, NEW buf, Writes(v, id, buf, size), Fits(v, id, size),
           NEW w, w = VendorWrite(v, id, buf, size)
    PROVE  /\ TableOrder(w)
           /\ Written(v, w, id, buf, size)
           /\ Outgrown(v, id, size) = FALSE =>
                 /\ TableInv(w)
                 /\ w.free_offset + w.free_size = v.free_offset + v.free_size
           /\ Outgrown(v, id, size) =>
                 /\ w.free_offset <= v.free_offset + Growth(v, id, size)
                 /\ Growth(v, id, size) \in Nat /\ Growth(v, id, size) <= v.free_size
  <1>0. /\ TableInv(v) /\ v \in Tables /\ TableOrder(v) /\ id \in Ids /\ size \in Nat
    BY DEF Writes, TableInv, TableOrder
  <1>a. ALIGN(size) \in Nat
    BY <1>0, AlignUp
  <1>b. v.free_offset \in Nat /\ v.free_size \in Nat
    BY <1>0, TableFacts
  <1>1. CASE Entries(v, id) = {}
    <2>1. Outgrown(v, id, size) = FALSE
      BY <1>1 DEF Outgrown
    <2>2. v.free_size >= ALIGN(size)
      BY <1>1, Zenon DEF Fits
    <2>3. w = AddItem(v, id, buf, size)
      BY <1>1, <2>1 DEF VendorWrite
    <2>4. /\ TableInv(w) /\ Written(v, w, id, buf, size)
          /\ w.free_offset = v.free_offset + ALIGN(size)
          /\ w.free_size = v.free_size - ALIGN(size)
      BY <1>1, <2>2, <2>3, AddItemWrites
    <2>5. w.free_offset + w.free_size = v.free_offset + v.free_size
      BY <1>a, <1>b, <2>4
    <2> QED BY <2>1, <2>4, <2>5 DEF TableInv
  <1>2. CASE Entries(v, id) # {}
    <2>0. PICK i \in 1 .. Len(v.items) : i = Entry(v, id) /\ v.items[i].id = id
      BY <1>0, <1>2, EntryCases
    <2>z. ALIGN(v.items[i].size) \in Nat /\ v.items[i].size \in Nat
      BY <1>0, ItemFacts
    <2>1. CASE size > ALIGN(v.items[i].size)
      <3>1. Outgrown(v, id, size) = TRUE
        BY <1>2, <2>0, <2>1 DEF Outgrown
      <3>2. v.free_size >= ALIGN(size)
        BY <1>0, <2>0, <2>1, <2>z DEF Fits
      <3>3. w = Grow(v, i, id, buf, size)
        BY <1>2, <2>0, <3>1 DEF VendorWrite
      <3>4. /\ TableOrder(w) /\ Written(v, w, id, buf, size)
            /\ w.free_offset <= v.free_offset + ALIGN(size) - ALIGN(v.items[i].size)
        BY <2>0, <3>2, <3>3, GrowWrites
      <3>5. Growth(v, id, size) = ALIGN(size) - ALIGN(v.items[i].size)
        BY <2>0 DEF Growth
      <3>6. size <= ALIGN(size)
        BY <1>0, AlignUp
      <3>7. /\ ALIGN(size) - ALIGN(v.items[i].size) \in Nat
            /\ ALIGN(size) - ALIGN(v.items[i].size) <= v.free_size
        BY <1>0, <1>a, <1>b, <2>1, <2>z, <3>2, <3>6
      <3>8. PICK g : g = ALIGN(size) - ALIGN(v.items[i].size)
        OBVIOUS
      <3>9. v.free_offset + ALIGN(size) - ALIGN(v.items[i].size) = v.free_offset + g
        BY <1>a, <1>b, <2>z, <3>8
      <3> QED BY <3>1, <3>4, <3>5, <3>7, <3>8, <3>9
    <2>2. CASE ~(size > ALIGN(v.items[i].size))
      <3>1. Outgrown(v, id, size) = FALSE
        BY <2>0, <2>2 DEF Outgrown
      <3>2. size <= ALIGN(v.items[i].size)
        BY <1>0, <2>2, <2>z
      <3>3. w = Overwrite(v, i, buf, size)
        BY <1>2, <2>0, <3>1 DEF VendorWrite
      <3>4. /\ TableInv(w) /\ Written(v, w, id, buf, size)
            /\ w.free_offset = v.free_offset /\ w.free_size = v.free_size
        BY <2>0, <3>2, <3>3, OverwriteWrites
      <3> QED BY <3>1, <3>4 DEF TableInv
    <2> QED BY <2>1, <2>2
  <1> QED BY <1>1, <1>2

\* What a read returns depends on the items and the data alone.
SameContents(v, w) == w.items = v.items /\ w.data = v.data

\* So tables that agree on those read the same.
LEMMA SameContentsRead ==
    ASSUME NEW v, NEW w, SameContents(v, w), NEW x
    PROVE  VendorRead(w, x) = VendorRead(v, x)
  <1>0. w.items = v.items /\ w.data = v.data
    BY DEF SameContents
  <1>1. Entries(w, x) = Entries(v, x)
    BY <1>0 DEF Entries
  <1>2. Entry(w, x) = Entry(v, x)
    BY <1>1 DEF Entry
  <1>3. [k \in 0 .. (w.items[Entry(w, x)].size - 1) |-> w.data[w.items[Entry(w, x)].offset + k]]
           = [k \in 0 .. (v.items[Entry(v, x)].size - 1) |->
                 v.data[v.items[Entry(v, x)].offset + k]]
    BY <1>0, <1>2
  <1>4. w.items[Entry(w, x)].size = v.items[Entry(v, x)].size
    BY <1>0, <1>2
  <1>5. CASE Entries(v, x) = {}
    BY <1>1, <1>5 DEF VendorRead
  <1>6. CASE Entries(v, x) # {}
    BY <1>1, <1>3, <1>4, <1>6 DEF VendorRead
  <1> QED BY <1>5, <1>6

\* free_size does not matter to what is read.
LEMMA FreeSizeUnread ==
    ASSUME NEW v, TableOrder(v), NEW fs \in Nat
    PROVE  /\ TableOrder([v EXCEPT !.free_size = fs])
           /\ [v EXCEPT !.free_size = fs].free_size = fs
           /\ [v EXCEPT !.free_size = fs].free_offset = v.free_offset
           /\ SameContents(v, [v EXCEPT !.free_size = fs])
  <1>p. PICK w : w = [v EXCEPT !.free_size = fs]
    OBVIOUS
  <1>1. /\ w \in Tables /\ w.items = v.items /\ w.data = v.data /\ w.free_size = fs
        /\ w.free_offset = v.free_offset
    BY <1>p DEF Tables, TableOrder
  <1>2. TableOrder(w) /\ SameContents(v, w)
    BY <1>1 DEF TableOrder, SameContents
  <1> QED BY <1>1, <1>2, <1>p

=============================================================================
