---------------------------- MODULE MppDma_proofs ----------------------------
(***************************************************************************)
(* Proofs about MppDma, for every number of clients, descriptors, buffers, *)
(* slots and tasks, and for every setting of max_buffers: the type         *)
(* invariant, the consistency of the pool, that a dma_buf is mapped once   *)
(* unless its imports cross, and that reference counts are exact until     *)
(* somebody puts a reference that is not its own.                          *)
(*                                                                         *)
(* None of these is inductive: an import is up to eight steps, between     *)
(* which other threads import and release.  ClientOK says what a thread    *)
(* may rely on at each of them, OnceInv what it knows of the dma_buf it is *)
(* about to map, RefsInv who holds which reference.                        *)
(***************************************************************************)
EXTENDS MppDma, KernelLists_proofs, TLAPS, FiniteSetTheorems

\* Past the look-up, and not yet published.
Looking(p) == cpc[p] \in {"take", "map", "kref", "insert"}

\* What a client knows while it is inside a call.
ClientOK(p) ==
    /\ cpc[p] \in {"get", "map", "kref", "insert", "release"} => cbuf[p] \in Slots
    /\ Importing(p) => cfd[p] \in Fds
    /\ Importing(p) /\ ctask[p] = Null => \A x \in trans : x.by = p => x.fd # cfd[p]
    /\ cpc[p] \in {"build", "fail"} => ctask[p] # Null
    /\ cpc[p] \in {"idle", "release", "reset"} => ctask[p] = Null
    /\ ctask[p] # Null => task[ctask[p]] \in IF cpc[p] = "fail" THEN {"final", "freed"}
                                                              ELSE {"alloc"}
    /\ Importing(p) /\ ctask[p] # Null => Len(regions[ctask[p]]) < MaxAttach

\* A task is built by one client.
ClientInv ==
    /\ \A p \in Clients : ClientOK(p)
    /\ \A p, q \in Clients : p # q /\ ctask[p] # Null => ctask[p] # ctask[q]

\* A shared region has an original in the same task.
RegionInv ==
    \A t \in Tasks :
      /\ Len(regions[t]) <= MaxAttach
      /\ task[t] = "none" => regions[t] = <<>>
      /\ task[t] \in {"alloc", "live"} =>
           \A i \in DOMAIN regions[t] : regions[t][i].is_dup =>
             \E j \in DOMAIN regions[t] : /\ ~regions[t][j].is_dup
                                          /\ regions[t][j].hdl = regions[t][i].hdl

\* A dma_buf whose imports have not crossed is mapped by one slot, and by none
\* while a client is about to map it.
OnceInv ==
    /\ \A b, c \in Elems(used) : dmabuf[b] = dmabuf[c] /\ dmabuf[b] \notin crossed => b = c
    /\ \A p \in Clients :
         Looking(p) /\ DmabufOf[cfd[p]] \notin crossed =>
           /\ \A b \in Elems(used) : dmabuf[b] # DmabufOf[cfd[p]]
           /\ \A q \in Clients \ {p} : Looking(q) => DmabufOf[cfd[q]] # DmabufOf[cfd[p]]
    /\ \A p \in Clients : cpc[p] \in {"kref", "insert"} => dmabuf[cbuf[p]] = DmabufOf[cfd[p]]

\* Every reference has its holder, and a slot without references has none.
RefsInv ==
    /\ \A b \in Slots : ref[b] = PoolRef(b) + TaskRefs(b) + TransRefs(b) + LocalRefs(b)
    /\ evicted \subseteq Elems(used)
    /\ \A p \in Clients : cpc[p] = "map" => ref[cbuf[p]] = 0

\* A slot that is held maps the dma_buf of the holder's descriptor.
SameInv ==
    /\ \A t \in Tasks : \A i \in DOMAIN regions[t] :
         task[t] \in {"alloc", "live"} =>
           \/ DmabufOf[regions[t][i].fd] \in crossed
           \/ dmabuf[regions[t][i].hdl] = DmabufOf[regions[t][i].fd]
    /\ \A x \in trans : DmabufOf[x.fd] \in crossed \/ dmabuf[x.hdl] = DmabufOf[x.fd]

\* The inductive invariant.
Inv ==
    /\ TypeOK /\ PoolConsistent /\ ClientInv /\ RegionInv
    /\ astray \/ (OnceInv /\ RefsInv /\ SameInv)

-----------------------------------------------------------------------------
\* The slots on a list are finitely many, at most NSlots.
LEMMA SlotsFinite ==
    ASSUME NEW S \in SUBSET Slots
    PROVE  IsFiniteSet(S) /\ Cardinality(S) \in 0 .. NSlots
  <1>1. IsFiniteSet(Slots) /\ Cardinality(Slots) = NSlots
    BY DmaAssumption, FS_Interval DEF Slots
  <1>2. IsFiniteSet(S) /\ Cardinality(S) <= Cardinality(Slots)
    BY <1>1, FS_Subset
  <1>3. Cardinality(S) \in Nat
    BY <1>2, FS_CardinalityType
  <1> QED BY <1>1, <1>2, <1>3, DmaAssumption

\* list_del keeps the type of any list.
LEMMA ListDelType ==
    ASSUME NEW S, NEW l \in Seq(S), NEW x
    PROVE  ListDel(l, x) \in Seq(S)
  <1>1. CASE x \notin Elems(l)
    BY <1>1 DEF ListDel
  <1>2. CASE x \in Elems(l)
    <2> DEFINE i == CHOOSE i \in DOMAIN l : l[i] = x
               m == [j \in 1 .. (Len(l) - 1) |-> IF j < i THEN l[j] ELSE l[j + 1]]
    <2>1. Len(l) \in Nat /\ DOMAIN l = 1 .. Len(l) /\ \A j \in 1 .. Len(l) : l[j] \in S
      OBVIOUS
    <2>2. Len(l) - 1 \in Nat
      BY <1>2, <2>1 DEF Elems
    <2>3. i \in 1 .. Len(l)
      BY <1>2, <2>1 DEF Elems
    <2> HIDE DEF i
    <2>4. \A j \in 1 .. (Len(l) - 1) : (IF j < i THEN l[j] ELSE l[j + 1]) \in S
      BY <2>1, <2>2, <2>3
    <2>5. m \in Seq(S)
      BY <2>2, <2>4
    <2>6. ListDel(l, x) = m
      BY <1>2 DEF ListDel, i
    <2> QED BY <2>5, <2>6
  <1> QED BY <1>1, <1>2

-----------------------------------------------------------------------------
(***************************************************************************)
(* Counting the holders of a slot.                                         *)
(***************************************************************************)

\* The references that a region holds on slot b itself: one, or none.
Own(r, b) == IF r.hdl = b /\ ~r.is_dup THEN 1 ELSE 0

\* The regions, of all tasks, that hold slot b; R is the value of regions.
HeldBy(R, b) ==
    {p \in Tasks \X (1 .. MaxAttach) :
        p[2] \in DOMAIN R[p[1]] /\ Own(R[p[1]][p[2]], b) = 1}

\* The translations that hold slot b; T is the value of trans.
TransOf(T, b) == {x \in T : x.hdl = b}

\* The clients that hold slot b in their local variable.
LocalOf(C, B, b) == {p \in Clients : C[p] \in {"insert", "release"} /\ B[p] = b}

One(P) == IF P THEN 1 ELSE 0

LEMMA OwnValue ==
    ASSUME NEW r, NEW b
    PROVE  /\ Own(r, b) \in {0, 1}
           /\ Own(r, b) = 1 <=> r.hdl = b /\ ~r.is_dup
  BY DEF Own

\* The holders are finitely many.
LEMMA HeldFinite ==
    ASSUME NEW R, NEW b
    PROVE  IsFiniteSet(HeldBy(R, b)) /\ Cardinality(HeldBy(R, b)) \in Nat
  <1>1. IsFiniteSet(1 .. MaxAttach)
    BY FS_Interval, DmaAssumption
  <1>2. IsFiniteSet(Tasks \X (1 .. MaxAttach))
    BY <1>1, FS_Product, DmaAssumption
  <1>3. HeldBy(R, b) \in SUBSET (Tasks \X (1 .. MaxAttach))
    BY DEF HeldBy
  <1>4. IsFiniteSet(HeldBy(R, b))
    BY <1>2, <1>3, FS_Subset
  <1> QED BY <1>4, FS_CardinalityType

LEMMA TransTypeFinite == IsFiniteSet(Translation)
  <1>1. IsFiniteSet(1 .. NSlots)
    BY FS_Interval, DmaAssumption
  <1>2. IsFiniteSet(Clients \X Fds) /\ IsFiniteSet((Clients \X Fds) \X (1 .. NSlots))
    BY <1>1, FS_Product, DmaAssumption
  <1> DEFINE S == (Clients \X Fds) \X (1 .. NSlots)
             f == [y \in S |-> [by |-> y[1][1], fd |-> y[1][2], hdl |-> y[2]]]
  <1>3. f \in Surjection(S, Translation)
    <2>1. f \in [S -> Translation]
      BY DEF Translation, Slots
    <2>2. ASSUME NEW x \in Translation PROVE \E y \in S : f[y] = x
      <3>1. /\ x.by \in Clients /\ x.fd \in Fds /\ x.hdl \in 1 .. NSlots
            /\ x = [by |-> x.by, fd |-> x.fd, hdl |-> x.hdl]
        BY DEF Translation, Slots
      <3>2. <<<<x.by, x.fd>>, x.hdl>> \in S
        BY <3>1
      <3>3. f[<<<<x.by, x.fd>>, x.hdl>>] = x
        BY <3>1, <3>2
      <3> QED BY <3>2, <3>3
    <2> HIDE DEF f, S
    <2> QED BY <2>1, <2>2 DEF Surjection
  <1> HIDE DEF f
  <1> QED BY <1>2, <1>3, FS_Surjection

LEMMA TransFinite ==
    ASSUME NEW T \in SUBSET Translation, NEW b
    PROVE  IsFiniteSet(TransOf(T, b)) /\ Cardinality(TransOf(T, b)) \in Nat
  <1>1. TransOf(T, b) \in SUBSET Translation
    BY DEF TransOf
  <1>2. IsFiniteSet(TransOf(T, b))
    BY <1>1, TransTypeFinite, FS_Subset
  <1> QED BY <1>2, FS_CardinalityType

LEMMA LocalFinite ==
    ASSUME NEW C, NEW B, NEW b
    PROVE  IsFiniteSet(LocalOf(C, B, b)) /\ Cardinality(LocalOf(C, B, b)) \in Nat
  <1>1. LocalOf(C, B, b) \in SUBSET Clients
    BY DEF LocalOf
  <1>2. IsFiniteSet(LocalOf(C, B, b))
    BY <1>1, FS_Subset, DmaAssumption
  <1> QED BY <1>2, FS_CardinalityType

\* The counts of the specification are the cardinalities of these sets.
LEMMA RefsAreHolders ==
    ASSUME NEW b, TypeOK
    PROVE  /\ TaskRefs(b) = Cardinality(HeldBy(regions, b)) /\ TaskRefs(b) \in Nat
           /\ TransRefs(b) = Cardinality(TransOf(trans, b)) /\ TransRefs(b) \in Nat
           /\ LocalRefs(b) = Cardinality(LocalOf(cpc, cbuf, b)) /\ LocalRefs(b) \in Nat
           /\ PoolRef(b) \in {0, 1}
  <1>1. TaskRefs(b) = Cardinality(HeldBy(regions, b))
    BY OwnValue DEF TaskRefs, HeldBy
  <1>2. TransRefs(b) = Cardinality(TransOf(trans, b))
    BY DEF TransRefs, TransOf
  <1>3. LocalRefs(b) = Cardinality(LocalOf(cpc, cbuf, b))
    BY DEF LocalRefs, LocalOf
  <1>4. trans \in SUBSET Translation
    BY DEF TypeOK
  <1>5. PoolRef(b) \in {0, 1}
    BY DEF PoolRef
  <1> QED BY <1>1, <1>2, <1>3, <1>4, <1>5, HeldFinite, TransFinite, LocalFinite

\* The same for the state after a step.
LEMMA RefsAreHoldersPrime ==
    ASSUME NEW b, TypeOK'
    PROVE  /\ TaskRefs(b)' = Cardinality(HeldBy(regions', b)) /\ TaskRefs(b)' \in Nat
           /\ TransRefs(b)' = Cardinality(TransOf(trans', b)) /\ TransRefs(b)' \in Nat
           /\ LocalRefs(b)' = Cardinality(LocalOf(cpc', cbuf', b)) /\ LocalRefs(b)' \in Nat
           /\ PoolRef(b)' \in {0, 1}
  <1>1. TaskRefs(b)' = Cardinality(HeldBy(regions', b))
    BY OwnValue DEF TaskRefs, HeldBy
  <1>2. TransRefs(b)' = Cardinality(TransOf(trans', b))
    BY DEF TransRefs, TransOf
  <1>3. LocalRefs(b)' = Cardinality(LocalOf(cpc', cbuf', b))
    BY DEF LocalRefs, LocalOf
  <1>4. trans' \in SUBSET Translation
    BY DEF TypeOK
  <1>5. PoolRef(b)' \in {0, 1}
    BY DEF PoolRef
  <1> QED BY <1>1, <1>2, <1>3, <1>4, <1>5, HeldFinite, TransFinite, LocalFinite

\* A task's list with a region more at its end, and without its first region.
WithRegion(R, t, r) == [R EXCEPT ![t] = Append(@, r)]
WithoutFirst(R, t) == [R EXCEPT ![t] = Tail(@)]

\* A region at the end of a task's list.
LEMMA HeldAppend ==
    ASSUME NEW R \in [Tasks -> Seq(Region)], NEW t \in Tasks, NEW r \in Region, NEW b,
           Len(R[t]) < MaxAttach, NEW Q, Q = WithRegion(R, t, r)
    PROVE  Cardinality(HeldBy(Q, b)) =
               Cardinality(HeldBy(R, b)) + Own(r, b)
  <1> DEFINE n == Len(R[t]) + 1
             x == <<t, n>>
  <1>1. R[t] \in Seq(Region) /\ n \in 1 .. MaxAttach /\ n \notin DOMAIN R[t]
    BY DmaAssumption
  <1>2. /\ DOMAIN Q[t] = DOMAIN R[t] \cup {n} /\ Q[t][n] = r
        /\ \A i \in DOMAIN R[t] : Q[t][i] = R[t][i]
        /\ \A u \in Tasks \ {t} : Q[u] = R[u]
    BY <1>1 DEF WithRegion
  <1> HIDE DEF n
  <1>3. x \notin HeldBy(R, b)
    BY <1>1 DEF HeldBy
  <1>4. CASE Own(r, b) = 1
    <2>1. HeldBy(Q, b) = HeldBy(R, b) \cup {x}
      BY <1>1, <1>2, <1>4 DEF HeldBy
    <2> QED BY <1>3, <1>4, <2>1, HeldFinite, FS_AddElement
  <1>5. CASE Own(r, b) = 0
    <2>1. HeldBy(Q, b) = HeldBy(R, b)
      BY <1>1, <1>2, <1>5 DEF HeldBy
    <2> QED BY <1>5, <2>1, HeldFinite
  <1> QED BY <1>4, <1>5, OwnValue

\* The first region of a task's list is released: the others move up.
LEMMA HeldTail ==
    ASSUME NEW R \in [Tasks -> Seq(Region)], NEW t \in Tasks, NEW b,
           R[t] # <<>>, Len(R[t]) <= MaxAttach, NEW Q, Q = WithoutFirst(R, t)
    PROVE  Cardinality(HeldBy(R, b)) =
               Cardinality(HeldBy(Q, b)) + Own(Head(R[t]), b)
  <1> DEFINE x == <<t, 1>>
             S == HeldBy(R, b) \ {x}
             g == [p \in S |-> IF p[1] = t THEN <<t, p[2] - 1>> ELSE p]
  <1>1. /\ R[t] \in Seq(Region) /\ Len(R[t]) \in Nat \ {0} /\ DOMAIN R[t] = 1 .. Len(R[t])
        /\ R[t][1] = Head(R[t])
    OBVIOUS
  <1>2. /\ DOMAIN Q[t] = 1 .. (Len(R[t]) - 1)
        /\ \A i \in DOMAIN Q[t] : Q[t][i] = R[t][i + 1]
        /\ \A u \in Tasks \ {t} : Q[u] = R[u]
    BY <1>1 DEF WithoutFirst
  <1>3. x \in HeldBy(R, b) <=> Own(Head(R[t]), b) = 1
    BY <1>1, DmaAssumption DEF HeldBy
  <1>4. ASSUME NEW p \in S
        PROVE  /\ g[p] \in HeldBy(Q, b)
               /\ p = <<p[1], p[2]>> /\ p[1] \in Tasks /\ p[2] \in 1 .. MaxAttach
               /\ p[1] = t => p[2] > 1
    <2>1. /\ p = <<p[1], p[2]>> /\ p[1] \in Tasks /\ p[2] \in 1 .. MaxAttach
          /\ p[2] \in DOMAIN R[p[1]] /\ Own(R[p[1]][p[2]], b) = 1 /\ p # x
      BY DEF HeldBy
    <2>2. CASE p[1] = t
      <3>0. p[2] # 1
        BY <2>1, <2>2
      <3>1. p[2] - 1 \in DOMAIN Q[t] /\ Q[t][p[2] - 1] = R[t][p[2]] /\ p[2] - 1 \in 1 .. MaxAttach
        <4>1. p[2] - 1 \in 1 .. (Len(R[t]) - 1) /\ p[2] - 1 \in 1 .. MaxAttach /\ p[2] - 1 + 1 = p[2]
          BY <1>1, <2>1, <2>2, <3>0, DmaAssumption
        <4> QED BY <1>2, <4>1
      <3>2. g[p] = <<t, p[2] - 1>>
        <4> HIDE DEF S
        <4> QED BY <2>2
      <3> QED BY <2>1, <2>2, <3>1, <3>2 DEF HeldBy
    <2>3. CASE p[1] # t
      BY <1>2, <2>1, <2>3 DEF HeldBy
    <2> QED BY <2>2, <2>3
  <1>5. ASSUME NEW q \in HeldBy(Q, b) PROVE \E p \in S : g[p] = q
    <2>1. /\ q = <<q[1], q[2]>> /\ q[1] \in Tasks /\ q[2] \in 1 .. MaxAttach
          /\ q[2] \in DOMAIN Q[q[1]] /\ Own(Q[q[1]][q[2]], b) = 1
      BY DEF HeldBy
    <2>2. CASE q[1] = t
      <3> DEFINE p == <<t, q[2] + 1>>
      <3>1. q[2] + 1 \in DOMAIN R[t] /\ Q[t][q[2]] = R[t][q[2] + 1] /\ q[2] + 1 \in 1 .. MaxAttach
        BY <1>1, <1>2, <2>1, <2>2, DmaAssumption, SMTT(30)
      <3>2. p \in S
        BY <2>1, <2>2, <3>1 DEF HeldBy
      <3>3. g[p] = q
        BY <2>1, <2>2, <3>2
      <3> QED BY <3>2, <3>3
    <2>3. CASE q[1] # t
      <3>1. q \in S
        BY <1>2, <2>1, <2>3 DEF HeldBy
      <3> QED BY <2>3, <3>1
    <2> QED BY <2>2, <2>3
  <1>6. ASSUME NEW p \in S, NEW q \in S, g[p] = g[q] PROVE p = q
    <2>1. /\ p = <<p[1], p[2]>> /\ p[2] \in 1 .. MaxAttach
          /\ q = <<q[1], q[2]>> /\ q[2] \in 1 .. MaxAttach
      BY <1>4
    <2>2. g[p] = (IF p[1] = t THEN <<t, p[2] - 1>> ELSE p)
          /\ g[q] = (IF q[1] = t THEN <<t, q[2] - 1>> ELSE q)
      OBVIOUS
    <2> QED BY <1>6, <2>1, <2>2
  <1>7. g \in Bijection(S, HeldBy(Q, b))
    <2>1. g \in [S -> HeldBy(Q, b)]
      BY <1>4
    <2> HIDE DEF g, S
    <2> QED BY <1>5, <1>6, <2>1 DEF Bijection, Injection, Surjection, IsInjective
  <1>8. IsFiniteSet(S) /\ Cardinality(HeldBy(Q, b)) = Cardinality(S)
    <2>1. ExistsBijection(S, HeldBy(Q, b))
      BY <1>7 DEF ExistsBijection
    <2>2. IsFiniteSet(S)
      BY HeldFinite, FS_RemoveElement
    <2> HIDE DEF S
    <2> QED BY <2>1, <2>2, FS_Bijection
  <1>9. Cardinality(S) = IF x \in HeldBy(R, b) THEN Cardinality(HeldBy(R, b)) - 1
                                              ELSE Cardinality(HeldBy(R, b))
    BY HeldFinite, FS_RemoveElement
  <1>10. Cardinality(HeldBy(R, b)) \in Nat
    BY HeldFinite
  <1> HIDE DEF S, g, x
  <1> QED BY <1>3, <1>8, <1>9, <1>10, OwnValue
\* A translation is added, or removed.
LEMMA TransAdd ==
    ASSUME NEW T \in SUBSET Translation, NEW x, x \notin T, NEW b
    PROVE  Cardinality(TransOf(T \cup {x}, b)) = Cardinality(TransOf(T, b)) + One(x.hdl = b)
  <1>1. CASE x.hdl = b
    <2>1. TransOf(T \cup {x}, b) = TransOf(T, b) \cup {x} /\ x \notin TransOf(T, b)
      BY <1>1 DEF TransOf
    <2>2. Cardinality(TransOf(T, b) \cup {x}) = Cardinality(TransOf(T, b)) + 1
      BY <2>1, TransFinite, FS_AddElement
    <2> QED BY <1>1, <2>1, <2>2 DEF One
  <1>2. CASE x.hdl # b
    <2>1. TransOf(T \cup {x}, b) = TransOf(T, b)
      BY <1>2 DEF TransOf
    <2> QED BY <1>2, <2>1, TransFinite DEF One
  <1> QED BY <1>1, <1>2

LEMMA TransRemove ==
    ASSUME NEW T \in SUBSET Translation, NEW x \in T, NEW b
    PROVE  Cardinality(TransOf(T, b)) =
               Cardinality(TransOf(T \ {x}, b)) + (IF x.hdl = b THEN 1 ELSE 0)
  <1>1. (T \ {x}) \cup {x} = T
    OBVIOUS
  <1>2. Cardinality(TransOf((T \ {x}) \cup {x}, b)) =
           Cardinality(TransOf(T \ {x}, b)) + One(x.hdl = b)
    BY TransAdd
  <1> QED BY <1>1, <1>2 DEF One

\* The reference in the local variable of one client.
LocalOne(C, B, p, b) == IF C[p] \in {"insert", "release"} /\ B[p] = b THEN 1 ELSE 0

\* One client moves: its local variable is counted before, after, both or not.
LEMMA LocalMove ==
    ASSUME NEW C, NEW B, NEW D, NEW E, NEW p \in Clients, NEW b,
           \A q \in Clients \ {p} : D[q] = C[q] /\ E[q] = B[q]
    PROVE  Cardinality(LocalOf(D, E, b)) + LocalOne(C, B, p, b) =
           Cardinality(LocalOf(C, B, b)) + LocalOne(D, E, p, b)
  <1> DEFINE S == {q \in Clients \ {p} : C[q] \in {"insert", "release"} /\ B[q] = b}
  <1>1. IsFiniteSet(S) /\ p \notin S /\ Cardinality(S) \in Nat
    <2>1. S \in SUBSET Clients
      OBVIOUS
    <2>2. IsFiniteSet(S)
      BY <2>1, FS_Subset, DmaAssumption
    <2> QED BY <2>2, FS_CardinalityType
  <1>2. Cardinality(S \cup {p}) = Cardinality(S) + 1
    BY <1>1, FS_AddElement
  <1>3. /\ LocalOf(C, B, b) = IF C[p] \in {"insert", "release"} /\ B[p] = b
                              THEN S \cup {p} ELSE S
        /\ LocalOf(D, E, b) = IF D[p] \in {"insert", "release"} /\ E[p] = b
                              THEN S \cup {p} ELSE S
    BY DEF LocalOf
  <1> HIDE DEF S
  <1> QED BY <1>1, <1>2, <1>3 DEF LocalOne

\* A region, or a translation, that holds a slot is counted.
LEMMA HeldPositive ==
    ASSUME NEW R, NEW t \in Tasks, NEW i \in DOMAIN R[t], i \in 1 .. MaxAttach, ~R[t][i].is_dup
    PROVE  Cardinality(HeldBy(R, R[t][i].hdl)) > 0
  <1>1. <<t, i>> \in HeldBy(R, R[t][i].hdl)
    BY OwnValue DEF HeldBy
  <1>2. Cardinality(HeldBy(R, R[t][i].hdl)) # 0
    BY <1>1, HeldFinite, FS_EmptySet
  <1> QED BY <1>2, HeldFinite

LEMMA TransPositive ==
    ASSUME NEW T \in SUBSET Translation, NEW x \in T
    PROVE  Cardinality(TransOf(T, x.hdl)) > 0
  <1>1. x \in TransOf(T, x.hdl)
    BY DEF TransOf
  <1>2. Cardinality(TransOf(T, x.hdl)) # 0
    BY <1>1, TransFinite, FS_EmptySet
  <1> QED BY <1>2, TransFinite

LEMMA LocalPositive ==
    ASSUME NEW C, NEW B, NEW p \in Clients, C[p] \in {"insert", "release"}
    PROVE  Cardinality(LocalOf(C, B, B[p])) > 0
  <1>1. p \in LocalOf(C, B, B[p])
    BY DEF LocalOf
  <1>2. Cardinality(LocalOf(C, B, B[p])) # 0
    BY <1>1, LocalFinite, FS_EmptySet
  <1> QED BY <1>2, LocalFinite

-----------------------------------------------------------------------------
(***************************************************************************)
(* What the steps of one thread leave alone.                               *)
(***************************************************************************)

\* A state from which the model takes steps.
Live == Inv /\ session = "live" /\ ~astray

\* Only client p moves.
ByClient(p) ==
    \A q \in Clients \ {p} :
        cpc'[q] = cpc[q] /\ ctask'[q] = ctask[q] /\ cfd'[q] = cfd[q] /\ cbuf'[q] = cbuf[q]

\* No slot is taken, or given up, by a client.
SameTaken ==
    \A q \in Clients :
        cpc[q] \in {"map", "kref", "insert"} \/ cpc'[q] \in {"map", "kref", "insert"} =>
            cpc'[q] = cpc[q] /\ cbuf'[q] = cbuf[q]

\* The other clients rely on nothing that client p changes.
LEMMA Others ==
    ASSUME Live, NEW p \in Clients, ByClient(p), ClientOK(p)',
           \A x \in trans' : x \in trans \/ x.by = p,
           \A t \in Tasks : t # ctask[p] /\ task[t] # "none" =>
               task'[t] = task[t] /\ regions'[t] = regions[t],
           ctask'[p] # Null => ctask'[p] = ctask[p] \/ task[ctask'[p]] = "none"
    PROVE  ClientInv'
  <1>1. /\ \A q \in Clients : ClientOK(q)
        /\ \A q, r \in Clients : q # r /\ ctask[q] # Null => ctask[q] # ctask[r]
        /\ ctask \in [Clients -> Tasks \cup {Null}]
    BY DEF Live, Inv, ClientInv, TypeOK
  <1>2. ASSUME NEW q \in Clients \ {p}, ctask[q] # Null
        PROVE  /\ ctask[q] \in Tasks /\ ctask[q] # ctask[p] /\ task[ctask[q]] # "none"
               /\ task'[ctask[q]] = task[ctask[q]] /\ regions'[ctask[q]] = regions[ctask[q]]
    <2>1. ctask[q] \in Tasks /\ ctask[q] # ctask[p]
      BY <1>1, <1>2
    <2>2. task[ctask[q]] # "none"
      BY <1>1, <1>2 DEF ClientOK
    <2> QED BY <2>1, <2>2
  <1>3. ASSUME NEW q \in Clients \ {p} PROVE ClientOK(q)'
    <2>1. /\ cpc'[q] = cpc[q] /\ ctask'[q] = ctask[q] /\ cfd'[q] = cfd[q] /\ cbuf'[q] = cbuf[q]
          /\ Importing(q)' <=> Importing(q)
      BY DEF ByClient, Importing
    <2>2. \A x \in trans' : x.by = q => x \in trans
      OBVIOUS
    <2>3. ClientOK(q)
      BY <1>1
    <2> QED BY <1>2, <2>1, <2>2, <2>3 DEF ClientOK
  <1>4. ASSUME NEW q \in Clients, NEW r \in Clients, q # r, ctask'[q] # Null
        PROVE  ctask'[q] # ctask'[r]
    <2>1. \A s \in Clients \ {p} : ctask'[s] = ctask[s]
      BY DEF ByClient
    <2>2. CASE q # p /\ r # p
      BY <1>1, <1>4, <2>1, <2>2
    <2>3. CASE q = p /\ r # p
      BY <1>1, <1>2, <1>4, <2>1, <2>3
    <2>4. CASE q # p /\ r = p
      BY <1>1, <1>2, <1>4, <2>1, <2>4
    <2> QED BY <1>4, <2>2, <2>3, <2>4
  <1> QED BY <1>3, <1>4 DEF ClientInv

\* A step that leaves the pool alone keeps it consistent.
LEMMA PoolUnchanged ==
    ASSUME Inv, UNCHANGED <<session, unused, used, ref, count>>,
           \A q \in Clients : Taken(q)' = Taken(q)
    PROVE  PoolConsistent'
  <1>1. PoolConsistent
    BY DEF Inv
  <1> QED BY <1>1 DEF PoolConsistent

LEMMA SameTakenTaken ==
    ASSUME SameTaken
    PROVE  /\ \A q \in Clients : Taken(q)' = Taken(q)
           /\ \A b : (\E q \in Clients : cpc'[q] \in {"kref", "insert"} /\ cbuf'[q] = b)
                     <=> (\E q \in Clients : cpc[q] \in {"kref", "insert"} /\ cbuf[q] = b)
  <1>1. \A q \in Clients : Taken(q)' = Taken(q)
    BY DEF SameTaken, Taken
  <1>2. \A b : \A q \in Clients : cpc'[q] \in {"kref", "insert"} /\ cbuf'[q] = b
                     <=> cpc[q] \in {"kref", "insert"} /\ cbuf[q] = b
    BY DEF SameTaken
  <1> QED BY <1>1, <1>2

\* A step of client p that moves no reference keeps RefsInv.
LEMMA RefsFrame ==
    ASSUME Live, TypeOK', NEW p \in Clients, ByClient(p), SameTaken,
           UNCHANGED <<used, ref, evicted, regions, trans>>,
           cpc[p] \notin {"insert", "release"}, cpc'[p] \notin {"insert", "release"}
    PROVE  RefsInv'
  <1>1. RefsInv /\ TypeOK
    BY DEF Live, Inv
  <1>2. ASSUME NEW b \in Slots
        PROVE  /\ PoolRef(b)' = PoolRef(b) /\ TaskRefs(b)' = TaskRefs(b)
               /\ TransRefs(b)' = TransRefs(b) /\ LocalRefs(b)' = LocalRefs(b)
    <2>1. PoolRef(b)' = PoolRef(b)
      BY SameTakenTaken DEF PoolRef
    <2>2. TaskRefs(b)' = TaskRefs(b) /\ TransRefs(b)' = TransRefs(b)
      BY <1>1, RefsAreHolders, RefsAreHoldersPrime
    <2>3. LocalOf(cpc', cbuf', b) = LocalOf(cpc, cbuf, b)
      BY DEF LocalOf, ByClient
    <2> QED BY <1>1, <2>1, <2>2, <2>3, RefsAreHolders, RefsAreHoldersPrime
  <1>3. \A q \in Clients : cpc'[q] = "map" => cpc[q] = "map" /\ cbuf'[q] = cbuf[q]
    BY DEF SameTaken
  <1> QED BY <1>1, <1>2, <1>3 DEF RefsInv

\* The two parts of Inv that a step may break only when it goes astray.
LEMMA InvParts ==
    ASSUME TypeOK', PoolConsistent', ClientInv', RegionInv',
           ~astray' => OnceInv' /\ RefsInv' /\ SameInv'
    PROVE  Inv'
  BY DEF Inv

\* Who is past its look-up after a step was so before, or has just found no
\* slot of its dma_buf and nobody else importing it.
LEMMA OnceFrame ==
    ASSUME Live, NEW p, Elems(used') \subseteq Elems(used),
           \A b \in Elems(used') : dmabuf'[b] = dmabuf[b],
           crossed \subseteq crossed',
           \A q \in Clients : cpc'[q] \in {"kref", "insert"} =>
               /\ cpc[q] \in {"kref", "insert"} /\ cbuf'[q] = cbuf[q] /\ cfd'[q] = cfd[q]
               /\ dmabuf'[cbuf[q]] = dmabuf[cbuf[q]],
           \A q \in Clients : Looking(q)' =>
               /\ cfd'[q] = cfd[q]
               /\ \/ Looking(q)
                  \/ q = p /\ DmabufOf[cfd[q]] \in crossed'
                  \/ q = p /\ Match(cfd[q]) = {} /\ ~Meanwhile(q)
    PROVE  OnceInv'
  <1>1. OnceInv
    BY DEF Live, Inv
  <1>2. \A b, c \in Elems(used') : dmabuf'[b] = dmabuf'[c] /\ dmabuf'[b] \notin crossed' => b = c
    BY <1>1 DEF OnceInv
  <1>3. \A q \in Clients : cpc'[q] \in {"kref", "insert"} => dmabuf'[cbuf'[q]] = DmabufOf[cfd'[q]]
    BY <1>1 DEF OnceInv
  <1>4. ASSUME NEW q \in Clients, Looking(q)', DmabufOf[cfd'[q]] \notin crossed'
        PROVE  /\ \A b \in Elems(used') : dmabuf'[b] # DmabufOf[cfd'[q]]
               /\ \A r \in Clients \ {q} : Looking(r)' => DmabufOf[cfd'[r]] # DmabufOf[cfd'[q]]
    <2>1. cfd'[q] = cfd[q] /\ DmabufOf[cfd[q]] \notin crossed
      BY <1>4
    <2>2. CASE Looking(q)
      <3>1. /\ \A b \in Elems(used) : dmabuf[b] # DmabufOf[cfd[q]]
            /\ \A r \in Clients \ {q} : Looking(r) => DmabufOf[cfd[r]] # DmabufOf[cfd[q]]
        BY <1>1, <2>1, <2>2 DEF OnceInv
      <3>2. ASSUME NEW r \in Clients \ {q}, Looking(r)' PROVE DmabufOf[cfd'[r]] # DmabufOf[cfd'[q]]
        <4>1. cfd'[r] = cfd[r]
          BY <3>2
        <4>2. CASE Looking(r)
          BY <2>1, <3>1, <4>1, <4>2
        <4>3. CASE DmabufOf[cfd[r]] \in crossed'
          BY <1>4, <2>1, <4>1, <4>3
        <4>4. CASE ~Meanwhile(r)
          <5>1. ~(DmabufOf[cfd[q]] = DmabufOf[cfd[r]])
            BY <2>2, <4>4 DEF Meanwhile, Looking
          <5> QED BY <2>1, <4>1, <5>1
        <4> QED BY <3>2, <4>2, <4>3, <4>4
      <3> QED BY <2>1, <3>1, <3>2
    <2>3. CASE ~Looking(q)
      <3>1. q = p /\ Match(cfd[q]) = {} /\ ~Meanwhile(q)
        BY <1>4, <2>1, <2>3
      <3>2. \A b \in Elems(used) : dmabuf[b] # DmabufOf[cfd[q]]
        BY <3>1 DEF Match
      <3>3. ASSUME NEW r \in Clients \ {q}, Looking(r)' PROVE DmabufOf[cfd'[r]] # DmabufOf[cfd'[q]]
        <4>1. Looking(r) /\ cfd'[r] = cfd[r]
          BY <3>1, <3>3
        <4> QED BY <2>1, <3>1, <4>1 DEF Meanwhile, Looking
      <3> QED BY <2>1, <3>2, <3>3
    <2> QED BY <2>2, <2>3
  <1> QED BY <1>2, <1>3, <1>4 DEF OnceInv

\* A task keeps its regions; it may be allocated, or leave the hands of those
\* who rely on the regions.
LEMMA RegionFrame ==
    ASSUME Live, UNCHANGED <<dmabuf, regions, trans>>, crossed \subseteq crossed',
           \A t \in Tasks : /\ task'[t] = "none" => task[t] = "none"
                            /\ task'[t] \in {"alloc", "live"} => task[t] \in {"alloc", "live", "none"}
    PROVE  RegionInv' /\ SameInv'
  <1>1. RegionInv /\ SameInv
    BY DEF Live, Inv
  <1>2. RegionInv'
    <2>1. \A t \in Tasks : task[t] = "none" => DOMAIN regions[t] = {}
      BY <1>1 DEF RegionInv
    <2> QED BY <1>1, <2>1 DEF RegionInv
  <1>3. SameInv'
    <2>1. ASSUME NEW t \in Tasks, NEW i \in DOMAIN regions[t], task'[t] \in {"alloc", "live"}
          PROVE  \/ DmabufOf[regions[t][i].fd] \in crossed'
                 \/ dmabuf[regions[t][i].hdl] = DmabufOf[regions[t][i].fd]
      <3>1. task[t] # "none"
        BY <1>1 DEF RegionInv
      <3> QED BY <1>1, <2>1, <3>1 DEF SameInv
    <2> QED BY <1>1, <2>1 DEF SameInv
  <1> QED BY <1>2, <1>3

\* The steps of a client that move no slot, no reference and no region.
LEMMA Quiet ==
    ASSUME Live, TypeOK', NEW p \in Clients, ByClient(p), ClientOK(p)',
           UNCHANGED <<session, poolVars, regions, trans>>, crossed \subseteq crossed',
           cpc[p] \notin {"map", "kref", "insert", "release"},
           cpc'[p] \notin {"map", "kref", "insert", "release"},
           cpc'[p] = "take" =>
               /\ cfd'[p] = cfd[p]
               /\ DmabufOf[cfd[p]] \in crossed' \/ (Match(cfd[p]) = {} /\ ~Meanwhile(p)),
           \A t \in Tasks : /\ t # ctask[p] /\ task[t] # "none" => task'[t] = task[t]
                            /\ task'[t] = "none" => task[t] = "none"
                            /\ task'[t] \in {"alloc", "live"} => task[t] \in {"alloc", "live", "none"},
           ctask'[p] # Null => ctask'[p] = ctask[p] \/ task[ctask'[p]] = "none"
    PROVE  Inv'
  <1> USE DEF poolVars
  <1>1. SameTaken
    BY DEF SameTaken, ByClient
  <1>2. PoolConsistent'
    BY <1>1, PoolUnchanged, SameTakenTaken DEF Live
  <1>3. ClientInv'
    BY Others
  <1>4. RegionInv' /\ SameInv'
    BY RegionFrame
  <1>5. RefsInv'
    BY <1>1, RefsFrame
  <1>6. OnceInv'
    <2>1. ASSUME NEW q \in Clients, Looking(q)'
          PROVE  /\ cfd'[q] = cfd[q]
                 /\ \/ Looking(q)
                    \/ q = p /\ DmabufOf[cfd[q]] \in crossed'
                    \/ q = p /\ Match(cfd[q]) = {} /\ ~Meanwhile(q)
      <3>1. CASE q = p
        BY <2>1, <3>1 DEF Looking
      <3>2. CASE q # p
        BY <2>1, <3>2 DEF Looking, ByClient
      <3> QED BY <3>1, <3>2
    <2>2. ASSUME NEW q \in Clients, cpc'[q] \in {"kref", "insert"}
          PROVE  cpc[q] \in {"kref", "insert"} /\ cbuf'[q] = cbuf[q] /\ cfd'[q] = cfd[q]
      BY <2>2 DEF ByClient
    <2> QED BY <2>1, <2>2, OnceFrame
  <1> QED BY <1>2, <1>3, <1>4, <1>5, <1>6 DEF Inv

-----------------------------------------------------------------------------
(***************************************************************************)
(* The steps that move no reference.                                       *)
(***************************************************************************)

\* The types of a client, in a state the model takes steps from.
LEMMA ClientTypes ==
    ASSUME Live, NEW p \in Clients
    PROVE  /\ ClientOK(p) /\ TypeOK /\ PoolConsistent /\ ClientInv /\ RegionInv
           /\ OnceInv /\ RefsInv /\ SameInv
           /\ session = "live" /\ astray = FALSE
           /\ cpc \in [Clients -> {"idle", "build", "extra", "evict", "find", "get", "closed",
                         "take", "map", "kref", "insert", "fail", "release", "reset"}]
           /\ ctask \in [Clients -> Tasks \cup {Null}]
           /\ cfd \in [Clients -> Fds \cup {Null}]
           /\ cbuf \in [Clients -> Slots \cup {0}]
           /\ task \in [Tasks -> {"none", "alloc", "live", "final", "freed"}]
           /\ Elems(used) \subseteq Slots /\ Elems(unused) \subseteq Slots
  <1>1. TypeOK /\ astray = FALSE
    BY DEF Live, Inv, TypeOK
  <1>2. Elems(used) \subseteq Slots /\ Elems(unused) \subseteq Slots
    BY <1>1, ElemsType DEF TypeOK
  <1>3. ClientOK(p)
    BY DEF Live, Inv, ClientInv
  <1> QED BY <1>1, <1>2, <1>3 DEF Live, Inv, TypeOK

LEMMA CheckCountInv == ASSUME Live, NEW p \in Clients, CheckCount(p) PROVE Inv'
  <1> USE DEF taskVars, poolVars
  <1>1. /\ cpc[p] = "extra" /\ cpc'[p] \in {"evict", "find"} /\ Importing(p)
        /\ UNCHANGED <<session, poolVars, taskVars, trans, ctask, cfd, cbuf, crossed>>
        /\ \A q \in Clients \ {p} : cpc'[q] = cpc[q]
        /\ cpc' = [cpc EXCEPT ![p] = IF count > max_buffers THEN "evict" ELSE "find"]
    BY ClientTypes DEF CheckCount, Importing
  <1>2. TypeOK'
    BY <1>1, ClientTypes DEF TypeOK
  <1>3. ClientOK(p)'
    BY <1>1, ClientTypes DEF ClientOK, Importing
  <1>4. ByClient(p)
    BY <1>1 DEF ByClient
  <1> QED BY <1>1, <1>2, <1>3, <1>4, ClientTypes, Quiet

LEMMA FindInv == ASSUME Live, NEW p \in Clients, mpp_dma_find_buffer_fd(p) PROVE Inv'
  <1> USE DEF taskVars, poolVars
  <1>1. /\ cpc[p] = "find" /\ Importing(p) /\ cfd[p] \in Fds
        /\ UNCHANGED <<session, poolVars, taskVars, trans, ctask, cfd>>
        /\ Match(cfd[p]) \subseteq Slots
    BY ClientTypes DEF mpp_dma_find_buffer_fd, Importing, ClientOK, Match
  <1>2. DmabufOf[cfd[p]] \in Dmabufs /\ crossed \subseteq Dmabufs
    BY <1>1, ClientTypes, DmaAssumption DEF TypeOK
  <1>3. CASE /\ Match(cfd[p]) # {}
             /\ \E b \in Match(cfd[p]) : cbuf' = [cbuf EXCEPT ![p] = b]
             /\ cpc' = [cpc EXCEPT ![p] = "get"]
             /\ UNCHANGED crossed
    <2>1. PICK b \in Match(cfd[p]) : cbuf' = [cbuf EXCEPT ![p] = b]
      BY <1>3
    <2>2. /\ cpc'[p] = "get" /\ cbuf'[p] \in Slots /\ ByClient(p)
      BY <1>1, <1>3, <2>1, ClientTypes DEF ByClient
    <2>3. TypeOK'
      BY <1>1, <1>3, <2>1, ClientTypes DEF TypeOK
    <2>4. ClientOK(p)'
      BY <1>1, <2>2, ClientTypes DEF ClientOK, Importing
    <2> QED BY <1>1, <1>3, <2>2, <2>3, <2>4, ClientTypes, Quiet
  <1>4. CASE /\ Match(cfd[p]) = {}
             /\ cpc' = [cpc EXCEPT ![p] = "take"]
             /\ crossed' = crossed \cup IF Meanwhile(p) THEN {DmabufOf[cfd[p]]} ELSE {}
             /\ UNCHANGED cbuf
    <2>1. cpc'[p] = "take" /\ ByClient(p) /\ crossed' \subseteq Dmabufs /\ crossed \subseteq crossed'
      BY <1>1, <1>2, <1>4, ClientTypes DEF ByClient
    <2>2. TypeOK'
      BY <1>1, <1>4, <2>1, ClientTypes DEF TypeOK
    <2>3. ClientOK(p)'
      BY <1>1, <1>4, <2>1, ClientTypes DEF ClientOK, Importing
    <2>4. DmabufOf[cfd[p]] \in crossed' \/ (Match(cfd[p]) = {} /\ ~Meanwhile(p))
      BY <1>4
    <2> QED BY <1>1, <1>4, <2>1, <2>2, <2>3, <2>4, ClientTypes, Quiet
  <1>5. CASE /\ cpc' = [cpc EXCEPT ![p] = "closed"] /\ UNCHANGED <<cbuf, crossed>>
    <2>1. cpc'[p] = "closed" /\ ByClient(p)
      BY <1>1, <1>5, ClientTypes DEF ByClient
    <2>2. TypeOK'
      BY <1>1, <1>5, ClientTypes DEF TypeOK
    <2>3. ClientOK(p)'
      BY <1>1, <1>5, <2>1, ClientTypes DEF ClientOK, Importing
    <2> QED BY <1>1, <1>5, <2>1, <2>2, <2>3, ClientTypes, Quiet
  <1> QED BY <1>3, <1>4, <1>5 DEF mpp_dma_find_buffer_fd

\* An import that fails.
LEMMA ImportFailedType ==
    ASSUME Live, NEW p \in Clients, Importing(p), ImportFailed(p),
           UNCHANGED <<regions, trans, ctask>>
    PROVE  /\ task' \in [Tasks -> {"none", "alloc", "live", "final", "freed"}]
           /\ cpc' \in [Clients -> {"idle", "build", "extra", "evict", "find", "get", "closed",
                         "take", "map", "kref", "insert", "fail", "release", "reset"}]
           /\ cfd' \in [Clients -> Fds \cup {Null}] /\ cbuf' \in [Clients -> Slots \cup {0}]
           /\ cpc'[p] \in {"idle", "fail"} /\ ByClient(p) /\ ClientOK(p)'
           /\ \A t \in Tasks : task'[t] # task[t] =>
                  t = ctask[p] /\ task[t] = "alloc" /\ task'[t] = "final"
  <1>1. /\ cfd' = [cfd EXCEPT ![p] = Null] /\ cbuf' = [cbuf EXCEPT ![p] = 0]
        /\ cpc[p] # "fail"
    BY DEF ImportFailed, Return, Importing
  <1>2. CASE ctask[p] = Null
    <2>1. cpc' = [cpc EXCEPT ![p] = "idle"] /\ task' = task
      BY <1>2 DEF ImportFailed
    <2>2. cpc'[p] = "idle"
      BY <2>1, ClientTypes
    <2>3. ClientOK(p)'
      BY <1>2, <2>2 DEF ClientOK, Importing
    <2> QED BY <1>1, <2>1, <2>2, <2>3, ClientTypes DEF ByClient
  <1>3. CASE ctask[p] # Null
    <2>1. cpc' = [cpc EXCEPT ![p] = "fail"] /\ task' = [task EXCEPT ![ctask[p]] = "final"]
      BY <1>3 DEF ImportFailed
    <2>2. ctask[p] \in Tasks /\ task[ctask[p]] = "alloc" /\ cpc'[p] = "fail"
      BY <1>1, <1>3, <2>1, ClientTypes DEF ClientOK
    <2>3. task'[ctask[p]] = "final"
      BY <2>1, <2>2, ClientTypes
    <2>4. ClientOK(p)'
      BY <1>3, <2>2, <2>3 DEF ClientOK, Importing
    <2> QED BY <1>1, <2>1, <2>2, <2>3, <2>4, ClientTypes DEF ByClient
  <1> QED BY <1>2, <1>3

LEMMA FailsQuietly ==
    ASSUME Live, NEW p \in Clients, cpc[p] \in {"closed", "take"}, ImportFailed(p),
           UNCHANGED <<session, poolVars, regions, trans, ctask, crossed>>
    PROVE  Inv'
  <1> USE DEF poolVars
  <1>1. Importing(p)
    BY DEF Importing
  <1>2. /\ task' \in [Tasks -> {"none", "alloc", "live", "final", "freed"}]
        /\ cpc' \in [Clients -> {"idle", "build", "extra", "evict", "find", "get", "closed",
                         "take", "map", "kref", "insert", "fail", "release", "reset"}]
        /\ cfd' \in [Clients -> Fds \cup {Null}] /\ cbuf' \in [Clients -> Slots \cup {0}]
        /\ cpc'[p] \in {"idle", "fail"} /\ ByClient(p) /\ ClientOK(p)'
        /\ \A t \in Tasks : task'[t] # task[t] =>
               t = ctask[p] /\ task[t] = "alloc" /\ task'[t] = "final"
    BY <1>1, ImportFailedType
  <1>3. TypeOK'
    BY <1>2, ClientTypes DEF TypeOK
  <1> QED BY <1>2, <1>3, ClientTypes, Quiet

LEMMA DmaBufGetFailsInv == ASSUME Live, NEW p \in Clients, DmaBufGetFails(p) PROVE Inv'
  BY FailsQuietly DEF DmaBufGetFails

LEMMA TaskInitInv ==
    ASSUME Live, NEW p \in Clients, NEW t \in Tasks, mpp_task_init(p, t) PROVE Inv'
  <1> USE DEF poolVars
  <1>1. /\ cpc[p] = "idle" /\ task[t] = "none" /\ ctask[p] = Null
        /\ task' = [task EXCEPT ![t] = "alloc"]
        /\ ctask' = [ctask EXCEPT ![p] = t] /\ cpc' = [cpc EXCEPT ![p] = "build"]
        /\ UNCHANGED <<session, poolVars, regions, trans, cfd, cbuf, crossed>>
    BY ClientTypes DEF mpp_task_init, ClientOK
  <1>2. cpc'[p] = "build" /\ ctask'[p] = t /\ task'[t] = "alloc" /\ ByClient(p)
    BY <1>1, ClientTypes DEF ByClient
  <1>3. TypeOK'
    BY <1>1, ClientTypes DEF TypeOK
  <1>4. ClientOK(p)'
    BY <1>2, DmaAssumption DEF ClientOK, Importing
  <1>5. \A u \in Tasks : u # t => task'[u] = task[u]
    BY <1>1, ClientTypes
  <1> QED BY <1>1, <1>2, <1>3, <1>4, <1>5, ClientTypes, Quiet

LEMMA AttachFailsInv == ASSUME Live, NEW p \in Clients, AttachFails(p) PROVE Inv'
  <1> USE DEF poolVars
  <1>1. /\ cpc[p] = "build" /\ ctask[p] \in Tasks /\ ctask[p] # Null
        /\ task[ctask[p]] = "alloc"
        /\ cpc' = [cpc EXCEPT ![p] = "fail"] /\ task' = [task EXCEPT ![ctask[p]] = "final"]
        /\ UNCHANGED <<session, poolVars, regions, trans, ctask, cfd, cbuf, crossed>>
    BY ClientTypes DEF AttachFails, ClientOK
  <1>2. cpc'[p] = "fail" /\ task'[ctask[p]] = "final" /\ ByClient(p)
    BY <1>1, ClientTypes DEF ByClient
  <1>3. TypeOK'
    BY <1>1, ClientTypes DEF TypeOK
  <1>4. ClientOK(p)'
    BY <1>1, <1>2 DEF ClientOK, Importing
  <1>5. \A u \in Tasks : u # ctask[p] => task'[u] = task[u]
    BY <1>1, ClientTypes
  <1> QED BY <1>1, <1>2, <1>3, <1>4, <1>5, ClientTypes, Quiet

LEMMA AllocDoneInv == ASSUME Live, NEW p \in Clients, AllocDone(p) PROVE Inv'
  <1> USE DEF poolVars
  <1>1. /\ cpc[p] = "build" /\ ctask[p] \in Tasks /\ ctask[p] # Null
        /\ task[ctask[p]] = "alloc"
        /\ cpc' = [cpc EXCEPT ![p] = "idle"] /\ task' = [task EXCEPT ![ctask[p]] = "live"]
        /\ ctask' = [ctask EXCEPT ![p] = Null]
        /\ UNCHANGED <<session, poolVars, regions, trans, cfd, cbuf, crossed>>
    BY ClientTypes DEF AllocDone, ClientOK
  <1>2. cpc'[p] = "idle" /\ ctask'[p] = Null /\ task'[ctask[p]] = "live" /\ ByClient(p)
    BY <1>1, ClientTypes DEF ByClient
  <1>3. TypeOK'
    BY <1>1, ClientTypes DEF TypeOK
  <1>4. ClientOK(p)'
    BY <1>2 DEF ClientOK, Importing
  <1>5. \A u \in Tasks : u # ctask[p] => task'[u] = task[u]
    BY <1>1, ClientTypes
  <1> QED BY <1>1, <1>2, <1>3, <1>4, <1>5, ClientTypes, Quiet

LEMMA AllocFailedInv == ASSUME Live, NEW p \in Clients, AllocFailed(p) PROVE Inv'
  <1> USE DEF poolVars, taskVars
  <1>1. /\ cpc[p] = "fail"
        /\ cpc' = [cpc EXCEPT ![p] = "idle"] /\ ctask' = [ctask EXCEPT ![p] = Null]
        /\ UNCHANGED <<session, poolVars, taskVars, trans, cfd, cbuf, crossed>>
    BY DEF AllocFailed
  <1>2. cpc'[p] = "idle" /\ ctask'[p] = Null /\ ByClient(p)
    BY <1>1, ClientTypes DEF ByClient
  <1>3. TypeOK'
    BY <1>1, ClientTypes DEF TypeOK
  <1>4. ClientOK(p)'
    BY <1>2 DEF ClientOK, Importing
  <1> QED BY <1>1, <1>2, <1>3, <1>4, ClientTypes, Quiet

LEMMA TransFdInv == ASSUME Live, NEW p \in Clients, NEW f \in Fds, TransFd(p, f) PROVE Inv'
  <1> USE DEF poolVars, taskVars
  <1>1. /\ cpc[p] = "idle" /\ ctask[p] = Null /\ \A x \in trans : x.by = p => x.fd # f
        /\ cpc' = [cpc EXCEPT ![p] = "extra"] /\ cfd' = [cfd EXCEPT ![p] = f]
        /\ UNCHANGED <<session, poolVars, taskVars, trans, ctask, cbuf, crossed>>
    BY ClientTypes DEF TransFd, ClientOK
  <1>2. cpc'[p] = "extra" /\ cfd'[p] = f /\ ByClient(p)
    BY <1>1, ClientTypes DEF ByClient
  <1>3. TypeOK'
    BY <1>1, ClientTypes DEF TypeOK
  <1>4. ClientOK(p)'
    BY <1>1, <1>2 DEF ClientOK, Importing
  <1> QED BY <1>1, <1>2, <1>3, <1>4, ClientTypes, Quiet

LEMMA ResetSessionInv == ASSUME Live, NEW p \in Clients, ResetSession(p) PROVE Inv'
  <1> USE DEF poolVars, taskVars
  <1>1. /\ cpc[p] = "idle" /\ ctask[p] = Null
        /\ cpc' = [cpc EXCEPT ![p] = "reset"]
        /\ UNCHANGED <<session, poolVars, taskVars, trans, ctask, cfd, cbuf, crossed>>
    BY ClientTypes DEF ResetSession, ClientOK
  <1>2. cpc'[p] = "reset" /\ ByClient(p)
    BY <1>1, ClientTypes DEF ByClient
  <1>3. TypeOK'
    BY <1>1, ClientTypes DEF TypeOK
  <1>4. ClientOK(p)'
    BY <1>1, <1>2 DEF ClientOK, Importing
  <1> QED BY <1>1, <1>2, <1>3, <1>4, ClientTypes, Quiet

-----------------------------------------------------------------------------
(***************************************************************************)
(* A slot gets a holder.                                                   *)
(***************************************************************************)

\* A task that is being built gets a region.
LEMMA AddRegion ==
    ASSUME Live, NEW t \in Tasks, NEW r \in Region, task[t] = "alloc",
           Len(regions[t]) < MaxAttach, regions' = WithRegion(regions, t, r),
           UNCHANGED <<task, dmabuf, trans>>, crossed \subseteq crossed',
           r.is_dup => \E j \in DOMAIN regions[t] :
                           ~regions[t][j].is_dup /\ regions[t][j].hdl = r.hdl,
           DmabufOf[r.fd] \in crossed' \/ dmabuf[r.hdl] = DmabufOf[r.fd]
    PROVE  /\ regions' \in [Tasks -> Seq(Region)]
           /\ \A u \in Tasks \ {t} : regions'[u] = regions[u]
           /\ RegionInv' /\ SameInv'
           /\ \A c : Cardinality(HeldBy(regions', c)) =
                       Cardinality(HeldBy(regions, c)) + Own(r, c)
  <1>1. /\ RegionInv /\ SameInv /\ regions \in [Tasks -> Seq(Region)]
        /\ regions[t] \in Seq(Region)
    BY DEF Live, Inv, TypeOK
  <1>2. /\ regions' \in [Tasks -> Seq(Region)]
        /\ regions'[t] = Append(regions[t], r)
        /\ \A u \in Tasks \ {t} : regions'[u] = regions[u]
    BY <1>1 DEF WithRegion
  <1>3. /\ Len(regions'[t]) = Len(regions[t]) + 1
        /\ DOMAIN regions[t] \subseteq DOMAIN regions'[t]
        /\ \A i \in DOMAIN regions[t] : regions'[t][i] = regions[t][i]
        /\ \A i \in DOMAIN regions'[t] :
             regions'[t][i] = r \/ (i \in DOMAIN regions[t] /\ regions'[t][i] = regions[t][i])
    BY <1>1, <1>2
  <1>4. RegionInv'
    <2>1. ASSUME NEW i \in DOMAIN regions'[t], regions'[t][i].is_dup
          PROVE  \E j \in DOMAIN regions'[t] : /\ ~regions'[t][j].is_dup
                                               /\ regions'[t][j].hdl = regions'[t][i].hdl
      <3>1. CASE regions'[t][i] = r
        BY <1>3, <2>1, <3>1
      <3>2. CASE i \in DOMAIN regions[t] /\ regions'[t][i] = regions[t][i]
        <4>1. PICK j \in DOMAIN regions[t] :
                     ~regions[t][j].is_dup /\ regions[t][j].hdl = regions[t][i].hdl
          BY <1>1, <2>1, <3>2 DEF RegionInv
        <4> QED BY <1>3, <3>2, <4>1
      <3> QED BY <1>3, <3>1, <3>2
    <2>2. Len(regions'[t]) <= MaxAttach
      BY <1>1, <1>3, DmaAssumption
    <2>3. ASSUME NEW u \in Tasks \ {t}
          PROVE  /\ Len(regions'[u]) <= MaxAttach
                 /\ task'[u] = "none" => regions'[u] = <<>>
                 /\ task'[u] \in {"alloc", "live"} =>
                      \A i \in DOMAIN regions'[u] : regions'[u][i].is_dup =>
                        \E j \in DOMAIN regions'[u] : /\ ~regions'[u][j].is_dup
                                                      /\ regions'[u][j].hdl = regions'[u][i].hdl
      <3>1. regions'[u] = regions[u] /\ task'[u] = task[u]
        BY <1>2
      <3>2. /\ Len(regions[u]) <= MaxAttach
            /\ task[u] = "none" => regions[u] = <<>>
            /\ task[u] \in {"alloc", "live"} =>
                 \A i \in DOMAIN regions[u] : regions[u][i].is_dup =>
                   \E j \in DOMAIN regions[u] : /\ ~regions[u][j].is_dup
                                                /\ regions[u][j].hdl = regions[u][i].hdl
        BY <1>1 DEF RegionInv
      <3> QED BY <3>1, <3>2
    <2>4. task'[t] # "none"
      OBVIOUS
    <2> QED BY <2>1, <2>2, <2>3, <2>4 DEF RegionInv
  <1>5. SameInv'
    <2>1. ASSUME NEW u \in Tasks, NEW i \in DOMAIN regions'[u], task'[u] \in {"alloc", "live"}
          PROVE  \/ DmabufOf[regions'[u][i].fd] \in crossed'
                 \/ dmabuf'[regions'[u][i].hdl] = DmabufOf[regions'[u][i].fd]
      <3>1. CASE u = t /\ regions'[t][i] = r
        BY <3>1
      <3>2. CASE i \in DOMAIN regions[u] /\ regions'[u][i] = regions[u][i]
        BY <1>1, <2>1, <3>2 DEF SameInv
      <3> QED BY <1>2, <1>3, <2>1, <3>1, <3>2
    <2> QED BY <1>1, <2>1 DEF SameInv
  <1>6. \A c : Cardinality(HeldBy(regions', c)) = Cardinality(HeldBy(regions, c)) + Own(r, c)
    BY <1>1, HeldAppend
  <1> QED BY <1>2, <1>4, <1>5, <1>6

\* A translation is handed to the client.
LEMMA AddTrans ==
    ASSUME Live, NEW x \in Translation, trans' = trans \cup {x},
           UNCHANGED <<task, dmabuf, regions>>, crossed \subseteq crossed',
           DmabufOf[x.fd] \in crossed' \/ dmabuf[x.hdl] = DmabufOf[x.fd]
    PROVE  RegionInv' /\ SameInv'
  <1>1. RegionInv /\ SameInv
    BY DEF Live, Inv
  <1>2. RegionInv'
    BY <1>1 DEF RegionInv
  <1>3. SameInv'
    BY <1>1 DEF SameInv
  <1> QED BY <1>2, <1>3

\* The region, or the translation, of an import that succeeds.
LEMMA ImportedHolds ==
    ASSUME Live, NEW p \in Clients, NEW b \in Slots, cpc[p] \in {"get", "insert"},
           Imported(p, b), UNCHANGED <<task, ctask, dmabuf>>, crossed \subseteq crossed',
           DmabufOf[cfd[p]] \in crossed' \/ dmabuf[b] = DmabufOf[cfd[p]]
    PROVE  /\ regions' \in [Tasks -> Seq(Region)] /\ trans' \subseteq Translation
           /\ cpc' \in [Clients -> {"idle", "build", "extra", "evict", "find", "get", "closed",
                         "take", "map", "kref", "insert", "fail", "release", "reset"}]
           /\ cfd' \in [Clients -> Fds \cup {Null}] /\ cbuf' \in [Clients -> Slots \cup {0}]
           /\ cpc'[p] \in {"idle", "build"} /\ ByClient(p) /\ ClientInv'
           /\ RegionInv' /\ SameInv'
           /\ \A c : Cardinality(HeldBy(regions', c)) + Cardinality(TransOf(trans', c)) =
                       Cardinality(HeldBy(regions, c)) + Cardinality(TransOf(trans, c))
                           + One(c = b)
  <1>1. /\ cfd' = [cfd EXCEPT ![p] = Null] /\ cbuf' = [cbuf EXCEPT ![p] = 0]
        /\ Importing(p) /\ cfd[p] \in Fds /\ trans \subseteq Translation
        /\ regions \in [Tasks -> Seq(Region)]
    BY ClientTypes DEF Imported, Return, Importing, ClientOK, TypeOK
  <1>2. /\ cfd' \in [Clients -> Fds \cup {Null}] /\ cbuf' \in [Clients -> Slots \cup {0}]
    BY <1>1, ClientTypes
  <1>3. CASE ctask[p] = Null
    <2> DEFINE x == [by |-> p, fd |-> cfd[p], hdl |-> b]
    <2>1. /\ trans' = trans \cup {x} /\ regions' = regions
          /\ cpc' = [cpc EXCEPT ![p] = "idle"]
      BY <1>3 DEF Imported
    <2>2. x \in Translation /\ x.fd = cfd[p] /\ x.hdl = b /\ x.by = p
      BY <1>1 DEF Translation
    <2>3. x \notin trans
      BY <1>1, <1>3, <2>2, ClientTypes DEF ClientOK
    <2> HIDE DEF x
    <2>4. RegionInv' /\ SameInv'
      BY <2>1, <2>2, AddTrans
    <2>5. \A c : Cardinality(TransOf(trans', c)) = Cardinality(TransOf(trans, c)) + One(c = b)
      <3>1. \A c : Cardinality(TransOf(trans \cup {x}, c)) =
                     Cardinality(TransOf(trans, c)) + One(x.hdl = c)
        BY <1>1, <2>2, <2>3, TransAdd
      <3>2. \A c : One(x.hdl = c) = One(c = b)
        BY <2>2 DEF One
      <3> QED BY <2>1, <3>1, <3>2
    <2>6. \A c : Cardinality(HeldBy(regions', c)) + Cardinality(TransOf(trans', c)) =
                   Cardinality(HeldBy(regions, c)) + Cardinality(TransOf(trans, c)) + One(c = b)
      <3>1. \A c : Cardinality(HeldBy(regions, c)) \in Nat /\ Cardinality(TransOf(trans, c)) \in Nat
                   /\ One(c = b) \in {0, 1}
        BY <1>1, HeldFinite, TransFinite DEF One
      <3> QED BY <2>1, <2>5, <3>1
    <2>7. cpc'[p] = "idle" /\ ByClient(p) /\ trans' \subseteq Translation
      BY <1>1, <2>1, <2>2, ClientTypes DEF ByClient
    <2>8. ClientOK(p)'
      BY <1>3, <2>7 DEF ClientOK, Importing
    <2>9. ClientInv'
      <3>1. \A y \in trans' : y \in trans \/ y.by = p
        BY <2>1, <2>2
      <3> QED BY <1>3, <2>1, <2>7, <2>8, <3>1, Others
    <2> QED BY <1>1, <1>2, <2>1, <2>4, <2>6, <2>7, <2>9, ClientTypes
  <1>4. CASE ctask[p] # Null
    <2> DEFINE r == [fd |-> cfd[p], hdl |-> b, is_dup |-> FALSE]
               t == ctask[p]
    <2>1. /\ regions' = WithRegion(regions, t, r) /\ trans' = trans
          /\ cpc' = [cpc EXCEPT ![p] = "build"]
      BY <1>4 DEF Imported, WithRegion
    <2>2. /\ t \in Tasks /\ task[t] = "alloc" /\ Len(regions[t]) < MaxAttach
      BY <1>1, <1>4, ClientTypes DEF ClientOK, Importing
    <2>3. r \in Region /\ r.fd = cfd[p] /\ r.hdl = b /\ ~r.is_dup
      BY <1>1 DEF Region
    <2> HIDE DEF r, t
    <2>4. /\ regions' \in [Tasks -> Seq(Region)]
          /\ \A u \in Tasks \ {t} : regions'[u] = regions[u]
          /\ RegionInv' /\ SameInv'
          /\ \A c : Cardinality(HeldBy(regions', c)) =
                      Cardinality(HeldBy(regions, c)) + Own(r, c)
      BY <2>1, <2>2, <2>3, AddRegion
    <2>5. \A c : Own(r, c) = One(c = b) /\ One(c = b) \in {0, 1}
      BY <2>3 DEF Own, One
    <2>6. \A c : Cardinality(HeldBy(regions', c)) + Cardinality(TransOf(trans', c)) =
                   Cardinality(HeldBy(regions, c)) + Cardinality(TransOf(trans, c)) + One(c = b)
      <3>1. ASSUME NEW c
            PROVE  Cardinality(HeldBy(regions', c)) + Cardinality(TransOf(trans', c)) =
                     Cardinality(HeldBy(regions, c)) + Cardinality(TransOf(trans, c)) + One(c = b)
        <4>1. Cardinality(HeldBy(regions, c)) \in Nat /\ Cardinality(TransOf(trans, c)) \in Nat
          BY <1>1, HeldFinite, TransFinite
        <4>2. One(c = b) \in {0, 1}
          BY DEF One
        <4>3. Cardinality(HeldBy(regions', c)) = Cardinality(HeldBy(regions, c)) + One(c = b)
          BY <2>4, <2>5
        <4>4. Cardinality(TransOf(trans', c)) = Cardinality(TransOf(trans, c))
          BY <2>1
        <4> QED BY <4>1, <4>2, <4>3, <4>4
      <3> QED BY <3>1
    <2>7. cpc'[p] = "build" /\ ByClient(p)
      BY <1>1, <2>1, ClientTypes DEF ByClient
    <2>8. ClientOK(p)'
      BY <1>4, <2>2, <2>7 DEF ClientOK, Importing, t
    <2>9. ClientInv'
      BY <2>1, <2>4, <2>7, <2>8, Others DEF t
    <2> QED BY <1>1, <1>2, <2>1, <2>4, <2>6, <2>7, <2>9, ClientTypes
  <1> QED BY <1>3, <1>4

LEMMA AttachFdInv ==
    ASSUME Live, NEW p \in Clients, NEW f \in Fds, mpp_task_attach_fd(p, f) PROVE Inv'
  <1> USE DEF poolVars
  <1> DEFINE t == ctask[p]
             known == {i \in DOMAIN regions[t] : regions[t][i].fd = f}
  <1>1. /\ cpc[p] = "build" /\ t \in Tasks /\ t # Null /\ task[t] = "alloc"
        /\ Len(regions[t]) < MaxAttach /\ regions \in [Tasks -> Seq(Region)]
        /\ regions[t] \in Seq(Region)
        /\ UNCHANGED <<session, poolVars, task, trans, ctask, cbuf, crossed>>
    BY ClientTypes DEF mpp_task_attach_fd, ClientOK, TypeOK
  <1>2. CASE known = {}
    <2>1. /\ cpc' = [cpc EXCEPT ![p] = "extra"] /\ cfd' = [cfd EXCEPT ![p] = f]
          /\ regions' = regions
      BY <1>2 DEF mpp_task_attach_fd
    <2>2. cpc'[p] = "extra" /\ cfd'[p] = f /\ ByClient(p)
      BY <1>1, <2>1, ClientTypes DEF ByClient
    <2>3. TypeOK'
      BY <1>1, <2>1, ClientTypes DEF TypeOK
    <2>4. ClientOK(p)'
      BY <1>1, <2>1, <2>2 DEF ClientOK, Importing
    <2> QED BY <1>1, <2>1, <2>2, <2>3, <2>4, ClientTypes, Quiet
  <1>3. CASE known # {}
    <2>1. PICK i \in known :
            regions' = [regions EXCEPT ![t] = Append(@, [regions[t][i] EXCEPT !.is_dup = TRUE])]
      BY <1>3 DEF mpp_task_attach_fd
    <2>2. cpc' = cpc /\ cfd' = cfd
      BY <1>3 DEF mpp_task_attach_fd
    <2> DEFINE q == regions[t][i]
               r == [q EXCEPT !.is_dup = TRUE]
    <2>3. q \in Region /\ i \in DOMAIN regions[t] /\ i \in 1 .. MaxAttach
      BY <1>1, <2>1, DmaAssumption
    <2>4. r \in Region /\ r.hdl = q.hdl /\ r.fd = q.fd /\ r.is_dup
      <3> HIDE DEF q
      <3> QED BY <2>3 DEF Region
    <2>5. \A c : Own(r, c) = 0
      <3> HIDE DEF r
      <3> QED BY <2>4, OwnValue
    <2>6. regions' = WithRegion(regions, t, r)
      BY <2>1 DEF WithRegion
    <2>7. \E j \in DOMAIN regions[t] : ~regions[t][j].is_dup /\ regions[t][j].hdl = r.hdl
      <3>1. CASE q.is_dup
        <4>1. \E j \in DOMAIN regions[t] : ~regions[t][j].is_dup /\ regions[t][j].hdl = q.hdl
          BY <1>1, <2>3, <3>1, ClientTypes DEF RegionInv
        <4> HIDE DEF r
        <4> QED BY <2>4, <4>1
      <3>2. CASE ~q.is_dup
        <4> HIDE DEF r
        <4> QED BY <2>3, <2>4, <3>2
      <3> QED BY <3>1, <3>2
    <2>8. DmabufOf[r.fd] \in crossed' \/ dmabuf[r.hdl] = DmabufOf[r.fd]
      <3>1. DmabufOf[q.fd] \in crossed \/ dmabuf[q.hdl] = DmabufOf[q.fd]
        BY <1>1, <2>3, ClientTypes DEF SameInv
      <3> HIDE DEF q, r
      <3> QED BY <1>1, <2>4, <3>1
    <2> HIDE DEF q, r, t
    <2>9. /\ regions' \in [Tasks -> Seq(Region)]
          /\ \A u \in Tasks \ {t} : regions'[u] = regions[u]
          /\ RegionInv' /\ SameInv'
          /\ \A c : Cardinality(HeldBy(regions', c)) =
                      Cardinality(HeldBy(regions, c)) + Own(r, c)
      BY <1>1, <2>4, <2>6, <2>7, <2>8, AddRegion
    <2>10. TypeOK'
      BY <1>1, <2>2, <2>9, ClientTypes DEF TypeOK
    <2>11. PoolConsistent'
      BY <1>1, <2>2, PoolUnchanged DEF Live, Taken
    <2>12. ClientInv'
      <3>1. ClientOK(p)'
        BY <1>1, <2>2, ClientTypes DEF ClientOK, Importing
      <3> QED BY <1>1, <2>2, <2>9, <3>1, Others DEF ByClient, t
    <2>13. OnceInv'
      BY <1>1, <2>2, ClientTypes DEF OnceInv, Looking
    <2>14. RefsInv'
      <3>1. ASSUME NEW b \in Slots
            PROVE  /\ TaskRefs(b)' = TaskRefs(b) /\ TransRefs(b)' = TransRefs(b)
                   /\ LocalRefs(b)' = LocalRefs(b) /\ PoolRef(b)' = PoolRef(b)
        <4>1. Cardinality(HeldBy(regions', b)) = Cardinality(HeldBy(regions, b))
          BY <2>5, <2>9, HeldFinite
        <4>2. PoolRef(b)' = PoolRef(b)
          BY <1>1, <2>2 DEF PoolRef
        <4> QED BY <1>1, <2>2, <2>10, <4>1, <4>2, RefsAreHolders, RefsAreHoldersPrime, ClientTypes
      <3> QED BY <1>1, <2>2, <3>1, ClientTypes DEF RefsInv
    <2> QED BY <2>9, <2>10, <2>11, <2>12, <2>13, <2>14, InvParts
  <1> QED BY <1>2, <1>3

-----------------------------------------------------------------------------
(***************************************************************************)
(* Steps that move a slot or a reference.                                  *)
(***************************************************************************)

\* The reference in the local variable of client p, before and after its step.
Has(p, b) == LocalOne(cpc, cbuf, p, b)

\* The references of slot b are exact after a step of client p that changes the
\* count as it changes the holders.
LEMMA RefsStep ==
    ASSUME Live, TypeOK', NEW p \in Clients, ByClient(p), NEW b \in Slots,
           ref'[b] + PoolRef(b) + Has(p, b)
               + Cardinality(HeldBy(regions, b)) + Cardinality(TransOf(trans, b)) =
           ref[b] + PoolRef(b)' + Has(p, b)'
               + Cardinality(HeldBy(regions', b)) + Cardinality(TransOf(trans', b))
    PROVE  ref'[b] = PoolRef(b)' + TaskRefs(b)' + TransRefs(b)' + LocalRefs(b)'
  <1>1. Cardinality(LocalOf(cpc', cbuf', b)) + Has(p, b) =
           Cardinality(LocalOf(cpc, cbuf, b)) + Has(p, b)'
    <2>1. \A q \in Clients \ {p} : cpc'[q] = cpc[q] /\ cbuf'[q] = cbuf[q]
      BY DEF ByClient
    <2> QED BY <2>1, LocalMove DEF Has
  <1>2. Has(p, b) \in {0, 1} /\ Has(p, b)' \in {0, 1}
    BY DEF Has, LocalOne
  <1>3. ref[b] = PoolRef(b) + TaskRefs(b) + TransRefs(b) + LocalRefs(b)
    BY ClientTypes DEF RefsInv
  <1>4. /\ TaskRefs(b) = Cardinality(HeldBy(regions, b)) /\ TaskRefs(b) \in Nat
        /\ TransRefs(b) = Cardinality(TransOf(trans, b)) /\ TransRefs(b) \in Nat
        /\ LocalRefs(b) = Cardinality(LocalOf(cpc, cbuf, b)) /\ LocalRefs(b) \in Nat
        /\ PoolRef(b) \in {0, 1}
    BY ClientTypes, RefsAreHolders
  <1>5. /\ TaskRefs(b)' = Cardinality(HeldBy(regions', b)) /\ TaskRefs(b)' \in Nat
        /\ TransRefs(b)' = Cardinality(TransOf(trans', b)) /\ TransRefs(b)' \in Nat
        /\ LocalRefs(b)' = Cardinality(LocalOf(cpc', cbuf', b)) /\ LocalRefs(b)' \in Nat
        /\ PoolRef(b)' \in {0, 1}
    BY RefsAreHoldersPrime
  <1>6. ref[b] \in Int /\ ref'[b] \in Int
    <2>1. ref \in [Slots -> Nat \cup {Saturated}] /\ ref' \in [Slots -> Nat \cup {Saturated}]
      BY ClientTypes DEF TypeOK
    <2> QED BY <2>1 DEF Saturated
  <1> QED BY <1>1, <1>2, <1>3, <1>4, <1>5, <1>6

\* A slot without references has no holder.
LEMMA NoHolder ==
    ASSUME Live, NEW b \in Slots, ref[b] = 0
    PROVE  /\ PoolRef(b) = 0
           /\ Cardinality(HeldBy(regions, b)) = 0 /\ Cardinality(TransOf(trans, b)) = 0
           /\ Cardinality(LocalOf(cpc, cbuf, b)) = 0
           /\ \A t \in Tasks : task[t] \in {"alloc", "live"} =>
                 \A i \in DOMAIN regions[t] : regions[t][i].hdl # b
           /\ \A x \in trans : x.hdl # b
  <1>1. TypeOK /\ RefsInv /\ RegionInv
    BY DEF Live, Inv
  <1>2. ref[b] = PoolRef(b) + TaskRefs(b) + TransRefs(b) + LocalRefs(b)
    BY <1>1 DEF RefsInv
  <1>3. /\ PoolRef(b) = 0
        /\ Cardinality(HeldBy(regions, b)) = 0 /\ Cardinality(TransOf(trans, b)) = 0
        /\ Cardinality(LocalOf(cpc, cbuf, b)) = 0
    BY <1>1, <1>2, RefsAreHolders
  <1>4. ASSUME NEW t \in Tasks, task[t] \in {"alloc", "live"},
               NEW i \in DOMAIN regions[t], regions[t][i].hdl = b
        PROVE  FALSE
    <2>1. PICK j \in DOMAIN regions[t] : ~regions[t][j].is_dup /\ regions[t][j].hdl = b
      BY <1>1, <1>4 DEF RegionInv
    <2>2. j \in 1 .. MaxAttach
      BY <1>1, DmaAssumption DEF TypeOK, RegionInv
    <2>3. Cardinality(HeldBy(regions, regions[t][j].hdl)) > 0
      BY <2>1, <2>2, HeldPositive
    <2> QED BY <1>3, <2>1, <2>3
  <1>5. ASSUME NEW x \in trans, x.hdl = b PROVE FALSE
    <2>1. Cardinality(TransOf(trans, x.hdl)) > 0
      BY <1>1, TransPositive DEF TypeOK
    <2> QED BY <1>3, <1>5, <2>1
  <1> QED BY <1>3, <1>4, <1>5

\* The same for the state after a step.
LEMMA NoHolderPrime ==
    ASSUME TypeOK', RegionInv', NEW b \in Slots, ref'[b] = 0,
           ref'[b] = PoolRef(b)' + TaskRefs(b)' + TransRefs(b)' + LocalRefs(b)'
    PROVE  /\ \A t \in Tasks : task'[t] \in {"alloc", "live"} =>
                 \A i \in DOMAIN regions'[t] : regions'[t][i].hdl # b
           /\ \A x \in trans' : x.hdl # b
  <1>1. Cardinality(HeldBy(regions', b)) = 0 /\ Cardinality(TransOf(trans', b)) = 0
    BY RefsAreHoldersPrime
  <1>2. ASSUME NEW t \in Tasks, task'[t] \in {"alloc", "live"},
               NEW i \in DOMAIN regions'[t], regions'[t][i].hdl = b
        PROVE  FALSE
    <2>1. PICK j \in DOMAIN regions'[t] : ~regions'[t][j].is_dup /\ regions'[t][j].hdl = b
      BY <1>2 DEF RegionInv
    <2>2. j \in 1 .. MaxAttach
      BY DmaAssumption DEF TypeOK, RegionInv
    <2>3. Cardinality(HeldBy(regions', regions'[t][j].hdl)) > 0
      BY <2>1, <2>2, HeldPositive
    <2> QED BY <1>1, <2>1, <2>3
  <1>3. ASSUME NEW x \in trans', x.hdl = b PROVE FALSE
    <2>1. Cardinality(TransOf(trans', x.hdl)) > 0
      BY TransPositive DEF TypeOK
    <2> QED BY <1>1, <1>3, <2>1
  <1> QED BY <1>2, <1>3

\* A step of client p that keeps the slots, and moves one at most from one place
\* to another.
LEMMA PoolStep ==
    ASSUME PoolConsistent, session = "live", NEW p \in Clients, ByClient(p),
           NoDup(unused'), NoDup(used'), Elems(used') \cap Elems(unused') = {},
           Taken(p)' \cap (Elems(used') \cup Elems(unused')) = {},
           Elems(used') \cup Elems(unused') \cup Taken(p)' =
               Elems(used) \cup Elems(unused) \cup Taken(p),
           count' = Cardinality(Elems(used')),
           \A b \in Elems(unused') : ref'[b] \in {0, Saturated}
    PROVE  PoolConsistent'
  <1>1. \A q \in Clients \ {p} : Taken(q)' = Taken(q)
    BY DEF ByClient, Taken
  <1>2. \A q \in Clients \ {p} :
           Taken(q) \cap (Elems(used) \cup Elems(unused) \cup Taken(p)) = {}
    BY DEF PoolConsistent
  <1>3. \A q \in Clients : Taken(q)' \cap (Elems(used') \cup Elems(unused')) = {}
    BY <1>1, <1>2
  <1>4. \A q, r \in Clients : q # r => Taken(q)' \cap Taken(r)' = {}
    <2>1. ASSUME NEW q \in Clients, NEW r \in Clients, q # r PROVE Taken(q)' \cap Taken(r)' = {}
      <3>1. CASE q # p /\ r # p
        BY <1>1, <2>1, <3>1 DEF PoolConsistent
      <3>2. CASE q = p
        BY <1>1, <1>2, <2>1, <3>2
      <3>3. CASE r = p
        BY <1>1, <1>2, <2>1, <3>3
      <3> QED BY <3>1, <3>2, <3>3
    <2> QED BY <2>1
  <1>5. \A x : x \in UNION {Taken(q)' : q \in Clients} <=> \E q \in Clients : x \in Taken(q)'
    BY Zenon
  <1>6. \A x : x \in UNION {Taken(q) : q \in Clients} <=> \E q \in Clients : x \in Taken(q)
    BY Zenon
  <1>7. Elems(used') \cup Elems(unused') \cup UNION {Taken(q)' : q \in Clients} = Slots
    <2> DEFINE U == UNION {Taken(q) : q \in Clients}
               V == UNION {Taken(q)' : q \in Clients}
    <2>1. Elems(used) \cup Elems(unused) \cup U = Slots
      BY DEF PoolConsistent
    <2>2. \A x : (x \in U) <=> x \in Taken(p) \/ \E q \in Clients \ {p} : x \in Taken(q)
      <3> HIDE DEF U
      <3>1. \A x : x \in U <=> \E q \in Clients : x \in Taken(q)
        BY <1>6 DEF U
      <3> QED BY <3>1
    <2>3. \A x : (x \in V) <=> x \in Taken(p)' \/ \E q \in Clients \ {p} : x \in Taken(q)
      <3> HIDE DEF V
      <3>1. \A x : x \in V <=> \E q \in Clients : x \in Taken(q)'
        BY <1>5 DEF V
      <3> QED BY <1>1, <3>1
    <2> HIDE DEF U, V
    <2>4. Elems(used') \cup Elems(unused') \cup V = Slots
      BY <2>1, <2>2, <2>3
    <2> QED BY <2>4 DEF V
  <1> QED BY <1>3, <1>4, <1>7 DEF PoolConsistent

\* A put in a consistent pool keeps it consistent, whoever puts.
LEMMA PutPool ==
    ASSUME Live, NEW b \in Slots, mpp_dma_release_buffer(b), session' = session,
           \A q \in Clients : Taken(q)' = Taken(q), ref[b] = 1 => b \in Elems(used)
    PROVE  /\ unused' \in Seq(Slots) /\ used' \in Seq(Slots) /\ aged' \in Seq(Slots)
           /\ dmabuf' \in [Slots -> Dmabufs \cup {Null}]
           /\ ref' \in [Slots -> Nat \cup {Saturated}] /\ count' \in 0 .. NSlots
           /\ Elems(used') = IF ref[b] = 1 THEN Elems(used) \ {b} ELSE Elems(used)
           /\ \A c \in Slots : c # b \/ ref[b] # 1 => dmabuf'[c] = dmabuf[c]
           /\ PoolConsistent'
  <1>0. /\ TypeOK /\ PoolConsistent /\ session = "live"
    BY DEF Live, Inv
  <1>1. CASE ref[b] = 1
    <2>1. /\ ref' = [ref EXCEPT ![b] = 0] /\ count' = count - 1
          /\ used' = ListDel(used, b) /\ unused' = Append(unused, b)
          /\ aged' = ListDel(aged, b) /\ dmabuf' = [dmabuf EXCEPT ![b] = Null]
      BY <1>1 DEF mpp_dma_release_buffer
    <2>2. /\ NoDup(unused) /\ NoDup(used) /\ used \in Seq(Slots) /\ unused \in Seq(Slots)
          /\ b \in Elems(used) /\ b \notin Elems(unused)
          /\ ref \in [Slots -> Nat \cup {Saturated}]
          /\ aged \in Seq(Slots) /\ dmabuf \in [Slots -> Dmabufs \cup {Null}]
      BY <1>0, <1>1 DEF TypeOK, PoolConsistent
    <2>3. /\ used' \in Seq(Slots) /\ NoDup(used')
          /\ Elems(used') = Elems(used) \ {b}
      BY <2>1, <2>2, ElemsListDel
    <2>4. /\ unused' \in Seq(Slots) /\ NoDup(unused')
          /\ Elems(unused') = Elems(unused) \cup {b}
      BY <2>1, <2>2, ElemsAppend
    <2>5. Elems(used) \subseteq Slots
      BY <2>2, ElemsType
    <2>6. Cardinality(Elems(used)) = Cardinality(Elems(used')) + 1
      <3>1. IsFiniteSet(Elems(used')) /\ Cardinality(Elems(used')) \in 0 .. NSlots
        BY <2>3, <2>5, SlotsFinite
      <3>2. Elems(used) = Elems(used') \cup {b} /\ b \notin Elems(used')
        BY <2>2, <2>3
      <3> QED BY <3>1, <3>2, FS_AddElement
    <2>7. count' = Cardinality(Elems(used')) /\ count' \in 0 .. NSlots
      <3>1. Cardinality(Elems(used')) \in 0 .. NSlots
        BY <2>3, <2>5, SlotsFinite
      <3>2. count = Cardinality(Elems(used))
        BY <1>0 DEF PoolConsistent
      <3> QED BY <2>1, <2>6, <3>1, <3>2, DmaAssumption
    <2>8. /\ ref' \in [Slots -> Nat \cup {Saturated}]
          /\ dmabuf' \in [Slots -> Dmabufs \cup {Null}] /\ aged' \in Seq(Slots)
      BY <2>1, <2>2, ListDelType
    <2>9. PoolConsistent'
      <3>1. /\ Elems(used') \cap Elems(unused') = {}
            /\ Elems(used') \cup Elems(unused') = Elems(used) \cup Elems(unused)
        BY <1>0, <2>2, <2>3, <2>4 DEF PoolConsistent
      <3>2. \A c \in Elems(unused') : ref'[c] \in {0, Saturated}
        BY <1>0, <2>1, <2>2, <2>4, ElemsType DEF PoolConsistent
      <3>3. /\ \A q \in Clients : Taken(q)' \cap (Elems(used') \cup Elems(unused')) = {}
            /\ \A q, r \in Clients : q # r => Taken(q)' \cap Taken(r)' = {}
        BY <1>0, <3>1 DEF PoolConsistent
      <3>4. UNION {Taken(q)' : q \in Clients} = UNION {Taken(q) : q \in Clients}
        OBVIOUS
      <3>5. Elems(used') \cup Elems(unused') \cup UNION {Taken(q)' : q \in Clients} = Slots
        BY <1>0, <3>1, <3>4, Zenon DEF PoolConsistent
      <3> QED BY <2>3, <2>4, <2>7, <3>1, <3>2, <3>3, <3>5 DEF PoolConsistent
    <2>10. \A c \in Slots : c # b => dmabuf'[c] = dmabuf[c]
      BY <2>1, <2>2
    <2> QED BY <1>1, <2>3, <2>4, <2>7, <2>8, <2>9, <2>10
  <1>2. CASE ref[b] # 1
    <2>1. /\ ref' = [ref EXCEPT ![b] = IF @ > 1 THEN @ - 1 ELSE Saturated]
          /\ unused' = unused /\ used' = used /\ count' = count /\ dmabuf' = dmabuf
          /\ aged' = aged
      BY <1>2 DEF mpp_dma_release_buffer
    <2>2. ref \in [Slots -> Nat \cup {Saturated}] /\ Elems(unused) \subseteq Slots
      BY <1>0, ElemsType DEF TypeOK
    <2>3. ref' \in [Slots -> Nat \cup {Saturated}]
      BY <2>1, <2>2 DEF Saturated
    <2>4. \A c \in Slots : ref[c] \in {0, Saturated} => ref'[c] \in {0, Saturated}
      BY <2>1, <2>2 DEF Saturated
    <2>5. UNION {Taken(q)' : q \in Clients} = UNION {Taken(q) : q \in Clients}
      OBVIOUS
    <2>6. PoolConsistent'
      BY <1>0, <2>1, <2>2, <2>4, <2>5 DEF PoolConsistent
    <2> QED BY <1>0, <1>2, <2>1, <2>3, <2>6 DEF TypeOK
  <1> QED BY <1>1, <1>2

-----------------------------------------------------------------------------
(***************************************************************************)
(* The steps of an import that move a slot or a reference.                 *)
(***************************************************************************)

\* The pool's own reference on a slot that client p does not publish or map.
LEMMA PoolRefBy ==
    ASSUME NEW p \in Clients, ByClient(p), NEW c,
           (\/ c \in Elems(used) \ evicted
            \/ cpc[p] \in {"kref", "insert"} /\ cbuf[p] = c) <=>
           (\/ c \in Elems(used') \ evicted'
            \/ cpc'[p] \in {"kref", "insert"} /\ cbuf'[p] = c)
    PROVE  PoolRef(c)' = PoolRef(c)
  <1>1. (\E q \in Clients : cpc[q] \in {"kref", "insert"} /\ cbuf[q] = c) <=>
           \/ cpc[p] \in {"kref", "insert"} /\ cbuf[p] = c
           \/ \E q \in Clients \ {p} : cpc[q] \in {"kref", "insert"} /\ cbuf[q] = c
    OBVIOUS
  <1>2. (\E q \in Clients : cpc'[q] \in {"kref", "insert"} /\ cbuf'[q] = c) <=>
           \/ cpc'[p] \in {"kref", "insert"} /\ cbuf'[p] = c
           \/ \E q \in Clients \ {p} : cpc'[q] \in {"kref", "insert"} /\ cbuf'[q] = c
    OBVIOUS
  <1>3. (\E q \in Clients \ {p} : cpc'[q] \in {"kref", "insert"} /\ cbuf'[q] = c) <=>
           (\E q \in Clients \ {p} : cpc[q] \in {"kref", "insert"} /\ cbuf[q] = c)
    BY DEF ByClient
  <1> QED BY <1>1, <1>2, <1>3, Zenon DEF PoolRef

\* In a state that is not astray the counts are natural numbers.
LEMMA RefNat ==
    ASSUME Live, NEW b \in Slots
    PROVE  /\ ref[b] \in Nat /\ PoolRef(b) \in {0, 1}
           /\ Cardinality(HeldBy(regions, b)) \in Nat
           /\ Cardinality(TransOf(trans, b)) \in Nat
           /\ ref[b] = PoolRef(b) + Cardinality(HeldBy(regions, b))
                         + Cardinality(TransOf(trans, b)) + Cardinality(LocalOf(cpc, cbuf, b))
           /\ Cardinality(LocalOf(cpc, cbuf, b)) \in Nat
  <1>1. TypeOK /\ RefsInv
    BY DEF Live, Inv
  <1>2. ref[b] = PoolRef(b) + TaskRefs(b) + TransRefs(b) + LocalRefs(b)
    BY <1>1 DEF RefsInv
  <1>3. /\ TaskRefs(b) = Cardinality(HeldBy(regions, b)) /\ TaskRefs(b) \in Nat
        /\ TransRefs(b) = Cardinality(TransOf(trans, b)) /\ TransRefs(b) \in Nat
        /\ LocalRefs(b) = Cardinality(LocalOf(cpc, cbuf, b)) /\ LocalRefs(b) \in Nat
        /\ PoolRef(b) \in {0, 1}
    BY <1>1, RefsAreHolders
  <1> QED BY <1>2, <1>3

LEMMA TakeUnusedInv == ASSUME Live, NEW p \in Clients, TakeUnused(p) PROVE Inv'
  <1> USE DEF poolVars
  <1>1. /\ cpc[p] = "take" /\ Importing(p) /\ cfd[p] \in Fds
        /\ UNCHANGED <<session, used, dmabuf, ref, count, evicted, astray, regions, trans,
                       ctask, crossed>>
    BY ClientTypes DEF TakeUnused, Importing, ClientOK
  <1>2. CASE unused = <<>>
    BY <1>1, <1>2, FailsQuietly DEF TakeUnused
  <1>3. CASE unused # <<>>
    <2> DEFINE h == Head(unused)
    <2>1. /\ cbuf' = [cbuf EXCEPT ![p] = h] /\ unused' = Tail(unused)
          /\ aged' = Append(aged, h) /\ cpc' = [cpc EXCEPT ![p] = "map"]
          /\ task' = task /\ cfd' = cfd
      BY <1>3 DEF TakeUnused
    <2>2. unused \in Seq(Slots) /\ NoDup(unused) /\ aged \in Seq(Slots)
      BY ClientTypes DEF TypeOK, PoolConsistent
    <2>3. /\ h \in Elems(unused) /\ h \in Slots /\ unused' \in Seq(Slots)
          /\ Elems(unused') = Elems(unused) \ {h} /\ NoDup(unused')
      BY <1>3, <2>1, <2>2, ElemsType, ElemsTail
    <2> HIDE DEF h
    <2>4. cpc'[p] = "map" /\ cbuf'[p] = h /\ ByClient(p)
      BY <1>1, <2>1, <2>3, ClientTypes DEF ByClient
    <2>5. TypeOK'
      <3>1. aged' \in Seq(Slots)
        BY <2>1, <2>2, <2>3, ElemsAppend
      <3>2. /\ cpc' \in [Clients -> {"idle", "build", "extra", "evict", "find", "get", "closed",
                         "take", "map", "kref", "insert", "fail", "release", "reset"}]
            /\ cbuf' \in [Clients -> Slots \cup {0}]
        BY <2>1, <2>3, ClientTypes
      <3> QED BY <1>1, <2>1, <2>3, <3>1, <3>2, ClientTypes DEF TypeOK
    <2>6. PoolConsistent'
      <3>0. PoolConsistent /\ session = "live"
        BY ClientTypes
      <3>1. Taken(p) = {} /\ Taken(p)' = {h}
        BY <1>1, <2>4 DEF Taken
      <3>2. h \notin Elems(used) /\ used' = used
        BY <1>1, <2>3, <3>0 DEF PoolConsistent
      <3>3. /\ Elems(used') \cap Elems(unused') = {}
            /\ Taken(p)' \cap (Elems(used') \cup Elems(unused')) = {}
            /\ Elems(used') \cup Elems(unused') \cup Taken(p)' =
                 Elems(used) \cup Elems(unused) \cup Taken(p)
        BY <2>3, <3>0, <3>1, <3>2 DEF PoolConsistent
      <3>4. /\ NoDup(used') /\ count' = Cardinality(Elems(used'))
            /\ \A b \in Elems(unused') : ref'[b] \in {0, Saturated}
        BY <1>1, <2>3, <3>0, <3>2 DEF PoolConsistent
      <3> QED BY <2>3, <2>4, <3>0, <3>3, <3>4, PoolStep
    <2>7. ClientInv'
      <3>1. ClientOK(p)'
        BY <1>1, <2>1, <2>3, <2>4, ClientTypes DEF ClientOK, Importing
      <3> QED BY <1>1, <2>1, <2>4, <3>1, Others
    <2>8. RegionInv' /\ SameInv'
      BY <1>1, <2>1, RegionFrame
    <2>9. OnceInv'
      <3>1. \A q \in Clients : Looking(q)' => Looking(q)
        BY <1>1, <2>4 DEF Looking, ByClient
      <3>2. ASSUME NEW q \in Clients, cpc'[q] \in {"kref", "insert"}
            PROVE  cpc[q] \in {"kref", "insert"} /\ cbuf'[q] = cbuf[q]
        BY <2>4, <3>2 DEF ByClient
      <3> QED BY <1>1, <2>1, <3>1, <3>2, OnceFrame
    <2>10. RefsInv'
      <3>1. ASSUME NEW b \in Slots
            PROVE  ref'[b] = PoolRef(b)' + TaskRefs(b)' + TransRefs(b)' + LocalRefs(b)'
        <4>1. PoolRef(b)' = PoolRef(b)
          BY <1>1, <2>4, PoolRefBy
        <4>2. Has(p, b) = 0 /\ Has(p, b)' = 0
          BY <1>1, <2>4 DEF Has, LocalOne, One
        <4> QED BY <1>1, <2>4, <2>5, <4>1, <4>2, RefsStep
      <3>2. ref[h] = 0
        <4>1. ref[h] \in {0, Saturated}
          BY <2>3, ClientTypes DEF PoolConsistent
        <4>2. ref[h] \in Nat
          BY <2>3, RefNat
        <4> QED BY <4>1, <4>2 DEF Saturated
      <3>3. \A q \in Clients : cpc'[q] = "map" => ref'[cbuf'[q]] = 0
        BY <1>1, <2>4, <3>2, ClientTypes DEF RefsInv, ByClient
      <3> QED BY <1>1, <3>1, <3>3, ClientTypes DEF RefsInv
    <2> QED BY <2>5, <2>6, <2>7, <2>8, <2>9, <2>10, InvParts
  <1> QED BY <1>2, <1>3

LEMMA MapFailsInv == ASSUME Live, NEW p \in Clients, MapFails(p) PROVE Inv'
  <1> DEFINE h == cbuf[p]
  <1>1. /\ cpc[p] = "map" /\ Importing(p) /\ h \in Slots
        /\ unused' = Append(unused, h) /\ aged' = ListDel(aged, h)
        /\ ImportFailed(p)
        /\ UNCHANGED <<session, used, dmabuf, ref, count, evicted, astray, regions, trans,
                       ctask, crossed>>
    BY ClientTypes DEF MapFails, Importing, ClientOK
  <1>2. /\ task' \in [Tasks -> {"none", "alloc", "live", "final", "freed"}]
        /\ cpc' \in [Clients -> {"idle", "build", "extra", "evict", "find", "get", "closed",
                         "take", "map", "kref", "insert", "fail", "release", "reset"}]
        /\ cfd' \in [Clients -> Fds \cup {Null}] /\ cbuf' \in [Clients -> Slots \cup {0}]
        /\ cpc'[p] \in {"idle", "fail"} /\ ByClient(p) /\ ClientOK(p)'
        /\ \A t \in Tasks : task'[t] # task[t] =>
               t = ctask[p] /\ task[t] = "alloc" /\ task'[t] = "final"
    BY <1>1, ImportFailedType
  <1>3. /\ unused \in Seq(Slots) /\ NoDup(unused) /\ aged \in Seq(Slots)
        /\ h \notin Elems(unused) /\ h \notin Elems(used) /\ ref[h] = 0
    BY <1>1, ClientTypes DEF TypeOK, PoolConsistent, Taken, RefsInv
  <1>4. /\ unused' \in Seq(Slots) /\ NoDup(unused') /\ aged' \in Seq(Slots)
        /\ Elems(unused') = Elems(unused) \cup {h}
    BY <1>1, <1>3, ElemsAppend, ListDelType
  <1>5. TypeOK'
    BY <1>1, <1>2, <1>4, ClientTypes DEF TypeOK
  <1>6. PoolConsistent'
    <2>1. Taken(p) = {h} /\ Taken(p)' = {}
      BY <1>1, <1>2 DEF Taken
    <2>2. \A b \in Elems(unused') : ref'[b] \in {0, Saturated}
      BY <1>1, <1>3, <1>4, ClientTypes DEF PoolConsistent
    <2>3. Elems(used') \cap Elems(unused') = {}
      BY <1>1, <1>3, <1>4, ClientTypes DEF PoolConsistent
    <2>4. /\ NoDup(used') /\ count' = Cardinality(Elems(used'))
          /\ Elems(used') \cup Elems(unused') \cup Taken(p)' =
               Elems(used) \cup Elems(unused) \cup Taken(p)
      BY <1>1, <1>4, <2>1, ClientTypes DEF PoolConsistent
    <2> QED BY <1>2, <1>4, <2>1, <2>2, <2>3, <2>4, ClientTypes, PoolStep
  <1>7. ClientInv'
    BY <1>1, <1>2, Others
  <1>8. RegionInv' /\ SameInv'
    BY <1>1, <1>2, RegionFrame
  <1>9. OnceInv'
    <2>1. \A q \in Clients : Looking(q)' => Looking(q) /\ cfd'[q] = cfd[q]
      BY <1>2 DEF Looking, ByClient
    <2>2. ASSUME NEW q \in Clients, cpc'[q] \in {"kref", "insert"}
          PROVE  cpc[q] \in {"kref", "insert"} /\ cbuf'[q] = cbuf[q] /\ cfd'[q] = cfd[q]
      BY <1>2, <2>2 DEF ByClient
    <2> QED BY <1>1, <2>1, <2>2, OnceFrame
  <1>10. RefsInv'
    <2>1. ASSUME NEW b \in Slots
          PROVE  ref'[b] = PoolRef(b)' + TaskRefs(b)' + TransRefs(b)' + LocalRefs(b)'
      <3>1. PoolRef(b)' = PoolRef(b)
        BY <1>1, <1>2, PoolRefBy
      <3>2. Has(p, b) = 0 /\ Has(p, b)' = 0
        BY <1>1, <1>2 DEF Has, LocalOne, One
      <3> QED BY <1>1, <1>2, <1>5, <3>1, <3>2, RefsStep
    <2>2. ASSUME NEW q \in Clients, cpc'[q] = "map" PROVE ref'[cbuf'[q]] = 0
      <3>1. cpc[q] = "map" /\ cbuf'[q] = cbuf[q]
        BY <1>2, <2>2 DEF ByClient
      <3>2. ref[cbuf[q]] = 0
        BY <3>1, ClientTypes DEF RefsInv
      <3> QED BY <1>1, <3>1, <3>2
    <2> QED BY <1>1, <2>1, <2>2, ClientTypes DEF RefsInv
  <1> QED BY <1>5, <1>6, <1>7, <1>8, <1>9, <1>10, InvParts

LEMMA KrefInitInv == ASSUME Live, NEW p \in Clients, kref_init(p) PROVE Inv'
  <1> USE DEF taskVars
  <1> DEFINE h == cbuf[p]  d == DmabufOf[cfd[p]]
  <1>1. /\ cpc[p] = "map" /\ Importing(p) /\ h \in Slots /\ cfd[p] \in Fds
        /\ dmabuf' = [dmabuf EXCEPT ![h] = d] /\ ref' = [ref EXCEPT ![h] = 1]
        /\ cpc' = [cpc EXCEPT ![p] = "kref"]
        /\ UNCHANGED <<session, unused, used, aged, count, evicted, astray, taskVars, trans,
                       ctask, cfd, cbuf, crossed>>
    BY ClientTypes DEF kref_init, Importing, ClientOK
  <1>2. /\ d \in Dmabufs /\ ref[h] = 0 /\ h \notin Elems(used) /\ h \notin Elems(unused)
        /\ \A q \in Clients \ {p} : cpc[q] \in {"map", "kref", "insert"} => cbuf[q] # h
    <2>1. d \in Dmabufs
      BY <1>1, DmaAssumption
    <2> HIDE DEF d
    <2>2. Taken(p) = {h}
      BY <1>1 DEF Taken
    <2>3. \A q \in Clients \ {p} : cpc[q] \in {"map", "kref", "insert"} => Taken(q) = {cbuf[q]}
      BY DEF Taken
    <2>4. PoolConsistent /\ session = "live" /\ ref[h] = 0
      BY <1>1, ClientTypes DEF RefsInv
    <2>5. ASSUME NEW q \in Clients \ {p}, cpc[q] \in {"map", "kref", "insert"}
          PROVE  cbuf[q] # h
      BY <2>2, <2>3, <2>4, <2>5 DEF PoolConsistent
    <2> QED BY <2>1, <2>2, <2>4, <2>5 DEF PoolConsistent
  <1>3. /\ cpc'[p] = "kref" /\ ByClient(p) /\ ref'[h] = 1 /\ dmabuf'[h] = d
        /\ \A c \in Slots : c # h => ref'[c] = ref[c] /\ dmabuf'[c] = dmabuf[c]
    BY <1>1, ClientTypes DEF ByClient, TypeOK
  <1> HIDE DEF h, d
  <1>4. TypeOK'
    <2>1. ref' \in [Slots -> Nat \cup {Saturated}] /\ dmabuf' \in [Slots -> Dmabufs \cup {Null}]
      BY <1>1, <1>2, ClientTypes DEF TypeOK
    <2> QED BY <1>1, <2>1, ClientTypes DEF TypeOK
  <1>5. PoolConsistent'
    <2>1. Taken(p) = {h} /\ Taken(p)' = {h}
      BY <1>1, <1>3 DEF Taken, h
    <2>2. \A b \in Elems(unused') : ref'[b] \in {0, Saturated}
      BY <1>1, <1>2, <1>3, ClientTypes DEF PoolConsistent
    <2> QED BY <1>1, <1>2, <1>3, <2>1, <2>2, ClientTypes, PoolStep DEF PoolConsistent
  <1>6. ClientInv'
    <2>1. ClientOK(p)'
      BY <1>1, <1>3, ClientTypes DEF ClientOK, Importing, h
    <2> QED BY <1>1, <1>3, <2>1, Others
  <1>7. RegionInv' /\ SameInv'
    <2>1. RegionInv'
      <3>1. RegionInv /\ task' = task /\ regions' = regions
        BY <1>1, ClientTypes
      <3> QED BY <3>1 DEF RegionInv
    <2>2. ASSUME NEW t \in Tasks, NEW i \in DOMAIN regions[t], task[t] \in {"alloc", "live"}
          PROVE  \/ DmabufOf[regions[t][i].fd] \in crossed
                 \/ dmabuf'[regions[t][i].hdl] = DmabufOf[regions[t][i].fd]
      <3>1. regions[t][i].hdl # h
        BY <1>1, <1>2, <2>2, NoHolder
      <3>2. regions[t][i].hdl \in Slots
        <4>1. regions[t] \in Seq(Region)
          BY ClientTypes DEF TypeOK
        <4>2. regions[t][i] \in Region
          BY <4>1
        <4> QED BY <4>2 DEF Region
      <3> QED BY <1>3, <2>2, <3>1, <3>2, ClientTypes DEF SameInv
    <2>3. ASSUME NEW x \in trans
          PROVE  DmabufOf[x.fd] \in crossed \/ dmabuf'[x.hdl] = DmabufOf[x.fd]
      <3>1. x.hdl # h /\ x.hdl \in Slots
        BY <1>1, <1>2, NoHolder, ClientTypes DEF TypeOK, Translation
      <3> QED BY <1>3, <3>1, ClientTypes DEF SameInv
    <2> QED BY <1>1, <2>1, <2>2, <2>3 DEF SameInv
  <1>8. OnceInv'
    <2>1. \A q \in Clients : Looking(q)' <=> Looking(q)
      BY <1>1, <1>3 DEF Looking, ByClient
    <2>2. \A b \in Elems(used) : dmabuf'[b] = dmabuf[b]
      BY <1>2, <1>3, ClientTypes
    <2>3. ASSUME NEW q \in Clients, cpc'[q] \in {"kref", "insert"}
          PROVE  dmabuf'[cbuf[q]] = DmabufOf[cfd[q]]
      <3>1. CASE q = p
        BY <1>3, <3>1 DEF h, d
      <3>2. CASE q # p
        <4>1. cpc[q] \in {"kref", "insert"}
          BY <1>3, <2>3, <3>2 DEF ByClient
        <4>2. cbuf[q] \in Slots /\ cbuf[q] # h
          BY <1>2, <3>2, <4>1, ClientTypes DEF ClientOK
        <4> QED BY <1>3, <4>1, <4>2, ClientTypes DEF OnceInv
      <3> QED BY <3>1, <3>2
    <2>4. OnceInv /\ used' = used /\ crossed' = crossed /\ cfd' = cfd /\ cbuf' = cbuf
      BY <1>1, ClientTypes
    <2>5. \A b, c \in Elems(used) : dmabuf'[b] = dmabuf'[c] /\ dmabuf'[b] \notin crossed => b = c
      BY <2>2, <2>4 DEF OnceInv
    <2>6. ASSUME NEW q \in Clients, Looking(q)', DmabufOf[cfd[q]] \notin crossed
          PROVE  /\ \A b \in Elems(used) : dmabuf'[b] # DmabufOf[cfd[q]]
                 /\ \A r \in Clients \ {q} : Looking(r)' => DmabufOf[cfd[r]] # DmabufOf[cfd[q]]
      BY <2>1, <2>2, <2>4, <2>6 DEF OnceInv
    <2> QED BY <2>3, <2>4, <2>5, <2>6 DEF OnceInv
  <1>9. RefsInv'
    <2>1. ASSUME NEW b \in Slots
          PROVE  ref'[b] = PoolRef(b)' + TaskRefs(b)' + TransRefs(b)' + LocalRefs(b)'
      <3>1. Has(p, b) = 0 /\ Has(p, b)' = 0
        BY <1>1, <1>3 DEF Has, LocalOne, One
      <3>2. CASE b # h
        <4>1. PoolRef(b)' = PoolRef(b)
          BY <1>1, <1>3, <3>2, PoolRefBy DEF h
        <4> QED BY <1>1, <1>3, <1>4, <3>1, <3>2, <4>1, RefsStep
      <3>3. CASE b = h
        <4>1. PoolRef(b) = 0
          BY <1>1, <1>2, <3>3, NoHolder
        <4>2. PoolRef(b)' = 1
          BY <1>1, <1>3, <3>3 DEF PoolRef, h
        <4> QED BY <1>1, <1>2, <1>3, <1>4, <3>1, <3>3, <4>1, <4>2, RefsStep, RefNat
      <3> QED BY <3>2, <3>3
    <2>2. \A q \in Clients : cpc'[q] = "map" => ref'[cbuf'[q]] = 0
      <3>1. ASSUME NEW q \in Clients, cpc'[q] = "map" PROVE ref'[cbuf'[q]] = 0
        <4>1. q # p /\ cpc[q] = "map"
          BY <1>3, <3>1 DEF ByClient
        <4>2. cbuf[q] \in Slots /\ cbuf[q] # h
          BY <1>2, <4>1, ClientTypes DEF ClientOK
        <4> QED BY <1>1, <1>3, <4>1, <4>2, ClientTypes DEF RefsInv
      <3> QED BY <3>1
    <2> QED BY <1>1, <2>1, <2>2, ClientTypes DEF RefsInv
  <1> QED BY <1>4, <1>5, <1>6, <1>7, <1>8, <1>9, InvParts

LEMMA KrefRefInv == ASSUME Live, NEW p \in Clients, kref_get(p) PROVE Inv'
  <1> USE DEF taskVars
  <1> DEFINE h == cbuf[p]
  <1>1. /\ cpc[p] = "kref" /\ Importing(p) /\ h \in Slots /\ cfd[p] \in Fds
        /\ ref' = [ref EXCEPT ![h] = IF @ > 0 THEN @ + 1 ELSE Saturated]
        /\ cpc' = [cpc EXCEPT ![p] = "insert"]
        /\ UNCHANGED <<session, unused, used, aged, dmabuf, count, evicted, astray, taskVars,
                       trans, ctask, cfd, cbuf, crossed>>
    BY ClientTypes DEF kref_get, Importing, ClientOK
  <1>2. /\ cpc'[p] = "insert" /\ ByClient(p)
    BY <1>1, ClientTypes DEF ByClient
  <1>3. /\ ref[h] > 0 /\ ref'[h] = ref[h] + 1 /\ \A c \in Slots : c # h => ref'[c] = ref[c]
        /\ ref' \in [Slots -> Nat \cup {Saturated}]
    <2>1. PoolRef(h) = 1
      BY <1>1 DEF PoolRef
    <2>2. ref[h] > 0 /\ ref[h] \in Nat
      BY <1>1, <2>1, RefNat
    <2>3. ref \in [Slots -> Nat \cup {Saturated}]
      BY ClientTypes DEF TypeOK
    <2> HIDE DEF h
    <2> QED BY <1>1, <2>2, <2>3
  <1>4. h \notin Elems(unused) /\ Taken(p) = {h} /\ Taken(p)' = {h} /\ h \notin Elems(used)
    BY <1>1, <1>2, ClientTypes DEF PoolConsistent, Taken
  <1> HIDE DEF h
  <1>5. TypeOK'
    BY <1>1, <1>3, ClientTypes DEF TypeOK
  <1>6. PoolConsistent'
    <2>1. \A b \in Elems(unused') : ref'[b] \in {0, Saturated}
      BY <1>1, <1>3, <1>4, ClientTypes DEF PoolConsistent
    <2> QED BY <1>1, <1>2, <1>4, <2>1, ClientTypes, PoolStep DEF PoolConsistent
  <1>7. ClientInv'
    <2>1. ClientOK(p)'
      BY <1>1, <1>2, ClientTypes DEF ClientOK, Importing, h
    <2> QED BY <1>1, <1>2, <2>1, Others
  <1>8. RegionInv' /\ SameInv'
    BY <1>1, RegionFrame
  <1>9. OnceInv'
    <2>1. \A q \in Clients : Looking(q)' <=> Looking(q)
      BY <1>1, <1>2 DEF Looking, ByClient
    <2>2. \A q \in Clients : cpc'[q] \in {"kref", "insert"} => cpc[q] \in {"kref", "insert"}
      BY <1>1, <1>2 DEF ByClient
    <2> QED BY <1>1, <2>1, <2>2, ClientTypes, OnceFrame
  <1>10. RefsInv'
    <2>1. ASSUME NEW b \in Slots
          PROVE  ref'[b] = PoolRef(b)' + TaskRefs(b)' + TransRefs(b)' + LocalRefs(b)'
      <3>1. PoolRef(b)' = PoolRef(b)
        BY <1>1, <1>2, PoolRefBy
      <3>2. Has(p, b) = 0 /\ Has(p, b)' = IF b = h THEN 1 ELSE 0
        BY <1>1, <1>2 DEF Has, LocalOne, One, h
      <3>3. ref'[b] = ref[b] + Has(p, b)' /\ ref[b] \in Nat
        BY <1>3, <3>2, RefNat
      <3> QED BY <1>1, <1>2, <1>5, <3>1, <3>2, <3>3, RefsStep, RefNat
    <2>2. \A q \in Clients : cpc'[q] = "map" => ref'[cbuf'[q]] = 0
      <3>1. ASSUME NEW q \in Clients, cpc'[q] = "map" PROVE ref'[cbuf'[q]] = 0
        <4>1. q # p /\ cpc[q] = "map"
          BY <1>2, <3>1 DEF ByClient
        <4>2. cbuf[q] \in Slots /\ ref[cbuf[q]] = 0
          BY <4>1, ClientTypes DEF ClientOK, RefsInv
        <4> QED BY <1>1, <1>3, <4>2
      <3> QED BY <3>1
    <2> QED BY <1>1, <2>1, <2>2, ClientTypes DEF RefsInv
  <1> QED BY <1>5, <1>6, <1>7, <1>8, <1>9, <1>10, InvParts

\* The insertion: what the client knew of its dma_buf now holds of the list.
LEMMA ImportFdInv == ASSUME Live, NEW p \in Clients, mpp_dma_import_fd(p) PROVE Inv'
  <1> DEFINE h == cbuf[p]
  <1>1. /\ cpc[p] = "insert" /\ Importing(p) /\ h \in Slots /\ cfd[p] \in Fds
        /\ count' = count + 1 /\ used' = Append(used, h)
        /\ Imported(p, h)
        /\ UNCHANGED <<session, unused, aged, dmabuf, ref, evicted, astray, task, ctask, crossed>>
    BY ClientTypes DEF mpp_dma_import_fd, Importing, ClientOK
  <1>2. /\ h \notin Elems(unused) /\ Taken(p) = {h} /\ h \notin Elems(used)
        /\ dmabuf[h] = DmabufOf[cfd[p]] /\ Looking(p) /\ PoolRef(h) = 1
        /\ used \in Seq(Slots) /\ NoDup(used)
    <2>1. PoolRef(h) = 1
      BY <1>1 DEF PoolRef
    <2> QED BY <1>1, <2>1, ClientTypes DEF PoolConsistent, Taken, OnceInv, Looking, TypeOK
  <1> HIDE DEF h
  <1>3. /\ regions' \in [Tasks -> Seq(Region)] /\ trans' \subseteq Translation
        /\ cpc' \in [Clients -> {"idle", "build", "extra", "evict", "find", "get", "closed",
                         "take", "map", "kref", "insert", "fail", "release", "reset"}]
        /\ cfd' \in [Clients -> Fds \cup {Null}] /\ cbuf' \in [Clients -> Slots \cup {0}]
        /\ cpc'[p] \in {"idle", "build"} /\ ByClient(p) /\ ClientInv'
        /\ RegionInv' /\ SameInv'
        /\ \A c : Cardinality(HeldBy(regions', c)) + Cardinality(TransOf(trans', c)) =
                    Cardinality(HeldBy(regions, c)) + Cardinality(TransOf(trans, c))
                        + One(c = h)
    BY <1>1, <1>2, ImportedHolds
  <1>4. /\ used' \in Seq(Slots) /\ Elems(used') = Elems(used) \cup {h} /\ NoDup(used')
    BY <1>1, <1>2, ElemsAppend
  <1>5. count' = Cardinality(Elems(used')) /\ count' \in 0 .. NSlots
    <2>1. Elems(used) \in SUBSET Slots /\ Elems(used') \in SUBSET Slots
      BY <1>1, <1>4, ClientTypes
    <2>2. IsFiniteSet(Elems(used)) /\ Cardinality(Elems(used')) \in 0 .. NSlots
      BY <2>1, SlotsFinite
    <2>3. Cardinality(Elems(used')) = Cardinality(Elems(used)) + 1
      BY <1>2, <1>4, <2>2, FS_AddElement
    <2> QED BY <1>1, <2>2, <2>3, ClientTypes DEF PoolConsistent
  <1>6. TypeOK'
    BY <1>1, <1>3, <1>4, <1>5, ClientTypes DEF TypeOK
  <1>7. PoolConsistent'
    <2>1. Taken(p)' = {}
      BY <1>3 DEF Taken
    <2>2. /\ Elems(used') \cap Elems(unused') = {}
          /\ Elems(used') \cup Elems(unused') \cup Taken(p)' =
               Elems(used) \cup Elems(unused) \cup Taken(p)
      BY <1>1, <1>2, <1>4, <2>1, ClientTypes DEF PoolConsistent
    <2>3. \A b \in Elems(unused') : ref'[b] \in {0, Saturated}
      BY <1>1, ClientTypes DEF PoolConsistent
    <2>4. NoDup(unused') /\ PoolConsistent /\ session = "live"
      BY <1>1, ClientTypes DEF PoolConsistent
    <2> QED BY <1>3, <1>4, <1>5, <2>1, <2>2, <2>3, <2>4, PoolStep
  <1>8. OnceInv'
    <2>1. \A q \in Clients : Looking(q)' => q # p /\ Looking(q) /\ cfd'[q] = cfd[q]
      BY <1>3 DEF Looking, ByClient
    <2>2. ASSUME NEW q \in Clients, cpc'[q] \in {"kref", "insert"}
          PROVE  dmabuf'[cbuf'[q]] = DmabufOf[cfd'[q]]
      BY <1>1, <1>3, <2>2, ClientTypes DEF OnceInv, ByClient
    <2>3. ASSUME NEW b \in Elems(used'), NEW c \in Elems(used'),
                 dmabuf'[b] = dmabuf'[c], dmabuf'[b] \notin crossed'
          PROVE  b = c
      <3>1. dmabuf' = dmabuf /\ crossed' = crossed /\ OnceInv
        BY <1>1, ClientTypes
      <3>2. CASE b \in Elems(used) /\ c \in Elems(used)
        BY <2>3, <3>1, <3>2 DEF OnceInv
      <3>3. CASE b = h \/ c = h
        <4>1. DmabufOf[cfd[p]] \notin crossed
          BY <1>2, <2>3, <3>1, <3>3
        <4>2. \A e \in Elems(used) : dmabuf[e] # dmabuf[h]
          BY <1>2, <3>1, <4>1 DEF OnceInv
        <4> QED BY <1>4, <2>3, <3>1, <3>3, <4>2
      <3> QED BY <1>4, <3>2, <3>3
    <2>4. ASSUME NEW q \in Clients, Looking(q)', DmabufOf[cfd'[q]] \notin crossed'
          PROVE  /\ \A b \in Elems(used') : dmabuf'[b] # DmabufOf[cfd'[q]]
                 /\ \A r \in Clients \ {q} : Looking(r)' => DmabufOf[cfd'[r]] # DmabufOf[cfd'[q]]
      <3>1. /\ \A b \in Elems(used) : dmabuf[b] # DmabufOf[cfd[q]]
            /\ \A r \in Clients \ {q} : Looking(r) => DmabufOf[cfd[r]] # DmabufOf[cfd[q]]
        BY <1>1, <2>1, <2>4, ClientTypes DEF OnceInv
      <3>2. dmabuf[h] # DmabufOf[cfd[q]]
        BY <1>2, <2>1, <2>4, <3>1
      <3> QED BY <1>1, <1>4, <2>1, <2>4, <3>1, <3>2
    <2> QED BY <2>2, <2>3, <2>4 DEF OnceInv
  <1>9. RefsInv'
    <2>1. ASSUME NEW b \in Slots
          PROVE  ref'[b] = PoolRef(b)' + TaskRefs(b)' + TransRefs(b)' + LocalRefs(b)'
      <3>1. PoolRef(b)' = PoolRef(b)
        <4>1. evicted \subseteq Elems(used)
          BY ClientTypes DEF RefsInv
        <4>2. b = h => h \in Elems(used') \ evicted'
          BY <1>1, <1>2, <1>4, <4>1
        <4>3. b # h => (b \in Elems(used') \ evicted' <=> b \in Elems(used) \ evicted)
          BY <1>1, <1>4
        <4>4. cpc'[p] \notin {"kref", "insert"} /\ cbuf[p] = h /\ cpc[p] = "insert"
          BY <1>1, <1>3 DEF h
        <4> QED BY <1>3, <4>2, <4>3, <4>4, PoolRefBy
      <3>2. Has(p, b) = One(b = h) /\ Has(p, b)' = 0 /\ One(b = h) \in {0, 1}
        <4>1. /\ Has(p, b) = IF b = h THEN 1 ELSE 0
              /\ Has(p, b)' = 0
          BY <1>1, <1>3 DEF Has, LocalOne, h
        <4> QED BY <4>1 DEF One
      <3>3. Cardinality(HeldBy(regions', b)) \in Nat /\ Cardinality(TransOf(trans', b)) \in Nat
        BY <1>3, HeldFinite, TransFinite
      <3>4. Cardinality(HeldBy(regions', b)) + Cardinality(TransOf(trans', b)) =
              Cardinality(HeldBy(regions, b)) + Cardinality(TransOf(trans, b)) + Has(p, b)
        BY <1>3, <3>2
      <3>5. ref'[b] = ref[b]
        BY <1>1
      <3>6. ref'[b] + PoolRef(b) + Has(p, b)
               + Cardinality(HeldBy(regions, b)) + Cardinality(TransOf(trans, b)) =
            ref[b] + PoolRef(b)' + Has(p, b)'
               + Cardinality(HeldBy(regions', b)) + Cardinality(TransOf(trans', b))
        <4>1. /\ Has(p, b) \in {0, 1} /\ ref[b] \in Nat /\ PoolRef(b) \in {0, 1}
              /\ Cardinality(HeldBy(regions, b)) \in Nat
              /\ Cardinality(TransOf(trans, b)) \in Nat
          BY <3>2, RefNat
        <4> QED BY <3>1, <3>2, <3>3, <3>4, <3>5, <4>1
      <3> QED BY <1>3, <1>6, <3>6, RefsStep
    <2>2. \A q \in Clients : cpc'[q] = "map" => ref'[cbuf'[q]] = 0
      BY <1>1, <1>3, ClientTypes DEF RefsInv, ByClient
    <2> QED BY <1>1, <1>4, <2>1, <2>2, ClientTypes DEF RefsInv
  <1> QED BY <1>3, <1>6, <1>7, <1>8, <1>9, InvParts

LEMMA KrefGetInv == ASSUME Live, NEW p \in Clients, kref_get_unless_zero(p) PROVE Inv'
  <1> DEFINE h == cbuf[p]  d == DmabufOf[cfd[p]]
  <1>1. /\ cpc[p] = "get" /\ Importing(p) /\ h \in Slots /\ cfd[p] \in Fds /\ d \in Dmabufs
        /\ UNCHANGED <<session, unused, used, dmabuf, count, evicted, astray, task, ctask>>
        /\ ref[h] \in Nat /\ crossed \subseteq Dmabufs
    BY ClientTypes, RefNat, DmaAssumption
       DEF kref_get_unless_zero, Importing, ClientOK, TypeOK
  <1>2. CASE ref[h] = 0
    <2>1. /\ cpc' = [cpc EXCEPT ![p] = "take"]
          /\ crossed' = crossed \cup IF Meanwhile(p) \/ Match(cfd[p]) # {} THEN {d} ELSE {}
          /\ cbuf' = [cbuf EXCEPT ![p] = 0]
          /\ UNCHANGED <<ref, aged, regions, trans, cfd>>
      BY <1>2 DEF kref_get_unless_zero
    <2>2. cpc'[p] = "take" /\ ByClient(p) /\ crossed \subseteq crossed' /\ crossed' \subseteq Dmabufs
      BY <1>1, <2>1, ClientTypes DEF ByClient
    <2>3. TypeOK'
      <3>1. /\ cpc' \in [Clients -> {"idle", "build", "extra", "evict", "find", "get", "closed",
                         "take", "map", "kref", "insert", "fail", "release", "reset"}]
            /\ cbuf' \in [Clients -> Slots \cup {0}]
        BY <2>1, ClientTypes
      <3> QED BY <1>1, <2>1, <2>2, <3>1, ClientTypes DEF TypeOK
    <2>4. ClientOK(p)'
      BY <1>1, <2>1, <2>2, ClientTypes DEF ClientOK, Importing
    <2>5. d \in crossed' \/ (Match(cfd[p]) = {} /\ ~Meanwhile(p))
      BY <2>1
    <2> QED BY <1>1, <2>1, <2>2, <2>3, <2>4, <2>5, ClientTypes, Quiet DEF poolVars
  <1>3. CASE ref[h] # 0
    <2>1. /\ ref' = [ref EXCEPT ![h] = IF @ > 0 THEN @ + 1 ELSE Saturated]
          /\ aged' = Append(ListDel(aged, h), h)
          /\ crossed' = crossed \cup IF dmabuf[h] # d THEN {d} ELSE {}
          /\ Imported(p, h)
      BY <1>3 DEF kref_get_unless_zero
    <2>2. crossed \subseteq crossed' /\ crossed' \subseteq Dmabufs /\ (d \in crossed' \/ dmabuf[h] = d)
      BY <1>1, <2>1
    <2> HIDE DEF h, d
    <2>3. /\ ref'[h] = ref[h] + 1 /\ \A c \in Slots : c # h => ref'[c] = ref[c]
          /\ ref' \in [Slots -> Nat \cup {Saturated}] /\ aged' \in Seq(Slots)
      <3>1. ref \in [Slots -> Nat \cup {Saturated}] /\ ref[h] > 0 /\ aged \in Seq(Slots)
        <4>1. ref[h] > 0
          BY <1>1, <1>3
        <4>2. TypeOK
          BY ClientTypes
        <4> QED BY <4>1, <4>2 DEF TypeOK
      <3>2. ListDel(aged, h) \in Seq(Slots)
        BY <3>1, ListDelType
      <3> QED BY <1>1, <2>1, <3>1, <3>2
    <2>4. /\ regions' \in [Tasks -> Seq(Region)] /\ trans' \subseteq Translation
          /\ cpc' \in [Clients -> {"idle", "build", "extra", "evict", "find", "get", "closed",
                         "take", "map", "kref", "insert", "fail", "release", "reset"}]
          /\ cfd' \in [Clients -> Fds \cup {Null}] /\ cbuf' \in [Clients -> Slots \cup {0}]
          /\ cpc'[p] \in {"idle", "build"} /\ ByClient(p) /\ ClientInv'
          /\ RegionInv' /\ SameInv'
          /\ \A c : Cardinality(HeldBy(regions', c)) + Cardinality(TransOf(trans', c)) =
                      Cardinality(HeldBy(regions, c)) + Cardinality(TransOf(trans, c))
                          + One(c = h)
      BY <1>1, <2>1, <2>2, ImportedHolds DEF d
    <2>5. TypeOK'
      BY <1>1, <2>2, <2>3, <2>4, ClientTypes DEF TypeOK
    <2>6. PoolConsistent'
      <3>1. Taken(p) = {} /\ Taken(p)' = {}
        BY <1>1, <2>4 DEF Taken
      <3>2. \A b \in Elems(unused') : ref'[b] \in {0, Saturated}
        <4>1. h \notin Elems(unused)
          <5>1. ref[h] \notin {0, Saturated}
            BY <1>1, <1>3 DEF Saturated
          <5> QED BY <5>1, ClientTypes DEF PoolConsistent
        <4> QED BY <1>1, <2>3, <4>1, ClientTypes DEF PoolConsistent
      <3> QED BY <1>1, <2>4, <3>1, <3>2, ClientTypes, PoolStep DEF PoolConsistent
    <2>7. OnceInv'
      <3>1. \A q \in Clients : Looking(q)' => Looking(q) /\ cfd'[q] = cfd[q]
        BY <1>1, <2>4 DEF Looking, ByClient
      <3>2. ASSUME NEW q \in Clients, cpc'[q] \in {"kref", "insert"}
            PROVE  cpc[q] \in {"kref", "insert"} /\ cbuf'[q] = cbuf[q] /\ cfd'[q] = cfd[q]
        BY <2>4, <3>2 DEF ByClient
      <3> QED BY <1>1, <2>2, <3>1, <3>2, OnceFrame
    <2>8. RefsInv'
      <3>1. ASSUME NEW b \in Slots
            PROVE  ref'[b] = PoolRef(b)' + TaskRefs(b)' + TransRefs(b)' + LocalRefs(b)'
        <4>1. PoolRef(b)' = PoolRef(b)
          BY <1>1, <2>4, PoolRefBy
        <4>2. Has(p, b) = 0 /\ Has(p, b)' = 0 /\ One(b = h) \in {0, 1}
          BY <1>1, <2>4 DEF Has, LocalOne, One
        <4>3. ref'[b] = ref[b] + One(b = h)
          BY <1>1, <2>3, RefNat DEF One
        <4>4. Cardinality(HeldBy(regions', b)) \in Nat /\ Cardinality(TransOf(trans', b)) \in Nat
          BY <2>4, HeldFinite, TransFinite
        <4>5. Cardinality(HeldBy(regions', b)) + Cardinality(TransOf(trans', b)) =
                Cardinality(HeldBy(regions, b)) + Cardinality(TransOf(trans, b)) + One(b = h)
          BY <2>4
        <4>6. ref'[b] + PoolRef(b) + Has(p, b)
                 + Cardinality(HeldBy(regions, b)) + Cardinality(TransOf(trans, b)) =
              ref[b] + PoolRef(b)' + Has(p, b)'
                 + Cardinality(HeldBy(regions', b)) + Cardinality(TransOf(trans', b))
          <5>1. /\ ref[b] \in Nat /\ PoolRef(b) \in {0, 1}
                /\ Cardinality(HeldBy(regions, b)) \in Nat
                /\ Cardinality(TransOf(trans, b)) \in Nat
            BY RefNat
          <5> QED BY <4>1, <4>2, <4>3, <4>4, <4>5, <5>1
        <4> QED BY <2>4, <2>5, <4>6, RefsStep
      <3>2. \A q \in Clients : cpc'[q] = "map" => ref'[cbuf'[q]] = 0
        <4>1. ASSUME NEW q \in Clients, cpc'[q] = "map" PROVE ref'[cbuf'[q]] = 0
          <5>1. cpc[q] = "map" /\ cbuf'[q] = cbuf[q]
            BY <2>4, <4>1 DEF ByClient
          <5>2. cbuf[q] \in Slots /\ ref[cbuf[q]] = 0
            BY <5>1, ClientTypes DEF ClientOK, RefsInv
          <5> QED BY <1>3, <2>3, <5>1, <5>2
        <4> QED BY <4>1
      <3> QED BY <1>1, <3>1, <3>2, ClientTypes DEF RefsInv
    <2> QED BY <2>4, <2>5, <2>6, <2>7, <2>8, InvParts
  <1> QED BY <1>2, <1>3

-----------------------------------------------------------------------------
(***************************************************************************)
(* Puts, and the steps that no client makes.                               *)
(***************************************************************************)

\* The lists and the counts after a put by a holder that is not the pool: no
\* slot but b changes, and the pool's references stay.
LEMMA PutStep ==
    ASSUME Live, NEW b \in Slots, PutOwn(b), session' = session, SameTaken,
           ref[b] > PoolRef(b)
    PROVE  /\ unused' \in Seq(Slots) /\ used' \in Seq(Slots) /\ aged' \in Seq(Slots)
           /\ dmabuf' \in [Slots -> Dmabufs \cup {Null}]
           /\ ref' \in [Slots -> Nat \cup {Saturated}] /\ count' \in 0 .. NSlots
           /\ evicted' \subseteq Elems(used') /\ evicted' \subseteq Slots /\ astray' = astray
           /\ Elems(used') \subseteq Elems(used)
           /\ \A c \in Slots : c # b \/ ref[b] # 1 => dmabuf'[c] = dmabuf[c]
           /\ b \in Elems(used') => ref[b] # 1
           /\ ref'[b] = ref[b] - 1 /\ \A c \in Slots : c # b => ref'[c] = ref[c]
           /\ \A c \in Slots : PoolRef(c)' = PoolRef(c)
           /\ \A q \in Clients : cpc[q] \in {"map", "kref", "insert"} => (ref[b] = 1 => cbuf[q] # b)
           /\ PoolConsistent'
  <1>1. /\ TypeOK /\ PoolConsistent /\ RefsInv /\ session = "live"
        /\ mpp_dma_release_buffer(b) /\ astray' = astray
        /\ evicted' = IF ref[b] = 1 THEN evicted \ {b} ELSE evicted
        /\ ref[b] \in Nat /\ PoolRef(b) \in {0, 1} /\ ref[b] > 0
        /\ ref \in [Slots -> Nat \cup {Saturated}]
    <2>1. TypeOK /\ PoolConsistent /\ RefsInv /\ session = "live"
      BY DEF Live, Inv
    <2>2. ref[b] \in Nat /\ PoolRef(b) \in {0, 1}
      BY RefNat
    <2> QED BY <2>1, <2>2 DEF PutOwn, TypeOK
  <1>2. ref'[b] = ref[b] - 1 /\ \A c \in Slots : c # b => ref'[c] = ref[c]
    <2>1. CASE ref[b] = 1
      BY <1>1, <2>1 DEF mpp_dma_release_buffer
    <2>2. CASE ref[b] # 1
      <3>1. ref[b] > 1 /\ ref' = [ref EXCEPT ![b] = IF @ > 1 THEN @ - 1 ELSE Saturated]
        BY <1>1, <2>2 DEF mpp_dma_release_buffer
      <3> QED BY <1>1, <3>1
    <2> QED BY <2>1, <2>2
  <1>3. ASSUME ref[b] = 1
        PROVE  /\ b \in Elems(used) /\ b \in evicted
               /\ \A q \in Clients : cpc[q] \in {"map", "kref", "insert"} => cbuf[q] # b
    <2>1. PoolRef(b) = 0
      BY <1>1, <1>3
    <2>2. b \notin Elems(unused)
      BY <1>1, <1>3 DEF PoolConsistent, Saturated
    <2>3. ASSUME NEW q \in Clients, cpc[q] \in {"map", "kref", "insert"} PROVE cbuf[q] # b
      <3>1. CASE cpc[q] = "map"
        BY <1>1, <1>3, <3>1 DEF RefsInv
      <3>2. CASE cpc[q] \in {"kref", "insert"}
        BY <2>1, <3>2 DEF PoolRef
      <3> QED BY <2>3, <3>1, <3>2
    <2>4. \A q \in Clients : b \notin Taken(q)
      BY <2>3 DEF Taken
    <2>5. b \in Elems(used)
      <3> DEFINE U == UNION {Taken(q) : q \in Clients}
      <3>1. b \notin U
        BY <2>4
      <3>2. Elems(used) \cup Elems(unused) \cup U = Slots
        BY <1>1 DEF PoolConsistent
      <3> HIDE DEF U
      <3> QED BY <2>2, <3>1, <3>2
    <2> QED BY <2>1, <2>3, <2>5 DEF PoolRef
  <1>4. /\ unused' \in Seq(Slots) /\ used' \in Seq(Slots) /\ aged' \in Seq(Slots)
        /\ dmabuf' \in [Slots -> Dmabufs \cup {Null}]
        /\ ref' \in [Slots -> Nat \cup {Saturated}] /\ count' \in 0 .. NSlots
        /\ Elems(used') = IF ref[b] = 1 THEN Elems(used) \ {b} ELSE Elems(used)
        /\ \A c \in Slots : c # b \/ ref[b] # 1 => dmabuf'[c] = dmabuf[c]
        /\ PoolConsistent'
    BY <1>1, <1>3, SameTakenTaken, PutPool
  <1>5. evicted' \subseteq Elems(used') /\ evicted' \subseteq Slots
    BY <1>1, <1>4 DEF RefsInv, TypeOK
  <1>6. ASSUME NEW c \in Slots PROVE PoolRef(c)' = PoolRef(c)
    <2>1. (\E q \in Clients : cpc'[q] \in {"kref", "insert"} /\ cbuf'[q] = c)
             <=> (\E q \in Clients : cpc[q] \in {"kref", "insert"} /\ cbuf[q] = c)
      BY SameTakenTaken
    <2>2. (c \in Elems(used') \ evicted') <=> (c \in Elems(used) \ evicted)
      BY <1>1, <1>3, <1>4
    <2> QED BY <2>1, <2>2, Zenon DEF PoolRef
  <1> QED BY <1>1, <1>2, <1>3, <1>4, <1>5, <1>6

\* The shared buffers of the remaining holders stay what they are.
LEMMA PutSame ==
    ASSUME Live, TypeOK', RegionInv', NEW b \in Slots, UNCHANGED <<task, crossed>>,
           trans' \subseteq trans,
           \A t \in Tasks : task[t] \in {"alloc", "live"} => regions'[t] = regions[t],
           \A c \in Slots : c # b \/ ref[b] # 1 => dmabuf'[c] = dmabuf[c],
           ref[b] = 1 => ref'[b] = 0,
           ref'[b] = PoolRef(b)' + TaskRefs(b)' + TransRefs(b)' + LocalRefs(b)'
    PROVE  SameInv'
  <1>1. SameInv /\ TypeOK
    BY DEF Live, Inv
  <1>2. ASSUME NEW t \in Tasks, NEW i \in DOMAIN regions'[t], task[t] \in {"alloc", "live"}
        PROVE  \/ DmabufOf[regions'[t][i].fd] \in crossed
               \/ dmabuf'[regions'[t][i].hdl] = DmabufOf[regions'[t][i].fd]
    <2>1. regions'[t] = regions[t] /\ regions[t] \in Seq(Region)
      BY <1>1, <1>2 DEF TypeOK
    <2>2. regions[t][i].hdl \in Slots
      <3>1. regions[t][i] \in Region
        BY <1>2, <2>1
      <3> QED BY <3>1 DEF Region
    <2>3. ref[b] = 1 => regions[t][i].hdl # b
      BY <1>2, <2>1, NoHolderPrime
    <2>4. dmabuf'[regions[t][i].hdl] = dmabuf[regions[t][i].hdl]
      BY <2>2, <2>3
    <2> QED BY <1>1, <1>2, <2>1, <2>4 DEF SameInv
  <1>3. ASSUME NEW x \in trans'
        PROVE  DmabufOf[x.fd] \in crossed \/ dmabuf'[x.hdl] = DmabufOf[x.fd]
    <2>1. x \in trans /\ x.hdl \in Slots
      BY <1>1 DEF TypeOK, Translation
    <2>2. ref[b] = 1 => x.hdl # b
      BY NoHolderPrime
    <2>3. dmabuf'[x.hdl] = dmabuf[x.hdl]
      BY <2>1, <2>2
    <2> QED BY <1>1, <2>1, <2>3 DEF SameInv
  <1> QED BY <1>2, <1>3 DEF SameInv

\* What the clients know of the dma_bufs they import survives a put.
LEMMA PutOnce ==
    ASSUME Live, NEW b \in Slots, Elems(used') \subseteq Elems(used), crossed' = crossed,
           \A c \in Slots : c # b \/ ref[b] # 1 => dmabuf'[c] = dmabuf[c],
           b \in Elems(used') => ref[b] # 1,
           \A q \in Clients : cpc[q] \in {"map", "kref", "insert"} => (ref[b] = 1 => cbuf[q] # b),
           \A q \in Clients : Looking(q) \/ Looking(q)' =>
               cpc'[q] = cpc[q] /\ cbuf'[q] = cbuf[q] /\ cfd'[q] = cfd[q]
    PROVE  OnceInv'
  <1>1. Elems(used) \subseteq Slots /\ (\A q \in Clients : ClientOK(q))
    BY ElemsType DEF Live, Inv, TypeOK, ClientInv
  <1>2. \A c \in Elems(used') : dmabuf'[c] = dmabuf[c]
    BY <1>1
  <1>3. ASSUME NEW q \in Clients, cpc'[q] \in {"kref", "insert"}
        PROVE  /\ cpc[q] \in {"kref", "insert"} /\ cbuf'[q] = cbuf[q] /\ cfd'[q] = cfd[q]
               /\ dmabuf'[cbuf[q]] = dmabuf[cbuf[q]]
    <2>1. cpc[q] \in {"kref", "insert"} /\ cbuf'[q] = cbuf[q] /\ cfd'[q] = cfd[q]
      BY <1>3 DEF Looking
    <2>2. cbuf[q] \in Slots /\ (ref[b] = 1 => cbuf[q] # b)
      BY <1>1, <2>1 DEF ClientOK
    <2> QED BY <2>1, <2>2
  <1>4. \A q \in Clients : Looking(q)' => Looking(q) /\ cfd'[q] = cfd[q]
    BY DEF Looking
  <1> QED BY <1>2, <1>3, <1>4, OnceFrame

LEMMA RemoveExtraInv ==
    ASSUME Live, NEW p \in Clients, mpp_dma_remove_extra_buffer(p) PROVE Inv'
  <1> USE DEF taskVars
  <1>1. /\ cpc[p] = "evict" /\ cpc' = [cpc EXCEPT ![p] = "find"] /\ Importing(p)
        /\ UNCHANGED <<session, taskVars, trans, ctask, cfd, cbuf, crossed>>
    BY DEF mpp_dma_remove_extra_buffer, Importing
  <1>2. cpc'[p] = "find" /\ ByClient(p)
    BY <1>1, ClientTypes DEF ByClient
  <1>3. SameTaken
    BY <1>1, <1>2 DEF SameTaken, ByClient
  <1>4. ClientOK(p)'
    BY <1>1, <1>2, ClientTypes DEF ClientOK, Importing
  <1>5. CASE used = <<>> /\ UNCHANGED poolVars
    <2>1. TypeOK'
      BY <1>1, <1>5, ClientTypes DEF TypeOK, poolVars
    <2> QED BY <1>1, <1>2, <1>4, <1>5, <2>1, ClientTypes, Quiet
  <1>6. ASSUME NEW b \in Slots, Oldest(b), mpp_dma_release_buffer(b),
               evicted' = (IF ref[b] = 1 THEN evicted \ {b} ELSE evicted \cup {b}),
               astray' = (astray \/ b \in evicted)
        PROVE  Inv'
    <2>1. b \in Elems(used) /\ TypeOK /\ PoolConsistent /\ RefsInv /\ astray = FALSE
      BY <1>6, ClientTypes DEF Oldest
    <2>2. /\ unused' \in Seq(Slots) /\ used' \in Seq(Slots) /\ aged' \in Seq(Slots)
          /\ dmabuf' \in [Slots -> Dmabufs \cup {Null}]
          /\ ref' \in [Slots -> Nat \cup {Saturated}] /\ count' \in 0 .. NSlots
          /\ Elems(used') = IF ref[b] = 1 THEN Elems(used) \ {b} ELSE Elems(used)
          /\ \A c \in Slots : c # b \/ ref[b] # 1 => dmabuf'[c] = dmabuf[c]
          /\ PoolConsistent'
      BY <1>1, <1>3, <1>6, <2>1, SameTakenTaken, PutPool
    <2>3. evicted' \subseteq Slots /\ evicted' \subseteq Elems(used')
      BY <1>6, <2>1, <2>2 DEF TypeOK, RefsInv
    <2>4. TypeOK'
      <3>1. astray' \in BOOLEAN
        BY <1>6, <2>1
      <3>2. cpc' \in [Clients -> {"idle", "build", "extra", "evict", "find", "get", "closed",
                         "take", "map", "kref", "insert", "fail", "release", "reset"}]
        BY <1>1, ClientTypes
      <3> QED BY <1>1, <2>1, <2>2, <2>3, <3>1, <3>2 DEF TypeOK
    <2>5. ClientInv'
      BY <1>1, <1>2, <1>4, Others
    <2>6. RegionInv'
      <3>1. RegionInv /\ task' = task /\ regions' = regions
        BY <1>1, ClientTypes
      <3> QED BY <3>1 DEF RegionInv
    <2>7. ASSUME b \notin evicted PROVE RefsInv' /\ SameInv' /\ OnceInv'
      <3>1. \A q \in Clients : cpc[q] \in {"map", "kref", "insert"} => cbuf[q] # b
        <4>1. \A q \in Clients : b \notin Taken(q)
          BY <2>1, ClientTypes DEF PoolConsistent
        <4> QED BY <4>1 DEF Taken
      <3>2. PoolRef(b) = 1 /\ PoolRef(b)' = 0
        <4>1. PoolRef(b) = 1
          BY <2>1, <2>7 DEF PoolRef
        <4>2. b \notin Elems(used') \ evicted'
          BY <1>6, <2>2
        <4>3. ~\E q \in Clients : cpc'[q] \in {"kref", "insert"} /\ cbuf'[q] = b
          BY <1>3, <3>1, SameTakenTaken
        <4> QED BY <4>1, <4>2, <4>3 DEF PoolRef
      <3>3. ref'[b] = ref[b] - 1 /\ \A c \in Slots : c # b => ref'[c] = ref[c]
        <4>1. ref[b] \in Nat /\ ref[b] > 0 /\ ref \in [Slots -> Nat \cup {Saturated}]
          <5>1. /\ ref[b] \in Nat /\ Cardinality(HeldBy(regions, b)) \in Nat
                /\ Cardinality(TransOf(trans, b)) \in Nat
                /\ Cardinality(LocalOf(cpc, cbuf, b)) \in Nat
                /\ ref[b] = PoolRef(b) + Cardinality(HeldBy(regions, b))
                         + Cardinality(TransOf(trans, b)) + Cardinality(LocalOf(cpc, cbuf, b))
            BY RefNat
          <5> QED BY <2>1, <3>2, <5>1 DEF TypeOK
        <4>2. CASE ref[b] = 1
          BY <1>6, <4>1, <4>2 DEF mpp_dma_release_buffer
        <4>3. CASE ref[b] # 1
          <5>1. ref[b] > 1 /\ ref' = [ref EXCEPT ![b] = IF @ > 1 THEN @ - 1 ELSE Saturated]
            BY <1>6, <4>1, <4>3 DEF mpp_dma_release_buffer
          <5> QED BY <4>1, <5>1
        <4> QED BY <4>2, <4>3
      <3>4. ASSUME NEW c \in Slots
            PROVE  ref'[c] = PoolRef(c)' + TaskRefs(c)' + TransRefs(c)' + LocalRefs(c)'
        <4>1. Has(p, c) = 0 /\ Has(p, c)' = 0
          BY <1>1, <1>2 DEF Has, LocalOne
        <4>2. CASE c # b
          <5>1. c \in Elems(used') \ evicted' <=> c \in Elems(used) \ evicted
            BY <1>6, <2>2, <4>2
          <5>2. PoolRef(c)' = PoolRef(c)
            BY <1>1, <1>2, <5>1, PoolRefBy
          <5> QED BY <1>1, <1>2, <2>4, <3>3, <4>1, <4>2, <5>2, RefsStep
        <4>3. CASE c = b
          <5>1. ref'[b] + PoolRef(b) + Has(p, b)
                   + Cardinality(HeldBy(regions, b)) + Cardinality(TransOf(trans, b)) =
                ref[b] + PoolRef(b)' + Has(p, b)'
                   + Cardinality(HeldBy(regions', b)) + Cardinality(TransOf(trans', b))
            <6>1. /\ ref[b] \in Nat /\ Cardinality(HeldBy(regions, b)) \in Nat
                  /\ Cardinality(TransOf(trans, b)) \in Nat
                  /\ regions' = regions /\ trans' = trans
              BY <1>1, RefNat
            <6> QED BY <3>2, <3>3, <4>1, <4>3, <6>1
          <5> QED BY <1>2, <2>4, <4>3, <5>1, RefsStep
        <4> QED BY <4>2, <4>3
      <3>5. ASSUME NEW q \in Clients, cpc'[q] = "map" PROVE ref'[cbuf'[q]] = 0
        <4>1. cpc[q] = "map" /\ cbuf'[q] = cbuf[q]
          BY <1>3, <3>5 DEF SameTaken
        <4>2. cbuf[q] \in Slots /\ cbuf[q] # b /\ ref[cbuf[q]] = 0
          BY <2>1, <3>1, <4>1, ClientTypes DEF RefsInv, ClientOK
        <4> QED BY <3>3, <4>1, <4>2
      <3>6. RefsInv'
        BY <2>3, <3>4, <3>5 DEF RefsInv
      <3>7. SameInv'
        <4>1. ref[b] = 1 => ref'[b] = 0
          BY <3>3
        <4> QED BY <1>1, <2>2, <2>4, <2>6, <3>4, <4>1, PutSame
      <3>8. OnceInv'
        <4>1. \A q \in Clients : Looking(q) \/ Looking(q)' =>
               cpc'[q] = cpc[q] /\ cbuf'[q] = cbuf[q] /\ cfd'[q] = cfd[q]
          BY <1>1, <1>2 DEF Looking, ByClient
        <4> QED BY <1>1, <2>2, <3>1, <4>1, PutOnce
      <3> QED BY <3>6, <3>7, <3>8
    <2>8. ~astray' => b \notin evicted
      BY <1>6
    <2> QED BY <2>2, <2>4, <2>5, <2>6, <2>7, <2>8, InvParts
  <1> QED BY <1>5, <1>6 DEF mpp_dma_remove_extra_buffer

LEMMA DmaReleaseFdInv ==
    ASSUME Live, NEW p \in Clients, mpp_dma_release_fd(p) PROVE Inv'
  <1> USE DEF taskVars
  <1> DEFINE h == cbuf[p]
  <1>1. /\ cpc[p] = "release" /\ h \in Slots /\ ctask[p] = Null
        /\ cpc' = [cpc EXCEPT ![p] = "idle"]
        /\ cfd' = [cfd EXCEPT ![p] = Null] /\ cbuf' = [cbuf EXCEPT ![p] = 0]
        /\ PutOwn(h)
        /\ UNCHANGED <<session, taskVars, trans, ctask, crossed>>
    BY ClientTypes DEF mpp_dma_release_fd, Return, ClientOK
  <1>2. cpc'[p] = "idle" /\ ByClient(p)
    BY <1>1, ClientTypes DEF ByClient
  <1>3. SameTaken
    BY <1>1, <1>2 DEF SameTaken, ByClient
  <1>4. ref[h] > PoolRef(h) /\ ref[h] \in Nat
    <2>1. Cardinality(LocalOf(cpc, cbuf, h)) > 0
      BY <1>1, LocalPositive
    <2>2. /\ ref[h] \in Nat /\ Cardinality(HeldBy(regions, h)) \in Nat
          /\ Cardinality(TransOf(trans, h)) \in Nat
          /\ Cardinality(LocalOf(cpc, cbuf, h)) \in Nat
          /\ PoolRef(h) \in {0, 1}
          /\ ref[h] = PoolRef(h) + Cardinality(HeldBy(regions, h))
                   + Cardinality(TransOf(trans, h)) + Cardinality(LocalOf(cpc, cbuf, h))
      BY <1>1, RefNat
    <2> HIDE DEF h
    <2> QED BY <2>1, <2>2
  <1>5. \A b : Has(p, b) = (IF b = h THEN 1 ELSE 0) /\ Has(p, b)' = 0
    BY <1>1, <1>2 DEF Has, LocalOne
  <1> HIDE DEF h
  <1>6. /\ unused' \in Seq(Slots) /\ used' \in Seq(Slots) /\ aged' \in Seq(Slots)
        /\ dmabuf' \in [Slots -> Dmabufs \cup {Null}]
        /\ ref' \in [Slots -> Nat \cup {Saturated}] /\ count' \in 0 .. NSlots
        /\ evicted' \subseteq Elems(used') /\ evicted' \subseteq Slots /\ astray' = astray
        /\ Elems(used') \subseteq Elems(used)
        /\ \A c \in Slots : c # h \/ ref[h] # 1 => dmabuf'[c] = dmabuf[c]
        /\ h \in Elems(used') => ref[h] # 1
        /\ ref'[h] = ref[h] - 1 /\ \A c \in Slots : c # h => ref'[c] = ref[c]
        /\ \A c \in Slots : PoolRef(c)' = PoolRef(c)
        /\ \A q \in Clients : cpc[q] \in {"map", "kref", "insert"} => (ref[h] = 1 => cbuf[q] # h)
        /\ PoolConsistent'
    BY <1>1, <1>3, <1>4, PutStep
  <1>7. TypeOK'
    <2>1. /\ cpc' \in [Clients -> {"idle", "build", "extra", "evict", "find", "get", "closed",
                         "take", "map", "kref", "insert", "fail", "release", "reset"}]
          /\ cfd' \in [Clients -> Fds \cup {Null}] /\ cbuf' \in [Clients -> Slots \cup {0}]
      BY <1>1, ClientTypes
    <2> QED BY <1>1, <1>6, <2>1, ClientTypes DEF TypeOK
  <1>8. ClientInv'
    <2>1. ClientOK(p)'
      BY <1>1, <1>2 DEF ClientOK, Importing
    <2> QED BY <1>1, <1>2, <2>1, Others
  <1>9. RegionInv'
    <2>1. RegionInv /\ task' = task /\ regions' = regions
      BY <1>1, ClientTypes
    <2> QED BY <2>1 DEF RegionInv
  <1>10. ASSUME NEW c \in Slots
         PROVE  ref'[c] = PoolRef(c)' + TaskRefs(c)' + TransRefs(c)' + LocalRefs(c)'
    <2>1. /\ ref[c] \in Nat /\ Cardinality(HeldBy(regions, c)) \in Nat
          /\ Cardinality(TransOf(trans, c)) \in Nat /\ PoolRef(c) \in {0, 1}
          /\ regions' = regions /\ trans' = trans /\ PoolRef(c)' = PoolRef(c)
      BY <1>1, <1>6, RefNat
    <2>2. ref'[c] + Has(p, c) = ref[c] + Has(p, c)'
      BY <1>4, <1>5, <1>6, <2>1
    <2>3. ref'[c] + PoolRef(c) + Has(p, c)
             + Cardinality(HeldBy(regions, c)) + Cardinality(TransOf(trans, c)) =
          ref[c] + PoolRef(c)' + Has(p, c)'
             + Cardinality(HeldBy(regions', c)) + Cardinality(TransOf(trans', c))
      <3>1. ref'[c] \in Int /\ Has(p, c) \in {0, 1} /\ Has(p, c)' = 0
        BY <1>5, <1>6 DEF Saturated
      <3> QED BY <2>1, <2>2, <3>1
    <2> QED BY <1>2, <1>7, <2>3, RefsStep
  <1>11. RefsInv'
    <2>1. ASSUME NEW q \in Clients, cpc'[q] = "map" PROVE ref'[cbuf'[q]] = 0
      <3>1. cpc[q] = "map" /\ cbuf'[q] = cbuf[q]
        BY <1>3, <2>1 DEF SameTaken
      <3>2. cbuf[q] \in Slots /\ ref[cbuf[q]] = 0
        BY <3>1, ClientTypes DEF RefsInv, ClientOK
      <3>3. cbuf[q] # h
        <4>1. ref[h] # 0
          BY <1>1, <1>4, RefNat
        <4> QED BY <3>2, <4>1
      <3> QED BY <1>6, <3>1, <3>2, <3>3
    <2> QED BY <1>6, <1>10, <2>1 DEF RefsInv
  <1>12. SameInv'
    <2>1. ref[h] = 1 => ref'[h] = 0
      BY <1>6
    <2> QED BY <1>1, <1>6, <1>7, <1>9, <1>10, <2>1, PutSame DEF h
  <1>13. OnceInv'
    <2>1. \A q \in Clients : Looking(q) \/ Looking(q)' =>
             cpc'[q] = cpc[q] /\ cbuf'[q] = cbuf[q] /\ cfd'[q] = cfd[q]
      BY <1>1, <1>2 DEF Looking, ByClient
    <2>2. h \in Slots /\ crossed' = crossed
      BY <1>1
    <2> QED BY <1>6, <2>1, <2>2, PutOnce
  <1> QED BY <1>6, <1>7, <1>8, <1>9, <1>11, <1>12, <1>13, InvParts

\* No client relies on the regions of a task that others may free.
LEMMA TaskMoves ==
    ASSUME Live, UNCHANGED <<cVars, trans>>, NEW t \in Tasks,
           \A u \in Tasks : u # t => task'[u] = task[u] /\ regions'[u] = regions[u],
           task[t] = "live" \/ (task[t] = "final" /\ task'[t] \in {"final", "freed"})
    PROVE  ClientInv'
  <1>1. /\ \A q \in Clients : ClientOK(q)
        /\ \A q, r \in Clients : q # r /\ ctask[q] # Null => ctask[q] # ctask[r]
        /\ ctask \in [Clients -> Tasks \cup {Null}]
        /\ cpc' = cpc /\ ctask' = ctask /\ cfd' = cfd /\ cbuf' = cbuf /\ trans' = trans
    BY DEF Live, Inv, ClientInv, TypeOK, cVars
  <1>2. ASSUME NEW q \in Clients PROVE ClientOK(q)'
    <2>1. ClientOK(q) /\ (Importing(q)' <=> Importing(q))
      BY <1>1 DEF Importing
    <2>2. CASE ctask[q] = Null
      BY <1>1, <2>1, <2>2 DEF ClientOK
    <2>3. CASE ctask[q] = t
      <3>1. t # Null
        BY DmaAssumption
      <3>2. cpc[q] = "fail" /\ task'[t] \in {"final", "freed"} /\ ~Importing(q)
        BY <2>1, <2>3, <3>1 DEF ClientOK, Importing
      <3> QED BY <1>1, <2>1, <2>3, <3>1, <3>2 DEF ClientOK
    <2>4. CASE ctask[q] # Null /\ ctask[q] # t
      <3>1. ctask[q] \in Tasks /\ task'[ctask[q]] = task[ctask[q]]
            /\ regions'[ctask[q]] = regions[ctask[q]]
        BY <1>1, <2>4
      <3> QED BY <1>1, <2>1, <2>4, <3>1 DEF ClientOK
    <2> QED BY <2>2, <2>3, <2>4
  <1> QED BY <1>1, <1>2 DEF ClientInv

\* A step that no client makes, and that leaves the pool alone.
LEMMA PoolKept ==
    ASSUME Live, UNCHANGED <<session, poolVars, cVars, crossed>>
    PROVE  /\ PoolConsistent' /\ OnceInv' /\ SameTaken
           /\ \A b : PoolRef(b)' = PoolRef(b) /\ LocalRefs(b)' = LocalRefs(b)
  <1>1. /\ PoolConsistent /\ OnceInv
        /\ UNCHANGED <<session, unused, used, dmabuf, ref, count, evicted, astray, crossed>>
        /\ cpc' = cpc /\ ctask' = ctask /\ cfd' = cfd /\ cbuf' = cbuf
    BY DEF Live, Inv, poolVars, cVars
  <1>2. SameTaken
    BY <1>1 DEF SameTaken
  <1>3. PoolConsistent'
    BY <1>1, <1>2, SameTakenTaken, PoolUnchanged DEF Live
  <1>4. OnceInv'
    BY <1>1 DEF OnceInv, Looking
  <1>5. \A b : PoolRef(b)' = PoolRef(b) /\ LocalRefs(b)' = LocalRefs(b)
    BY <1>1 DEF PoolRef, LocalRefs
  <1> QED BY <1>2, <1>3, <1>4, <1>5

\* A task changes hands, and keeps its regions.
LEMMA TaskFreed ==
    ASSUME Live, NEW t \in Tasks, UNCHANGED <<session, poolVars, regions, trans, cVars, crossed>>,
           \/ task[t] = "live" /\ task' = [task EXCEPT ![t] = "final"]
           \/ task[t] = "final" /\ task' = [task EXCEPT ![t] = "freed"]
    PROVE  Inv'
  <1>1. \A u \in Tasks : u # t => task'[u] = task[u]
    BY DEF Live, Inv, TypeOK
  <1>2. task'[t] \in {"final", "freed"} /\ (task[t] = "live" \/ task[t] = "final")
    BY DEF Live, Inv, TypeOK
  <1>3. TypeOK'
    BY DEF Live, Inv, TypeOK, poolVars, cVars
  <1>4. ClientInv'
    BY <1>1, <1>2, TaskMoves
  <1>5. RegionInv' /\ SameInv'
    <2>1. dmabuf' = dmabuf
      BY DEF poolVars
    <2> QED BY <1>1, <1>2, <2>1, RegionFrame
  <1>6. RefsInv'
    <2>1. RefsInv /\ \A b : TaskRefs(b)' = TaskRefs(b) /\ TransRefs(b)' = TransRefs(b)
      BY DEF Live, Inv, TaskRefs, TransRefs
    <2>2. ref' = ref /\ evicted' = evicted /\ used' = used /\ cpc' = cpc /\ cbuf' = cbuf
      BY DEF poolVars, cVars
    <2> QED BY <2>1, <2>2, PoolKept DEF RefsInv
  <1> QED BY <1>3, <1>4, <1>5, <1>6, PoolKept, InvParts

LEMMA FreeTaskInv == ASSUME Live, NEW t \in Tasks, FreeTask(t) PROVE Inv'
  BY TaskFreed DEF FreeTask

LEMMA FinalizeInv == ASSUME Live, NEW t \in Tasks, mpp_task_finalize(t) PROVE Inv'
  <1>1. /\ task[t] = "final" /\ UNCHANGED <<session, trans, cVars, crossed>>
        /\ TypeOK /\ RegionInv /\ RefsInv /\ regions \in [Tasks -> Seq(Region)]
        /\ regions[t] \in Seq(Region)
    BY DEF mpp_task_finalize, Live, Inv, TypeOK
  <1>2. CASE regions[t] = <<>>
    BY <1>1, <1>2, TaskFreed DEF mpp_task_finalize
  <1>3. CASE regions[t] # <<>>
    <2> DEFINE r == Head(regions[t])  h == r.hdl
    <2>1. /\ regions' = [regions EXCEPT ![t] = Tail(@)] /\ task' = task
          /\ r.is_dup => UNCHANGED poolVars
          /\ ~r.is_dup => PutOwn(h)
      BY <1>3 DEF mpp_task_finalize
    <2>2. /\ r \in Region /\ h \in Slots /\ Tail(regions[t]) \in Seq(Region)
          /\ Len(Tail(regions[t])) <= Len(regions[t]) /\ Len(regions[t]) <= MaxAttach
      <3>1. r \in Region /\ Tail(regions[t]) \in Seq(Region)
            /\ Len(Tail(regions[t])) = Len(regions[t]) - 1 /\ Len(regions[t]) \in Nat
        BY <1>1, <1>3
      <3>2. Len(regions[t]) <= MaxAttach
        BY <1>1 DEF RegionInv
      <3> HIDE DEF r
      <3> QED BY <3>1, <3>2 DEF Region
    <2>3. /\ regions' \in [Tasks -> Seq(Region)] /\ regions'[t] = Tail(regions[t])
          /\ \A u \in Tasks : u # t => regions'[u] = regions[u]
      BY <1>1, <2>1, <2>2
    <2>4. regions' = WithoutFirst(regions, t)
      BY <2>1 DEF WithoutFirst
    <2>5. \A c : Cardinality(HeldBy(regions, c)) = Cardinality(HeldBy(regions', c)) + Own(r, c)
      BY <1>1, <1>3, <2>2, <2>4, HeldTail
    <2> HIDE DEF h, r
    <2>6. ClientInv'
      BY <1>1, <2>1, <2>3, TaskMoves
    <2>7. RegionInv'
      <3>1. Len(regions'[t]) <= MaxAttach
        <4>1. Len(Tail(regions[t])) \in Nat /\ Len(regions[t]) \in Nat
          BY <1>1, <2>2
        <4> QED BY <2>2, <2>3, <4>1, DmaAssumption
      <3>2. ASSUME NEW u \in Tasks, u # t
            PROVE  /\ Len(regions'[u]) <= MaxAttach
                   /\ task'[u] = "none" => regions'[u] = <<>>
                   /\ task'[u] \in {"alloc", "live"} =>
                        \A i \in DOMAIN regions'[u] : regions'[u][i].is_dup =>
                          \E j \in DOMAIN regions'[u] : /\ ~regions'[u][j].is_dup
                                                        /\ regions'[u][j].hdl = regions'[u][i].hdl
        <4>1. regions'[u] = regions[u] /\ task'[u] = task[u]
          BY <2>1, <2>3, <3>2
        <4>2. /\ Len(regions[u]) <= MaxAttach
              /\ task[u] = "none" => regions[u] = <<>>
              /\ task[u] \in {"alloc", "live"} =>
                   \A i \in DOMAIN regions[u] : regions[u][i].is_dup =>
                     \E j \in DOMAIN regions[u] : /\ ~regions[u][j].is_dup
                                                  /\ regions[u][j].hdl = regions[u][i].hdl
          BY <1>1 DEF RegionInv
        <4> QED BY <4>1, <4>2
      <3>3. task'[t] = "final"
        BY <1>1, <2>1
      <3> QED BY <3>1, <3>2, <3>3 DEF RegionInv
    <2>8. \A u \in Tasks : task[u] \in {"alloc", "live"} => regions'[u] = regions[u]
      BY <1>1, <2>3
    <2>9. CASE r.is_dup
      <3>1. UNCHANGED poolVars
        BY <2>1, <2>9
      <3>2. /\ ref' = ref /\ evicted' = evicted /\ used' = used /\ cpc' = cpc /\ cbuf' = cbuf
            /\ dmabuf' = dmabuf /\ cfd' = cfd /\ ctask' = ctask
        BY <1>1, <3>1 DEF poolVars, cVars
      <3>3. TypeOK'
        BY <1>1, <2>1, <2>3, <3>1 DEF TypeOK, poolVars, cVars
      <3>4. ASSUME NEW c \in Slots
            PROVE  TaskRefs(c)' = TaskRefs(c) /\ TransRefs(c)' = TransRefs(c)
        <4>1. Own(r, c) = 0
          BY <2>9 DEF Own
        <4>2. Cardinality(HeldBy(regions', c)) = Cardinality(HeldBy(regions, c))
          BY <2>5, <4>1, HeldFinite
        <4>3. TransRefs(c)' = TransRefs(c)
          BY <1>1 DEF TransRefs
        <4> QED BY <1>1, <3>3, <4>2, <4>3, RefsAreHolders, RefsAreHoldersPrime
      <3>5. RefsInv'
        BY <1>1, <3>1, <3>2, <3>4, PoolKept DEF RefsInv
      <3>6. SameInv'
        <4>1. SameInv
          BY DEF Live, Inv
        <4> QED BY <1>1, <2>1, <2>8, <3>2, <4>1 DEF SameInv
      <3> QED BY <1>1, <2>6, <2>7, <3>1, <3>3, <3>5, <3>6, PoolKept, InvParts
    <2>10. CASE ~r.is_dup
      <3>1. PutOwn(h) /\ cpc' = cpc /\ cbuf' = cbuf /\ cfd' = cfd /\ ctask' = ctask
        BY <1>1, <2>1, <2>10 DEF cVars
      <3>2. SameTaken
        BY <3>1 DEF SameTaken
      <3>3. Own(r, h) = 1 /\ \A c : c # h => Own(r, c) = 0
        BY <2>10 DEF Own, h
      <3>4. ref[h] > PoolRef(h) /\ ref[h] \in Nat
        <4>1. /\ ref[h] \in Nat /\ Cardinality(HeldBy(regions, h)) \in Nat
              /\ Cardinality(TransOf(trans, h)) \in Nat
              /\ Cardinality(LocalOf(cpc, cbuf, h)) \in Nat
              /\ PoolRef(h) \in {0, 1}
              /\ ref[h] = PoolRef(h) + Cardinality(HeldBy(regions, h))
                       + Cardinality(TransOf(trans, h)) + Cardinality(LocalOf(cpc, cbuf, h))
          BY <2>2, RefNat
        <4>2. Cardinality(HeldBy(regions, h)) > 0
          BY <2>5, <3>3, HeldFinite
        <4> QED BY <4>1, <4>2
      <3>5. /\ unused' \in Seq(Slots) /\ used' \in Seq(Slots) /\ aged' \in Seq(Slots)
            /\ dmabuf' \in [Slots -> Dmabufs \cup {Null}]
            /\ ref' \in [Slots -> Nat \cup {Saturated}] /\ count' \in 0 .. NSlots
            /\ evicted' \subseteq Elems(used') /\ evicted' \subseteq Slots /\ astray' = astray
            /\ Elems(used') \subseteq Elems(used)
            /\ \A c \in Slots : c # h \/ ref[h] # 1 => dmabuf'[c] = dmabuf[c]
            /\ h \in Elems(used') => ref[h] # 1
            /\ ref'[h] = ref[h] - 1 /\ \A c \in Slots : c # h => ref'[c] = ref[c]
            /\ \A c \in Slots : PoolRef(c)' = PoolRef(c)
            /\ \A q \in Clients : cpc[q] \in {"map", "kref", "insert"} => (ref[h] = 1 => cbuf[q] # h)
            /\ PoolConsistent'
        BY <1>1, <2>2, <3>1, <3>2, <3>4, PutStep
      <3>6. TypeOK'
        BY <1>1, <2>1, <2>3, <3>1, <3>5 DEF TypeOK
      <3>7. ASSUME NEW c \in Slots
            PROVE  ref'[c] = PoolRef(c)' + TaskRefs(c)' + TransRefs(c)' + LocalRefs(c)'
        <4>1. /\ ref[c] = PoolRef(c) + TaskRefs(c) + TransRefs(c) + LocalRefs(c)
              /\ PoolRef(c)' = PoolRef(c)
              /\ TransRefs(c)' = TransRefs(c) /\ LocalRefs(c)' = LocalRefs(c)
          BY <1>1, <3>1, <3>5 DEF RefsInv, TransRefs, LocalRefs
        <4>2. /\ TaskRefs(c) = TaskRefs(c)' + Own(r, c)
              /\ TaskRefs(c)' \in Nat /\ TransRefs(c) \in Nat /\ LocalRefs(c) \in Nat
              /\ PoolRef(c) \in {0, 1}
          BY <1>1, <2>5, <3>6, RefsAreHolders, RefsAreHoldersPrime
        <4>3. ref'[c] = ref[c] - Own(r, c)
          <5>1. CASE c = h
            BY <3>3, <3>5, <5>1
          <5>2. CASE c # h
            <6>1. ref'[c] = ref[c] /\ ref[c] \in Nat /\ Own(r, c) = 0
              BY <3>3, <3>5, <5>2, RefNat
            <6> QED BY <6>1
          <5> QED BY <5>1, <5>2
        <4>4. Own(r, c) \in {0, 1}
          BY DEF Own
        <4> QED BY <4>1, <4>2, <4>3, <4>4
      <3>8. RefsInv'
        <4>1. ASSUME NEW q \in Clients, cpc'[q] = "map" PROVE ref'[cbuf'[q]] = 0
          <5>1. cbuf[q] \in Slots /\ ref[cbuf[q]] = 0
            BY <1>1, <3>1, <4>1 DEF RefsInv, Live, Inv, ClientInv, ClientOK
          <5>2. cbuf[q] # h
            <6>1. ref[h] # 0
              BY <2>2, <3>4, RefNat
            <6> QED BY <5>1, <6>1
          <5> QED BY <3>1, <3>5, <5>1, <5>2
        <4> QED BY <3>5, <3>7, <4>1 DEF RefsInv
      <3>9. SameInv'
        <4>1. ASSUME NEW e \in Slots, e = h PROVE SameInv'
          <5>1. /\ \A c \in Slots : c # e \/ ref[e] # 1 => dmabuf'[c] = dmabuf[c]
                /\ ref[e] = 1 => ref'[e] = 0
                /\ trans' = trans /\ crossed' = crossed
            BY <1>1, <3>5, <4>1
          <5>2. ref'[e] = PoolRef(e)' + TaskRefs(e)' + TransRefs(e)' + LocalRefs(e)'
            BY <3>7
          <5> QED BY <2>1, <2>7, <2>8, <3>6, <5>1, <5>2, PutSame
        <4> QED BY <2>2, <4>1
      <3>10. OnceInv'
        BY <1>1, <2>2, <3>1, <3>5, PutOnce
      <3> QED BY <2>6, <2>7, <3>5, <3>6, <3>8, <3>9, <3>10, InvParts
    <2> QED BY <2>9, <2>10
  <1> QED BY <1>2, <1>3

LEMMA ReleaseFdInv == ASSUME Live, NEW p \in Clients, NEW f \in Fds, ReleaseFd(p, f) PROVE Inv'
  <1> USE DEF taskVars
  <1>1. /\ cpc[p] = "idle" /\ ctask[p] = Null /\ cpc' = [cpc EXCEPT ![p] = "release"]
        /\ UNCHANGED <<session, unused, used, aged, dmabuf, ref, count, evicted, taskVars, ctask,
                       cfd, crossed>>
        /\ TypeOK /\ RefsInv /\ astray = FALSE
    BY ClientTypes DEF ReleaseFd, ClientOK
  <1>2. PICK b \in Match(f) :
          /\ cbuf' = [cbuf EXCEPT ![p] = b]
          /\ LET own == {x \in trans : x.fd = f /\ x.hdl = b} IN
             \/ own = {} /\ astray' = TRUE /\ UNCHANGED trans
             \/ (\E x \in own : trans' = trans \ {x}) /\ UNCHANGED astray
    BY DEF ReleaseFd
  <1>3. b \in Slots
    BY <1>2, ClientTypes DEF Match
  <1>4. cpc'[p] = "release" /\ cbuf'[p] = b /\ ByClient(p)
    BY <1>1, <1>2, <1>3, ClientTypes DEF ByClient
  <1>5. \/ astray' = TRUE /\ trans' = trans
        \/ astray' = astray /\ \E x \in trans : x.hdl = b /\ trans' = trans \ {x}
    BY <1>2
  <1>6. TypeOK'
    <2>1. /\ cpc' \in [Clients -> {"idle", "build", "extra", "evict", "find", "get", "closed",
                         "take", "map", "kref", "insert", "fail", "release", "reset"}]
          /\ cbuf' \in [Clients -> Slots \cup {0}]
      BY <1>1, <1>2, <1>3, ClientTypes
    <2>2. astray' \in BOOLEAN /\ trans' \subseteq Translation
      BY <1>1, <1>5 DEF TypeOK
    <2> QED BY <1>1, <2>1, <2>2 DEF TypeOK
  <1>7. SameTaken
    BY <1>1, <1>4 DEF SameTaken, ByClient
  <1>8. PoolConsistent'
    BY <1>1, <1>7, SameTakenTaken, PoolUnchanged DEF Live
  <1>9. ClientInv'
    <2>1. ClientOK(p)'
      BY <1>1, <1>3, <1>4 DEF ClientOK, Importing
    <2>2. trans' \subseteq trans
      BY <1>5
    <2> QED BY <1>1, <1>4, <2>1, <2>2, Others
  <1>10. RegionInv' /\ (~astray' => SameInv')
    <2>1. RegionInv /\ SameInv /\ task' = task /\ regions' = regions /\ dmabuf' = dmabuf
      BY <1>1, ClientTypes
    <2>2. RegionInv'
      BY <2>1 DEF RegionInv
    <2>3. trans' \subseteq trans
      BY <1>5
    <2> QED BY <1>1, <2>1, <2>2, <2>3 DEF SameInv
  <1>11. OnceInv'
    <2>1. \A q \in Clients : Looking(q)' => Looking(q)
      BY <1>1, <1>4 DEF Looking, ByClient
    <2>2. ASSUME NEW q \in Clients, cpc'[q] \in {"kref", "insert"}
          PROVE  cpc[q] \in {"kref", "insert"} /\ cbuf'[q] = cbuf[q]
      BY <1>4, <2>2 DEF ByClient
    <2> QED BY <1>1, <2>1, <2>2, OnceFrame
  <1>12. ASSUME ~astray' PROVE RefsInv'
    <2>1. PICK x \in trans : x.hdl = b /\ trans' = trans \ {x}
      BY <1>5, <1>12
    <2>2. ASSUME NEW c \in Slots
          PROVE  ref'[c] = PoolRef(c)' + TaskRefs(c)' + TransRefs(c)' + LocalRefs(c)'
      <3>1. PoolRef(c)' = PoolRef(c)
        BY <1>1, <1>4, PoolRefBy
      <3>2. Has(p, c) = 0 /\ Has(p, c)' = IF c = b THEN 1 ELSE 0
        BY <1>1, <1>4 DEF Has, LocalOne
      <3>3. Cardinality(TransOf(trans, c)) =
              Cardinality(TransOf(trans', c)) + (IF c = b THEN 1 ELSE 0)
        <4>1. trans \in SUBSET Translation
          BY <1>1 DEF TypeOK
        <4>2. Cardinality(TransOf(trans, c)) =
                Cardinality(TransOf(trans \ {x}, c)) + (IF x.hdl = c THEN 1 ELSE 0)
          BY <4>1, TransRemove
        <4> QED BY <2>1, <4>2
      <3>4. ref'[c] + PoolRef(c) + Has(p, c)
               + Cardinality(HeldBy(regions, c)) + Cardinality(TransOf(trans, c)) =
            ref[c] + PoolRef(c)' + Has(p, c)'
               + Cardinality(HeldBy(regions', c)) + Cardinality(TransOf(trans', c))
        <4>1. /\ ref[c] \in Nat /\ Cardinality(HeldBy(regions, c)) \in Nat
              /\ Cardinality(TransOf(trans, c)) \in Nat /\ PoolRef(c) \in {0, 1}
              /\ regions' = regions /\ ref' = ref
          BY <1>1, RefNat
        <4>2. Cardinality(TransOf(trans', c)) \in Nat
          BY <1>6, TransFinite DEF TypeOK
        <4> QED BY <3>1, <3>2, <3>3, <4>1, <4>2
      <3> QED BY <1>4, <1>6, <3>4, RefsStep
    <2>3. ASSUME NEW q \in Clients, cpc'[q] = "map" PROVE ref'[cbuf'[q]] = 0
      <3>1. cpc[q] = "map" /\ cbuf'[q] = cbuf[q]
        BY <1>7, <2>3 DEF SameTaken
      <3> QED BY <1>1, <3>1 DEF RefsInv
    <2>4. evicted' \subseteq Elems(used')
      BY <1>1 DEF RefsInv
    <2> QED BY <2>2, <2>3, <2>4 DEF RefsInv
  <1> QED BY <1>6, <1>8, <1>9, <1>10, <1>11, <1>12, InvParts

\* The pool is gone, and every reference it had with it.
LEMMA DestroyInv == ASSUME Live, NEW p \in Clients, mpp_dma_session_destroy(p) PROVE Inv'
  <1> USE DEF taskVars
  <1>1. /\ cpc[p] = "reset" /\ ctask[p] = Null /\ \A q \in Clients : ~Importing(q)
        /\ session' = "gone" /\ cpc' = [cpc EXCEPT ![p] = "idle"]
        /\ ref' = [b \in Slots |-> IF b \in Elems(used) /\ ref[b] > 0
                                   THEN ref[b] - 1 ELSE ref[b]]
        /\ astray' = (astray \/ evicted # {})
        /\ unused' = <<>> /\ used' = <<>> /\ count' = 0 /\ evicted' = {}
        /\ UNCHANGED <<aged, dmabuf, taskVars, trans, ctask, cfd, cbuf, crossed>>
        /\ TypeOK /\ RefsInv /\ astray = FALSE
    BY ClientTypes DEF mpp_dma_session_destroy, ClientOK
  <1>2. cpc'[p] = "idle" /\ ByClient(p)
    BY <1>1, ClientTypes DEF ByClient
  <1>3. TypeOK'
    <2>1. \A b \in Slots : ref[b] \in Nat
      BY RefNat
    <2>2. ref' \in [Slots -> Nat \cup {Saturated}]
      BY <1>1, <2>1
    <2>3. cpc' \in [Clients -> {"idle", "build", "extra", "evict", "find", "get", "closed",
                         "take", "map", "kref", "insert", "fail", "release", "reset"}]
      BY <1>1, ClientTypes
    <2>4. astray' \in BOOLEAN /\ count' \in 0 .. NSlots
      BY <1>1, DmaAssumption
    <2> QED BY <1>1, <2>2, <2>3, <2>4 DEF TypeOK
  <1>4. PoolConsistent'
    BY <1>1 DEF PoolConsistent
  <1>5. ClientInv'
    <2>1. ClientOK(p)'
      BY <1>1, <1>2 DEF ClientOK, Importing
    <2> QED BY <1>1, <1>2, <2>1, Others
  <1>6. RegionInv' /\ SameInv'
    BY <1>1, RegionFrame
  <1>7. Elems(used') = {} /\ \A q \in Clients : cpc'[q] \notin {"take", "map", "kref", "insert"}
    BY <1>1, <1>2 DEF Elems, Importing, ByClient
  <1>8. OnceInv'
    BY <1>7 DEF OnceInv, Looking
  <1>9. ASSUME ~astray' PROVE RefsInv'
    <2>1. evicted = {}
      BY <1>1, <1>9
    <2>2. ASSUME NEW c \in Slots
          PROVE  ref'[c] = PoolRef(c)' + TaskRefs(c)' + TransRefs(c)' + LocalRefs(c)'
      <3>1. PoolRef(c)' = 0
        BY <1>7 DEF PoolRef
      <3>2. PoolRef(c) = IF c \in Elems(used) THEN 1 ELSE 0
        BY <1>1, <2>1 DEF PoolRef, Importing
      <3>3. Has(p, c) = 0 /\ Has(p, c)' = 0
        BY <1>1, <1>2 DEF Has, LocalOne
      <3>4. /\ ref[c] \in Nat /\ Cardinality(HeldBy(regions, c)) \in Nat
            /\ Cardinality(TransOf(trans, c)) \in Nat
            /\ Cardinality(LocalOf(cpc, cbuf, c)) \in Nat
            /\ ref[c] = PoolRef(c) + Cardinality(HeldBy(regions, c))
                     + Cardinality(TransOf(trans, c)) + Cardinality(LocalOf(cpc, cbuf, c))
            /\ regions' = regions /\ trans' = trans
        BY <1>1, RefNat
      <3>5. ref'[c] = ref[c] - PoolRef(c)
        <4>1. CASE c \in Elems(used)
          <5>1. ref[c] > 0
            BY <3>2, <3>4, <4>1
          <5> QED BY <1>1, <3>2, <4>1, <5>1
        <4>2. CASE c \notin Elems(used)
          BY <1>1, <3>2, <3>4, <4>2
        <4> QED BY <4>1, <4>2
      <3>6. ref'[c] + PoolRef(c) + Has(p, c)
               + Cardinality(HeldBy(regions, c)) + Cardinality(TransOf(trans, c)) =
            ref[c] + PoolRef(c)' + Has(p, c)'
               + Cardinality(HeldBy(regions', c)) + Cardinality(TransOf(trans', c))
        <4>1. PoolRef(c) \in {0, 1}
          BY <3>2
        <4> QED BY <3>1, <3>3, <3>4, <3>5, <4>1
      <3> QED BY <1>2, <1>3, <3>6, RefsStep
    <2> QED BY <1>1, <1>7, <2>2 DEF RefsInv
  <1> QED BY <1>3, <1>4, <1>5, <1>6, <1>8, <1>9, InvParts

-----------------------------------------------------------------------------
(***************************************************************************)
(* The invariant.                                                          *)
(***************************************************************************)

\* The pool as it is created.
LEMMA InitInv == Init => Inv
  <1> SUFFICES ASSUME Init PROVE Inv OBVIOUS
  <1>1. /\ DOMAIN unused = Slots /\ (\A i \in Slots : unused[i] = i)
        /\ unused \in Seq(Slots)
    BY DmaAssumption DEF Init, Slots
  <1>2. Elems(unused) = Slots /\ NoDup(unused)
    BY <1>1 DEF Elems, NoDup
  <1>3. used \in Seq(Slots) /\ Elems(used) = {} /\ NoDup(used) /\ aged \in Seq(Slots)
    BY DEF Init, Elems, NoDup
  <1>4. Cardinality(Elems(used)) = 0
    BY <1>3, FS_EmptySet
  <1>5. TypeOK
    <2>1. astray \in BOOLEAN
      <3>1. astray = FALSE
        BY DEF Init
      <3> QED BY <3>1, Zenon
    <2>2. /\ session \in {"live", "gone"} /\ count \in 0 .. NSlots
          /\ dmabuf \in [Slots -> Dmabufs \cup {Null}] /\ ref \in [Slots -> Nat \cup {Saturated}]
          /\ trans \subseteq Translation /\ evicted \subseteq Slots /\ crossed \subseteq Dmabufs
      BY DmaAssumption DEF Init
    <2>3. /\ task \in [Tasks -> {"none", "alloc", "live", "final", "freed"}]
          /\ regions \in [Tasks -> Seq(Region)]
      BY DEF Init
    <2>4. /\ cpc \in [Clients -> {"idle", "build", "extra", "evict", "find", "get", "closed",
                         "take", "map", "kref", "insert", "fail", "release", "reset"}]
          /\ ctask \in [Clients -> Tasks \cup {Null}] /\ cfd \in [Clients -> Fds \cup {Null}]
          /\ cbuf \in [Clients -> Slots \cup {0}]
      BY DEF Init
    <2> QED BY <1>1, <1>3, <2>1, <2>2, <2>3, <2>4 DEF TypeOK
  <1>6. \A p \in Clients : cpc[p] = "idle" /\ ctask[p] = Null
    BY DEF Init
  <1>7. PoolConsistent
    <2>1. \A p \in Clients : Taken(p) = {}
      BY <1>6 DEF Taken
    <2>2. /\ count = Cardinality(Elems(used))
          /\ \A b \in Elems(unused) : ref[b] \in {0, Saturated}
      BY <1>2, <1>4 DEF Init
    <2>3. Elems(used) \cup Elems(unused) \cup UNION {Taken(p) : p \in Clients} = Slots
      <3> DEFINE U == UNION {Taken(p) : p \in Clients}
      <3>1. \A x : x \notin U
        BY <2>1
      <3> HIDE DEF U
      <3>2. Elems(used) \cup Elems(unused) \cup U = Slots
        BY <1>2, <1>3, <3>1
      <3> QED BY <3>2 DEF U
    <2> QED BY <1>2, <1>3, <2>1, <2>2, <2>3 DEF PoolConsistent
  <1>8. ClientInv
    BY <1>6 DEF ClientInv, ClientOK, Importing
  <1>9. RegionInv /\ SameInv
    BY DmaAssumption DEF Init, RegionInv, SameInv
  <1>10. OnceInv
    BY <1>3, <1>6 DEF OnceInv, Looking
  <1>11. RefsInv
    <2>1. ASSUME NEW b \in Slots
          PROVE  ref[b] = PoolRef(b) + TaskRefs(b) + TransRefs(b) + LocalRefs(b)
      <3>1. PoolRef(b) = 0 /\ ref[b] = 0
        BY <1>3, <1>6 DEF PoolRef, Init
      <3>2. /\ HeldBy(regions, b) = {} /\ TransOf(trans, b) = {}
            /\ LocalOf(cpc, cbuf, b) = {}
        BY <1>6 DEF Init, HeldBy, TransOf, LocalOf
      <3>3. Cardinality({}) = 0
        BY FS_EmptySet
      <3>4. TaskRefs(b) = 0 /\ TransRefs(b) = 0 /\ LocalRefs(b) = 0
        BY <1>5, <3>2, <3>3, RefsAreHolders
      <3> QED BY <3>1, <3>4
    <2> QED BY <1>3, <1>6, <2>1 DEF RefsInv, Init
  <1> QED BY <1>5, <1>7, <1>8, <1>9, <1>10, <1>11 DEF Inv

\* Every step of the clients and of the threads that free tasks keeps Inv.
LEMMA NextInv == Inv /\ [Next]_vars => Inv'
  <1> SUFFICES ASSUME Inv, [Next]_vars PROVE Inv' OBVIOUS
  <1>1. CASE Next
    <2>1. Live
      BY <1>1 DEF Next, Live
    <2>2. ASSUME NEW p \in Clients, Import(p) PROVE Inv'
      BY <2>1, <2>2, CheckCountInv, RemoveExtraInv, FindInv, KrefGetInv, DmaBufGetFailsInv,
         TakeUnusedInv, KrefInitInv, MapFailsInv, KrefRefInv, ImportFdInv DEF Import
    <2>3. ASSUME NEW p \in Clients, Call(p) PROVE Inv'
      BY <2>1, <2>3, TaskInitInv, AttachFdInv, TransFdInv, ReleaseFdInv, AttachFailsInv,
         AllocDoneInv, AllocFailedInv, DmaReleaseFdInv, ResetSessionInv, DestroyInv DEF Call
    <2>4. ASSUME NEW t \in Tasks, FreeTask(t) \/ mpp_task_finalize(t) PROVE Inv'
      BY <2>1, <2>4, FreeTaskInv, FinalizeInv
    <2> QED BY <1>1, <2>2, <2>3, <2>4 DEF Next
  <1>2. CASE UNCHANGED vars
    <2>1. /\ UNCHANGED <<session, unused, used, aged, dmabuf, ref, count, evicted, astray>>
          /\ UNCHANGED <<task, regions, trans, cpc, ctask, cfd, cbuf, crossed>>
      BY <1>2 DEF vars, poolVars, taskVars, cVars
    <2>2. TypeOK' /\ RegionInv'
      BY <2>1 DEF Inv, TypeOK, RegionInv
    <2>3. PoolConsistent'
      BY <2>1, PoolUnchanged DEF Taken
    <2>4. ClientInv'
      BY <2>1 DEF Inv, ClientInv, ClientOK, Importing
    <2>5. OnceInv => OnceInv'
      BY <2>1 DEF OnceInv, Looking
    <2>6. RefsInv => RefsInv'
      BY <2>1 DEF RefsInv, PoolRef, TaskRefs, TransRefs, LocalRefs
    <2>7. SameInv => SameInv'
      BY <2>1 DEF SameInv
    <2> QED BY <2>1, <2>2, <2>3, <2>4, <2>5, <2>6, <2>7 DEF Inv
  <1> QED BY <1>1, <1>2

\* Inv holds in every reachable state of the pool of mpp_iommu.c.
THEOREM Invariance == Spec => []Inv
  <1> QED BY InitInv, NextInv, PTL DEF Spec

\* Type correctness: reference counts saturate instead of wrapping, and
\* buffer_count never exceeds the array of slots.
THEOREM TypeCorrect == Spec => []TypeOK
  <1>1. Inv => TypeOK BY DEF Inv
  <1> QED BY <1>1, Invariance, PTL

\* mpp_dma_import_fd and mpp_dma_release_buffer lose no slot and double none,
\* whatever other threads import, release and evict between the steps of an
\* import, and whatever the setting of max_buffers.
THEOREM PoolNeverLeaks == Spec => []PoolConsistent
  <1>1. Inv => PoolConsistent BY DEF Inv
  <1> QED BY <1>1, Invariance, PTL

\* mpp_dma_find_buffer_fd and the later insertion map a dma_buf twice only when
\* two threads imported it at the same time, or after a put that was nobody's.
THEOREM NeverMappedTwice == Spec => []MappedOnce
  <1>1. Inv => MappedOnce BY DEF Inv, OnceInv, MappedOnce
  <1> QED BY <1>1, Invariance, PTL

\* The reference count of a buffer is the number of its holders, for as long as
\* nobody puts a reference that is not its own.
THEOREM ReferencesExact == Spec => []RefsAccount
  <1>1. Inv => RefsAccount BY DEF Inv, RefsInv, RefsAccount
  <1> QED BY <1>1, Invariance, PTL

\* A task's buffers stay mapped until it is finalized, and the client's until it
\* releases them, for as long as everybody puts its own references.
THEOREM BuffersStayMapped == Spec => []HeldStaysMapped
  <1>1. ASSUME Inv PROVE HeldStaysMapped
    <2>1. SUFFICES ASSUME ~astray PROVE HeldStaysMapped
      BY DEF HeldStaysMapped
    <2>2. TypeOK /\ RegionInv /\ RefsInv /\ SameInv
      BY <1>1, <2>1 DEF Inv
    <2>3. ASSUME NEW b \in Slots,
                 Cardinality(HeldBy(regions, b)) > 0 \/ Cardinality(TransOf(trans, b)) > 0
          PROVE  b \in Mapped
      <3>1. ref[b] = PoolRef(b) + TaskRefs(b) + TransRefs(b) + LocalRefs(b)
        BY <2>2 DEF RefsInv
      <3>2. /\ TaskRefs(b) = Cardinality(HeldBy(regions, b)) /\ TaskRefs(b) \in Nat
            /\ TransRefs(b) = Cardinality(TransOf(trans, b)) /\ TransRefs(b) \in Nat
            /\ LocalRefs(b) \in Nat /\ PoolRef(b) \in {0, 1}
        BY <2>2, RefsAreHolders
      <3>3. ref[b] # 0
        BY <2>3, <3>1, <3>2
      <3> QED BY <3>3 DEF Mapped
    <2>4. ASSUME NEW t \in Tasks, NEW i \in DOMAIN regions[t], task[t] \in {"alloc", "live"}
          PROVE  /\ regions[t][i].hdl \in Mapped
                 /\ \/ DmabufOf[regions[t][i].fd] \in crossed
                    \/ dmabuf[regions[t][i].hdl] = DmabufOf[regions[t][i].fd]
      <3>1. regions[t] \in Seq(Region) /\ Len(regions[t]) <= MaxAttach
        BY <2>2 DEF TypeOK, RegionInv
      <3>2. PICK j \in DOMAIN regions[t] :
                   ~regions[t][j].is_dup /\ regions[t][j].hdl = regions[t][i].hdl
        <4>1. CASE regions[t][i].is_dup
          BY <2>2, <2>4, <4>1 DEF RegionInv
        <4>2. CASE ~regions[t][i].is_dup
          BY <4>2
        <4> QED BY <4>1, <4>2
      <3>3. j \in 1 .. MaxAttach /\ regions[t][j] \in Region
        BY <3>1, DmaAssumption
      <3>4. regions[t][j].hdl \in Slots
        BY <3>3 DEF Region
      <3>5. Cardinality(HeldBy(regions, regions[t][j].hdl)) > 0
        BY <3>2, <3>3, HeldPositive
      <3>6. regions[t][i].hdl \in Mapped
        BY <2>3, <3>2, <3>4, <3>5
      <3> QED BY <2>2, <2>4, <3>6 DEF SameInv
    <2>5. ASSUME NEW x \in trans
          PROVE  x.hdl \in Mapped /\ (DmabufOf[x.fd] \in crossed \/ dmabuf[x.hdl] = DmabufOf[x.fd])
      <3>1. x.hdl \in Slots /\ trans \in SUBSET Translation
        BY <2>2 DEF TypeOK, Translation
      <3>2. Cardinality(TransOf(trans, x.hdl)) > 0
        BY <3>1, TransPositive
      <3> QED BY <2>2, <2>3, <3>1, <3>2 DEF SameInv
    <2> QED BY <2>4, <2>5 DEF HeldStaysMapped
  <1> QED BY <1>1, Invariance, PTL

==============================================================================
