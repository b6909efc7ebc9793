-------------------------- MODULE XradioQueue_proofs --------------------------
(***************************************************************************)
(* Proofs about the transmit queue of queue.c.  The parts of the inductive *)
(* invariant: where the slots are (ListInv), what they hold (ItemInv),     *)
(* where the frames are (FrameInv), whom a packet ID in flight names       *)
(* (TokenInv), that each slot has one packet ID in flight (LoneInv), the   *)
(* counters (CountInv) and, on its own, who stops the queue (LockInv).     *)
(***************************************************************************)
EXTENDS XradioQueue, KernelLists_proofs, TLAPS, FiniteSetTheorems

ItemType == [skb : Opt(Frames), if_id : Opt(Ifs), link_id : Opt(Links),
             generation : 0 .. IGenMod - 1, packetID : Opt(PacketID)]

\* The packet ID that the item in slot i was given.
IdOf(i) == [queue_gen |-> generation[item[i].if_id], item_gen |-> item[i].generation,
            slot |-> i, if_id |-> item[i].if_id]

TypeInv ==
    /\ header \in [Frames -> Opt(PacketID)]
    /\ generation \in [Ifs -> 0 .. QGenMod - 1]
    /\ \A v \in Ifs : generation[v] + (IF flushing = v THEN 1 ELSE 0) <= clears
    /\ gc_timer \in BOOLEAN
    /\ tx \in [Cpus -> Opt(TxFrame)]
    /\ proc \in Opt(ProcFrame)
    /\ bh_tx \in Seq(BhEntry)
    /\ held \in Opt(WorkFrame)
    /\ fw \subseteq FwPacket
    /\ proc # Null => proc.id \in PacketID
    /\ \A p \in fw : p.id \in PacketID
    /\ flushing \in Opt(Ifs)
    /\ requeues \in 0 .. MaxRequeues /\ clears \in 0 .. MaxClears

\* Every slot is on one of the three lists, once.
ListInv ==
    /\ queue \in Seq(Slots) /\ pending \in Seq(Slots) /\ free_pool \in Seq(Slots)
    /\ NoDup(queue) /\ NoDup(pending) /\ NoDup(free_pool)
    /\ Elems(queue) \cap Elems(pending) = {}
    /\ Elems(queue) \cap Elems(free_pool) = {}
    /\ Elems(pending) \cap Elems(free_pool) = {}
    /\ Elems(queue) \cup Elems(pending) \cup Elems(free_pool) = Slots

\* A slot that is not free has a frame, and a packet ID of the current
\* generations.
ItemInv ==
    /\ item \in [Slots -> ItemType]
    /\ \A i \in Slots : item[i].skb = Null <=> i \in Elems(free_pool)
    /\ \A i \in Slots \ Elems(free_pool) :
         item[i].if_id \in Ifs /\ item[i].link_id \in Links /\ item[i].packetID = IdOf(i)

\* Where the frames are: on their way to the queue, in an item, to be
\* destroyed, destroyed.
TxFrames == {f \in Frames : \E c \in Cpus : tx[c] # Null /\ tx[c].skb = f}
ItemFrames == {f \in Frames : \E i \in Slots : item[i].skb = f}
DeadFrames == {f \in Frames : destroyed[f] = 1}

FrameInv ==
    /\ gc_list \in Seq(Frames) /\ NoDup(gc_list)
    /\ destroyed \in [Frames -> 0 .. 1]
    /\ \A c, d \in Cpus : tx[c] # Null /\ tx[d] # Null /\ tx[c].skb = tx[d].skb => c = d
    /\ \A i, j \in Slots : item[i].skb = item[j].skb /\ item[i].skb # Null => i = j
    /\ sent = TxFrames \cup ItemFrames \cup Elems(gc_list) \cup DeadFrames
    /\ TxFrames \cap ItemFrames = {} /\ TxFrames \cap Elems(gc_list) = {}
    /\ TxFrames \cap DeadFrames = {} /\ ItemFrames \cap Elems(gc_list) = {}
    /\ ItemFrames \cap DeadFrames = {} /\ Elems(gc_list) \cap DeadFrames = {}

\* A packet ID of the current queue generation.
Now(id) == id.queue_gen = generation[id.if_id]

\* It names the item it was made for, which is in flight.
Names(id) == id.slot \in Elems(pending) /\ item[id.slot].packetID = id

Token(id) == id.queue_gen <= generation[id.if_id] /\ (Now(id) => Names(id))

TokenInv ==
    /\ proc # Null =>
         /\ Token(proc.id)
         /\ Now(proc.id) => item[proc.id.slot].skb = proc.skb
         /\ proc.op = "tx" =>
              Now(proc.id) /\ header[proc.skb] = proc.id /\ flushing = Null
    /\ held # Null => Token(held.id)
    /\ \A p \in fw : /\ Token(p.id)
                     /\ Now(p.id) => item[p.id.slot].skb = p.skb
    /\ \A k \in DOMAIN bh_tx :
         LET e == bh_tx[k] IN
         /\ e.slot \in Elems(pending) /\ item[e.slot].skb = e.skb
         /\ item[e.slot].if_id = e.if_id /\ e.if_id # flushing
         /\ header[e.skb] = item[e.slot].packetID

\* The slots that are named by the bottom half's list, the firmware, the proc
\* thread and a work.
BhSlots == {bh_tx[k].slot : k \in DOMAIN bh_tx}
FwSlots == {p.id.slot : p \in {q \in fw : Now(q.id)}}
ProcSlots == {i \in Slots : proc # Null /\ Now(proc.id) /\ proc.id.slot = i}
HeldSlots == {i \in Slots : held # Null /\ Now(held.id) /\ held.id.slot = i}

\* A slot is named once.
LoneInv ==
    /\ \A j, k \in DOMAIN bh_tx : bh_tx[j].slot = bh_tx[k].slot => j = k
    /\ BhSlots \cap FwSlots = {} /\ BhSlots \cap ProcSlots = {} /\ BhSlots \cap HeldSlots = {}
    /\ FwSlots \cap ProcSlots = {} /\ FwSlots \cap HeldSlots = {}
    /\ ProcSlots \cap HeldSlots = {}

\* The frames of the queue per interface and link: waiting, in flight, both.
WaitAt(v) == {i \in Elems(queue) : item[i].if_id = v}
FlyAt(v) == {i \in Elems(pending) : item[i].if_id = v}
BothAt(v) == {i \in Elems(queue) \cup Elems(pending) : item[i].if_id = v}
WaitLink(v, l) == {i \in Elems(queue) : item[i].if_id = v /\ item[i].link_id = l}

CountInv ==
    /\ num_queued_vif \in [Ifs -> Int] /\ num_pending_vif \in [Ifs -> Int]
    /\ stats_num_queued \in [Ifs -> Int] /\ link_map_cache \in [Ifs -> [Links -> Int]]
    /\ num_queued = Len(queue) + Len(pending) /\ num_pending = Len(pending)
    /\ \A v \in Ifs :
         /\ num_queued_vif[v] = Cardinality(BothAt(v))
         /\ num_pending_vif[v] = Cardinality(FlyAt(v))
         /\ stats_num_queued[v] = Cardinality(WaitAt(v))
         /\ \A l \in Links : link_map_cache[v][l] = Cardinality(WaitLink(v, l))

LockInv ==
    /\ overfull \in BOOLEAN /\ ext_lock \in BOOLEAN /\ tx_locked_cnt \in Int
    /\ LockBalanced

Inv == TypeInv /\ ListInv /\ ItemInv /\ FrameInv /\ TokenInv /\ LoneInv /\ CountInv

-----------------------------------------------------------------------------
(***************************************************************************)
(* Which slots move.                                                       *)
(***************************************************************************)

\* The lists hold these slots after the step.
Moved(Q, P, F) ==
    /\ Elems(queue)' = Q /\ Elems(pending)' = P /\ Elems(free_pool)' = F
    /\ ListInv'

\* A slot in flight whose packet ID is accepted is freed, or goes back.
Leaves(id) == GenerationsMatch(id) /\ xradio_queue_remove(id)
Returns(id) == GenerationsMatch(id) /\ xradio_queue_requeue(id, FALSE)

LEMMA RequeueCases ==
    ASSUME NEW id, NEW check \in BOOLEAN, xradio_queue_requeue(id, check)
    PROVE  \/ Leaves(id)
           \/ Returns(id)
           \/ UNCHANGED <<listVars, countVars, lockVars, destroyed>> /\ ~GenerationsMatch(id)
  <1>1. CASE id # Null /\ check /\ item[id.slot].if_id = GenericIf
    <2>1. xradio_queue_remove(id)
      BY <1>1 DEF xradio_queue_requeue
    <2>2. CASE GenerationsMatch(id)
      BY <2>1, <2>2 DEF Leaves
    <2>3. CASE ~GenerationsMatch(id)
      BY <2>1, <2>3 DEF xradio_queue_remove
    <2> QED BY <2>2, <2>3
  <1>2. CASE ~(id # Null /\ check /\ item[id.slot].if_id = GenericIf)
    <2>1. CASE GenerationsMatch(id)
      <3>1. xradio_queue_requeue(id, FALSE)
        BY <1>2, <2>1 DEF xradio_queue_requeue
      <3> QED BY <2>1, <3>1 DEF Returns
    <2>2. CASE ~GenerationsMatch(id)
      BY <1>2, <2>2 DEF xradio_queue_requeue
    <2> QED BY <2>1, <2>2
  <1> QED BY <1>1, <1>2

LEMMA RemoveCases ==
    ASSUME NEW id, xradio_queue_remove(id)
    PROVE  \/ Leaves(id)
           \/ UNCHANGED <<listVars, countVars, lockVars, destroyed>> /\ ~GenerationsMatch(id)
  BY DEF xradio_queue_remove, Leaves

LEMMA PutMoves ==
    ASSUME ListInv, NEW c \in Cpus, xradio_queue_put(c)
    PROVE  LET i == Head(free_pool)
           IN  /\ i \in Elems(free_pool)
               /\ Moved(Elems(queue) \cup {i}, Elems(pending), Elems(free_pool) \ {i})
  <1> DEFINE i == Head(free_pool)
  <1>1. /\ free_pool # <<>> /\ free_pool' = Tail(free_pool) /\ queue' = Append(queue, i)
        /\ pending' = pending
    BY DEF xradio_queue_put
  <1>2. i \in Elems(free_pool) /\ i \in Slots /\ Tail(free_pool) \in Seq(Slots)
    BY <1>1, ElemsType DEF ListInv
  <1>3. /\ Elems(Tail(free_pool)) = Elems(free_pool) \ {i} /\ NoDup(Tail(free_pool))
    BY <1>1, ElemsTail DEF ListInv
  <1> HIDE DEF i
  <1>4. i \notin Elems(queue)
    BY <1>2 DEF ListInv
  <1>5. /\ Append(queue, i) \in Seq(Slots) /\ NoDup(Append(queue, i))
        /\ Elems(Append(queue, i)) = Elems(queue) \cup {i}
    BY <1>2, <1>4, ElemsAppend DEF ListInv
  <1>6. Moved(Elems(queue) \cup {i}, Elems(pending), Elems(free_pool) \ {i})
    BY <1>1, <1>2, <1>3, <1>5 DEF ListInv, Moved
  <1> QED BY <1>2, <1>6 DEF i

\* The slot that xradio_queue_get takes.
Taken(v, allowed) ==
    LET match == {k \in DOMAIN queue : /\ item[queue[k]].if_id = v
                                       /\ item[queue[k]].link_id \in allowed}
    IN  queue[CHOOSE k \in match : \A m \in match : k <= m]

\* A nonempty set of naturals has a least element.
LEMMA Least ==
    ASSUME NEW K \in SUBSET Nat, K # {}
    PROVE  (CHOOSE k \in K : \A m \in K : k <= m) \in K
  <1> DEFINE R == {ss \in Nat \X Nat : ss[1] < ss[2]}
  <1>1. IsWellFoundedOn(R, Nat)
    BY NatLessThanWellFounded, Zenon DEF OpToRel
  <1> HIDE DEF R
  <1>2. \E k \in K : \A m \in K : ~(<<m, k>> \in R)
    BY <1>1, WFMin
  <1>3. PICK k \in K : \A m \in K : ~(<<m, k>> \in R)
    BY <1>2
  <1>4. ASSUME NEW m \in K PROVE k <= m
    <2>1. k \in Nat /\ m \in Nat /\ <<m, k>> \in Nat \X Nat
      OBVIOUS
    <2>2. <<m, k>>[1] = m /\ <<m, k>>[2] = k
      OBVIOUS
    <2>3. m < k => <<m, k>> \in R
      BY <2>1, <2>2 DEF R
    <2> QED BY <1>3, <2>1, <2>3
  <1> QED BY <1>3, <1>4

LEMMA GetMoves ==
    ASSUME ListInv, NEW v \in Ifs, NEW allowed \in SUBSET Links, xradio_queue_get(v, allowed)
    PROVE  LET i == Taken(v, allowed)
           IN  /\ i \in Elems(queue) /\ item[i].if_id = v
               /\ Moved(Elems(queue) \ {i}, Elems(pending) \cup {i}, Elems(free_pool))
  <1> DEFINE i == Taken(v, allowed)
             match == {k \in DOMAIN queue : /\ item[queue[k]].if_id = v
                                            /\ item[queue[k]].link_id \in allowed}
             k0 == CHOOSE k \in match : \A m \in match : k <= m
  <1>1. match # {} /\ match \in SUBSET Nat /\ i = queue[k0]
    <2>1. match # {}
      BY DEF xradio_queue_get
    <2>2. match \in SUBSET Nat
      BY DEF ListInv
    <2> QED BY <2>1, <2>2 DEF Taken
  <1>2. k0 \in match
    <2> HIDE DEF match
    <2> QED BY <1>1, Least
  <1>3. i \in Elems(queue) /\ item[i].if_id = v /\ i \in Slots
    <2>1. k0 \in DOMAIN queue /\ item[queue[k0]].if_id = v
      BY <1>2
    <2> HIDE DEF k0, i
    <2> QED BY <1>1, <2>1 DEF Elems, ListInv
  <1>4. /\ queue' = ListDel(queue, i) /\ pending' = Append(pending, i) /\ free_pool' = free_pool
    BY DEF xradio_queue_get, Taken
  <1> HIDE DEF i, match, k0
  <1>5. /\ ListDel(queue, i) \in Seq(Slots) /\ NoDup(ListDel(queue, i))
        /\ Elems(ListDel(queue, i)) = Elems(queue) \ {i}
    BY ElemsListDel DEF ListInv
  <1>6. /\ Append(pending, i) \in Seq(Slots) /\ NoDup(Append(pending, i))
        /\ Elems(Append(pending, i)) = Elems(pending) \cup {i}
    <2>1. i \notin Elems(pending)
      BY <1>3 DEF ListInv
    <2> QED BY <1>3, <2>1, ElemsAppend DEF ListInv
  <1>7. Moved(Elems(queue) \ {i}, Elems(pending) \cup {i}, Elems(free_pool))
    BY <1>3, <1>4, <1>5, <1>6 DEF ListInv, Moved
  <1> QED BY <1>3, <1>7 DEF i

LEMMA LeaveMoves ==
    ASSUME ListInv, NEW id \in PacketID, id.slot \in Elems(pending), Leaves(id)
    PROVE  Moved(Elems(queue), Elems(pending) \ {id.slot}, Elems(free_pool) \cup {id.slot})
  <1> DEFINE i == id.slot
  <1>1. /\ queue' = ListDel(queue, i) /\ pending' = ListDel(pending, i)
        /\ free_pool' = <<i>> \o ListDel(free_pool, i)
    BY DEF Leaves, xradio_queue_remove
  <1>2. i \in Slots /\ i \notin Elems(queue) /\ i \notin Elems(free_pool) /\ i \in Elems(pending)
    BY DEF ListInv, PacketID
  <1> HIDE DEF i
  <1>3. ListDel(queue, i) = queue /\ ListDel(free_pool, i) = free_pool
    BY <1>2 DEF ListDel
  <1>4. /\ ListDel(pending, i) \in Seq(Slots) /\ NoDup(ListDel(pending, i))
        /\ Elems(ListDel(pending, i)) = Elems(pending) \ {i}
    BY ElemsListDel DEF ListInv
  <1>5. /\ free_pool' \in Seq(Slots) /\ NoDup(free_pool')
        /\ Elems(free_pool') = Elems(free_pool) \cup {i}
    BY <1>1, <1>2, <1>3, ElemsFirst DEF ListInv
  <1>6. Moved(Elems(queue), Elems(pending) \ {i}, Elems(free_pool) \cup {i})
    BY <1>1, <1>2, <1>3, <1>4, <1>5 DEF ListInv, Moved
  <1> QED BY <1>6 DEF i

LEMMA ReturnMoves ==
    ASSUME ListInv, NEW id \in PacketID, id.slot \in Elems(pending), Returns(id)
    PROVE  Moved(Elems(queue) \cup {id.slot}, Elems(pending) \ {id.slot}, Elems(free_pool))
  <1> DEFINE i == id.slot
  <1>1. /\ queue' = <<i>> \o ListDel(queue, i) /\ pending' = ListDel(pending, i)
        /\ free_pool' = ListDel(free_pool, i)
    BY DEF Returns, xradio_queue_requeue
  <1>2. i \in Slots /\ i \notin Elems(queue) /\ i \notin Elems(free_pool) /\ i \in Elems(pending)
    BY DEF ListInv, PacketID
  <1> HIDE DEF i
  <1>3. ListDel(queue, i) = queue /\ ListDel(free_pool, i) = free_pool
    BY <1>2 DEF ListDel
  <1>4. /\ ListDel(pending, i) \in Seq(Slots) /\ NoDup(ListDel(pending, i))
        /\ Elems(ListDel(pending, i)) = Elems(pending) \ {i}
    BY ElemsListDel DEF ListInv
  <1>5. /\ queue' \in Seq(Slots) /\ NoDup(queue') /\ Elems(queue') = Elems(queue) \cup {i}
    BY <1>1, <1>2, <1>3, ElemsFirst DEF ListInv
  <1>6. Moved(Elems(queue) \cup {i}, Elems(pending) \ {i}, Elems(free_pool))
    BY <1>1, <1>2, <1>3, <1>4, <1>5 DEF ListInv, Moved
  <1> QED BY <1>6 DEF i

\* The first n frames expire.
Expires(n) ==
    LET old == SubSeq(queue, 1, n) IN
    /\ Elems(old) \subseteq Elems(queue) /\ old \in Seq(Slots) /\ NoDup(old) /\ Len(old) = n
    /\ Moved(Elems(queue) \ Elems(old), Elems(pending), Elems(free_pool) \cup Elems(old))

LEMMA GcMoves ==
    ASSUME ListInv, NEW n \in 0 .. Len(queue),
           queue' = SubSeq(queue, n + 1, Len(queue)),
           free_pool' = free_pool \o SubSeq(queue, 1, n), pending' = pending
    PROVE  Expires(n)
  <1> DEFINE old == SubSeq(queue, 1, n)
             new == SubSeq(queue, n + 1, Len(queue))
  <1>1. /\ old \in Seq(Slots) /\ new \in Seq(Slots) /\ Len(old) = n
        /\ Elems(old) \cup Elems(new) = Elems(queue)
        /\ NoDup(old) /\ NoDup(new) /\ Elems(old) \cap Elems(new) = {}
    BY ElemsSplit DEF ListInv
  <1>2. queue' = new /\ free_pool' = free_pool \o old
    OBVIOUS
  <1> HIDE DEF old, new
  <1>3. Elems(free_pool) \cap Elems(old) = {}
    BY <1>1 DEF ListInv
  <1>4. /\ free_pool \o old \in Seq(Slots) /\ NoDup(free_pool \o old)
        /\ Elems(free_pool \o old) = Elems(free_pool) \cup Elems(old)
    BY <1>1, <1>3, ElemsConcat DEF ListInv
  <1>5. Elems(new) = Elems(queue) \ Elems(old)
    BY <1>1
  <1>6. Moved(Elems(queue) \ Elems(old), Elems(pending), Elems(free_pool) \cup Elems(old))
    BY <1>1, <1>2, <1>4, <1>5 DEF ListInv, Moved
  <1> QED BY <1>1, <1>6 DEF old, Expires

\* The slots of the interfaces V, and those that a flush frees.
OfIfs(V) == {i \in Slots : item[i].if_id \in V}
Gone(V) == ListKeep(queue, OfIfs(V)) \o ListKeep(pending, OfIfs(V))

LEMMA ClearMoves ==
    ASSUME ListInv, NEW V, ClearItems(V)
    PROVE  /\ Gone(V) \in Seq(Slots) /\ NoDup(Gone(V))
           /\ Elems(Gone(V)) = (Elems(queue) \cup Elems(pending)) \cap OfIfs(V)
           /\ Len(Gone(V)) = Len(ListKeep(queue, OfIfs(V))) + Len(ListKeep(pending, OfIfs(V)))
           /\ Elems(ListKeep(pending, OfIfs(V))) = Elems(pending) \cap OfIfs(V)
           /\ Moved(Elems(queue) \ OfIfs(V), Elems(pending) \ OfIfs(V),
                    Elems(free_pool) \cup Elems(Gone(V)))
  <1> DEFINE W == OfIfs(V)
             X == Slots \ W
  <1>1. /\ queue' = ListKeep(queue, X) /\ pending' = ListKeep(pending, X)
        /\ free_pool' = free_pool \o Gone(V)
    BY DEF ClearItems, OfIfs, Gone
  <1> HIDE DEF W, X
  <1>2. /\ ListKeep(queue, X) \in Seq(Slots) /\ NoDup(ListKeep(queue, X))
        /\ Elems(ListKeep(queue, X)) = Elems(queue) \cap X
        /\ ListKeep(queue, W) \in Seq(Slots) /\ NoDup(ListKeep(queue, W))
        /\ Elems(ListKeep(queue, W)) = Elems(queue) \cap W
    BY ElemsListKeep DEF ListInv
  <1>3. /\ ListKeep(pending, X) \in Seq(Slots) /\ NoDup(ListKeep(pending, X))
        /\ Elems(ListKeep(pending, X)) = Elems(pending) \cap X
        /\ ListKeep(pending, W) \in Seq(Slots) /\ NoDup(ListKeep(pending, W))
        /\ Elems(ListKeep(pending, W)) = Elems(pending) \cap W
    BY ElemsListKeep DEF ListInv
  <1>4. Gone(V) = ListKeep(queue, W) \o ListKeep(pending, W)
    BY DEF Gone, W
  <1>5. Elems(ListKeep(queue, W)) \cap Elems(ListKeep(pending, W)) = {}
    BY <1>2, <1>3 DEF ListInv
  <1>6. /\ Gone(V) \in Seq(Slots) /\ NoDup(Gone(V))
        /\ Elems(Gone(V)) = Elems(ListKeep(queue, W)) \cup Elems(ListKeep(pending, W))
        /\ Len(Gone(V)) = Len(ListKeep(queue, W)) + Len(ListKeep(pending, W))
    BY <1>2, <1>3, <1>4, <1>5, ElemsConcat
  <1>7. Elems(Gone(V)) = (Elems(queue) \cup Elems(pending)) \cap W
    BY <1>2, <1>3, <1>6
  <1>8. Elems(free_pool) \cap Elems(Gone(V)) = {}
    BY <1>7 DEF ListInv
  <1>9. /\ free_pool' \in Seq(Slots) /\ NoDup(free_pool')
        /\ Elems(free_pool') = Elems(free_pool) \cup Elems(Gone(V))
    BY <1>1, <1>6, <1>8, ElemsConcat DEF ListInv
  <1>10. Elems(queue) \cap X = Elems(queue) \ W /\ Elems(pending) \cap X = Elems(pending) \ W
    BY DEF ListInv, X
  <1>11. Moved(Elems(queue) \ W, Elems(pending) \ W, Elems(free_pool) \cup Elems(Gone(V)))
    <2>1. /\ Elems(queue)' = Elems(queue) \ W /\ Elems(pending)' = Elems(pending) \ W
          /\ Elems(free_pool)' = Elems(free_pool) \cup Elems(Gone(V))
          /\ queue' \in Seq(Slots) /\ pending' \in Seq(Slots) /\ NoDup(queue)' /\ NoDup(pending)'
          /\ free_pool' \in Seq(Slots) /\ NoDup(free_pool)'
      BY <1>1, <1>2, <1>3, <1>9, <1>10
    <2> DEFINE G == Elems(Gone(V))
               q == Elems(queue)
               p == Elems(pending)
               f == Elems(free_pool)
    <2>2. /\ q \cap p = {} /\ q \cap f = {} /\ p \cap f = {} /\ q \cup p \cup f = Slots
          /\ G = (q \cup p) \cap W
      BY <1>7 DEF ListInv
    <2>3. /\ (q \ W) \cap (p \ W) = {} /\ (q \ W) \cap (f \cup G) = {}
          /\ (p \ W) \cap (f \cup G) = {} /\ (q \ W) \cup (p \ W) \cup (f \cup G) = Slots
      <3> HIDE DEF G, q, p, f
      <3> QED BY <2>2
    <2> QED BY <2>1, <2>3 DEF Moved, ListInv
  <1> QED BY <1>3, <1>6, <1>7, <1>11 DEF W

-----------------------------------------------------------------------------
(***************************************************************************)
(* The steps that change the queue.  A packet ID that the checks accept    *)
(* names the item it was made for.                                         *)
(***************************************************************************)
LEMMA MatchNames ==
    ASSUME NEW id, Token(id), GenerationsMatch(id)
    PROVE  Names(id) /\ Now(id)
  BY DEF Token, GenerationsMatch, Now

LEMMA QueueSteps ==
    ASSUME TypeInv, TokenInv, Next
    PROVE  \/ UNCHANGED <<listVars, countVars, generation>>
           \/ \E c \in Cpus : xradio_queue_put(c)
           \/ \E v \in Ifs, allowed \in SUBSET Links : xradio_queue_get(v, allowed)
           \/ \E id \in PacketID : Names(id) /\ Leaves(id) /\ UNCHANGED generation
           \/ \E id \in PacketID : Names(id) /\ Returns(id) /\ UNCHANGED generation
           \/ xradio_queue_gc
           \/ xradio_queue_clear
           \/ xradio_stop
  <1> DEFINE Quiet == UNCHANGED <<listVars, countVars, generation>>
             Leave == \E id \in PacketID : Names(id) /\ Leaves(id) /\ UNCHANGED generation
             Return == \E id \in PacketID : Names(id) /\ Returns(id) /\ UNCHANGED generation
  <1>1. ASSUME NEW c \in Cpus, NEW v \in Ifs, NEW l \in Links, xradio_tx(c, v, l) PROVE Quiet
    BY <1>1 DEF xradio_tx
  <1>2. CASE HandleTx \/ xradio_bh_get \/ xradio_probe_work
    BY <1>2 DEF HandleTx, xradio_bh_get, xradio_probe_work
  <1>3. ASSUME NEW todo, HandleByWork(todo) PROVE Quiet
    BY <1>3 DEF HandleByWork
  <1>4. CASE HandleDrop \/ xradio_tx_confirm_cb
    <2>1. proc # Null /\ xradio_queue_remove(proc.id) /\ UNCHANGED generation
      BY <1>4 DEF HandleDrop, xradio_tx_confirm_cb
    <2>2. proc.id \in PacketID /\ Token(proc.id)
      BY <2>1 DEF TypeInv, TokenInv
    <2>3. Leaves(proc.id) \/ UNCHANGED <<listVars, countVars>>
      BY <2>1, RemoveCases
    <2>4. Leaves(proc.id) => Names(proc.id)
      BY <2>2, MatchNames DEF Leaves
    <2> QED BY <2>1, <2>2, <2>3, <2>4
  <1>5. ASSUME NEW p \in fw, ConfirmRequeue(p) PROVE Quiet \/ Leave \/ Return
    <2>1. xradio_queue_requeue(p.id, TRUE) /\ UNCHANGED generation
      BY <1>5 DEF ConfirmRequeue
    <2>2. p.id \in PacketID /\ Token(p.id)
      BY DEF TypeInv, TokenInv
    <2>3. Leaves(p.id) \/ Returns(p.id) \/ UNCHANGED <<listVars, countVars>>
      BY <2>1, RequeueCases
    <2>4. Leaves(p.id) \/ Returns(p.id) => Names(p.id)
      BY <2>2, MatchNames DEF Leaves, Returns
    <2> QED BY <2>1, <2>2, <2>3, <2>4
  <1>6. ASSUME NEW p \in fw, xradio_queue_get_skb(p) PROVE Quiet
    BY <1>6 DEF xradio_queue_get_skb
  <1>7. CASE WorkRemove
    <2>1. held # Null /\ xradio_queue_remove(held.id) /\ UNCHANGED generation
      BY <1>7 DEF WorkRemove
    <2>2. held.id \in PacketID /\ Token(held.id)
      BY <2>1 DEF TypeInv, TokenInv, WorkFrame, Opt
    <2>3. Leaves(held.id) \/ UNCHANGED <<listVars, countVars>>
      BY <2>1, RemoveCases
    <2>4. Leaves(held.id) => Names(held.id)
      BY <2>2, MatchNames DEF Leaves
    <2> QED BY <2>1, <2>2, <2>3, <2>4
  <1>8. CASE WorkRequeue
    <2>1. /\ held # Null /\ xradio_queue_requeue(held.id, held.todo = "join")
          /\ UNCHANGED generation
      BY <1>8 DEF WorkRequeue
    <2>2. held.id \in PacketID /\ Token(held.id)
      BY <2>1 DEF TypeInv, TokenInv, WorkFrame, Opt
    <2>3. Leaves(held.id) \/ Returns(held.id) \/ UNCHANGED <<listVars, countVars>>
      <3>1. (held.todo = "join") \in BOOLEAN
        OBVIOUS
      <3> QED BY <2>1, <3>1, RequeueCases
    <2>4. Leaves(held.id) \/ Returns(held.id) => Names(held.id)
      BY <2>2, MatchNames DEF Leaves, Returns
    <2> QED BY <2>1, <2>2, <2>3, <2>4
  <1>9. CASE xradio_queue_post_gc \/ xradio_queue_lock \/ xradio_queue_unlock
    BY <1>9 DEF xradio_queue_post_gc, xradio_queue_lock, xradio_queue_unlock
  <1>10. ASSUME NEW v \in Ifs, bh_proc_flush_txqueue(v) PROVE Quiet
    BY <1>10 DEF bh_proc_flush_txqueue
  <1> QED BY <1>1, <1>2, <1>3, <1>4, <1>5, <1>6, <1>7, <1>8, <1>9, <1>10 DEF Next

-----------------------------------------------------------------------------
(***************************************************************************)
(* What the slots hold.                                                    *)
(***************************************************************************)

\* An ID of an item is one that fits in 32 bits.
LEMMA IdType ==
    ASSUME TypeInv, ItemInv, NEW i \in Slots \ Elems(free_pool)
    PROVE  IdOf(i) \in PacketID /\ item[i].packetID = IdOf(i) /\ item[i].skb \in Frames
  BY DEF TypeInv, ItemInv, IdOf, PacketID, ItemType, Opt

LEMMA ItemPut ==
    ASSUME TypeInv, ListInv, ItemInv, NEW c \in Cpus, xradio_queue_put(c)
    PROVE  ItemInv'
  <1> DEFINE i == Head(free_pool)
             t == tx[c]
             new == [skb |-> t.skb, if_id |-> t.if_id, link_id |-> t.link_id, generation |-> 1,
                     packetID |-> [queue_gen |-> generation[t.if_id], item_gen |-> 1,
                                   slot |-> i, if_id |-> t.if_id]]
  <1>1. i \in Elems(free_pool) /\ i \in Slots /\ Elems(free_pool)' = Elems(free_pool) \ {i}
    BY PutMoves, ElemsType DEF ListInv, Moved
  <1>2. item' = [item EXCEPT ![i] = new] /\ UNCHANGED generation /\ t # Null
    BY DEF xradio_queue_put, xradio_queue_make_packet_id
  <1>3. t.skb \in Frames /\ t.if_id \in Ifs /\ t.link_id \in Links
    BY <1>2 DEF TypeInv, TxFrame, Opt
  <1>4. new.packetID \in PacketID
    <2>1. generation[t.if_id] \in 0 .. QGenMod - 1 /\ 1 \in 0 .. IGenMod - 1
      BY <1>3, QueueAssumption DEF TypeInv
    <2> QED BY <1>1, <1>3, <2>1 DEF PacketID
  <1>5. new \in ItemType
    <2>1. 1 \in 0 .. IGenMod - 1
      BY QueueAssumption
    <2> QED BY <1>3, <1>4, <2>1 DEF ItemType, Opt
  <1>6. item' \in [Slots -> ItemType]
    BY <1>1, <1>2, <1>5 DEF ItemInv
  <1>7. ASSUME NEW j \in Slots
        PROVE  /\ item'[j].skb = Null <=> j \in Elems(free_pool)'
               /\ j \notin Elems(free_pool)' =>
                    /\ item'[j].if_id \in Ifs /\ item'[j].link_id \in Links
                    /\ item'[j].packetID = IdOf(j)'
    <2>1. CASE j = i
      <3>1. item'[j] = new
        BY <1>1, <1>2, <2>1 DEF ItemInv
      <3>2. new.skb # Null
        BY <1>3, QueueAssumption
      <3> QED BY <1>1, <1>2, <1>3, <2>1, <3>1, <3>2 DEF IdOf
    <2>2. CASE j # i
      <3>1. item'[j] = item[j]
        BY <1>2, <2>2 DEF ItemInv
      <3> QED BY <1>1, <1>2, <2>2, <3>1 DEF ItemInv, IdOf
    <2> QED BY <2>1, <2>2
  <1> QED BY <1>6, <1>7 DEF ItemInv

LEMMA ItemLeave ==
    ASSUME TypeInv, ListInv, ItemInv, NEW id \in PacketID, Names(id), Leaves(id),
           UNCHANGED generation
    PROVE  ItemInv'
  <1> DEFINE i == id.slot
  <1>1. i \in Slots /\ Elems(free_pool)' = Elems(free_pool) \cup {i}
    BY LeaveMoves DEF Names, Moved, PacketID
  <1>2. item' = [item EXCEPT ![i].skb = Null, ![i].generation = (@ + 1) % IGenMod]
    BY DEF Leaves, xradio_queue_remove
  <1>3. item[i] \in ItemType
    BY <1>1 DEF ItemInv
  <1>4. /\ item'[i] = [item[i] EXCEPT !.skb = Null, !.generation = (@ + 1) % IGenMod]
        /\ \A j \in Slots : j # i => item'[j] = item[j]
        /\ DOMAIN item' = Slots
    BY <1>1, <1>2 DEF ItemInv
  <1>5. (item[i].generation + 1) % IGenMod \in 0 .. IGenMod - 1
    <2>1. item[i].generation \in Nat /\ IGenMod \in Nat /\ IGenMod > 0
      BY <1>3, QueueAssumption DEF ItemType
    <2> QED BY <2>1
  <1>6. item'[i] \in ItemType /\ item'[i].skb = Null
    BY <1>3, <1>4, <1>5 DEF ItemType, Opt
  <1> HIDE DEF i
  <1>7. item' \in [Slots -> ItemType]
    <2>1. \A j \in Slots : item'[j] \in ItemType
      BY <1>4, <1>6 DEF ItemInv
    <2>2. item' = [j \in Slots |-> item'[j]]
      BY <1>2 DEF ItemInv
    <2> QED BY <2>1, <2>2
  <1>8. ASSUME NEW j \in Slots
        PROVE  /\ item'[j].skb = Null <=> j \in Elems(free_pool)'
               /\ j \notin Elems(free_pool)' =>
                    /\ item'[j].if_id \in Ifs /\ item'[j].link_id \in Links
                    /\ item'[j].packetID = IdOf(j)'
    <2>1. CASE j = i
      BY <1>1, <1>6, <2>1
    <2>2. CASE j # i
      BY <1>1, <1>4, <2>2 DEF ItemInv, IdOf
    <2> QED BY <2>1, <2>2
  <1> QED BY <1>7, <1>8 DEF ItemInv

LEMMA ItemReturn ==
    ASSUME TypeInv, ListInv, ItemInv, NEW id \in PacketID, Names(id), Returns(id),
           UNCHANGED generation
    PROVE  ItemInv'
  <1> DEFINE i == id.slot
             g == NextItemGen(id.item_gen)
             new == [queue_gen |-> id.queue_gen, item_gen |-> g, slot |-> i, if_id |-> id.if_id]
  <1>1. i \in Slots /\ Elems(free_pool)' = Elems(free_pool) /\ i \notin Elems(free_pool)
    BY ReturnMoves DEF Names, Moved, PacketID, ListInv
  <1>2. item' = [item EXCEPT ![i].generation = g, ![i].packetID = new]
    BY DEF Returns, xradio_queue_requeue, xradio_queue_make_packet_id
  <1>3. item[i] \in ItemType /\ item[i].if_id = id.if_id /\ generation[id.if_id] = id.queue_gen
    <2>1. item[i] \in ItemType /\ id = IdOf(i)
      BY <1>1 DEF ItemInv, Names
    <2>2. IdOf(i).if_id = item[i].if_id /\ IdOf(i).queue_gen = generation[item[i].if_id]
      BY DEF IdOf
    <2> QED BY <2>1, <2>2
  <1>4. /\ item'[i] = [item[i] EXCEPT !.generation = g, !.packetID = new]
        /\ \A j \in Slots : j # i => item'[j] = item[j]
    BY <1>1, <1>2 DEF ItemInv
  <1>5. g \in 0 .. IGenMod - 1
    <2>1. id.item_gen \in Nat /\ IGenMod \in Nat /\ IGenMod > 0
      BY QueueAssumption DEF PacketID
    <2> QED BY <2>1 DEF NextItemGen
  <1>6. new \in PacketID
    BY <1>5 DEF PacketID
  <1> HIDE DEF new
  <1>7. /\ item'[i] \in ItemType /\ item'[i].skb = item[i].skb /\ item'[i].if_id = item[i].if_id
        /\ item'[i].link_id = item[i].link_id /\ item'[i].packetID = new
        /\ item'[i].generation = g
    BY <1>3, <1>4, <1>5, <1>6 DEF ItemType, Opt
  <1>8. IdOf(i)' = new
    BY <1>3, <1>7 DEF IdOf, new
  <1> HIDE DEF i, g
  <1>9. item' \in [Slots -> ItemType]
    <2>1. \A j \in Slots : item'[j] \in ItemType
      BY <1>4, <1>7 DEF ItemInv
    <2>2. item' = [j \in Slots |-> item'[j]]
      BY <1>2 DEF ItemInv
    <2> QED BY <2>1, <2>2
  <1>10. ASSUME NEW j \in Slots
        PROVE  /\ item'[j].skb = Null <=> j \in Elems(free_pool)'
               /\ j \notin Elems(free_pool)' =>
                    /\ item'[j].if_id \in Ifs /\ item'[j].link_id \in Links
                    /\ item'[j].packetID = IdOf(j)'
    <2>1. CASE j = i
      BY <1>1, <1>7, <1>8, <2>1 DEF ItemInv
    <2>2. CASE j # i
      BY <1>1, <1>4, <2>2 DEF ItemInv, IdOf
    <2> QED BY <2>1, <2>2
  <1> QED BY <1>9, <1>10 DEF ItemInv

\* The frames of the slots G leave, and only their interfaces change generation.
LEMMA ItemEmpty ==
    ASSUME ItemInv, NEW G \in SUBSET Slots, item' = EmptySlots(G),
           Elems(free_pool)' = Elems(free_pool) \cup G,
           \A i \in Slots \ (Elems(free_pool) \cup G) :
             generation'[item[i].if_id] = generation[item[i].if_id]
    PROVE  ItemInv'
  <1>1. /\ \A j \in G : item'[j] = [item[j] EXCEPT !.skb = Null]
        /\ \A j \in Slots \ G : item'[j] = item[j]
        /\ item' = [j \in Slots |-> item'[j]]
    BY DEF EmptySlots
  <1>2. ASSUME NEW j \in G PROVE item'[j] \in ItemType /\ item'[j].skb = Null
    <2>1. item[j] \in ItemType /\ item'[j] = [item[j] EXCEPT !.skb = Null]
      BY <1>1 DEF ItemInv
    <2> QED BY <2>1 DEF ItemType, Opt
  <1>3. item' \in [Slots -> ItemType]
    <2>1. \A j \in Slots : item'[j] \in ItemType
      BY <1>1, <1>2 DEF ItemInv
    <2> QED BY <1>1, <2>1
  <1>4. ASSUME NEW j \in Slots
        PROVE  /\ item'[j].skb = Null <=> j \in Elems(free_pool)'
               /\ j \notin Elems(free_pool)' =>
                    /\ item'[j].if_id \in Ifs /\ item'[j].link_id \in Links
                    /\ item'[j].packetID = IdOf(j)'
    <2>1. CASE j \in G
      BY <1>2, <2>1
    <2>2. CASE j \notin G
      BY <1>1, <2>2 DEF ItemInv, IdOf
    <2> QED BY <2>1, <2>2
  <1> QED BY <1>3, <1>4 DEF ItemInv

LEMMA ItemStep ==
    ASSUME TypeInv, ListInv, ItemInv, TokenInv, Next
    PROVE  ListInv' /\ ItemInv'
  <1>1. CASE UNCHANGED <<listVars, countVars, generation>>
    <2>1. UNCHANGED <<queue, pending, free_pool, item, generation>>
      BY <1>1 DEF listVars
    <2> QED BY <2>1 DEF ListInv, ItemInv, IdOf
  <1>2. ASSUME NEW c \in Cpus, xradio_queue_put(c) PROVE ListInv' /\ ItemInv'
    BY <1>2, PutMoves, ItemPut DEF Moved
  <1>3. ASSUME NEW v \in Ifs, NEW allowed \in SUBSET Links, xradio_queue_get(v, allowed)
        PROVE  ListInv' /\ ItemInv'
    <2>1. ListInv' /\ Elems(free_pool)' = Elems(free_pool)
      BY <1>3, GetMoves DEF Moved
    <2>2. UNCHANGED <<item, generation>>
      BY <1>3 DEF xradio_queue_get
    <2> QED BY <2>1, <2>2 DEF ItemInv, IdOf
  <1>4. ASSUME NEW id \in PacketID, Names(id), Leaves(id), UNCHANGED generation
        PROVE  ListInv' /\ ItemInv'
    BY <1>4, LeaveMoves, ItemLeave DEF Moved, Names
  <1>5. ASSUME NEW id \in PacketID, Names(id), Returns(id), UNCHANGED generation
        PROVE  ListInv' /\ ItemInv'
    BY <1>5, ReturnMoves, ItemReturn DEF Moved, Names
  <1>6. CASE xradio_queue_gc
    <2>1. PICK n \in 0 .. Len(queue) :
            /\ queue' = SubSeq(queue, n + 1, Len(queue))
            /\ free_pool' = free_pool \o SubSeq(queue, 1, n)
            /\ item' = EmptySlots(Elems(SubSeq(queue, 1, n)))
            /\ pending' = pending /\ generation' = generation
      BY <1>6 DEF xradio_queue_gc
    <2> DEFINE G == Elems(SubSeq(queue, 1, n))
    <2>2. Expires(n)
      BY <2>1, GcMoves
    <2>3. G \subseteq Slots /\ ListInv' /\ Elems(free_pool)' = Elems(free_pool) \cup G
      BY <2>2 DEF Expires, Moved, ListInv
    <2> HIDE DEF G
    <2>4. item' = EmptySlots(G)
      BY <2>1 DEF G
    <2> QED BY <2>1, <2>3, <2>4, ItemEmpty
  <1>7. CASE xradio_queue_clear
    <2>1. /\ flushing \in Ifs /\ ClearItems({flushing})
          /\ \A v \in Ifs : v # flushing => generation'[v] = generation[v]
      BY <1>7 DEF xradio_queue_clear, TypeInv, Opt
    <2> DEFINE G == Elems(Gone({flushing}))
    <2>2. /\ G = (Elems(queue) \cup Elems(pending)) \cap OfIfs({flushing})
          /\ ListInv' /\ Elems(free_pool)' = Elems(free_pool) \cup G
      BY <2>1, ClearMoves DEF Moved
    <2>3. item' = EmptySlots(G)
      BY <2>1 DEF ClearItems, Gone, OfIfs
    <2> HIDE DEF G
    <2>4. ASSUME NEW i \in Slots \ (Elems(free_pool) \cup G)
          PROVE  generation'[item[i].if_id] = generation[item[i].if_id]
      BY <2>1, <2>2 DEF ItemInv, ListInv, OfIfs
    <2>5. G \subseteq Slots
      BY <2>2 DEF OfIfs
    <2> QED BY <2>2, <2>3, <2>4, <2>5, ItemEmpty
  <1>8. CASE xradio_stop
    <2>1. ClearItems(Ifs) /\ generation' = generation
      BY <1>8 DEF xradio_stop
    <2> DEFINE G == Elems(Gone(Ifs))
    <2>2. /\ G = (Elems(queue) \cup Elems(pending)) \cap OfIfs(Ifs)
          /\ ListInv' /\ Elems(free_pool)' = Elems(free_pool) \cup G
      BY <2>1, ClearMoves DEF Moved
    <2>3. item' = EmptySlots(G)
      BY <2>1 DEF ClearItems, Gone, OfIfs
    <2> HIDE DEF G
    <2>4. G \subseteq Slots
      BY <2>2 DEF OfIfs
    <2> QED BY <2>1, <2>2, <2>3, <2>4, ItemEmpty
  <1> QED BY <1>1, <1>2, <1>3, <1>4, <1>5, <1>6, <1>7, <1>8, QueueSteps


-----------------------------------------------------------------------------
(***************************************************************************)
(* Types of what the threads hold.                                         *)
(***************************************************************************)

\* A flush gives its interface a generation that no packet ID has had.
NoWrap ==
    \A v \in Ifs : generation[v] + (IF flushing = v THEN 1 ELSE 0) <= clears

LEMMA BelowModulus ==
    ASSUME NEW a \in Nat, NEW m \in Nat, a < m
    PROVE  a % m = a
  OBVIOUS

LEMMA NextGeneration ==
    ASSUME TypeInv, xradio_queue_clear
    PROVE  /\ flushing \in Ifs /\ flushing' = Null /\ clears' = clears
           /\ generation' = [generation EXCEPT ![flushing] = generation[flushing] + 1]
           /\ generation[flushing] + 1 \in 0 .. QGenMod - 1
           /\ generation[flushing] + 1 <= clears
  <1>1. /\ flushing # Null /\ flushing' = Null /\ clears' = clears
        /\ generation' = [generation EXCEPT ![flushing] = (@ + 1) % QGenMod]
    BY DEF xradio_queue_clear, bound
  <1>2. flushing \in Ifs /\ generation \in [Ifs -> 0 .. QGenMod - 1] /\ clears \in 0 .. MaxClears
    BY <1>1 DEF TypeInv, Opt
  <1>3. generation[flushing] \in Nat /\ generation[flushing] + 1 <= clears
    BY <1>2 DEF TypeInv
  <1>4. generation[flushing] + 1 < QGenMod /\ QGenMod \in Nat
    BY <1>2, <1>3, QueueAssumption
  <1>5. (generation[flushing] + 1) % QGenMod = generation[flushing] + 1
    <2>1. generation[flushing] + 1 \in Nat
      BY <1>3
    <2> QED BY <2>1, <1>4, BelowModulus
  <1>6. generation[flushing] + 1 \in 0 .. QGenMod - 1
    BY <1>3, <1>4
  <1> QED BY <1>1, <1>2, <1>3, <1>5, <1>6

\* The frame that the bottom half writes next.
LEMMA BhHead ==
    ASSUME TypeInv, ListInv, ItemInv, TokenInv, bh_tx # <<>>
    PROVE  LET e == Head(bh_tx) IN
           /\ e \in BhEntry /\ e = bh_tx[1] /\ 1 \in DOMAIN bh_tx
           /\ Tail(bh_tx) \in Seq(BhEntry)
           /\ e.slot \in Elems(pending) /\ e.slot \in Slots /\ e.slot \notin Elems(free_pool)
           /\ item[e.slot].skb = e.skb /\ e.skb \in Frames
           /\ header[e.skb] = IdOf(e.slot) /\ IdOf(e.slot) \in PacketID
  <1>1. /\ Head(bh_tx) \in BhEntry /\ Head(bh_tx) = bh_tx[1] /\ 1 \in DOMAIN bh_tx
        /\ Tail(bh_tx) \in Seq(BhEntry)
    BY DEF TypeInv
  <1> DEFINE e == Head(bh_tx)
  <1>2. /\ e.slot \in Elems(pending) /\ item[e.slot].skb = e.skb
        /\ header[e.skb] = item[e.slot].packetID
    BY <1>1 DEF TokenInv
  <1> HIDE DEF e
  <1>3. e.slot \in Slots \ Elems(free_pool)
    BY <1>2 DEF ListInv
  <1>4. IdOf(e.slot) \in PacketID /\ item[e.slot].packetID = IdOf(e.slot)
        /\ item[e.slot].skb \in Frames
    BY <1>3, IdType
  <1> QED BY <1>1, <1>2, <1>3, <1>4 DEF e

\* TypeInv says nothing of the lists of the queue and of the counters.
typeVars == <<header, generation, gc_timer, tx, proc, bh_tx, held, fw, flushing, requeues,
              clears>>

LEMMA TypeKept ==
    ASSUME TypeInv, UNCHANGED typeVars
    PROVE  TypeInv'
  BY DEF TypeInv, typeVars

LEMMA TypeTake ==
    ASSUME TypeInv, ListInv, ItemInv, NEW v \in Ifs, NEW allowed \in SUBSET Links,
           xradio_queue_get(v, allowed)
    PROVE  TypeInv'
  <1> DEFINE i == Taken(v, allowed)
  <1>1. i \in Elems(queue)
    BY GetMoves
  <1>2. /\ header' = [header EXCEPT ![item[i].skb] = item[i].packetID]
        /\ proc' = [op |-> "tx", id |-> item[i].packetID, skb |-> item[i].skb]
        /\ UNCHANGED <<generation, gc_timer, tx, bh_tx, held, fw, flushing, requeues, clears>>
    BY DEF xradio_queue_get, Taken, stackVars, bound
  <1> HIDE DEF i
  <1>3. i \in Slots \ Elems(free_pool)
    BY <1>1 DEF ListInv
  <1>4. item[i].packetID \in PacketID /\ item[i].skb \in Frames
    BY <1>3, IdType
  <1>5. header' \in [Frames -> Opt(PacketID)]
    BY <1>2, <1>4 DEF TypeInv, Opt
  <1>6. proc' \in Opt(ProcFrame) /\ proc'.id \in PacketID
    BY <1>2, <1>4 DEF ProcFrame, Opt
  <1> QED BY <1>2, <1>5, <1>6 DEF TypeInv

LEMMA TypeHand ==
    ASSUME TypeInv, proc # Null
    PROVE  /\ proc.id \in PacketID /\ proc.skb \in Frames
           /\ [slot |-> proc.id.slot, if_id |-> proc.id.if_id, skb |-> proc.skb] \in BhEntry
  <1>1. proc.id \in PacketID /\ proc.skb \in Frames
    BY DEF TypeInv, Opt, ProcFrame
  <1>2. proc.id.slot \in Slots /\ proc.id.if_id \in Ifs
    BY <1>1 DEF PacketID
  <1> QED BY <1>1, <1>2 DEF BhEntry

\* The frame that the stack sends next.
LEMMA NextFrame ==
    ASSUME FrameInv, NEW c \in Cpus, NEW v \in Ifs, NEW l \in Links, xradio_tx(c, v, l)
    PROVE  LET f == CHOOSE f \in Frames : f \notin sent IN
           /\ f \in Frames /\ f \notin sent /\ sent' = sent \cup {f} /\ tx[c] = Null
           /\ tx' = [tx EXCEPT ![c] = [skb |-> f, if_id |-> v, link_id |-> l]]
  <1>1. sent \subseteq Frames /\ sent # Frames
    <2>1. Elems(gc_list) \subseteq Frames
      BY ElemsType DEF FrameInv
    <2> QED BY <2>1 DEF FrameInv, TxFrames, ItemFrames, DeadFrames, xradio_tx
  <1>2. \E f \in Frames : f \notin sent
    BY <1>1
  <1> QED BY <1>2 DEF xradio_tx

LEMMA TypeTx ==
    ASSUME TypeInv, FrameInv, NEW c \in Cpus, NEW v \in Ifs, NEW l \in Links, xradio_tx(c, v, l)
    PROVE  TypeInv'
  <1> DEFINE f == CHOOSE f \in Frames : f \notin sent
             t == [skb |-> f, if_id |-> v, link_id |-> l]
  <1>1. tx' = [tx EXCEPT ![c] = t] /\ f \in Frames
    BY NextFrame
  <1>2. UNCHANGED <<header, generation, gc_timer, proc, bh_tx, held, fw, flushing, requeues,
                    clears>>
    BY DEF xradio_tx, bound
  <1>3. t \in Opt(TxFrame)
    BY <1>1 DEF TxFrame, Opt
  <1> HIDE DEF t
  <1>4. tx' \in [Cpus -> Opt(TxFrame)]
    BY <1>1, <1>3 DEF TypeInv
  <1> QED BY <1>2, <1>4 DEF TypeInv

LEMMA TypeStep ==
    ASSUME TypeInv, ListInv, ItemInv, FrameInv, TokenInv, Next
    PROVE  TypeInv'
  <1>1. ASSUME NEW c \in Cpus, NEW v \in Ifs, NEW l \in Links, xradio_tx(c, v, l)
        PROVE  TypeInv'
    BY <1>1, TypeTx
  <1>2. ASSUME NEW c \in Cpus, xradio_queue_put(c) PROVE TypeInv'
    <2>1. tx' = [tx EXCEPT ![c] = Null] /\ gc_timer' \in BOOLEAN
      BY <1>2 DEF xradio_queue_put, TypeInv
    <2>2. UNCHANGED <<header, generation, proc, bh_tx, held, fw, flushing, requeues, clears>>
      BY <1>2 DEF xradio_queue_put, bound
    <2>3. tx' \in [Cpus -> Opt(TxFrame)]
      BY <2>1 DEF TypeInv, Opt
    <2> QED BY <2>1, <2>2, <2>3 DEF TypeInv
  <1>3. ASSUME NEW v \in Ifs, NEW allowed \in SUBSET Links, xradio_queue_get(v, allowed)
        PROVE  TypeInv'
    BY <1>3, TypeTake
  <1>4. CASE HandleTx
    <2> DEFINE e == [slot |-> proc.id.slot, if_id |-> proc.id.if_id, skb |-> proc.skb]
    <2>1. proc # Null /\ proc' = Null /\ bh_tx' = Append(bh_tx, e)
      BY <1>4 DEF HandleTx
    <2>2. UNCHANGED <<header, generation, gc_timer, tx, held, fw, flushing, requeues, clears>>
      BY <1>4 DEF HandleTx, stackVars, bound
    <2>3. e \in BhEntry
      BY <2>1, TypeHand
    <2> HIDE DEF e
    <2>4. bh_tx' \in Seq(BhEntry)
      BY <2>1, <2>3 DEF TypeInv
    <2> QED BY <2>1, <2>2, <2>4 DEF TypeInv, Opt
  <1>5. ASSUME NEW todo \in {"probe", "join", "offchannel"}, HandleByWork(todo) PROVE TypeInv'
    <2>1. proc # Null /\ proc' = Null /\ held' = [id |-> proc.id, todo |-> todo]
      BY <1>5 DEF HandleByWork
    <2>2. UNCHANGED <<header, generation, gc_timer, tx, bh_tx, fw, flushing, requeues, clears>>
      BY <1>5 DEF HandleByWork, stackVars, bound
    <2>3. held' \in Opt(WorkFrame)
      BY <2>1, TypeHand DEF WorkFrame, Opt
    <2> QED BY <2>1, <2>2, <2>3 DEF TypeInv, Opt
  <1>6. CASE HandleDrop \/ xradio_tx_confirm_cb
    <2>1. /\ proc' = Null
          /\ UNCHANGED <<header, generation, gc_timer, tx, bh_tx, held, fw, flushing, requeues,
                         clears>>
      BY <1>6 DEF HandleDrop, xradio_tx_confirm_cb, stackVars, bound
    <2> QED BY <2>1 DEF TypeInv, Opt
  <1>7. CASE xradio_bh_get
    <2> DEFINE e == Head(bh_tx)
               p == [id |-> header[e.skb], skb |-> e.skb]
    <2>1. bh_tx # <<>> /\ bh_tx' = Tail(bh_tx)
      BY <1>7 DEF xradio_bh_get
    <2>2. Tail(bh_tx) \in Seq(BhEntry) /\ e.skb \in Frames /\ header[e.skb] \in PacketID
      BY <2>1, BhHead
    <2>3. fw' = fw \cup {p}
      BY <1>7, <2>1, BhHead DEF xradio_bh_get
    <2>4. p \in FwPacket /\ p.id \in PacketID
      BY <2>2 DEF FwPacket, Opt
    <2>5. UNCHANGED <<header, generation, gc_timer, tx, proc, held, flushing, requeues, clears>>
      BY <1>7 DEF xradio_bh_get, stackVars, bound
    <2> HIDE DEF e, p
    <2> QED BY <2>1, <2>2, <2>3, <2>4, <2>5 DEF TypeInv
  <1>8. ASSUME NEW p \in fw, ConfirmRequeue(p) PROVE TypeInv'
    <2>1. /\ fw' = fw \ {p} /\ requeues' = requeues + 1 /\ requeues < MaxRequeues
          /\ UNCHANGED <<header, generation, gc_timer, tx, proc, bh_tx, held, flushing, clears>>
      BY <1>8 DEF ConfirmRequeue, stackVars
    <2>2. requeues' \in 0 .. MaxRequeues
      BY <2>1, QueueAssumption DEF TypeInv
    <2> QED BY <2>1, <2>2 DEF TypeInv
  <1>9. ASSUME NEW p \in fw, xradio_queue_get_skb(p) PROVE TypeInv'
    <2>1. /\ fw' = fw \ {p}
          /\ proc' \in {[op |-> "conf", id |-> p.id, skb |-> p.skb], Null}
          /\ UNCHANGED <<header, generation, gc_timer, tx, bh_tx, held, flushing, requeues,
                         clears>>
      BY <1>9 DEF xradio_queue_get_skb, stackVars, bound
    <2>2. p.id \in PacketID /\ p.skb \in Frames
      BY DEF TypeInv, FwPacket
    <2>3. proc' \in Opt(ProcFrame) /\ (proc' # Null => proc'.id \in PacketID)
      BY <2>1, <2>2 DEF ProcFrame, Opt
    <2> QED BY <2>1, <2>3 DEF TypeInv
  <1>10. CASE xradio_probe_work
    <2>1. /\ held # Null /\ held' \in {[held EXCEPT !.todo = "probed"], Null}
          /\ UNCHANGED <<header, generation, gc_timer, tx, proc, bh_tx, fw, flushing, requeues,
                         clears>>
      BY <1>10 DEF xradio_probe_work, stackVars, bound
    <2>2. held' \in Opt(WorkFrame)
      BY <2>1 DEF TypeInv, WorkFrame, Opt
    <2> QED BY <2>1, <2>2 DEF TypeInv
  <1>11. CASE WorkRemove
    <2>1. /\ held' = Null
          /\ UNCHANGED <<header, generation, gc_timer, tx, proc, bh_tx, fw, flushing, requeues,
                         clears>>
      BY <1>11 DEF WorkRemove, stackVars, bound
    <2> QED BY <2>1 DEF TypeInv, Opt
  <1>12. CASE WorkRequeue
    <2>1. /\ held' = Null /\ requeues' = requeues + 1 /\ requeues < MaxRequeues
          /\ UNCHANGED <<header, generation, gc_timer, tx, proc, bh_tx, fw, flushing, clears>>
      BY <1>12 DEF WorkRequeue, stackVars
    <2>2. requeues' \in 0 .. MaxRequeues
      BY <2>1, QueueAssumption DEF TypeInv
    <2> QED BY <2>1, <2>2 DEF TypeInv, Opt
  <1>13. CASE xradio_queue_gc
    <2>1. /\ gc_timer' \in BOOLEAN
          /\ UNCHANGED <<header, generation, tx, proc, bh_tx, held, fw, flushing, requeues,
                         clears>>
      BY <1>13 DEF xradio_queue_gc, stackVars, bound
    <2> QED BY <2>1 DEF TypeInv
  <1>14. CASE xradio_queue_post_gc \/ xradio_queue_lock \/ xradio_queue_unlock
    <2>1. UNCHANGED typeVars
      BY <1>14 DEF xradio_queue_post_gc, xradio_queue_lock, xradio_queue_unlock, typeVars,
                   stackVars, bound
    <2> QED BY <2>1, TypeKept
  <1>15. ASSUME NEW v \in Ifs, bh_proc_flush_txqueue(v) PROVE TypeInv'
    <2>1. /\ flushing = Null /\ clears < MaxClears /\ flushing' = v /\ clears' = clears + 1
          /\ bh_tx' = ListKeep(bh_tx, {e \in Elems(bh_tx) : e.if_id # v})
          /\ UNCHANGED <<header, generation, gc_timer, tx, proc, held, fw, requeues>>
      BY <1>15 DEF bh_proc_flush_txqueue, stackVars
    <2>2. bh_tx' \in Seq(BhEntry)
      BY <2>1, ElemsListKeep DEF TypeInv
    <2>3. clears' \in 0 .. MaxClears /\ flushing' \in Opt(Ifs)
      BY <2>1, QueueAssumption DEF TypeInv, Opt
    <2>4. NoWrap'
      <3>1. ASSUME NEW w \in Ifs PROVE generation[w] <= clears
        <4>1. flushing # w
          BY <2>1, QueueAssumption
        <4>2. generation[w] \in Int
          BY DEF TypeInv
        <4> QED BY <4>1, <4>2 DEF TypeInv
      <3>2. generation \in [Ifs -> Int] /\ clears \in Int
        BY QueueAssumption DEF TypeInv
      <3> QED BY <2>1, <3>1, <3>2 DEF NoWrap
    <2> QED BY <2>1, <2>2, <2>3, <2>4 DEF TypeInv, NoWrap
  <1>16. CASE xradio_queue_clear
    <2>1. /\ flushing \in Ifs /\ flushing' = Null /\ clears' = clears
          /\ generation' = [generation EXCEPT ![flushing] = generation[flushing] + 1]
          /\ generation[flushing] + 1 \in 0 .. QGenMod - 1 /\ generation[flushing] + 1 <= clears
      BY <1>16, NextGeneration
    <2>2. UNCHANGED <<header, gc_timer, tx, proc, bh_tx, held, fw, requeues>>
      BY <1>16 DEF xradio_queue_clear, stackVars, bound
    <2>3. generation' \in [Ifs -> 0 .. QGenMod - 1]
      BY <2>1 DEF TypeInv
    <2>4. NoWrap'
      <3>1. ASSUME NEW w \in Ifs PROVE generation'[w] <= clears' /\ generation'[w] \in Int
        <4>1. CASE w = flushing
          BY <2>1, <2>3, <4>1 DEF TypeInv
        <4>2. CASE w # flushing
          <5>1. generation[w] + 0 <= clears /\ generation[w] \in Int
            BY <4>2 DEF TypeInv
          <5> QED BY <2>1, <4>2, <5>1 DEF TypeInv
        <4> QED BY <4>1, <4>2
      <3>2. \A w \in Ifs : w # Null
        BY QueueAssumption
      <3> QED BY <2>1, <3>1, <3>2 DEF NoWrap
    <2> QED BY <2>1, <2>2, <2>3, <2>4 DEF TypeInv, Opt, NoWrap
  <1>17. CASE xradio_stop
    <2>1. /\ clears < MaxClears /\ clears' = clears + 1 /\ bh_tx' = <<>>
          /\ UNCHANGED <<header, generation, gc_timer, tx, proc, held, fw, flushing, requeues>>
      BY <1>17 DEF xradio_stop, stackVars
    <2>2. bh_tx' \in Seq(BhEntry) /\ clears' \in 0 .. MaxClears
      BY <2>1, QueueAssumption DEF TypeInv
    <2>3. NoWrap'
      <3>1. generation \in [Ifs -> Int] /\ clears \in Int /\ NoWrap
        BY QueueAssumption DEF TypeInv, NoWrap
      <3> QED BY <2>1, <3>1 DEF NoWrap
    <2> QED BY <2>1, <2>2, <2>3 DEF TypeInv, NoWrap
  <1> QED BY <1>1, <1>2, <1>3, <1>4, <1>5, <1>6, <1>7, <1>8, <1>9, <1>10, <1>11, <1>12, <1>13,
             <1>14, <1>15, <1>16, <1>17 DEF Next

-----------------------------------------------------------------------------
(***************************************************************************)
(* Where the frames are.                                                   *)
(***************************************************************************)

\* The frames of the slots that a list holds.
LEMMA FramesOfList ==
    ASSUME ItemInv, FrameInv, NEW s \in Seq(Slots), NoDup(s), Elems(s) \cap Elems(free_pool) = {}
    PROVE  /\ FramesOf(s) \in Seq(Frames) /\ NoDup(FramesOf(s))
           /\ Elems(FramesOf(s)) = {item[i].skb : i \in Elems(s)}
           /\ Elems(FramesOf(s)) \subseteq ItemFrames
  <1>1. \A k \in DOMAIN s : s[k] \in Elems(s) /\ s[k] \in Slots
    BY DEF Elems
  <1>2. ASSUME NEW i \in Elems(s) PROVE item[i].skb \in Frames /\ item[i].skb # Null
    <2>1. i \in Slots \ Elems(free_pool)
      BY ElemsType
    <2>2. item[i] \in ItemType /\ item[i].skb # Null
      BY <2>1 DEF ItemInv
    <2> QED BY <2>2 DEF ItemType, Opt
  <1>3. /\ DOMAIN s = 1 .. Len(s) /\ Len(s) \in Nat
        /\ FramesOf(s) = [k \in 1 .. Len(s) |-> item[s[k]].skb]
    BY DEF FramesOf
  <1>4. FramesOf(s) \in Seq(Frames) /\ DOMAIN FramesOf(s) = 1 .. Len(s)
    BY <1>1, <1>2, <1>3
  <1>5. ASSUME NEW j \in 1 .. Len(s), NEW k \in 1 .. Len(s), FramesOf(s)[j] = FramesOf(s)[k]
        PROVE  j = k
    <2>1. item[s[j]].skb = item[s[k]].skb /\ item[s[j]].skb # Null
      BY <1>1, <1>2, <1>3, <1>5
    <2>2. s[j] = s[k]
      BY <1>1, <1>3, <2>1 DEF FrameInv
    <2> QED BY <1>3, <2>2 DEF NoDup
  <1>6. NoDup(FramesOf(s))
    BY <1>4, <1>5 DEF NoDup
  <1>7. Elems(FramesOf(s)) = {item[i].skb : i \in Elems(s)}
    BY <1>3, <1>4 DEF Elems
  <1>8. \A i \in Elems(s) : i \in Slots
    BY ElemsType
  <1>9. Elems(FramesOf(s)) \subseteq ItemFrames
    BY <1>2, <1>7, <1>8 DEF ItemFrames
  <1> QED BY <1>4, <1>6, <1>7, <1>9

\* No frame moves.
LEMMA FrameKept ==
    ASSUME FrameInv, UNCHANGED <<tx, gc_list, destroyed, sent>>,
           \A i \in Slots : item'[i].skb = item[i].skb
    PROVE  FrameInv'
  <1>1. TxFrames' = TxFrames /\ DeadFrames' = DeadFrames
    BY DEF TxFrames, DeadFrames
  <1>2. ItemFrames' = ItemFrames
    BY DEF ItemFrames
  <1> QED BY <1>1, <1>2 DEF FrameInv

LEMMA FrameTx ==
    ASSUME TypeInv, FrameInv, NEW c \in Cpus, NEW v \in Ifs, NEW l \in Links, xradio_tx(c, v, l)
    PROVE  FrameInv'
  <1> DEFINE f == CHOOSE f \in Frames : f \notin sent
             t == [skb |-> f, if_id |-> v, link_id |-> l]
  <1>1. /\ f \in Frames /\ f \notin sent /\ sent' = sent \cup {f} /\ tx[c] = Null
        /\ tx' = [tx EXCEPT ![c] = t] /\ t.skb = f
    BY NextFrame
  <1>2. t # Null
    <2>1. t \in TxFrame
      BY <1>1 DEF TxFrame
    <2> HIDE DEF t
    <2> QED BY <2>1, NullDiffers
  <1>3. UNCHANGED <<item, gc_list, destroyed>>
    BY DEF xradio_tx, listVars
  <1> HIDE DEF f, t
  <1>4. /\ tx'[c] = t /\ \A d \in Cpus : d # c => tx'[d] = tx[d]
    BY <1>1 DEF TypeInv
  <1>5. TxFrames' = TxFrames \cup {f}
    BY <1>1, <1>2, <1>4 DEF TxFrames
  <1>6. ItemFrames' = ItemFrames /\ DeadFrames' = DeadFrames
    BY <1>3 DEF ItemFrames, DeadFrames
  <1>7. /\ f \notin TxFrames /\ f \notin ItemFrames /\ f \notin Elems(gc_list)
        /\ f \notin DeadFrames
    BY <1>1 DEF FrameInv
  <1>8. ASSUME NEW d \in Cpus, NEW e \in Cpus, tx'[d] # Null, tx'[e] # Null,
               tx'[d].skb = tx'[e].skb
        PROVE  d = e
    <2>1. \A x \in Cpus : tx[x] # Null /\ tx[x].skb = f => FALSE
      BY <1>1, <1>7 DEF TxFrames
    <2> QED BY <1>1, <1>4, <1>8, <2>1 DEF FrameInv
  <1> DEFINE G == Elems(gc_list)
             T == TxFrames
             I == ItemFrames
             D == DeadFrames
  <1>9. /\ T \cap I = {} /\ T \cap G = {} /\ T \cap D = {} /\ I \cap G = {} /\ I \cap D = {}
        /\ G \cap D = {} /\ sent = T \cup I \cup G \cup D
    BY DEF FrameInv
  <1>10. Elems(gc_list)' = Elems(gc_list)
    BY <1>3
  <1> HIDE DEF G, T, I, D
  <1>11. /\ (T \cup {f}) \cap I = {} /\ (T \cup {f}) \cap G = {} /\ (T \cup {f}) \cap D = {}
         /\ sent' = (T \cup {f}) \cup I \cup G \cup D
    BY <1>1, <1>7, <1>9 DEF G, T, I, D
  <1> QED BY <1>3, <1>5, <1>6, <1>8, <1>9, <1>10, <1>11 DEF FrameInv, G, T, I, D

LEMMA FramePut ==
    ASSUME TypeInv, ListInv, ItemInv, FrameInv, NEW c \in Cpus, xradio_queue_put(c)
    PROVE  FrameInv'
  <1> DEFINE i == Head(free_pool)
             f == tx[c].skb
  <1>1. i \in Slots /\ item[i].skb = Null
    <2>1. i \in Elems(free_pool)
      BY PutMoves
    <2> QED BY <2>1 DEF ListInv, ItemInv
  <1>2. /\ tx[c] # Null /\ tx' = [tx EXCEPT ![c] = Null]
        /\ UNCHANGED <<gc_list, destroyed, sent>>
    BY DEF xradio_queue_put
  <1>3. item'[i].skb = f /\ \A j \in Slots : j # i => item'[j] = item[j]
    BY <1>1 DEF xradio_queue_put, ItemInv
  <1> HIDE DEF i
  <1>4. f \in Frames /\ f # Null /\ f \in TxFrames
    <2>1. f \in Frames
      BY <1>2 DEF TypeInv, Opt, TxFrame
    <2> QED BY <1>2, <2>1, QueueAssumption DEF TxFrames
  <1>5. tx'[c] = Null /\ \A d \in Cpus : d # c => tx'[d] = tx[d]
    BY <1>2 DEF TypeInv
  <1> HIDE DEF f
  <1>6. TxFrames' = TxFrames \ {f}
    <2>1. \A d \in Cpus : tx[d] # Null /\ tx[d].skb = f <=> d = c
      BY <1>2 DEF FrameInv, f
    <2> QED BY <1>5, <2>1 DEF TxFrames
  <1>7. ItemFrames' = ItemFrames \cup {f}
    BY <1>1, <1>3, <1>4, QueueAssumption DEF ItemFrames
  <1>8. DeadFrames' = DeadFrames /\ Elems(gc_list)' = Elems(gc_list) /\ sent' = sent
    BY <1>2 DEF DeadFrames
  <1>9. f \notin ItemFrames /\ f \notin Elems(gc_list) /\ f \notin DeadFrames
    BY <1>4 DEF FrameInv
  <1>10. ASSUME NEW j \in Slots, NEW k \in Slots, item'[j].skb = item'[k].skb, item'[j].skb # Null
         PROVE  j = k
    <2>1. \A m \in Slots : item[m].skb # f
      BY <1>4, <1>9 DEF ItemFrames
    <2> QED BY <1>3, <1>10, <2>1 DEF FrameInv
  <1>11. \A d, e \in Cpus : tx'[d] # Null /\ tx'[e] # Null /\ tx'[d].skb = tx'[e].skb => d = e
    BY <1>5 DEF FrameInv
  <1> DEFINE G == Elems(gc_list)
             T == TxFrames
             I == ItemFrames
             D == DeadFrames
  <1>12. /\ T \cap I = {} /\ T \cap G = {} /\ T \cap D = {} /\ I \cap G = {} /\ I \cap D = {}
         /\ G \cap D = {} /\ sent = T \cup I \cup G \cup D /\ f \in T /\ f \notin G /\ f \notin D
    BY <1>4, <1>9 DEF FrameInv
  <1> HIDE DEF G, T, I, D
  <1>13. /\ (T \ {f}) \cap (I \cup {f}) = {} /\ (T \ {f}) \cap G = {} /\ (T \ {f}) \cap D = {}
         /\ (I \cup {f}) \cap G = {} /\ (I \cup {f}) \cap D = {} /\ G \cap D = {}
         /\ sent = (T \ {f}) \cup (I \cup {f}) \cup G \cup D
    BY <1>12
  <1> QED BY <1>2, <1>6, <1>7, <1>8, <1>10, <1>11, <1>13 DEF FrameInv, G, T, I, D

LEMMA FrameLeave ==
    ASSUME ListInv, ItemInv, FrameInv, NEW id \in PacketID, Names(id), Leaves(id),
           UNCHANGED <<tx, gc_list, sent>>
    PROVE  FrameInv'
  <1> DEFINE i == id.slot
             f == item[i].skb
  <1>1. i \in Slots /\ i \notin Elems(free_pool)
    BY DEF Names, ListInv
  <1>2. /\ item' = [item EXCEPT ![i].skb = Null, ![i].generation = (@ + 1) % IGenMod]
        /\ destroyed' = [g \in Frames |-> destroyed[g] + (IF g = f THEN 1 ELSE 0)]
    BY DEF Leaves, xradio_queue_remove
  <1>3. f \in Frames /\ f # Null /\ item[i] \in ItemType
    <2>1. item[i] \in ItemType /\ item[i].skb # Null
      BY <1>1 DEF ItemInv
    <2> QED BY <2>1 DEF ItemType, Opt
  <1>4. item'[i].skb = Null /\ \A j \in Slots : j # i => item'[j] = item[j]
    <2>1. item'[i] = [item[i] EXCEPT !.skb = Null, !.generation = (@ + 1) % IGenMod]
      BY <1>1, <1>2 DEF ItemInv
    <2>2. \A j \in Slots : j # i => item'[j] = item[j]
      BY <1>2 DEF ItemInv
    <2> QED BY <1>3, <2>1, <2>2 DEF ItemType
  <1>5. f \in ItemFrames
    BY <1>1, <1>3 DEF ItemFrames
  <1>6. f \notin TxFrames /\ f \notin Elems(gc_list) /\ f \notin DeadFrames
    BY <1>5 DEF FrameInv
  <1>7. ItemFrames' = ItemFrames \ {f}
    <2>1. \A j \in Slots : item[j].skb = f => j = i
      BY <1>1, <1>3 DEF FrameInv
    <2> HIDE DEF f
    <2>2. \A g \in Frames : g # Null
      BY QueueAssumption
    <2>3. item[i].skb = f
      BY DEF f
    <2> QED BY <1>1, <1>4, <2>1, <2>2, <2>3 DEF ItemFrames
  <1>8. DeadFrames' = DeadFrames \cup {f} /\ destroyed' \in [Frames -> 0 .. 1]
    <2>1. destroyed \in [Frames -> 0 .. 1] /\ destroyed[f] = 0
      BY <1>3, <1>6 DEF FrameInv, DeadFrames
    <2> HIDE DEF f
    <2>2. destroyed'[f] = 1 /\ \A g \in Frames : g # f => destroyed'[g] = destroyed[g]
      BY <1>2, <1>3, <2>1
    <2> QED BY <1>2, <1>3, <2>1, <2>2 DEF DeadFrames
  <1>9. TxFrames' = TxFrames
    BY DEF TxFrames
  <1>10. \A j, k \in Slots : item'[j].skb = item'[k].skb /\ item'[j].skb # Null => j = k
    BY <1>4 DEF FrameInv
  <1> HIDE DEF i, f
  <1> DEFINE G == Elems(gc_list)
             T == TxFrames
             I == ItemFrames
             D == DeadFrames
  <1>11. /\ T \cap I = {} /\ T \cap G = {} /\ T \cap D = {} /\ I \cap G = {} /\ I \cap D = {}
         /\ G \cap D = {} /\ sent = T \cup I \cup G \cup D /\ f \in I /\ f \notin T /\ f \notin G
    BY <1>5, <1>6 DEF FrameInv
  <1> HIDE DEF G, T, I, D
  <1>12. /\ T \cap (I \ {f}) = {} /\ T \cap G = {} /\ T \cap (D \cup {f}) = {}
         /\ (I \ {f}) \cap G = {} /\ (I \ {f}) \cap (D \cup {f}) = {} /\ G \cap (D \cup {f}) = {}
         /\ sent = T \cup (I \ {f}) \cup G \cup (D \cup {f})
    BY <1>11
  <1> QED BY <1>7, <1>8, <1>9, <1>10, <1>12 DEF FrameInv, G, T, I, D

\* The slots on the list s lose their frames to gc_list.
LEMMA FrameEmpty ==
    ASSUME ItemInv, FrameInv, NEW s \in Seq(Slots), NoDup(s), Elems(s) \cap Elems(free_pool) = {},
           item' = EmptySlots(Elems(s)), gc_list' = gc_list \o FramesOf(s),
           UNCHANGED <<tx, destroyed, sent>>
    PROVE  FrameInv'
  <1> DEFINE N == Elems(FramesOf(s))
             G == Elems(gc_list)
             T == TxFrames
             I == ItemFrames
             D == DeadFrames
  <1>1. /\ FramesOf(s) \in Seq(Frames) /\ NoDup(FramesOf(s)) /\ N \subseteq I
        /\ N = {item[i].skb : i \in Elems(s)}
    BY FramesOfList
  <1>2. /\ T \cap I = {} /\ T \cap G = {} /\ T \cap D = {} /\ I \cap G = {} /\ I \cap D = {}
        /\ G \cap D = {} /\ sent = T \cup I \cup G \cup D
    BY DEF FrameInv
  <1>3. G \cap N = {}
    BY <1>1, <1>2
  <1>4. gc_list' \in Seq(Frames) /\ NoDup(gc_list') /\ Elems(gc_list') = G \cup N
    BY <1>1, <1>3, ElemsConcat DEF FrameInv
  <1>5. /\ \A j \in Slots : j \in Elems(s) => item'[j].skb = Null
        /\ \A j \in Slots : j \notin Elems(s) => item'[j] = item[j]
    <2>1. ASSUME NEW j \in Slots, j \in Elems(s) PROVE item'[j].skb = Null
      <3>1. item[j] \in ItemType /\ item'[j] = [item[j] EXCEPT !.skb = Null]
        BY <2>1 DEF ItemInv, EmptySlots
      <3> QED BY <3>1 DEF ItemType
    <2> QED BY <2>1 DEF EmptySlots
  <1>6. ItemFrames' = I \ N
    <2>1. \A f \in Frames : f # Null
      BY QueueAssumption
    <2>2. ASSUME NEW f \in Frames, f \in ItemFrames' PROVE f \in I /\ f \notin N
      <3>1. PICK j \in Slots : item'[j].skb = f
        BY <2>2 DEF ItemFrames
      <3>2. j \notin Elems(s) /\ item[j].skb = f
        BY <1>5, <2>1, <3>1
      <3>3. f \notin N
        <4>1. SUFFICES ASSUME NEW k \in Elems(s), item[k].skb = f PROVE FALSE
          BY <1>1
        <4>2. k \in Slots
          BY ElemsType
        <4>3. k = j
          BY <2>1, <3>2, <4>1, <4>2 DEF FrameInv
        <4> QED BY <3>2, <4>1, <4>3
      <3> QED BY <3>2, <3>3 DEF ItemFrames
    <2>3. ASSUME NEW f \in Frames, f \in I, f \notin N PROVE f \in ItemFrames'
      <3>1. PICK j \in Slots : item[j].skb = f
        BY <2>3 DEF ItemFrames
      <3>2. j \notin Elems(s)
        BY <1>1, <2>3, <3>1
      <3> QED BY <1>5, <3>1, <3>2 DEF ItemFrames
    <2> QED BY <2>2, <2>3 DEF ItemFrames
  <1>7. TxFrames' = T /\ DeadFrames' = D
    BY DEF TxFrames, DeadFrames
  <1>8. \A j, k \in Slots : item'[j].skb = item'[k].skb /\ item'[j].skb # Null => j = k
    BY <1>5 DEF FrameInv
  <1> HIDE DEF N, G, T, I, D
  <1>9. /\ T \cap (I \ N) = {} /\ T \cap (G \cup N) = {} /\ T \cap D = {}
        /\ (I \ N) \cap (G \cup N) = {} /\ (I \ N) \cap D = {} /\ (G \cup N) \cap D = {}
        /\ sent = T \cup (I \ N) \cup (G \cup N) \cup D
    BY <1>1, <1>2
  <1> QED BY <1>4, <1>6, <1>7, <1>8, <1>9 DEF FrameInv

\* The first frame of gc_list is destroyed.
LEMMA FramePost ==
    ASSUME FrameInv, xradio_queue_post_gc
    PROVE  FrameInv'
  <1> DEFINE h == Head(gc_list)
  <1>1. /\ gc_list # <<>> /\ gc_list' = Tail(gc_list)
        /\ destroyed' = [destroyed EXCEPT ![h] = @ + 1] /\ UNCHANGED <<item, tx, sent>>
    BY DEF xradio_queue_post_gc, listVars, stackVars
  <1>2. /\ h \in Elems(gc_list) /\ h \in Frames /\ gc_list' \in Seq(Frames) /\ NoDup(gc_list')
        /\ Elems(gc_list') = Elems(gc_list) \ {h}
    BY <1>1, ElemsType, ElemsTail DEF FrameInv
  <1> HIDE DEF h
  <1>3. h \notin DeadFrames /\ h \notin TxFrames /\ h \notin ItemFrames
    BY <1>2 DEF FrameInv
  <1>4. DeadFrames' = DeadFrames \cup {h} /\ destroyed' \in [Frames -> 0 .. 1]
    <2>1. destroyed \in [Frames -> 0 .. 1] /\ destroyed[h] = 0
      BY <1>2, <1>3 DEF FrameInv, DeadFrames
    <2>2. destroyed'[h] = 1 /\ \A g \in Frames : g # h => destroyed'[g] = destroyed[g]
      BY <1>1, <1>2, <2>1
    <2> QED BY <1>1, <1>2, <2>1, <2>2 DEF DeadFrames
  <1>5. ItemFrames' = ItemFrames /\ TxFrames' = TxFrames
    BY <1>1 DEF ItemFrames, TxFrames
  <1> DEFINE G == Elems(gc_list)
             T == TxFrames
             I == ItemFrames
             D == DeadFrames
  <1>6. /\ T \cap I = {} /\ T \cap G = {} /\ T \cap D = {} /\ I \cap G = {} /\ I \cap D = {}
        /\ G \cap D = {} /\ sent = T \cup I \cup G \cup D /\ h \in G /\ h \notin T /\ h \notin I
    BY <1>2, <1>3 DEF FrameInv
  <1> HIDE DEF G, T, I, D
  <1>7. /\ T \cap (G \ {h}) = {} /\ T \cap (D \cup {h}) = {} /\ I \cap (G \ {h}) = {}
        /\ I \cap (D \cup {h}) = {} /\ (G \ {h}) \cap (D \cup {h}) = {}
        /\ sent = T \cup I \cup (G \ {h}) \cup (D \cup {h})
    BY <1>6
  <1> QED BY <1>1, <1>2, <1>4, <1>5, <1>6, <1>7 DEF FrameInv, G, T, I, D

LEMMA FrameReturn ==
    ASSUME ListInv, ItemInv, FrameInv, NEW id \in PacketID, Names(id), Returns(id),
           UNCHANGED <<tx, gc_list, sent>>
    PROVE  FrameInv'
  <1> DEFINE i == id.slot
  <1>1. i \in Slots
    BY DEF Names, ListInv
  <1>2. /\ destroyed' = destroyed
        /\ \E g, q : item' = [item EXCEPT ![i].generation = g, ![i].packetID = q]
    BY DEF Returns, xradio_queue_requeue
  <1>3. PICK g, q : item' = [item EXCEPT ![i].generation = g, ![i].packetID = q]
    BY <1>2
  <1>4. ASSUME NEW j \in Slots PROVE item'[j].skb = item[j].skb
    <2>1. CASE j = i
      <3>1. item[i] \in ItemType
        BY <1>1 DEF ItemInv
      <3>2. item'[i] = [item[i] EXCEPT !.generation = g, !.packetID = q]
        BY <1>1, <1>3 DEF ItemInv
      <3> QED BY <2>1, <3>1, <3>2 DEF ItemType
    <2>2. CASE j # i
      BY <1>3, <2>2 DEF ItemInv
    <2> QED BY <2>1, <2>2
  <1> QED BY <1>2, <1>4, FrameKept

LEMMA FrameStep ==
    ASSUME TypeInv, ListInv, ItemInv, FrameInv, TokenInv, Next
    PROVE  FrameInv'
  <1> DEFINE Same == UNCHANGED <<tx, gc_list, sent>>
  <1>1. ASSUME NEW id \in PacketID, Token(id), Leaves(id), Same PROVE FrameInv'
    <2>1. Names(id)
      BY <1>1, MatchNames DEF Leaves
    <2> QED BY <1>1, <2>1, FrameLeave
  <1>2. ASSUME NEW id \in PacketID, Token(id), Returns(id), Same PROVE FrameInv'
    <2>1. Names(id)
      BY <1>2, MatchNames DEF Returns
    <2> QED BY <1>2, <2>1, FrameReturn
  <1>3. ASSUME UNCHANGED <<listVars, countVars, lockVars, destroyed>>, Same PROVE FrameInv'
    <2>1. UNCHANGED <<item, destroyed>>
      BY <1>3 DEF listVars
    <2> QED BY <1>3, <2>1, FrameKept
  <1>4. ASSUME NEW c \in Cpus, NEW v \in Ifs, NEW l \in Links, xradio_tx(c, v, l)
        PROVE  FrameInv'
    BY <1>4, FrameTx
  <1>5. ASSUME NEW c \in Cpus, xradio_queue_put(c) PROVE FrameInv'
    BY <1>5, FramePut
  <1>6. ASSUME NEW v \in Ifs, NEW allowed \in SUBSET Links, xradio_queue_get(v, allowed)
        PROVE  FrameInv'
    <2>1. UNCHANGED <<item, tx, gc_list, destroyed, sent>>
      BY <1>6 DEF xradio_queue_get, stackVars
    <2> QED BY <2>1, FrameKept
  <1>7. CASE HandleTx \/ xradio_bh_get \/ xradio_probe_work \/ xradio_queue_lock
             \/ xradio_queue_unlock
    <2>1. UNCHANGED <<item, tx, gc_list, destroyed, sent>>
      BY <1>7 DEF HandleTx, xradio_bh_get, xradio_probe_work, xradio_queue_lock,
                  xradio_queue_unlock, stackVars, listVars
    <2> QED BY <2>1, FrameKept
  <1>8. ASSUME NEW todo, HandleByWork(todo) PROVE FrameInv'
    <2>1. UNCHANGED <<item, tx, gc_list, destroyed, sent>>
      BY <1>8 DEF HandleByWork, stackVars, listVars
    <2> QED BY <2>1, FrameKept
  <1>9. CASE HandleDrop \/ xradio_tx_confirm_cb
    <2>1. proc # Null /\ xradio_queue_remove(proc.id) /\ Same
      BY <1>9 DEF HandleDrop, xradio_tx_confirm_cb, stackVars
    <2>2. proc.id \in PacketID /\ Token(proc.id)
      BY <2>1 DEF TypeInv, TokenInv
    <2> QED BY <1>1, <1>3, <2>1, <2>2, RemoveCases
  <1>10. ASSUME NEW p \in fw, ConfirmRequeue(p) PROVE FrameInv'
    <2>1. xradio_queue_requeue(p.id, TRUE) /\ Same
      BY <1>10 DEF ConfirmRequeue, stackVars
    <2>2. p.id \in PacketID /\ Token(p.id)
      BY DEF TypeInv, TokenInv
    <2> QED BY <1>1, <1>2, <1>3, <2>1, <2>2, RequeueCases
  <1>11. ASSUME NEW p \in fw, xradio_queue_get_skb(p) PROVE FrameInv'
    <2>1. UNCHANGED <<item, tx, gc_list, destroyed, sent>>
      BY <1>11 DEF xradio_queue_get_skb, stackVars, listVars
    <2> QED BY <2>1, FrameKept
  <1>12. CASE WorkRemove
    <2>1. held # Null /\ xradio_queue_remove(held.id) /\ Same
      BY <1>12 DEF WorkRemove, stackVars
    <2>2. held.id \in PacketID /\ Token(held.id)
      BY <2>1 DEF TypeInv, TokenInv, WorkFrame, Opt
    <2> QED BY <1>1, <1>3, <2>1, <2>2, RemoveCases
  <1>13. CASE WorkRequeue
    <2>1. held # Null /\ xradio_queue_requeue(held.id, held.todo = "join") /\ Same
      BY <1>13 DEF WorkRequeue, stackVars
    <2>2. held.id \in PacketID /\ Token(held.id)
      BY <2>1 DEF TypeInv, TokenInv, WorkFrame, Opt
    <2>3. (held.todo = "join") \in BOOLEAN
      OBVIOUS
    <2> QED BY <1>1, <1>2, <1>3, <2>1, <2>2, <2>3, RequeueCases
  <1>14. CASE xradio_queue_gc
    <2>1. PICK n \in 0 .. Len(queue) :
            /\ queue' = SubSeq(queue, n + 1, Len(queue))
            /\ free_pool' = free_pool \o SubSeq(queue, 1, n)
            /\ item' = EmptySlots(Elems(SubSeq(queue, 1, n)))
            /\ gc_list' = gc_list \o FramesOf(SubSeq(queue, 1, n))
            /\ UNCHANGED <<pending, tx, destroyed, sent>>
      BY <1>14 DEF xradio_queue_gc, stackVars
    <2> DEFINE s == SubSeq(queue, 1, n)
    <2>2. s \in Seq(Slots) /\ NoDup(s) /\ Elems(s) \cap Elems(free_pool) = {}
      BY <2>1, GcMoves DEF Expires, ListInv
    <2>3. item' = EmptySlots(Elems(s)) /\ gc_list' = gc_list \o FramesOf(s)
      BY <2>1
    <2> HIDE DEF s
    <2> QED BY <2>1, <2>2, <2>3, FrameEmpty
  <1>15. ASSUME NEW V, ClearItems(V), UNCHANGED <<tx, destroyed, sent>> PROVE FrameInv'
    <2> DEFINE s == Gone(V)
    <2>1. item' = EmptySlots(Elems(s)) /\ gc_list' = gc_list \o FramesOf(s)
      BY <1>15 DEF ClearItems, Gone, OfIfs
    <2>2. s \in Seq(Slots) /\ NoDup(s) /\ Elems(s) \cap Elems(free_pool) = {}
      BY <1>15, ClearMoves DEF ListInv
    <2> HIDE DEF s
    <2> QED BY <1>15, <2>1, <2>2, FrameEmpty
  <1>16. CASE xradio_queue_post_gc
    BY <1>16, FramePost
  <1>17. ASSUME NEW v \in Ifs, bh_proc_flush_txqueue(v) PROVE FrameInv'
    <2>1. UNCHANGED <<item, tx, gc_list, destroyed, sent>>
      BY <1>17 DEF bh_proc_flush_txqueue, stackVars, listVars
    <2> QED BY <2>1, FrameKept
  <1>18. CASE xradio_queue_clear
    <2>1. ClearItems({flushing}) /\ UNCHANGED <<tx, destroyed, sent>>
      BY <1>18 DEF xradio_queue_clear, stackVars
    <2> QED BY <1>15, <2>1
  <1>19. CASE xradio_stop
    <2>1. ClearItems(Ifs) /\ UNCHANGED <<tx, destroyed, sent>>
      BY <1>19 DEF xradio_stop, stackVars
    <2> QED BY <1>15, <2>1
  <1> QED BY <1>4, <1>5, <1>6, <1>7, <1>8, <1>9, <1>10, <1>11, <1>12, <1>13, <1>14, <1>16,
             <1>17, <1>18, <1>19 DEF Next

-----------------------------------------------------------------------------
(***************************************************************************)
(* Whom the packet IDs name.                                               *)
(***************************************************************************)

\* The item in slot i stays in flight as it is.
Stay(i) ==
    /\ i \in Elems(pending)'
    /\ item'[i].packetID = item[i].packetID /\ item'[i].skb = item[i].skb
    /\ item'[i].if_id = item[i].if_id

\* What TokenInv says of the proc thread, of a packet and of a list entry.
ProcGood(q) ==
    /\ Token(q.id)
    /\ Now(q.id) => item[q.id.slot].skb = q.skb
    /\ q.op = "tx" => Now(q.id) /\ header[q.skb] = q.id /\ flushing = Null

FwGood(p) == Token(p.id) /\ (Now(p.id) => item[p.id.slot].skb = p.skb)

BhGood(e) ==
    /\ e.slot \in Elems(pending) /\ item[e.slot].skb = e.skb
    /\ item[e.slot].if_id = e.if_id /\ e.if_id # flushing
    /\ header[e.skb] = item[e.slot].packetID

LEMMA TokenGood ==
    TokenInv <=> /\ proc # Null => ProcGood(proc)
                 /\ held # Null => Token(held.id)
                 /\ \A p \in fw : FwGood(p)
                 /\ \A k \in DOMAIN bh_tx : BhGood(bh_tx[k])
  BY DEF TokenInv, ProcGood, FwGood, BhGood

LEMMA TokenGoodNext ==
    TokenInv' <=> /\ proc' # Null => ProcGood(proc)'
                  /\ held' # Null => Token(held.id)'
                  /\ \A p \in fw' : FwGood(p)'
                  /\ \A k \in DOMAIN bh_tx' : BhGood(bh_tx[k])'
  BY DEF TokenInv, ProcGood, FwGood, BhGood

\* A packet ID goes on naming an item that stays.
LEMMA TokenKept ==
    ASSUME NEW id, Token(id), UNCHANGED generation, Now(id) => Stay(id.slot)
    PROVE  /\ Token(id)' /\ (Now(id)' <=> Now(id))
           /\ Now(id) => item'[id.slot].skb = item[id.slot].skb
  BY DEF Token, Now, Names, Stay

\* The slots that are named by what a step leaves to the threads.
StillNamed(i) ==
    \/ i \in BhSlots
    \/ \E p \in fw' : Now(p.id) /\ p.id.slot = i
    \/ proc' # Null /\ i \in ProcSlots
    \/ held' # Null /\ i \in HeldSlots

\* A step that uses up packet IDs, and keeps the items that others name.
LEMMA TokenShrink ==
    ASSUME TypeInv, ListInv, TokenInv, LoneInv, fw' \subseteq fw, proc' \in {proc, Null},
           held' \in {held, Null}, UNCHANGED <<bh_tx, header, flushing, generation>>,
           \A i \in Elems(pending) : StillNamed(i) => Stay(i)
    PROVE  TokenInv' /\ LoneInv'
  <1>1. \A id \in PacketID : Token(id) /\ Now(id) => id.slot \in Elems(pending) /\ id.slot \in Slots
    BY DEF Token, Names, ListInv
  <1>2. ASSUME proc' # Null PROVE ProcGood(proc)'
    <2>1. proc' = proc /\ proc.id \in PacketID /\ ProcGood(proc)
      BY <1>2, TokenGood DEF TypeInv
    <2>2. Now(proc.id) => Stay(proc.id.slot)
      BY <1>1, <1>2, <2>1 DEF StillNamed, ProcSlots, ProcGood
    <2>3. /\ Token(proc.id)' /\ (Now(proc.id)' <=> Now(proc.id))
          /\ Now(proc.id) => item'[proc.id.slot].skb = item[proc.id.slot].skb
      <3>1. Token(proc.id)
        BY <2>1 DEF ProcGood
      <3> QED BY <2>1, <2>2, <3>1, TokenKept DEF Token, Now, Names
    <2> QED BY <2>1, <2>3 DEF ProcGood
  <1>3. ASSUME held' # Null PROVE Token(held.id)'
    <2>1. held' = held /\ held.id \in PacketID /\ Token(held.id)
      BY <1>3, TokenGood DEF TypeInv, WorkFrame, Opt
    <2>2. Now(held.id) => Stay(held.id.slot)
      BY <1>1, <1>3, <2>1 DEF StillNamed, HeldSlots
    <2> QED BY <2>1, <2>2, TokenKept DEF Token, Now, Names
  <1>4. ASSUME NEW p \in fw' PROVE FwGood(p)' /\ (Now(p.id)' => Now(p.id))
    <2>1. p.id \in PacketID /\ FwGood(p)
      BY TokenGood DEF TypeInv
    <2>2. Now(p.id) => Stay(p.id.slot)
      BY <1>1, <2>1 DEF StillNamed, FwGood
    <2> QED BY <2>1, <2>2, TokenKept DEF FwGood
  <1>5. ASSUME NEW k \in DOMAIN bh_tx PROVE BhGood(bh_tx[k])'
    <2> DEFINE e == bh_tx[k]
    <2>1. BhGood(e) /\ e.slot \in BhSlots
      BY TokenGood DEF BhSlots
    <2>2. Stay(e.slot)
      BY <2>1 DEF StillNamed, BhGood
    <2> QED BY <2>1, <2>2 DEF BhGood, Stay
  <1>6. TokenInv'
    BY <1>2, <1>3, <1>4, <1>5, TokenGoodNext
  <1>7. BhSlots' = BhSlots /\ FwSlots' \subseteq FwSlots
    BY <1>4 DEF BhSlots, FwSlots
  <1>8. ProcSlots' \subseteq ProcSlots /\ HeldSlots' \subseteq HeldSlots
    BY DEF ProcSlots, HeldSlots, Now
  <1>9. LoneInv'
    BY <1>7, <1>8 DEF LoneInv
  <1> QED BY <1>6, <1>9

\* The packet IDs in use stay good where no item in flight changes.
Calm == UNCHANGED generation /\ \A i \in Elems(pending) : Stay(i)

LEMMA CalmGood ==
    ASSUME Calm
    PROVE  /\ \A id : Now(id)' <=> Now(id)
           /\ \A id : Token(id) => Token(id)'
           /\ \A p : FwGood(p) => Token(p.id)' /\ (Now(p.id) => item'[p.id.slot].skb = p.skb)
           /\ \A e : BhGood(e) /\ header'[e.skb] = header[e.skb] /\ e.if_id # flushing' =>
                /\ e.slot \in Elems(pending)' /\ item'[e.slot].skb = e.skb
                /\ item'[e.slot].if_id = e.if_id /\ e.if_id # flushing'
                /\ header'[e.skb] = item'[e.slot].packetID
  <1>1. \A id : Now(id)' <=> Now(id)
    BY DEF Calm, Now
  <1>2. \A id : Token(id) => Token(id)'
    BY DEF Calm, Token, Now, Names, Stay
  <1>3. \A p : FwGood(p) => Token(p.id)' /\ (Now(p.id) => item'[p.id.slot].skb = p.skb)
    BY <1>2 DEF Calm, FwGood, Token, Now, Names, Stay
  <1>4. ASSUME NEW e, BhGood(e), header'[e.skb] = header[e.skb], e.if_id # flushing'
        PROVE  /\ e.slot \in Elems(pending)' /\ item'[e.slot].skb = e.skb
               /\ item'[e.slot].if_id = e.if_id /\ e.if_id # flushing'
               /\ header'[e.skb] = item'[e.slot].packetID
    BY <1>4 DEF Calm, BhGood, Stay
  <1> QED BY <1>1, <1>2, <1>3, <1>4

\* The queue hands an item that was waiting to the proc thread.
LEMMA TakeStep ==
    ASSUME TypeInv, ListInv, ItemInv, NEW v \in Ifs, NEW allowed \in SUBSET Links,
           xradio_queue_get(v, allowed)
    PROVE  \E i \in Elems(queue) : \E a \in PacketID, f \in Frames :
             /\ i \in Slots \ Elems(pending) /\ Elems(pending)' = Elems(pending) \cup {i}
             /\ item[i].skb = f /\ item[i].packetID = a /\ a.slot = i /\ Now(a)
             /\ header' = [header EXCEPT ![f] = a]
             /\ proc = Null /\ proc' = [op |-> "tx", id |-> a, skb |-> f]
             /\ DropRaces \/ flushing = Null
             /\ UNCHANGED <<item, generation, bh_tx, held, fw, flushing>>
  <1> DEFINE i == Taken(v, allowed)
  <1>1. i \in Elems(queue) /\ Elems(pending)' = Elems(pending) \cup {i}
    BY GetMoves DEF Moved
  <1>2. i \in Slots \ Elems(free_pool) /\ i \notin Elems(pending)
    BY <1>1 DEF ListInv
  <1>3. /\ header' = [header EXCEPT ![item[i].skb] = item[i].packetID]
        /\ proc = Null /\ proc' = [op |-> "tx", id |-> item[i].packetID, skb |-> item[i].skb]
        /\ DropRaces \/ flushing = Null
        /\ UNCHANGED <<item, generation, bh_tx, held, fw, flushing>>
    BY DEF xradio_queue_get, Taken
  <1> HIDE DEF i
  <1>4. IdOf(i) \in PacketID /\ item[i].packetID = IdOf(i) /\ item[i].skb \in Frames
    BY <1>2, IdType
  <1>5. IdOf(i).slot = i /\ Now(IdOf(i))
    BY DEF IdOf, Now
  <1>6. PICK a \in PacketID : a = IdOf(i)
    BY <1>4
  <1>7. PICK f \in Frames : f = item[i].skb
    BY <1>4
  <1>8. Now(a) /\ a.slot = i
    BY <1>5, <1>6 DEF Now
  <1> QED BY <1>1, <1>2, <1>3, <1>4, <1>6, <1>7, <1>8

\* The slots that are named are in flight.
LEMMA NamedInFlight ==
    ASSUME TypeInv, ListInv, TokenInv
    PROVE  BhSlots \cup FwSlots \cup ProcSlots \cup HeldSlots \subseteq Elems(pending)
  <1>1. \A id : Token(id) /\ Now(id) => id.slot \in Elems(pending)
    BY DEF Token, Names
  <1>2. BhSlots \subseteq Elems(pending) /\ FwSlots \subseteq Elems(pending)
    BY <1>1, TokenGood DEF BhSlots, FwSlots, BhGood, FwGood
  <1>3. ProcSlots \subseteq Elems(pending) /\ HeldSlots \subseteq Elems(pending)
    BY <1>1, TokenGood DEF ProcSlots, HeldSlots, ProcGood
  <1> QED BY <1>2, <1>3

LEMMA TokenTake ==
    ASSUME TypeInv, ListInv, ItemInv, FrameInv, TokenInv, LoneInv, DropRaces = FALSE,
           NEW v \in Ifs, NEW allowed \in SUBSET Links, xradio_queue_get(v, allowed)
    PROVE  TokenInv' /\ LoneInv'
  <1>1. PICK i \in Elems(queue) : \E a \in PacketID, f \in Frames :
          /\ i \in Slots \ Elems(pending) /\ Elems(pending)' = Elems(pending) \cup {i}
          /\ item[i].skb = f /\ item[i].packetID = a /\ a.slot = i /\ Now(a)
          /\ header' = [header EXCEPT ![f] = a]
          /\ proc = Null /\ proc' = [op |-> "tx", id |-> a, skb |-> f]
          /\ DropRaces \/ flushing = Null
          /\ UNCHANGED <<item, generation, bh_tx, held, fw, flushing>>
    BY TakeStep
  <1>2. PICK a \in PacketID, f \in Frames :
          /\ i \in Slots \ Elems(pending) /\ Elems(pending)' = Elems(pending) \cup {i}
          /\ item[i].skb = f /\ item[i].packetID = a /\ a.slot = i /\ Now(a)
          /\ header' = [header EXCEPT ![f] = a]
          /\ proc = Null /\ proc' = [op |-> "tx", id |-> a, skb |-> f]
          /\ DropRaces \/ flushing = Null
          /\ UNCHANGED <<item, generation, bh_tx, held, fw, flushing>>
    BY <1>1
  <1>3. Calm
    BY <1>2 DEF Calm, Stay
  <1>4. header'[f] = a /\ \A g \in Frames : g # f => header'[g] = header[g]
    BY <1>2 DEF TypeInv
  <1>5. ProcGood(proc)'
    <2>1. Names(a)' /\ Now(a)'
      BY <1>2 DEF Names, Now
    <2>2. a.queue_gen <= generation'[a.if_id]
      <3>1. a.queue_gen = generation'[a.if_id] /\ a.queue_gen \in Int
        BY <2>1 DEF Now, PacketID
      <3> QED BY <3>1
    <2>3. Token(a)'
      BY <2>1, <2>2 DEF Token
    <2>4. proc'.id = a /\ proc'.skb = f /\ item'[a.slot].skb = f /\ flushing' = Null
      BY <1>2
    <2> QED BY <1>4, <2>1, <2>3, <2>4 DEF ProcGood, Token, Now, Names
  <1>6. ASSUME NEW k \in DOMAIN bh_tx PROVE BhGood(bh_tx[k])'
    <2>1. PICK e \in BhEntry : e = bh_tx[k]
      BY DEF TypeInv
    <2>2. BhGood(e) /\ e.slot \in Elems(pending) /\ e.skb \in Frames /\ item[e.slot].skb = e.skb
      BY <2>1, TokenGood DEF BhGood, BhEntry
    <2>3. e.slot \in Slots /\ e.slot # i
      BY <1>2, <2>2 DEF ListInv
    <2>4. e.skb # f
      <3>1. e.skb # Null
        BY <2>2, QueueAssumption
      <3> QED BY <1>2, <2>2, <2>3, <3>1 DEF FrameInv
    <2>5. header'[e.skb] = header[e.skb] /\ e.if_id # flushing'
      BY <1>2, <1>4, <2>2, <2>4 DEF BhGood
    <2>6. bh_tx'[k] = e
      BY <1>2, <2>1
    <2> QED BY <1>3, <2>2, <2>5, <2>6, CalmGood DEF BhGood
  <1>7. \A p \in fw : FwGood(p)'
    BY <1>3, TokenGood, CalmGood DEF FwGood
  <1>8. held' # Null => Token(held.id)'
    <2>1. held # Null => Token(held.id)'
      BY <1>2, <1>3, TokenGood, CalmGood DEF Token, Now, Names
    <2> QED BY <1>2, <2>1
  <1>9. TokenInv'
    BY <1>2, <1>5, <1>6, <1>7, <1>8, TokenGoodNext
  <1>10. BhSlots' = BhSlots /\ FwSlots' = FwSlots /\ HeldSlots' = HeldSlots
    BY <1>2 DEF BhSlots, FwSlots, HeldSlots, Now
  <1>11. ProcSlots' \subseteq {i}
    BY <1>2 DEF ProcSlots
  <1>12. LoneInv'
    BY <1>2, <1>10, <1>11, NamedInFlight DEF LoneInv
  <1> QED BY <1>9, <1>12

\* A packet ID passes from one thread to the next.
LEMMA QuietCalm ==
    ASSUME UNCHANGED <<listVars, generation>>
    PROVE  Calm
  BY DEF Calm, Stay, listVars

LEMMA TokenToBh ==
    ASSUME TypeInv, ListInv, ItemInv, TokenInv, LoneInv, HandleTx
    PROVE  TokenInv' /\ LoneInv'
  <1> DEFINE e == [slot |-> proc.id.slot, if_id |-> proc.id.if_id, skb |-> proc.skb]
  <1>1. /\ proc # Null /\ proc.op = "tx" /\ proc' = Null /\ bh_tx' = Append(bh_tx, e)
        /\ UNCHANGED <<item, pending, header, generation, held, fw, flushing>>
    BY DEF HandleTx, listVars
  <1>2. Calm
    BY QuietCalm DEF HandleTx
  <1>3. /\ Token(proc.id) /\ Now(proc.id) /\ item[proc.id.slot].skb = proc.skb
        /\ header[proc.skb] = proc.id /\ flushing = Null /\ Names(proc.id)
    BY <1>1, TokenGood DEF ProcGood, Token
  <1>4. proc.id \in PacketID /\ proc.id.slot \in Slots \ Elems(free_pool) /\ proc.id.if_id \in Ifs
    BY <1>1, <1>3, TypeHand DEF Names, ListInv, PacketID
  <1>5. item[proc.id.slot].if_id = proc.id.if_id
    <2>1. proc.id = IdOf(proc.id.slot)
      BY <1>3, <1>4, IdType DEF Names
    <2>2. IdOf(proc.id.slot).if_id = item[proc.id.slot].if_id
      BY DEF IdOf
    <2> QED BY <2>1, <2>2
  <1>6. proc.id.if_id # Null
    BY <1>4, QueueAssumption
  <1>7. BhGood(e)
    BY <1>3, <1>5, <1>6 DEF BhGood, Names
  <1>8. e.slot = proc.id.slot
    OBVIOUS
  <1> HIDE DEF e
  <1>9. /\ bh_tx \in Seq(BhEntry) /\ DOMAIN bh_tx' = 1 .. (Len(bh_tx) + 1)
        /\ DOMAIN bh_tx = 1 .. Len(bh_tx) /\ Len(bh_tx) \in Nat
        /\ bh_tx'[Len(bh_tx) + 1] = e /\ \A k \in 1 .. Len(bh_tx) : bh_tx'[k] = bh_tx[k]
    BY <1>1 DEF TypeInv
  <1>10. ASSUME NEW k \in DOMAIN bh_tx' PROVE BhGood(bh_tx'[k])
    BY <1>7, <1>9, TokenGood
  <1>11. \A k \in DOMAIN bh_tx' : BhGood(bh_tx[k])'
    BY <1>1, <1>10 DEF BhGood
  <1>12. \A p \in fw' : FwGood(p)'
    BY <1>1, TokenGood DEF FwGood, Token, Now, Names
  <1>13. held' # Null => Token(held.id)'
    BY <1>1, TokenGood DEF Token, Now, Names
  <1>14. TokenInv'
    BY <1>1, <1>11, <1>12, <1>13, TokenGoodNext
  <1>15. /\ BhSlots' = BhSlots \cup {proc.id.slot} /\ ProcSlots' = {}
         /\ ProcSlots = {proc.id.slot} /\ FwSlots' = FwSlots /\ HeldSlots' = HeldSlots
    <2>1. BhSlots' = BhSlots \cup {proc.id.slot}
      BY <1>8, <1>9 DEF BhSlots
    <2>2. ProcSlots' = {} /\ ProcSlots = {proc.id.slot}
      BY <1>1, <1>3, <1>4 DEF ProcSlots
    <2>3. FwSlots' = FwSlots /\ HeldSlots' = HeldSlots
      BY <1>1 DEF FwSlots, HeldSlots, Now
    <2> QED BY <2>1, <2>2, <2>3
  <1>16. ASSUME NEW j \in DOMAIN bh_tx', NEW k \in DOMAIN bh_tx', bh_tx'[j].slot = bh_tx'[k].slot
         PROVE  j = k
    <2>1. \A m \in DOMAIN bh_tx : bh_tx[m].slot # e.slot
      BY <1>8, <1>15 DEF LoneInv, BhSlots
    <2>2. \A m, n \in DOMAIN bh_tx : bh_tx[m].slot = bh_tx[n].slot => m = n
      BY DEF LoneInv
    <2> QED BY <1>9, <1>16, <2>1, <2>2
  <1>17. LoneInv'
    BY <1>15, <1>16 DEF LoneInv
  <1> QED BY <1>14, <1>17

LEMMA TokenToWork ==
    ASSUME TypeInv, ListInv, TokenInv, LoneInv, NEW todo, HandleByWork(todo)
    PROVE  TokenInv' /\ LoneInv'
  <1>1. /\ proc # Null /\ proc' = Null /\ held' = [id |-> proc.id, todo |-> todo]
        /\ UNCHANGED <<item, pending, header, generation, bh_tx, fw, flushing>>
    BY DEF HandleByWork, listVars
  <1>2. Token(proc.id)
    BY <1>1, TokenGood DEF ProcGood
  <1>3. Token(held.id)'
    <2>1. held'.id = proc.id
      BY <1>1
    <2> QED BY <1>1, <1>2, <2>1 DEF Token, Now, Names
  <1>4. \A p \in fw' : FwGood(p)'
    BY <1>1, TokenGood DEF FwGood, Token, Now, Names
  <1>5. \A k \in DOMAIN bh_tx' : BhGood(bh_tx[k])'
    BY <1>1, TokenGood DEF BhGood
  <1>6. TokenInv'
    BY <1>1, <1>3, <1>4, <1>5, TokenGoodNext
  <1>7. /\ BhSlots' = BhSlots /\ FwSlots' = FwSlots /\ ProcSlots' = {}
    BY <1>1 DEF BhSlots, FwSlots, ProcSlots, Now
  <1>8. HeldSlots' \subseteq ProcSlots
    BY <1>1 DEF HeldSlots, ProcSlots, Now
  <1>9. LoneInv'
    BY <1>1, <1>7, <1>8 DEF LoneInv
  <1> QED BY <1>6, <1>9

LEMMA TokenToFw ==
    ASSUME TypeInv, ListInv, ItemInv, TokenInv, LoneInv, xradio_bh_get
    PROVE  TokenInv' /\ LoneInv'
  <1> DEFINE e == Head(bh_tx)
             p == [id |-> header[e.skb], skb |-> e.skb]
  <1>1. /\ bh_tx # <<>> /\ bh_tx' = Tail(bh_tx)
        /\ UNCHANGED <<item, pending, header, generation, proc, held, flushing>>
    BY DEF xradio_bh_get, listVars
  <1>2. /\ e = bh_tx[1] /\ 1 \in DOMAIN bh_tx
        /\ e.slot \in Elems(pending) /\ e.slot \in Slots /\ e.slot \notin Elems(free_pool)
        /\ item[e.slot].skb = e.skb /\ header[e.skb] = IdOf(e.slot) /\ IdOf(e.slot) \in PacketID
    BY <1>1, BhHead
  <1>3. fw' = fw \cup {p}
    BY <1>2 DEF xradio_bh_get
  <1>4. p.id = IdOf(e.slot) /\ p.skb = e.skb
    BY <1>2
  <1>5. IdOf(e.slot).slot = e.slot /\ Now(IdOf(e.slot)) /\ item[e.slot].packetID = IdOf(e.slot)
    BY <1>2, IdType DEF IdOf, Now
  <1> HIDE DEF p, e
  <1>6. FwGood(p)
    <2>1. Names(p.id) /\ Now(p.id) /\ p.id.slot = e.slot
      BY <1>2, <1>4, <1>5 DEF Names
    <2>2. p.id.queue_gen <= generation[p.id.if_id]
      <3>1. p.id.queue_gen = generation[p.id.if_id] /\ p.id.queue_gen \in Int
        BY <1>2, <1>4, <2>1 DEF Now, PacketID
      <3> QED BY <3>1
    <2> QED BY <1>2, <1>4, <2>1, <2>2 DEF FwGood, Token
  <1>7. \A q \in fw' : FwGood(q)
    BY <1>3, <1>6, TokenGood
  <1>8. \A q \in fw' : FwGood(q)'
    BY <1>1, <1>7 DEF FwGood, Token, Now, Names
  <1>9. /\ bh_tx \in Seq(BhEntry) /\ DOMAIN bh_tx' = 1 .. (Len(bh_tx) - 1)
        /\ DOMAIN bh_tx = 1 .. Len(bh_tx) /\ Len(bh_tx) \in Nat
        /\ \A k \in 1 .. (Len(bh_tx) - 1) : bh_tx'[k] = bh_tx[k + 1]
    BY <1>1 DEF TypeInv
  <1>10. \A k \in DOMAIN bh_tx' : k + 1 \in DOMAIN bh_tx /\ bh_tx'[k] = bh_tx[k + 1]
    BY <1>9
  <1>11. \A k \in DOMAIN bh_tx' : BhGood(bh_tx[k])'
    BY <1>1, <1>10, TokenGood DEF BhGood
  <1>12. proc' # Null => ProcGood(proc)'
    BY <1>1, TokenGood DEF ProcGood, Token, Now, Names
  <1>13. held' # Null => Token(held.id)'
    BY <1>1, TokenGood DEF Token, Now, Names
  <1>14. TokenInv'
    BY <1>8, <1>11, <1>12, <1>13, TokenGoodNext
  <1>15. /\ BhSlots' \subseteq BhSlots /\ e.slot \in BhSlots /\ e.slot \notin BhSlots'
    <2>1. BhSlots' \subseteq BhSlots /\ e.slot \in BhSlots
      BY <1>2, <1>10 DEF BhSlots
    <2>2. \A k \in DOMAIN bh_tx' : bh_tx'[k].slot # e.slot
      <3>1. ASSUME NEW k \in DOMAIN bh_tx', bh_tx'[k].slot = e.slot PROVE FALSE
        <4>1. k + 1 = 1
          BY <1>2, <1>10, <3>1 DEF LoneInv
        <4> QED BY <1>9, <4>1
      <3> QED BY <3>1
    <2> QED BY <2>1, <2>2 DEF BhSlots
  <1>16. FwSlots' = FwSlots \cup {e.slot}
    <2>1. \A q : Now(q.id)' <=> Now(q.id)
      BY <1>1 DEF Now
    <2>2. Now(p.id) /\ p.id.slot = e.slot
      BY <1>4, <1>5
    <2> QED BY <1>3, <2>1, <2>2 DEF FwSlots
  <1>17. ProcSlots' = ProcSlots /\ HeldSlots' = HeldSlots
    BY <1>1 DEF ProcSlots, HeldSlots, Now
  <1>18. \A j, k \in DOMAIN bh_tx' : bh_tx'[j].slot = bh_tx'[k].slot => j = k
    <2>1. ASSUME NEW j \in DOMAIN bh_tx', NEW k \in DOMAIN bh_tx', bh_tx'[j].slot = bh_tx'[k].slot
          PROVE  j = k
      <3>1. j + 1 = k + 1
        BY <1>10, <2>1 DEF LoneInv
      <3> QED BY <1>9, <3>1
    <2> QED BY <2>1
  <1>19. LoneInv'
    BY <1>15, <1>16, <1>17, <1>18 DEF LoneInv
  <1> QED BY <1>14, <1>19

\* Two packets whose packet IDs are accepted have different slots.
LEMMA FwUnique ==
    ASSUME TypeInv, TokenInv, NEW p \in fw, NEW q \in fw, Now(p.id), Now(q.id),
           p.id.slot = q.id.slot
    PROVE  p = q
  <1>1. FwGood(p) /\ FwGood(q) /\ p \in FwPacket /\ q \in FwPacket
    BY TokenGood DEF TypeInv
  <1>2. p.id = q.id /\ p.skb = q.skb
    BY <1>1 DEF FwGood, Token, Names
  <1> QED BY <1>1, <1>2 DEF FwPacket

LEMMA TokenToConfirm ==
    ASSUME TypeInv, ListInv, TokenInv, LoneInv, NEW p \in fw, xradio_queue_get_skb(p)
    PROVE  TokenInv' /\ LoneInv'
  <1>1. /\ proc = Null /\ fw' = fw \ {p}
        /\ proc' = IF GenerationsMatch(p.id) THEN [op |-> "conf", id |-> p.id, skb |-> p.skb]
                   ELSE Null
        /\ UNCHANGED <<item, pending, header, generation, bh_tx, held, flushing>>
    BY DEF xradio_queue_get_skb, listVars
  <1>2. FwGood(p) /\ p.id \in PacketID
    BY TokenGood DEF TypeInv
  <1>3. proc' # Null => /\ proc'.op = "conf" /\ proc'.id = p.id /\ proc'.skb = p.skb
                        /\ GenerationsMatch(p.id)
    BY <1>1
  <1>4. proc' # Null => ProcGood(proc)'
    BY <1>1, <1>2, <1>3 DEF ProcGood, FwGood, Token, Now, Names
  <1>5. \A q \in fw' : FwGood(q)'
    BY <1>1, TokenGood DEF FwGood, Token, Now, Names
  <1>6. \A k \in DOMAIN bh_tx' : BhGood(bh_tx[k])'
    BY <1>1, TokenGood DEF BhGood
  <1>7. held' # Null => Token(held.id)'
    BY <1>1, TokenGood DEF Token, Now, Names
  <1>8. TokenInv'
    BY <1>4, <1>5, <1>6, <1>7, TokenGoodNext
  <1>9. /\ BhSlots' = BhSlots /\ HeldSlots' = HeldSlots
    BY <1>1 DEF BhSlots, HeldSlots, Now
  <1>10. FwSlots' \subseteq FwSlots
    BY <1>1 DEF FwSlots, Now
  <1>11. ASSUME NEW i \in ProcSlots' PROVE i \in FwSlots /\ i \notin FwSlots'
    <2>1. i = p.id.slot /\ Now(p.id)
      BY <1>1, <1>3, <1>11 DEF ProcSlots, Now
    <2>2. ASSUME NEW q \in fw', Now(q.id), q.id.slot = i PROVE FALSE
      BY <1>1, <2>1, <2>2, FwUnique
    <2>3. i \notin FwSlots'
      BY <1>1, <2>2 DEF FwSlots, Now
    <2> QED BY <2>1, <2>3 DEF FwSlots
  <1>12. LoneInv'
    BY <1>1, <1>9, <1>10, <1>11 DEF LoneInv
  <1> QED BY <1>8, <1>12

LEMMA TokenProbe ==
    ASSUME TypeInv, ListInv, TokenInv, LoneInv, xradio_probe_work
    PROVE  TokenInv' /\ LoneInv'
  <1>1. /\ held # Null /\ held' = IF GenerationsMatch(held.id) THEN [held EXCEPT !.todo = "probed"]
                                  ELSE Null
        /\ UNCHANGED <<item, pending, header, generation, proc, bh_tx, fw, flushing>>
    BY DEF xradio_probe_work, listVars
  <1>2. held' # Null => held'.id = held.id
    <2>1. held \in WorkFrame
      BY <1>1 DEF TypeInv, Opt
    <2> QED BY <1>1, <2>1 DEF WorkFrame
  <1>3. held' # Null => Token(held.id)'
    BY <1>1, <1>2, TokenGood DEF Token, Now, Names
  <1>4. \A q \in fw' : FwGood(q)'
    BY <1>1, TokenGood DEF FwGood, Token, Now, Names
  <1>5. \A k \in DOMAIN bh_tx' : BhGood(bh_tx[k])'
    BY <1>1, TokenGood DEF BhGood
  <1>6. proc' # Null => ProcGood(proc)'
    BY <1>1, TokenGood DEF ProcGood, Token, Now, Names
  <1>7. TokenInv'
    BY <1>3, <1>4, <1>5, <1>6, TokenGoodNext
  <1>8. BhSlots' = BhSlots /\ FwSlots' = FwSlots /\ ProcSlots' = ProcSlots
    BY <1>1 DEF BhSlots, FwSlots, ProcSlots, Now
  <1>9. HeldSlots' \subseteq HeldSlots
    BY <1>1, <1>2 DEF HeldSlots, Now
  <1>10. LoneInv'
    BY <1>1, <1>8, <1>9 DEF LoneInv
  <1> QED BY <1>7, <1>10

\* A flush takes its entries off the list of the bottom half.
LEMMA TokenFlush ==
    ASSUME TypeInv, ListInv, TokenInv, LoneInv, DropRaces = FALSE, NEW v \in Ifs,
           bh_proc_flush_txqueue(v)
    PROVE  TokenInv' /\ LoneInv'
  <1>1. /\ proc = Null /\ flushing' = v
        /\ bh_tx' = ListKeep(bh_tx, {e \in Elems(bh_tx) : e.if_id # v})
        /\ UNCHANGED <<item, pending, header, generation, proc, held, fw>>
    BY DEF bh_proc_flush_txqueue, listVars
  <1> DEFINE Others == {e \in Elems(bh_tx) : e.if_id # v}
  <1>2. NoDup(bh_tx)
    BY DEF LoneInv, NoDup
  <1>3. /\ bh_tx' \in Seq(BhEntry) /\ Elems(bh_tx') = Elems(bh_tx) \cap Others /\ NoDup(bh_tx')
    BY <1>1, <1>2, ElemsListKeep DEF TypeInv
  <1>4. \A k \in DOMAIN bh_tx' : \E m \in DOMAIN bh_tx : bh_tx'[k] = bh_tx[m] /\ bh_tx[m].if_id # v
    BY <1>3 DEF Elems
  <1>5. \A k \in DOMAIN bh_tx' : BhGood(bh_tx[k])'
    BY <1>1, <1>4, TokenGood DEF BhGood
  <1>6. \A p \in fw' : FwGood(p)'
    BY <1>1, TokenGood DEF FwGood, Token, Now, Names
  <1>7. held' # Null => Token(held.id)'
    BY <1>1, TokenGood DEF Token, Now, Names
  <1>8. TokenInv'
    BY <1>1, <1>5, <1>6, <1>7, TokenGoodNext
  <1>9. /\ FwSlots' = FwSlots /\ HeldSlots' = HeldSlots /\ ProcSlots' = ProcSlots
    BY <1>1 DEF FwSlots, HeldSlots, ProcSlots, Now
  <1>10. BhSlots' \subseteq BhSlots
    BY <1>4 DEF BhSlots
  <1>11. ASSUME NEW j \in DOMAIN bh_tx', NEW k \in DOMAIN bh_tx', bh_tx'[j].slot = bh_tx'[k].slot
         PROVE  j = k
    <2>1. bh_tx'[j] = bh_tx'[k]
      BY <1>4, <1>11 DEF LoneInv
    <2> QED BY <1>3, <2>1 DEF NoDup
  <1>12. LoneInv'
    BY <1>9, <1>10, <1>11 DEF LoneInv
  <1> QED BY <1>8, <1>12

\* The queue is cleared: the packet IDs of the interface are of an old generation.
LEMMA TokenClear ==
    ASSUME TypeInv, ListInv, ItemInv, TokenInv, LoneInv, xradio_queue_clear
    PROVE  TokenInv' /\ LoneInv'
  <1>1. /\ flushing \in Ifs /\ flushing' = Null
        /\ generation' = [generation EXCEPT ![flushing] = generation[flushing] + 1]
        /\ generation[flushing] \in Int
    BY NextGeneration DEF TypeInv
  <1>2. /\ ClearItems({flushing})
        /\ UNCHANGED <<header, proc, bh_tx, held, fw>>
    BY DEF xradio_queue_clear
  <1>3. /\ Elems(pending)' = Elems(pending) \ OfIfs({flushing})
        /\ Elems(Gone({flushing})) \subseteq OfIfs({flushing})
        /\ item' = EmptySlots(Elems(Gone({flushing})))
    <2>1. /\ Elems(pending)' = Elems(pending) \ OfIfs({flushing})
          /\ Elems(Gone({flushing})) \subseteq OfIfs({flushing})
      BY <1>2, ClearMoves DEF Moved
    <2>2. item' = EmptySlots(Elems(Gone({flushing})))
      BY <1>2 DEF ClearItems, Gone, OfIfs
    <2> QED BY <2>1, <2>2
  <1>4. ASSUME NEW i \in Elems(pending), item[i].if_id # flushing PROVE Stay(i)
    <2>1. i \in Slots /\ i \notin OfIfs({flushing})
      BY <1>4 DEF ListInv, OfIfs
    <2>2. i \in Elems(pending)' /\ item'[i] = item[i]
      BY <1>3, <2>1 DEF EmptySlots
    <2> QED BY <2>2 DEF Stay
  <1>5. ASSUME NEW id \in PacketID, Token(id)
        PROVE  Token(id)' /\ (Now(id)' => Now(id) /\ Stay(id.slot))
    <2>1. id.if_id \in Ifs /\ id.queue_gen \in Int /\ id.queue_gen <= generation[id.if_id]
      BY <1>5 DEF PacketID, Token
    <2>2. CASE id.if_id = flushing
      <3>1. generation'[id.if_id] = generation[flushing] + 1
        BY <1>1, <2>2 DEF TypeInv
      <3>2. id.queue_gen <= generation'[id.if_id] /\ ~Now(id)'
        BY <1>1, <2>1, <2>2, <3>1 DEF Now
      <3> QED BY <3>2 DEF Token
    <2>3. CASE id.if_id # flushing
      <3>1. generation'[id.if_id] = generation[id.if_id]
        BY <1>1, <2>1, <2>3 DEF TypeInv
      <3>2. ASSUME Now(id) PROVE Names(id) /\ Stay(id.slot)
        <4>1. Names(id) /\ id.slot \in Slots \ Elems(free_pool)
          BY <1>5, <3>2 DEF Token, Names, ListInv
        <4>2. id = IdOf(id.slot)
          BY <4>1, IdType DEF Names
        <4>3. item[id.slot].if_id # flushing
          BY <2>3, <4>2 DEF IdOf
        <4> QED BY <1>4, <4>1, <4>3 DEF Names
      <3> QED BY <2>1, <3>1, <3>2 DEF Token, Now, Names, Stay
    <2> QED BY <2>2, <2>3
  <1>6. ASSUME proc' # Null PROVE ProcGood(proc)' /\ (Now(proc.id)' => Now(proc.id))
    <2>1. proc' = proc /\ proc.id \in PacketID /\ ProcGood(proc)
      BY <1>2, <1>6, TokenGood DEF TypeInv
    <2>2. proc.op # "tx"
      BY <1>1, <2>1, QueueAssumption DEF ProcGood
    <2>3. PICK id \in PacketID : id = proc.id
      BY <2>1
    <2>4. Token(id)' /\ (Now(id)' => Now(id) /\ Stay(id.slot))
      BY <1>5, <2>1, <2>3 DEF ProcGood
    <2>5. proc'.id = id /\ proc'.skb = proc.skb /\ proc'.op # "tx"
      BY <2>1, <2>2, <2>3
    <2> QED BY <2>1, <2>3, <2>4, <2>5 DEF ProcGood, Stay, Token, Now, Names
  <1>7. ASSUME held' # Null PROVE Token(held.id)' /\ (Now(held.id)' => Now(held.id))
    <2>1. held' = held /\ held.id \in PacketID /\ Token(held.id)
      BY <1>2, <1>7, TokenGood DEF TypeInv, WorkFrame, Opt
    <2>2. PICK id \in PacketID : id = held.id
      BY <2>1
    <2>3. Token(id)' /\ (Now(id)' => Now(id))
      BY <1>5, <2>1, <2>2
    <2> QED BY <2>1, <2>2, <2>3 DEF Token, Now, Names
  <1>8. ASSUME NEW p \in fw' PROVE FwGood(p)' /\ (Now(p.id)' => Now(p.id))
    <2>1. p.id \in PacketID /\ FwGood(p)
      BY <1>2, TokenGood DEF TypeInv
    <2> QED BY <1>5, <2>1 DEF FwGood, Stay
  <1>9. ASSUME NEW k \in DOMAIN bh_tx PROVE BhGood(bh_tx[k])'
    <2>1. BhGood(bh_tx[k]) /\ bh_tx[k].if_id \in Ifs
      <3>1. bh_tx[k] \in BhEntry
        BY DEF TypeInv
      <3> QED BY <3>1, TokenGood DEF BhEntry
    <2>2. Stay(bh_tx[k].slot)
      BY <1>4, <2>1 DEF BhGood
    <2>3. bh_tx[k].if_id # Null
      BY <2>1, QueueAssumption
    <2> QED BY <1>1, <1>2, <2>1, <2>2, <2>3 DEF BhGood, Stay
  <1>10. TokenInv'
    BY <1>2, <1>6, <1>7, <1>8, <1>9, TokenGoodNext
  <1>11. BhSlots' = BhSlots /\ FwSlots' \subseteq FwSlots
    BY <1>2, <1>8 DEF BhSlots, FwSlots
  <1>12. ProcSlots' \subseteq ProcSlots /\ HeldSlots' \subseteq HeldSlots
    BY <1>2, <1>6, <1>7 DEF ProcSlots, HeldSlots, Now
  <1>13. LoneInv'
    BY <1>2, <1>11, <1>12 DEF LoneInv
  <1> QED BY <1>10, <1>13

\* An accepted packet ID changes its own item only.
LEMMA OthersStay ==
    ASSUME ListInv, ItemInv, NEW id \in PacketID, Names(id),
           Leaves(id) \/ Returns(id)
    PROVE  \A i \in Elems(pending) : i # id.slot => Stay(i)
  <1>1. ASSUME NEW i \in Elems(pending), i # id.slot PROVE Stay(i)
    <2>1. i \in Slots
      BY DEF ListInv
    <2>2. i \in Elems(pending)'
      BY <1>1, LeaveMoves, ReturnMoves DEF Moved, Names
    <2>3. item'[i] = item[i]
      <3>1. CASE Leaves(id)
        BY <1>1, <2>1, <3>1 DEF Leaves, xradio_queue_remove, ItemInv
      <3>2. CASE Returns(id)
        BY <1>1, <2>1, <3>2 DEF Returns, xradio_queue_requeue, ItemInv
      <3> QED BY <3>1, <3>2
    <2> QED BY <2>2, <2>3 DEF Stay
  <1> QED BY <1>1

\* An answer or a work that uses up the packet ID id.
LEMMA AnswerStays ==
    ASSUME TypeInv, ListInv, ItemInv, NEW id \in PacketID, Token(id),
           \/ Leaves(id)
           \/ Returns(id)
           \/ UNCHANGED <<listVars, countVars, lockVars, destroyed>> /\ ~GenerationsMatch(id)
    PROVE  \A i \in Elems(pending) : (i = id.slot => ~Now(id)) => Stay(i)
  <1>1. CASE Leaves(id) \/ Returns(id)
    <2>1. Names(id) /\ Now(id)
      BY <1>1, MatchNames DEF Leaves, Returns
    <2> QED BY <1>1, <2>1, OthersStay
  <1>2. CASE UNCHANGED <<listVars, countVars, lockVars, destroyed>>
    BY <1>2 DEF Stay, listVars
  <1> QED BY <1>1, <1>2

LEMMA TokenStep ==
    ASSUME TypeInv, ListInv, ItemInv, FrameInv, TokenInv, LoneInv, DropRaces = FALSE, Next
    PROVE  TokenInv' /\ LoneInv'
  <1>1. ASSUME Calm, UNCHANGED <<fw, proc, held, bh_tx, header, flushing>>
        PROVE  TokenInv' /\ LoneInv'
    BY <1>1, TokenShrink DEF Calm
  <1>2. ASSUME UNCHANGED <<listVars, generation>>,
               UNCHANGED <<fw, proc, held, bh_tx, header, flushing>>
        PROVE  TokenInv' /\ LoneInv'
    BY <1>1, <1>2, QuietCalm
  <1>3. ASSUME NEW c \in Cpus, NEW v \in Ifs, NEW l \in Links, xradio_tx(c, v, l)
        PROVE  TokenInv' /\ LoneInv'
    BY <1>2, <1>3 DEF xradio_tx
  <1>4. ASSUME NEW c \in Cpus, xradio_queue_put(c) PROVE TokenInv' /\ LoneInv'
    <2> DEFINE j == Head(free_pool)
    <2>1. j \in Elems(free_pool) /\ Elems(pending)' = Elems(pending)
      BY <1>4, PutMoves DEF Moved
    <2>2. UNCHANGED <<generation, fw, proc, held, bh_tx, header, flushing>>
      BY <1>4 DEF xradio_queue_put
    <2>3. ASSUME NEW i \in Elems(pending) PROVE Stay(i)
      <3>1. i \in Slots /\ i # j
        BY <2>1 DEF ListInv
      <3>2. item'[i] = item[i]
        BY <1>4, <3>1 DEF xradio_queue_put, ItemInv
      <3> QED BY <2>1, <3>2 DEF Stay
    <2> QED BY <1>1, <2>2, <2>3 DEF Calm
  <1>5. ASSUME NEW v \in Ifs, NEW allowed \in SUBSET Links, xradio_queue_get(v, allowed)
        PROVE  TokenInv' /\ LoneInv'
    BY <1>5, TokenTake
  <1>6. CASE HandleTx \/ xradio_bh_get \/ xradio_probe_work
    BY <1>6, TokenToBh, TokenToFw, TokenProbe
  <1>7. ASSUME NEW todo, HandleByWork(todo) PROVE TokenInv' /\ LoneInv'
    BY <1>7, TokenToWork
  <1>8. CASE HandleDrop \/ xradio_tx_confirm_cb
    <2>1. /\ proc # Null /\ proc' = Null /\ xradio_queue_remove(proc.id)
          /\ UNCHANGED <<header, generation, bh_tx, held, fw, flushing>>
      BY <1>8 DEF HandleDrop, xradio_tx_confirm_cb
    <2>2. proc.id \in PacketID /\ Token(proc.id)
      BY <2>1, TokenGood DEF TypeInv, ProcGood
    <2>3. \A i \in Elems(pending) : (i = proc.id.slot => ~Now(proc.id)) => Stay(i)
      BY <2>1, <2>2, RemoveCases, AnswerStays
    <2>4. ASSUME NEW i \in Elems(pending), StillNamed(i) PROVE Stay(i)
      <3>1. i \in BhSlots \cup FwSlots \cup HeldSlots
        BY <2>1, <2>4 DEF StillNamed, FwSlots
      <3>2. ASSUME i = proc.id.slot, Now(proc.id) PROVE FALSE
        <4>1. i \in ProcSlots
          BY <2>1, <3>2 DEF ProcSlots, ListInv
        <4> QED BY <3>1, <4>1 DEF LoneInv
      <3> QED BY <2>3, <3>2
    <2> QED BY <2>1, <2>4, TokenShrink
  <1>9. ASSUME NEW p \in fw, ConfirmRequeue(p) PROVE TokenInv' /\ LoneInv'
    <2>1. /\ fw' = fw \ {p} /\ xradio_queue_requeue(p.id, TRUE)
          /\ UNCHANGED <<header, generation, bh_tx, proc, held, flushing>>
      BY <1>9 DEF ConfirmRequeue
    <2>2. p.id \in PacketID /\ Token(p.id)
      BY TokenGood DEF TypeInv, FwGood
    <2>3. \A i \in Elems(pending) : (i = p.id.slot => ~Now(p.id)) => Stay(i)
      BY <2>1, <2>2, RequeueCases, AnswerStays
    <2>4. ASSUME NEW i \in Elems(pending), StillNamed(i) PROVE Stay(i)
      <3>1. ASSUME i = p.id.slot, Now(p.id) PROVE FALSE
        <4>1. i \in FwSlots
          BY <3>1 DEF FwSlots
        <4>2. \A q \in fw' : ~(Now(q.id) /\ q.id.slot = i)
          BY <2>1, <3>1, FwUnique
        <4>3. i \in BhSlots \cup ProcSlots \cup HeldSlots
          BY <2>4, <4>2 DEF StillNamed
        <4> QED BY <4>1, <4>3 DEF LoneInv
      <3> QED BY <2>3, <3>1
    <2>5. fw' \subseteq fw
      BY <2>1
    <2> QED BY <2>1, <2>4, <2>5, TokenShrink
  <1>10. ASSUME NEW p \in fw, xradio_queue_get_skb(p) PROVE TokenInv' /\ LoneInv'
    BY <1>10, TokenToConfirm
  <1>11. CASE WorkRemove \/ WorkRequeue
    <2>1. /\ held # Null /\ held' = Null
          /\ xradio_queue_remove(held.id) \/ xradio_queue_requeue(held.id, held.todo = "join")
          /\ UNCHANGED <<header, generation, bh_tx, proc, fw, flushing>>
      BY <1>11 DEF WorkRemove, WorkRequeue
    <2>2. held.id \in PacketID /\ Token(held.id)
      BY <2>1, TokenGood DEF TypeInv, WorkFrame, Opt
    <2>3. (held.todo = "join") \in BOOLEAN
      OBVIOUS
    <2>4. \A i \in Elems(pending) : (i = held.id.slot => ~Now(held.id)) => Stay(i)
      BY <2>1, <2>2, <2>3, RemoveCases, RequeueCases, AnswerStays
    <2>5. ASSUME NEW i \in Elems(pending), StillNamed(i) PROVE Stay(i)
      <3>1. i \in BhSlots \cup FwSlots \cup ProcSlots
        BY <2>1, <2>5 DEF StillNamed, FwSlots
      <3>2. ASSUME i = held.id.slot, Now(held.id) PROVE FALSE
        <4>1. i \in HeldSlots
          BY <2>1, <3>2 DEF HeldSlots, ListInv
        <4> QED BY <3>1, <4>1 DEF LoneInv
      <3> QED BY <2>4, <3>2
    <2> QED BY <2>1, <2>5, TokenShrink
  <1>12. CASE xradio_queue_gc
    <2>1. PICK n \in 0 .. Len(queue) :
            /\ queue' = SubSeq(queue, n + 1, Len(queue))
            /\ free_pool' = free_pool \o SubSeq(queue, 1, n)
            /\ item' = EmptySlots(Elems(SubSeq(queue, 1, n)))
            /\ UNCHANGED <<pending, generation, fw, proc, held, bh_tx, header, flushing>>
      BY <1>12 DEF xradio_queue_gc
    <2> DEFINE G == Elems(SubSeq(queue, 1, n))
    <2>2. G \subseteq Elems(queue)
      BY <2>1, GcMoves DEF Expires
    <2> HIDE DEF G
    <2>3. ASSUME NEW i \in Elems(pending) PROVE Stay(i)
      <3>1. i \in Slots /\ i \notin G
        BY <2>2 DEF ListInv
      <3>2. item'[i] = item[i]
        BY <2>1, <3>1 DEF EmptySlots, G
      <3> QED BY <2>1, <3>2 DEF Stay
    <2> QED BY <1>1, <2>1, <2>3 DEF Calm
  <1>13. CASE xradio_queue_post_gc \/ xradio_queue_lock \/ xradio_queue_unlock
    BY <1>2, <1>13 DEF xradio_queue_post_gc, xradio_queue_lock, xradio_queue_unlock
  <1>14. ASSUME NEW v \in Ifs, bh_proc_flush_txqueue(v) PROVE TokenInv' /\ LoneInv'
    BY <1>14, TokenFlush
  <1>15. CASE xradio_queue_clear
    BY <1>15, TokenClear
  <1>16. CASE xradio_stop
    <2>1. /\ proc' = Null /\ held' = Null /\ fw' = {} /\ bh_tx' = <<>>
      BY <1>16 DEF xradio_stop
    <2>2. TokenInv'
      BY <2>1 DEF TokenInv
    <2>3. BhSlots' = {} /\ FwSlots' = {} /\ ProcSlots' = {} /\ HeldSlots' = {}
      BY <2>1 DEF BhSlots, FwSlots, ProcSlots, HeldSlots
    <2>4. \A j, k \in DOMAIN bh_tx' : bh_tx'[j].slot = bh_tx'[k].slot => j = k
      BY <2>1
    <2> QED BY <2>2, <2>3, <2>4 DEF LoneInv
  <1> QED BY <1>3, <1>4, <1>5, <1>6, <1>7, <1>8, <1>9, <1>10, <1>11, <1>12, <1>13, <1>14,
             <1>15, <1>16 DEF Next

-----------------------------------------------------------------------------
(***************************************************************************)
(* The counters.                                                           *)
(***************************************************************************)
LEMMA SlotCount ==
    ASSUME NEW S \in SUBSET Slots
    PROVE  IsFiniteSet(S) /\ Cardinality(S) \in 0 .. Capacity
  <1>1. IsFiniteSet(Slots) /\ Cardinality(Slots) = Capacity
    BY FS_Interval, QueueAssumption DEF Slots
  <1>2. IsFiniteSet(S) /\ Cardinality(S) <= Cardinality(Slots)
    BY <1>1, FS_Subset
  <1>3. Cardinality(S) \in Nat
    BY <1>2, FS_CardinalityType
  <1> QED BY <1>1, <1>2, <1>3, QueueAssumption

\* One slot more, one less.
LEMMA OneMore ==
    ASSUME NEW S \in SUBSET Slots, NEW i \in Slots
    PROVE  /\ i \notin S => Cardinality(S \cup {i}) = Cardinality(S) + 1
           /\ i \in S => Cardinality(S \ {i}) = Cardinality(S) - 1
  <1>1. IsFiniteSet(S)
    BY SlotCount
  <1> QED BY <1>1, FS_AddElement, FS_RemoveElement

LEMMA SlotsLess ==
    ASSUME NEW S \in SUBSET Slots, NEW G \in SUBSET S
    PROVE  Cardinality(S \ G) = Cardinality(S) - Cardinality(G)
  <1>1. IsFiniteSet(S) /\ S \cap G = G
    BY SlotCount
  <1> QED BY <1>1, FS_Difference

\* The sets that are counted, and the lengths of the lists.
LEMMA CountTypes ==
    ASSUME ListInv
    PROVE  /\ \A v : WaitAt(v) \in SUBSET Slots /\ FlyAt(v) \in SUBSET Slots
                     /\ BothAt(v) \in SUBSET Slots
           /\ \A v, l : WaitLink(v, l) \in SUBSET Slots
           /\ Elems(queue) \in SUBSET Slots /\ Elems(pending) \in SUBSET Slots
           /\ Elems(free_pool) \in SUBSET Slots
           /\ Len(queue) = Cardinality(Elems(queue)) /\ Len(queue) \in Nat
           /\ Len(pending) = Cardinality(Elems(pending)) /\ Len(pending) \in Nat
           /\ Len(free_pool) = Cardinality(Elems(free_pool)) /\ Len(free_pool) \in Nat
  <1>1. /\ Elems(queue) \subseteq Slots /\ Elems(pending) \subseteq Slots
        /\ Elems(free_pool) \subseteq Slots
    BY DEF ListInv
  <1>2. /\ Len(queue) = Cardinality(Elems(queue)) /\ Len(queue) \in Nat
        /\ Len(pending) = Cardinality(Elems(pending)) /\ Len(pending) \in Nat
        /\ Len(free_pool) = Cardinality(Elems(free_pool)) /\ Len(free_pool) \in Nat
    BY LenNoDup DEF ListInv
  <1> QED BY <1>1, <1>2 DEF WaitAt, FlyAt, BothAt, WaitLink

LEMMA CountTypesNext ==
    ASSUME ListInv'
    PROVE  /\ Len(queue') = Cardinality(Elems(queue)') /\ Len(queue') \in Nat
           /\ Len(pending') = Cardinality(Elems(pending)') /\ Len(pending') \in Nat
           /\ Len(free_pool') = Cardinality(Elems(free_pool)') /\ Len(free_pool') \in Nat
  BY LenNoDup DEF ListInv

\* The links of an interface share out the frames that wait for it.
LEMMA WaitingExact ==
    ASSUME ListInv, ItemInv, CountInv, NEW v \in Ifs
    PROVE  WaitingOfIf(v) = stats_num_queued[v]
  <1> DEFINE n(l) == Cardinality(WaitLink(v, l))
             B == {p \in Links \X (1 .. Capacity) : p[2] <= link_map_cache[v][p[1]]}
             G == [l \in Links |-> CHOOSE f : f \in Bijection(1 .. n(l), WaitLink(v, l))]
             H == [p \in B |-> G[p[1]][p[2]]]
  <1>1. ASSUME NEW l \in Links
        PROVE  /\ n(l) \in 0 .. Capacity /\ link_map_cache[v][l] = n(l)
               /\ G[l] \in Bijection(1 .. n(l), WaitLink(v, l))
    <2>1. n(l) \in 0 .. Capacity /\ IsFiniteSet(WaitLink(v, l))
      BY CountTypes, SlotCount
    <2>2. \E f : f \in Bijection(1 .. n(l), WaitLink(v, l))
      BY <2>1, FS_CardinalityType DEF ExistsBijection
    <2>3. link_map_cache[v][l] = n(l)
      BY DEF CountInv
    <2> QED BY <2>1, <2>2, <2>3
  <1> HIDE DEF G, n
  <1>2. ASSUME NEW p \in B
        PROVE  /\ p[1] \in Links /\ p[2] \in 1 .. n(p[1]) /\ p = <<p[1], p[2]>>
               /\ H[p] = G[p[1]][p[2]] /\ H[p] \in WaitLink(v, p[1])
    <2>1. p[1] \in Links /\ p[2] \in 1 .. n(p[1]) /\ p = <<p[1], p[2]>>
      BY <1>1
    <2>2. G[p[1]] \in [1 .. n(p[1]) -> WaitLink(v, p[1])]
      BY <1>1, <2>1 DEF Bijection, Injection, Surjection
    <2> QED BY <2>1, <2>2
  <1>3. ASSUME NEW l \in Links, NEW k \in 1 .. n(l)
        PROVE  <<l, k>> \in B /\ H[<<l, k>>] = G[l][k]
    BY <1>1, <1>3, QueueAssumption
  <1> HIDE DEF H
  <1> HIDE DEF B
  <1>4. H \in [B -> WaitAt(v)]
    <2>1. \A p \in B : H[p] \in WaitAt(v)
      BY <1>2 DEF WaitLink, WaitAt
    <2> QED BY <2>1 DEF H
  <1>5. ASSUME NEW p \in B, NEW q \in B, H[p] = H[q] PROVE p = q
    <2>1. p[1] = q[1]
      BY <1>2, <1>5 DEF WaitLink
    <2>2. G[p[1]] \in Bijection(1 .. n(p[1]), WaitLink(v, p[1]))
      BY <1>1, <1>2
    <2>3. G[p[1]][p[2]] = G[p[1]][q[2]] /\ p[2] \in 1 .. n(p[1]) /\ q[2] \in 1 .. n(p[1])
      BY <1>2, <1>5, <2>1
    <2>4. p[2] = q[2]
      BY <2>2, <2>3 DEF Bijection, Injection, IsInjective
    <2> QED BY <1>2, <2>1, <2>4
  <1>6. ASSUME NEW i \in WaitAt(v) PROVE \E p \in B : H[p] = i
    <2>1. i \in Slots \ Elems(free_pool)
      BY DEF WaitAt, ListInv
    <2>2. PICK l \in Links : l = item[i].link_id
      BY <2>1 DEF ItemInv
    <2>3. i \in WaitLink(v, l)
      BY <2>2 DEF WaitAt, WaitLink
    <2>4. PICK k \in 1 .. n(l) : G[l][k] = i
      BY <1>1, <2>3 DEF Bijection, Surjection
    <2> QED BY <1>3, <2>4
  <1>7. H \in Bijection(B, WaitAt(v))
    BY <1>4, <1>5, <1>6 DEF Bijection, Injection, Surjection, IsInjective
  <1>8. IsFiniteSet(B)
    <2>1. IsFiniteSet(1 .. Capacity)
      BY FS_Interval, QueueAssumption
    <2>2. IsFiniteSet(Links \X (1 .. Capacity))
      BY <2>1, FS_Product, QueueAssumption
    <2> QED BY <2>2, FS_Subset DEF B
  <1>9. Cardinality(WaitAt(v)) = Cardinality(B)
    BY <1>7, <1>8, FS_Bijection DEF ExistsBijection
  <1>10. WaitingOfIf(v) = Cardinality(B)
    BY DEF WaitingOfIf, B
  <1> QED BY <1>9, <1>10 DEF CountInv

\* The counted sets do not change.
LEMMA CountKept ==
    ASSUME CountInv, UNCHANGED <<countVars, queue, pending, item>>
    PROVE  CountInv'
  <1>1. UNCHANGED <<num_queued, num_queued_vif, num_pending, num_pending_vif, link_map_cache,
                    stats_num_queued, queue, pending, item>>
    BY DEF countVars
  <1>2. \A v : WaitAt(v)' = WaitAt(v) /\ FlyAt(v)' = FlyAt(v) /\ BothAt(v)' = BothAt(v)
    BY <1>1 DEF WaitAt, FlyAt, BothAt
  <1>3. \A v, l : WaitLink(v, l)' = WaitLink(v, l)
    BY <1>1 DEF WaitLink
  <1> QED BY <1>1, <1>2, <1>3 DEF CountInv

LEMMA CountPut ==
    ASSUME TypeInv, ListInv, ItemInv, CountInv, NEW c \in Cpus, xradio_queue_put(c)
    PROVE  CountInv'
  <1>1. PICK i \in Elems(free_pool) : i = Head(free_pool)
    BY PutMoves
  <1>2. tx[c] # Null /\ tx[c].if_id \in Ifs /\ tx[c].link_id \in Links
    BY DEF xradio_queue_put, TypeInv, Opt, TxFrame
  <1>3. PICK a \in Ifs, b \in Links : a = tx[c].if_id /\ b = tx[c].link_id
    BY <1>2
  <1>4. /\ num_queued' = num_queued + 1 /\ UNCHANGED <<num_pending, num_pending_vif, pending>>
        /\ num_queued_vif' = [num_queued_vif EXCEPT ![a] = @ + 1]
        /\ link_map_cache' = [link_map_cache EXCEPT ![a][b] = @ + 1]
        /\ stats_num_queued' = [stats_num_queued EXCEPT ![a] = @ + 1]
    BY <1>3 DEF xradio_queue_put, CountWaiting
  <1>5. /\ Elems(queue)' = Elems(queue) \cup {i} /\ Elems(pending)' = Elems(pending) /\ ListInv'
    BY <1>1, PutMoves DEF Moved
  <1>6. i \in Slots /\ i \notin Elems(queue) /\ i \notin Elems(pending)
    BY <1>1 DEF ListInv
  <1>7. /\ item'[i].if_id = a /\ item'[i].link_id = b
        /\ \A j \in Slots : j # i => item'[j] = item[j]
    BY <1>1, <1>3, <1>6 DEF xradio_queue_put, ItemInv
  <1>8. /\ \A v \in Ifs : WaitAt(v)' = IF v = a THEN WaitAt(v) \cup {i} ELSE WaitAt(v)
        /\ \A v \in Ifs : BothAt(v)' = IF v = a THEN BothAt(v) \cup {i} ELSE BothAt(v)
        /\ \A v \in Ifs : FlyAt(v)' = FlyAt(v)
        /\ \A v \in Ifs, l \in Links : WaitLink(v, l)' =
             IF v = a /\ l = b THEN WaitLink(v, l) \cup {i} ELSE WaitLink(v, l)
    <2>1. \A j \in Elems(queue) \cup Elems(pending) : item'[j] = item[j]
      BY <1>6, <1>7 DEF ListInv
    <2>2. ASSUME NEW v \in Ifs
          PROVE  /\ WaitAt(v)' = IF v = a THEN WaitAt(v) \cup {i} ELSE WaitAt(v)
                 /\ FlyAt(v)' = FlyAt(v)
      BY <1>5, <1>7, <2>1 DEF WaitAt, FlyAt
    <2>3. ASSUME NEW v \in Ifs
          PROVE  BothAt(v)' = IF v = a THEN BothAt(v) \cup {i} ELSE BothAt(v)
      BY <1>5, <1>7, <2>1 DEF BothAt
    <2>4. ASSUME NEW v \in Ifs, NEW l \in Links
          PROVE  WaitLink(v, l)' =
                   IF v = a /\ l = b THEN WaitLink(v, l) \cup {i} ELSE WaitLink(v, l)
      BY <1>5, <1>7, <2>1 DEF WaitLink
    <2> QED BY <2>2, <2>3, <2>4
  <1>9. /\ \A v \in Ifs : Cardinality(WaitAt(v) \cup {i}) = Cardinality(WaitAt(v)) + 1
        /\ \A v \in Ifs : Cardinality(BothAt(v) \cup {i}) = Cardinality(BothAt(v)) + 1
        /\ \A v \in Ifs, l \in Links :
             Cardinality(WaitLink(v, l) \cup {i}) = Cardinality(WaitLink(v, l)) + 1
        /\ Cardinality(Elems(queue) \cup {i}) = Cardinality(Elems(queue)) + 1
    <2>1. /\ \A v \in Ifs : i \notin WaitAt(v) /\ i \notin BothAt(v)
          /\ \A v \in Ifs, l \in Links : i \notin WaitLink(v, l)
      BY <1>6 DEF WaitAt, BothAt, WaitLink
    <2> QED BY <1>6, <2>1, CountTypes, OneMore
  <1>10. Len(queue') = Len(queue) + 1 /\ Len(pending') = Len(pending)
    BY <1>4, <1>5, <1>9, CountTypes, CountTypesNext
  <1>11. num_queued' = Len(queue') + Len(pending') /\ num_pending' = Len(pending')
    BY <1>4, <1>10, CountTypes DEF CountInv
  <1>12. /\ num_queued_vif' \in [Ifs -> Int] /\ stats_num_queued' \in [Ifs -> Int]
         /\ link_map_cache' \in [Ifs -> [Links -> Int]]
    BY <1>4 DEF CountInv
  <1>13. ASSUME NEW v \in Ifs
         PROVE  /\ num_queued_vif'[v] = Cardinality(BothAt(v)')
                /\ stats_num_queued'[v] = Cardinality(WaitAt(v)')
    <2>1. CASE v = a
      BY <1>4, <1>8, <1>9, <2>1 DEF CountInv
    <2>2. CASE v # a
      BY <1>4, <1>8, <2>2 DEF CountInv
    <2> QED BY <2>1, <2>2
  <1>14. ASSUME NEW v \in Ifs, NEW l \in Links
         PROVE  link_map_cache'[v][l] = Cardinality(WaitLink(v, l)')
    <2>1. CASE v = a /\ l = b
      BY <1>4, <1>8, <1>9, <2>1 DEF CountInv
    <2>2. CASE ~(v = a /\ l = b)
      <3>1. link_map_cache'[v][l] = link_map_cache[v][l]
        <4>1. link_map_cache \in [Ifs -> [Links -> Int]]
          BY DEF CountInv
        <4>2. link_map_cache' = [link_map_cache EXCEPT ![a][b] = @ + 1]
          BY <1>4
        <4>3. CASE v # a
          BY <4>1, <4>2, <4>3
        <4>4. CASE v = a /\ l # b
          <5>1. link_map_cache'[a] = [link_map_cache[a] EXCEPT ![b] = @ + 1]
            BY <4>1, <4>2
          <5>2. link_map_cache[a] \in [Links -> Int]
            BY <4>1
          <5> QED BY <4>4, <5>1, <5>2
        <4> QED BY <2>2, <4>3, <4>4
      <3> QED BY <1>8, <2>2, <3>1 DEF CountInv
    <2> QED BY <2>1, <2>2
  <1>15. /\ num_pending_vif' \in [Ifs -> Int]
         /\ \A v \in Ifs : num_pending_vif'[v] = Cardinality(FlyAt(v)')
    <2>1. /\ num_pending_vif \in [Ifs -> Int] /\ num_pending_vif' = num_pending_vif
          /\ \A v \in Ifs : num_pending_vif[v] = Cardinality(FlyAt(v))
      BY <1>4 DEF CountInv
    <2> QED BY <1>8, <2>1, Zenon
  <1> QED BY <1>11, <1>12, <1>13, <1>14, <1>15 DEF CountInv

\* The slot i enters the set S (d = 1), leaves it (d = -1) or neither.
Enters(S, T, i, d) ==
    /\ d \in {-1, 0, 1}
    /\ d = 1 => i \notin S /\ T = S \cup {i}
    /\ d = -1 => i \in S /\ T = S \ {i}
    /\ d = 0 => T = S

LEMMA EntersCount ==
    ASSUME NEW S \in SUBSET Slots, NEW T, NEW i \in Slots, NEW d, Enters(S, T, i, d)
    PROVE  Cardinality(T) = Cardinality(S) + d
  <1>1. Cardinality(S) \in Int
    BY SlotCount
  <1> QED BY <1>1, OneMore DEF Enters

LEMMA CounterSet ==
    ASSUME NEW S, NEW f \in [S -> Int], NEW a \in S, NEW x \in Int
    PROVE  [f EXCEPT ![a] = x] \in [S -> Int]
  OBVIOUS

\* The item in slot i, of interface a and link b, moves: q to or from the
\* queue, p to or from pending.
CountsMove(i, a, b, q, p) ==
    /\ item[i].if_id = a /\ item[i].link_id = b
    /\ \A j \in Slots : item'[j].if_id = item[j].if_id /\ item'[j].link_id = item[j].link_id
    /\ q \in {-1, 0, 1} /\ p \in {-1, 1} /\ (q = 0 \/ p + q = 0) /\ ~(q = 0 /\ p = 1)
    /\ Enters(Elems(queue), Elems(queue)', i, q)
    /\ Enters(Elems(pending), Elems(pending)', i, p)
    /\ num_queued' = num_queued + (p + q) /\ num_pending' = num_pending + p
    /\ num_queued_vif' = [num_queued_vif EXCEPT ![a] = @ + (p + q)]
    /\ num_pending_vif' = [num_pending_vif EXCEPT ![a] = @ + p]
    /\ stats_num_queued' = [stats_num_queued EXCEPT ![a] = @ + q]
    /\ link_map_cache' = [link_map_cache EXCEPT ![a][b] = @ + q]

LEMMA CountMove ==
    ASSUME ListInv, ListInv', CountInv, NEW i \in Slots, NEW a \in Ifs, NEW b \in Links,
           NEW q, NEW p, CountsMove(i, a, b, q, p)
    PROVE  CountInv'
  <1> USE DEF CountsMove
  <1> DEFINE d(v, n) == IF v = a THEN n ELSE 0
             e(v, l, n) == IF v = a /\ l = b THEN n ELSE 0
  <1>1. /\ Elems(queue) \subseteq Slots /\ Elems(pending) \subseteq Slots
        /\ Elems(queue)' \subseteq Slots /\ Elems(pending)' \subseteq Slots
        /\ Elems(queue) \cap Elems(pending) = {}
    BY DEF ListInv
  <1>2. /\ \A v \in Ifs : Enters(WaitAt(v), WaitAt(v)', i, d(v, q))
        /\ \A v \in Ifs : Enters(FlyAt(v), FlyAt(v)', i, d(v, p))
    <2>1. ASSUME NEW v \in Ifs PROVE Enters(WaitAt(v), WaitAt(v)', i, d(v, q))
      <3>1. WaitAt(v)' = {j \in Elems(queue)' : item[j].if_id = v}
        BY <1>1 DEF WaitAt
      <3> QED BY <3>1 DEF Enters, WaitAt
    <2>2. ASSUME NEW v \in Ifs PROVE Enters(FlyAt(v), FlyAt(v)', i, d(v, p))
      <3>1. FlyAt(v)' = {j \in Elems(pending)' : item[j].if_id = v}
        BY <1>1 DEF FlyAt
      <3> QED BY <3>1 DEF Enters, FlyAt
    <2> QED BY <2>1, <2>2
  <1>3. ASSUME NEW v \in Ifs PROVE Enters(BothAt(v), BothAt(v)', i, d(v, p + q))
    <2>1. BothAt(v)' = {j \in Elems(queue)' \cup Elems(pending)' : item[j].if_id = v}
      BY <1>1 DEF BothAt
    <2>2. CASE q = 0
      <3>1. /\ i \in Elems(pending) /\ p + q = -1
            /\ Elems(queue)' \cup Elems(pending)' = (Elems(queue) \cup Elems(pending)) \ {i}
        BY <1>1, <2>2 DEF Enters
      <3> QED BY <2>1, <3>1 DEF Enters, BothAt
    <2>3. CASE q # 0
      <3>1. p + q = 0 /\ Elems(queue)' \cup Elems(pending)' = Elems(queue) \cup Elems(pending)
        BY <2>3 DEF Enters
      <3> QED BY <2>1, <3>1 DEF Enters, BothAt
    <2> QED BY <2>2, <2>3
  <1>4. ASSUME NEW v \in Ifs, NEW l \in Links
        PROVE  Enters(WaitLink(v, l), WaitLink(v, l)', i, e(v, l, q))
    <2>1. WaitLink(v, l)' = {j \in Elems(queue)' : item[j].if_id = v /\ item[j].link_id = l}
      BY <1>1 DEF WaitLink
    <2> QED BY <2>1 DEF Enters, WaitLink
  <1>5. /\ Len(queue') = Len(queue) + q /\ Len(queue) \in Int
        /\ Len(pending') = Len(pending) + p /\ Len(pending) \in Int
    <2>1. /\ Cardinality(Elems(queue)') = Cardinality(Elems(queue)) + q
          /\ Cardinality(Elems(pending)') = Cardinality(Elems(pending)) + p
      BY <1>1, EntersCount
    <2>2. /\ Len(queue) = Cardinality(Elems(queue)) /\ Len(queue) \in Int
          /\ Len(pending) = Cardinality(Elems(pending)) /\ Len(pending) \in Int
      BY CountTypes
    <2>3. Len(queue') = Cardinality(Elems(queue)') /\ Len(pending') = Cardinality(Elems(pending)')
      BY CountTypesNext
    <2> QED BY <2>1, <2>2, <2>3
  <1>6. num_queued' = Len(queue') + Len(pending') /\ num_pending' = Len(pending')
    <2>1. num_queued = Len(queue) + Len(pending) /\ num_pending = Len(pending)
      BY DEF CountInv
    <2>2. q \in Int /\ p \in Int
      OBVIOUS
    <2> QED BY <1>5, <2>1, <2>2
  <1>7. /\ num_queued_vif' \in [Ifs -> Int] /\ num_pending_vif' \in [Ifs -> Int]
        /\ stats_num_queued' \in [Ifs -> Int] /\ link_map_cache' \in [Ifs -> [Links -> Int]]
        /\ \A v \in Ifs, l \in Links : link_map_cache'[v][l] = link_map_cache[v][l] + e(v, l, q)
    <2>1. p \in Int /\ q \in Int /\ p + q \in Int
      OBVIOUS
    <2>2. num_queued_vif' \in [Ifs -> Int]
      <3>1. num_queued_vif \in [Ifs -> Int]
        BY DEF CountInv
      <3>2. num_queued_vif[a] + (p + q) \in Int
        BY <2>1, <3>1
      <3> QED BY <3>1, <3>2, CounterSet
    <2>3. num_pending_vif' \in [Ifs -> Int]
      <3>1. num_pending_vif \in [Ifs -> Int]
        BY DEF CountInv
      <3>2. num_pending_vif[a] + p \in Int
        BY <2>1, <3>1
      <3> QED BY <3>1, <3>2, CounterSet
    <2>4. stats_num_queued' \in [Ifs -> Int]
      <3>1. stats_num_queued \in [Ifs -> Int]
        BY DEF CountInv
      <3>2. stats_num_queued[a] + q \in Int
        BY <2>1, <3>1
      <3> QED BY <3>1, <3>2, CounterSet
    <2> DEFINE m == link_map_cache
    <2>5. m \in [Ifs -> [Links -> Int]] /\ m' = [m EXCEPT ![a] = [m[a] EXCEPT ![b] = m[a][b] + q]]
      BY DEF CountInv
    <2>6. [m[a] EXCEPT ![b] = m[a][b] + q] \in [Links -> Int]
      BY <2>1, <2>5
    <2>7. m' \in [Ifs -> [Links -> Int]]
      BY <2>5, <2>6
    <2>8. ASSUME NEW v \in Ifs, NEW l \in Links PROVE m'[v][l] = m[v][l] + e(v, l, q)
      <3>1. CASE v = a
        BY <2>5, <3>1
      <3>2. CASE v # a
        BY <2>5, <3>2
      <3> QED BY <3>1, <3>2
    <2> QED BY <2>2, <2>3, <2>4, <2>7, <2>8
  <1>8. ASSUME NEW v \in Ifs
        PROVE  /\ num_queued_vif'[v] = Cardinality(BothAt(v)')
               /\ num_pending_vif'[v] = Cardinality(FlyAt(v)')
               /\ stats_num_queued'[v] = Cardinality(WaitAt(v)')
    <2>1. /\ num_queued_vif'[v] = num_queued_vif[v] + d(v, p + q)
          /\ num_pending_vif'[v] = num_pending_vif[v] + d(v, p)
          /\ stats_num_queued'[v] = stats_num_queued[v] + d(v, q)
      <3>1. /\ num_queued_vif \in [Ifs -> Int] /\ num_pending_vif \in [Ifs -> Int]
            /\ stats_num_queued \in [Ifs -> Int]
        BY DEF CountInv
      <3>2. CASE v = a
        BY <3>1, <3>2
      <3>3. CASE v # a
        BY <3>1, <3>3
      <3> QED BY <3>2, <3>3
    <2> HIDE DEF d
    <2>2. /\ Cardinality(BothAt(v)') = Cardinality(BothAt(v)) + d(v, p + q)
          /\ Cardinality(FlyAt(v)') = Cardinality(FlyAt(v)) + d(v, p)
          /\ Cardinality(WaitAt(v)') = Cardinality(WaitAt(v)) + d(v, q)
      <3>1. /\ Enters(BothAt(v), BothAt(v)', i, d(v, p + q)) /\ BothAt(v) \in SUBSET Slots
            /\ Enters(FlyAt(v), FlyAt(v)', i, d(v, p)) /\ FlyAt(v) \in SUBSET Slots
            /\ Enters(WaitAt(v), WaitAt(v)', i, d(v, q)) /\ WaitAt(v) \in SUBSET Slots
        BY <1>2, <1>3, CountTypes
      <3>2. Cardinality(BothAt(v)') = Cardinality(BothAt(v)) + d(v, p + q)
        BY <3>1, EntersCount
      <3>3. Cardinality(FlyAt(v)') = Cardinality(FlyAt(v)) + d(v, p)
        BY <3>1, EntersCount
      <3>4. Cardinality(WaitAt(v)') = Cardinality(WaitAt(v)) + d(v, q)
        BY <3>1, EntersCount
      <3> QED BY <3>2, <3>3, <3>4
    <2>3. /\ num_queued_vif[v] = Cardinality(BothAt(v))
          /\ num_pending_vif[v] = Cardinality(FlyAt(v))
          /\ stats_num_queued[v] = Cardinality(WaitAt(v))
      BY DEF CountInv
    <2> QED BY <2>1, <2>2, <2>3
  <1>9. ASSUME NEW v \in Ifs, NEW l \in Links
        PROVE  link_map_cache'[v][l] = Cardinality(WaitLink(v, l)')
    <2>1. link_map_cache'[v][l] = link_map_cache[v][l] + e(v, l, q)
      BY <1>7
    <2> HIDE DEF e
    <2>2. Cardinality(WaitLink(v, l)') = Cardinality(WaitLink(v, l)) + e(v, l, q)
      BY <1>4, CountTypes, EntersCount
    <2> QED BY <2>1, <2>2 DEF CountInv
  <1> QED BY <1>6, <1>7, <1>8, <1>9 DEF CountInv

LEMMA CountTake ==
    ASSUME ListInv, ItemInv, CountInv, NEW v \in Ifs, NEW allowed \in SUBSET Links,
           xradio_queue_get(v, allowed)
    PROVE  CountInv'
  <1>1. PICK i \in Elems(queue) : i = Taken(v, allowed)
    BY GetMoves
  <1>2. /\ item[i].if_id = v /\ Elems(queue)' = Elems(queue) \ {i}
        /\ Elems(pending)' = Elems(pending) \cup {i} /\ ListInv'
    BY <1>1, GetMoves DEF Moved
  <1>3. i \in Slots /\ i \notin Elems(free_pool) /\ i \notin Elems(pending)
    BY DEF ListInv
  <1>4. PICK b \in Links : b = item[i].link_id
    BY <1>3 DEF ItemInv
  <1>5. /\ num_pending' = num_pending + 1 /\ UNCHANGED <<item, num_queued, num_queued_vif>>
        /\ num_pending_vif' = [num_pending_vif EXCEPT ![v] = @ + 1]
        /\ link_map_cache' = [link_map_cache EXCEPT ![v][b] = @ + -1]
        /\ stats_num_queued' = [stats_num_queued EXCEPT ![v] = @ + -1]
    BY <1>1, <1>4 DEF xradio_queue_get, Taken, CountWaiting
  <1>6. /\ Enters(Elems(queue), Elems(queue)', i, -1)
        /\ Enters(Elems(pending), Elems(pending)', i, 1)
    BY <1>2, <1>3 DEF Enters
  <1>7. num_queued' = num_queued + (1 + -1)
    <2>1. num_queued \in Int
      BY CountTypes DEF CountInv
    <2> QED BY <1>5, <2>1
  <1>8. num_queued_vif' = [num_queued_vif EXCEPT ![v] = @ + (1 + -1)]
    <2>1. num_queued_vif \in [Ifs -> Int]
      BY DEF CountInv
    <2>2. num_queued_vif[v] + (1 + -1) = num_queued_vif[v]
      BY <2>1
    <2> QED BY <1>5, <2>1, <2>2
  <1>9. CountsMove(i, v, b, -1, 1)
    <2>1. -1 \in {-1, 0, 1} /\ 1 \in {-1, 1} /\ 1 + -1 = 0 /\ ~(-1 = 0 /\ 1 = 1)
      OBVIOUS
    <2>2. \A j \in Slots : item'[j].if_id = item[j].if_id /\ item'[j].link_id = item[j].link_id
      BY <1>5
    <2> QED BY <1>2, <1>4, <1>5, <1>6, <1>7, <1>8, <2>1, <2>2, Zenon DEF CountsMove
  <1> QED BY <1>2, <1>3, <1>9, CountMove

LEMMA CountLeave ==
    ASSUME ListInv, ItemInv, CountInv, NEW id \in PacketID, Names(id), Leaves(id),
           UNCHANGED generation
    PROVE  CountInv'
  <1>1. PICK i \in Elems(pending) : i = id.slot
    BY DEF Names
  <1>2. /\ Elems(queue)' = Elems(queue) /\ Elems(pending)' = Elems(pending) \ {i} /\ ListInv'
    BY <1>1, LeaveMoves DEF Moved
  <1>3. i \in Slots /\ i \notin Elems(free_pool) /\ i \notin Elems(queue)
    BY DEF ListInv
  <1>4. PICK a \in Ifs, b \in Links : a = item[i].if_id /\ b = item[i].link_id
    BY <1>3 DEF ItemInv
  <1>5. id.if_id = a
    <2>1. id = IdOf(i)
      BY <1>1, <1>3 DEF Names, ItemInv
    <2>2. IdOf(i).if_id = item[i].if_id
      BY DEF IdOf
    <2> QED BY <1>4, <2>1, <2>2
  <1>6. /\ item' = [item EXCEPT ![i].skb = Null, ![i].generation = (@ + 1) % IGenMod]
        /\ num_pending' = num_pending - 1 /\ num_queued' = num_queued - 1
        /\ num_pending_vif' = [num_pending_vif EXCEPT ![a] = @ - 1]
        /\ num_queued_vif' = [num_queued_vif EXCEPT ![a] = @ - 1]
        /\ UNCHANGED <<link_map_cache, stats_num_queued>>
    BY <1>1, <1>5 DEF Leaves, xradio_queue_remove, PendingDown
  <1>7. ASSUME NEW j \in Slots
        PROVE  item'[j].if_id = item[j].if_id /\ item'[j].link_id = item[j].link_id
    <2>1. item[j] \in ItemType
      BY DEF ItemInv
    <2>2. CASE j = i
      <3>1. item'[j] = [item[j] EXCEPT !.skb = Null, !.generation = (@ + 1) % IGenMod]
        BY <1>6, <2>2 DEF ItemInv
      <3> QED BY <2>1, <3>1 DEF ItemType
    <2>3. CASE j # i
      BY <1>6, <2>3 DEF ItemInv
    <2> QED BY <2>2, <2>3
  <1>8. /\ num_queued_vif \in [Ifs -> Int] /\ num_pending_vif \in [Ifs -> Int]
        /\ stats_num_queued \in [Ifs -> Int] /\ link_map_cache \in [Ifs -> [Links -> Int]]
        /\ num_queued \in Int /\ num_pending \in Int
    BY CountTypes DEF CountInv
  <1>9. num_queued' = num_queued + (-1 + 0) /\ num_pending' = num_pending + -1
    BY <1>6, <1>8
  <1>10. /\ num_queued_vif' = [num_queued_vif EXCEPT ![a] = @ + (-1 + 0)]
         /\ num_pending_vif' = [num_pending_vif EXCEPT ![a] = @ + -1]
    <2>1. /\ num_queued_vif[a] - 1 = num_queued_vif[a] + (-1 + 0)
          /\ num_pending_vif[a] - 1 = num_pending_vif[a] + -1
      BY <1>8
    <2> QED BY <1>6, <2>1
  <1>11. /\ stats_num_queued' = [stats_num_queued EXCEPT ![a] = @ + 0]
         /\ link_map_cache' = [link_map_cache EXCEPT ![a][b] = @ + 0]
    <2>1. stats_num_queued[a] + 0 = stats_num_queued[a]
      BY <1>8
    <2>2. link_map_cache[a][b] + 0 = link_map_cache[a][b]
      BY <1>8
    <2>3. stats_num_queued = [stats_num_queued EXCEPT ![a] = stats_num_queued[a] + 0]
      BY <1>8, <2>1
    <2>4. [link_map_cache[a] EXCEPT ![b] = link_map_cache[a][b] + 0] = link_map_cache[a]
      BY <1>8, <2>2
    <2>5. link_map_cache = [link_map_cache EXCEPT ![a][b] = link_map_cache[a][b] + 0]
      BY <1>8, <2>4
    <2> QED BY <1>6, <2>3, <2>5
  <1>12. /\ Enters(Elems(queue), Elems(queue)', i, 0)
         /\ Enters(Elems(pending), Elems(pending)', i, -1)
    BY <1>1, <1>2 DEF Enters
  <1>13. CountsMove(i, a, b, 0, -1)
    BY <1>4, <1>7, <1>9, <1>10, <1>11, <1>12 DEF CountsMove
  <1> QED BY <1>2, <1>3, <1>13, CountMove

LEMMA CountReturn ==
    ASSUME ListInv, ItemInv, CountInv, NEW id \in PacketID, Names(id), Returns(id),
           UNCHANGED generation
    PROVE  CountInv'
  <1>1. PICK i \in Elems(pending) : i = id.slot
    BY DEF Names
  <1>2. /\ Elems(queue)' = Elems(queue) \cup {i} /\ Elems(pending)' = Elems(pending) \ {i}
        /\ ListInv'
    BY <1>1, ReturnMoves DEF Moved
  <1>3. i \in Slots /\ i \notin Elems(free_pool) /\ i \notin Elems(queue)
    BY DEF ListInv
  <1>4. PICK a \in Ifs, b \in Links : a = item[i].if_id /\ b = item[i].link_id
    BY <1>3 DEF ItemInv
  <1>5. id.if_id = a
    <2>1. id = IdOf(i)
      BY <1>1, <1>3 DEF Names, ItemInv
    <2>2. IdOf(i).if_id = item[i].if_id
      BY DEF IdOf
    <2> QED BY <1>4, <2>1, <2>2
  <1>6. /\ num_pending' = num_pending - 1
        /\ num_pending_vif' = [num_pending_vif EXCEPT ![a] = @ - 1]
        /\ link_map_cache' = [link_map_cache EXCEPT ![a][b] = @ + 1]
        /\ stats_num_queued' = [stats_num_queued EXCEPT ![a] = @ + 1]
        /\ UNCHANGED <<num_queued, num_queued_vif>>
    BY <1>1, <1>4, <1>5 DEF Returns, xradio_queue_requeue, PendingDown, CountWaiting
  <1>7. ASSUME NEW j \in Slots
        PROVE  item'[j].if_id = item[j].if_id /\ item'[j].link_id = item[j].link_id
    <2>1. item[j] \in ItemType
      BY DEF ItemInv
    <2>2. PICK g, q : item' = [item EXCEPT ![i].generation = g, ![i].packetID = q]
      BY <1>1 DEF Returns, xradio_queue_requeue
    <2>3. CASE j = i
      <3>1. item'[j] = [item[j] EXCEPT !.generation = g, !.packetID = q]
        BY <2>2, <2>3 DEF ItemInv
      <3> QED BY <2>1, <3>1 DEF ItemType
    <2>4. CASE j # i
      BY <2>2, <2>4 DEF ItemInv
    <2> QED BY <2>3, <2>4
  <1>8. /\ num_queued_vif \in [Ifs -> Int] /\ num_pending_vif \in [Ifs -> Int]
        /\ num_queued \in Int /\ num_pending \in Int
    BY CountTypes DEF CountInv
  <1>9. num_queued' = num_queued + (-1 + 1) /\ num_pending' = num_pending + -1
    BY <1>6, <1>8
  <1>10. /\ num_queued_vif' = [num_queued_vif EXCEPT ![a] = @ + (-1 + 1)]
         /\ num_pending_vif' = [num_pending_vif EXCEPT ![a] = @ + -1]
    <2>1. /\ num_queued_vif[a] = num_queued_vif[a] + (-1 + 1)
          /\ num_pending_vif[a] - 1 = num_pending_vif[a] + -1
      BY <1>8
    <2>2. num_queued_vif = [num_queued_vif EXCEPT ![a] = num_queued_vif[a] + (-1 + 1)]
      BY <1>8, <2>1
    <2> QED BY <1>6, <2>1, <2>2
  <1>11. /\ Enters(Elems(queue), Elems(queue)', i, 1)
         /\ Enters(Elems(pending), Elems(pending)', i, -1)
    BY <1>1, <1>2, <1>3 DEF Enters
  <1>12. CountsMove(i, a, b, 1, -1)
    <2>1. 1 \in {-1, 0, 1} /\ -1 \in {-1, 1} /\ -1 + 1 = 0 /\ ~(1 = 0 /\ -1 = 1)
      OBVIOUS
    <2> QED BY <1>4, <1>6, <1>7, <1>9, <1>10, <1>11, <2>1, Zenon DEF CountsMove
  <1> QED BY <1>2, <1>3, <1>12, CountMove

\* A slot that is emptied keeps its interface and link.
LEMMA EmptyKeepsIf ==
    ASSUME ItemInv, NEW G, item' = EmptySlots(G)
    PROVE  \A j \in Slots : item'[j].if_id = item[j].if_id /\ item'[j].link_id = item[j].link_id
  <1>1. ASSUME NEW j \in Slots
        PROVE  item'[j].if_id = item[j].if_id /\ item'[j].link_id = item[j].link_id
    <2>1. item[j] \in ItemType
      BY DEF ItemInv
    <2>2. CASE j \in G
      <3>1. item'[j] = [item[j] EXCEPT !.skb = Null]
        BY <2>2 DEF EmptySlots
      <3> QED BY <2>1, <3>1 DEF ItemType
    <2>3. CASE j \notin G
      BY <2>3 DEF EmptySlots
    <2> QED BY <2>2, <2>3
  <1> QED BY <1>1

LEMMA CountGc ==
    ASSUME ListInv, ItemInv, CountInv, xradio_queue_gc
    PROVE  CountInv'
  <1>1. PICK n \in 0 .. Len(queue) :
          /\ queue' = SubSeq(queue, n + 1, Len(queue))
          /\ free_pool' = free_pool \o SubSeq(queue, 1, n)
          /\ item' = EmptySlots(Elems(SubSeq(queue, 1, n)))
          /\ num_queued' = num_queued - n
          /\ CountExpired(Elems(SubSeq(queue, 1, n)))
          /\ UNCHANGED <<pending, num_pending, num_pending_vif>>
    BY DEF xradio_queue_gc
  <1>2. PICK S \in SUBSET Slots : S = Elems(SubSeq(queue, 1, n))
    <2>1. Expires(n)
      <3>1. /\ queue' = SubSeq(queue, n + 1, Len(queue)) /\ pending' = pending
            /\ free_pool' = free_pool \o SubSeq(queue, 1, n)
        BY <1>1
      <3> QED BY <3>1, GcMoves
    <2>2. Elems(SubSeq(queue, 1, n)) \in SUBSET Slots
      <3>1. Elems(SubSeq(queue, 1, n)) \subseteq Elems(queue)
        BY <2>1 DEF Expires
      <3>2. Elems(queue) \subseteq Slots
        BY DEF ListInv
      <3> QED BY <3>1, <3>2
    <2> QED BY <2>2
  <1>3. /\ S \subseteq Elems(queue) /\ Cardinality(S) = n /\ ListInv'
        /\ Elems(queue)' = Elems(queue) \ S /\ Elems(pending)' = Elems(pending)
    <2>1. Expires(n)
      BY <1>1, GcMoves
    <2> QED BY <1>2, <2>1, LenNoDup DEF Expires, Moved
  <1>4. \A j \in Slots : item'[j].if_id = item[j].if_id /\ item'[j].link_id = item[j].link_id
    BY <1>1, EmptyKeepsIf
  <1> DEFINE SIf(v) == {i \in S : item[i].if_id = v}
             SLink(v, l) == {i \in S : item[i].if_id = v /\ item[i].link_id = l}
  <1>5. /\ num_queued_vif' = [v \in Ifs |-> num_queued_vif[v] - Cardinality(SIf(v))]
        /\ stats_num_queued' = [v \in Ifs |-> stats_num_queued[v] - Cardinality(SIf(v))]
        /\ link_map_cache' = [v \in Ifs |-> [l \in Links |->
             link_map_cache[v][l] - Cardinality(SLink(v, l))]]
    BY <1>1, <1>2 DEF CountExpired, OfIf, OfLink
  <1>6. /\ Elems(queue) \subseteq Slots /\ Elems(pending) \subseteq Slots
        /\ Elems(queue) \cap Elems(pending) = {}
    BY DEF ListInv
  <1>7. ASSUME NEW v \in Ifs
        PROVE  /\ WaitAt(v)' = WaitAt(v) \ SIf(v) /\ SIf(v) \subseteq WaitAt(v)
               /\ FlyAt(v)' = FlyAt(v)
    BY <1>3, <1>4, <1>6 DEF WaitAt, FlyAt
  <1>8. ASSUME NEW v \in Ifs
        PROVE  BothAt(v)' = BothAt(v) \ SIf(v) /\ SIf(v) \subseteq BothAt(v)
    BY <1>3, <1>4, <1>6 DEF BothAt
  <1>9. ASSUME NEW v \in Ifs, NEW l \in Links
        PROVE  /\ WaitLink(v, l)' = WaitLink(v, l) \ SLink(v, l)
               /\ SLink(v, l) \subseteq WaitLink(v, l)
    BY <1>3, <1>4, <1>6 DEF WaitLink
  <1>10. Len(queue') = Len(queue) - n /\ Len(pending') = Len(pending) /\ Len(queue) \in Int
         /\ Len(pending) \in Int /\ n \in Int
    <2>1. Cardinality(Elems(queue) \ S) = Cardinality(Elems(queue)) - n
      BY <1>3, <1>6, SlotsLess
    <2>2. /\ Len(queue) = Cardinality(Elems(queue)) /\ Len(queue) \in Int
          /\ Len(pending) = Cardinality(Elems(pending)) /\ Len(pending) \in Int
      BY CountTypes
    <2>3. Len(queue') = Cardinality(Elems(queue)') /\ Len(pending') = Cardinality(Elems(pending)')
      BY <1>3, CountTypesNext
    <2> QED BY <1>1, <1>3, <2>1, <2>2, <2>3
  <1>11. num_queued' = Len(queue') + Len(pending') /\ num_pending' = Len(pending')
    <2>1. num_queued = Len(queue) + Len(pending) /\ num_pending = Len(pending)
      BY DEF CountInv
    <2>2. num_queued' = num_queued - n /\ num_pending' = num_pending
      BY <1>1
    <2>3. num_queued - n = (Len(queue) - n) + Len(pending)
      BY <1>10, <2>1
    <2> QED BY <1>10, <2>1, <2>2, <2>3, Zenon
  <1> HIDE DEF SIf, SLink
  <1>12. ASSUME NEW v \in Ifs
         PROVE  /\ num_queued_vif'[v] = Cardinality(BothAt(v)')
                /\ stats_num_queued'[v] = Cardinality(WaitAt(v)')
                /\ num_pending_vif'[v] = Cardinality(FlyAt(v)')
                /\ num_queued_vif'[v] \in Int /\ stats_num_queued'[v] \in Int
    <2>1. Cardinality(BothAt(v)') = Cardinality(BothAt(v)) - Cardinality(SIf(v))
      BY <1>8, CountTypes, SlotsLess
    <2>2. Cardinality(WaitAt(v)') = Cardinality(WaitAt(v)) - Cardinality(SIf(v))
      BY <1>7, CountTypes, SlotsLess
    <2>3. SIf(v) \in SUBSET Slots
      BY DEF SIf
    <2>4. Cardinality(SIf(v)) \in Int
      BY <2>3, SlotCount
    <2>5. /\ num_queued_vif'[v] = num_queued_vif[v] - Cardinality(SIf(v))
          /\ stats_num_queued'[v] = stats_num_queued[v] - Cardinality(SIf(v))
      BY <1>5
    <2>6. num_queued_vif[v] \in Int /\ stats_num_queued[v] \in Int
      BY DEF CountInv
    <2>7. num_queued_vif'[v] \in Int /\ stats_num_queued'[v] \in Int
      BY <2>4, <2>5, <2>6
    <2> QED BY <1>1, <1>7, <2>1, <2>2, <2>5, <2>7 DEF CountInv
  <1>13. ASSUME NEW v \in Ifs, NEW l \in Links
         PROVE  /\ link_map_cache'[v][l] = Cardinality(WaitLink(v, l)')
                /\ link_map_cache'[v][l] \in Int
    <2>1. Cardinality(WaitLink(v, l)') = Cardinality(WaitLink(v, l)) - Cardinality(SLink(v, l))
      BY <1>9, CountTypes, SlotsLess
    <2>2. SLink(v, l) \in SUBSET Slots
      BY DEF SLink
    <2>3. Cardinality(SLink(v, l)) \in Int
      BY <2>2, SlotCount
    <2>4. link_map_cache'[v][l] = link_map_cache[v][l] - Cardinality(SLink(v, l))
      BY <1>5
    <2>5. link_map_cache[v][l] \in Int /\ link_map_cache[v][l] = Cardinality(WaitLink(v, l))
      BY DEF CountInv
    <2> QED BY <2>1, <2>3, <2>4, <2>5
  <1>14. /\ num_queued_vif' \in [Ifs -> Int] /\ num_pending_vif' \in [Ifs -> Int]
         /\ stats_num_queued' \in [Ifs -> Int] /\ link_map_cache' \in [Ifs -> [Links -> Int]]
    <2>1. num_queued_vif' = [v \in Ifs |-> num_queued_vif'[v]]
      BY <1>5
    <2>2. stats_num_queued' = [v \in Ifs |-> stats_num_queued'[v]]
      BY <1>5
    <2>3. link_map_cache' = [v \in Ifs |-> [l \in Links |-> link_map_cache'[v][l]]]
      BY <1>5
    <2>4. num_queued_vif' \in [Ifs -> Int]
      BY <1>12, <2>1
    <2>5. stats_num_queued' \in [Ifs -> Int]
      BY <1>12, <2>2
    <2>6. link_map_cache' \in [Ifs -> [Links -> Int]]
      BY <1>13, <2>3
    <2> QED BY <1>1, <2>4, <2>5, <2>6 DEF CountInv
  <1> QED BY <1>11, <1>12, <1>13, <1>14 DEF CountInv

LEMMA CountClear ==
    ASSUME ListInv, ItemInv, CountInv, NEW V \in SUBSET Ifs, ClearItems(V)
    PROVE  CountInv'
  <1> DEFINE W == OfIfs(V)
             kq == ListKeep(queue, W)
             kp == ListKeep(pending, W)
  <1>1. /\ Elems(queue)' = Elems(queue) \ W /\ Elems(pending)' = Elems(pending) \ W /\ ListInv'
        /\ Len(Gone(V)) = Len(kq) + Len(kp)
    BY ClearMoves DEF Moved
  <1>2. /\ num_queued' = num_queued - Len(Gone(V)) /\ num_pending' = num_pending - Len(kp)
        /\ num_queued_vif' = [v \in Ifs |-> IF v \in V THEN 0 ELSE num_queued_vif[v]]
        /\ num_pending_vif' = [v \in Ifs |-> IF v \in V THEN 0 ELSE num_pending_vif[v]]
        /\ stats_num_queued' = [v \in Ifs |->
             IF v \in V THEN stats_num_queued[v] - WaitingOfIf(v) ELSE stats_num_queued[v]]
        /\ link_map_cache' = [v \in Ifs |-> IF v \in V THEN [l \in Links |-> 0]
                                            ELSE link_map_cache[v]]
        /\ item' = EmptySlots(Elems(Gone(V)))
    BY DEF ClearItems, Gone, OfIfs
  <1>3. \A j \in Slots : item'[j].if_id = item[j].if_id /\ item'[j].link_id = item[j].link_id
    BY <1>2, EmptyKeepsIf
  <1>4. /\ Len(kq) = Cardinality(Elems(queue) \cap W) /\ Len(kq) \in Int
        /\ Len(kp) = Cardinality(Elems(pending) \cap W) /\ Len(kp) \in Int
    <2>1. /\ kq \in Seq(Slots) /\ NoDup(kq) /\ Elems(kq) = Elems(queue) \cap W
          /\ kp \in Seq(Slots) /\ NoDup(kp) /\ Elems(kp) = Elems(pending) \cap W
      BY ElemsListKeep DEF ListInv
    <2> HIDE DEF kq, kp
    <2>2. Len(kq) = Cardinality(Elems(kq)) /\ Len(kp) = Cardinality(Elems(kp))
      BY <2>1, LenNoDup
    <2> QED BY <2>1, <2>2
  <1> HIDE DEF W, kq, kp
  <1>5. /\ Elems(queue) \subseteq Slots /\ Elems(pending) \subseteq Slots
    BY DEF ListInv
  <1>6. Len(queue') = Len(queue) - Len(kq) /\ Len(pending') = Len(pending) - Len(kp)
    <2>1. /\ Elems(queue) \ W = Elems(queue) \ (Elems(queue) \cap W)
          /\ Elems(pending) \ W = Elems(pending) \ (Elems(pending) \cap W)
      OBVIOUS
    <2>2. /\ Cardinality(Elems(queue) \ W) = Cardinality(Elems(queue)) - Len(kq)
          /\ Cardinality(Elems(pending) \ W) = Cardinality(Elems(pending)) - Len(kp)
      BY <1>4, <1>5, <2>1, SlotsLess
    <2>3. /\ Len(queue) = Cardinality(Elems(queue)) /\ Len(pending) = Cardinality(Elems(pending))
          /\ Len(queue') = Cardinality(Elems(queue)') /\ Len(pending') = Cardinality(Elems(pending)')
      BY <1>1, CountTypes, CountTypesNext
    <2> QED BY <1>1, <2>2, <2>3, Zenon
  <1>7. num_queued' = Len(queue') + Len(pending') /\ num_pending' = Len(pending')
    <2>1. num_queued = Len(queue) + Len(pending) /\ num_pending = Len(pending)
      BY DEF CountInv
    <2>2. Len(queue) \in Int /\ Len(pending) \in Int
      BY CountTypes
    <2> QED BY <1>1, <1>2, <1>4, <1>6, <2>1, <2>2
  <1>8. \A i \in Elems(queue) \cup Elems(pending) : i \in W <=> item[i].if_id \in V
    BY <1>5 DEF W, OfIfs
  <1>9. ASSUME NEW v \in Ifs, v \in V
        PROVE  /\ WaitAt(v)' = {} /\ FlyAt(v)' = {} /\ BothAt(v)' = {}
               /\ \A l \in Links : WaitLink(v, l)' = {}
    <2>1. \A i \in Elems(queue)' \cup Elems(pending)' : item'[i].if_id # v
      BY <1>1, <1>3, <1>5, <1>8, <1>9
    <2> QED BY <2>1 DEF WaitAt, FlyAt, BothAt, WaitLink
  <1>10. ASSUME NEW v \in Ifs, v \notin V
         PROVE  /\ WaitAt(v)' = WaitAt(v) /\ FlyAt(v)' = FlyAt(v) /\ BothAt(v)' = BothAt(v)
                /\ \A l \in Links : WaitLink(v, l)' = WaitLink(v, l)
    <2>1. /\ \A i : i \in Elems(queue)' => i \in Elems(queue)
          /\ \A i : i \in Elems(pending)' => i \in Elems(pending)
          /\ \A i : i \in Elems(queue) /\ item[i].if_id = v => i \in Elems(queue)'
          /\ \A i : i \in Elems(pending) /\ item[i].if_id = v => i \in Elems(pending)'
      BY <1>1, <1>8, <1>10
    <2>2. WaitAt(v)' = WaitAt(v)
      BY <1>3, <1>5, <2>1 DEF WaitAt
    <2>3. FlyAt(v)' = FlyAt(v)
      BY <1>3, <1>5, <2>1 DEF FlyAt
    <2>4. BothAt(v)' = BothAt(v)
      BY <1>3, <1>5, <2>1 DEF BothAt
    <2>5. ASSUME NEW l \in Links PROVE WaitLink(v, l)' = WaitLink(v, l)
      BY <1>3, <1>5, <2>1 DEF WaitLink
    <2> QED BY <2>2, <2>3, <2>4, <2>5
  <1>11. Cardinality({}) = 0
    BY FS_EmptySet
  <1>12. ASSUME NEW v \in Ifs
         PROVE  /\ num_queued_vif'[v] = Cardinality(BothAt(v)')
                /\ num_pending_vif'[v] = Cardinality(FlyAt(v)')
                /\ stats_num_queued'[v] = Cardinality(WaitAt(v)')
                /\ \A l \in Links : link_map_cache'[v][l] = Cardinality(WaitLink(v, l)')
    <2>1. CASE v \in V
      <3>1. stats_num_queued[v] - WaitingOfIf(v) = 0
        <4>1. stats_num_queued[v] \in Int
          BY DEF CountInv
        <4> QED BY <4>1, WaitingExact
      <3> QED BY <1>2, <1>9, <1>11, <2>1, <3>1
    <2>2. CASE v \notin V
      BY <1>2, <1>10, <2>2 DEF CountInv
    <2> QED BY <2>1, <2>2
  <1>13. /\ num_queued_vif' \in [Ifs -> Int] /\ num_pending_vif' \in [Ifs -> Int]
         /\ stats_num_queued' \in [Ifs -> Int] /\ link_map_cache' \in [Ifs -> [Links -> Int]]
    <2>1. num_queued_vif' \in [Ifs -> Int]
      BY <1>2 DEF CountInv
    <2>2. num_pending_vif' \in [Ifs -> Int]
      BY <1>2 DEF CountInv
    <2>3. ASSUME NEW v \in Ifs PROVE stats_num_queued'[v] \in Int
      <3>1. stats_num_queued[v] \in Int
        BY DEF CountInv
      <3>2. CASE v \in V
        BY <1>2, <3>1, <3>2, WaitingExact
      <3>3. CASE v \notin V
        BY <1>2, <3>1, <3>3
      <3> QED BY <3>2, <3>3
    <2>4. stats_num_queued' = [v \in Ifs |-> stats_num_queued'[v]]
      BY <1>2
    <2>5. stats_num_queued' \in [Ifs -> Int]
      BY <2>3, <2>4
    <2>6. [l \in Links |-> 0] \in [Links -> Int]
      OBVIOUS
    <2>7. link_map_cache' \in [Ifs -> [Links -> Int]]
      BY <1>2, <2>6 DEF CountInv
    <2> QED BY <2>1, <2>2, <2>5, <2>7
  <1> QED BY <1>7, <1>12, <1>13 DEF CountInv

LEMMA CountStep ==
    ASSUME TypeInv, ListInv, ItemInv, TokenInv, CountInv, Next
    PROVE  CountInv'
  <1>1. CASE UNCHANGED <<listVars, countVars, generation>>
    BY <1>1, CountKept DEF listVars
  <1>2. CASE xradio_queue_clear
    <2>1. ClearItems({flushing}) /\ flushing \in Ifs
      BY <1>2, NextGeneration DEF xradio_queue_clear
    <2> QED BY <2>1, CountClear
  <1>3. CASE xradio_stop
    BY <1>3, CountClear DEF xradio_stop
  <1> QED BY <1>1, <1>2, <1>3, CountPut, CountTake, CountLeave, CountReturn, CountGc, QueueSteps

-----------------------------------------------------------------------------
(***************************************************************************)
(* The invariant, and the properties that it implies.                      *)
(***************************************************************************)
LEMMA InitLists ==
    ASSUME Init
    PROVE  ListInv /\ Elems(queue) = {} /\ Elems(pending) = {} /\ Elems(free_pool) = Slots
  <1>1. queue = <<>> /\ pending = <<>> /\ free_pool = [i \in Slots |-> i]
    BY DEF Init
  <1>2. /\ queue \in Seq(Slots) /\ pending \in Seq(Slots) /\ NoDup(queue) /\ NoDup(pending)
        /\ Elems(queue) = {} /\ Elems(pending) = {}
    <2>1. <<>> \in Seq(Slots) /\ NoDup(<<>>) /\ Elems(<<>>) = {}
      BY DEF Elems, NoDup
    <2> QED BY <1>1, <2>1
  <1>3. free_pool \in Seq(Slots) /\ NoDup(free_pool) /\ Elems(free_pool) = Slots
    <2>1. free_pool \in Seq(Slots) /\ DOMAIN free_pool = Slots
      BY <1>1, QueueAssumption DEF Slots
    <2>2. NoDup(free_pool)
      BY <1>1, <2>1 DEF NoDup
    <2>3. Elems(free_pool) = Slots
      BY <1>1, <2>1 DEF Elems
    <2> QED BY <2>1, <2>2, <2>3
  <1> QED BY <1>2, <1>3 DEF ListInv

LEMMA InvInit ==
    ASSUME Init
    PROVE  Inv
  <1> USE DEF Init
  <1>1. TypeInv
    <2>1. 0 \in 0 .. QGenMod - 1 /\ 0 \in 0 .. MaxRequeues /\ 0 \in 0 .. MaxClears
      BY QueueAssumption
    <2>2. \A v \in Ifs : generation[v] + (IF flushing = v THEN 1 ELSE 0) <= clears
      <3>1. \A v \in Ifs : v # Null
        BY QueueAssumption
      <3> QED BY <3>1
    <2>3. bh_tx \in Seq(BhEntry) /\ header \in [Frames -> Opt(PacketID)]
          /\ generation \in [Ifs -> 0 .. QGenMod - 1] /\ tx \in [Cpus -> Opt(TxFrame)]
      BY <2>1 DEF Opt
    <2> QED BY <2>1, <2>2, <2>3 DEF TypeInv, Opt
  <1>2. ItemInv
    <2>1. 0 \in 0 .. IGenMod - 1
      BY QueueAssumption
    <2>2. item \in [Slots -> ItemType]
      BY <2>1 DEF ItemType, Opt
    <2> QED BY <2>2, InitLists DEF ItemInv
  <1>3. FrameInv
    <2>1. \A f \in Frames : f # Null
      BY QueueAssumption
    <2>2. TxFrames = {} /\ ItemFrames = {} /\ DeadFrames = {}
      BY <2>1 DEF TxFrames, ItemFrames, DeadFrames
    <2>3. gc_list \in Seq(Frames) /\ NoDup(gc_list) /\ Elems(gc_list) = {}
      BY DEF NoDup, Elems
    <2>4. destroyed \in [Frames -> 0 .. 1]
      OBVIOUS
    <2> QED BY <2>2, <2>3, <2>4 DEF FrameInv
  <1>4. TokenInv
    BY DEF TokenInv
  <1>5. LoneInv
    <2>1. BhSlots = {} /\ FwSlots = {} /\ ProcSlots = {} /\ HeldSlots = {}
      BY DEF BhSlots, FwSlots, ProcSlots, HeldSlots
    <2> QED BY <2>1 DEF LoneInv
  <1>6. CountInv
    <2>1. /\ \A v : WaitAt(v) = {} /\ FlyAt(v) = {} /\ BothAt(v) = {}
          /\ \A v, l : WaitLink(v, l) = {}
      BY InitLists DEF WaitAt, FlyAt, BothAt, WaitLink
    <2>2. Cardinality({}) = 0
      BY FS_EmptySet
    <2>3. Len(queue) = 0 /\ Len(pending) = 0
      OBVIOUS
    <2>4. /\ num_queued_vif \in [Ifs -> Int] /\ num_pending_vif \in [Ifs -> Int]
          /\ stats_num_queued \in [Ifs -> Int] /\ link_map_cache \in [Ifs -> [Links -> Int]]
      OBVIOUS
    <2>5. num_queued = 0 /\ num_pending = 0 /\ 0 = 0 + 0
      OBVIOUS
    <2>6. ASSUME NEW v \in Ifs
          PROVE  /\ num_queued_vif[v] = 0 /\ num_pending_vif[v] = 0 /\ stats_num_queued[v] = 0
                 /\ \A l \in Links : link_map_cache[v][l] = 0
      OBVIOUS
    <2> USE DEF CountInv
    <2>7. num_queued = Len(queue) + Len(pending) /\ num_pending = Len(pending)
      BY <2>3, <2>5
    <2>8. \A v \in Ifs :
            /\ num_queued_vif[v] = Cardinality(BothAt(v))
            /\ num_pending_vif[v] = Cardinality(FlyAt(v))
            /\ stats_num_queued[v] = Cardinality(WaitAt(v))
            /\ \A l \in Links : link_map_cache[v][l] = Cardinality(WaitLink(v, l))
      <3> HIDE DEF Init
      <3> QED BY <2>1, <2>2, <2>6, Zenon
    <2> HIDE DEF Init
    <2> QED BY <2>4, <2>7, <2>8
  <1> QED BY <1>1, <1>2, <1>3, <1>4, <1>5, <1>6, InitLists DEF Inv

LEMMA InvStutter ==
    ASSUME Inv, UNCHANGED vars
    PROVE  Inv'
  <1> USE DEF Inv, vars, listVars, countVars, lockVars, stackVars, bound
  <1>1. TypeInv'
    BY TypeKept DEF typeVars
  <1>2. ListInv' /\ ItemInv'
    BY DEF ListInv, ItemInv, IdOf
  <1>3. FrameInv'
    BY FrameKept
  <1>4. TokenInv' /\ LoneInv'
    <2>1. Calm
      BY QuietCalm
    <2> QED BY <2>1, TokenShrink DEF Calm
  <1>5. CountInv'
    BY CountKept
  <1> QED BY <1>1, <1>2, <1>3, <1>4, <1>5

LEMMA InvNext ==
    ASSUME DropRaces = FALSE, Inv, [Next]_vars
    PROVE  Inv'
  <1>1. CASE Next
    <2>1. TypeInv /\ ListInv /\ ItemInv /\ FrameInv /\ TokenInv /\ LoneInv /\ CountInv
      BY DEF Inv
    <2>2. TypeInv' /\ ListInv' /\ ItemInv' /\ FrameInv' /\ TokenInv' /\ LoneInv' /\ CountInv'
      BY <1>1, <2>1, TypeStep, ItemStep, FrameStep, TokenStep, CountStep
    <2> QED BY <2>2 DEF Inv
  <1>2. CASE UNCHANGED vars
    BY <1>2, InvStutter
  <1> QED BY <1>1, <1>2

LEMMA Invariance ==
    ASSUME DropRaces = FALSE
    PROVE  Spec => []Inv
  <1>1. Init => Inv
    BY InvInit
  <1>2. Inv /\ [Next]_vars => Inv'
    BY InvNext
  <1> QED BY <1>1, <1>2, PTL DEF Spec

LEMMA InvItems ==
    ASSUME Inv
    PROVE  ItemsPartition
  <1> DEFINE qp == queue \o pending
             all == qp \o free_pool
  <1>1. /\ qp \in Seq(Slots) /\ Len(qp) = Len(queue) + Len(pending)
        /\ Elems(qp) = Elems(queue) \cup Elems(pending) /\ NoDup(qp)
    BY ElemsConcat DEF Inv, ListInv
  <1>2. free_pool \in Seq(Slots) /\ NoDup(free_pool) /\ Elems(qp) \cap Elems(free_pool) = {}
    BY <1>1 DEF Inv, ListInv
  <1> HIDE DEF qp
  <1>3. all \in Seq(Slots) /\ Elems(all) = Slots /\ NoDup(all)
    <2>1. NoDup(qp) /\ NoDup(free_pool)
      BY <1>1 DEF Inv, ListInv
    <2>2. all \in Seq(Slots) /\ Elems(all) = Elems(qp) \cup Elems(free_pool) /\ NoDup(all)
      BY <1>1, <1>2, <2>1, ElemsConcat
    <2>3. Elems(qp) \cup Elems(free_pool) = Slots
      BY <1>1 DEF Inv, ListInv
    <2> QED BY <2>2, <2>3
  <1> HIDE DEF all
  <1>4. Len(all) = Capacity
    <2>1. Len(all) = Cardinality(Slots)
      BY <1>3, LenNoDup
    <2> QED BY <2>1, FS_Interval, QueueAssumption DEF Slots
  <1>5. \A i \in Slots : item[i].skb = Null <=> i \in Elems(free_pool)
    BY DEF Inv, ItemInv
  <1> QED BY <1>3, <1>4, <1>5 DEF ItemsPartition, all, qp

LEMMA InvCounts ==
    ASSUME Inv
    PROVE  CountersMatch
  BY DEF Inv, CountInv, CountersMatch, OfIf, OfLink, WaitAt, FlyAt, BothAt, WaitLink

LEMMA InvConfirm ==
    ASSUME Inv
    PROVE  ConfirmOwnFrame
  <1>1. \A id : Token(id) /\ GenerationsMatch(id) => Now(id) /\ id.slot \in Elems(pending)
    BY DEF Token, GenerationsMatch, Now, Names
  <1>2. \A p \in fw : GenerationsMatch(p.id) =>
          item[p.id.slot].skb = p.skb /\ p.id.slot \in Elems(pending)
    BY <1>1 DEF Inv, TokenInv
  <1>3. proc # Null /\ GenerationsMatch(proc.id) =>
          item[proc.id.slot].skb = proc.skb /\ proc.id.slot \in Elems(pending)
    BY <1>1 DEF Inv, TokenInv
  <1>4. held # Null /\ GenerationsMatch(held.id) => held.id.slot \in Elems(pending)
    BY <1>1 DEF Inv, TokenInv
  <1> QED BY <1>2, <1>3, <1>4 DEF ConfirmOwnFrame

\* At most one member.
LEMMA AtMostOne ==
    ASSUME NEW S, \A a, b \in S : a = b
    PROVE  Cardinality(S) = IF S = {} THEN 0 ELSE 1
  <1>1. CASE S = {}
    BY <1>1, FS_EmptySet
  <1>2. CASE S # {}
    <2>1. PICK a \in S : TRUE
      BY <1>2
    <2>2. S = {a}
      BY <2>1
    <2> QED BY <1>2, <2>2, FS_Singleton
  <1> QED BY <1>1, <1>2

LEMMA InvFrames ==
    ASSUME Inv
    PROVE  FrameConserved
  <1> DEFINE A(f) == {c \in Cpus : tx[c] # Null /\ tx[c].skb = f}
             B(f) == {i \in Slots : item[i].skb = f}
             C(f) == {k \in DOMAIN gc_list : gc_list[k] = f}
  <1>1. FrameInv
    BY DEF Inv
  <1>2. sent \subseteq Frames
    BY <1>1, ElemsType DEF FrameInv, TxFrames, ItemFrames, DeadFrames
  <1>3. ASSUME NEW f \in sent
        PROVE  Cardinality(A(f)) + Cardinality(B(f)) + Cardinality(C(f)) + destroyed[f] = 1
    <2>1. f \in Frames /\ f # Null
      BY <1>2, QueueAssumption
    <2>2. Cardinality(A(f)) = IF f \in TxFrames THEN 1 ELSE 0
      <3>1. \A a, b \in A(f) : a = b
        BY <1>1 DEF FrameInv
      <3>2. A(f) = {} <=> f \notin TxFrames
        BY <2>1 DEF TxFrames
      <3> HIDE DEF A
      <3>3. Cardinality(A(f)) = IF A(f) = {} THEN 0 ELSE 1
        BY <3>1, AtMostOne
      <3> QED BY <3>2, <3>3
    <2>3. Cardinality(B(f)) = IF f \in ItemFrames THEN 1 ELSE 0
      <3>1. \A a, b \in B(f) : a = b
        BY <1>1, <2>1 DEF FrameInv
      <3>2. B(f) = {} <=> f \notin ItemFrames
        BY <2>1 DEF ItemFrames
      <3> HIDE DEF B
      <3>3. Cardinality(B(f)) = IF B(f) = {} THEN 0 ELSE 1
        BY <3>1, AtMostOne
      <3> QED BY <3>2, <3>3
    <2>4. Cardinality(C(f)) = IF f \in Elems(gc_list) THEN 1 ELSE 0
      <3>1. \A a, b \in C(f) : a = b
        BY <1>1 DEF FrameInv, NoDup
      <3>2. C(f) = {} <=> f \notin Elems(gc_list)
        BY DEF Elems
      <3> HIDE DEF C
      <3>3. Cardinality(C(f)) = IF C(f) = {} THEN 0 ELSE 1
        BY <3>1, AtMostOne
      <3> QED BY <3>2, <3>3
    <2>5. destroyed[f] = IF f \in DeadFrames THEN 1 ELSE 0
      BY <1>1, <2>1 DEF FrameInv, DeadFrames
    <2>6. /\ f \in TxFrames \cup ItemFrames \cup Elems(gc_list) \cup DeadFrames
          /\ f \notin TxFrames \cap ItemFrames /\ f \notin TxFrames \cap Elems(gc_list)
          /\ f \notin TxFrames \cap DeadFrames /\ f \notin ItemFrames \cap Elems(gc_list)
          /\ f \notin ItemFrames \cap DeadFrames /\ f \notin Elems(gc_list) \cap DeadFrames
      BY <1>1 DEF FrameInv
    <2> HIDE DEF A, B, C
    <2> QED BY <2>2, <2>3, <2>4, <2>5, <2>6
  <1> QED BY <1>3 DEF FrameConserved

LEMMA DisjointUnion ==
    ASSUME NEW S, IsFiniteSet(S), NEW T, IsFiniteSet(T), S \cap T = {}
    PROVE  /\ IsFiniteSet(S \cup T)
           /\ Cardinality(S \cup T) = Cardinality(S) + Cardinality(T)
  <1>1. Cardinality(S) \in Nat /\ Cardinality(T) \in Nat
    BY FS_CardinalityType
  <1>2. Cardinality(S \cap T) = 0
    BY FS_EmptySet
  <1>3. /\ IsFiniteSet(S \cup T)
        /\ Cardinality(S \cup T) = Cardinality(S) + Cardinality(T) - Cardinality(S \cap T)
    BY FS_Union
  <1> QED BY <1>1, <1>2, <1>3

\* The lists share out the slots.
LEMMA ListLens ==
    ASSUME ListInv
    PROVE  /\ Len(queue) + Len(pending) + Len(free_pool) = Capacity
           /\ Len(queue) \in Nat /\ Len(pending) \in Nat /\ Len(free_pool) \in Nat
  <1> DEFINE U == Elems(queue) \cup Elems(pending)
  <1>1. /\ Len(queue) = Cardinality(Elems(queue)) /\ Len(queue) \in Nat
        /\ Len(pending) = Cardinality(Elems(pending)) /\ Len(pending) \in Nat
        /\ Len(free_pool) = Cardinality(Elems(free_pool)) /\ Len(free_pool) \in Nat
        /\ Elems(queue) \in SUBSET Slots /\ Elems(pending) \in SUBSET Slots
        /\ Elems(free_pool) \in SUBSET Slots
    BY CountTypes
  <1>2. /\ Elems(queue) \cap Elems(pending) = {} /\ U \cap Elems(free_pool) = {}
        /\ U \cup Elems(free_pool) = Slots
    BY DEF ListInv
  <1>3. IsFiniteSet(Elems(queue)) /\ IsFiniteSet(Elems(pending)) /\ IsFiniteSet(Elems(free_pool))
    BY <1>1, SlotCount
  <1>4. IsFiniteSet(U) /\ Cardinality(U) = Cardinality(Elems(queue)) + Cardinality(Elems(pending))
    BY <1>2, <1>3, DisjointUnion
  <1>5. Cardinality(Slots) = Cardinality(U) + Cardinality(Elems(free_pool))
    <2> HIDE DEF U
    <2>1. IsFiniteSet(U) /\ IsFiniteSet(Elems(free_pool))
      BY <1>3, <1>4
    <2>2. Cardinality(U \cup Elems(free_pool)) = Cardinality(U) + Cardinality(Elems(free_pool))
      BY <1>2, <2>1, DisjointUnion
    <2> QED BY <1>2, <2>2
  <1>6. Cardinality(Slots) = Capacity
    BY FS_Interval, QueueAssumption DEF Slots
  <1> HIDE DEF U
  <1>7. Capacity = Len(queue) + Len(pending) + Len(free_pool)
    BY <1>1, <1>4, <1>5, <1>6
  <1> QED BY <1>1, <1>7

LEMMA InvTypes ==
    ASSUME Inv, LockInv
    PROVE  TypeOK
  <1>1. TypeInv /\ ListInv /\ ItemInv /\ FrameInv /\ CountInv
    BY DEF Inv
  <1>2. /\ queue \in Seq(Slots) /\ pending \in Seq(Slots) /\ free_pool \in Seq(Slots)
        /\ item \in [Slots -> ItemType]
    BY <1>1 DEF ListInv, ItemInv
  <1>3. {num_queued, num_pending} \subseteq 0 .. Capacity
    <2>1. num_queued = Len(queue) + Len(pending) /\ num_pending = Len(pending)
      BY <1>1 DEF CountInv
    <2>2. /\ Len(queue) + Len(pending) + Len(free_pool) = Capacity
          /\ Len(queue) \in Nat /\ Len(pending) \in Nat /\ Len(free_pool) \in Nat
      BY <1>1, ListLens
    <2>3. num_queued \in 0 .. Capacity /\ num_pending \in 0 .. Capacity
      BY <2>1, <2>2
    <2> QED BY <2>3
  <1>4. ASSUME NEW v \in Ifs
        PROVE  /\ num_queued_vif[v] \in 0 .. Capacity /\ num_pending_vif[v] \in 0 .. Capacity
               /\ stats_num_queued[v] \in 0 .. Capacity
    <2>1. BothAt(v) \in SUBSET Slots /\ FlyAt(v) \in SUBSET Slots /\ WaitAt(v) \in SUBSET Slots
      BY <1>1, CountTypes
    <2>2. /\ Cardinality(BothAt(v)) \in 0 .. Capacity /\ Cardinality(FlyAt(v)) \in 0 .. Capacity
          /\ Cardinality(WaitAt(v)) \in 0 .. Capacity
      BY <2>1, SlotCount
    <2> QED BY <1>1, <2>2 DEF CountInv
  <1>5. ASSUME NEW v \in Ifs, NEW l \in Links
        PROVE  link_map_cache[v][l] \in 0 .. Capacity
    <2>1. WaitLink(v, l) \in SUBSET Slots
      BY <1>1, CountTypes
    <2>2. Cardinality(WaitLink(v, l)) \in 0 .. Capacity
      BY <2>1, SlotCount
    <2> QED BY <1>1, <2>2 DEF CountInv
  <1>6. /\ num_queued_vif \in [Ifs -> 0 .. Capacity] /\ num_pending_vif \in [Ifs -> 0 .. Capacity]
        /\ stats_num_queued \in [Ifs -> 0 .. Capacity]
    BY <1>1, <1>4 DEF CountInv
  <1>7. link_map_cache \in [Ifs -> [Links -> 0 .. Capacity]]
    <2>1. link_map_cache \in [Ifs -> [Links -> Int]]
      BY <1>1 DEF CountInv
    <2> QED BY <1>5, <2>1
  <1>8. tx_locked_cnt \in 0 .. 2 /\ overfull \in BOOLEAN /\ ext_lock \in BOOLEAN
    BY DEF LockInv, LockBalanced
  <1>9. sent \subseteq Frames
    BY <1>1, ElemsType DEF FrameInv, TxFrames, ItemFrames, DeadFrames
  <1>10. gc_list \in Seq(Frames) /\ destroyed \in [Frames -> 0 .. 1]
    BY <1>1 DEF FrameInv
  <1>11. /\ header \in [Frames -> Opt(PacketID)] /\ generation \in [Ifs -> 0 .. QGenMod - 1]
         /\ gc_timer \in BOOLEAN /\ tx \in [Cpus -> Opt(TxFrame)]
         /\ proc \in Opt(ProcFrame) /\ bh_tx \in Seq(BhEntry)
         /\ held \in Opt(WorkFrame) /\ fw \subseteq FwPacket /\ flushing \in Opt(Ifs)
         /\ requeues \in 0 .. MaxRequeues /\ clears \in 0 .. MaxClears
    BY <1>1 DEF TypeInv
  <1> QED BY <1>2, <1>3, <1>6, <1>7, <1>8, <1>9, <1>10, <1>11 DEF TypeOK, ItemType

-----------------------------------------------------------------------------
(***************************************************************************)
(* The lock of the stack's queue.                                          *)
(***************************************************************************)

\* Frames leave the queue, which may be woken; none or more of them, where the
\* lists are what they should be.
Drops == \E k : num_queued' = num_queued - k /\ UnlockIfDrained(num_queued - k)
Drains == \E k \in Nat : num_queued' = num_queued - k /\ UnlockIfDrained(num_queued - k)

\* The steps that change the lock, or how much is queued.
LEMMA LockSteps ==
    ASSUME Next
    PROVE  \/ UNCHANGED <<num_queued, lockVars, ext_lock>>
           \/ \E c \in Cpus : xradio_queue_put(c)
           \/ Drops /\ (ListInv => Drains) /\ UNCHANGED <<tx, ext_lock>>
           \/ xradio_queue_lock
           \/ xradio_queue_unlock
  <1>1. ASSUME NEW id, xradio_queue_remove(id)
        PROVE  UNCHANGED <<num_queued, lockVars>> \/ (Drops /\ Drains)
    BY <1>1 DEF xradio_queue_remove, Drops, Drains, countVars
  <1>2. ASSUME NEW id, NEW check, xradio_queue_requeue(id, check)
        PROVE  UNCHANGED <<num_queued, lockVars>> \/ (Drops /\ Drains)
    BY <1>1, <1>2 DEF xradio_queue_requeue, countVars
  <1>3. ASSUME NEW V, ClearItems(V)
        PROVE  Drops /\ (ListInv => Drains)
    <2>1. ListInv => Gone(V) \in Seq(Slots)
      BY <1>3, ClearMoves
    <2>2. ListInv => Len(Gone(V)) \in Nat
      BY <2>1
    <2>3. num_queued' = num_queued - Len(Gone(V)) /\ UnlockIfDrained(num_queued - Len(Gone(V)))
      BY <1>3 DEF ClearItems, Gone, OfIfs
    <2>4. Drops
      BY <2>3 DEF Drops
    <2>5. ListInv => Drains
      BY <2>2, <2>3 DEF Drains
    <2> QED BY <2>4, <2>5
  <1>4. CASE xradio_queue_gc
    <2>1. PICK n \in 0 .. Len(queue) :
            num_queued' = num_queued - n /\ UnlockIfDrained(num_queued - n)
      BY <1>4 DEF xradio_queue_gc
    <2>2. ListInv => n \in Nat
      BY DEF ListInv
    <2>3. Drops
      BY <2>1 DEF Drops
    <2>4. ListInv => Drains
      BY <2>1, <2>2 DEF Drains
    <2> QED BY <1>4, <2>3, <2>4 DEF xradio_queue_gc, stackVars
  <1>5. CASE xradio_queue_clear \/ xradio_stop
    BY <1>3, <1>5 DEF xradio_queue_clear, xradio_stop, stackVars
  <1>6. CASE HandleDrop \/ xradio_tx_confirm_cb \/ WorkRemove
    <2>1. PICK id : xradio_queue_remove(id)
      BY <1>6 DEF HandleDrop, xradio_tx_confirm_cb, WorkRemove
    <2>2. UNCHANGED <<tx, ext_lock>>
      BY <1>6 DEF HandleDrop, xradio_tx_confirm_cb, WorkRemove, stackVars
    <2> QED BY <1>1, <2>1, <2>2
  <1>7. CASE WorkRequeue \/ \E p \in fw : ConfirmRequeue(p)
    <2>1. PICK id, check : xradio_queue_requeue(id, check)
      BY <1>7 DEF WorkRequeue, ConfirmRequeue
    <2>2. UNCHANGED <<tx, ext_lock>>
      BY <1>7 DEF WorkRequeue, ConfirmRequeue, stackVars
    <2> QED BY <1>2, <2>1, <2>2
  <1>8. CASE \/ \E c \in Cpus, v \in Ifs, l \in Links : xradio_tx(c, v, l)
             \/ \E v \in Ifs, allowed \in SUBSET Links : xradio_queue_get(v, allowed)
             \/ HandleTx \/ \E todo : HandleByWork(todo)
             \/ xradio_bh_get
    <2>1. UNCHANGED <<num_queued, lockVars, ext_lock>>
      BY <1>8 DEF xradio_tx, xradio_queue_get, HandleTx, HandleByWork, xradio_bh_get, countVars
    <2> QED BY <2>1
  <1>9. CASE \/ \E p \in fw : xradio_queue_get_skb(p)
             \/ xradio_probe_work \/ xradio_queue_post_gc
             \/ \E v \in Ifs : bh_proc_flush_txqueue(v)
    <2>1. UNCHANGED <<num_queued, lockVars, ext_lock>>
      BY <1>9 DEF xradio_queue_get_skb, xradio_probe_work, xradio_queue_post_gc,
         bh_proc_flush_txqueue, countVars
    <2> QED BY <2>1
  <1> QED BY <1>4, <1>5, <1>6, <1>7, <1>8, <1>9 DEF Next

LEMMA TxSteps ==
    ASSUME Next
    PROVE  \/ \E c \in Cpus, v \in Ifs, l \in Links : xradio_tx(c, v, l)
           \/ \E c \in Cpus : xradio_queue_put(c)
           \/ UNCHANGED tx
  BY DEF Next, xradio_queue_get, HandleTx, HandleByWork, HandleDrop, xradio_bh_get,
     ConfirmRequeue, xradio_queue_get_skb, xradio_tx_confirm_cb, xradio_probe_work, WorkRemove,
     WorkRequeue, xradio_queue_gc, xradio_queue_post_gc, bh_proc_flush_txqueue,
     xradio_queue_clear, xradio_stop, xradio_queue_lock, xradio_queue_unlock, stackVars

\* What the two parties that stop the queue amount to.
LEMMA LockCount ==
    ASSUME NEW a \in BOOLEAN, NEW b \in BOOLEAN, NEW n,
           n = (IF a THEN 1 ELSE 0) + (IF b THEN 1 ELSE 0)
    PROVE  /\ n \in Int
           /\ a = FALSE => n + 1 = 1 + (IF b THEN 1 ELSE 0)
           /\ a = TRUE => n - 1 = 0 + (IF b THEN 1 ELSE 0)
           /\ b = FALSE => n + 1 = (IF a THEN 1 ELSE 0) + 1
           /\ b = TRUE => n - 1 = (IF a THEN 1 ELSE 0) + 0
  OBVIOUS

LEMMA LockStep ==
    ASSUME LockInv, [Next]_vars
    PROVE  LockInv'
  <1>1. /\ overfull \in BOOLEAN /\ ext_lock \in BOOLEAN
        /\ tx_locked_cnt = (IF overfull THEN 1 ELSE 0) + (IF ext_lock THEN 1 ELSE 0)
    BY DEF LockInv, LockBalanced
  <1>2. /\ tx_locked_cnt \in Int
        /\ overfull = FALSE => tx_locked_cnt + 1 = 1 + (IF ext_lock THEN 1 ELSE 0)
        /\ overfull = TRUE => tx_locked_cnt - 1 = 0 + (IF ext_lock THEN 1 ELSE 0)
        /\ ext_lock = FALSE => tx_locked_cnt + 1 = (IF overfull THEN 1 ELSE 0) + 1
        /\ ext_lock = TRUE => tx_locked_cnt - 1 = (IF overfull THEN 1 ELSE 0) + 0
    BY <1>1, LockCount
  <1>3. SUFFICES /\ overfull' \in BOOLEAN /\ ext_lock' \in BOOLEAN
                 /\ tx_locked_cnt' = (IF overfull' THEN 1 ELSE 0) + (IF ext_lock' THEN 1 ELSE 0)
    <2>1. /\ overfull' \in BOOLEAN /\ ext_lock' \in BOOLEAN
          /\ tx_locked_cnt' = (IF overfull' THEN 1 ELSE 0) + (IF ext_lock' THEN 1 ELSE 0)
      BY <1>3
    <2>2. tx_locked_cnt' \in Int
      BY <2>1
    <2> QED BY <2>1, <2>2 DEF LockInv, LockBalanced
  <1>4. CASE UNCHANGED <<lockVars, ext_lock>>
    BY <1>1, <1>4 DEF lockVars
  <1>5. ASSUME NEW c \in Cpus, xradio_queue_put(c), ~UNCHANGED lockVars
        PROVE  /\ overfull' \in BOOLEAN /\ ext_lock' \in BOOLEAN
               /\ tx_locked_cnt' = (IF overfull' THEN 1 ELSE 0) + (IF ext_lock' THEN 1 ELSE 0)
    <2>1. /\ overfull = FALSE /\ overfull' = TRUE /\ tx_locked_cnt' = tx_locked_cnt + 1
          /\ ext_lock' = ext_lock
      BY <1>1, <1>5 DEF xradio_queue_put
    <2> QED BY <1>1, <1>2, <2>1
  <1>6. CASE Drops /\ ~UNCHANGED lockVars /\ UNCHANGED ext_lock
    <2>1. overfull = TRUE /\ overfull' = FALSE /\ tx_locked_cnt' = tx_locked_cnt - 1
      BY <1>1, <1>6 DEF Drops, UnlockIfDrained
    <2> QED BY <1>1, <1>2, <1>6, <2>1
  <1>7. CASE xradio_queue_lock
    <2>1. /\ ext_lock = FALSE /\ ext_lock' = TRUE /\ tx_locked_cnt' = tx_locked_cnt + 1
          /\ overfull' = overfull
      BY <1>1, <1>7 DEF xradio_queue_lock
    <2> QED BY <1>1, <1>2, <2>1
  <1>8. CASE xradio_queue_unlock
    <2>1. /\ ext_lock = TRUE /\ ext_lock' = FALSE /\ tx_locked_cnt' = tx_locked_cnt - 1
          /\ overfull' = overfull
      BY <1>1, <1>8 DEF xradio_queue_unlock
    <2> QED BY <1>1, <1>2, <2>1
  <1>9. CASE UNCHANGED vars
    BY <1>4, <1>9 DEF vars
  <1>10. ASSUME NEW c \in Cpus, xradio_queue_put(c)
         PROVE  UNCHANGED ext_lock
    BY <1>10 DEF xradio_queue_put
  <1> QED BY <1>4, <1>5, <1>6, <1>7, <1>8, <1>9, <1>10, LockSteps

\* The number of frames that are queued or about to be.
Busy == {c \in Cpus : tx[c] # Null}
RoomInv == num_queued + Cardinality(Busy) <= Throttle

LEMMA Counted ==
    ASSUME Inv
    PROVE  /\ num_queued \in Int /\ num_queued >= 0
           /\ num_queued + Len(free_pool) = Capacity /\ Len(free_pool) \in Nat
  <1>1. num_queued = Len(queue) + Len(pending)
    BY DEF Inv, CountInv
  <1>2. /\ Len(queue) + Len(pending) + Len(free_pool) = Capacity
        /\ Len(queue) \in Nat /\ Len(pending) \in Nat /\ Len(free_pool) \in Nat
    BY ListLens DEF Inv
  <1> QED BY <1>1, <1>2

LEMMA Thresholds ==
    ASSUME unlock_threshold < lock_threshold
    PROVE  /\ lock_threshold \in Int /\ unlock_threshold \in Int /\ unlock_threshold > 0
           /\ Throttle \in Nat /\ Cardinality(Cpus) \in Nat
           /\ lock_threshold + Cardinality(Cpus) = Throttle + 1
  <1>1. Throttle \in Nat /\ Cardinality(Cpus) \in Nat
    BY QueueAssumption, FS_CardinalityType
  <1> QED BY <1>1 DEF lock_threshold, unlock_threshold

LEMMA OverfullStep ==
    ASSUME unlock_threshold < lock_threshold, Inv, OverfullExact, overfull \in BOOLEAN,
           [Next]_vars
    PROVE  OverfullExact'
  <1>1. /\ lock_threshold \in Int /\ unlock_threshold \in Int /\ num_queued \in Int
        /\ unlock_threshold' = unlock_threshold /\ lock_threshold' = lock_threshold
    BY Counted, Thresholds DEF unlock_threshold, lock_threshold
  <1>2. /\ num_queued >= lock_threshold => overfull
        /\ overfull => num_queued > unlock_threshold
    BY DEF OverfullExact
  <1>3. SUFFICES /\ num_queued' >= lock_threshold => overfull'
                 /\ overfull' => num_queued' > unlock_threshold
    BY <1>1 DEF OverfullExact
  <1> HIDE DEF lock_threshold, unlock_threshold
  <1>4. CASE UNCHANGED <<num_queued, overfull>>
    BY <1>2, <1>4
  <1>5. ASSUME NEW c \in Cpus, xradio_queue_put(c)
        PROVE  /\ num_queued' >= lock_threshold => overfull'
               /\ overfull' => num_queued' > unlock_threshold
    <2>1. num_queued' = num_queued + 1
      BY <1>5 DEF xradio_queue_put
    <2>2. CASE ~overfull /\ num_queued + 1 >= lock_threshold
      <3>1. overfull' = TRUE
        BY <1>5, <2>2 DEF xradio_queue_put
      <3> QED BY <1>1, <2>1, <2>2, <3>1
    <2>3. CASE ~(~overfull /\ num_queued + 1 >= lock_threshold)
      <3>1. overfull' = overfull
        BY <1>5, <2>3 DEF xradio_queue_put, lockVars
      <3> QED BY <1>1, <1>2, <2>1, <2>3, <3>1
    <2> QED BY <2>2, <2>3
  <1>6. CASE Drains
    <2>1. PICK k \in Nat : num_queued' = num_queued - k /\ UnlockIfDrained(num_queued - k)
      BY <1>6 DEF Drains
    <2>2. CASE overfull /\ num_queued - k <= unlock_threshold
      <3>1. overfull' = FALSE
        BY <2>1, <2>2 DEF UnlockIfDrained
      <3> QED BY <1>1, <2>1, <2>2, <3>1
    <2>3. CASE ~(overfull /\ num_queued - k <= unlock_threshold)
      <3>1. overfull' = overfull
        BY <2>1, <2>3 DEF UnlockIfDrained, lockVars
      <3> QED BY <1>1, <1>2, <2>1, <2>3, <3>1
    <2> QED BY <2>2, <2>3
  <1>7. CASE Next
    <2>1. \/ UNCHANGED <<num_queued, overfull>>
          \/ \E c \in Cpus : xradio_queue_put(c)
          \/ Drains
      <3>1. ListInv
        BY DEF Inv
      <3>2. CASE xradio_queue_lock \/ xradio_queue_unlock
        BY <3>2 DEF xradio_queue_lock, xradio_queue_unlock, countVars
      <3> QED BY <1>7, <3>1, <3>2, LockSteps DEF lockVars
    <2> QED BY <1>4, <1>5, <1>6, <2>1
  <1>8. CASE UNCHANGED vars
    BY <1>4, <1>8 DEF vars, countVars, lockVars
  <1> QED BY <1>7, <1>8

LEMMA BusyType ==
    /\ IsFiniteSet(Busy) /\ Cardinality(Busy) \in Nat
    /\ Cardinality(Busy) <= Cardinality(Cpus)
  <1>1. Busy \subseteq Cpus /\ IsFiniteSet(Cpus)
    BY QueueAssumption DEF Busy
  <1> QED BY <1>1, FS_Subset, FS_CardinalityType

\* The stack calls xradio_tx while the queue is below the threshold, which
\* leaves a slot for each CPU.
LEMMA RoomStep ==
    ASSUME unlock_threshold < lock_threshold, Inv, LockInv, OverfullExact, RoomInv,
           [Next]_vars
    PROVE  RoomInv'
  <1>1. /\ num_queued \in Int /\ lock_threshold \in Int /\ Throttle \in Nat
        /\ Cardinality(Cpus) \in Nat /\ lock_threshold + Cardinality(Cpus) = Throttle + 1
    BY Counted, Thresholds
  <1>2. IsFiniteSet(Busy) /\ Cardinality(Busy) \in Nat /\ num_queued + Cardinality(Busy) <= Throttle
    BY BusyType DEF RoomInv
  <1> HIDE DEF lock_threshold, unlock_threshold
  <1>3. ASSUME NEW c \in Cpus, NEW v \in Ifs, NEW l \in Links, xradio_tx(c, v, l)
        PROVE  RoomInv'
    <2>1. tx_locked_cnt = 0 /\ num_queued' = num_queued
      BY <1>3 DEF xradio_tx, countVars
    <2>2. ~overfull
      BY <2>1 DEF LockInv, LockBalanced
    <2>3. num_queued < lock_threshold
      BY <1>1, <2>2 DEF OverfullExact
    <2>4. Cardinality(Busy)' \in Nat /\ Cardinality(Busy)' <= Cardinality(Cpus)
      <3>1. Busy' \subseteq Cpus /\ IsFiniteSet(Cpus)
        BY QueueAssumption DEF Busy
      <3> QED BY <3>1, FS_Subset, FS_CardinalityType
    <2>5. num_queued + Cardinality(Busy)' <= Throttle
      <3> HIDE DEF Busy
      <3> QED BY <1>1, <2>3, <2>4
    <2> QED BY <2>1, <2>5 DEF RoomInv
  <1>4. ASSUME NEW c \in Cpus, xradio_queue_put(c)
        PROVE  RoomInv'
    <2>1. num_queued' = num_queued + 1 /\ tx[c] # Null /\ tx' = [tx EXCEPT ![c] = Null]
      BY <1>4 DEF xradio_queue_put
    <2>2. tx \in [Cpus -> Opt(TxFrame)]
      BY DEF Inv, TypeInv
    <2>3. c \in Busy /\ Busy' = Busy \ {c}
      BY <2>1, <2>2 DEF Busy
    <2>4. Cardinality(Busy') = Cardinality(Busy) - 1
      BY <1>2, <2>3, FS_RemoveElement
    <2>5. (num_queued + 1) + (Cardinality(Busy) - 1) <= Throttle
      BY <1>1, <1>2
    <2> QED BY <2>1, <2>4, <2>5 DEF RoomInv
  <1>5. CASE Drains /\ UNCHANGED tx
    <2>1. PICK k \in Nat : num_queued' = num_queued - k
      BY <1>5 DEF Drains
    <2>2. Busy' = Busy
      BY <1>5 DEF Busy
    <2>3. num_queued - k + Cardinality(Busy) <= Throttle
      BY <1>1, <1>2
    <2> QED BY <2>1, <2>2, <2>3 DEF RoomInv
  <1>6. CASE UNCHANGED <<num_queued, tx>>
    BY <1>6 DEF RoomInv, Busy
  <1>7. CASE Next
    <2>1. \/ \E c \in Cpus, v \in Ifs, l \in Links : xradio_tx(c, v, l)
          \/ \E c \in Cpus : xradio_queue_put(c)
          \/ UNCHANGED tx
      BY <1>7, TxSteps
    <2>2. \/ UNCHANGED num_queued
          \/ \E c \in Cpus : xradio_queue_put(c)
          \/ Drains /\ UNCHANGED tx
      <3>1. ListInv
        BY DEF Inv
      <3>2. CASE xradio_queue_lock \/ xradio_queue_unlock
        BY <3>2 DEF xradio_queue_lock, xradio_queue_unlock, countVars
      <3> QED BY <1>7, <3>1, <3>2, LockSteps
    <2> QED BY <1>3, <1>4, <1>5, <1>6, <2>1, <2>2
  <1>8. CASE UNCHANGED vars
    BY <1>6, <1>8 DEF vars, countVars, stackVars
  <1> QED BY <1>7, <1>8

LEMMA LockInit ==
    ASSUME Init
    PROVE  LockInv
  <1>1. overfull = FALSE /\ ext_lock = FALSE /\ tx_locked_cnt = 0
    BY DEF Init
  <1>2. (IF overfull THEN 1 ELSE 0) = 0 /\ (IF ext_lock THEN 1 ELSE 0) = 0
    <2>1. ~overfull /\ ~ext_lock
      BY <1>1, Zenon
    <2> QED BY <2>1
  <1>3. overfull \in BOOLEAN /\ ext_lock \in BOOLEAN /\ tx_locked_cnt \in Int
    <2>1. overfull \in BOOLEAN /\ ext_lock \in BOOLEAN
      BY <1>1, Zenon
    <2> QED BY <1>1, <2>1
  <1>4. LockBalanced
    BY <1>1, <1>2 DEF LockBalanced
  <1> QED BY <1>3, <1>4 DEF LockInv

LEMMA OverfullInit ==
    ASSUME Init, unlock_threshold < lock_threshold
    PROVE  OverfullExact
  <1>1. num_queued = 0 /\ overfull = FALSE
    BY DEF Init
  <1>2. lock_threshold > 0
    BY Thresholds
  <1>3. lock_threshold \in Int
    BY Thresholds
  <1> QED BY <1>1, <1>2, <1>3 DEF OverfullExact

LEMMA RoomInit ==
    ASSUME Init
    PROVE  RoomInv
  <1>1. num_queued = 0 /\ Busy = {}
    BY DEF Init, Busy
  <1>2. Cardinality(Busy) = 0
    BY <1>1, FS_EmptySet
  <1> QED BY <1>1, <1>2, QueueAssumption DEF RoomInv

-----------------------------------------------------------------------------
(***************************************************************************)
(* The theorems.  All but LocksBalanced suppose that no flush runs between *)
(* a get and the bottom half's list; XradioDropRace.cfg shows what happens *)
(* otherwise.                                                              *)
(***************************************************************************)

\* Every slot is on exactly one of the three lists, and has a frame unless it
\* is free: xradio_queue_put, _get, _requeue, _remove, _gc and _clear.
THEOREM SlotsConserved ==
    ASSUME DropRaces = FALSE
    PROVE  Spec => []ItemsPartition
  <1>1. Inv => ItemsPartition
    BY InvItems
  <1>2. Spec => []Inv
    BY Invariance
  <1> QED BY <1>1, <1>2, PTL

\* The counters of the queue, its interfaces and links are the numbers of
\* frames on the lists, whatever was cleared, expired or returned.
THEOREM CountersExact ==
    ASSUME DropRaces = FALSE
    PROVE  Spec => []CountersMatch
  <1>1. Inv => CountersMatch
    BY InvCounts
  <1>2. Spec => []Inv
    BY Invariance
  <1> QED BY <1>1, <1>2, PTL

\* skb_dtor has every frame exactly once: confirmation, timer and flush never
\* free a frame twice, and none of them leaks one.
THEOREM FramesFreedOnce ==
    ASSUME DropRaces = FALSE
    PROVE  Spec => []FrameConserved
  <1>1. Inv => FrameConserved
    BY InvFrames
  <1>2. Spec => []Inv
    BY Invariance
  <1> QED BY <1>1, <1>2, PTL

\* The generation checks tell a late confirmation from one for the frame that
\* has the slot now.
THEOREM GenerationsTell ==
    ASSUME DropRaces = FALSE
    PROVE  Spec => []ConfirmOwnFrame
  <1>1. Inv => ConfirmOwnFrame
    BY InvConfirm
  <1>2. Spec => []Inv
    BY Invariance
  <1> QED BY <1>1, <1>2, PTL

\* tx_locked_cnt counts the overfull queue and the configuration path.
THEOREM LocksBalanced ==
    Spec => []LockBalanced
  <1>1. Init => LockInv
    BY LockInit
  <1>2. LockInv /\ [Next]_vars => LockInv'
    BY LockStep
  <1>3. LockInv => LockBalanced
    BY DEF LockInv
  <1> QED BY <1>1, <1>2, <1>3, PTL DEF Spec

\* The variables have their types, and no counter leaves 0 .. Capacity.
THEOREM TypeCorrect ==
    ASSUME DropRaces = FALSE
    PROVE  Spec => []TypeOK
  <1>1. Init => LockInv
    BY LockInit
  <1>2. Inv /\ LockInv /\ [Next]_vars => LockInv'
    BY LockStep
  <1>3. Inv /\ LockInv => TypeOK
    BY InvTypes
  <1>4. Spec => []Inv
    BY Invariance
  <1> QED BY <1>1, <1>2, <1>3, <1>4, PTL DEF Spec

\* The queue is stopped at the lock threshold, and woken when it has drained
\* to the other one.
THEOREM StoppedWhenFull ==
    ASSUME DropRaces = FALSE, unlock_threshold < lock_threshold
    PROVE  Spec => []OverfullExact
  <1>1. Init => LockInv /\ OverfullExact
    BY LockInit, OverfullInit
  <1>2. Inv /\ LockInv /\ OverfullExact /\ [Next]_vars => LockInv' /\ OverfullExact'
    BY LockStep, OverfullStep DEF Inv, LockInv
  <1>3. Spec => []Inv
    BY Invariance
  <1> QED BY <1>1, <1>2, <1>3, PTL DEF Spec

\* Where the throttle fits the pool, xradio_queue_put finds a free slot for
\* every CPU that is inside xradio_tx.
THEOREM PutNeverFails ==
    ASSUME DropRaces = FALSE, unlock_threshold < lock_threshold, Throttle <= Capacity
    PROVE  Spec => []PutFits
  <1> DEFINE J == LockInv /\ OverfullExact /\ RoomInv
  <1>1. Init => J
    BY LockInit, OverfullInit, RoomInit
  <1>2. Inv /\ J /\ [Next]_vars => J'
    BY LockStep, OverfullStep, RoomStep DEF Inv, LockInv
  <1>3. Inv /\ J => PutFits
    <2> SUFFICES ASSUME Inv, RoomInv
                 PROVE  PutFits
      OBVIOUS
    <2>1. num_queued + Cardinality(Busy) <= Throttle
      BY DEF RoomInv
    <2>2. Cardinality(Busy) \in Nat
      BY BusyType
    <2>3. /\ num_queued \in Int /\ Len(free_pool) \in Nat
          /\ num_queued + Len(free_pool) = Capacity
      BY Counted
    <2>4. Cardinality(Busy) <= Len(free_pool)
      <3> HIDE DEF Busy
      <3> QED BY <2>1, <2>2, <2>3, QueueAssumption
    <2> QED BY <2>4 DEF PutFits, Busy
  <1>4. Spec => []Inv
    BY Invariance
  <1> HIDE DEF J
  <1> QED BY <1>1, <1>2, <1>3, <1>4, PTL DEF Spec

=============================================================================
