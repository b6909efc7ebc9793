----------------------------- MODULE XradioQueue -----------------------------
(***************************************************************************)
(* One transmit queue of the XR829 wireless driver (wlan/queue.c) and the  *)
(* threads that use it: the network stack puts frames from every CPU; the  *)
(* proc thread gets frames, hands them to the bottom half or to a worker,  *)
(* and handles the firmware's confirmations; a timer expires frames; a     *)
(* flush clears the frames of one interface while others are in flight.    *)
(*                                                                         *)
(* Everything under queue->lock is one step.  The firmware knows a frame   *)
(* only by its packet ID, whose generations must tell the frame from those *)
(* that use its slot later.  The other three queues are not modelled, so   *)
(* link_map_cache stands for the queue's table and for the statistics'.    *)
(***************************************************************************)
EXTENDS Integers, Sequences, FiniteSets, KernelLists

CONSTANTS
    Frames,       \* sk_buffs; each is sent at most once
    Ifs,          \* interfaces
    GenericIf,    \* XRWL_GENERIC_IF_ID, the off-channel interface
    Links,        \* link ids of a peer
    Cpus,         \* num_present_cpus()
    Capacity,     \* queue->capacity, XRWL_MAX_QUEUE_SZ
    Throttle,     \* vif0_throttle + vif1_throttle
    QGenMod,      \* 16: queue generations have 4 bits
    IGenMod,      \* 256: item generations have 8 bits
    MaxRequeues,  \* bound: frames that are returned to the queue
    MaxClears,    \* bound: flushes and stops
    MaxInFlight,  \* bound: packets that are written and not yet handled
    DropRaces,    \* may a flush run between a get and the bottom half's list?
    Null

ASSUME QueueAssumption ==
    /\ Capacity \in Nat \ {0} /\ Throttle \in Nat
    /\ QGenMod \in Nat \ {0} /\ IGenMod \in Nat \ {0, 1}
    /\ MaxRequeues \in Nat /\ MaxClears \in Nat /\ MaxClears < QGenMod
    /\ MaxInFlight \in Nat
    /\ DropRaces \in BOOLEAN
    /\ IsFiniteSet(Cpus) /\ IsFiniteSet(Links)
    /\ Null \notin Frames \cup Ifs \cup Links

VARIABLES
    queue, pending, free_pool,     \* the lists of slots
    item,                          \* the slots: pool[]
    header,                        \* the packet ID in a frame's wsm header
    generation,                    \* queue->generation, one per interface
    num_queued, num_queued_vif, num_pending, num_pending_vif,
    link_map_cache,                \* frames waiting, per interface and link
    stats_num_queued,              \* stats->num_queued
    tx_locked_cnt, overfull,
    gc_timer,                      \* the timer gc is pending
    gc_list,                       \* stats->gc_list, the frames to destroy
    destroyed,                     \* how often skb_dtor had the frame
    sent,                          \* frames the stack has passed to xradio_tx
    tx,                            \* the frame a CPU is about to put
    proc,                          \* what the proc thread is handling
    bh_tx,                         \* hw_priv->proc.bh_tx
    held,                          \* hw_priv->pending_frame_id and its work
    fw,                            \* packets the firmware has
    flushing,                      \* interface whose bh_tx entries are gone
    ext_lock,                      \* xradio_tx_queues_lock is held
    requeues, clears

listVars == <<queue, pending, free_pool, item>>
countVars == <<num_queued, num_queued_vif, num_pending, num_pending_vif,
               link_map_cache, stats_num_queued>>
lockVars == <<tx_locked_cnt, overfull>>
stackVars == <<tx, sent>>
bound == <<requeues, clears>>
vars == <<listVars, header, generation, countVars, lockVars, gc_timer, gc_list,
          destroyed, stackVars, proc, bh_tx, held, fw, flushing, ext_lock, bound>>

Slots == 1 .. Capacity
PacketID == [queue_gen : 0 .. QGenMod - 1, item_gen : 0 .. IGenMod - 1,
             slot : Slots, if_id : Ifs]
Opt(S) == S \cup {Null}

\* What tx, proc, bh_tx, held and fw hold.
TxFrame == [skb : Frames, if_id : Ifs, link_id : Links]
ProcFrame == [op : {"tx", "conf"}, id : Opt(PacketID), skb : Frames]
BhEntry == [slot : Slots, if_id : Ifs, skb : Frames]
WorkFrame == [id : PacketID, todo : {"probe", "probed", "join", "offchannel"}]
FwPacket == [id : Opt(PacketID), skb : Frames]

\* Null is told from the records.
ASSUME NullDiffers == Null \notin PacketID \cup TxFrame \cup ProcFrame \cup WorkFrame

Init ==
    /\ queue = <<>> /\ pending = <<>> /\ free_pool = [i \in Slots |-> i]
    /\ item = [i \in Slots |-> [skb |-> Null, if_id |-> Null, link_id |-> Null,
                                generation |-> 0, packetID |-> Null]]
    /\ header = [f \in Frames |-> Null]
    /\ generation = [v \in Ifs |-> 0]
    /\ num_queued = 0 /\ num_queued_vif = [v \in Ifs |-> 0]
    /\ num_pending = 0 /\ num_pending_vif = [v \in Ifs |-> 0]
    /\ link_map_cache = [v \in Ifs |-> [l \in Links |-> 0]]
    /\ stats_num_queued = [v \in Ifs |-> 0]
    /\ tx_locked_cnt = 0 /\ overfull = FALSE
    /\ gc_timer = FALSE /\ gc_list = <<>>
    /\ destroyed = [f \in Frames |-> 0]
    /\ sent = {} /\ tx = [c \in Cpus |-> Null]
    /\ proc = Null /\ bh_tx = <<>> /\ held = Null /\ fw = {}
    /\ flushing = Null /\ ext_lock = FALSE
    /\ requeues = 0 /\ clears = 0

-----------------------------------------------------------------------------
\* Altered form: the queue is locked when it is full already.
locks_late == Throttle

\* "TX may happen in parallel sometimes. Leave extra queue slots so we don't
\* overflow."
lock_threshold == Throttle - (Cardinality(Cpus) - 1)

\* Altered form: the queue is woken at once.
wakes_at_once == Throttle

unlock_threshold == (Throttle + 2) \div 2

\* Altered form: the queue is woken, but stays marked overfull.
unlock_keeps_overfull(n) ==
    IF overfull /\ n <= unlock_threshold
    THEN tx_locked_cnt' = tx_locked_cnt - 1 /\ UNCHANGED overfull
    ELSE UNCHANGED lockVars

\* An overfull queue that is down to n frames may be woken.
UnlockIfDrained(n) ==
    IF overfull /\ n <= unlock_threshold
    THEN overfull' = FALSE /\ tx_locked_cnt' = tx_locked_cnt - 1
    ELSE UNCHANGED lockVars

xradio_queue_make_packet_id(queue_gen, item_gen, i, v) ==
    [queue_gen |-> queue_gen, item_gen |-> item_gen, slot |-> i, if_id |-> v]

\* Altered form: the generation of the queue is not compared.
any_queue_generation(id) == id # Null /\ item[id.slot].generation = id.item_gen

\* The checks of xradio_queue_requeue, _remove and _get_skb.  The packet ID 0
\* of a header that was never filled in (Null) names no item.
GenerationsMatch(id) ==
    /\ id # Null
    /\ id.queue_gen = generation[id.if_id]
    /\ item[id.slot].generation = id.item_gen

\* d more frames wait for the interface and the link.
CountWaiting(v, l, d) ==
    /\ link_map_cache' = [link_map_cache EXCEPT ![v][l] = @ + d]
    /\ stats_num_queued' = [stats_num_queued EXCEPT ![v] = @ + d]

-----------------------------------------------------------------------------
(***************************************************************************)
(* The network stack.                                                      *)
(***************************************************************************)

\* xradio_tx up to the put; the stack calls it unless the queue is stopped.
\* The wsm header is zeroed.  Frames are alike: the next one is any unsent one.
xradio_tx(c, v, l) ==
    LET f == CHOOSE f \in Frames : f \notin sent IN
    /\ tx[c] = Null /\ tx_locked_cnt = 0 /\ sent # Frames
    /\ tx' = [tx EXCEPT ![c] = [skb |-> f, if_id |-> v, link_id |-> l]]
    /\ sent' = sent \cup {f}
    /\ UNCHANGED <<listVars, header, generation, countVars, lockVars, gc_timer, gc_list,
                   destroyed, proc, bh_tx, held, fw, flushing, ext_lock, bound>>

\* The frame takes the first free slot; "avoid packet ID is 0": the slot's
\* generation restarts at 1.  An empty pool is a SYS_BUG (see PutFits).
xradio_queue_put(c) ==
    LET t == tx[c]
        i == Head(free_pool)
    IN
    /\ t # Null /\ free_pool # <<>>
    /\ free_pool' = Tail(free_pool) /\ queue' = Append(queue, i)
    /\ item' = [item EXCEPT ![i] =
         [skb |-> t.skb, if_id |-> t.if_id, link_id |-> t.link_id, generation |-> 1,
          packetID |-> xradio_queue_make_packet_id(generation[t.if_id], 1, i, t.if_id)]]
    /\ num_queued' = num_queued + 1
    /\ num_queued_vif' = [num_queued_vif EXCEPT ![t.if_id] = @ + 1]
    /\ CountWaiting(t.if_id, t.link_id, 1)
    /\ IF ~overfull /\ num_queued + 1 >= lock_threshold
       THEN overfull' = TRUE /\ tx_locked_cnt' = tx_locked_cnt + 1 /\ gc_timer' = TRUE
       ELSE UNCHANGED <<lockVars, gc_timer>>
    /\ tx' = [tx EXCEPT ![c] = Null]
    /\ UNCHANGED <<pending, header, generation, num_pending, num_pending_vif, gc_list,
                   destroyed, sent, proc, bh_tx, held, fw, flushing, ext_lock, bound>>

-----------------------------------------------------------------------------
(***************************************************************************)
(* xradio_queue_remove and xradio_queue_requeue.                           *)
(***************************************************************************)
PendingDown(v) ==
    /\ num_pending' = num_pending - 1
    /\ num_pending_vif' = [num_pending_vif EXCEPT ![v] = @ - 1]

\* The slot goes to the head of the free pool, and the frame to skb_dtor.
xradio_queue_remove(id) ==
    IF GenerationsMatch(id)
    THEN LET i == id.slot IN
         /\ item' = [item EXCEPT ![i].skb = Null, ![i].generation = (@ + 1) % IGenMod]
         /\ PendingDown(id.if_id)
         /\ num_queued' = num_queued - 1
         /\ num_queued_vif' = [num_queued_vif EXCEPT ![id.if_id] = @ - 1]
         /\ queue' = ListDel(queue, i) /\ pending' = ListDel(pending, i)
         /\ free_pool' = <<i>> \o ListDel(free_pool, i)
         /\ UnlockIfDrained(num_queued - 1)
         /\ destroyed' = [f \in Frames |-> destroyed[f] + (IF f = item[i].skb THEN 1 ELSE 0)]
         /\ UNCHANGED <<link_map_cache, stats_num_queued>>
    ELSE UNCHANGED <<listVars, countVars, lockVars, destroyed>>

\* ++item_generation, a u8.
NextItemGen(item_gen) == (item_gen + 1) % IGenMod

\* Back to the head of the queue under a new packet ID.  With check, a frame
\* of the generic interface is dropped.
xradio_queue_requeue(id, check) ==
    IF id # Null /\ check /\ item[id.slot].if_id = GenericIf
    THEN xradio_queue_remove(id)
    ELSE IF GenerationsMatch(id)
    THEN LET i == id.slot
             g == NextItemGen(id.item_gen)
         IN
         /\ PendingDown(id.if_id)
         /\ CountWaiting(id.if_id, item[i].link_id, 1)
         /\ item' = [item EXCEPT ![i].generation = g, ![i].packetID =
                       xradio_queue_make_packet_id(id.queue_gen, g, i, id.if_id)]
         /\ queue' = <<i>> \o ListDel(queue, i) /\ pending' = ListDel(pending, i)
         /\ free_pool' = ListDel(free_pool, i)
         /\ UNCHANGED <<num_queued, num_queued_vif, lockVars, destroyed>>
    ELSE UNCHANGED <<listVars, countVars, lockVars, destroyed>>

-----------------------------------------------------------------------------
(***************************************************************************)
(* The proc thread sends: wsm_get_tx gets a frame and decides about it.    *)
(***************************************************************************)

\* The first frame of the interface whose link is allowed goes to pending.
\* held # Null: wsm_lock_tx_async has stopped the transmission.
xradio_queue_get(v, allowed) ==
    LET match == {k \in DOMAIN queue : /\ item[queue[k]].if_id = v
                                       /\ item[queue[k]].link_id \in allowed}
        i == queue[CHOOSE k \in match : \A m \in match : k <= m]
    IN
    /\ proc = Null /\ held = Null /\ (DropRaces \/ flushing = Null) /\ match # {}
    /\ header' = [header EXCEPT ![item[i].skb] = item[i].packetID]
    /\ queue' = ListDel(queue, i) /\ pending' = Append(pending, i)
    /\ num_pending' = num_pending + 1
    /\ num_pending_vif' = [num_pending_vif EXCEPT ![v] = @ + 1]
    /\ CountWaiting(v, item[i].link_id, -1)
    /\ proc' = [op |-> "tx", id |-> item[i].packetID, skb |-> item[i].skb]
    /\ UNCHANGED <<free_pool, item, generation, num_queued, num_queued_vif, lockVars,
                   gc_timer, gc_list, destroyed, stackVars, bh_tx, held, fw, flushing,
                   ext_lock, bound>>

\* doTx: the item, not the frame, goes to the bottom half's list.
HandleTx ==
    /\ proc # Null /\ proc.op = "tx" /\ proc' = Null
    /\ bh_tx' = Append(bh_tx, [slot |-> proc.id.slot, if_id |-> proc.id.if_id,
                               skb |-> proc.skb])
    /\ UNCHANGED <<listVars, header, generation, countVars, lockVars, gc_timer, gc_list,
                   destroyed, stackVars, held, fw, flushing, ext_lock, bound>>

\* doProbe, doJoin, doOffchannel, doWep: a work will handle pending_frame_id.
HandleByWork(todo) ==
    /\ proc # Null /\ proc.op = "tx" /\ proc' = Null
    /\ held' = [id |-> proc.id, todo |-> todo]
    /\ UNCHANGED <<listVars, header, generation, countVars, lockVars, gc_timer, gc_list,
                   destroyed, stackVars, bh_tx, fw, flushing, ext_lock, bound>>

\* doDrop: SYS_BUG(xradio_queue_remove()).
HandleDrop ==
    /\ proc # Null /\ proc.op = "tx" /\ proc' = Null
    /\ xradio_queue_remove(proc.id)
    /\ UNCHANGED <<header, generation, gc_timer, gc_list, stackVars, bh_tx, held, fw,
                   flushing, ext_lock, bound>>

\* The bottom half writes the frame that the first item of its list has now.
\* An item without a frame is a NULL dereference: the thread ends there.
xradio_bh_get ==
    LET f == item[Head(bh_tx).slot].skb IN
    /\ bh_tx # <<>> /\ held = Null /\ f # Null /\ Cardinality(fw) < MaxInFlight
    /\ fw' = fw \cup {[id |-> header[f], skb |-> f]} /\ bh_tx' = Tail(bh_tx)
    /\ UNCHANGED <<listVars, header, generation, countVars, lockVars, gc_timer, gc_list,
                   destroyed, stackVars, proc, held, flushing, ext_lock, bound>>

-----------------------------------------------------------------------------
(***************************************************************************)
(* The proc thread handles confirmations, in any order, in                 *)
(* xradio_tx_confirm_cb.                                                   *)
(***************************************************************************)

\* WSM_REQUEUE: the station is asleep, the firmware returns the frame.
ConfirmRequeue(p) ==
    /\ proc = Null /\ p \in fw /\ requeues < MaxRequeues
    /\ fw' = fw \ {p} /\ requeues' = requeues + 1
    /\ xradio_queue_requeue(p.id, TRUE)
    /\ UNCHANGED <<header, generation, gc_timer, gc_list, stackVars, proc, bh_tx, held,
                   flushing, ext_lock, clears>>

\* The frame was sent or given up.  The callback works on the frame without
\* the lock, then removes it.
xradio_queue_get_skb(p) ==
    /\ proc = Null /\ p \in fw
    /\ fw' = fw \ {p}
    /\ proc' = IF GenerationsMatch(p.id) THEN [op |-> "conf", id |-> p.id, skb |-> p.skb]
               ELSE Null
    /\ UNCHANGED <<listVars, header, generation, countVars, lockVars, gc_timer, gc_list,
                   destroyed, stackVars, bh_tx, held, flushing, ext_lock, bound>>

xradio_tx_confirm_cb ==
    /\ proc # Null /\ proc.op = "conf" /\ proc' = Null
    /\ xradio_queue_remove(proc.id)
    /\ UNCHANGED <<header, generation, gc_timer, gc_list, stackVars, bh_tx, held, fw,
                   flushing, ext_lock, bound>>

-----------------------------------------------------------------------------
(***************************************************************************)
(* The works that handle pending_frame_id.                                 *)
(***************************************************************************)

\* xradio_probe_work: the frame may be gone, then nothing is sent.
xradio_probe_work ==
    /\ held # Null /\ held.todo = "probe"
    /\ held' = IF GenerationsMatch(held.id) THEN [held EXCEPT !.todo = "probed"] ELSE Null
    /\ UNCHANGED <<listVars, header, generation, countVars, lockVars, gc_timer, gc_list,
                   destroyed, stackVars, proc, bh_tx, fw, flushing, ext_lock, bound>>

\* Its end: SYS_BUG(xradio_queue_remove()).  Also a failed join, and an
\* off-channel frame of an interface that has not joined.
WorkRemove ==
    /\ held # Null /\ held.todo \in {"probed", "join", "offchannel"} /\ held' = Null
    /\ xradio_queue_remove(held.id)
    /\ UNCHANGED <<header, generation, gc_timer, gc_list, stackVars, proc, bh_tx, fw,
                   flushing, ext_lock, bound>>

\* xradio_join_work and xradio_wep_key_work, and (unchecked) the off-channel
\* work, return the frame to the queue.
WorkRequeue ==
    /\ held # Null /\ held.todo \in {"join", "offchannel"} /\ held' = Null
    /\ requeues < MaxRequeues /\ requeues' = requeues + 1
    /\ xradio_queue_requeue(held.id, held.todo = "join")
    /\ UNCHANGED <<header, generation, gc_timer, gc_list, stackVars, proc, bh_tx, fw,
                   flushing, ext_lock, clears>>

-----------------------------------------------------------------------------
(***************************************************************************)
(* Expiry, flush and stop.                                                 *)
(***************************************************************************)
FramesOf(s) == [k \in DOMAIN s |-> item[s[k]].skb]

\* Altered form: the pointer stays in the item.
slots_keep_frame(S) == item

\* item->skb = NULL.
EmptySlots(S) == [i \in Slots |-> IF i \in S THEN [item[i] EXCEPT !.skb = Null] ELSE item[i]]

\* How many slots of S belong to interface v (and to link l).
OfIf(S, v) == Cardinality({i \in S : item[i].if_id = v})
OfLink(S, v, l) == Cardinality({i \in S : item[i].if_id = v /\ item[i].link_id = l})

\* Altered form: the frames per interface are not counted down.
expired_keep_vif_count(S) ==
    /\ link_map_cache' = [v \in Ifs |-> [l \in Links |-> link_map_cache[v][l] - OfLink(S, v, l)]]
    /\ stats_num_queued' = [v \in Ifs |-> stats_num_queued[v] - OfIf(S, v)]
    /\ UNCHANGED num_queued_vif

\* The frames in S, which all wait, are counted down.
CountExpired(S) ==
    /\ link_map_cache' = [v \in Ifs |-> [l \in Links |-> link_map_cache[v][l] - OfLink(S, v, l)]]
    /\ stats_num_queued' = [v \in Ifs |-> stats_num_queued[v] - OfIf(S, v)]
    /\ num_queued_vif' = [v \in Ifs |-> num_queued_vif[v] - OfIf(S, v)]

\* The timer: the first n frames are older than ttl.  While the queue stays
\* overfull and was not empty, the timer is set again.
xradio_queue_gc ==
    \E n \in 0 .. Len(queue) :
      LET old == SubSeq(queue, 1, n)
          left == num_queued - n
      IN
      /\ gc_timer
      /\ queue' = SubSeq(queue, n + 1, Len(queue)) /\ free_pool' = free_pool \o old
      /\ item' = EmptySlots(Elems(old))
      /\ gc_list' = gc_list \o FramesOf(old)
      /\ num_queued' = left
      /\ CountExpired(Elems(old))
      /\ UnlockIfDrained(left)
      /\ gc_timer' = (overfull /\ left > unlock_threshold /\ queue # <<>>)
      /\ UNCHANGED <<pending, header, generation, num_pending, num_pending_vif, destroyed,
                     stackVars, proc, bh_tx, held, fw, flushing, ext_lock, bound>>

\* The worker, or the thread that cleared the queue, destroys a frame.
xradio_queue_post_gc ==
    /\ gc_list # <<>> /\ gc_list' = Tail(gc_list)
    /\ destroyed' = [destroyed EXCEPT ![Head(gc_list)] = @ + 1]
    /\ UNCHANGED <<listVars, header, generation, countVars, lockVars, gc_timer, stackVars,
                   proc, bh_tx, held, fw, flushing, ext_lock, bound>>

\* The sum of link_map_cache[v] over the links.
WaitingOfIf(v) ==
    Cardinality({p \in Links \X (1 .. Capacity) : p[2] <= link_map_cache[v][p[1]]})

\* The frames of the interfaces V leave both lists, those in flight too.
ClearItems(V) ==
    LET ofV == {i \in Slots : item[i].if_id \in V}
        others == Slots \ ofV
        gone == ListKeep(queue, ofV) \o ListKeep(pending, ofV)
        left == num_queued - Len(gone)
    IN
    /\ queue' = ListKeep(queue, others) /\ pending' = ListKeep(pending, others)
    /\ free_pool' = free_pool \o gone
    /\ item' = EmptySlots(Elems(gone))
    /\ gc_list' = gc_list \o FramesOf(gone)
    /\ num_queued' = left
    /\ num_pending' = num_pending - Len(ListKeep(pending, ofV))
    /\ num_queued_vif' = [v \in Ifs |-> IF v \in V THEN 0 ELSE num_queued_vif[v]]
    /\ num_pending_vif' = [v \in Ifs |-> IF v \in V THEN 0 ELSE num_pending_vif[v]]
    /\ stats_num_queued' = [v \in Ifs |-> IF v \in V THEN stats_num_queued[v] - WaitingOfIf(v)
                                          ELSE stats_num_queued[v]]
    /\ link_map_cache' = [v \in Ifs |-> IF v \in V THEN [l \in Links |-> 0]
                                        ELSE link_map_cache[v]]
    /\ UnlockIfDrained(left)

\* __xradio_flush with drop, for one interface and at any time: first the
\* bottom half's list, under a lock of its own ...
bh_proc_flush_txqueue(v) ==
    /\ flushing = Null /\ clears < MaxClears /\ (DropRaces \/ proc = Null)
    /\ flushing' = v /\ clears' = clears + 1
    /\ bh_tx' = ListKeep(bh_tx, {e \in Elems(bh_tx) : e.if_id # v})
    /\ UNCHANGED <<listVars, header, generation, countVars, lockVars, gc_timer, gc_list,
                   destroyed, stackVars, proc, held, fw, ext_lock, requeues>>

\* ... then the queue, whose packet IDs for v are of an old generation now.
xradio_queue_clear ==
    /\ flushing # Null /\ flushing' = Null
    /\ generation' = [generation EXCEPT ![flushing] = (@ + 1) % QGenMod]
    /\ ClearItems({flushing})
    /\ UNCHANGED <<header, gc_timer, destroyed, stackVars, proc, bh_tx, held, fw, ext_lock,
                   bound>>

\* xradio_stop, when no interface is up: wsm_lock_tx has waited for what the
\* firmware had, and the works are done.  The generations stay as they are:
\* the loop up to XRWL_ALL_IFS, which is -1, is empty.
xradio_stop ==
    /\ \A c \in Cpus : tx[c] = Null
    /\ proc = Null /\ held = Null /\ fw = {} /\ flushing = Null
    /\ clears < MaxClears /\ clears' = clears + 1
    /\ bh_tx' = <<>>
    /\ ClearItems(Ifs)
    /\ UNCHANGED <<header, generation, gc_timer, destroyed, stackVars, proc, held, fw,
                   flushing, ext_lock, requeues>>

\* xradio_remove_interface locks all queues while it flushes its own frames.
xradio_queue_lock ==
    /\ clears < MaxClears /\ ~ext_lock /\ ext_lock' = TRUE /\ tx_locked_cnt' = tx_locked_cnt + 1
    /\ UNCHANGED <<listVars, header, generation, countVars, overfull, gc_timer, gc_list,
                   destroyed, stackVars, proc, bh_tx, held, fw, flushing, bound>>

xradio_queue_unlock ==
    /\ ext_lock /\ ext_lock' = FALSE /\ tx_locked_cnt' = tx_locked_cnt - 1
    /\ UNCHANGED <<listVars, header, generation, countVars, overfull, gc_timer, gc_list,
                   destroyed, stackVars, proc, bh_tx, held, fw, flushing, bound>>

-----------------------------------------------------------------------------
Next ==
    \/ \E c \in Cpus : \/ \E v \in Ifs, l \in Links : xradio_tx(c, v, l)
                       \/ xradio_queue_put(c)
    \/ \E v \in Ifs, allowed \in SUBSET Links : xradio_queue_get(v, allowed)
    \/ HandleTx
    \/ \E todo \in {"probe", "join", "offchannel"} : HandleByWork(todo)
    \/ HandleDrop
    \/ xradio_bh_get
    \/ \E p \in fw : ConfirmRequeue(p) \/ xradio_queue_get_skb(p)
    \/ xradio_tx_confirm_cb
    \/ xradio_probe_work
    \/ WorkRemove
    \/ WorkRequeue
    \/ xradio_queue_gc
    \/ xradio_queue_post_gc
    \/ \E v \in Ifs : bh_proc_flush_txqueue(v)
    \/ xradio_queue_clear
    \/ xradio_stop
    \/ xradio_queue_lock
    \/ xradio_queue_unlock

Spec == Init /\ [][Next]_vars

-----------------------------------------------------------------------------
(***************************************************************************)
(* Properties.                                                             *)
(***************************************************************************)
\* Types.  The counters are size_t in the code: none ever falls below zero or
\* exceeds the pool.
TypeOK ==
    /\ queue \in Seq(Slots) /\ pending \in Seq(Slots) /\ free_pool \in Seq(Slots)
    /\ item \in [Slots -> [skb : Opt(Frames), if_id : Opt(Ifs), link_id : Opt(Links),
                           generation : 0 .. IGenMod - 1, packetID : Opt(PacketID)]]
    /\ header \in [Frames -> Opt(PacketID)]
    /\ generation \in [Ifs -> 0 .. QGenMod - 1]
    /\ {num_queued, num_pending} \subseteq 0 .. Capacity
    /\ num_queued_vif \in [Ifs -> 0 .. Capacity]
    /\ num_pending_vif \in [Ifs -> 0 .. Capacity]
    /\ stats_num_queued \in [Ifs -> 0 .. Capacity]
    /\ link_map_cache \in [Ifs -> [Links -> 0 .. Capacity]]
    /\ tx_locked_cnt \in 0 .. 2 /\ overfull \in BOOLEAN /\ gc_timer \in BOOLEAN
    /\ gc_list \in Seq(Frames) /\ destroyed \in [Frames -> 0 .. 1]
    /\ sent \subseteq Frames
    /\ tx \in [Cpus -> Opt(TxFrame)]
    /\ proc \in Opt(ProcFrame) /\ bh_tx \in Seq(BhEntry)
    /\ held \in Opt(WorkFrame) /\ fw \subseteq FwPacket
    /\ flushing \in Opt(Ifs) /\ ext_lock \in BOOLEAN
    /\ requeues \in 0 .. MaxRequeues /\ clears \in 0 .. MaxClears

\* Every slot is on exactly one of the three lists, once, and has a frame
\* unless it is free: what SYS_BUG(item->skb) of xradio_queue_put and
\* SYS_WARN(!item->skb) of xradio_queue_clear assert.
ItemsPartition ==
    LET all == queue \o pending \o free_pool IN
    /\ Len(all) = Capacity /\ Elems(all) = Slots
    /\ \A i \in Slots : item[i].skb = Null <=> i \in Elems(free_pool)

\* The counters of the queue, per interface and per link too, which decide
\* when the stack is stopped, which queue is served and whether a flush is
\* done, are the numbers of frames on the lists.
CountersMatch ==
    LET waiting == Elems(queue)
        flying == Elems(pending)
    IN
    /\ num_queued = Len(queue) + Len(pending) /\ num_pending = Len(pending)
    /\ \A v \in Ifs :
         /\ num_queued_vif[v] = OfIf(waiting \cup flying, v)
         /\ num_pending_vif[v] = OfIf(flying, v)
         /\ stats_num_queued[v] = OfIf(waiting, v)
         /\ \A l \in Links : link_map_cache[v][l] = OfLink(waiting, v, l)

\* A frame the stack has passed on is in exactly one place until skb_dtor has
\* it, once: none is leaked and none is freed twice, whichever of the
\* confirmation, the timer and the flush comes first.
FrameConserved ==
    \A f \in sent :
      Cardinality({c \in Cpus : tx[c] # Null /\ tx[c].skb = f})
        + Cardinality({i \in Slots : item[i].skb = f})
        + Cardinality({k \in DOMAIN gc_list : gc_list[k] = f}) + destroyed[f] = 1

\* A packet ID that is still accepted names the frame it was made for, and
\* that frame is in flight: a late confirmation never removes, or returns to
\* the queue, another frame that has taken over the slot.
ConfirmOwnFrame ==
    LET own(p) == GenerationsMatch(p.id) =>
                    item[p.id.slot].skb = p.skb /\ p.id.slot \in Elems(pending)
    IN
    /\ \A p \in fw : own(p)
    /\ proc # Null => own(proc)
    /\ held # Null /\ GenerationsMatch(held.id) => held.id.slot \in Elems(pending)

\* At any time every CPU that is inside xradio_tx finds a free slot:
\* SYS_BUG(xradio_queue_put()) never fires (where the throttle fits the pool).
PutFits == Cardinality({c \in Cpus : tx[c] # Null}) <= Len(free_pool)

\* The stack is stopped once for an overfull queue and once for the
\* configuration path, so that it is woken when both are over.
LockBalanced == tx_locked_cnt = (IF overfull THEN 1 ELSE 0) + (IF ext_lock THEN 1 ELSE 0)

\* A queue that is at the threshold is stopped (overfull), and one that is
\* stopped holds more frames than the wake-up threshold.
OverfullExact ==
    /\ num_queued >= lock_threshold => overfull
    /\ overfull => num_queued > unlock_threshold

\* "flush proc tx queue" comes before the frames of the interface are freed:
\* an item on the bottom half's list has the frame it was put there with.
BhEntryIsPending ==
    \A k \in DOMAIN bh_tx : /\ item[bh_tx[k].slot].skb = bh_tx[k].skb
                            /\ bh_tx[k].slot \in Elems(pending)

=============================================================================
