------------------------------- MODULE MppDma -------------------------------
(***************************************************************************)
(* The pool of imported dma buffers of one MPP session,                    *)
(* yangfan/kernel/src/driv/video/rockchip/mpp/mpp_iommu.c, with the task   *)
(* code of mpp_common.c and mpp_vdpu2.c that imports and releases.         *)
(*                                                                         *)
(* Several threads of the client may be inside an ioctl on the session at  *)
(* once (mpp_dev_ioctl takes no lock of the session).  Each imports the    *)
(* buffers its registers name while it builds a task, or on request        *)
(* (MPP_CMD_TRANS_FD_TO_IOVA); whichever thread drops the last reference   *)
(* of a task releases the task's buffers, at the same time as the clients  *)
(* import the next ones.  Each section under list_mutex is one step, and   *)
(* so is each operation on a kref.                                         *)
(*                                                                         *)
(* evicted, crossed and astray are history variables: no step depends on   *)
(* evicted or crossed, and the model ends at the first astray step, a put  *)
(* of a reference that is not the putter's, after which a slot may come to *)
(* be on both lists.  It ends as well when the pool is freed.              *)
(***************************************************************************)
EXTENDS Integers, Sequences, FiniteSets, KernelLists

CONSTANTS
    Clients,      \* threads of the client that are inside ioctls
    Fds,          \* file descriptors of the client
    Dmabufs,      \* struct dma_buf objects
    DmabufOf,     \* the buffer behind a descriptor; descriptors may be dup'ed
    Tasks,        \* struct mpp_task objects; each is allocated at most once
    NSlots,       \* ARRAY_SIZE(dma->dma_bufs)
    MaxBuffers,   \* mpp->session_max_buffers
    MemNum,       \* ARRAY_SIZE(task->mem_regions)
    MaxAttach,    \* bound: how many registers of a task name a descriptor
    MaxTrans,     \* bound: a translation begins while fewer are unreleased
    Null

ASSUME DmaAssumption ==
    /\ IsFiniteSet(Clients) /\ IsFiniteSet(Fds) /\ IsFiniteSet(Tasks)
    /\ DmabufOf \in [Fds -> Dmabufs]
    /\ NSlots \in Nat /\ MaxBuffers \in Nat /\ MemNum \in Nat
    /\ MaxAttach \in Nat /\ MaxTrans \in Nat
    /\ Null \notin Tasks /\ Null \notin Dmabufs /\ Null \notin Fds

VARIABLES
    session,      \* the dma session: "live", or "gone" after its destruction
    unused,       \* dma->unused_list
    used,         \* dma->used_list
    aged,         \* the slots that are not unused, in the order of last_used
    dmabuf,       \* buffer->dmabuf while the slot keeps a reference of it, else Null
    ref,          \* buffer->ref; Saturated after an underflow
    count,        \* dma->buffer_count
    task,         \* life of a task
    regions,      \* task->mem_region_list, the first mem_count of mem_regions
    trans,        \* the TRANS_FD_TO_IOVA calls whose buffer is not yet released
    cpc,          \* a client thread: where it is,
    ctask, cfd,   \* the task it builds (or NULL), the descriptor it imports,
    cbuf,         \* and its local variable buffer
    evicted,      \* history: used slots that the pool no longer has a reference on
    crossed,      \* history: dma_bufs that two threads imported at the same time
    astray        \* history: somebody put a reference that was not its own

poolVars == <<unused, used, aged, dmabuf, ref, count, evicted, astray>>
taskVars == <<task, regions>>
cVars == <<cpc, ctask, cfd, cbuf>>
vars == <<session, poolVars, taskVars, trans, cVars, crossed>>

Slots == 1 .. NSlots
Saturated == -1
Region == [fd : Fds, hdl : Slots, is_dup : BOOLEAN]
Translation == [by : Clients, fd : Fds, hdl : Slots]

\* mpp_dma_session_create limits the setting to the size of the array.
max_buffers == IF MaxBuffers > NSlots THEN NSlots ELSE MaxBuffers

Init ==
    /\ session = "live"
    /\ unused = [i \in Slots |-> i] /\ used = <<>>
    /\ aged = <<>>
    /\ dmabuf = [b \in Slots |-> Null]
    /\ ref = [b \in Slots |-> 0]
    /\ count = 0
    /\ task = [t \in Tasks |-> "none"]
    /\ regions = [t \in Tasks |-> <<>>]
    /\ trans = {}
    /\ cpc = [p \in Clients |-> "idle"] /\ ctask = [p \in Clients |-> Null]
    /\ cfd = [p \in Clients |-> Null] /\ cbuf = [p \in Clients |-> 0]
    /\ evicted = {} /\ crossed = {} /\ astray = FALSE

-----------------------------------------------------------------------------
\* Altered form: the count of the pool is not maintained.
kref_put_keeps_count(b) ==
    IF ref[b] = 1
    THEN /\ ref' = [ref EXCEPT ![b] = 0]
         /\ used' = ListDel(used, b) /\ aged' = ListDel(aged, b)
         /\ unused' = Append(unused, b)
         /\ dmabuf' = [dmabuf EXCEPT ![b] = Null]
         /\ UNCHANGED count
    ELSE /\ ref' = [ref EXCEPT ![b] = IF @ > 1 THEN @ - 1 ELSE Saturated]
         /\ UNCHANGED <<unused, used, aged, dmabuf, count>>

\* kref_put(&buffer->ref, mpp_dma_release_buffer), under list_mutex.  The last
\* put unmaps the buffer, drops its dma_buf and moves it to the unused list; a
\* put of a dead
\* reference saturates it and releases nothing (refcount_t).
mpp_dma_release_buffer(b) ==
    IF ref[b] = 1
    THEN /\ ref' = [ref EXCEPT ![b] = 0]
         /\ count' = count - 1
         /\ used' = ListDel(used, b) /\ aged' = ListDel(aged, b)
         /\ unused' = Append(unused, b)
         /\ dmabuf' = [dmabuf EXCEPT ![b] = Null]
    ELSE /\ ref' = [ref EXCEPT ![b] = IF @ > 1 THEN @ - 1 ELSE Saturated]
         /\ UNCHANGED <<unused, used, aged, dmabuf, count>>

\* A put by somebody who holds the reference.
PutOwn(b) ==
    /\ mpp_dma_release_buffer(b)
    /\ evicted' = IF ref[b] = 1 THEN evicted \ {b} ELSE evicted
    /\ UNCHANGED astray

-----------------------------------------------------------------------------
(***************************************************************************)
(* mpp_dma_import_fd, under the read side of the iommu's semaphore.  It    *)
(* ends in Imported (the caller gets the buffer) or in ImportFailed.       *)
(***************************************************************************)
Importing(p) == cpc[p] \in {"extra", "evict", "find", "get", "closed", "take", "map",
                            "kref", "insert"}

\* The slot a thread has taken off the unused list and not yet published.
Taken(p) == IF cpc[p] \in {"map", "kref", "insert"} THEN {cbuf[p]} ELSE {}

\* Another thread is importing the same dma_buf, past its own look-up.
Meanwhile(p) ==
    \E q \in Clients \ {p} : /\ cpc[q] \in {"take", "map", "kref", "insert"}
                             /\ DmabufOf[cfd[q]] = DmabufOf[cfd[p]]

\* The slots of the used list that map the descriptor's dma_buf.
Match(f) == {b \in Elems(used) : dmabuf[b] = DmabufOf[f]}

\* The local variables of a call that returns.
Return(p) == cfd' = [cfd EXCEPT ![p] = Null] /\ cbuf' = [cbuf EXCEPT ![p] = 0]

Imported(p, b) ==
    /\ Return(p)
    /\ IF ctask[p] = Null
       THEN /\ trans' = trans \cup {[by |-> p, fd |-> cfd[p], hdl |-> b]}
            /\ cpc' = [cpc EXCEPT ![p] = "idle"]
            /\ UNCHANGED regions
       ELSE /\ regions' = [regions EXCEPT ![ctask[p]] =
                               Append(@, [fd |-> cfd[p], hdl |-> b, is_dup |-> FALSE])]
            /\ cpc' = [cpc EXCEPT ![p] = "build"]
            /\ UNCHANGED trans

\* The task is finalized and freed by the client itself (vdpu_alloc_task: fail).
ImportFailed(p) ==
    /\ Return(p)
    /\ IF ctask[p] = Null
       THEN cpc' = [cpc EXCEPT ![p] = "idle"] /\ UNCHANGED task
       ELSE /\ cpc' = [cpc EXCEPT ![p] = "fail"]
            /\ task' = [task EXCEPT ![ctask[p]] = "final"]

\* mpp_dma_remove_extra_buffer compares the count before it takes the lock.
CheckCount(p) ==
    /\ cpc[p] = "extra"
    /\ cpc' = [cpc EXCEPT ![p] = IF count > max_buffers THEN "evict" ELSE "find"]
    /\ UNCHANGED <<session, poolVars, taskVars, trans, ctask, cfd, cbuf, crossed>>

\* The used buffer with the smallest last_used.
Oldest(b) ==
    /\ b \in Elems(used)
    /\ \A c \in Elems(used) : \E i, j \in DOMAIN aged :
         i <= j /\ aged[i] = b /\ aged[j] = c

\* "Remove the oldest buffer when count more than the setting".  Nothing records
\* that the pool has given its reference up: if the buffer is still held and
\* comes to be the oldest again, another reference is put.
mpp_dma_remove_extra_buffer(p) ==
    /\ cpc[p] = "evict"
    /\ \/ used = <<>> /\ UNCHANGED poolVars
       \/ \E b \in Slots :
            /\ Oldest(b)
            /\ mpp_dma_release_buffer(b)
            /\ evicted' = IF ref[b] = 1 THEN evicted \ {b} ELSE evicted \cup {b}
            /\ astray' = (astray \/ b \in evicted)
    /\ cpc' = [cpc EXCEPT ![p] = "find"]
    /\ UNCHANGED <<session, taskVars, trans, ctask, cfd, cbuf, crossed>>

\* Altered form: descriptors are told apart instead of buffers.
find_buffer_never(p) ==
    /\ cpc[p] = "find"
    /\ cpc' = [cpc EXCEPT ![p] = "take"]
    /\ UNCHANGED <<session, poolVars, taskVars, trans, ctask, cfd, cbuf, crossed>>

\* The used buffer that maps the descriptor's dma_buf, if there is one.  The
\* lock is released before the caller looks at the result.  The descriptor may
\* have been closed: the import then fails at its own dma_buf_get.
mpp_dma_find_buffer_fd(p) ==
    /\ cpc[p] = "find"
    /\ \/ /\ Match(cfd[p]) # {}
          /\ \E b \in Match(cfd[p]) : cbuf' = [cbuf EXCEPT ![p] = b]
          /\ cpc' = [cpc EXCEPT ![p] = "get"]
          /\ UNCHANGED crossed
       \/ /\ Match(cfd[p]) = {}
          /\ cpc' = [cpc EXCEPT ![p] = "take"]
          /\ crossed' = crossed \cup IF Meanwhile(p) THEN {DmabufOf[cfd[p]]} ELSE {}
          /\ UNCHANGED cbuf
       \/ /\ cpc' = [cpc EXCEPT ![p] = "closed"]
          /\ UNCHANGED <<cbuf, crossed>>
    /\ UNCHANGED <<session, poolVars, taskVars, trans, ctask, cfd>>

\* Without the lock: another thread may have released the buffer meanwhile, and
\* a third one may have filled it again, with another dma_buf.
kref_get_unless_zero(p) ==
    LET b == cbuf[p]  d == DmabufOf[cfd[p]] IN
    /\ cpc[p] = "get"
    /\ IF ref[b] # 0
       THEN /\ ref' = [ref EXCEPT ![b] = IF @ > 0 THEN @ + 1 ELSE Saturated]
            /\ aged' = Append(ListDel(aged, b), b)
            /\ crossed' = crossed \cup IF dmabuf[b] # d THEN {d} ELSE {}
            /\ Imported(p, b)
       ELSE /\ cpc' = [cpc EXCEPT ![p] = "take"]
            /\ crossed' = crossed \cup IF Meanwhile(p) \/ Match(cfd[p]) # {} THEN {d} ELSE {}
            /\ cbuf' = [cbuf EXCEPT ![p] = 0]
            /\ UNCHANGED <<ref, aged, regions, trans, cfd>>
    /\ UNCHANGED <<session, unused, used, dmabuf, count, evicted, astray, task, ctask>>

\* dma_buf_get fails: the client has closed the descriptor.
DmaBufGetFails(p) ==
    /\ cpc[p] \in {"closed", "take"}
    /\ ImportFailed(p)
    /\ UNCHANGED <<session, poolVars, regions, trans, ctask, crossed>>

\* "A new DMA buffer": the first of the unused list, or -ENOMEM.
TakeUnused(p) ==
    /\ cpc[p] = "take"
    /\ IF unused = <<>>
       THEN ImportFailed(p) /\ UNCHANGED <<unused, aged>>
       ELSE /\ cbuf' = [cbuf EXCEPT ![p] = Head(unused)] /\ unused' = Tail(unused)
            /\ aged' = Append(aged, Head(unused))
            /\ cpc' = [cpc EXCEPT ![p] = "map"]
            /\ UNCHANGED <<task, cfd>>
    /\ UNCHANGED <<session, used, dmabuf, ref, count, evicted, astray, regions, trans,
                   ctask, crossed>>

\* dma_buf_attach and dma_buf_map_attachment succeed; kref_init is the pool's
\* reference.
kref_init(p) ==
    /\ cpc[p] = "map"
    /\ dmabuf' = [dmabuf EXCEPT ![cbuf[p]] = DmabufOf[cfd[p]]]
    /\ ref' = [ref EXCEPT ![cbuf[p]] = 1]
    /\ cpc' = [cpc EXCEPT ![p] = "kref"]
    /\ UNCHANGED <<session, unused, used, aged, count, evicted, astray, taskVars, trans,
                   ctask, cfd, cbuf, crossed>>

\* Altered form: the slot is not given back on the error path.
map_fails_and_leaks(p) ==
    /\ cpc[p] = "map"
    /\ ImportFailed(p)
    /\ UNCHANGED <<session, unused, used, aged, dmabuf, ref, count, evicted, astray, regions, trans,
                   ctask, crossed>>

\* One of them fails (fail_attach, fail_map): back to the unused list.
MapFails(p) ==
    /\ cpc[p] = "map"
    /\ unused' = Append(unused, cbuf[p])
    /\ aged' = ListDel(aged, cbuf[p])
    /\ ImportFailed(p)
    /\ UNCHANGED <<session, used, dmabuf, ref, count, evicted, astray, regions, trans,
                   ctask, crossed>>

\* Altered form: no reference "for used outside the buffer pool" is taken.
import_without_get(p) ==
    /\ cpc[p] = "kref"
    /\ cpc' = [cpc EXCEPT ![p] = "insert"]
    /\ UNCHANGED <<session, poolVars, taskVars, trans, ctask, cfd, cbuf, crossed>>

\* "Increase the reference for used outside the buffer pool".
kref_get(p) ==
    /\ cpc[p] = "kref"
    /\ ref' = [ref EXCEPT ![cbuf[p]] = IF @ > 0 THEN @ + 1 ELSE Saturated]
    /\ cpc' = [cpc EXCEPT ![p] = "insert"]
    /\ UNCHANGED <<session, unused, used, aged, dmabuf, count, evicted, astray, taskVars,
                   trans, ctask, cfd, cbuf, crossed>>

\* The buffer is published, under the lock.
mpp_dma_import_fd(p) ==
    /\ cpc[p] = "insert"
    /\ count' = count + 1
    /\ used' = Append(used, cbuf[p])
    /\ Imported(p, cbuf[p])
    /\ UNCHANGED <<session, unused, aged, dmabuf, ref, evicted, astray, task, ctask, crossed>>

-----------------------------------------------------------------------------
(***************************************************************************)
(* The clients' calls, and the tasks.                                      *)
(***************************************************************************)

\* vdpu_alloc_task begins: an empty task.
mpp_task_init(p, t) ==
    /\ cpc[p] = "idle" /\ task[t] = "none"
    /\ task' = [task EXCEPT ![t] = "alloc"]
    /\ ctask' = [ctask EXCEPT ![p] = t] /\ cpc' = [cpc EXCEPT ![p] = "build"]
    /\ UNCHANGED <<session, poolVars, regions, trans, cfd, cbuf, crossed>>

\* The next register of the task names descriptor f.  One that the task has
\* imported already shares the region; otherwise the import begins.
mpp_task_attach_fd(p, f) ==
    LET t == ctask[p]
        known == {i \in DOMAIN regions[t] : regions[t][i].fd = f} IN
    /\ cpc[p] = "build" /\ Len(regions[t]) < MaxAttach
    /\ Len(regions[t]) <= MemNum
    /\ IF known # {}
       THEN /\ \E i \in known :
                 regions' = [regions EXCEPT ![t] =
                                Append(@, [regions[t][i] EXCEPT !.is_dup = TRUE])]
            /\ UNCHANGED <<cpc, cfd>>
       ELSE /\ cpc' = [cpc EXCEPT ![p] = "extra"] /\ cfd' = [cfd EXCEPT ![p] = f]
            /\ UNCHANGED regions
    /\ UNCHANGED <<session, poolVars, task, trans, ctask, cbuf, crossed>>

\* The register names no descriptor (fd <= 0), or mem_count is exceeded.
AttachFails(p) ==
    /\ cpc[p] = "build"
    /\ cpc' = [cpc EXCEPT ![p] = "fail"] /\ task' = [task EXCEPT ![ctask[p]] = "final"]
    /\ UNCHANGED <<session, poolVars, regions, trans, ctask, cfd, cbuf, crossed>>

\* All registers are translated.
AllocDone(p) ==
    /\ cpc[p] = "build"
    /\ task' = [task EXCEPT ![ctask[p]] = "live"]
    /\ cpc' = [cpc EXCEPT ![p] = "idle"] /\ ctask' = [ctask EXCEPT ![p] = Null]
    /\ UNCHANGED <<session, poolVars, regions, trans, cfd, cbuf, crossed>>

\* The failing allocation returns once the partial task is finalized.
AllocFailed(p) ==
    /\ cpc[p] = "fail" /\ task[ctask[p]] = "freed"
    /\ cpc' = [cpc EXCEPT ![p] = "idle"] /\ ctask' = [ctask EXCEPT ![p] = Null]
    /\ UNCHANGED <<session, poolVars, taskVars, trans, cfd, cbuf, crossed>>

\* The last reference of a task is put, by whichever thread (see MppTask).
FreeTask(t) ==
    /\ task[t] = "live"
    /\ task' = [task EXCEPT ![t] = "final"]
    /\ UNCHANGED <<session, poolVars, regions, trans, cVars, crossed>>

\* Altered form: shared regions are released like the others.
finalize_releases_dup(t) ==
    /\ task[t] = "final"
    /\ IF regions[t] = <<>>
       THEN task' = [task EXCEPT ![t] = "freed"] /\ UNCHANGED <<regions, poolVars>>
       ELSE /\ regions' = [regions EXCEPT ![t] = Tail(@)]
            /\ PutOwn(Head(regions[t]).hdl)
            /\ UNCHANGED task
    /\ UNCHANGED <<session, trans, cVars, crossed>>

\* One region after the other: mpp_dma_release unless it is shared.
mpp_task_finalize(t) ==
    /\ task[t] = "final"
    /\ IF regions[t] = <<>>
       THEN task' = [task EXCEPT ![t] = "freed"] /\ UNCHANGED <<regions, poolVars>>
       ELSE /\ regions' = [regions EXCEPT ![t] = Tail(@)]
            /\ IF Head(regions[t]).is_dup
               THEN UNCHANGED poolVars
               ELSE PutOwn(Head(regions[t]).hdl)
            /\ UNCHANGED task
    /\ UNCHANGED <<session, trans, cVars, crossed>>

\* MPP_CMD_TRANS_FD_TO_IOVA: import on behalf of the client.  Bound: fewer
\* than MaxTrans translations are unreleased, and none of f by this thread.
TransFd(p, f) ==
    /\ cpc[p] = "idle"
    /\ Cardinality(trans) < MaxTrans /\ \A x \in trans : x.by = p => x.fd # f
    /\ cpc' = [cpc EXCEPT ![p] = "extra"] /\ cfd' = [cfd EXCEPT ![p] = f]
    /\ UNCHANGED <<session, poolVars, taskVars, trans, ctask, cbuf, crossed>>

\* MPP_CMD_RELEASE_FD of a descriptor that some thread has translated: look the
\* buffer up.  (-EINVAL, and no step, if it is not in the list or the descriptor
\* is closed.)  The buffer found need not be the one the translation got.
ReleaseFd(p, f) ==
    /\ cpc[p] = "idle" /\ \E x \in trans : x.fd = f
    /\ \E b \in Match(f) :
         LET own == {x \in trans : x.fd = f /\ x.hdl = b} IN
         /\ cbuf' = [cbuf EXCEPT ![p] = b]
         /\ \/ own = {} /\ astray' = TRUE /\ UNCHANGED trans
            \/ (\E x \in own : trans' = trans \ {x}) /\ UNCHANGED astray
    /\ cpc' = [cpc EXCEPT ![p] = "release"]
    /\ UNCHANGED <<session, unused, used, aged, dmabuf, ref, count, evicted, taskVars, ctask,
                   cfd, crossed>>

\* ... then put it, in a second section under the lock.
mpp_dma_release_fd(p) ==
    /\ cpc[p] = "release"
    /\ PutOwn(cbuf[p])
    /\ cpc' = [cpc EXCEPT ![p] = "idle"] /\ Return(p)
    /\ UNCHANGED <<session, taskVars, trans, ctask, crossed>>

\* MPP_CMD_RESET_SESSION has seen task_count at zero (or the session is released,
\* when it has no task left).  A task that a thread is still building, or failing
\* to build, is not counted.
ResetSession(p) ==
    /\ cpc[p] = "idle"
    /\ \A t \in Tasks : task[t] \in {"live", "final"} => \E q \in Clients : ctask[q] = t
    /\ cpc' = [cpc EXCEPT ![p] = "reset"]
    /\ UNCHANGED <<session, poolVars, taskVars, trans, ctask, cfd, cbuf, crossed>>

\* With the iommu's semaphore held for writing, every used buffer loses a
\* reference, meant to be the pool's, and the pool is freed with its lists.
mpp_dma_session_destroy(p) ==
    /\ cpc[p] = "reset" /\ \A q \in Clients : ~Importing(q)
    /\ session' = "gone" /\ cpc' = [cpc EXCEPT ![p] = "idle"]
    /\ ref' = [b \in Slots |-> IF b \in Elems(used) /\ ref[b] > 0 THEN ref[b] - 1 ELSE ref[b]]
    /\ astray' = (astray \/ evicted # {})
    /\ unused' = <<>> /\ used' = <<>> /\ count' = 0 /\ evicted' = {}
    /\ UNCHANGED <<aged, dmabuf, taskVars, trans, ctask, cfd, cbuf, crossed>>

-----------------------------------------------------------------------------
Import(p) ==
    \/ CheckCount(p)
    \/ mpp_dma_remove_extra_buffer(p)
    \/ mpp_dma_find_buffer_fd(p)
    \/ kref_get_unless_zero(p)
    \/ DmaBufGetFails(p)
    \/ TakeUnused(p)
    \/ kref_init(p)
    \/ MapFails(p)
    \/ kref_get(p)
    \/ mpp_dma_import_fd(p)

Call(p) ==
    \/ \E t \in Tasks : mpp_task_init(p, t)
    \/ \E f \in Fds : mpp_task_attach_fd(p, f) \/ TransFd(p, f) \/ ReleaseFd(p, f)
    \/ AttachFails(p)
    \/ AllocDone(p)
    \/ AllocFailed(p)
    \/ mpp_dma_release_fd(p)
    \/ ResetSession(p)
    \/ mpp_dma_session_destroy(p)

Next ==
    /\ session = "live" /\ ~astray
    /\ \/ \E p \in Clients : Import(p) \/ Call(p)
       \/ \E t \in Tasks : FreeTask(t) \/ mpp_task_finalize(t)

Spec == Init /\ [][Next]_vars

-----------------------------------------------------------------------------
(***************************************************************************)
(* Properties.                                                             *)
(***************************************************************************)

\* Every variable keeps its type, and buffer_count stays within dma_bufs.
TypeOK ==
    /\ session \in {"live", "gone"}
    /\ unused \in Seq(Slots) /\ used \in Seq(Slots) /\ aged \in Seq(Slots)
    /\ dmabuf \in [Slots -> Dmabufs \cup {Null}]
    /\ ref \in [Slots -> Nat \cup {Saturated}]
    /\ count \in 0 .. NSlots
    /\ task \in [Tasks -> {"none", "alloc", "live", "final", "freed"}]
    /\ regions \in [Tasks -> Seq(Region)]
    /\ trans \subseteq Translation
    /\ cpc \in [Clients -> {"idle", "build", "extra", "evict", "find", "get", "closed", "take",
                            "map", "kref", "insert", "fail", "release", "reset"}]
    /\ ctask \in [Clients -> Tasks \cup {Null}]
    /\ cfd \in [Clients -> Fds \cup {Null}]
    /\ cbuf \in [Clients -> Slots \cup {0}]
    /\ evicted \subseteq Slots /\ crossed \subseteq Dmabufs
    /\ astray \in BOOLEAN

\* The pool never loses or doubles a slot, whatever is released or imported
\* while a client is between two steps of an import: each slot is unused, used
\* or in the hands of one client, buffer_count counts the used ones, and a slot
\* on the unused list has no reference.
PoolConsistent ==
    session = "live" =>
      /\ NoDup(unused) /\ NoDup(used)
      /\ Elems(used) \cap Elems(unused) = {}
      /\ \A p \in Clients : Taken(p) \cap (Elems(used) \cup Elems(unused)) = {}
      /\ \A p, q \in Clients : p # q => Taken(p) \cap Taken(q) = {}
      /\ Elems(used) \cup Elems(unused) \cup UNION {Taken(p) : p \in Clients} = Slots
      /\ count = Cardinality(Elems(used))
      /\ \A b \in Elems(unused) : ref[b] \in {0, Saturated}

\* "fd may dup several and point the same dambuf": a dma_buf is mapped once in
\* the session, although the look-up and the insertion are two sections, unless
\* two threads imported it at the same time.
MappedOnce ==
    ~astray =>
      \A b, c \in Elems(used) : dmabuf[b] = dmabuf[c] /\ dmabuf[b] \notin crossed => b = c

\* The slots whose attachment has not been undone (never, once saturated).
Mapped == {b \in Slots : ref[b] # 0}

\* The references that tasks hold on a slot: one per region that is not shared.
TaskRefs(b) ==
    Cardinality({x \in Tasks \X (1 .. MaxAttach) :
                   /\ x[2] \in DOMAIN regions[x[1]]
                   /\ regions[x[1]][x[2]].hdl = b /\ ~regions[x[1]][x[2]].is_dup})

\* The references the client holds through TRANS_FD_TO_IOVA: one per call.
TransRefs(b) == Cardinality({x \in trans : x.hdl = b})

\* The references in the local variables of the threads: about to be given to
\* the caller, or about to be put.
LocalRefs(b) == Cardinality({p \in Clients : cpc[p] \in {"insert", "release"} /\ cbuf[p] = b})

\* The pool's own reference, from kref_init to the eviction or the destruction.
PoolRef(b) ==
    IF \/ b \in Elems(used) \ evicted
       \/ \E p \in Clients : cpc[p] \in {"kref", "insert"} /\ cbuf[p] = b
    THEN 1 ELSE 0

\* A buffer's reference count is the pool's reference, those of the tasks and
\* those of the clients, whatever is imported, released and evicted at the same
\* time, until somebody puts a reference that is not its own.
RefsAccount ==
    ~astray => \A b \in Slots : ref[b] = PoolRef(b) + TaskRefs(b) + TransRefs(b) + LocalRefs(b)

\* Every buffer whose address was given to the hardware of a task, or to the
\* client, stays mapped, and stays the same buffer, until it is released.
HeldIsMapped ==
    /\ \A t \in Tasks : \A i \in DOMAIN regions[t] :
         LET r == regions[t][i] IN
         task[t] \in {"alloc", "live"} =>
             r.hdl \in Mapped /\ dmabuf[r.hdl] = DmabufOf[r.fd]
    /\ \A x \in trans : x.hdl \in Mapped /\ dmabuf[x.hdl] = DmabufOf[x.fd]

\* The same, for as long as everybody puts its own references; a buffer is
\* mistaken for another only by a thread that imported it beside others.
HeldStaysMapped ==
    ~astray =>
      /\ \A t \in Tasks : \A i \in DOMAIN regions[t] :
           LET r == regions[t][i] IN
           task[t] \in {"alloc", "live"} =>
             /\ r.hdl \in Mapped
             /\ DmabufOf[r.fd] \in crossed \/ dmabuf[r.hdl] = DmabufOf[r.fd]
      /\ \A x \in trans :
           /\ x.hdl \in Mapped
           /\ DmabufOf[x.fd] \in crossed \/ dmabuf[x.hdl] = DmabufOf[x.fd]

=============================================================================
