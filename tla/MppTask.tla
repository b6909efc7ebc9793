------------------------------ MODULE MppTask ------------------------------
(***************************************************************************)
(* The task life cycle of the Rockchip media process platform service,     *)
(* yangfan/kernel/src/driv/video/rockchip/mpp/mpp_common.c, with the       *)
(* decoder mpp_vdpu2.c as the device driver below it.                      *)
(*                                                                         *)
(* Client threads submit register sets as tasks and poll for the result;   *)
(* the kthread worker of the task queue moves tasks from the pending list  *)
(* to the running list and starts the hardware; the interrupt (top half,   *)
(* then thread) and the delayed timeout work compete for the right to      *)
(* finish a started task; closing a file hands the session to the worker.  *)
(* Each of these runs on its own and interleaves at the granularity of the *)
(* locks and atomic operations of the code.                                *)
(*                                                                         *)
(* One task queue with several devices, as on RK3399 where the VPU decoder *)
(* and encoder share one.  A session is used by one thread (the code asks  *)
(* for this: "Do NOT poll hw irq when previous call not return").          *)
(***************************************************************************)
EXTENDS Integers, Sequences, FiniteSets, KernelLists

CONSTANTS
    Sessions,     \* struct mpp_session objects, one per opened file
    Tasks,        \* struct mpp_task objects; each is allocated at most once
    Devices,      \* struct mpp_dev objects attached to the task queue
    GrfDevices,   \* devices with a hw_ops->set_grf, which may fail
    ShutDevices,  \* devices whose platform shutdown callback may be called
    HwHangs,      \* TRUE iff the 200 ms timer of a task may expire
    Null          \* the NULL pointer

ASSUME ConstantsAssumption ==
    /\ IsFiniteSet(Tasks)
    /\ GrfDevices \subseteq Devices
    /\ ShutDevices \subseteq Devices
    /\ HwHangs \in BOOLEAN
    /\ Null \notin Tasks /\ Null \notin Sessions /\ Null \notin Devices

VARIABLES
    sess,         \* life of a session
    sdev,         \* session->mpp
    dma,          \* session->dma: NULL, a live dma session, or a destroyed one
    spend,        \* session->pending_list
    scount,       \* session->task_count
    owner,        \* task->session
    alloc,        \* whether the task's memory is allocated
    ref,          \* task->ref
    bits,         \* task->state, the set of the TASK_STATE_* bits
    abort,        \* task->abort_request > 0
    timer,        \* task->timeout_work and the progress of its handler
    qpend,        \* queue->pending_list
    running,      \* queue->running_list
    detach,       \* queue->session_detach (detach_count is its length)
    trig,         \* the devices whose mpp->work is queued on the worker
    wpc, wtask,   \* the worker: where it is, and its local variable task
    cpc, ctask,   \* the client thread of a session, and the task it holds
    cpoll,        \* the client's ioctl carries a poll request (poll_cnt > 0)
    curtask,      \* mpp->cur_task
    dcount,       \* mpp->task_count
    power,        \* mpp_power_on calls not yet matched by mpp_power_off
    readers,      \* readers of reset_group->rw_sem
    hw,           \* whether the hardware is decoding
    irqraw,       \* the interrupt status register of the hardware
    irqstatus,    \* mpp->irq_status, until the interrupt thread has read it
    iwake,        \* the interrupt thread has been woken (IRQ_WAKE_THREAD)
    ipc, itask,   \* the interrupt thread of a device, and its task
    shut,         \* srv->shutdown_request, which is only compared with 0
    overtaken,    \* a timeout work has ended a task that the worker was still
                  \* about to start on the hardware (history)
    stray         \* a thread has used the memory of a freed task after it was
                  \* given to somebody else (history)

sessVars == <<sess, sdev, dma>>
refVars == <<owner, alloc, ref, scount, dcount>>
listVars == <<spend, qpend, running, detach>>
wVars == <<wpc, wtask>>
cVars == <<cpc, ctask, cpoll>>
hwVars == <<curtask, power, readers, hw, irqraw, irqstatus>>
iVars == <<iwake, ipc, itask>>
hist == <<overtaken, stray>>
vars == <<sessVars, refVars, bits, abort, timer, listVars, trig, wVars, cVars,
          hwVars, iVars, shut, hist>>

StateBits == {"PENDING", "RUNNING", "START", "HANDLE", "IRQ", "FINISH",
              "TIMEOUT", "DONE", "ABORT"}

-----------------------------------------------------------------------------
(***************************************************************************)
(* References and triggers.                                                 *)
(***************************************************************************)

\* session->mpp of the task's session (mpp_get_task_used_device: task->mpp is
\* only set by the multi-core drivers).
DeviceOf(t) == sdev[owner[t]]

\* Altered form for the checks: the device's counter is not decremented.
mpp_free_task_keeps_device_count(T) ==
    /\ alloc' = [t \in Tasks |-> IF t \in T THEN "freed" ELSE alloc[t]]
    /\ scount' = [s \in Sessions |->
                    scount[s] - Cardinality({t \in T : owner[t] = s})]
    /\ UNCHANGED dcount

\* mpp_free_task for every task of T: dev_ops->free_task releases the memory,
\* then both task counters are decremented.
mpp_free_task(T) ==
    /\ alloc' = [t \in Tasks |-> IF t \in T THEN "freed" ELSE alloc[t]]
    /\ scount' = [s \in Sessions |->
                    scount[s] - Cardinality({t \in T : owner[t] = s})]
    /\ dcount' = [d \in Devices |->
                    dcount[d] - Cardinality({t \in T : DeviceOf(t) = d})]

\* kref_put(&task->ref, mpp_free_task) once for every task of T.
kref_put(T) ==
    /\ ref' = [t \in Tasks |-> IF t \in T THEN ref[t] - 1 ELSE ref[t]]
    /\ mpp_free_task({t \in T : ref[t] = 1})
    /\ UNCHANGED owner

set_bit(t, b) == bits' = [bits EXCEPT ![t] = @ \cup b]

\* kthread_queue_work(&mpp->queue->worker, &mpp->work): no effect when the work
\* is queued already, but a work that is running is queued once more.
mpp_taskqueue_trigger_work(d) == trig' = trig \cup {d}

-----------------------------------------------------------------------------
(***************************************************************************)
(* Init: the devices are probed, no file is open.                          *)
(***************************************************************************)

Init ==
    /\ sess = [s \in Sessions |-> "none"]
    /\ sdev = [s \in Sessions |-> Null]
    /\ dma = [s \in Sessions |-> "null"]
    /\ spend = [s \in Sessions |-> <<>>]
    /\ scount = [s \in Sessions |-> 0]
    /\ owner = [t \in Tasks |-> Null]
    /\ alloc = [t \in Tasks |-> "none"]
    /\ ref = [t \in Tasks |-> 0]
    /\ bits = [t \in Tasks |-> {}]
    /\ abort = [t \in Tasks |-> FALSE]
    /\ timer = [t \in Tasks |-> "off"]
    /\ qpend = <<>> /\ running = <<>> /\ detach = <<>>
    /\ trig = {}
    /\ wpc = "idle" /\ wtask = Null
    /\ cpc = [s \in Sessions |-> "idle"]
    /\ ctask = [s \in Sessions |-> Null]
    /\ cpoll = [s \in Sessions |-> FALSE]
    /\ curtask = [d \in Devices |-> Null]
    /\ dcount = [d \in Devices |-> 0]
    /\ power = [d \in Devices |-> 0]
    /\ readers = 0
    /\ hw = [d \in Devices |-> "idle"]
    /\ irqraw = [d \in Devices |-> "none"]
    /\ irqstatus = [d \in Devices |-> "none"]
    /\ iwake = [d \in Devices |-> FALSE]
    /\ ipc = [d \in Devices |-> "idle"]
    /\ itask = [d \in Devices |-> Null]
    /\ shut = 0
    /\ overtaken = FALSE /\ stray = FALSE

-----------------------------------------------------------------------------
(***************************************************************************)
(* The client thread of a session: open, ioctl and release of the file.    *)
(***************************************************************************)

mpp_dev_open(s) ==
    /\ sess[s] = "none"
    /\ sess' = [sess EXCEPT ![s] = "open"]
    /\ UNCHANGED <<sdev, dma, refVars, bits, abort, timer, listVars, trig,
                   wVars, cVars, hwVars, iVars, shut, hist>>

\* The gate of mpp_dev_ioctl: -EBUSY once release or shutdown is requested.
\* (A file whose release_request is set has no thread left in an ioctl.)
IoctlAllowed(s) ==
    /\ sess[s] \in {"open", "attached"}
    /\ cpc[s] = "idle"
    /\ shut = 0

\* MPP_CMD_INIT_CLIENT_TYPE; a client issues it once, before any other.
InitClientType(s, d) ==
    /\ IoctlAllowed(s)
    /\ sess[s] = "open"
    /\ sess' = [sess EXCEPT ![s] = "attached"]
    /\ sdev' = [sdev EXCEPT ![s] = d]
    /\ dma' = [dma EXCEPT ![s] = "live"]
    /\ UNCHANGED <<refVars, bits, abort, timer, listVars, trig, wVars, cVars,
                   hwVars, iVars, shut, hist>>

\* Altered form: the session's list takes no reference of its own.
process_task_without_kref_get(s, t, poll) ==
    /\ IoctlAllowed(s)
    /\ sess[s] = "attached"
    /\ alloc[t] = "none"
    /\ alloc' = [alloc EXCEPT ![t] = "live"]
    /\ owner' = [owner EXCEPT ![t] = s]
    /\ ref' = [ref EXCEPT ![t] = 1]
    /\ scount' = [scount EXCEPT ![s] = @ + 1]
    /\ spend' = [spend EXCEPT ![s] = Append(@, t)]
    /\ cpc' = [cpc EXCEPT ![s] = "trigger"]
    /\ ctask' = [ctask EXCEPT ![s] = t]
    /\ cpoll' = [cpoll EXCEPT ![s] = poll]
    /\ UNCHANGED <<sessVars, dcount, bits, abort, timer, qpend, running, detach,
                   trig, wVars, hwVars, iVars, shut, hist>>

\* An ioctl with register requests (set_cnt > 0), with or without a poll
\* request: mpp_process_task_default allocates the task (kref_init) and pushes
\* it to the session (kref_get); it is not yet on the queue.
mpp_process_task_default(s, t, poll) ==
    /\ IoctlAllowed(s)
    /\ sess[s] = "attached"
    /\ alloc[t] = "none"
    /\ alloc' = [alloc EXCEPT ![t] = "live"]
    /\ owner' = [owner EXCEPT ![t] = s]
    /\ ref' = [ref EXCEPT ![t] = 2]
    /\ scount' = [scount EXCEPT ![s] = @ + 1]
    /\ spend' = [spend EXCEPT ![s] = Append(@, t)]
    /\ cpc' = [cpc EXCEPT ![s] = "trigger"]
    /\ ctask' = [ctask EXCEPT ![s] = t]
    /\ cpoll' = [cpoll EXCEPT ![s] = poll]
    /\ UNCHANGED <<sessVars, dcount, bits, abort, timer, qpend, running, detach,
                   trig, wVars, hwVars, iVars, shut, hist>>

\* mpp_msgs_trigger: the allocation's reference goes to the queue.
mpp_msgs_trigger(s) ==
    LET t == ctask[s] IN
    /\ cpc[s] = "trigger"
    /\ dcount' = [dcount EXCEPT ![sdev[s]] = @ + 1]
    /\ set_bit(t, {"PENDING"})
    /\ qpend' = Append(qpend, t)
    /\ mpp_taskqueue_trigger_work(sdev[s])
    /\ cpc' = [cpc EXCEPT ![s] = IF cpoll[s] THEN "get" ELSE "idle"]
    /\ ctask' = [ctask EXCEPT ![s] = Null]
    /\ cpoll' = [cpoll EXCEPT ![s] = FALSE]
    /\ UNCHANGED <<sessVars, owner, alloc, ref, scount, abort, timer, spend,
                   running, detach, wVars, hwVars, iVars, shut, hist>>

\* An ioctl with a poll request only.
PollIoctl(s) ==
    /\ IoctlAllowed(s)
    /\ sess[s] = "attached"
    /\ cpc' = [cpc EXCEPT ![s] = "get"]
    /\ UNCHANGED <<sessVars, refVars, bits, abort, timer, listVars, trig, wVars,
                   ctask, cpoll, hwVars, iVars, shut, hist>>

\* mpp_wait_result_default takes the oldest task of the session, not the task
\* of this ioctl; -EIO when there is none.
mpp_session_get_pending_task(s) ==
    /\ cpc[s] = "get"
    /\ IF spend[s] = <<>>
       THEN /\ cpc' = [cpc EXCEPT ![s] = "idle"]
            /\ UNCHANGED ctask
       ELSE /\ cpc' = [cpc EXCEPT ![s] = "wait"]
            /\ ctask' = [ctask EXCEPT ![s] = Head(spend[s])]
    /\ UNCHANGED <<sessVars, refVars, bits, abort, timer, listVars, trig, wVars,
                   cpoll, hwVars, iVars, shut, hist>>

\* wait_event_timeout returns because TASK_STATE_DONE is set.
WaitDone(s) ==
    /\ cpc[s] = "wait"
    /\ "DONE" \in bits[ctask[s]]
    /\ cpc' = [cpc EXCEPT ![s] = "pop"]
    /\ UNCHANGED <<sessVars, refVars, bits, abort, timer, listVars, trig, wVars,
                   ctask, cpoll, hwVars, iVars, shut, hist>>

\* Altered form: wait_event instead of wait_event_timeout.
WaitForever(s) == FALSE /\ UNCHANGED vars

\* wait_event_timeout returns 0 after 2000 ms; the task may become done before
\* the next step sets the abort request.
WaitTimeout(s) ==
    /\ cpc[s] = "wait"
    /\ "DONE" \notin bits[ctask[s]]
    /\ cpc' = [cpc EXCEPT ![s] = "abort"]
    /\ UNCHANGED <<sessVars, refVars, bits, abort, timer, listVars, trig, wVars,
                   ctask, cpoll, hwVars, iVars, shut, hist>>

WaitAbort(s) ==
    /\ cpc[s] = "abort"
    /\ abort' = [abort EXCEPT ![ctask[s]] = TRUE]
    /\ set_bit(ctask[s], {"ABORT"})
    /\ cpc' = [cpc EXCEPT ![s] = "pop"]
    /\ UNCHANGED <<sessVars, refVars, timer, listVars, trig, wVars, ctask, cpoll,
                   hwVars, iVars, shut, hist>>

mpp_session_pop_pending(s) ==
    /\ cpc[s] = "pop"
    /\ spend' = [spend EXCEPT ![s] = ListDel(@, ctask[s])]
    /\ kref_put({ctask[s]})
    /\ cpc' = [cpc EXCEPT ![s] = "idle"]
    /\ ctask' = [ctask EXCEPT ![s] = Null]
    /\ UNCHANGED <<sessVars, bits, abort, timer, qpend, running, detach, trig,
                   wVars, cpoll, hwVars, iVars, shut, hist>>

\* mpp_session_clear: abort, unlink and put every task of the session's list.
mpp_session_clear(s) ==
    /\ abort' = [t \in Tasks |-> abort[t] \/ t \in Elems(spend[s])]
    /\ spend' = [spend EXCEPT ![s] = <<>>]
    /\ kref_put(Elems(spend[s]))

\* MPP_CMD_RESET_SESSION, when task_count reads 0 within 500 ms (otherwise the
\* ioctl fails and nothing changes).  session->dma keeps the destroyed pointer.
ResetSession(s) ==
    /\ IoctlAllowed(s)
    /\ sess[s] = "attached"
    /\ scount[s] = 0
    /\ mpp_session_clear(s)
    /\ dma' = [dma EXCEPT ![s] = "destroyed"]
    /\ UNCHANGED <<sess, sdev, bits, timer, qpend, running, detach, trig, wVars,
                   cVars, hwVars, iVars, shut, hist>>

\* Altered form: the worker is not told of the session.
dev_release_without_trigger(s) ==
    /\ sess[s] \in {"open", "attached"}
    /\ cpc[s] = "idle"
    /\ IF sess[s] = "attached"
       THEN /\ sess' = [sess EXCEPT ![s] = "detached"]
            /\ detach' = Append(detach, s)
       ELSE /\ sess' = [sess EXCEPT ![s] = "freed"]
            /\ UNCHANGED detach
    /\ UNCHANGED <<sdev, dma, refVars, bits, abort, timer, spend, qpend, running,
                   trig, wVars, cVars, hwVars, iVars, shut, hist>>

\* mpp_dev_release of a session with a device: hand it to the worker.  Without
\* one (no task was ever made) mpp_session_deinit frees it at once.
mpp_dev_release(s) ==
    /\ sess[s] \in {"open", "attached"}
    /\ cpc[s] = "idle"
    /\ IF sess[s] = "attached"
       THEN /\ sess' = [sess EXCEPT ![s] = "detached"]
            /\ detach' = Append(detach, s)
            /\ mpp_taskqueue_trigger_work(sdev[s])
       ELSE /\ sess' = [sess EXCEPT ![s] = "freed"]
            /\ UNCHANGED <<detach, trig>>
    /\ UNCHANGED <<sdev, dma, refVars, bits, abort, timer, spend, qpend, running,
                   wVars, cVars, hwVars, iVars, shut, hist>>

-----------------------------------------------------------------------------
(***************************************************************************)
(* The kthread worker of the queue: mpp_task_worker_default.               *)
(***************************************************************************)

\* kthread_worker_fn takes the work of some device off its list and runs it.
WorkerStart(d) ==
    /\ wpc = "idle" /\ d \in trig
    /\ trig' = trig \ {d}
    /\ wpc' = "again"
    /\ UNCHANGED <<sessVars, refVars, bits, abort, timer, listVars, wtask, cVars,
                   hwVars, iVars, shut, hist>>

\* again: the head of the pending list is the next task.  Only the worker takes
\* tasks off this list, so the head is the same when abort_request is read.
mpp_taskqueue_get_pending_task ==
    /\ wpc = "again"
    /\ IF qpend = <<>>
       THEN wpc' = "done" /\ UNCHANGED wtask
       ELSE /\ ~abort[Head(qpend)]
            /\ wpc' = "check" /\ wtask' = Head(qpend)
    /\ UNCHANGED <<sessVars, refVars, bits, abort, timer, listVars, trig, cVars,
                   hwVars, iVars, shut, hist>>

\* Altered form: an aborted task is unlinked without a kref_put.
pop_pending_without_put ==
    /\ wpc = "again" /\ qpend # <<>> /\ abort[Head(qpend)]
    /\ qpend' = ListDel(qpend, Head(qpend))
    /\ UNCHANGED <<sessVars, refVars, bits, abort, timer, spend, running, detach,
                   trig, wVars, cVars, hwVars, iVars, shut, hist>>

\* "if task timeout and aborted, remove it"
mpp_taskqueue_pop_pending ==
    /\ wpc = "again" /\ qpend # <<>> /\ abort[Head(qpend)]
    /\ qpend' = ListDel(qpend, Head(qpend))
    /\ kref_put({Head(qpend)})
    /\ UNCHANGED <<sessVars, bits, abort, timer, spend, running, detach, trig,
                   wVars, cVars, hwVars, iVars, shut, hist>>

\* Altered form: the running list is not looked at.
is_running_unchecked ==
    /\ wpc = "check"
    /\ wpc' = "move"
    /\ UNCHANGED <<sessVars, refVars, bits, abort, timer, listVars, trig, wtask,
                   cVars, hwVars, iVars, shut, hist>>

\* No device of this queue has a prepare function: one task runs at a time.
mpp_taskqueue_is_running ==
    /\ wpc = "check"
    /\ IF running # <<>>
       THEN wpc' = "done" /\ wtask' = Null
       ELSE wpc' = "move" /\ UNCHANGED wtask
    /\ UNCHANGED <<sessVars, refVars, bits, abort, timer, listVars, trig, cVars,
                   hwVars, iVars, shut, hist>>

mpp_taskqueue_pending_to_run ==
    /\ wpc = "move"
    /\ qpend' = ListDel(qpend, wtask)
    /\ running' = Append(running, wtask)
    /\ set_bit(wtask, {"RUNNING"})
    /\ wpc' = "run"
    /\ UNCHANGED <<sessVars, refVars, abort, timer, spend, detach, trig, wtask,
                   cVars, hwVars, iVars, shut, hist>>

\* Altered form: the timeout work is not scheduled.
task_run_without_timer ==
    LET d == DeviceOf(wtask) IN
    /\ wpc = "run"
    /\ power' = [power EXCEPT ![d] = @ + 1]
    /\ readers' = readers + 1
    /\ set_bit(wtask, {"START"})
    /\ wpc' = "start"
    /\ UNCHANGED <<sessVars, refVars, abort, timer, listVars, trig, wtask, cVars,
                   curtask, hw, irqraw, irqstatus, iVars, shut, hist>>

\* mpp_task_run: power on, take the reset lock for reading, arm the timeout
\* work.
mpp_task_run ==
    LET d == DeviceOf(wtask) IN
    /\ wpc = "run"
    /\ power' = [power EXCEPT ![d] = @ + 1]
    /\ readers' = readers + 1
    /\ set_bit(wtask, {"START"})
    /\ timer' = [timer EXCEPT ![wtask] = "armed"]
    /\ wpc' = "start"
    /\ UNCHANGED <<sessVars, refVars, abort, listVars, trig, wtask, cVars, curtask,
                   hw, irqraw, irqstatus, iVars, shut, hist>>

\* Then dev_ops->run, while the timer runs: cur_task is set and the hardware is
\* started, whatever the timeout work has done to the task meanwhile.
vdpu_run ==
    LET d == DeviceOf(wtask) IN
    /\ wpc = "start"
    /\ curtask' = [curtask EXCEPT ![d] = wtask]
    /\ hw' = [hw EXCEPT ![d] = "busy"]
    /\ wpc' = "again" /\ wtask' = Null
    /\ UNCHANGED <<sessVars, refVars, bits, abort, timer, listVars, trig, cVars,
                   power, readers, irqraw, irqstatus, iVars, shut, hist>>

\* mpp_task_run returns an error when set_grf fails: the task is dropped from
\* the running list, undone, and the worker goes on to done, not to again.
mpp_task_run_failed ==
    /\ wpc = "run" /\ DeviceOf(wtask) \in GrfDevices
    /\ running' = ListDel(running, wtask)
    /\ kref_put({wtask})
    /\ wpc' = "done" /\ wtask' = Null
    /\ UNCHANGED <<sessVars, bits, abort, timer, spend, qpend, detach, trig,
                   cVars, hwVars, iVars, shut, hist>>

\* Altered form: task_count is not looked at.
session_deinit_unchecked ==
    LET s == Head(detach) IN
    /\ wpc = "done" /\ detach # <<>>
    /\ detach' = Tail(detach)
    /\ sess' = [sess EXCEPT ![s] = "freed"]
    /\ dma' = [dma EXCEPT ![s] = "null"]
    /\ mpp_session_clear(s)
    /\ UNCHANGED <<sdev, bits, timer, qpend, running, trig, wVars, cVars, hwVars,
                   iVars, shut, hist>>

\* done: release every detached session, then the work is over.  A session
\* that still has tasks is unlinked all the same; mpp_session_deinit returns -1
\* and nobody refers to the session any more ("orphan").
mpp_session_deinit ==
    LET s == Head(detach) IN
    /\ wpc = "done" /\ detach # <<>>
    /\ detach' = Tail(detach)
    /\ IF scount[s] # 0
       THEN /\ sess' = [sess EXCEPT ![s] = "orphan"]
            /\ UNCHANGED <<dma, refVars, abort, spend>>
       ELSE /\ sess' = [sess EXCEPT ![s] = "freed"]
            /\ dma' = [dma EXCEPT ![s] = "null"]
            /\ mpp_session_clear(s)
    /\ UNCHANGED <<sdev, bits, timer, qpend, running, trig, wVars, cVars, hwVars,
                   iVars, shut, hist>>

WorkerEnd ==
    /\ wpc = "done" /\ detach = <<>>
    /\ wpc' = "idle"
    /\ UNCHANGED <<sessVars, refVars, bits, abort, timer, listVars, trig, wtask,
                   cVars, hwVars, iVars, shut, hist>>

-----------------------------------------------------------------------------
(***************************************************************************)
(* The hardware and its interrupt.                                         *)
(***************************************************************************)

\* The decoder stops and raises its interrupt, with or without an error flag.
HwFinish(d, st) ==
    /\ hw[d] = "busy"
    /\ hw' = [hw EXCEPT ![d] = "idle"]
    /\ irqraw' = [irqraw EXCEPT ![d] = st]
    /\ UNCHANGED <<sessVars, refVars, bits, abort, timer, listVars, trig, wVars,
                   cVars, curtask, power, readers, irqstatus, iVars, shut, hist>>

\* The top half, in hard interrupt context.  vdpu_irq reads and clears the
\* status; whoever sets TASK_STATE_HANDLE first finishes the task.
\* cancel_delayed_work stops a pending timer, not a handler that has started.
mpp_dev_irq(d) ==
    LET t == curtask[d]
        claimed == t # Null => "HANDLE" \notin bits[t]
    IN
    /\ irqraw[d] # "none"
    /\ irqstatus' = [irqstatus EXCEPT ![d] = irqraw[d]]
    /\ irqraw' = [irqraw EXCEPT ![d] = "none"]
    /\ iwake' = [iwake EXCEPT ![d] = @ \/ claimed]
    /\ IF t # Null /\ claimed
       THEN /\ set_bit(t, {"HANDLE", "IRQ"})
            /\ timer' = [timer EXCEPT ![t] = IF @ = "armed" THEN "off" ELSE @]
       ELSE UNCHANGED <<bits, timer>>
    /\ UNCHANGED <<sessVars, refVars, abort, listVars, trig, wVars, cVars,
                   curtask, power, readers, hw, ipc, itask, shut, hist>>

\* mpp_dev_isr_sched, the interrupt thread: vdpu_isr takes cur_task and calls
\* mpp_task_finish, here up to the wake-up of the poller.  An error status
\* requests a reset, which waits until the reset lock has no other reader.
mpp_task_finish(d) ==
    LET t == curtask[d] IN
    /\ ipc[d] = "idle" /\ iwake[d]
    /\ iwake' = [iwake EXCEPT ![d] = FALSE]
    /\ itask' = [itask EXCEPT ![d] = t]
    /\ IF t = Null
       THEN /\ ipc' = [ipc EXCEPT ![d] = "trigger"]
            /\ UNCHANGED <<curtask, readers, power, bits>>
       ELSE /\ curtask' = [curtask EXCEPT ![d] = Null]
            /\ irqstatus[d] = "error" => readers = 1
            /\ readers' = readers - 1
            /\ power' = [power EXCEPT ![d] = @ - 1]
            /\ set_bit(t, {"FINISH", "DONE"})
            /\ ipc' = [ipc EXCEPT ![d] = "pop"]
    /\ irqstatus' = [irqstatus EXCEPT ![d] = "none"]
    /\ UNCHANGED <<sessVars, refVars, abort, timer, listVars, trig, wVars, cVars,
                   hw, irqraw, shut, hist>>

\* Altered form: the interrupt thread frees the task whoever else holds it.
isr_pop_frees_task(d) ==
    /\ ipc[d] = "pop"
    /\ running' = ListDel(running, itask[d])
    /\ ref' = [ref EXCEPT ![itask[d]] = 0]
    /\ mpp_free_task({itask[d]})
    /\ ipc' = [ipc EXCEPT ![d] = "trigger"]
    /\ itask' = [itask EXCEPT ![d] = Null]
    /\ UNCHANGED <<sessVars, owner, bits, abort, timer, spend, qpend, detach, trig,
                   wVars, cVars, hwVars, iwake, shut, hist>>

IsrPopRunning(d) ==
    /\ ipc[d] = "pop"
    /\ running' = ListDel(running, itask[d])
    /\ kref_put({itask[d]})
    /\ ipc' = [ipc EXCEPT ![d] = "trigger"]
    /\ itask' = [itask EXCEPT ![d] = Null]
    /\ UNCHANGED <<sessVars, bits, abort, timer, spend, qpend, detach, trig,
                   wVars, cVars, hwVars, iwake, shut, hist>>

\* Altered form: the thread ends without triggering the queue.
isr_sched_without_trigger(d) ==
    /\ ipc[d] = "trigger"
    /\ ipc' = [ipc EXCEPT ![d] = "idle"]
    /\ UNCHANGED <<sessVars, refVars, bits, abort, timer, listVars, trig, wVars,
                   cVars, hwVars, iwake, itask, shut, hist>>

\* "trigger current queue to run next task"
mpp_dev_isr_sched(d) ==
    /\ ipc[d] = "trigger"
    /\ mpp_taskqueue_trigger_work(d)
    /\ ipc' = [ipc EXCEPT ![d] = "idle"]
    /\ UNCHANGED <<sessVars, refVars, bits, abort, timer, listVars, wVars, cVars,
                   hwVars, iwake, itask, shut, hist>>

-----------------------------------------------------------------------------
(***************************************************************************)
(* The delayed timeout work of a started task: mpp_task_timeout_work.      *)
(***************************************************************************)

\* 200 ms have passed: the handler is entered, but has not touched the task.
TimerExpire(t) ==
    /\ HwHangs
    /\ timer[t] = "armed"
    /\ timer' = [timer EXCEPT ![t] = "fired"]
    /\ UNCHANGED <<sessVars, refVars, bits, abort, listVars, trig, wVars, cVars,
                   hwVars, iVars, shut, hist>>

\* Altered form: the handler does not test TASK_STATE_HANDLE.
timeout_without_test(t) ==
    /\ timer[t] = "fired"
    /\ timer' = [timer EXCEPT ![t] = "reset"]
    /\ set_bit(t, {"HANDLE"})
    /\ UNCHANGED <<sessVars, refVars, abort, listVars, trig, wVars, cVars,
                   hwVars, iVars, shut, hist>>

\* test_and_set_bit(TASK_STATE_HANDLE).  The work holds no reference: when the
\* interrupt has claimed the task, it may be freed by now (see UseFreed).
TimeoutHandle(t) ==
    /\ timer[t] = "fired"
    /\ timer' = [timer EXCEPT ![t] = IF "HANDLE" \in bits[t] THEN "off"
                                                           ELSE "reset"]
    /\ set_bit(t, {"HANDLE"})
    /\ UNCHANGED <<sessVars, refVars, abort, listVars, trig, wVars, cVars,
                   hwVars, iVars, shut, hist>>

\* The worker has armed the timer of the task and is about to start it.
Starting(t) == wpc = "start" /\ wtask = t

\* Altered form: the handler does not reset the hardware.
timeout_work_without_reset(t) ==
    LET d == DeviceOf(t) IN
    /\ timer[t] = "reset"
    /\ readers' = readers - 1
    /\ power' = [power EXCEPT ![d] = @ - 1]
    /\ set_bit(t, {"TIMEOUT", "DONE"})
    /\ timer' = [timer EXCEPT ![t] = "pop"]
    /\ overtaken' = (overtaken \/ Starting(t))
    /\ UNCHANGED <<sessVars, refVars, abort, listVars, trig, wVars, cVars,
                   curtask, hw, irqraw, irqstatus, iVars, shut, stray>>

\* Release the reset lock, reset the hardware (which needs it for writing),
\* power off and wake the poller.  cur_task is left as it is.  Nothing stops the
\* worker, which may still be on its way to dev_ops->run.
mpp_task_timeout_work(t) ==
    LET d == DeviceOf(t) IN
    /\ timer[t] = "reset"
    /\ readers = 1 /\ readers' = readers - 1
    /\ hw' = [hw EXCEPT ![d] = "idle"]
    /\ irqraw' = [irqraw EXCEPT ![d] = "none"]
    /\ power' = [power EXCEPT ![d] = @ - 1]
    /\ set_bit(t, {"TIMEOUT", "DONE"})
    /\ timer' = [timer EXCEPT ![t] = "pop"]
    /\ overtaken' = (overtaken \/ Starting(t))
    /\ UNCHANGED <<sessVars, refVars, abort, listVars, trig, wVars, cVars,
                   curtask, irqstatus, iVars, shut, stray>>

\* The task leaves the running list; the worker is not triggered.
TimeoutPopRunning(t) ==
    /\ timer[t] = "pop"
    /\ running' = ListDel(running, t)
    /\ kref_put({t})
    /\ timer' = [timer EXCEPT ![t] = "off"]
    /\ UNCHANGED <<sessVars, bits, abort, spend, qpend, detach, trig, wVars,
                   cVars, hwVars, iVars, shut, hist>>

-----------------------------------------------------------------------------
(***************************************************************************)
(* A thread follows a pointer to a freed task: the timeout work its own    *)
(* task, the worker the task it starts, the top half cur_task.  As long as *)
(* the memory has not been allocated again it still reads what was there   *)
(* (the actions above); otherwise anything may happen, and the model goes  *)
(* no further.                                                             *)
(***************************************************************************)

UseFreed(t) ==
    /\ alloc[t] = "freed"
    /\ \/ timer[t] = "fired"
       \/ Starting(t)
       \/ \E d \in Devices : irqraw[d] # "none" /\ curtask[d] = t
    /\ stray' = TRUE
    /\ UNCHANGED <<sessVars, refVars, bits, abort, timer, listVars, trig, wVars,
                   cVars, hwVars, iVars, shut, overtaken>>

-----------------------------------------------------------------------------
(***************************************************************************)
(* mpp_dev_shutdown: srv->shutdown_request refuses every further ioctl; a  *)
(* second shutdown only counts it up.                                      *)
(* The wait of at most 200 ms for task_count to reach 0 ends in a message. *)
(***************************************************************************)

mpp_dev_shutdown(d) ==
    /\ d \in ShutDevices /\ shut = 0
    /\ shut' = 1
    /\ UNCHANGED <<sessVars, refVars, bits, abort, timer, listVars, trig, wVars,
                   cVars, hwVars, iVars, hist>>

-----------------------------------------------------------------------------
Client(s) ==
    \/ mpp_dev_open(s)
    \/ \E d \in Devices : InitClientType(s, d)
    \/ \E t \in Tasks, poll \in BOOLEAN : mpp_process_task_default(s, t, poll)
    \/ mpp_msgs_trigger(s)
    \/ PollIoctl(s)
    \/ mpp_session_get_pending_task(s)
    \/ WaitDone(s)
    \/ WaitTimeout(s)
    \/ WaitAbort(s)
    \/ mpp_session_pop_pending(s)
    \/ ResetSession(s)
    \/ mpp_dev_release(s)

Worker ==
    \/ \E d \in Devices : WorkerStart(d)
    \/ mpp_taskqueue_get_pending_task
    \/ mpp_taskqueue_pop_pending
    \/ mpp_taskqueue_is_running
    \/ mpp_taskqueue_pending_to_run
    \/ mpp_task_run
    \/ vdpu_run
    \/ mpp_task_run_failed
    \/ mpp_session_deinit
    \/ WorkerEnd

Interrupt(d) ==
    \/ \E st \in {"ready", "error"} : HwFinish(d, st)
    \/ mpp_dev_irq(d)
    \/ mpp_task_finish(d)
    \/ IsrPopRunning(d)
    \/ mpp_dev_isr_sched(d)

Timeout(t) ==
    \/ TimerExpire(t)
    \/ TimeoutHandle(t)
    \/ mpp_task_timeout_work(t)
    \/ TimeoutPopRunning(t)

Next ==
    /\ ~stray
    /\ \/ \E s \in Sessions : Client(s)
       \/ Worker
       \/ \E d \in Devices : Interrupt(d) \/ mpp_dev_shutdown(d)
       \/ \E t \in Tasks : Timeout(t) \/ UseFreed(t)

Spec == Init /\ [][Next]_vars

(***************************************************************************)
(* Fairness.  The scheduler runs every runnable kernel thread: a client    *)
(* inside an ioctl (wait_event_timeout returns at the latest after 2 s),   *)
(* the worker, the interrupt and its thread, the timeout work.  Clients    *)
(* need not issue further calls.  The hardware is fair only where it does  *)
(* not hang; an armed timer expires unless it is cancelled.                *)
(***************************************************************************)

InIoctl(s) ==
    \/ mpp_msgs_trigger(s)
    \/ mpp_session_get_pending_task(s)
    \/ WaitDone(s)
    \/ WaitTimeout(s)
    \/ WaitAbort(s)
    \/ mpp_session_pop_pending(s)

InterruptThread(d) ==
    mpp_dev_irq(d) \/ mpp_task_finish(d) \/ IsrPopRunning(d) \/ mpp_dev_isr_sched(d)

FairSpec ==
    /\ Spec
    /\ \A s \in Sessions : WF_vars(~stray /\ InIoctl(s))
    /\ WF_vars(~stray /\ Worker)
    /\ \A d \in Devices : WF_vars(~stray /\ InterruptThread(d))
    /\ \A t \in Tasks : WF_vars(~stray /\ Timeout(t))
    /\ ~HwHangs => \A d \in Devices : WF_vars(~stray /\ HwFinish(d, "ready"))

-----------------------------------------------------------------------------
(***************************************************************************)
(* Properties.                                                             *)
(***************************************************************************)

\* Every variable stays in the set of values the C type and the code give it;
\* in particular no reference count exceeds 2 or goes below 0.
TypeOK ==
    /\ sess \in [Sessions -> {"none", "open", "attached", "detached", "orphan", "freed"}]
    /\ sdev \in [Sessions -> Devices \cup {Null}]
    /\ dma \in [Sessions -> {"null", "live", "destroyed"}]
    /\ spend \in [Sessions -> Seq(Tasks)]
    /\ scount \in [Sessions -> Int]
    /\ owner \in [Tasks -> Sessions \cup {Null}]
    /\ alloc \in [Tasks -> {"none", "live", "freed"}]
    /\ ref \in [Tasks -> 0 .. 2]
    /\ bits \in [Tasks -> SUBSET StateBits]
    /\ abort \in [Tasks -> BOOLEAN]
    /\ timer \in [Tasks -> {"off", "armed", "fired", "reset", "pop"}]
    /\ qpend \in Seq(Tasks) /\ running \in Seq(Tasks) /\ detach \in Seq(Sessions)
    /\ trig \subseteq Devices
    /\ wpc \in {"idle", "again", "check", "move", "run", "start", "done"}
    /\ wtask \in Tasks \cup {Null}
    /\ cpc \in [Sessions -> {"idle", "trigger", "get", "wait", "abort", "pop"}]
    /\ ctask \in [Sessions -> Tasks \cup {Null}]
    /\ cpoll \in [Sessions -> BOOLEAN]
    /\ curtask \in [Devices -> Tasks \cup {Null}]
    /\ dcount \in [Devices -> Int]
    /\ power \in [Devices -> Int]
    /\ readers \in Int
    /\ hw \in [Devices -> {"idle", "busy"}]
    /\ irqraw \in [Devices -> {"none", "ready", "error"}]
    /\ irqstatus \in [Devices -> {"none", "ready", "error"}]
    /\ iwake \in [Devices -> BOOLEAN]
    /\ ipc \in [Devices -> {"idle", "pop", "trigger"}]
    /\ itask \in [Devices -> Tasks \cup {Null}]
    /\ shut \in 0 .. 1
    /\ overtaken \in BOOLEAN /\ stray \in BOOLEAN

\* Who holds a reference on a task: the list of its session, and the queue (the
\* thread that has allocated the task, until it puts it on the queue).
InSession(t) == \E s \in Sessions : t \in Elems(spend[s])
Untriggered(t) == \E s \in Sessions : cpc[s] = "trigger" /\ ctask[s] = t
OnQueue(t) == t \in Elems(qpend) \/ t \in Elems(running) \/ Untriggered(t)

\* task->ref counts exactly the holders, through every interleaving of the
\* poller, the worker, the interrupt thread and the timeout work, and the task
\* is freed exactly when the last holder lets go.
RefsCountHolders ==
    \A t \in Tasks :
        /\ ref[t] = (IF InSession(t) THEN 1 ELSE 0) + (IF OnQueue(t) THEN 1 ELSE 0)
        /\ alloc[t] = "live" <=> ref[t] > 0

\* Every task pointer a thread is about to follow is allocated: the lists, the
\* poller's task, the worker's task, the interrupt thread's task, cur_task when
\* an interrupt is due, and the task of a timeout work, except that of one
\* entered just before the interrupt claimed it.  It is lost with the rest when
\* a timeout work ends a task that the worker is still about to start.
NoUseAfterFree ==
    LET Reached == Elems(qpend) \cup Elems(running)
                   \cup (UNION {Elems(spend[s]) : s \in Sessions})
                   \cup {wtask}
                   \cup {ctask[s] : s \in Sessions}
                   \cup {itask[d] : d \in Devices}
                   \cup {curtask[d] : d \in {e \in Devices : irqraw[e] # "none" \/ iwake[e]}}
                   \cup {t \in Tasks : timer[t] \in {"armed", "fired", "reset", "pop"}
                                       /\ "IRQ" \notin bits[t]}
    IN  ~overtaken => \A t \in Reached \ {Null} : alloc[t] = "live"

\* "normal hardware can only accept one task at once": mpp->cur_task is not
\* replaced while the hardware is decoding.
OneTaskAtOnce ==
    [][\A d \in Devices : hw[d] = "busy" => curtask'[d] = curtask[d]]_vars

Started(t) == "START" \in bits[t] /\ "DONE" \notin bits[t]

\* The devices of a queue take turns.  At most one task is started and not done;
\* exactly its device is powered and holds the reset lock for reading, and only
\* that one decodes.  (Until a timeout work overtakes the worker.)
ExclusiveHardware ==
    /\ \A t, u \in Tasks : Started(t) /\ Started(u) => t = u
    /\ \A d \in Devices :
         /\ power[d] = IF \E t \in Tasks : Started(t) /\ DeviceOf(t) = d THEN 1 ELSE 0
         /\ hw[d] = "busy" => power[d] = 1
    /\ readers = IF \E t \in Tasks : Started(t) THEN 1 ELSE 0

\* A started task is finished by the interrupt thread or by the timeout work,
\* never by both, and it is done only after one of them has claimed it: as long
\* as no timeout work has ended a task that the worker went on to start.
HandledOnce ==
    ~overtaken =>
        \A t \in Tasks :
            /\ ~ {"FINISH", "TIMEOUT"} \subseteq bits[t]
            /\ "DONE" \in bits[t] => {"START", "HANDLE"} \subseteq bits[t]
            /\ "IRQ" \in bits[t] => timer[t] \notin {"armed", "reset", "pop"}

\* An interrupt that is raised, or whose thread is due, concerns the running
\* task, although the timeout work leaves cur_task pointing to its task: as long
\* as no timeout work has ended a task that the worker went on to start.
InterruptIsForRunningTask ==
    ~overtaken =>
        \A d \in Devices :
            irqraw[d] # "none" \/ iwake[d] =>
                curtask[d] \in Elems(running) /\ DeviceOf(curtask[d]) = d

\* session->task_count is the number of tasks of the session that are not yet
\* freed, and mpp->task_count the number of those that were queued; hence
\* mpp_session_deinit and mpp_dev_shutdown, which wait for 0, read the truth.
CountsMatch ==
    /\ \A s \in Sessions :
         scount[s] = Cardinality({t \in Tasks : alloc[t] = "live" /\ owner[t] = s})
    /\ \A d \in Devices :
         dcount[d] = Cardinality({t \in Tasks : /\ alloc[t] = "live"
                                               /\ "PENDING" \in bits[t]
                                               /\ DeviceOf(t) = d})

\* The worker frees a session only when no task can lead to it any more, and it
\* then has no task left to abort in mpp_session_clear.
SessionOutlivesTasks ==
    /\ \A t \in Tasks : alloc[t] = "live" => sess[owner[t]] \in {"attached", "detached", "orphan"}
    /\ \A s \in Sessions : sess[s] = "freed" => spend[s] = <<>> /\ cpc[s] = "idle"

\* Every ioctl returns: the poller is released by DONE or by its own timeout.
\* (Of what follows the use of freed memory, here and below, nothing is said.)
IoctlReturns == \A s \in Sessions : cpc[s] # "idle" ~> cpc[s] = "idle" \/ stray

\* A task that was started leaves the running list, hung hardware or not.
RunningTaskEnds ==
    \A t \in Tasks : t \in Elems(running) ~> t \notin Elems(running) \/ stray

\* No wake-up of the worker is lost: every queued task is taken off the pending
\* list without a further call of any client, its poller having given up or not
\* ("if task timeout and aborted, remove it"), as long as no task has run into
\* its hardware timeout: mpp_task_timeout_work does not trigger the worker.
QueueDrains ==
    \A t \in Tasks :
        t \in Elems(qpend) ~> \/ t \notin Elems(qpend)
                              \/ \E u \in Tasks : "TIMEOUT" \in bits[u]
                              \/ stray

\* The worker comes to every released session, whatever the hardware does: it
\* is freed, or left behind with tasks that are not yet freed ("orphan").
ReleaseHandled ==
    \A s \in Sessions : sess[s] = "detached" ~> sess[s] \in {"freed", "orphan"} \/ stray

=============================================================================
