# Verification of the iSoftStone board code

TLA+ models, TLC runs and TLAPS proofs for the parts of this repository that
carry concurrent logic of their own. The repository is the board support code of
two OpenHarmony boards: *Yangfan* (Rockchip RK3399) and *Zhiyuan* (Allwinner
T507). Most of its files are vendor kernel drivers, vendored libraries and board
configuration. What is modelled here are drivers in which several threads, an
interrupt, timers and the hardware share lists, counters and reference counts,
and a storage that has to survive the loss of power.

Short paths below: `mpp/` is `yangfan/kernel/src/driv/video/rockchip/mpp/`,
`soc/` is `yangfan/kernel/src/driv/soc/`, `xr829/` is
`zhiyuan/kernel/driver/drivers/net/wireless/xr829/wlan/`.

| module | what it is |
| --- | --- |
| `KernelLists`, `KernelLists_proofs` | the kernel's linked lists as sequences (`Elems`, `NoDup`, `ListDel`, `ListKeep`), and lemmas about them |
| `MppTask` | task life cycle of the media process platform (`mpp/mpp_common.c`, driver hooks of `mpp/mpp_vdpu2.c`) |
| `MppTask_proofs` | its inductive invariant and nine theorems |
| `MppDma` | pool of imported dma buffers of one session (`mpp/mpp_iommu.c` and its callers) |
| `MppDma_proofs` | its inductive invariant and six theorems |
| `XradioQueue` | one transmit queue of the XR829 WiFi driver (`xr829/queue.c` and its callers) |
| `XradioQueue_proofs` | its inductive invariant and eight theorems |
| `XradioWsm` | host interface of the XR829: commands, bottom half, proc thread, data lock (`xr829/bh.c`, `xr829/wsm.c`) |
| `XradioWsm_proofs` | its inductive invariant and four theorems |
| `VendorTable` | item table of the vendor storage, as operators (`soc/sdmmc_vendor_storage.c`, `soc/mtd_vendor_storage.c`) |
| `VendorTable_proofs` | lemmas: what each operation on a table leaves behind, and what is read afterwards |
| `EmmcVendor` | vendor storage on eMMC (`soc/sdmmc_vendor_storage.c`); extends `VendorTable` |
| `EmmcVendor_proofs` | its inductive invariant and three theorems, the refinement of `DurableStore` among them |
| `MtdVendor` | vendor storage on NAND (`soc/mtd_vendor_storage.c`); extends `VendorTable` |
| `MtdVendor_proofs` | its inductive invariant and three theorems, the refinement of `DurableStore` among them |
| `DurableStore` | the abstract store that `EmmcVendor` and `MtdVendor` implement |
| `MCMppTask`, `MCMppDma`, `MCXradioQueue`, `MCXradioWsm`, `MCEmmcVendor`, `MCMtdVendor` | instances for TLC: symmetry sets and constant functions |

Run a configuration with `tlc -config MppTaskSafety.cfg MCMppTask`, check proofs
with `tlapm MppTask_proofs.tla`. `PROJECT.json` lists components, runs, mutants,
findings, hazards and theorems, and maps every definition to its source lines.

## 1. Inventory

### Media process platform (MPP): task life cycle

*State.* A session per opened file (device, dma session, list of pending tasks,
task counter); tasks with a reference count, state bits, abort request and a
delayed timeout work; one task queue (pending list, running list, sessions to
detach) with a kthread worker; per device the current task, a task counter,
power and the shared reset lock.

*Operations.* open, `INIT_CLIENT_TYPE`, submit, poll, `RESET_SESSION`, close; the
worker's loop; interrupt top half and thread; timeout work; device shutdown.

*Interaction.* A submitting client holds one reference for its session's list and
hands one to the queue. The worker moves a task to the running list and starts the
hardware. The interrupt and the timeout work compete for `TASK_STATE_HANDLE`; the
winner finishes the task, wakes the poller and drops the queue's reference. The
timeout is armed before the hardware is started. Closing a file puts the session on
the queue's detach list for the worker.

*Hard.* References are dropped by four threads in any order; the timer may have
fired when the interrupt claims the task; `cur_task` is left behind; one missed
trigger stops the queue; counters decide when sessions and devices may go; a timeout
may end a task that the worker has not started yet.

*Correct when* each task is freed exactly once and never reached afterwards, the
hardware is used by one task at a time, one of interrupt and timeout finishes a
task, counters are exact, ioctls return, and the queue drains.

### MPP: dma buffer pool of a session

*State.* A fixed array of slots on a used and an unused list, a count, per slot a
`dma_buf` and a reference count; the regions of each task; descriptors the client
has translated itself.

*Operations.* import (trim the pool, look up, take a reference, or take an unused
slot and map it), release by a task's last put, `TRANS_FD_TO_IOVA`, `RELEASE_FD`,
destruction with the session.

*Interaction.* Several threads of the client may be in ioctls on one session, which
takes no lock of its own; tasks release buffers from whichever thread drops them last.

*Hard.* Look-up, reference, mapping and insertion are separate steps, which two
imports may interleave and a release may fall between; eviction works on a count read
without the lock; duplicate descriptors share one slot; every step may fail.

*Correct when* no slot is lost or on two lists, a buffer is mapped once, every
reference has a holder, and what the hardware uses stays mapped.

### XR829 transmit queue

*State.* A pool of slots on three lists (`queue`, `pending`, `free_pool`), eight
kinds of counters, a generation per interface and per slot, a stop count for the
network stack, frames awaiting destruction.

*Operations.* put, get, requeue, remove, look-up by packet ID, clear, timer
expiry, deferred destruction, lock, unlock.

*Interaction.* The stack puts frames from every CPU; the proc thread gets them and
passes them to the bottom half or to a work; the firmware answers with a packet
ID, maybe long after; mac80211 may flush an interface meanwhile.

*Hard.* A confirmation for a slot that is in use again; a flush between any two
steps of the proc thread; several CPUs in `xradio_tx` when the queue fills up.

*Correct when* a packet ID never names another frame, each frame is destroyed
once, counters equal the lists, every put finds a slot, and the stack is woken.

### XR829 host interface: bottom half and WSM commands

*State.* One command slot (`wsm_cmd`) with its semaphore; `hw_bufs_used` and
`hw_bufs_used_vif`, the firmware's input buffers in use; `tx_lock`; `bh_tx` and
`bh_rx`, the lists between the two threads; event flags for each thread;
`bh_error`, which declares the interface dead.

*Operations.* `wsm_cmd_send` with its timeout, the four forms of the data lock and
their flushes, the loops `xradio_bh` and `xradio_proc`, the interrupt.

*Interaction.* A caller posts its command and wakes the bottom half, the only
thread that talks to the device. Confirmations go to the proc thread, which
writes results through `wsm_cmd.arg` into the caller's frame, completes the
command, and moves data frames from the transmit queue to `bh_tx`.

*Hard.* A command times out while its confirmation is handled; the firmware
repeats a confirmation; interrupts are missed; both threads drop requests that
they cannot serve and rely on somebody to wake them again; a flush compares
counters that another thread raises late.

*Correct when* the buffer counts are exact, a confirmation never writes through a
caller that has left, nothing is sent behind a flush, and no command, flush or
frame waits for ever.

### Vendor storage

*State.* An image in memory (`g_vendor`: version, item table, data) and its copies
on the medium: a ring of partitions on eMMC, a ring of erase blocks on NAND.

*Operations.* boot (find the newest image, or format), read, write of an item
(overwrite, grow by moving the items behind it, add) followed by a write of the
whole image.

*Interaction.* The ioctl's clients are serialised by `vendor_ops_mutex`; kernel
code calls `rk_vendor_write` without it. Both drivers register their unlocked write
(`soc/mtd_vendor_storage.c:402`, and the eMMC driver likewise).

*Hard.* Two threads that update `g_vendor` at the same time; power loss between any
two sectors or inside a program or an erase; failed transfers, bad blocks, slots that
can no longer be read; which copy the next boot takes.

*Correct when* the table stays well formed, a write is stored as a whole or not at
all, it is stored when its caller is told so, and no other item changes.

### The rest

`PROJECT.json` lists every component with the reason it is not modelled. Worth
modelling next: the message batches and the link mode of the MPP, the RGA2
blitter (`yangfan/.../rga2`), deferred free and page pools of the dma heaps, the
stream life cycle of the two HDF audio drivers, restart and suspend of the XR829,
the sunxi USB role manager. Left aside: vendored
code (Broadcom WLAN, mac80211 copy, Paho MQTT, OpenCV, SeetaFace), drivers that
are variants of kernel drivers or only program registers, and configuration.

## 2. The models

### MppTask

Variables are the fields of `mpp_session`, `mpp_task`, `mpp_taskqueue` and
`mpp_dev`, and the program counter and locals of each thread (`cpc`, `wpc`,
`ipc`, `timer`). An action is the code between two points where another thread can
see the difference: a section under one lock, or one atomic operation.

| code | actions |
| --- | --- |
| open, ioctl, close | `mpp_dev_open`, `InitClientType`, `mpp_process_task_default`, `mpp_msgs_trigger`, `PollIoctl`, `mpp_session_get_pending_task`, `WaitDone`, `WaitTimeout`, `WaitAbort`, `mpp_session_pop_pending`, `ResetSession`, `mpp_dev_release` |
| `mpp_task_worker_default` | `WorkerStart`, `mpp_taskqueue_get_pending_task`, `mpp_taskqueue_pop_pending`, `mpp_taskqueue_is_running`, `mpp_taskqueue_pending_to_run`, `mpp_task_run`, `vdpu_run`, `mpp_task_run_failed`, `mpp_session_deinit`, `WorkerEnd` |
| hardware, interrupt | `HwFinish` (the device), `mpp_dev_irq`, `mpp_task_finish`, `IsrPopRunning`, `mpp_dev_isr_sched` |
| timeout work | `TimerExpire`, `TimeoutHandle`, `mpp_task_timeout_work`, `TimeoutPopRunning` |
| use of a freed task | `UseFreed` |
| shutdown | `mpp_dev_shutdown` |

Abstractions:
- one task queue; a session is used by one thread (the code says "Do NOT poll hw
  irq when previous call not return") and sets its client type once; one task per
  ioctl; a `Tasks` element is allocated at most once, which bounds the runs;
- registers, clocks and procfs are left out, allocation failures too;
- time is abstract: a poller may give up at any moment of its wait, a timer may
  expire whenever it is armed (`HwHangs` says whether hardware may miss 200 ms);
- the top half is one step, as it runs with its interrupt masked; the worker's
  peek at the pending list and its test of the abort request are one step;
- the start of a task is two steps, `mpp_task_run` up to the armed timer and
  `vdpu_run`, which sets `cur_task` and starts the hardware. The timeout work may do
  all of its work in between; the history variable `overtaken` records that it did,
  and the model goes on: the worker then starts the ended task;
- three threads may follow a pointer to a freed task: a timeout work that was entered
  before the interrupt claimed its task, the overtaken worker, and an interrupt of the
  hardware it started. While the memory is not allocated again, they read what it last
  held (the actions above). `UseFreed` is the other case, where anything may happen:
  it sets the history variable `stray`, and the model ends;
- values nobody reads any more (`irq_status` after the thread, `cpoll` after the
  call) are reset, to keep the state space small.

### MppDma

Variables are `dma->used_list`, `unused_list`, `buffer_count`, the slots, the
regions of each task, the translations, and the place and locals (`cpc`, `ctask`,
`cfd`, `cbuf`) of each client thread. A section under `list_mutex` is one step, an
operation on a `kref` is one, and the unlocked reads are steps of their own.

| code | actions |
| --- | --- |
| `mpp_dma_import_fd` | `CheckCount` (the unlocked comparison), `mpp_dma_remove_extra_buffer`, `mpp_dma_find_buffer_fd`, `kref_get_unless_zero`, `DmaBufGetFails`, `TakeUnused`, `kref_init`, `MapFails`, `kref_get`, `mpp_dma_import_fd` (the insertion) |
| tasks | `mpp_task_init`, `mpp_task_attach_fd`, `AttachFails`, `AllocDone`, `AllocFailed`, `FreeTask`, `mpp_task_finalize` (one region per step, from a thread of its own) |
| client | `TransFd`, `ReleaseFd`, `mpp_dma_release_fd`, `ResetSession`, `mpp_dma_session_destroy` |

History variables: `evicted`, the used slots on which the pool has no reference any
more; `crossed`, the buffers that two threads imported at the same time, which may
have two slots or be taken for another buffer; `astray`, that somebody has put a
reference that was not its own. After an astray put the code follows
slots that are on a list they should not be on, so the model ends with it. It also
ends when `RESET_SESSION` frees the pool, which `session->dma` still points to.

Abstractions: `last_used` is the place in the order `aged`; a reference count that
underflows saturates, as `refcount_t` does; `RELEASE_FD` is called for a
descriptor that some thread has translated, but may find the slot of another
translation. Memory addresses, the iommu itself and buffers that the drivers allocate
for themselves are left out.

### XradioQueue

Variables have the names of the fields. Everything under `queue->lock` is one
step. The steps around the queue are those of its callers: `xradio_tx` (the frame
is on its way, before the put), `HandleTx`, `HandleByWork` and `HandleDrop` (proc
thread, after a get), `xradio_bh_get` (the frame goes to the firmware),
`ConfirmRequeue`, `xradio_queue_get_skb` and `xradio_tx_confirm_cb` (answers, in
any order), the works for probe, join and off-channel frames, and
`bh_proc_flush_txqueue` followed by `xradio_queue_clear` for a flush.

Abstractions: one of the four queues (so `link_map_cache` stands for the queue's
and for the statistics' table); frames are alike and each is sent once; expiry
takes a prefix of the list, as the code stops at the first frame not yet due; the throttle is
a constant (the code sets it by mode: 70 or 116 for a capacity of 128);
`xradio_queue_lock` is taken as long as a flush is still to come, which bounds
it; `xradio_queue_post_gc` tests and removes in one step; `queue_work` succeeds.
`DropRaces` says whether a flush may come between a get and the insertion into
`bh_tx`; see the findings.

### XradioWsm

Variables have the names of the fields; the local variables of the two loops
(`rx`, `tx`, `pending_tx`, `prx`, `ptx`) are variables too, because what a thread
forgets between two labels decides whether a wake-up is lost. `bpc` and `ppc` name
the labels.

| code | actions |
| --- | --- |
| `wsm_cmd_send` | `wsm_cmd_lock`, `wsm_cmd_send`, `CmdDone`, `CmdTimeout`, `raceCheck`, `LastChance` |
| data lock | `wsm_lock_tx`, `wsm_vif_lock_tx`, `wsm_lock_tx_async`, `FlushLater`, `wsm_flush_tx`, `FlushDrained`, `FlushTimeout`, `wsm_unlock_tx` |
| `xradio_bh` | `BhEvent`, `BhIdle`, `BhFrameTimeout`, `BhData`, `BhRead`, `BhReadLater`, `BhSend`, `xradio_bh_get`, `BhWrite`, `BhFault`, `BhEnd` |
| `xradio_proc`, network stack | `ProcWake`, `wsm_handle_rx`, `ConfirmDone`, `wsm_get_tx`, `xradio_tx` |
| firmware (external) | `FwAnswer`, `FwConfirm`, `FwRepeat` |

Abstractions: the transmit queue is a list (`XradioQueue` models it), and its
frames are of one interface; event counters that are only compared with 0 are
flags; how long a burst of reads or writes lasts is left open; the buffer
`wsm_cmd_buf` is shared by all commands, so a write sends what it holds at that
moment; the last-chance wait of 10 s outlasts any running confirmation handler.
Suspend, restart of the hardware, received data, indications and the blocking by
Bluetooth are left out; the interface stays dead once `bh_error` is set.

### Vendor storage

`VendorTable` holds the table as operators: `VendorRead`, `Fits`, `Overwrite`,
`Grow` (a `MoveDown` for each of the items behind the grown one) and `AddItem`.
Data are bytes with a mark of the write they come from, so that a read that returns
another write's bytes is seen. The drivers differ in how they compute `free_size`
after a growth: `GrownFreeSize` of each.

`EmmcVendor` writes an image sector by sector (`emmc_vendor_ops`, one transfer per
step): the first sector with the version and the table, the last with `version2`,
and one sector for all those in between, which the code treats alike. (Entries of
the table beyond the 62nd lie in the second sector; the model has them all in the
first.) An update of `g_vendor`
that nobody disturbs is one step. `Race` is the other case: a client is halfway through
its update (`Unfinished`: each part old or new, `next_index` maybe not yet wrapped) while
another one transfers a sector or enters too, and one of the two is a kernel caller. A
boot may miss a failed read of any sector but the last, as `emmc_vendor_ops` returns the
result of the last transfer only (`Misread`). Either leaves a mixture of
two images in `g_vendor`: the history variable `torn` records it and the model ends. An
update that falls between two transfers of another write is not torn; the
interleaving of the transfers that follow is in the model.

`MtdVendor` programs slots of `ops_size` bytes. A slot is erased, an image or
unreadable. `EraseNext` and `ProgramStep` may fail, `PowerLossInProgram` and
`PowerLossInErase` leave a torn slot or block, `Rot` loses a slot that could be
read. Programming a slot that is not erased leaves it unreadable. Callers follow one
another, whether they hold the mutex or not; `Race` is the step in which a kernel
caller meets another thread in `g_vendor` or in `nand_info`, whose
`page_offset` or `blk_offset` two threads may then have advanced past the end. It sets
`torn`, and the model ends.

`DurableStore` is what both promise: a write is visible at once and changes one item;
all of the memory reaches the store in one step; a caller is told so only afterwards;
power loss leaves the store. Its variable `excused` is TRUE from a failure of the
medium, or two writers at once, until a commit; `void` is TRUE for good once the
memory is spoilt (`torn`), and nothing is promised from then on. The refinement maps
`store` to what a boot would find on the present medium (the history variable
`stored`), and `excused` to the history variable `suspect`: on eMMC the partitions
that no clean write has rewritten since the last failed transfer or concurrent write;
on NAND, that a slot was programmed twice or in a block that no boot takes
(`NotTaken`), or a block's first slot, or the only copy of an image in the newest
block, was lost, and no new block has been begun. Each use of `suspect` marks a
failure that the code does not handle; power loss alone sets it only on NAND, in the
case of finding 3.

## 3. Runs

Every passing run is exhaustive. No deadlock check: tasks and frames are used up,
files get closed, and then the system rests.

| run | instance | shows |
| --- | --- | --- |
| `mpp_task_safety` | 2 sessions, 2 tasks, 2 devices on one queue, `set_grf` may fail, shutdown at any time | types, reference counts, exclusive hardware, exact counters, sessions outlive their tasks |
| `mpp_task_hang` | 1 session, 2 tasks, hardware may hang, fair | one finisher, no use after free, interrupts charged to the running task, until a timeout overtakes the worker; every ioctl returns, every running task ends, no trigger of the worker is lost, every closed session is taken up |
| `mpp_dma` | 2 threads, 3 descriptors (2 of one buffer), 2 buffers, 1 task, 2 slots, setting 1 | no slot lost or doubled, each reference has its holder and what is held stays mapped, up to the first put that is nobody's; a buffer is mapped twice only by crossing imports |
| `xradio_flight` | 3 frames, 2 interfaces, 3 slots, 1 CPU, one flush, one return | lists, counters, stop count, frames and packet IDs stay right |
| `xradio_throttle` | 6 frames, 5 slots, throttle 5, 2 CPUs | every put finds a slot; the stack is stopped and woken at the thresholds |
| `xradio_wsm` | a command or a lock, 2 frames, 3 firmware buffers, one repeated confirmation or failed transfer, fair | buffer counts, confirmation inside its call, quiet after a flush; commands and flushes return, frames are confirmed |
| `emmc_vendor` | 2 items of 1 or 3 bytes, 4 writes, 2 partitions, a locked and an unlocked client, one failed transfer, misread sector, write beside another or meeting of two | tables stay well formed; the eMMC storage implements `DurableStore` |
| `mtd_vendor` | 1 item, 3 writes, 4 blocks of 2 slots, at most one bad, one fault or meeting of two writers, fair | the free space is exact; the NAND storage implements `DurableStore`; a write ends |
| `mpp_start_race`, `mpp_dma_held`, `xradio_drop_race`, `mtd_reliable` | smaller | the four findings |

*Bounds.* Two tasks give a running task and a queued one, a task of either of two
sessions, and a task being freed while another starts; the locks and references
couple no more than two tasks at a time. Two sessions let one close while the
other works. Hanging hardware is left to the run with one session: a hang
couples tasks through the queue, not through sessions. That run cannot use
symmetry, for its liveness; `AllocatedInOrder` fixes the order in which the
interchangeable tasks are allocated. In the pool, two threads and the thread
that frees a task are three parties that take and put references; a task has at most
two registers, and a translation begins only while none is held, which
leaves two held at once where two threads begin together. Two descriptors of one buffer
give the shared region and, in two threads, the crossing imports; two slots with a
setting of one make the pool run out and evict (two used slots are above the
setting). `mpp_dma_held` has one thread, three buffers and two tasks: finding 1
needs no second thread. Three frames let a slot be
flushed and reused while an old packet is still with the firmware and another
frame of the other interface waits. The throttle run needs `(T + 2) / 2` below
`T - (CPUs - 1)`, as in the code, so that stopping and waking differ; 5 is the
smallest such value for two CPUs. In that run nothing
is written to the firmware (`MaxInFlight = 0`): the queue drains by expiry, drops
and works, which pass the same unlocking code. `MaxClears < QGenMod`: a packet
would have to survive 16 flushes for its generation to recur.

With three firmware buffers, two frames fill all that data may have, and the
command needs the one that is kept for it. `MaxCalls = 1` means that a behaviour
has one command or one lock, not both: a command never looks at `tx_lock`, and
nested locks are not covered by the run. Frames are alike and come in one order.
`RxLimit = 1` makes the bottom half meet a full
list. Align 2 with lengths 1 and 3 makes items of one unit and of two, so that an
item grows, shrinks and grows again; 9 bytes hold two grown items and no third
unit pair, and are no multiple of the unit, as in the code. Two partitions (the code has
four) are reused after two writes; the ring is longer in the code, not different.
Four blocks leave two that can be erased beside a bad one and one that fails.

*Fairness.* `FairSpec` of `MppTask`: weak fairness for a client inside an ioctl,
for the worker, for interrupt and interrupt thread, and for the timeout work: the
kernel runs every runnable thread, and `wait_event_timeout` returns after at most
its timeout. None for open, close and new calls: clients owe nothing. The
hardware is fair only where `HwHangs` is false; where it may hang, only the
timer is. Each condition says `~stray`: nothing is fair after the use of freed memory.
`FairSpec` of `XradioWsm`: weak fairness for the two threads (the
bottom half's wait ends by itself after at most 125 ms, which is what finds missed
interrupts), for a caller whose command is done, for a locker, who releases what it
holds, and for the firmware, which answers what it has. Timeouts are fair only on a
dead interface: while it lives, commands and flushes have to end without them.
`MtdVendor`: the thread in `mtd_vendor_nand_write` goes on while there is power and
`nand_info` is whole.

*Mutants.* For every property of a passing run `PROJECT.json` names an altered form
of a mapped definition, written beside it (for instance `timeout_without_test`,
`locks_late`, `any_queue_generation`), that makes TLC find that property
violated.

## 4. Findings

1. **Eviction of held buffers** (`mpp_dma_held`). Above its setting the pool drops
   a reference of its oldest buffer on each import, without recording that its own
   is gone. Two imports drop a holder's reference and unmap memory in use.
2. **Flush between get and insertion** (`xradio_drop_race`). `bh_tx` is emptied
   before the frames are freed, but the proc thread inserts an item later; it may
   then have no frame, or another one.
3. **A first slot taken for free** (`mtd_reliable`). When the power fails between
   the two copies in a new block, only slot 0 is programmed. The boot's search for
   "the next free page" cannot return anything above slot 0 for it, so the next write
   programs slot 0 again. The block is found by that slot, so later boots go back
   to an older image although the write was acknowledged.

4. **Timeout before the start** (`mpp_start_race`). The timeout work is armed before
   `dev_ops->run`. A worker preempted in between for 200 ms starts the hardware for a
   task that the timeout has ended, popped and perhaps freed, on a device that is powered
   off and whose reset lock nobody holds. As the running list is empty, the next task is
   started beside it. "Normal hardware can only accept one task at once"
   (`mpp/mpp_common.h:324`).

Read in the code, kept in the models, without a violation run of their own:

- MPP: `mpp_task_timeout_work` pops the running task without triggering the worker
  (`mpp/mpp_common.c:548`), and a poller that gives up does not trigger it either:
  a task queued behind a hung one stays until another call. `QueueDrains` makes
  that exception. The poller is woken before the interrupt thread drops its
  reference; a file closed in between leaves its session with `task_count > 0`
  (`mpp/mpp_common.c:402`), and `mpp_session_deinit` is not tried again: the
  "orphan" of `ReleaseHandled`. `mpp_task_attach_fd` admits one region more than the array
  has; `mpp_dev_irq` responds to aborted tasks, against its comment.
  A timeout work entered before the interrupt claimed its task writes a bit of a task
  that may be freed (`mpp/mpp_common.c:519`). After finding 4 the interrupt that the ended task
  raises may be charged to the task that has replaced it in `cur_task`.
- MPP pool: two threads that import one buffer at the same time map it twice, as the
  look-up and the insertion are apart and the ioctl takes no lock of the session
  (`crossed`); a slot found may be filled with another buffer before its reference is
  taken, so a thread may get another buffer than it asked for. `RESET_SESSION` frees the pool
  and leaves the pointer; a task that is still being built is not counted.
- XR829 queue: `xradio_probe_work` may hit its `SYS_BUG` when a flush has cleared
  its frame; an item generation may wrap to a packet ID 0; the loop that should
  change all generations when all interfaces are cleared does not run, as
  `XRWL_ALL_IFS` is -1.
- XR829 host interface: `hw_bufs_used_vif` is raised after the frame is written,
  so `wsm_vif_lock_tx` may return with one frame still to reach the firmware
  (`FlushQuiet` admits it); each repeated confirmation lowers `hw_bufs_used` once
  more (`BuffersMatch` counts them); a confirmation that `wsm_handle_rx` refuses ends the proc
  thread's round together with the transmit request it had taken; a last chance
  that expires is a warning only; `wsm_unlock_tx` keeps its count on a dead
  interface.
- Vendor storage: `emmc_vendor_write` ignores failed transfers and returns 0; the boot
  notices only a failed read of the last sector of its image; `rk_vendor_write` takes no
  mutex, so that a kernel caller may read `next_index` between its increment and its
  wrap (`soc/sdmmc_vendor_storage.c:208`), tear the table, or, on NAND, move
  `page_offset` past the end of a block between test and addition
  (`soc/mtd_vendor_storage.c:87`); `item_num` is never compared with the size of
  the table; the format shifts its erases by the bad blocks at the beginning, so it
  leaves the first good block as it is; a block whose first slot is lost hides
  its later images. When all further slots of a new block fail after the first copy
  went to its slot 0, the second copy begins the next block with the same version;
  the boot compares with `>` (`soc/mtd_vendor_storage.c:142`) and takes the block in
  front, so that writes acknowledged later into the newer of the two blocks are
  lost at that boot. This takes more than one fault and is the case of `NotTaken`.

## 5. Proofs

The theorems hold for every value of the constants that the named assumptions
admit: any finite sets of tasks, descriptors, callers, CPUs or links, any
sessions, devices, buffers and frames, any sizes and bounds. The assumptions
(`ConstantsAssumption`, `DmaAssumption`, `QueueAssumption`, `WsmAssumption`,
`VendorTableAssumption`, `EmmcAssumption`, `MtdAssumption`) say that
sets are finite, sizes and bounds are naturals, and `Null` is none of the objects;
`NullDiffers` and `MessagesDiffer` say the same of records, images, commands and frames. A
hypothesis beyond these is named with its theorem below.

*MppTask* (`Invariance`, `TypeCorrect`, `RefCounting`, `MemorySafety`,
`FinishedOnce`, `InterruptTarget`). All hold up to the event of finding 4: the theorems
say `[](overtaken \/ ...)`, or their property does. `overtaken` is set by one step, the
timeout work that ends a task between `mpp_task_run` and `vdpu_run`; every other
order of timer and worker is covered, a timer that expires before the start included. The
argument is one inductive invariant `Inv`, because the properties need each other: a reference
count is right only if no task is popped from the running list twice; that holds
because a task is claimed once; the interrupt claims the right task because
`cur_task` is the running task whenever an interrupt can be raised. The parts:
`SessionInv` (lists of sessions, what a client's pc says about its task),
`QueueInv` (no task on both lists, the worker's task is where its pc says),
`ClaimInv` (the order in which state bits and the timer can be set), `DeviceInv`
(which task a busy device, a pending interrupt and its thread belong to). One
lemma per action; `KrefPut`, `HolderNew`, `HolderPut` and `HolderClear` say once
what taking and dropping references does.

On top of `Inv`: `HardwareExclusion`, `CountersExact`, `SessionOutlives`. The
hardware is exclusive because the running list never gets a second entry and a
started task stays on it until it is done (`RunInv`), and power and reset lock
follow the started tasks (`PowerInv`). Counters are exact because a live task is
marked `PENDING` from its trigger on (`PendInv`), so that the put which frees a task
takes it out of both counts. A session is freed after the worker has read 0 from an
exact counter (`AliveInv`).

*MppDma* (`Invariance`, `TypeCorrect`, `PoolNeverLeaks`, `NeverMappedTwice`,
`ReferencesExact`, `BuffersStayMapped`), for any number of importing threads and every
setting of `max_buffers`. None of the properties is inductive, as an import is up to
eight steps. `ClientInv` says what a thread may rely on at each of them. `OnceInv`:
the buffer a thread is about to map has no used slot and no other thread that is about
to map it, unless it is in `crossed`; a look-up that finds nothing is what establishes
this, and the insertions of others keep it. `RefsInv` is the account of the
references, the pool's (`PoolRef`), the regions', the translations' and those in local
variables: each step changes the count as it changes the holders. It puts no
hypothesis on the setting: an eviction is the pool's put the first time (the slot
enters `evicted`), and astray the second, which is finding 1. `SameInv`: a held slot
maps the buffer it was imported for, unless the import crossed another.
`PoolConsistent` and the types hold after the astray put too, the last step of the
model.

*XradioQueue* (`Invariance`, `SlotsConserved`, `CountersExact`, `FramesFreedOnce`,
`GenerationsTell`, `LocksBalanced`, `TypeCorrect`, `StoppedWhenFull`,
`PutNeverFails`). All but `LocksBalanced` suppose `DropRaces = FALSE`; finding 2 is
what happens otherwise. That an item of `bh_tx` keeps its frame is not claimed under
that hypothesis: it is what the race is about. The parts of `Inv`: `ListInv` (each
slot on one list), `ItemInv` (a slot that is not free has a frame and a packet ID of
the current generations), `FrameInv` (where each frame is), `TokenInv` (a packet ID in
flight either has an old queue generation or names the item it was made for),
`LoneInv` (no two holders have packet IDs of the same item), `CountInv` (the
counters). `TokenInv` and `LoneInv` need each other: the removal by one holder would
make the packet ID of another dangle. They need fewer flushes than there are queue
generations (`MaxClears < QGenMod`, so that a packet ID in flight does not outlive a
round of the 4-bit counter), but place no limit on the item generations. `MatchNames`
is the heart of it: what passes the code's generation checks is in flight and is its
own frame. `WaitingExact` is a lemma on the flush, which subtracts the link counters
from the interface's: their sum is the number of frames that wait. `StoppedWhenFull`
and `PutNeverFails` suppose `unlock_threshold < lock_threshold`, and `PutNeverFails`
that the throttle fits the pool, as it does with 70 or 116 of 128 slots and few CPUs;
`RoomInv` counts the CPUs inside `xradio_tx` with the frames that are queued.

*XradioWsm* (`TypeCorrect`, `BuffersCounted`, `ConfirmSafe`,
`FlushIsQuiet`). The parts: `FlagInv` and `HandInv` (what a thread has been told to do is
there to do), `NumberInv` and `SlotInv` (the command slot belongs to the
caller that holds the semaphore, at each of its steps), `LoneInv` (without a
repeated answer at most one command is under way, after a timeout maybe an old
one), `FrameInv` (a frame is in one place until its confirmation), `BufInv` (the
buffers, also of a dead interface), `LockInv` and `QuietInv` (what a flush has left
behind while the lock is held). The types include how far repeated answers can
lower `hw_bufs_used`, one for each fault: `-MaxFaults`.

*VendorTable.* `TableInv` (items in order, one behind the other, ids unique, free
space not overestimated) and `Written` (the item written reads as written, every
other as before) are what `AddItemWrites`, `OverwriteWrites` and `GrowWrites` show
of each operation and `VendorWriteWrites` of all. The loop that moves items is a
recursive function over its rounds; `Moving` is its loop invariant, and since no
prover here can use the library's induction, `MovingAll` takes the first round in
which it fails (`MinIsLeast`, from the well-foundedness of the naturals) to a
contradiction. `ALIGN` is proved to round up and to keep the order of sizes from the
defining inequalities of the division.

*EmmcVendor* (`TypeCorrect`, `TablesStayConsistent`, `DurableStoreImplemented`).
Every image that can be accepted, also one made of sectors of several writes, has a
well-formed table (`TypeInv`). `DurableInv` adds what makes the store durable: no
accepted partition is newer than memory (`NoneNewer`), how far a clean write has come
(`CleanWrite`), what a boot would find meanwhile (`Behind`: the image before, which is
in another partition), and what a partition that has been rewritten may still hold
(`Repaired`: a last sector no later than the newest image). It needs two partitions
at least; the code has four. `WholeBoot` is the boot that reads all of its image,
`StepTorn` that every other step either keeps `g_vendor` whole or sets `torn`.

*MtdVendor* (`TypeCorrect`, `TablesStayExact`, `DurableStoreImplemented`). The
assumption is `MaxBad + MaxFaults + 2 <= BlockNum`: two blocks that can be erased
remain. `BlockInv` keeps the images of a block in the order of their versions and its
slots used from the first on; `Ready` says that the slots from the present one on are
free and hold nothing newer; `Begun` that a block which begins with the version in
memory holds nothing else. `HeadAt` is the place of the writer seen from the block a
boot would take: in it, or at the beginning of one, or on the way past `Passed`
blocks, of which those that are not bad have each cost a fault. `NotAround` is the
ring argument: so few are passed that the next block to be erased is never that one.
`NewestIs` admits ties of versions as long as the tied blocks end with the same image.
For these invariants `suspect` had to learn of `NotTaken`, which the run with one fault
does not reach.

In both, `DurableStoreImplemented` is the refinement of `DurableStore`, step by step
(`InitRefines`, one lemma per action, `StepRefines`): the first transfer or program
that a boot would find is `Commit`, a write in memory `Write`, its end `Return`,
what sets `suspect` is `Damage`, a loss of power `PowerLoss`, what sets `torn` is `Void`,
and the rest is not seen. `TypeCorrect`, `TablesStayConsistent` and `TablesStayExact` hold
until `torn`, and say so in the properties.

*Model-checked only.* Liveness (`IoctlReturns`, `RunningTaskEnds`, `QueueDrains`,
`ReleaseHandled`, `CallsReturn`, `FrameConfirmed`, `WriteEnds`), which the proof
system does not handle. Every invariant and every other action property or refinement
of a passing run is a theorem, for `MppTask` up to `overtaken`.

## 6. Not modelled, and plan

Of the modelled components: the loader ioctls of the vendor storage and
`soc/flash_vendor_storage.c`, which is the eMMC algorithm on a flash driver that is
not in the repository; suspend, resume and restart of the XR829, its received
data and indications; commands and locks at the same time, and nested locks, of
`XradioWsm`; the message batches and the link mode of the MPP. Of the repository:
the components that `PROJECT.json` lists as not modelled, each with its reason.
The models cover a small part of its two million lines, most of which are register
tables, vendored drivers and libraries; they cover drivers whose correctness depends
on the order of events.

Plan:

1. A run of `MtdVendor` with two faults beside `mtd_reliable`, for the tie of two
   blocks; the growth of `free_size` on eMMC, which only ever underestimates, bounded.
2. An abstract job queue (submitted, running, finished or aborted, freed) that
   `MppTask` implements, and the composition of `MppTask` with `MppDma`, where the
   last put of a task is the release of its buffers.
3. MPP message batches and the link mode of rkvdec2, which has its own lists.
4. RGA2 sessions; deferred free and page pools with the shrinker; HDF audio DMA;
   USB role manager.
