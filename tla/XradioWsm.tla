----------------------------- MODULE XradioWsm -----------------------------
(***************************************************************************)
(* The host interface of the XR829 driver, wlan/bh.c and wlan/wsm.c of     *)
(* zhiyuan/.../wireless/xr829: commands, data frames and confirmations     *)
(* between the host and the firmware.                                      *)
(*                                                                         *)
(* Callers of wsm_cmd_send share one command slot.  The bottom half is the *)
(* only thread that talks to the device: it counts the firmware's input    *)
(* buffers (hw_bufs_used), sends the command or the next frame of bh_tx,   *)
(* and passes confirmations to the proc thread, which completes commands   *)
(* and moves frames from the transmit queue to bh_tx.  Other threads stop  *)
(* the data with tx_lock and flush what is under way.                      *)
(*                                                                         *)
(* As built: BH_PROC_THREAD, no BH_USE_SEMAPHORE.  The transmit queue is   *)
(* module XradioQueue's; here it is a list.  Event counters (bh_rx, bh_tx, *)
(* proc_tx) are only compared with 0 and are flags; how long a burst lasts *)
(* is left open.  Suspend, restart and received data are left out.         *)
(***************************************************************************)
EXTENDS Integers, Sequences, FiniteSets, KernelLists

CONSTANTS
    Callers,      \* threads that send commands
    Ids,          \* command ids
    Frames,       \* data frames, each submitted once
    Lockers,      \* threads that lock the data path
    numInpChBufs, \* wsm_caps.numInpChBufs, the firmware's input buffers
    RxLimit,      \* rx_queued at which the bottom half stops reading
    MaxCalls,     \* bound of the commands and locks, together
    MaxFaults,    \* bound of failed transfers and repeated answers, together
    Null

ASSUME WsmAssumption ==
    /\ numInpChBufs \in Nat \ {0, 1}
    /\ RxLimit \in Nat \ {0}
    /\ MaxCalls \in Nat /\ MaxFaults \in Nat
    /\ IsFiniteSet(Frames) /\ IsFiniteSet(Lockers)
    /\ Null \notin Callers /\ Null \notin Ids /\ Null \notin Frames

VARIABLES
    wsm_cmd,      \* the slot: ptr, arg, cmd, done
    wsm_cmd_sema, \* the caller that holds it, or Null
    cpc,          \* where a caller is in wsm_cmd_send
    fresh,        \* frames the network stack has not submitted
    queue,        \* frames in the transmit queue
    bhtx,         \* proc.bh_tx: frames for the bottom half
    pending,      \* frames got from the queue and not yet confirmed
    used,         \* hw_bufs_used
    usedVif,      \* hw_bufs_used_vif of the frames' interface
    tx_lock,
    lpc, lkind,   \* a locker, and which of the functions it called
    quiet,        \* the locker's flush has returned true
    bpc,          \* where the bottom half is
    rx, tx, pending_tx,   \* its local variables, as flags
    ctrl,         \* ctrl_reg announces a message
    inhand,       \* the message it is about to write
    bh_rx, bh_tx, bh_error,
    asleep,       \* device_can_sleep
    rxq,          \* proc.bh_rx: confirmations for the proc thread
    ppc,          \* where the proc thread is
    prx, ptx,     \* its local variables rx and tx
    confirm,      \* the confirmation it handles, and wsm_arg
    proc_tx,
    atfw,         \* messages the firmware has and has not answered
    fwout,        \* its answers not yet read
    last,         \* the last command it answered
    calls, repeats, faults   \* bounded counters

cmdVars == <<wsm_cmd, wsm_cmd_sema, cpc>>
dataVars == <<fresh, queue, bhtx, pending>>
bufVars == <<used, usedVif>>
lockVars == <<tx_lock, lpc, lkind, quiet, calls>>
bhVars == <<bpc, rx, tx, pending_tx, ctrl, inhand, asleep>>
flagVars == <<bh_rx, bh_tx, bh_error>>
procVars == <<ppc, prx, ptx, confirm>>
fwVars == <<atfw, fwout, last, repeats>>
vars == <<cmdVars, dataVars, bufVars, lockVars, bhVars, flagVars, rxq, procVars,
          proc_tx, fwVars, faults>>

Cmd(c, i) == [by |-> c, id |-> i, no |-> calls]
Commands == [by : Callers, id : Ids, no : 1 .. MaxCalls]
NoCmd == [ptr |-> Null, arg |-> Null, cmd |-> Null, done |-> FALSE]
Taken == "0xFFFF"

\* A confirmation that is handled: its command, and the wsm_arg it writes through.
Handled == [cmd : Commands, arg : Callers \cup {Null}]

\* Commands and frames are told apart by their message id; 0xFFFF is no id, and
\* Null is nothing else.
ASSUME MessagesDiffer ==
    /\ Commands \cap Frames = {} /\ Null \notin Commands \cup Handled
    /\ Taken \notin Ids \cup {Null}

Init ==
    /\ wsm_cmd = NoCmd /\ wsm_cmd_sema = Null
    /\ cpc = [c \in Callers |-> "idle"]
    /\ fresh = Frames /\ queue = <<>> /\ bhtx = <<>> /\ pending = {}
    /\ used = 0 /\ usedVif = 0
    /\ tx_lock = 0
    /\ lpc = [l \in Lockers |-> "idle"]
    /\ lkind = [l \in Lockers |-> Null]
    /\ quiet = [l \in Lockers |-> FALSE]
    /\ bpc = "wait" /\ rx = FALSE /\ tx = FALSE /\ pending_tx = FALSE
    /\ ctrl = FALSE /\ inhand = Null /\ asleep = FALSE
    /\ bh_rx = FALSE /\ bh_tx = FALSE /\ bh_error = FALSE
    /\ rxq = <<>>
    /\ ppc = "wait" /\ prx = FALSE /\ ptx = FALSE /\ confirm = Null
    /\ proc_tx = FALSE
    /\ atfw = {} /\ fwout = <<>> /\ last = Null
    /\ calls = 0 /\ repeats = 0 /\ faults = 0

\* Both do nothing on a dead interface.
xradio_bh_wakeup == bh_tx' = (bh_tx \/ ~bh_error)
xradio_irq_handler == bh_rx' = (bh_rx \/ ~bh_error)

-----------------------------------------------------------------------------
(***************************************************************************)
(* wsm_cmd_send.                                                           *)
(***************************************************************************)

\* The caller takes wsm_cmd_sema and fills the shared buffer.
wsm_cmd_lock(c) ==
    /\ cpc[c] = "idle" /\ wsm_cmd_sema = Null /\ calls < MaxCalls
    /\ wsm_cmd_sema' = c
    /\ cpc' = [cpc EXCEPT ![c] = "send"]
    /\ calls' = calls + 1
    /\ UNCHANGED <<wsm_cmd, dataVars, bufVars, tx_lock, lpc, lkind, quiet, bhVars,
                   flagVars, rxq, procVars, proc_tx, fwVars, faults>>

\* The end of wsm_cmd_send and the caller's wsm_cmd_unlock.
Return(c) ==
    /\ cpc' = [cpc EXCEPT ![c] = "idle"]
    /\ wsm_cmd_sema' = Null

\* Post the command, unless the bottom half is dead.
wsm_cmd_send(c, i) ==
    /\ cpc[c] = "send"
    /\ IF bh_error
       THEN Return(c) /\ UNCHANGED <<wsm_cmd, bh_tx>>
       ELSE /\ wsm_cmd' = [ptr |-> Cmd(c, i), arg |-> c, cmd |-> i, done |-> FALSE]
            /\ xradio_bh_wakeup
            /\ cpc' = [cpc EXCEPT ![c] = "wait"]
            /\ UNCHANGED wsm_cmd_sema
    /\ UNCHANGED <<dataVars, bufVars, lockVars, bhVars, bh_rx, bh_error, rxq,
                   procVars, proc_tx, fwVars, faults>>

CmdDone(c) ==
    /\ cpc[c] = "wait" /\ wsm_cmd.done
    /\ Return(c)
    /\ UNCHANGED <<wsm_cmd, dataVars, bufVars, lockVars, bhVars, flagVars,
                   rxq, procVars, proc_tx, fwVars, faults>>

\* The timeout has passed and done was read as 0, without the lock.
CmdTimeout(c) ==
    /\ cpc[c] = "wait" /\ ~wsm_cmd.done
    /\ cpc' = [cpc EXCEPT ![c] = "timeout"]
    /\ UNCHANGED <<wsm_cmd, wsm_cmd_sema, dataVars, bufVars, lockVars, bhVars,
                   flagVars, rxq, procVars, proc_tx, fwVars, faults>>

\* Altered form: the race with the confirmation is not looked at.
no_race_check(c) ==
    /\ cpc[c] = "timeout"
    /\ wsm_cmd' = [wsm_cmd EXCEPT !.arg = Null, !.ptr = Null]
    /\ Return(c) /\ bh_error' = TRUE
    /\ UNCHANGED <<dataVars, bufVars, lockVars, bhVars, bh_rx, bh_tx, rxq,
                   procVars, proc_tx, fwVars, faults>>

\* raceCheck: withdraw the command; when its confirmation is being handled,
\* wait for the end of that, otherwise kill the bottom half and return.
raceCheck(c) ==
    /\ cpc[c] = "timeout"
    /\ wsm_cmd' = [wsm_cmd EXCEPT !.arg = Null, !.ptr = Null]
    /\ IF wsm_cmd.cmd = Taken
       THEN /\ cpc' = [cpc EXCEPT ![c] = "last"]
            /\ UNCHANGED <<wsm_cmd_sema, bh_error>>
       ELSE Return(c) /\ bh_error' = TRUE
    /\ UNCHANGED <<dataVars, bufVars, lockVars, bhVars, bh_rx, bh_tx, rxq,
                   procVars, proc_tx, fwVars, faults>>

\* WSM_CMD_LAST_CHANCE_TIMEOUT (10 s) is longer than any confirmation handler
\* takes; it only expires (SYS_BUG, a warning) when no handler runs.
LastChance(c) ==
    /\ cpc[c] = "last"
    /\ wsm_cmd.done \/ ppc # "confirm"
    /\ Return(c) /\ bh_error' = TRUE
    /\ UNCHANGED <<wsm_cmd, dataVars, bufVars, lockVars, bhVars, bh_rx,
                   bh_tx, rxq, procVars, proc_tx, fwVars, faults>>

-----------------------------------------------------------------------------
(***************************************************************************)
(* The data path's lock.                                                   *)
(***************************************************************************)

\* tx_lock_sem is held from the increment to the end of the flush.
SemFree == \A l \in Lockers : ~ (lpc[l] \in {"flush", "drain"} /\ lkind[l] # "async")

\* Altered form: the lock is taken and not counted.
lock_uncounted(l, kind, pc) ==
    /\ lpc[l] = "idle" /\ calls < MaxCalls
    /\ calls' = calls + 1
    /\ lpc' = [lpc EXCEPT ![l] = pc]
    /\ lkind' = [lkind EXCEPT ![l] = kind]
    /\ UNCHANGED <<cmdVars, dataVars, bufVars, tx_lock, quiet, bhVars, flagVars, rxq,
                   procVars, proc_tx, fwVars, faults>>

\* Count the lock; then flush, or go on with it held.
Lock(l, kind, pc) ==
    /\ lpc[l] = "idle" /\ calls < MaxCalls
    /\ calls' = calls + 1
    /\ tx_lock' = tx_lock + 1
    /\ lpc' = [lpc EXCEPT ![l] = pc]
    /\ lkind' = [lkind EXCEPT ![l] = kind]
    /\ UNCHANGED <<cmdVars, dataVars, bufVars, quiet, bhVars, flagVars, rxq,
                   procVars, proc_tx, fwVars, faults>>

wsm_lock_tx(l) == SemFree /\ Lock(l, "all", "flush")

\* Flushes only if nobody else has the lock.
wsm_vif_lock_tx(l) == SemFree /\ Lock(l, "vif", IF tx_lock = 0 THEN "flush" ELSE "held")

wsm_lock_tx_async(l) == Lock(l, "async", "held")

\* wsm_flush_tx of a holder that locked without a flush (ap.c, scan.c, sta.c).
FlushLater(l) ==
    /\ lpc[l] = "held" /\ lkind[l] = "async" /\ ~quiet[l]
    /\ lpc' = [lpc EXCEPT ![l] = "flush"]
    /\ UNCHANGED <<cmdVars, dataVars, bufVars, tx_lock, lkind, quiet, calls, bhVars,
                   flagVars, rxq, procVars, proc_tx, fwVars, faults>>

BufsUsed(l) == IF lkind[l] = "vif" THEN usedVif ELSE used

FlushEnds(l, result) ==
    /\ lpc' = [lpc EXCEPT ![l] = "held"]
    /\ quiet' = [quiet EXCEPT ![l] = result]

\* "First check if we really need to do something."
wsm_flush_tx(l) ==
    /\ lpc[l] = "flush"
    /\ CASE BufsUsed(l) = 0 -> FlushEnds(l, TRUE)
         [] BufsUsed(l) # 0 /\ bh_error -> FlushEnds(l, FALSE)
         [] OTHER -> lpc' = [lpc EXCEPT ![l] = "drain"] /\ UNCHANGED quiet
    /\ UNCHANGED <<cmdVars, dataVars, bufVars, tx_lock, lkind, calls, bhVars,
                   flagVars, rxq, procVars, proc_tx, fwVars, faults>>

\* The wait ends with no buffer in use, or with no frame pending.
FlushDrained(l) ==
    /\ lpc[l] = "drain"
    /\ BufsUsed(l) = 0 \/ pending = {}
    /\ FlushEnds(l, TRUE)
    /\ UNCHANGED <<cmdVars, dataVars, bufVars, tx_lock, lkind, calls, bhVars,
                   flagVars, rxq, procVars, proc_tx, fwVars, faults>>

\* "Frame had stuck in firmware."
FlushTimeout(l) ==
    /\ lpc[l] = "drain" /\ BufsUsed(l) # 0 /\ pending # {}
    /\ bh_error' = TRUE
    /\ FlushEnds(l, FALSE)
    /\ UNCHANGED <<cmdVars, dataVars, bufVars, tx_lock, lkind, calls, bhVars,
                   bh_rx, bh_tx, rxq, procVars, proc_tx, fwVars, faults>>

\* Altered form: the last holder wakes nobody.
unlock_without_wakeup(l) ==
    /\ lpc[l] = "held"
    /\ lpc' = [lpc EXCEPT ![l] = "idle"]
    /\ lkind' = [lkind EXCEPT ![l] = Null]
    /\ quiet' = [quiet EXCEPT ![l] = FALSE]
    /\ tx_lock' = tx_lock - 1
    /\ UNCHANGED <<cmdVars, dataVars, bufVars, calls, bhVars, flagVars, rxq,
                   procVars, proc_tx, fwVars, faults>>

\* "bh_error, wsm_unlock_tx is unsafe": the count stays.
wsm_unlock_tx(l) ==
    /\ lpc[l] = "held"
    /\ lpc' = [lpc EXCEPT ![l] = "idle"]
    /\ lkind' = [lkind EXCEPT ![l] = Null]
    /\ quiet' = [quiet EXCEPT ![l] = FALSE]
    /\ tx_lock' = IF bh_error THEN tx_lock ELSE tx_lock - 1
    /\ IF tx_lock' = 0
       THEN proc_tx' = TRUE /\ xradio_bh_wakeup
       ELSE UNCHANGED <<proc_tx, bh_tx>>
    /\ UNCHANGED <<cmdVars, dataVars, bufVars, calls, bhVars, bh_rx, bh_error, rxq,
                   procVars, fwVars, faults>>

-----------------------------------------------------------------------------
(***************************************************************************)
(* The bottom half, xradio_bh.  bpc names the label or the step:           *)
(*   wait   the top of the loop          data   data_proc                  *)
(*   rx     rx                           tx     tx                         *)
(*   get    a buffer is allocated        write  a message is in hand       *)
(*   end    after tx                     dead   left the loop              *)
(***************************************************************************)

bhRest == <<cmdVars, dataVars, lockVars, rxq, procVars, proc_tx, fwVars, faults>>

Dies == bpc' = "dead" /\ bh_error' = TRUE

\* The wait is over because of an event.
BhEvent ==
    /\ bpc = "wait" /\ (bh_rx \/ bh_tx \/ bh_error)
    /\ rx' = bh_rx /\ tx' = bh_tx
    /\ bh_rx' = FALSE /\ bh_tx' = FALSE
    /\ bpc' = IF bh_error THEN "dead" ELSE "data"
    /\ UNCHANGED <<bhRest, bufVars, pending_tx, ctrl, inhand, asleep, bh_error>>

\* Altered form: a missed interrupt is not looked for.
idle_without_look ==
    /\ bpc = "wait" /\ ~bh_rx /\ ~bh_tx /\ ~bh_error
    /\ tx' = FALSE
    /\ bpc' = IF pending_tx THEN "data" ELSE "wait"
    /\ UNCHANGED <<bhRest, bufVars, rx, pending_tx, ctrl, inhand, asleep, flagVars>>

\* The wait of 62 or 125 ms is over: look for a missed interrupt; with buffers
\* in use, read again; an idle device is put to sleep.
BhIdle ==
    /\ bpc = "wait" /\ ~bh_rx /\ ~bh_tx /\ ~bh_error
    /\ ctrl' = (fwout # <<>>)
    /\ rx' = (ctrl' \/ used > 0) /\ tx' = FALSE
    /\ IF rx' \/ pending_tx
       THEN bpc' = "data" /\ UNCHANGED asleep
       ELSE bpc' = "wait" /\ asleep' \in {asleep, TRUE}
    /\ UNCHANGED <<bhRest, bufVars, pending_tx, inhand, flagVars>>

\* The oldest pending frame has not been confirmed in time.
BhFrameTimeout ==
    /\ bpc = "wait" /\ ~bh_rx /\ ~bh_tx /\ fwout = <<>> /\ used > 0 /\ pending # {}
    /\ Dies
    /\ UNCHANGED <<bhRest, bufVars, rx, tx, pending_tx, ctrl, inhand, asleep, bh_rx,
                   bh_tx>>

\* data_proc: is there something to read?
BhData ==
    /\ bpc = "data"
    /\ bh_rx' = FALSE
    /\ ctrl' = (ctrl \/ ((rx \/ bh_rx) /\ fwout # <<>>))
    /\ rx' = ((rx \/ bh_rx) /\ ctrl')
    /\ bpc' = CASE bh_error -> "dead" [] ~bh_error /\ rx' -> "rx" [] OTHER -> "tx"
    /\ UNCHANGED <<bhRest, bufVars, tx, pending_tx, inhand, asleep, bh_tx, bh_error>>

\* Altered form: a confirmation of several frames frees one buffer.
release_one(n) ==
    /\ used' = used - 1
    /\ IF used >= numInpChBufs - 1
       THEN tx' = TRUE /\ proc_tx' = TRUE
       ELSE UNCHANGED <<tx, proc_tx>>

\* wsm_release_tx_buffer for n confirmed messages: transmission has stopped at
\* all but one buffers in use, and is started again.
ReleaseBuffers(n) ==
    /\ used' = used - n
    /\ IF used >= numInpChBufs - 1
       THEN tx' = TRUE /\ proc_tx' = TRUE
       ELSE UNCHANGED <<tx, proc_tx>>

\* xradio_bh_put: a command's confirmation overtakes the frames'.
xradio_bh_put(m) == rxq' = IF m.cmd # Null THEN <<m>> \o rxq ELSE Append(rxq, m)

\* rx: read a confirmation, of a command or of one or several frames, and free
\* its buffers; then read on (in a burst) or send.
BhRead ==
    LET m == Head(fwout)
        n == IF m.cmd # Null THEN 1 ELSE Cardinality(m.frames)
    IN
    /\ bpc = "rx" /\ Len(rxq) < RxLimit
    /\ fwout' = Tail(fwout)
    /\ ctrl' = (fwout' # <<>>)
    /\ rx' = ctrl'
    /\ usedVif' = usedVif - Cardinality(m.frames)
    /\ ReleaseBuffers(n)
    /\ IF used' < 0
       THEN Dies /\ UNCHANGED rxq
       ELSE /\ xradio_bh_put(m)
            /\ bpc' \in {"tx"} \cup (IF ctrl' THEN {"rx"} ELSE {})
            /\ UNCHANGED bh_error
    /\ UNCHANGED <<cmdVars, dataVars, lockVars, procVars, atfw, last, repeats,
                   faults, pending_tx, inhand, asleep, bh_rx, bh_tx>>

\* "Too many rx packets, proc cannot handle in time!"
BhReadLater ==
    /\ bpc = "rx" /\ Len(rxq) >= RxLimit
    /\ bpc' = "tx"
    /\ UNCHANGED <<bhRest, bufVars, rx, tx, pending_tx, ctrl, inhand, asleep,
                   flagVars>>

tx_allowed == used < numInpChBufs

\* tx: with something to send and a free buffer, allocate the buffer (waking
\* the device first, which may have a message to be read before); otherwise
\* remember the request.
BhSend ==
    LET want == tx \/ pending_tx \/ bh_tx \/ bhtx # <<>> IN
    /\ bpc = "tx"
    /\ bh_tx' = FALSE
    /\ tx' = want
    /\ IF want /\ tx_allowed
       THEN /\ pending_tx' = FALSE
            /\ \/ /\ asleep' = FALSE
                  /\ used' = used + 1
                  /\ bpc' = "get"
                  /\ UNCHANGED <<rx, ctrl>>
               \/ /\ asleep /\ fwout # <<>>
                  /\ rx' = TRUE /\ ctrl' = TRUE
                  /\ bpc' = "data"
                  /\ UNCHANGED <<asleep, used>>
       ELSE /\ pending_tx' = want
            /\ bpc' = "end"
            /\ UNCHANGED <<asleep, used, rx, ctrl>>
    /\ UNCHANGED <<bhRest, usedVif, inhand, bh_rx, bh_error>>

\* Altered form: tx_lock is not looked at.
get_although_locked == bhtx # <<>> /\ used < numInpChBufs

\* A frame may go: no lock, and one buffer is kept for commands.
MaySendData == bhtx # <<>> /\ tx_lock = 0 /\ used < numInpChBufs

\* xradio_bh_get: the command first, then the next frame; the buffer is given
\* back when there is neither.
xradio_bh_get ==
    /\ bpc = "get"
    /\ IF wsm_cmd.ptr # Null \/ MaySendData
       THEN /\ bpc' = "write"
            /\ UNCHANGED <<used, tx>>
            /\ IF wsm_cmd.ptr # Null
               THEN inhand' = wsm_cmd.ptr /\ UNCHANGED bhtx
               ELSE inhand' = Head(bhtx) /\ bhtx' = Tail(bhtx)
       ELSE /\ bpc' = "end"
            /\ used' = used - 1 /\ tx' = FALSE
            /\ UNCHANGED <<inhand, bhtx>>
    /\ UNCHANGED <<cmdVars, fresh, queue, pending, usedVif, lockVars, rx, pending_tx, ctrl,
                   asleep, flagVars, rxq, procVars, proc_tx, fwVars, faults>>

\* xradio_data_write and wsm_txed.  All commands are built in one buffer: what
\* goes out is what it holds now, and any command at that address is taken for
\* sent.  Then send on (in a burst), or go on.
BhWrite ==
    /\ bpc = "write"
    /\ atfw' = atfw \cup {IF inhand \in Commands /\ wsm_cmd.ptr # Null
                          THEN wsm_cmd.ptr ELSE inhand}
    /\ IF inhand \in Frames
       THEN usedVif' = usedVif + 1 /\ UNCHANGED wsm_cmd
       ELSE wsm_cmd' = [wsm_cmd EXCEPT !.ptr = Null] /\ UNCHANGED usedVif
    /\ inhand' = Null
    /\ bh_tx' = TRUE
    /\ bpc' \in {"end"} \cup (IF numInpChBufs - used > 1 THEN {"tx"} ELSE {})
    /\ UNCHANGED <<wsm_cmd_sema, cpc, dataVars, used, lockVars, rx, tx,
                   pending_tx, ctrl, asleep, bh_rx, bh_error, rxq, procVars, proc_tx,
                   fwout, last, repeats, faults>>

\* A transfer fails, or the sleeping device does not wake up: the bottom half
\* gives the buffer back and dies.
BhFault ==
    /\ bpc \in {"rx", "write"} \/ (bpc = "tx" /\ asleep)
    /\ faults + repeats < MaxFaults
    /\ faults' = faults + 1
    /\ used' = IF bpc = "write" THEN used - 1 ELSE used
    /\ inhand' = Null
    /\ Dies
    /\ UNCHANGED <<cmdVars, dataVars, usedVif, lockVars, rx, tx, pending_tx, ctrl,
                   asleep, bh_rx, bh_tx, rxq, procVars, proc_tx, fwVars>>

\* The end of a round: read what is announced; with more to send, go round
\* again as long as there is a buffer beyond the reserved one, or after looking
\* at the device; otherwise wait.
BhEnd ==
    LET again == tx \/ bh_tx
        full == again /\ used >= numInpChBufs - 1
    IN
    /\ bpc = "end"
    /\ ctrl' = (ctrl \/ (full /\ fwout # <<>>))
    /\ bh_tx' = (bh_tx /\ ctrl)
    /\ bh_rx' = (bh_rx /\ (ctrl \/ ~full))
    /\ rx' = (rx \/ ctrl')
    /\ tx' = IF ctrl' THEN tx ELSE again
    /\ bpc' = IF ctrl' \/ (again /\ used < numInpChBufs) THEN "data" ELSE "wait"
    /\ UNCHANGED <<bhRest, bufVars, pending_tx, inhand, asleep, bh_error>>

-----------------------------------------------------------------------------
(***************************************************************************)
(* The proc thread, xradio_proc, and the network stack.                    *)
(***************************************************************************)

procRest == <<wsm_cmd_sema, cpc, bufVars, lockVars, bhVars, bh_rx, bh_error,
              fwVars, faults>>

\* xradio_tx: put a frame and wake the proc thread.  Frames are alike and come
\* in one order.
xradio_tx ==
    LET f == CHOOSE x \in fresh : TRUE IN
    /\ fresh # {}
    /\ fresh' = fresh \ {f}
    /\ queue' = Append(queue, f)
    /\ proc_tx' = TRUE
    /\ UNCHANGED <<procRest, wsm_cmd, bhtx, pending, bh_tx, rxq, procVars>>

\* The next step of the thread's loop; it waits when there is no rx and no tx.
Loop(r, t) == IF r THEN "rx" ELSE IF t THEN "tx" ELSE "wait"

\* The condition of its wait takes proc_tx.
ProcWake ==
    /\ ppc = "wait" /\ (rxq # <<>> \/ proc_tx) /\ ~bh_error
    /\ prx' = (rxq # <<>>) /\ ptx' = proc_tx
    /\ proc_tx' = FALSE
    /\ ppc' = Loop(prx', ptx')
    /\ UNCHANGED <<procRest, wsm_cmd, dataVars, bh_tx, rxq, confirm>>

\* Take the next confirmation.  Frames: they leave the queue.  A command: take
\* wsm_arg and mark the slot ("protection against repeated response"); when the
\* id is not the slot's, the handler fails, which ends the round with whatever
\* was to be sent.
wsm_handle_rx ==
    LET m == Head(rxq) IN
    /\ ppc = "rx"
    /\ rxq' = Tail(rxq)
    /\ prx' = (rxq' # <<>>)
    /\ IF m.cmd = Null
       THEN /\ pending' = pending \ m.frames
            /\ ppc' = IF ptx THEN "tx" ELSE Loop(prx', FALSE)
            /\ UNCHANGED <<wsm_cmd, confirm, ptx>>
       ELSE /\ wsm_cmd' = [wsm_cmd EXCEPT !.cmd = Taken]
            /\ IF m.cmd.id = wsm_cmd.cmd
               THEN /\ confirm' = [cmd |-> m.cmd, arg |-> wsm_cmd.arg]
                    /\ ppc' = "confirm"
                    /\ UNCHANGED ptx
               ELSE /\ ppc' = "wait" /\ ptx' = FALSE
                    /\ UNCHANGED confirm
            /\ UNCHANGED pending
    /\ UNCHANGED <<procRest, fresh, queue, bhtx, bh_tx, proc_tx>>

\* The handler has stored the result through wsm_arg: complete the command.
ConfirmDone ==
    /\ ppc = "confirm"
    /\ wsm_cmd' = [wsm_cmd EXCEPT !.done = TRUE]
    /\ confirm' = Null
    /\ ppc' = IF ptx THEN "tx" ELSE Loop(prx, FALSE)
    /\ UNCHANGED <<procRest, dataVars, bh_tx, rxq, prx, ptx, proc_tx>>

\* wsm_get_tx, and the frame goes to bh_tx.
wsm_get_tx ==
    /\ ppc = "tx"
    /\ IF queue # <<>> /\ tx_lock = 0 /\ used < numInpChBufs
       THEN /\ queue' = Tail(queue)
            /\ bhtx' = Append(bhtx, Head(queue))
            /\ pending' = pending \cup {Head(queue)}
            /\ IF bhtx = <<>> THEN xradio_bh_wakeup ELSE UNCHANGED bh_tx
            /\ UNCHANGED ptx
       ELSE /\ ptx' = FALSE
            /\ UNCHANGED <<queue, bhtx, pending, bh_tx>>
    /\ ppc' = Loop(prx, ptx')
    /\ UNCHANGED <<procRest, wsm_cmd, fresh, rxq, prx, confirm, proc_tx>>

-----------------------------------------------------------------------------
(***************************************************************************)
(* The firmware (external): it answers in any order, several frames at     *)
(* once if it likes, may repeat an answer, and its interrupt may be missed *)
(* ("Check if miss interrupt").                                            *)
(***************************************************************************)

Answer(m) ==
    /\ fwout' = Append(fwout, m)
    /\ xradio_irq_handler \/ UNCHANGED bh_rx
    /\ UNCHANGED <<cmdVars, dataVars, bufVars, lockVars, bhVars, bh_tx, bh_error,
                   rxq, procVars, proc_tx, faults>>

FwAnswer ==
    \E m \in atfw \ Frames :
        /\ atfw' = atfw \ {m} /\ last' = m
        /\ Answer([cmd |-> m, frames |-> {}])
        /\ UNCHANGED repeats

FwConfirm ==
    \E S \in SUBSET (atfw \cap Frames) \ {{}} :
        /\ atfw' = atfw \ S
        /\ Answer([cmd |-> Null, frames |-> S])
        /\ UNCHANGED <<last, repeats>>

FwRepeat ==
    /\ last # Null /\ faults + repeats < MaxFaults
    /\ repeats' = repeats + 1
    /\ Answer([cmd |-> last, frames |-> {}])
    /\ UNCHANGED <<atfw, last>>

-----------------------------------------------------------------------------
Caller(c) ==
    \/ wsm_cmd_lock(c)
    \/ \E i \in Ids : wsm_cmd_send(c, i)
    \/ CmdDone(c)
    \/ CmdTimeout(c)
    \/ raceCheck(c)
    \/ LastChance(c)

Locker(l) ==
    \/ wsm_lock_tx(l)
    \/ wsm_vif_lock_tx(l)
    \/ wsm_lock_tx_async(l)
    \/ FlushLater(l)
    \/ wsm_flush_tx(l)
    \/ FlushDrained(l)
    \/ FlushTimeout(l)
    \/ wsm_unlock_tx(l)

BottomHalf ==
    \/ BhEvent
    \/ BhIdle
    \/ BhData
    \/ BhRead
    \/ BhReadLater
    \/ BhSend
    \/ xradio_bh_get
    \/ BhWrite
    \/ BhEnd

Proc == ProcWake \/ wsm_handle_rx \/ ConfirmDone \/ wsm_get_tx

Firmware == FwAnswer \/ FwConfirm

Next ==
    \/ \E c \in Callers : Caller(c)
    \/ \E l \in Lockers : Locker(l)
    \/ xradio_tx
    \/ BottomHalf
    \/ BhFrameTimeout
    \/ BhFault
    \/ Proc
    \/ Firmware
    \/ FwRepeat

Spec == Init /\ [][Next]_vars

(***************************************************************************)
(* Fairness.  The threads run (the bottom half's wait ends by itself after *)
(* 125 ms), a holder of the lock releases it, and the firmware answers.    *)
(* No timeout needs to happen while the interface is alive: a command has  *)
(* to be completed by its confirmation, a flush by the last one.           *)
(***************************************************************************)

FairSpec ==
    /\ Spec
    /\ WF_vars(BottomHalf) /\ WF_vars(Proc) /\ WF_vars(Firmware)
    /\ \A c \in Callers :
         /\ WF_vars(\E i \in Ids : wsm_cmd_send(c, i))
         /\ WF_vars(CmdDone(c) \/ raceCheck(c) \/ LastChance(c))
         /\ WF_vars(bh_error /\ CmdTimeout(c))
    /\ \A l \in Lockers :
         /\ WF_vars(wsm_flush_tx(l) \/ FlushDrained(l) \/ wsm_unlock_tx(l))
         /\ WF_vars(bh_error /\ FlushTimeout(l))

-----------------------------------------------------------------------------
(***************************************************************************)
(* Properties.                                                             *)
(***************************************************************************)

Messages == Commands \cup Frames
Confirmations == [cmd : Commands, frames : {{}}]
                 \cup [cmd : {Null}, frames : SUBSET Frames \ {{}}]

\* Every variable has the values of its C type, and no more of the firmware's
\* buffers are in use than it has; each answer that is repeated takes one away.
TypeOK ==
    /\ wsm_cmd \in [ptr : Commands \cup {Null}, arg : Callers \cup {Null},
                    cmd : Ids \cup {Null, Taken}, done : BOOLEAN]
    /\ wsm_cmd_sema \in Callers \cup {Null}
    /\ cpc \in [Callers -> {"idle", "send", "wait", "timeout", "last"}]
    /\ fresh \subseteq Frames /\ pending \subseteq Frames
    /\ queue \in Seq(Frames) /\ bhtx \in Seq(Frames)
    /\ used \in -MaxFaults .. numInpChBufs /\ usedVif \in 0 .. Cardinality(Frames)
    /\ tx_lock \in 0 .. MaxCalls
    /\ lpc \in [Lockers -> {"idle", "flush", "drain", "held"}]
    /\ lkind \in [Lockers -> {Null, "all", "vif", "async"}]
    /\ quiet \in [Lockers -> BOOLEAN]
    /\ bpc \in {"wait", "data", "rx", "tx", "get", "write", "end", "dead"}
    /\ {rx, tx, pending_tx, ctrl, asleep, bh_rx, bh_tx, bh_error} \subseteq BOOLEAN
    /\ inhand \in Messages \cup {Null}
    /\ rxq \in Seq(Confirmations) /\ fwout \in Seq(Confirmations)
    /\ ppc \in {"wait", "rx", "confirm", "tx"}
    /\ {prx, ptx, proc_tx} \subseteq BOOLEAN
    /\ confirm \in Handled \cup {Null}
    /\ atfw \subseteq Messages /\ last \in Commands \cup {Null}
    /\ calls \in 0 .. MaxCalls
    /\ repeats \in 0 .. MaxFaults /\ faults \in 0 .. MaxFaults

FramesIn(out) == UNION {out[k].frames : k \in DOMAIN out}
CommandsIn(out) == Cardinality({k \in DOMAIN out : out[k].cmd # Null})

\* While the interface lives, hw_bufs_used is what the firmware has or has
\* answered unread, plus the message being sent, less the repeated answers;
\* hw_bufs_used_vif is the same for frames, and data leaves the last buffer to
\* commands.
BuffersMatch ==
    ~bh_error =>
        /\ used = Cardinality(atfw) + CommandsIn(fwout) + Cardinality(FramesIn(fwout))
                  + (IF bpc \in {"get", "write"} THEN 1 ELSE 0) - repeats
        /\ usedVif = Cardinality((atfw \cap Frames) \cup FramesIn(fwout))
        /\ repeats = 0 => usedVif < numInpChBufs

\* "make sure _confirm is not called after exit of _send": the argument that a
\* confirmation writes through belongs to a caller that is still inside
\* wsm_cmd_send, and unless the firmware repeats itself it is the caller's own
\* confirmation.
ConfirmInsideSend ==
    confirm # Null /\ confirm.arg # Null =>
        /\ cpc[confirm.arg] \in {"wait", "timeout", "last"}
        /\ repeats = 0 => confirm.cmd.by = confirm.arg

OnTheWay == ((atfw \cup {inhand}) \cap Frames) \cup FramesIn(fwout)

\* "Ok, everything is flushed": as long as the lock is held, the firmware has no
\* frame.  After wsm_vif_lock_tx it may have one, which the bottom half had in
\* hand: hw_bufs_used_vif is only counted after the frame is written.
FlushQuiet ==
    \A l \in Lockers :
        quiet[l] /\ repeats = 0 =>
            Cardinality(OnTheWay) <= IF lkind[l] = "vif" THEN 1 ELSE 0

\* Every command returns and every flush ends, completed by its confirmations
\* although no timeout needs to happen: neither the bottom half nor the proc
\* thread misses them.
CallsReturn ==
    /\ \A c \in Callers : cpc[c] # "idle" ~> cpc[c] = "idle"
    /\ \A l \in Lockers : lpc[l] \in {"flush", "drain"} ~> lpc[l] = "held"

\* Every submitted frame is sent and confirmed, unless the interface dies: no
\* wake-up is lost in the proc thread, the bottom half or the locks, although
\* each of them drops requests it cannot serve.
FrameConfirmed ==
    \A f \in Frames :
        f \in Elems(queue) ~> bh_error \/ f \notin Elems(queue) \cup pending

=============================================================================
