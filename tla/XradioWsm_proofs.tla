-------------------------- MODULE XradioWsm_proofs --------------------------
(***************************************************************************)
(* Proofs about the host interface of module XradioWsm, for any number of  *)
(* callers, lockers, frames and input buffers: type correctness, the       *)
(* counts of the firmware's buffers, the race of a command's timeout with  *)
(* its confirmation, and what a flush leaves behind.                       *)
(*                                                                         *)
(* The inductive invariant Inv has one part for each piece of state that   *)
(* threads share; each part is preserved by the steps of the callers, of   *)
(* the lockers, of the bottom half, of the proc thread and of the firmware.*)
(***************************************************************************)
EXTENDS XradioWsm, KernelLists_proofs, TLAPS, FiniteSetTheorems

\* The types, without the bounds that the other parts imply.
TypeInv ==
    /\ wsm_cmd \in [ptr : Commands \cup {Null}, arg : Callers \cup {Null},
                    cmd : Ids \cup {Null, Taken}, done : BOOLEAN]
    /\ wsm_cmd_sema \in Callers \cup {Null}
    /\ cpc \in [Callers -> {"idle", "send", "wait", "timeout", "last"}]
    /\ fresh \subseteq Frames /\ pending \subseteq Frames
    /\ queue \in Seq(Frames) /\ bhtx \in Seq(Frames)
    /\ used \in Int /\ used <= numInpChBufs /\ usedVif \in Int /\ tx_lock \in Int
    /\ lpc \in [Lockers -> {"idle", "flush", "drain", "held"}]
    /\ lkind \in [Lockers -> {Null, "all", "vif", "async"}]
    /\ bpc \in {"wait", "data", "rx", "tx", "get", "write", "end", "dead"}
    /\ inhand \in Messages \cup {Null}
    /\ rxq \in Seq(Confirmations) /\ fwout \in Seq(Confirmations)
    /\ ppc \in {"wait", "rx", "confirm", "tx"}
    /\ confirm \in [cmd : Commands, arg : Callers \cup {Null}] \cup {Null}
    /\ atfw \subseteq Messages /\ last \in Commands \cup {Null}
    /\ calls \in 0 .. MaxCalls
    /\ repeats \in 0 .. MaxFaults /\ faults \in 0 .. MaxFaults

\* The flags of the threads.
FlagInv ==
    /\ quiet \in [Lockers -> BOOLEAN]
    /\ {rx, tx, pending_tx, ctrl, asleep, bh_rx, bh_tx, bh_error} \subseteq BOOLEAN
    /\ {prx, ptx, proc_tx} \subseteq BOOLEAN

\* The bottom half has a message in hand exactly while it writes; what it was
\* told to read, and the proc thread to handle, is there.
HandInv ==
    /\ bpc = "write" <=> inhand # Null
    /\ ctrl \/ bpc = "rx" => fwout # <<>>
    /\ prx \/ ppc = "rx" => rxq # <<>>

\* No frame is confirmed twice.
Apart(out) == \A j, k \in DOMAIN out : j # k => out[j].frames \cap out[k].frames = {}

\* A frame is in one place, from the stack to its confirmation.
FrameInv ==
    /\ NoDup(queue) /\ NoDup(bhtx)
    /\ (fresh \cup Elems(queue)) \cap (pending \cup FramesIn(rxq)) = {}
    /\ fresh \cap Elems(queue) = {}
    /\ Elems(bhtx) \cup OnTheWay \subseteq pending
    /\ Elems(bhtx) \cap OnTheWay = {}
    /\ inhand \notin atfw \cup FramesIn(fwout)
    /\ atfw \cap FramesIn(fwout) = {}
    /\ (Elems(bhtx) \cup OnTheWay) \cap FramesIn(rxq) = {}
    /\ Apart(fwout)

\* A command is numbered when it is posted, and written once.
NumberInv ==
    /\ wsm_cmd.ptr \notin atfw
    /\ \A m \in (atfw \cup {inhand, wsm_cmd.ptr}) \cap Commands :
         m.no <= calls /\ \A c \in Callers : cpc[c] = "send" => m.no < calls
    /\ \A c \in Callers : cpc[c] # "idle" => calls > 0

Hand == IF bpc \in {"get", "write"} THEN 1 ELSE 0

\* The buffers, also of an interface that is dead.
BufInv ==
    /\ IsFiniteSet(atfw)
    /\ used = Cardinality(atfw) + CommandsIn(fwout) + Cardinality(FramesIn(fwout)) + Hand - repeats
    /\ usedVif = Cardinality((atfw \cap Frames) \cup FramesIn(fwout))
    /\ repeats = 0 => usedVif < numInpChBufs
    /\ inhand \in Frames => used < numInpChBufs
    /\ faults + repeats <= MaxFaults

\* The command slot belongs to the caller that holds wsm_cmd_sema.
SlotInv ==
    /\ \A c \in Callers : cpc[c] # "idle" => wsm_cmd_sema = c
    /\ wsm_cmd.cmd \in Ids /\ wsm_cmd.arg # Null =>
         cpc[wsm_cmd.arg] \in {"wait", "timeout"} /\ wsm_cmd.done = FALSE
    /\ wsm_cmd.cmd \in Ids /\ wsm_cmd.arg = Null => bh_error = TRUE
    /\ ppc = "confirm" <=> confirm # Null
    /\ confirm # Null =>
         /\ wsm_cmd.cmd = Taken
         /\ confirm.arg # Null =>
              cpc[confirm.arg] \in {"wait", "timeout", "last"} /\ wsm_cmd.done = FALSE
         /\ confirm.arg = Null => bh_error = TRUE

\* The answers in a list that are for commands: there is none, there is at most
\* one, they are for the commands of a caller.
CmdsOf(out) == {k \in DOMAIN out : out[k].cmd # Null}
NoneIn(out) == CmdsOf(out) = {}
LoneIn(out) == \A j, k \in CmdsOf(out) : j = k
AllBy(out, c) == \A k \in CmdsOf(out) : out[k].cmd.by = c

\* The slot's command is posted and not confirmed, and its caller waits.
Open == wsm_cmd.cmd \in Ids /\ wsm_cmd.arg # Null

\* Without a repeated answer, what is under way of commands is the one command
\* of the slot, in one place; after a timeout it may be an old one's.
LoneInv ==
    repeats = 0 =>
      /\ Open =>
           /\ \A m \in (atfw \cup {inhand, wsm_cmd.ptr}) \cap Commands : m.by = wsm_cmd.arg
           /\ AllBy(fwout, wsm_cmd.arg) /\ AllBy(rxq, wsm_cmd.arg)
      /\ confirm # Null /\ confirm.arg # Null => confirm.cmd.by = confirm.arg
      /\ bh_error # TRUE =>
           /\ ~Open => /\ wsm_cmd.ptr = Null
                       /\ inhand \notin Commands /\ atfw \cap Commands = {}
                       /\ NoneIn(fwout) /\ NoneIn(rxq)
           /\ inhand \in Commands => inhand = wsm_cmd.ptr
           /\ wsm_cmd.ptr # Null => atfw \cap Commands = {} /\ NoneIn(fwout) /\ NoneIn(rxq)
           /\ \A m, n \in atfw \cap Commands : m = n
           /\ atfw \cap Commands # {} => NoneIn(fwout) /\ NoneIn(rxq)
           /\ LoneIn(fwout) /\ LoneIn(rxq)
           /\ NoneIn(fwout) \/ NoneIn(rxq)

\* tx_lock counts at least the threads that have locked and not unlocked.
LockInv ==
    /\ tx_lock >= Cardinality({l \in Lockers : lpc[l] # "idle"})
    /\ tx_lock <= calls

\* A flush that has returned true has left nothing on the way.
QuietInv ==
    \A l \in Lockers : quiet[l] =>
        /\ lpc[l] = "held"
        /\ repeats = 0 => \A f, g \in OnTheWay : f = g
        /\ repeats = 0 /\ lkind[l] # "vif" => OnTheWay = {}

Inv ==
    /\ TypeInv /\ FlagInv /\ HandInv /\ NumberInv /\ FrameInv /\ BufInv
    /\ SlotInv /\ LoneInv /\ LockInv /\ QuietInv

-----------------------------------------------------------------------------
(***************************************************************************)
(* What each thread leaves alone.                                          *)
(***************************************************************************)
LEMMA CallerFrame ==
    ASSUME NEW c \in Callers, Caller(c)
    PROVE  UNCHANGED <<fresh, queue, bhtx, pending, used, usedVif, tx_lock, lpc, lkind, quiet,
                       bpc, rx, tx, pending_tx, ctrl, inhand, asleep, bh_rx, rxq, ppc, prx, ptx,
                       confirm, proc_tx, atfw, fwout, last, repeats, faults>>
  BY DEF Caller, wsm_cmd_lock, wsm_cmd_send, CmdDone, CmdTimeout, raceCheck, LastChance,
     dataVars, bufVars, lockVars, bhVars, flagVars, procVars, fwVars

LEMMA LockerFrame ==
    ASSUME NEW l \in Lockers, Locker(l)
    PROVE  UNCHANGED <<wsm_cmd, wsm_cmd_sema, cpc, fresh, queue, bhtx, pending, used, usedVif,
                       bpc, rx, tx, pending_tx, ctrl, inhand, asleep, bh_rx, rxq, ppc, prx, ptx,
                       confirm, atfw, fwout, last, repeats, faults>>
  BY DEF Locker, wsm_lock_tx, wsm_vif_lock_tx, wsm_lock_tx_async, Lock, FlushLater, wsm_flush_tx,
     FlushDrained, FlushTimeout, wsm_unlock_tx, cmdVars, dataVars, bufVars, bhVars, flagVars,
     procVars, fwVars

\* The steps of the bottom half, failures included.
BhStep == BottomHalf \/ BhFrameTimeout \/ BhFault

LEMMA BhFrame ==
    ASSUME BhStep
    PROVE  UNCHANGED <<wsm_cmd_sema, cpc, fresh, queue, pending, tx_lock, lpc, lkind, quiet,
                       calls, ppc, prx, ptx, confirm, last, repeats>>
  BY DEF BhStep, BottomHalf, BhEvent, BhIdle, BhData, BhRead, BhReadLater, BhSend, xradio_bh_get,
     BhWrite, BhEnd, BhFrameTimeout, BhFault, bhRest, cmdVars, dataVars, lockVars, procVars, fwVars

\* ... of which the quiet ones only decide what to do next.
BhQuiet == BhEvent \/ BhIdle \/ BhData \/ BhReadLater \/ BhEnd \/ BhFrameTimeout

LEMMA BhQuietFrame ==
    ASSUME BhQuiet
    PROVE  /\ UNCHANGED <<wsm_cmd, bhtx, used, usedVif, inhand, rxq, proc_tx, atfw, fwout, faults>>
           /\ bpc \notin {"get", "write"} /\ bpc' \notin {"get", "write"}
  BY DEF BhQuiet, BhEvent, BhIdle, BhData, BhReadLater, BhEnd, BhFrameTimeout, Dies,
     bhRest, cmdVars, dataVars, bufVars, lockVars, procVars, fwVars

\* The proc thread, and the network stack that puts frames for it.
LEMMA ProcFrame ==
    ASSUME Proc \/ xradio_tx
    PROVE  UNCHANGED <<wsm_cmd_sema, cpc, used, usedVif, tx_lock, lpc, lkind, quiet, calls, bpc,
                       rx, tx, pending_tx, ctrl, inhand, asleep, bh_rx, bh_error, atfw, fwout,
                       last, repeats, faults>>
  BY DEF Proc, ProcWake, wsm_handle_rx, ConfirmDone, wsm_get_tx, xradio_tx, procRest,
     bufVars, lockVars, bhVars, fwVars

\* The firmware.
FwStep == Firmware \/ FwRepeat

LEMMA FwFrame ==
    ASSUME FwStep
    PROVE  UNCHANGED <<wsm_cmd, wsm_cmd_sema, cpc, fresh, queue, bhtx, pending, used, usedVif,
                       tx_lock, lpc, lkind, quiet, calls, bpc, rx, tx, pending_tx, ctrl, inhand,
                       asleep, bh_tx, bh_error, rxq, ppc, prx, ptx, confirm, proc_tx, faults>>
  BY DEF FwStep, Firmware, FwAnswer, FwConfirm, FwRepeat, Answer, cmdVars, dataVars, bufVars,
     lockVars, bhVars, procVars

LEMMA NextSteps ==
    ASSUME Next
    PROVE  \/ \E c \in Callers : Caller(c)
           \/ \E l \in Lockers : Locker(l)
           \/ BhStep
           \/ Proc \/ xradio_tx
           \/ FwStep
  BY DEF Next, BhStep, FwStep

\* The bottom half sends, reads or fails, or is quiet.
LEMMA BhSteps ==
    ASSUME BhStep
    PROVE  BhQuiet \/ BhRead \/ BhSend \/ xradio_bh_get \/ BhWrite \/ BhFault
  BY DEF BhStep, BhQuiet, BottomHalf

-----------------------------------------------------------------------------
(***************************************************************************)
(* Types.                                                                  *)
(***************************************************************************)
\* Where a caller goes.
LEMMA CallerMoves ==
    ASSUME NEW c \in Callers, Caller(c)
    PROVE  \/ /\ wsm_cmd_lock(c) /\ cpc[c] = "idle" /\ cpc' = [cpc EXCEPT ![c] = "send"]
              /\ wsm_cmd_sema = Null /\ wsm_cmd_sema' = c
              /\ calls < MaxCalls /\ calls' = calls + 1 /\ UNCHANGED <<wsm_cmd, bh_error>>
           \/ \E i \in Ids :
                /\ wsm_cmd_send(c, i) /\ cpc[c] = "send" /\ cpc' = [cpc EXCEPT ![c] = "wait"]
                /\ wsm_cmd' = [ptr |-> Cmd(c, i), arg |-> c, cmd |-> i, done |-> FALSE]
                /\ ~bh_error /\ UNCHANGED <<wsm_cmd_sema, calls, bh_error>>
           \/ /\ cpc[c] \in {"send", "wait"} /\ cpc' = [cpc EXCEPT ![c] = "idle"]
              /\ cpc[c] = "wait" => wsm_cmd.done
              /\ wsm_cmd_sema' = Null /\ UNCHANGED <<wsm_cmd, calls, bh_error>>
           \/ /\ cpc[c] = "wait" /\ cpc' = [cpc EXCEPT ![c] = "timeout"]
              /\ UNCHANGED <<wsm_cmd_sema, wsm_cmd, calls, bh_error>>
           \/ /\ cpc[c] = "timeout" /\ wsm_cmd' = [wsm_cmd EXCEPT !.arg = Null, !.ptr = Null]
              /\ wsm_cmd.cmd = Taken /\ cpc' = [cpc EXCEPT ![c] = "last"]
              /\ UNCHANGED <<wsm_cmd_sema, calls, bh_error>>
           \/ /\ cpc[c] = "timeout" /\ wsm_cmd' = [wsm_cmd EXCEPT !.arg = Null, !.ptr = Null]
              /\ wsm_cmd.cmd # Taken /\ cpc' = [cpc EXCEPT ![c] = "idle"]
              /\ wsm_cmd_sema' = Null /\ UNCHANGED calls /\ bh_error' = TRUE
           \/ /\ cpc[c] = "last" /\ cpc' = [cpc EXCEPT ![c] = "idle"]
              /\ wsm_cmd.done \/ ppc # "confirm"
              /\ wsm_cmd_sema' = Null /\ UNCHANGED <<wsm_cmd, calls>> /\ bh_error' = TRUE
  <1>1. CASE wsm_cmd_lock(c)
    BY <1>1 DEF wsm_cmd_lock, flagVars
  <1>2. ASSUME NEW i \in Ids, wsm_cmd_send(c, i)
        PROVE  \/ /\ wsm_cmd_send(c, i) /\ cpc[c] = "send" /\ cpc' = [cpc EXCEPT ![c] = "wait"]
                  /\ wsm_cmd' = [ptr |-> Cmd(c, i), arg |-> c, cmd |-> i, done |-> FALSE]
                  /\ ~bh_error /\ UNCHANGED <<wsm_cmd_sema, calls, bh_error>>
               \/ /\ cpc[c] \in {"send", "wait"} /\ cpc' = [cpc EXCEPT ![c] = "idle"]
                  /\ cpc[c] = "wait" => wsm_cmd.done
                  /\ wsm_cmd_sema' = Null /\ UNCHANGED <<wsm_cmd, calls, bh_error>>
    <2>1. CASE bh_error
      BY <1>2, <2>1 DEF wsm_cmd_send, Return, lockVars
    <2>2. CASE ~bh_error
      BY <1>2, <2>2 DEF wsm_cmd_send, lockVars
    <2> QED BY <2>1, <2>2
  <1>3. CASE CmdDone(c)
    BY <1>3 DEF CmdDone, Return, lockVars, flagVars
  <1>4. CASE CmdTimeout(c)
    BY <1>4 DEF CmdTimeout, lockVars, flagVars
  <1>5. CASE raceCheck(c)
    <2>1. CASE wsm_cmd.cmd = Taken
      BY <1>5, <2>1 DEF raceCheck, lockVars
    <2>2. CASE wsm_cmd.cmd # Taken
      BY <1>5, <2>2 DEF raceCheck, Return, lockVars
    <2> QED BY <2>1, <2>2
  <1>6. CASE LastChance(c)
    BY <1>6 DEF LastChance, Return, lockVars
  <1> QED BY <1>1, <1>2, <1>3, <1>4, <1>5, <1>6, Zenon DEF Caller

\* Where a locker goes.
LEMMA LockerMoves ==
    ASSUME NEW l \in Lockers, Locker(l)
    PROVE  \/ /\ lpc[l] = "idle" /\ UNCHANGED <<quiet, bh_error>>
              /\ \E pc \in {"flush", "held"} : lpc' = [lpc EXCEPT ![l] = pc]
              /\ \E kind \in {"all", "vif", "async"} : lkind' = [lkind EXCEPT ![l] = kind]
              /\ calls < MaxCalls /\ calls' = calls + 1 /\ tx_lock' = tx_lock + 1
           \/ /\ lpc[l] \in {"held", "flush"} /\ UNCHANGED <<lkind, quiet, calls, tx_lock, bh_error>>
              /\ lpc[l] = "held" => ~quiet[l]
              /\ \E pc \in {"flush", "drain"} : lpc' = [lpc EXCEPT ![l] = pc]
           \/ /\ lpc[l] \in {"flush", "drain"} /\ UNCHANGED <<lkind, calls, tx_lock, bh_error>>
              /\ lpc' = [lpc EXCEPT ![l] = "held"] /\ quiet' = [quiet EXCEPT ![l] = TRUE]
              /\ BufsUsed(l) = 0 \/ pending = {}
           \/ /\ lpc[l] \in {"flush", "drain"} /\ UNCHANGED <<lkind, calls, tx_lock>>
              /\ lpc' = [lpc EXCEPT ![l] = "held"] /\ quiet' = [quiet EXCEPT ![l] = FALSE]
              /\ bh_error' = TRUE
           \/ /\ lpc[l] = "held" /\ UNCHANGED <<calls, bh_error>>
              /\ lpc' = [lpc EXCEPT ![l] = "idle"] /\ lkind' = [lkind EXCEPT ![l] = Null]
              /\ quiet' = [quiet EXCEPT ![l] = FALSE]
              /\ tx_lock' \in {tx_lock, tx_lock - 1}
  <1>1. CASE wsm_lock_tx(l) \/ wsm_vif_lock_tx(l) \/ wsm_lock_tx_async(l)
    <2>1. \E pc \in {"flush", "held"}, kind \in {"all", "vif", "async"} : Lock(l, kind, pc)
      BY <1>1, Zenon DEF wsm_lock_tx, wsm_vif_lock_tx, wsm_lock_tx_async
    <2> QED BY <2>1 DEF Lock, flagVars
  <1>2. CASE FlushLater(l)
    BY <1>2 DEF FlushLater, flagVars
  <1>3. CASE wsm_flush_tx(l)
    <2>1. CASE BufsUsed(l) = 0
      BY <1>3, <2>1, Zenon DEF wsm_flush_tx, FlushEnds, flagVars
    <2>2. CASE BufsUsed(l) # 0 /\ bh_error
      BY <1>3, <2>2 DEF wsm_flush_tx, FlushEnds, flagVars
    <2>3. CASE BufsUsed(l) # 0 /\ ~bh_error
      BY <1>3, <2>3 DEF wsm_flush_tx, flagVars
    <2> QED BY <2>1, <2>2, <2>3
  <1>4. CASE FlushDrained(l)
    BY <1>4, Zenon DEF FlushDrained, FlushEnds, flagVars
  <1>5. CASE FlushTimeout(l)
    BY <1>5, Zenon DEF FlushTimeout, FlushEnds
  <1>6. CASE wsm_unlock_tx(l)
    <2>1. tx_lock' \in {tx_lock, tx_lock - 1}
      BY <1>6, Zenon DEF wsm_unlock_tx
    <2> QED BY <1>6, <2>1 DEF wsm_unlock_tx
  <1> QED BY <1>1, <1>2, <1>3, <1>4, <1>5, <1>6, Zenon DEF Locker

LEMMA TypeCaller ==
    ASSUME TypeInv, NumberInv, NEW c \in Callers, Caller(c)
    PROVE  TypeInv'
  <1>1. UNCHANGED <<fresh, queue, bhtx, pending, used, usedVif, tx_lock, lpc, lkind, bpc, inhand,
                    rxq, ppc, confirm, atfw, fwout, last, repeats, faults>>
    BY CallerFrame
  <1>2. calls' \in 0 .. MaxCalls
    <2>1. calls' = calls \/ (calls < MaxCalls /\ calls' = calls + 1)
      BY DEF Caller, wsm_cmd_lock, wsm_cmd_send, CmdDone, CmdTimeout, raceCheck, LastChance,
             lockVars
    <2>2. calls \in 0 .. MaxCalls /\ MaxCalls \in Nat
      BY WsmAssumption DEF TypeInv
    <2> QED BY <2>1, <2>2
  <1>3. wsm_cmd_sema' \in Callers \cup {Null}
    BY DEF TypeInv, Caller, wsm_cmd_lock, wsm_cmd_send, CmdDone, CmdTimeout, raceCheck,
       LastChance, Return
  <1>4. cpc' \in [Callers -> {"idle", "send", "wait", "timeout", "last"}]
    <2>1. \E pc \in {"idle", "send", "wait", "timeout", "last"} : cpc' = [cpc EXCEPT ![c] = pc]
      BY CallerMoves, Zenon
    <2> QED BY <2>1 DEF TypeInv
  <1>5. wsm_cmd' \in [ptr : Commands \cup {Null}, arg : Callers \cup {Null},
                      cmd : Ids \cup {Null, Taken}, done : BOOLEAN]
    <2>1. ASSUME NEW i \in Ids, wsm_cmd_send(c, i)
          PROVE  wsm_cmd' \in [ptr : Commands \cup {Null}, arg : Callers \cup {Null},
                               cmd : Ids \cup {Null, Taken}, done : BOOLEAN]
      <3>1. Cmd(c, i) \in Commands
        <4>1. cpc[c] = "send"
          BY <2>1 DEF wsm_cmd_send
        <4>2. calls > 0
          BY <4>1 DEF NumberInv
        <4>3. calls \in 1 .. MaxCalls
          BY <4>2 DEF TypeInv
        <4> QED BY <4>3 DEF Cmd, Commands
      <3>2. \/ wsm_cmd' = wsm_cmd
            \/ wsm_cmd' = [ptr |-> Cmd(c, i), arg |-> c, cmd |-> i, done |-> FALSE]
        BY <2>1 DEF wsm_cmd_send
      <3>3. CASE wsm_cmd' = wsm_cmd
        BY <3>3 DEF TypeInv
      <3>4. CASE wsm_cmd' = [ptr |-> Cmd(c, i), arg |-> c, cmd |-> i, done |-> FALSE]
        BY <3>1, <3>4
      <3> QED BY <3>2, <3>3, <3>4
    <2>2. ASSUME raceCheck(c)
          PROVE  wsm_cmd' \in [ptr : Commands \cup {Null}, arg : Callers \cup {Null},
                               cmd : Ids \cup {Null, Taken}, done : BOOLEAN]
      BY <2>2 DEF raceCheck, TypeInv
    <2>3. CASE wsm_cmd' = wsm_cmd
      BY <2>3 DEF TypeInv
    <2> QED BY <2>1, <2>2, <2>3 DEF Caller, wsm_cmd_lock, CmdDone, CmdTimeout, LastChance
  <1> QED BY <1>1, <1>2, <1>3, <1>4, <1>5 DEF TypeInv

LEMMA TypeLocker ==
    ASSUME TypeInv, NEW l \in Lockers, Locker(l)
    PROVE  TypeInv'
  <1>1. UNCHANGED <<wsm_cmd, wsm_cmd_sema, cpc, fresh, queue, bhtx, pending, used, usedVif, bpc,
                    inhand, rxq, ppc, confirm, atfw, fwout, last, repeats, faults>>
    BY LockerFrame
  <1>2. /\ tx_lock' \in {tx_lock, tx_lock + 1, tx_lock - 1}
        /\ calls' = calls \/ (calls < MaxCalls /\ calls' = calls + 1)
    BY LockerMoves, Zenon
  <1>3. tx_lock' \in Int /\ calls' \in 0 .. MaxCalls
    <2>1. tx_lock \in Int /\ calls \in 0 .. MaxCalls /\ MaxCalls \in Nat
      BY WsmAssumption DEF TypeInv
    <2> QED BY <1>2, <2>1
  <1>4. /\ \E pc \in {"idle", "flush", "drain", "held"} : lpc' = [lpc EXCEPT ![l] = pc]
        /\ lkind' = lkind \/ \E k \in {Null, "all", "vif", "async"} : lkind' = [lkind EXCEPT ![l] = k]
    BY LockerMoves, Zenon
  <1>5. /\ lpc' \in [Lockers -> {"idle", "flush", "drain", "held"}]
        /\ lkind' \in [Lockers -> {Null, "all", "vif", "async"}]
    <2>1. /\ lpc \in [Lockers -> {"idle", "flush", "drain", "held"}]
          /\ lkind \in [Lockers -> {Null, "all", "vif", "async"}]
      BY DEF TypeInv
    <2> QED BY <1>4, <2>1
  <1> QED BY <1>1, <1>3, <1>5 DEF TypeInv

LEMMA TypeBh ==
    ASSUME TypeInv, HandInv, BhStep
    PROVE  TypeInv'
  <1>0. /\ used \in Int /\ used <= numInpChBufs /\ numInpChBufs \in Nat
        /\ usedVif \in Int /\ faults \in 0 .. MaxFaults /\ repeats \in 0 .. MaxFaults
        /\ MaxFaults \in Nat
    BY WsmAssumption DEF TypeInv
  <1>1. UNCHANGED <<wsm_cmd_sema, cpc, fresh, queue, pending, tx_lock, lpc, lkind, calls, ppc,
                    confirm, last, repeats>>
    BY BhFrame
  <1>2. CASE BhQuiet
    <2>1. UNCHANGED <<wsm_cmd, bhtx, used, usedVif, inhand, rxq, atfw, fwout, faults>>
      BY <1>2, BhQuietFrame
    <2>2. bpc' \in {"wait", "data", "rx", "tx", "dead"}
      BY <1>2, Zenon DEF BhQuiet, BhEvent, BhIdle, BhData, BhReadLater, BhEnd, BhFrameTimeout, Dies
    <2> QED BY <1>1, <2>1, <2>2 DEF TypeInv
  <1>3. CASE BhRead
    <2> DEFINE m == Head(fwout)
    <2>1. /\ fwout # <<>> /\ fwout' = Tail(fwout) /\ usedVif' = usedVif - Cardinality(m.frames)
          /\ used' = used - 1 \/ used' = used - Cardinality(m.frames)
          /\ UNCHANGED <<wsm_cmd, bhtx, inhand, atfw, faults>>
          /\ bpc' \in {"dead", "tx", "rx"}
          /\ rxq' = rxq \/ rxq' = <<m>> \o rxq \/ rxq' = Append(rxq, m)
      BY <1>3 DEF BhRead, HandInv, ReleaseBuffers, xradio_bh_put, Dies, cmdVars, dataVars
    <2>2. m \in Confirmations /\ Tail(fwout) \in Seq(Confirmations)
      BY <2>1 DEF TypeInv
    <2>3. rxq' \in Seq(Confirmations)
      <3>1. rxq \in Seq(Confirmations) /\ <<m>> \in Seq(Confirmations)
        BY <2>2 DEF TypeInv
      <3> HIDE DEF m
      <3>2. <<m>> \o rxq \in Seq(Confirmations)
        BY <3>1
      <3>3. Append(rxq, m) \in Seq(Confirmations)
        BY <2>2, <3>1
      <3> QED BY <2>1, <3>1, <3>2, <3>3
    <2>4. Cardinality(m.frames) \in Nat
      <3>1. m.frames \in SUBSET Frames
        BY <2>2 DEF Confirmations
      <3>2. IsFiniteSet(m.frames)
        BY <3>1, FS_Subset, WsmAssumption
      <3> QED BY <3>2, FS_CardinalityType
    <2> HIDE DEF m
    <2>5. used \in Int /\ used <= numInpChBufs /\ usedVif \in Int
      BY DEF TypeInv
    <2>6. used' \in Int /\ used' <= numInpChBufs /\ usedVif' \in Int
      <3> HIDE DEF TypeInv
      <3> DEFINE n == Cardinality(m.frames)
      <3>1. n \in Nat /\ (used' = used - 1 \/ used' = used - n) /\ usedVif' = usedVif - n
        BY <2>1, <2>4, Zenon
      <3> HIDE DEF n
      <3> QED BY <2>5, <3>1, WsmAssumption
    <2>7. /\ fwout' \in Seq(Confirmations) /\ bpc' \in {"dead", "tx", "rx"}
          /\ UNCHANGED <<wsm_cmd, bhtx, inhand, atfw, faults>>
      BY <2>1, <2>2
    <2> QED BY <1>1, <2>3, <2>6, <2>7 DEF TypeInv
  <1>4. CASE BhSend
    <2>1. UNCHANGED <<wsm_cmd, bhtx, usedVif, inhand, rxq, atfw, fwout, faults>>
      BY <1>4 DEF BhSend, tx_allowed, bhRest, cmdVars, dataVars, lockVars, procVars, fwVars
    <2>2. bpc' \in {"wait", "data", "rx", "tx", "get", "write", "end", "dead"}
      BY <1>4 DEF BhSend, tx_allowed
    <2>3. used' = used \/ (used < numInpChBufs /\ used' = used + 1)
      BY <1>4 DEF BhSend, tx_allowed, bhRest, dataVars
    <2>4. used' \in Int /\ used' <= numInpChBufs
      BY <1>0, <2>3
    <2> QED BY <1>1, <2>1, <2>2, <2>4 DEF TypeInv
  <1>5. CASE xradio_bh_get
    <2>1. UNCHANGED <<wsm_cmd, usedVif, rxq, atfw, fwout, faults>>
      BY <1>5 DEF xradio_bh_get, cmdVars, fwVars
    <2>2. /\ bpc' \in {"write", "end"}
          /\ used' = used \/ used' = used - 1
          /\ inhand' = inhand \/ inhand' = wsm_cmd.ptr \/ (inhand' = Head(bhtx) /\ bhtx # <<>>)
          /\ bhtx' = bhtx \/ (bhtx' = Tail(bhtx) /\ bhtx # <<>>)
      BY <1>5 DEF xradio_bh_get, MaySendData
    <2>3. bhtx # <<>> => Head(bhtx) \in Frames /\ Tail(bhtx) \in Seq(Frames)
      BY DEF TypeInv
    <2>4. wsm_cmd.ptr \in Messages \cup {Null}
      BY DEF TypeInv, Messages
    <2>5. bhtx' \in Seq(Frames)
      BY <2>2, <2>3 DEF TypeInv
    <2>6. inhand' \in Messages \cup {Null}
      BY <2>2, <2>3, <2>4 DEF TypeInv, Messages
    <2>7. used' \in Int /\ used' <= numInpChBufs
      BY <1>0, <2>2
    <2> QED BY <1>1, <2>1, <2>2, <2>5, <2>6, <2>7 DEF TypeInv
  <1>6. CASE BhWrite
    <2>1. UNCHANGED <<bhtx, used, rxq, fwout, faults>> /\ inhand' = Null
      BY <1>6 DEF BhWrite, dataVars
    <2>2. bpc' \in {"end", "tx"}
      BY <1>6 DEF BhWrite
    <2>3. wsm_cmd' = wsm_cmd \/ wsm_cmd' = [wsm_cmd EXCEPT !.ptr = Null]
      BY <1>6 DEF BhWrite
    <2>4. wsm_cmd' \in [ptr : Commands \cup {Null}, arg : Callers \cup {Null},
                        cmd : Ids \cup {Null, Taken}, done : BOOLEAN]
      BY <2>3 DEF TypeInv
    <2>5. inhand \in Messages
      BY <1>6 DEF BhWrite, HandInv, TypeInv
    <2>6. atfw' \subseteq Messages
      <3>1. \/ atfw' = atfw \cup {wsm_cmd.ptr} /\ wsm_cmd.ptr # Null
            \/ atfw' = atfw \cup {inhand}
        BY <1>6 DEF BhWrite
      <3>2. wsm_cmd.ptr # Null => wsm_cmd.ptr \in Messages
        BY DEF TypeInv, Messages
      <3> QED BY <2>5, <3>1, <3>2 DEF TypeInv
    <2>7. usedVif' \in Int
      BY <1>6 DEF BhWrite, TypeInv
    <2> QED BY <1>1, <2>1, <2>2, <2>4, <2>6, <2>7 DEF TypeInv
  <1>7. CASE BhFault
    <2>1. UNCHANGED <<wsm_cmd, bhtx, usedVif, rxq, atfw, fwout>> /\ inhand' = Null /\ bpc' = "dead"
      BY <1>7 DEF BhFault, Dies, cmdVars, dataVars, fwVars
    <2>2. used' = used - 1 \/ used' = used
      BY <1>7 DEF BhFault
    <2>3. used' \in Int /\ used' <= numInpChBufs
      BY <1>0, <2>2
    <2>4. faults' \in 0 .. MaxFaults
      <3>1. faults + repeats < MaxFaults /\ faults' = faults + 1
        BY <1>7 DEF BhFault
      <3> QED BY <1>0, <3>1
    <2> QED BY <1>1, <2>1, <2>3, <2>4 DEF TypeInv
  <1> QED BY <1>2, <1>3, <1>4, <1>5, <1>6, <1>7, BhSteps

LEMMA TypeProc ==
    ASSUME TypeInv, HandInv, Proc \/ xradio_tx
    PROVE  TypeInv'
  <1>1. UNCHANGED <<wsm_cmd_sema, cpc, used, usedVif, tx_lock, lpc, lkind, calls, bpc, inhand,
                    atfw, fwout, last, repeats, faults>>
    BY ProcFrame
  <1>2. CASE xradio_tx
    <2>1. PICK f \in fresh : fresh' = fresh \ {f} /\ queue' = Append(queue, f)
      BY <1>2 DEF xradio_tx
    <2>2. UNCHANGED <<wsm_cmd, bhtx, pending, rxq, ppc, confirm>>
      BY <1>2 DEF xradio_tx, procVars
    <2>3. queue' \in Seq(Frames)
      BY <2>1 DEF TypeInv
    <2> QED BY <1>1, <2>1, <2>2, <2>3 DEF TypeInv
  <1>3. CASE ProcWake
    BY <1>3 DEF TypeInv, ProcWake, procRest, Loop, bufVars, lockVars, bhVars, fwVars, dataVars
  <1>4. CASE wsm_handle_rx
    <2> DEFINE m == Head(rxq)
    <2>1. rxq # <<>> /\ rxq' = Tail(rxq) /\ UNCHANGED <<fresh, queue, bhtx>>
      BY <1>4 DEF wsm_handle_rx, HandInv
    <2>2. m \in Confirmations /\ Tail(rxq) \in Seq(Confirmations)
      BY <2>1 DEF TypeInv
    <2>3. /\ pending' = pending \/ pending' = pending \ m.frames
          /\ wsm_cmd' = wsm_cmd \/ wsm_cmd' = [wsm_cmd EXCEPT !.cmd = Taken]
          /\ \/ confirm' = confirm
             \/ m.cmd # Null /\ confirm' = [cmd |-> m.cmd, arg |-> wsm_cmd.arg]
          /\ ppc' \in {"wait", "rx", "confirm", "tx"}
      BY <1>4 DEF wsm_handle_rx, Loop
    <2>4. m.cmd # Null => m.cmd \in Commands
      BY <2>2 DEF Confirmations
    <2> HIDE DEF m
    <2>5. confirm' \in [cmd : Commands, arg : Callers \cup {Null}] \cup {Null}
      BY <2>3, <2>4 DEF TypeInv
    <2>6. wsm_cmd' \in [ptr : Commands \cup {Null}, arg : Callers \cup {Null},
                        cmd : Ids \cup {Null, Taken}, done : BOOLEAN]
      BY <2>3 DEF TypeInv
    <2> QED BY <1>1, <2>1, <2>2, <2>3, <2>5, <2>6 DEF TypeInv
  <1>5. CASE ConfirmDone
    BY <1>5 DEF TypeInv, ConfirmDone, procRest, Loop, bufVars, lockVars, bhVars, fwVars, dataVars
  <1>6. CASE wsm_get_tx
    <2>1. UNCHANGED <<wsm_cmd, fresh, rxq, confirm>>
      BY <1>6 DEF wsm_get_tx
    <2>2. \/ UNCHANGED <<queue, bhtx, pending>>
          \/ /\ queue # <<>> /\ queue' = Tail(queue) /\ bhtx' = Append(bhtx, Head(queue))
             /\ pending' = pending \cup {Head(queue)}
      BY <1>6 DEF wsm_get_tx
    <2>3. queue # <<>> => Head(queue) \in Frames /\ Tail(queue) \in Seq(Frames)
      BY DEF TypeInv
    <2>4. ppc' \in {"rx", "tx", "wait"}
      BY <1>6 DEF wsm_get_tx, Loop
    <2>5. queue' \in Seq(Frames) /\ bhtx' \in Seq(Frames) /\ pending' \subseteq Frames
      <3>1. CASE UNCHANGED <<queue, bhtx, pending>>
        BY <3>1 DEF TypeInv
      <3>2. CASE /\ queue # <<>> /\ queue' = Tail(queue) /\ bhtx' = Append(bhtx, Head(queue))
                 /\ pending' = pending \cup {Head(queue)}
        <4> DEFINE f == Head(queue)
        <4>1. f \in Frames /\ bhtx \in Seq(Frames) /\ pending \subseteq Frames
          BY <2>3, <3>2 DEF TypeInv
        <4>2. bhtx' = Append(bhtx, f) /\ pending' = pending \cup {f}
          BY <3>2
        <4> HIDE DEF f
        <4>3. bhtx' \in Seq(Frames)
          BY <4>1, <4>2
        <4> QED BY <2>3, <3>2, <4>1, <4>2, <4>3
      <3> QED BY <2>2, <3>1, <3>2
    <2> QED BY <1>1, <2>1, <2>4, <2>5 DEF TypeInv
  <1> QED BY <1>2, <1>3, <1>4, <1>5, <1>6 DEF Proc

\* What the firmware says: one message at the end of its output.
LEMMA FwSays ==
    ASSUME TypeInv, FwStep
    PROVE  \/ \E m \in atfw \cap Commands :
                 /\ atfw' = atfw \ {m} /\ last' = m /\ UNCHANGED repeats
                 /\ fwout' = Append(fwout, [cmd |-> m, frames |-> {}])
                 /\ [cmd |-> m, frames |-> {}] \in Confirmations
           \/ \E S \in SUBSET (atfw \cap Frames) \ {{}} :
                 /\ atfw' = atfw \ S /\ UNCHANGED <<last, repeats>>
                 /\ fwout' = Append(fwout, [cmd |-> Null, frames |-> S])
                 /\ [cmd |-> Null, frames |-> S] \in Confirmations
           \/ /\ last # Null /\ faults + repeats < MaxFaults /\ repeats' = repeats + 1
              /\ fwout' = Append(fwout, [cmd |-> last, frames |-> {}])
              /\ [cmd |-> last, frames |-> {}] \in Confirmations
              /\ UNCHANGED <<atfw, last>>
  <1>1. CASE FwAnswer
    <2>1. PICK m \in atfw \ Frames :
            /\ atfw' = atfw \ {m} /\ last' = m /\ UNCHANGED repeats
            /\ fwout' = Append(fwout, [cmd |-> m, frames |-> {}])
      BY <1>1 DEF FwAnswer, Answer
    <2>2. m \in atfw \cap Commands
      BY DEF TypeInv, Messages
    <2>3. [cmd |-> m, frames |-> {}] \in Confirmations
      BY <2>2 DEF Confirmations
    <2> QED BY <2>1, <2>2, <2>3
  <1>2. CASE FwConfirm
    <2>1. PICK S \in SUBSET (atfw \cap Frames) \ {{}} :
            /\ atfw' = atfw \ S /\ UNCHANGED <<last, repeats>>
            /\ fwout' = Append(fwout, [cmd |-> Null, frames |-> S])
      BY <1>2 DEF FwConfirm, Answer
    <2>2. [cmd |-> Null, frames |-> S] \in Confirmations
      BY DEF Confirmations
    <2> QED BY <2>1, <2>2
  <1>3. CASE FwRepeat
    <2>1. [cmd |-> last, frames |-> {}] \in Confirmations
      BY <1>3 DEF FwRepeat, TypeInv, Confirmations
    <2> QED BY <1>3, <2>1 DEF FwRepeat, Answer
  <1> QED BY <1>1, <1>2, <1>3 DEF FwStep, Firmware

LEMMA TypeFw ==
    ASSUME TypeInv, FwStep
    PROVE  TypeInv'
  <1>1. UNCHANGED <<wsm_cmd, wsm_cmd_sema, cpc, fresh, queue, bhtx, pending, used, usedVif,
                    tx_lock, lpc, lkind, calls, bpc, inhand, rxq, ppc, confirm, faults>>
    BY FwFrame
  <1>2. \E x \in Confirmations : fwout' = Append(fwout, x)
    BY FwSays
  <1>3. fwout' \in Seq(Confirmations)
    BY <1>2 DEF TypeInv
  <1>4. atfw' \subseteq atfw /\ last' \in Commands \cup {Null}
    BY FwSays DEF TypeInv
  <1>5. repeats' = repeats \/ (faults + repeats < MaxFaults /\ repeats' = repeats + 1)
    BY FwSays
  <1>6. repeats' \in 0 .. MaxFaults
    <2>1. /\ faults \in 0 .. MaxFaults /\ repeats \in 0 .. MaxFaults
          /\ MaxFaults \in Nat
      BY WsmAssumption DEF TypeInv
    <2> QED BY <1>5, <2>1
  <1> QED BY <1>1, <1>3, <1>4, <1>6 DEF TypeInv

LEMMA TypeStep ==
    ASSUME TypeInv, HandInv, NumberInv, Next
    PROVE  TypeInv'
  BY NextSteps, TypeCaller, TypeLocker, TypeBh, TypeProc, TypeFw

-----------------------------------------------------------------------------
(***************************************************************************)
(* The steps of the bottom half and of the proc thread that move messages. *)
(***************************************************************************)
LEMMA BhReads ==
    ASSUME HandInv, BhRead
    PROVE  /\ bpc = "rx" /\ fwout # <<>> /\ fwout' = Tail(fwout)
           /\ usedVif' = usedVif - Cardinality(Head(fwout).frames)
           /\ UNCHANGED <<wsm_cmd, bhtx, inhand, atfw, faults>>
           /\ Head(fwout).cmd # Null => used' = used - 1
           /\ Head(fwout).cmd = Null => used' = used - Cardinality(Head(fwout).frames)
           /\ bpc' \in {"dead", "tx", "rx"} /\ (bpc' = "rx" => fwout' # <<>>)
           /\ ctrl' = (fwout' # <<>>)
           /\ \/ rxq' = rxq /\ bh_error' = TRUE
              \/ Head(fwout).cmd # Null /\ rxq' = <<Head(fwout)>> \o rxq /\ UNCHANGED bh_error
              \/ Head(fwout).cmd = Null /\ rxq' = Append(rxq, Head(fwout)) /\ UNCHANGED bh_error
  <1>1. bpc = "rx" /\ fwout # <<>> /\ fwout' = Tail(fwout)
    BY DEF BhRead, HandInv
  <1>2. /\ usedVif' = usedVif - Cardinality(Head(fwout).frames)
        /\ UNCHANGED <<wsm_cmd, bhtx, inhand, atfw, faults>>
        /\ ctrl' = (fwout' # <<>>)
    BY DEF BhRead, cmdVars, dataVars
  <1>3. /\ Head(fwout).cmd # Null => used' = used - 1
        /\ Head(fwout).cmd = Null => used' = used - Cardinality(Head(fwout).frames)
    BY DEF BhRead, ReleaseBuffers
  <1>4. bpc' \in {"dead", "tx", "rx"} /\ (bpc' = "rx" => fwout' # <<>>)
    <2>1. CASE used' < 0
      BY <2>1 DEF BhRead, Dies
    <2>2. CASE ~(used' < 0)
      <3>1. bpc' \in {"tx"} \cup (IF ctrl' THEN {"rx"} ELSE {})
        BY <2>2 DEF BhRead
      <3>2. CASE fwout' # <<>>
        BY <1>2, <3>1, <3>2
      <3>3. CASE fwout' = <<>>
        BY <1>2, <3>1, <3>3
      <3> QED BY <3>2, <3>3
    <2> QED BY <2>1, <2>2
  <1>5. \/ rxq' = rxq /\ bh_error' = TRUE
        \/ Head(fwout).cmd # Null /\ rxq' = <<Head(fwout)>> \o rxq /\ UNCHANGED bh_error
        \/ Head(fwout).cmd = Null /\ rxq' = Append(rxq, Head(fwout)) /\ UNCHANGED bh_error
    <2>1. CASE used' < 0
      BY <2>1 DEF BhRead, Dies
    <2>2. CASE ~(used' < 0)
      BY <2>2 DEF BhRead, xradio_bh_put
    <2> QED BY <2>1, <2>2
  <1> QED BY <1>1, <1>2, <1>3, <1>4, <1>5

LEMMA BhSends ==
    ASSUME BhSend
    PROVE  /\ bpc = "tx"
           /\ UNCHANGED <<wsm_cmd, bhtx, usedVif, inhand, rxq, atfw, fwout, faults, bh_error>>
           /\ \/ bpc' = "get" /\ used < numInpChBufs /\ used' = used + 1 /\ UNCHANGED ctrl
              \/ bpc' = "data" /\ UNCHANGED used /\ fwout # <<>>
              \/ bpc' = "end" /\ UNCHANGED <<used, ctrl>>
  BY DEF BhSend, tx_allowed, bhRest, cmdVars, dataVars, fwVars

LEMMA BhGets ==
    ASSUME xradio_bh_get
    PROVE  /\ bpc = "get"
           /\ UNCHANGED <<wsm_cmd, usedVif, rxq, atfw, fwout, faults, bh_error, ctrl>>
           /\ \/ /\ wsm_cmd.ptr # Null /\ inhand' = wsm_cmd.ptr /\ bpc' = "write"
                 /\ UNCHANGED <<used, bhtx>>
              \/ /\ wsm_cmd.ptr = Null /\ bhtx # <<>> /\ tx_lock = 0 /\ used < numInpChBufs
                 /\ inhand' = Head(bhtx) /\ bhtx' = Tail(bhtx) /\ bpc' = "write"
                 /\ UNCHANGED used
              \/ bpc' = "end" /\ used' = used - 1 /\ UNCHANGED <<inhand, bhtx>>
  BY DEF xradio_bh_get, MaySendData, cmdVars, fwVars, flagVars

LEMMA BhWrites ==
    ASSUME TypeInv, HandInv, BhWrite
    PROVE  /\ bpc = "write" /\ bpc' \in {"end", "tx"} /\ inhand' = Null
           /\ UNCHANGED <<bhtx, used, rxq, fwout, faults, bh_error, ctrl>>
           /\ \/ /\ inhand \in Frames /\ inhand \notin Commands /\ atfw' = atfw \cup {inhand}
                 /\ usedVif' = usedVif + 1 /\ UNCHANGED wsm_cmd
              \/ /\ inhand \in Commands /\ inhand \notin Frames
                 /\ wsm_cmd' = [wsm_cmd EXCEPT !.ptr = Null] /\ UNCHANGED usedVif
                 /\ \E m \in {wsm_cmd.ptr, inhand} :
                      /\ m \in Commands /\ m \notin Frames /\ atfw' = atfw \cup {m}
                      /\ m = inhand => wsm_cmd.ptr \in {Null, inhand}
  <1>1. bpc = "write" /\ inhand \in Messages
    BY DEF BhWrite, HandInv, TypeInv
  <1>2. /\ bpc' \in {"end", "tx"} /\ inhand' = Null
        /\ UNCHANGED <<bhtx, used, rxq, fwout, faults, bh_error, ctrl>>
    BY DEF BhWrite, dataVars
  <1>3. CASE inhand \in Frames
    <2>1. inhand \notin Commands
      BY <1>3, MessagesDiffer
    <2> QED BY <1>1, <1>2, <1>3, <2>1 DEF BhWrite
  <1>4. CASE inhand \notin Frames
    <2>1. inhand \in Commands
      BY <1>1, <1>4 DEF Messages
    <2>2. CASE wsm_cmd.ptr # Null
      <3>1. wsm_cmd.ptr \in Commands /\ wsm_cmd.ptr \notin Frames
        BY <2>2, MessagesDiffer DEF TypeInv
      <3> QED BY <1>1, <1>2, <1>4, <2>1, <2>2, <3>1 DEF BhWrite
    <2>3. CASE wsm_cmd.ptr = Null
      BY <1>1, <1>2, <1>4, <2>1, <2>3 DEF BhWrite
    <2> QED BY <2>2, <2>3
  <1> QED BY <1>3, <1>4

LEMMA BhFails ==
    ASSUME BhFault
    PROVE  /\ bpc' = "dead" /\ bh_error' = TRUE /\ inhand' = Null
           /\ faults + repeats < MaxFaults /\ faults' = faults + 1
           /\ UNCHANGED <<wsm_cmd, bhtx, usedVif, rxq, atfw, fwout, ctrl>>
           /\ bpc = "write" => used' = used - 1
           /\ bpc # "write" => bpc # "get" /\ used' = used
  BY DEF BhFault, Dies, cmdVars, dataVars, fwVars

\* The proc thread takes a confirmation.
LEMMA ProcHandles ==
    ASSUME HandInv, wsm_handle_rx
    PROVE  /\ ppc = "rx" /\ rxq # <<>> /\ rxq' = Tail(rxq) /\ prx' = (rxq' # <<>>)
           /\ UNCHANGED <<fresh, queue, bhtx>>
           /\ ppc' = "rx" => rxq' # <<>>
           /\ \/ /\ Head(rxq).cmd = Null /\ pending' = pending \ Head(rxq).frames
                 /\ ppc' \in {"wait", "rx", "tx"} /\ UNCHANGED <<wsm_cmd, confirm>>
              \/ /\ Head(rxq).cmd # Null /\ wsm_cmd' = [wsm_cmd EXCEPT !.cmd = Taken]
                 /\ UNCHANGED pending /\ Head(rxq).cmd.id = wsm_cmd.cmd
                 /\ ppc' = "confirm" /\ confirm' = [cmd |-> Head(rxq).cmd, arg |-> wsm_cmd.arg]
              \/ /\ Head(rxq).cmd # Null /\ wsm_cmd' = [wsm_cmd EXCEPT !.cmd = Taken]
                 /\ UNCHANGED <<pending, confirm>> /\ ppc' = "wait"
  <1>1. ppc = "rx" /\ rxq # <<>> /\ rxq' = Tail(rxq) /\ UNCHANGED <<fresh, queue, bhtx>>
    BY DEF wsm_handle_rx, HandInv
  <1>2. prx' = (rxq' # <<>>)
    BY DEF wsm_handle_rx
  <1>3. CASE Head(rxq).cmd = Null
    <2>1. pending' = pending \ Head(rxq).frames /\ UNCHANGED <<wsm_cmd, confirm>>
      BY <1>3 DEF wsm_handle_rx
    <2>2. ppc' = IF ptx THEN "tx" ELSE Loop(prx', FALSE)
      BY <1>3 DEF wsm_handle_rx
    <2>3. ppc' \in {"wait", "rx", "tx"} /\ (ppc' = "rx" => prx')
      BY <2>2 DEF Loop
    <2> QED BY <1>1, <1>2, <1>3, <2>1, <2>3
  <1>4. CASE Head(rxq).cmd # Null /\ Head(rxq).cmd.id = wsm_cmd.cmd
    BY <1>1, <1>2, <1>4 DEF wsm_handle_rx
  <1>5. CASE Head(rxq).cmd # Null /\ Head(rxq).cmd.id # wsm_cmd.cmd
    BY <1>1, <1>2, <1>5 DEF wsm_handle_rx
  <1> QED BY <1>3, <1>4, <1>5

LEMMA ProcCompletes ==
    ASSUME ConfirmDone
    PROVE  /\ ppc = "confirm" /\ wsm_cmd' = [wsm_cmd EXCEPT !.done = TRUE] /\ confirm' = Null
           /\ UNCHANGED <<fresh, queue, bhtx, pending, rxq, prx>>
           /\ ppc' \in {"wait", "rx", "tx"} /\ (ppc' = "rx" => prx)
  BY DEF ConfirmDone, dataVars, Loop

\* It gives a frame to the bottom half, or has none to give.
LEMMA ProcGives ==
    ASSUME wsm_get_tx
    PROVE  /\ ppc = "tx" /\ UNCHANGED <<wsm_cmd, fresh, rxq, prx, confirm>>
           /\ ppc' \in {"wait", "rx", "tx"} /\ (ppc' = "rx" => prx)
           /\ \/ UNCHANGED <<queue, bhtx, pending>>
              \/ /\ queue # <<>> /\ queue' = Tail(queue) /\ bhtx' = Append(bhtx, Head(queue))
                 /\ pending' = pending \cup {Head(queue)}
  <1>1. ppc = "tx" /\ UNCHANGED <<wsm_cmd, fresh, rxq, prx, confirm>>
    BY DEF wsm_get_tx
  <1>2. ppc' \in {"wait", "rx", "tx"} /\ (ppc' = "rx" => prx)
    BY DEF wsm_get_tx, Loop
  <1>3. \/ UNCHANGED <<queue, bhtx, pending>>
        \/ /\ queue # <<>> /\ queue' = Tail(queue) /\ bhtx' = Append(bhtx, Head(queue))
           /\ pending' = pending \cup {Head(queue)}
    BY DEF wsm_get_tx
  <1> QED BY <1>1, <1>2, <1>3

LEMMA ProcWakes ==
    ASSUME ProcWake
    PROVE  /\ ppc = "wait" /\ UNCHANGED <<wsm_cmd, fresh, queue, bhtx, pending, rxq, confirm>>
           /\ ppc' \in {"wait", "rx", "tx"} /\ (ppc' = "rx" => prx') /\ prx' = (rxq # <<>>)
  BY DEF ProcWake, Loop, dataVars

LEMMA StackPuts ==
    ASSUME xradio_tx
    PROVE  /\ \E f \in fresh : fresh' = fresh \ {f} /\ queue' = Append(queue, f)
           /\ UNCHANGED <<wsm_cmd, bhtx, pending, rxq, ppc, prx, confirm>>
  BY DEF xradio_tx, procVars

-----------------------------------------------------------------------------
(***************************************************************************)
(* The flags, and what the threads have in hand.                           *)
(***************************************************************************)
LEMMA PutNotEmpty ==
    ASSUME NEW S, NEW s \in Seq(S), NEW m \in S
    PROVE  <<m>> \o s # <<>> /\ Append(s, m) # <<>>
  <1>1. Len(<<m>> \o s) = 1 + Len(s) /\ Len(Append(s, m)) = Len(s) + 1 /\ Len(s) \in Nat
    BY <<m>> \in Seq(S)
  <1> QED BY <1>1

LEMMA FlagStep ==
    ASSUME FlagInv, TypeInv, HandInv, Next
    PROVE  FlagInv'
  <1> USE DEF FlagInv
  <1>1. ASSUME NEW c \in Callers, Caller(c) PROVE FlagInv'
    <2>1. bh_error' \in BOOLEAN
      BY <1>1, CallerMoves
    <2>2. bh_tx' \in BOOLEAN
      BY <1>1 DEF Caller, wsm_cmd_lock, wsm_cmd_send, CmdDone, CmdTimeout, raceCheck, LastChance,
         flagVars, xradio_bh_wakeup
    <2> QED BY <1>1, <2>1, <2>2, CallerFrame
  <1>2. ASSUME NEW l \in Lockers, Locker(l) PROVE FlagInv'
    <2>1. bh_error' \in BOOLEAN
      BY <1>2, LockerMoves
    <2>2. quiet' \in [Lockers -> BOOLEAN]
      <3>1. quiet' = quiet \/ quiet' = [quiet EXCEPT ![l] = TRUE] \/ quiet' = [quiet EXCEPT ![l] = FALSE]
        BY <1>2, LockerMoves, Zenon
      <3> QED BY <3>1
    <2>3. bh_tx' \in BOOLEAN /\ proc_tx' \in BOOLEAN
      BY <1>2 DEF Locker, wsm_lock_tx, wsm_vif_lock_tx, wsm_lock_tx_async, Lock, FlushLater,
         wsm_flush_tx, FlushDrained, FlushTimeout, wsm_unlock_tx, flagVars, xradio_bh_wakeup
    <2> QED BY <1>2, <2>1, <2>2, <2>3, LockerFrame
  <1>3. ASSUME BhStep PROVE FlagInv'
    <2>1. bh_error' \in BOOLEAN
      BY <1>3 DEF BhStep, BottomHalf, BhEvent, BhIdle, BhData, BhRead, BhReadLater, BhSend,
         xradio_bh_get, BhWrite, BhEnd, BhFrameTimeout, BhFault, Dies, flagVars
    <2>2. {rx', tx', pending_tx', ctrl'} \subseteq BOOLEAN
      BY <1>3 DEF BhStep, BottomHalf, BhEvent, BhIdle, BhData, BhRead, ReleaseBuffers, BhReadLater,
         BhSend, xradio_bh_get, BhWrite, BhEnd, BhFrameTimeout, BhFault
    <2>3. {asleep', bh_rx', bh_tx', proc_tx'} \subseteq BOOLEAN
      BY <1>3 DEF BhStep, BottomHalf, BhEvent, BhIdle, BhData, BhRead, ReleaseBuffers, BhReadLater,
         BhSend, xradio_bh_get, BhWrite, BhEnd, BhFrameTimeout, BhFault, bhRest, flagVars
    <2> QED BY <1>3, <2>1, <2>2, <2>3, BhFrame
  <1>4. ASSUME Proc \/ xradio_tx PROVE FlagInv'
    <2>1. {bh_tx', prx', ptx', proc_tx'} \subseteq BOOLEAN
      BY <1>4 DEF Proc, ProcWake, wsm_handle_rx, ConfirmDone, wsm_get_tx, xradio_tx, procVars,
         xradio_bh_wakeup
    <2> QED BY <1>4, <2>1, ProcFrame
  <1>5. ASSUME FwStep PROVE FlagInv'
    <2>1. bh_rx' \in BOOLEAN
      BY <1>5 DEF FwStep, Firmware, FwAnswer, FwConfirm, FwRepeat, Answer, xradio_irq_handler
    <2> QED BY <1>5, <2>1, FwFrame
  <1> QED BY <1>1, <1>2, <1>3, <1>4, <1>5, NextSteps

LEMMA HandStep ==
    ASSUME TypeInv, FlagInv, HandInv, Next
    PROVE  HandInv'
  <1>1. ASSUME NEW c \in Callers, Caller(c) PROVE HandInv'
    BY <1>1, CallerFrame DEF HandInv
  <1>2. ASSUME NEW l \in Lockers, Locker(l) PROVE HandInv'
    BY <1>2, LockerFrame DEF HandInv
  <1>3. ASSUME BhStep PROVE HandInv'
    <2>1. UNCHANGED <<ppc, prx>>
      BY <1>3, BhFrame
    <2>2. rxq # <<>> => rxq' # <<>>
      <3>1. CASE BhRead
        <4>1. rxq' = rxq \/ rxq' = <<Head(fwout)>> \o rxq \/ rxq' = Append(rxq, Head(fwout))
          BY <3>1, BhReads, Zenon
        <4>2. rxq \in Seq(Confirmations) /\ Head(fwout) \in Confirmations
          BY <3>1, BhReads DEF TypeInv
        <4>3. <<Head(fwout)>> \o rxq # <<>> /\ Append(rxq, Head(fwout)) # <<>>
          BY <4>2, PutNotEmpty, Zenon
        <4> QED BY <4>1, <4>3
      <3>2. CASE rxq' = rxq
        BY <3>2
      <3> QED BY <1>3, <3>1, <3>2, BhSteps, BhQuietFrame, BhSends, BhGets, BhWrites, BhFails
    <2>3. (bpc = "write" <=> inhand # Null)'
      <3>1. bpc # "write" => inhand = Null
        BY DEF HandInv
      <3>2. CASE BhQuiet
        BY <3>1, <3>2, BhQuietFrame
      <3>3. CASE BhRead
        BY <3>1, <3>3, BhReads
      <3>4. CASE BhSend
        BY <3>1, <3>4, BhSends
      <3>5. CASE xradio_bh_get
        <4>1. Head(bhtx) # Null \/ bhtx = <<>>
          BY WsmAssumption DEF TypeInv
        <4> QED BY <3>1, <3>5, <4>1, BhGets
      <3>6. CASE BhWrite \/ BhFault
        BY <3>6, BhWrites, BhFails
      <3> QED BY <1>3, <3>2, <3>3, <3>4, <3>5, <3>6, BhSteps
    <2>4. (ctrl \/ bpc = "rx" => fwout # <<>>)'
      <3>1. CASE BhQuiet
        <4>1. UNCHANGED fwout
          BY <3>1, BhQuietFrame
        <4>2. ctrl' => ctrl \/ fwout # <<>>
          BY <3>1 DEF FlagInv, BhQuiet, BhEvent, BhIdle, BhData, BhReadLater, BhEnd, BhFrameTimeout
        <4>3. bpc' = "rx" => ctrl'
          BY <3>1 DEF FlagInv, BhQuiet, BhEvent, BhIdle, BhData, BhReadLater, BhEnd, BhFrameTimeout, Dies
        <4> QED BY <4>1, <4>2, <4>3 DEF HandInv
      <3>2. CASE BhRead
        BY <3>2, BhReads
      <3>3. CASE BhSend \/ xradio_bh_get \/ BhWrite \/ BhFault
        BY <3>3, BhSends, BhGets, BhWrites, BhFails DEF HandInv
      <3> QED BY <1>3, <3>1, <3>2, <3>3, BhSteps
    <2> QED BY <2>1, <2>2, <2>3, <2>4 DEF HandInv
  <1>4. ASSUME Proc \/ xradio_tx PROVE HandInv'
    <2>1. (prx \/ ppc = "rx" => rxq # <<>>)'
      <3>1. CASE xradio_tx
        BY <3>1, StackPuts DEF HandInv
      <3>2. CASE ProcWake
        BY <3>2, ProcWakes
      <3>3. CASE wsm_handle_rx
        BY <3>3, ProcHandles
      <3>4. CASE ConfirmDone
        BY <3>4, ProcCompletes DEF HandInv
      <3>5. CASE wsm_get_tx
        BY <3>5, ProcGives DEF HandInv
      <3> QED BY <1>4, <3>1, <3>2, <3>3, <3>4, <3>5 DEF Proc
    <2> QED BY <1>4, <2>1, ProcFrame DEF HandInv
  <1>5. ASSUME FwStep PROVE HandInv'
    <2>1. fwout' # <<>>
      <3>1. \E x \in Confirmations : fwout' = Append(fwout, x)
        BY <1>5, FwSays
      <3>2. fwout \in Seq(Confirmations)
        BY DEF TypeInv
      <3> QED BY <3>1, <3>2
    <2> QED BY <1>5, <2>1, FwFrame DEF HandInv
  <1> QED BY <1>1, <1>2, <1>3, <1>4, <1>5, NextSteps
-----------------------------------------------------------------------------
(***************************************************************************)
(* Lists of answers.                                                       *)
(***************************************************************************)
LEMMA CmdsAppend ==
    ASSUME NEW s \in Seq(Confirmations), NEW m \in Confirmations
    PROVE  /\ m.cmd = Null => CmdsOf(Append(s, m)) = CmdsOf(s)
           /\ m.cmd # Null => /\ CmdsOf(Append(s, m)) = CmdsOf(s) \cup {Len(s) + 1}
                              /\ Len(s) + 1 \notin CmdsOf(s)
           /\ \A k \in CmdsOf(s) : Append(s, m)[k] = s[k]
           /\ Append(s, m)[Len(s) + 1] = m
  <1> DEFINE t == Append(s, m)
  <1>1. /\ Len(s) \in Nat /\ DOMAIN s = 1 .. Len(s) /\ DOMAIN t = 1 .. (Len(s) + 1)
        /\ t[Len(s) + 1] = m /\ \A k \in DOMAIN s : t[k] = s[k]
    OBVIOUS
  <1> HIDE DEF t
  <1>2. \A k : k \in DOMAIN t <=> k \in DOMAIN s \/ k = Len(s) + 1
    BY <1>1
  <1>3. Len(s) + 1 \notin DOMAIN s
    BY <1>1
  <1>4. /\ m.cmd = Null => CmdsOf(t) = CmdsOf(s)
        /\ m.cmd # Null => CmdsOf(t) = CmdsOf(s) \cup {Len(s) + 1} /\ Len(s) + 1 \notin CmdsOf(s)
    BY <1>1, <1>2, <1>3, Zenon DEF CmdsOf
  <1>5. \A k \in CmdsOf(s) : t[k] = s[k]
    BY <1>1, Zenon DEF CmdsOf
  <1> QED BY <1>1, <1>4, <1>5 DEF t

LEMMA AppendNone ==
    ASSUME NEW s \in Seq(Confirmations), NEW m \in Confirmations, m.cmd = Null
    PROVE  /\ NoneIn(s) => NoneIn(Append(s, m))
           /\ LoneIn(s) => LoneIn(Append(s, m))
           /\ \A c : AllBy(s, c) => AllBy(Append(s, m), c)
  <1>1. CmdsOf(Append(s, m)) = CmdsOf(s) /\ \A k \in CmdsOf(s) : Append(s, m)[k] = s[k]
    BY CmdsAppend, Zenon
  <1> QED BY <1>1, Zenon DEF NoneIn, LoneIn, AllBy

LEMMA AppendOne ==
    ASSUME NEW s \in Seq(Confirmations), NEW m \in Confirmations, m.cmd # Null
    PROVE  /\ NoneIn(s) => LoneIn(Append(s, m))
           /\ \A c : AllBy(s, c) /\ m.cmd.by = c => AllBy(Append(s, m), c)
  <1>1. /\ CmdsOf(Append(s, m)) = CmdsOf(s) \cup {Len(s) + 1}
        /\ \A k \in CmdsOf(s) : Append(s, m)[k] = s[k]
        /\ Append(s, m)[Len(s) + 1] = m
    BY CmdsAppend, ZenonT(40)
  <1> QED BY <1>1, Zenon DEF NoneIn, LoneIn, AllBy

LEMMA CmdsPut ==
    ASSUME NEW s \in Seq(Confirmations), NEW m \in Confirmations
    PROVE  /\ \A k \in CmdsOf(<<m>> \o s) : k = 1 \/ (k - 1 \in CmdsOf(s) /\ (<<m>> \o s)[k] = s[k - 1])
           /\ (<<m>> \o s)[1] = m
  <1> DEFINE t == <<m>> \o s
  <1>1. <<m>> \in Seq(Confirmations) /\ Len(<<m>>) = 1 /\ <<m>>[1] = m
    OBVIOUS
  <1>2. Len(s) \in Nat /\ DOMAIN s = 1 .. Len(s) /\ DOMAIN t = 1 .. (1 + Len(s)) /\ t[1] = m
    BY <1>1
  <1>3. \A k \in 1 .. (1 + Len(s)) : k # 1 => t[k] = s[k - 1]
    BY <1>1, <1>2
  <1> HIDE DEF t
  <1>4. \A k \in DOMAIN t : k # 1 => k - 1 \in DOMAIN s /\ t[k] = s[k - 1]
    BY <1>2, <1>3
  <1>5. \A k \in CmdsOf(t) : k = 1 \/ (k - 1 \in CmdsOf(s) /\ t[k] = s[k - 1])
    BY <1>4, Zenon DEF CmdsOf
  <1> QED BY <1>2, <1>5 DEF t

LEMMA PutOne ==
    ASSUME NEW s \in Seq(Confirmations), NEW m \in Confirmations
    PROVE  /\ NoneIn(s) => LoneIn(<<m>> \o s)
           /\ \A c : AllBy(s, c) /\ m.cmd.by = c => AllBy(<<m>> \o s, c)
  <1>1. /\ \A k \in CmdsOf(<<m>> \o s) : k = 1 \/ (k - 1 \in CmdsOf(s) /\ (<<m>> \o s)[k] = s[k - 1])
        /\ (<<m>> \o s)[1] = m
    BY CmdsPut
  <1> QED BY <1>1, Zenon DEF NoneIn, LoneIn, AllBy

LEMMA CmdsTail ==
    ASSUME NEW s \in Seq(Confirmations), s # <<>>
    PROVE  /\ \A k \in CmdsOf(Tail(s)) : k \in Nat \ {0} /\ k + 1 \in CmdsOf(s) /\ Tail(s)[k] = s[k + 1]
           /\ \A k \in CmdsOf(s) : k \in Nat \ {0} /\ (k # 1 => k - 1 \in CmdsOf(Tail(s)))
           /\ 1 \in CmdsOf(s) <=> Head(s).cmd # Null
           /\ Head(s) = s[1]
  <1> DEFINE t == Tail(s)
  <1>1. /\ Len(s) \in Nat /\ DOMAIN s = 1 .. Len(s) /\ DOMAIN t = 1 .. (Len(s) - 1)
        /\ Head(s) = s[1] /\ 1 \in DOMAIN s
    OBVIOUS
  <1>2. \A k \in 1 .. (Len(s) - 1) : t[k] = s[k + 1]
    OBVIOUS
  <1> HIDE DEF t
  <1>3. \A k \in DOMAIN t : k \in Nat \ {0} /\ k + 1 \in DOMAIN s /\ t[k] = s[k + 1]
    BY <1>1, <1>2
  <1>4. \A k \in DOMAIN s : k \in Nat \ {0} /\ (k # 1 => k - 1 \in DOMAIN t /\ t[k - 1] = s[k])
    BY <1>1, <1>2
  <1>5. \A k \in CmdsOf(t) : k \in Nat \ {0} /\ k + 1 \in CmdsOf(s) /\ t[k] = s[k + 1]
    BY <1>3, Zenon DEF CmdsOf
  <1>6. \A k \in CmdsOf(s) : k \in Nat \ {0} /\ (k # 1 => k - 1 \in CmdsOf(t))
    BY <1>4, Zenon DEF CmdsOf
  <1>7. 1 \in CmdsOf(s) <=> Head(s).cmd # Null
    BY <1>1, Zenon DEF CmdsOf
  <1> QED BY <1>1, <1>5, <1>6, <1>7 DEF t

LEMMA TailOf ==
    ASSUME NEW s \in Seq(Confirmations), s # <<>>
    PROVE  /\ NoneIn(s) => NoneIn(Tail(s)) /\ Head(s).cmd = Null
           /\ LoneIn(s) => LoneIn(Tail(s))
           /\ LoneIn(s) /\ Head(s).cmd # Null => NoneIn(Tail(s))
           /\ \A c : AllBy(s, c) =>
                AllBy(Tail(s), c) /\ (Head(s).cmd # Null => Head(s).cmd.by = c)
  <1>1. /\ \A k \in CmdsOf(Tail(s)) : k \in Nat \ {0} /\ k + 1 \in CmdsOf(s) /\ Tail(s)[k] = s[k + 1]
        /\ 1 \in CmdsOf(s) <=> Head(s).cmd # Null
        /\ Head(s) = s[1]
    BY CmdsTail, Zenon
  <1>2. NoneIn(s) => NoneIn(Tail(s)) /\ Head(s).cmd = Null
    BY <1>1, Zenon DEF NoneIn
  <1>3. LoneIn(s) => LoneIn(Tail(s))
    <2> SUFFICES ASSUME LoneIn(s), NEW j \in CmdsOf(Tail(s)), NEW k \in CmdsOf(Tail(s)) PROVE j = k
      BY Zenon DEF LoneIn
    <2>1. j \in Nat /\ k \in Nat /\ j + 1 = k + 1
      BY <1>1 DEF LoneIn
    <2> QED BY <2>1
  <1>4. LoneIn(s) /\ Head(s).cmd # Null => NoneIn(Tail(s))
    <2> SUFFICES ASSUME LoneIn(s), 1 \in CmdsOf(s), NEW k \in CmdsOf(Tail(s)) PROVE FALSE
      BY <1>1, Zenon DEF NoneIn
    <2>1. k \in Nat \ {0} /\ k + 1 = 1
      BY <1>1 DEF LoneIn
    <2> QED BY <2>1
  <1>5. \A c : AllBy(s, c) => AllBy(Tail(s), c) /\ (Head(s).cmd # Null => Head(s).cmd.by = c)
    BY <1>1, Zenon DEF AllBy
  <1> QED BY <1>2, <1>3, <1>4, <1>5
-----------------------------------------------------------------------------
(***************************************************************************)
(* The numbers of commands, the slot and the locks.                        *)
(***************************************************************************)
LEMMA SlotCaller ==
    ASSUME TypeInv, SlotInv, NEW c \in Callers, Caller(c)
    PROVE  SlotInv'
  <1> USE DEF SlotInv
  <1>1. UNCHANGED <<ppc, confirm>>
    BY CallerFrame
  <1>2. cpc \in [Callers -> {"idle", "send", "wait", "timeout", "last"}] /\ Null \notin Callers
    BY WsmAssumption DEF TypeInv
  <1>3. \A d \in Callers : cpc[d] # "idle" => wsm_cmd_sema = d
    OBVIOUS
  <1>4. wsm_cmd.arg # Null => wsm_cmd.arg \in Callers
    BY DEF TypeInv
  <1>5. confirm # Null /\ confirm.arg # Null => confirm.arg \in Callers
    BY DEF TypeInv
  <1>6. Taken \notin Ids
    BY MessagesDiffer
  <1>7. CASE /\ cpc[c] = "idle" /\ cpc' = [cpc EXCEPT ![c] = "send"]
             /\ wsm_cmd_sema = Null /\ wsm_cmd_sema' = c /\ UNCHANGED <<wsm_cmd, bh_error>>
    <2>1. \A d \in Callers : cpc[d] = "idle"
      BY <1>2, <1>3, <1>7
    <2> QED BY <1>1, <1>2, <1>4, <1>5, <1>7, <2>1
  <1>8. ASSUME NEW i \in Ids, cpc[c] = "send", cpc' = [cpc EXCEPT ![c] = "wait"],
               wsm_cmd' = [ptr |-> Cmd(c, i), arg |-> c, cmd |-> i, done |-> FALSE],
               ~bh_error, UNCHANGED <<wsm_cmd_sema, calls, bh_error>>
        PROVE  SlotInv'
    <2>1. confirm = Null
      BY <1>2, <1>3, <1>5, <1>8
    <2>2. wsm_cmd'.arg = c /\ wsm_cmd'.cmd = i /\ wsm_cmd'.done = FALSE
      BY <1>8
    <2> QED BY <1>1, <1>2, <1>3, <1>8, <2>1, <2>2
  <1>9. CASE /\ cpc[c] \in {"send", "wait"} /\ cpc' = [cpc EXCEPT ![c] = "idle"]
             /\ cpc[c] = "wait" => wsm_cmd.done
             /\ wsm_cmd_sema' = Null /\ UNCHANGED <<wsm_cmd, calls, bh_error>>
    <2>1. ~(confirm # Null /\ confirm.arg # Null)
      BY <1>2, <1>3, <1>5, <1>9
    <2>2. ~(wsm_cmd.cmd \in Ids /\ wsm_cmd.arg # Null)
      BY <1>2, <1>3, <1>4, <1>9
    <2> QED BY <1>1, <1>2, <1>3, <1>9, <2>1, <2>2
  <1>10. CASE /\ cpc[c] = "wait" /\ cpc' = [cpc EXCEPT ![c] = "timeout"]
              /\ UNCHANGED <<wsm_cmd_sema, wsm_cmd, calls, bh_error>>
    BY <1>1, <1>2, <1>3, <1>4, <1>5, <1>10
  <1>11. CASE /\ cpc[c] = "timeout" /\ wsm_cmd' = [wsm_cmd EXCEPT !.arg = Null, !.ptr = Null]
              /\ wsm_cmd.cmd = Taken /\ cpc' = [cpc EXCEPT ![c] = "last"]
              /\ UNCHANGED <<wsm_cmd_sema, calls, bh_error>>
    <2>1. wsm_cmd'.cmd = Taken /\ wsm_cmd'.done = wsm_cmd.done
      BY <1>11 DEF TypeInv
    <2> QED BY <1>1, <1>2, <1>3, <1>5, <1>6, <1>11, <2>1
  <1>12. CASE /\ cpc[c] = "timeout" /\ wsm_cmd' = [wsm_cmd EXCEPT !.arg = Null, !.ptr = Null]
              /\ wsm_cmd.cmd # Taken /\ cpc' = [cpc EXCEPT ![c] = "idle"]
              /\ wsm_cmd_sema' = Null /\ UNCHANGED calls /\ bh_error' = TRUE
    <2>1. wsm_cmd'.arg = Null
      BY <1>12 DEF TypeInv
    <2>2. confirm = Null
      BY <1>12
    <2> QED BY <1>1, <1>2, <1>3, <1>12, <2>1, <2>2
  <1>13. CASE /\ cpc[c] = "last" /\ cpc' = [cpc EXCEPT ![c] = "idle"]
              /\ wsm_cmd.done \/ ppc # "confirm"
              /\ wsm_cmd_sema' = Null /\ UNCHANGED <<wsm_cmd, calls>> /\ bh_error' = TRUE
    <2>1. ~(confirm # Null /\ confirm.arg # Null)
      BY <1>2, <1>3, <1>5, <1>13
    <2>2. ~(wsm_cmd.cmd \in Ids /\ wsm_cmd.arg # Null)
      BY <1>2, <1>3, <1>4, <1>13
    <2> QED BY <1>1, <1>2, <1>3, <1>13, <2>1, <2>2
  <1> HIDE DEF SlotInv
  <1> QED BY <1>7, <1>8, <1>9, <1>10, <1>11, <1>12, <1>13, CallerMoves

LEMMA SlotStep ==
    ASSUME TypeInv, HandInv, SlotInv, Next
    PROVE  SlotInv'
  <1>1. ASSUME NEW l \in Lockers, Locker(l) PROVE SlotInv'
    <2>1. bh_error' = bh_error \/ bh_error' = TRUE
      BY <1>1, LockerMoves
    <2> QED BY <1>1, <2>1, LockerFrame DEF SlotInv
  <1>2. ASSUME BhStep PROVE SlotInv'
    <2>1. UNCHANGED <<wsm_cmd_sema, cpc, ppc, confirm>>
      BY <1>2, BhFrame
    <2>2. bh_error' = bh_error \/ bh_error' = TRUE
      BY <1>2, Zenon DEF BhStep, BottomHalf, BhEvent, BhIdle, BhData, BhRead, BhReadLater, BhSend,
         xradio_bh_get, BhWrite, BhEnd, BhFrameTimeout, BhFault, Dies, flagVars
    <2>3. wsm_cmd' = wsm_cmd \/ wsm_cmd' = [wsm_cmd EXCEPT !.ptr = Null]
      BY <1>2, BhSteps, BhQuietFrame, BhReads, BhSends, BhGets, BhWrites, BhFails, Zenon
    <2>4. wsm_cmd'.cmd = wsm_cmd.cmd /\ wsm_cmd'.arg = wsm_cmd.arg /\ wsm_cmd'.done = wsm_cmd.done
      BY <2>3 DEF TypeInv
    <2> QED BY <2>1, <2>2, <2>4 DEF SlotInv
  <1>3. ASSUME Proc \/ xradio_tx PROVE SlotInv'
    <2>1. UNCHANGED <<wsm_cmd_sema, cpc, bh_error>>
      BY <1>3, ProcFrame
    <2>2. CASE xradio_tx
      BY <2>1, <2>2, StackPuts DEF SlotInv
    <2>3. CASE ProcWake
      BY <2>1, <2>3, ProcWakes DEF SlotInv
    <2>4. CASE wsm_handle_rx
      <3>1. ppc = "rx" /\ confirm = Null
        BY <2>4, ProcHandles DEF SlotInv
      <3>2. CASE ppc' \in {"wait", "rx", "tx"} /\ UNCHANGED <<wsm_cmd, confirm>>
        BY <2>1, <3>1, <3>2 DEF SlotInv
      <3>3. CASE /\ wsm_cmd' = [wsm_cmd EXCEPT !.cmd = Taken] /\ Head(rxq).cmd.id = wsm_cmd.cmd
                 /\ ppc' = "confirm" /\ confirm' = [cmd |-> Head(rxq).cmd, arg |-> wsm_cmd.arg]
                 /\ Head(rxq).cmd # Null
        <4>1. wsm_cmd.cmd \in Ids
          <5>1. Head(rxq) \in Confirmations
            BY <2>4, ProcHandles DEF TypeInv
          <5>2. Head(rxq).cmd \in Commands
            BY <3>3, <5>1 DEF Confirmations
          <5> QED BY <3>3, <5>2 DEF Commands
        <4>2. wsm_cmd'.cmd = Taken /\ wsm_cmd'.arg = wsm_cmd.arg /\ wsm_cmd'.done = wsm_cmd.done
          BY <3>3 DEF TypeInv
        <4>3. confirm' # Null /\ confirm'.arg = wsm_cmd.arg
          <5>1. Head(rxq).cmd \in Commands
            BY <2>4, <3>3, ProcHandles DEF TypeInv, Confirmations
          <5>2. wsm_cmd.arg \in Callers \cup {Null}
            BY DEF TypeInv
          <5>3. confirm' \in Handled
            BY <3>3, <5>1, <5>2 DEF Handled
          <5> QED BY <3>3, <5>3, MessagesDiffer
        <4> QED BY <2>1, <3>3, <4>1, <4>2, <4>3, MessagesDiffer DEF SlotInv
      <3>4. CASE wsm_cmd' = [wsm_cmd EXCEPT !.cmd = Taken] /\ UNCHANGED confirm /\ ppc' = "wait"
        <4>1. wsm_cmd'.cmd = Taken
          BY <3>4 DEF TypeInv
        <4> QED BY <2>1, <3>1, <3>4, <4>1, MessagesDiffer DEF SlotInv
      <3> QED BY <2>4, <3>2, <3>3, <3>4, ProcHandles
    <2>5. CASE ConfirmDone
      <3>1. ppc = "confirm" /\ confirm' = Null /\ ppc' # "confirm" /\ wsm_cmd' = [wsm_cmd EXCEPT !.done = TRUE]
        BY <2>5, ProcCompletes
      <3>2. wsm_cmd'.cmd = Taken
        BY <3>1 DEF SlotInv, TypeInv
      <3> QED BY <2>1, <3>1, <3>2, MessagesDiffer DEF SlotInv
    <2>6. CASE wsm_get_tx
      BY <2>1, <2>6, ProcGives DEF SlotInv
    <2> QED BY <1>3, <2>2, <2>3, <2>4, <2>5, <2>6 DEF Proc
  <1>4. ASSUME FwStep PROVE SlotInv'
    BY <1>4, FwFrame DEF SlotInv
  <1> QED BY <1>1, <1>2, <1>3, <1>4, NextSteps, SlotCaller

LEMMA NumberStep ==
    ASSUME TypeInv, HandInv, NumberInv, SlotInv, Next
    PROVE  NumberInv'
  <1>1. \A m \in Commands : m.no \in Nat
    BY DEF Commands
  <1>2. calls \in Nat
    BY DEF TypeInv
  <1>3. Null \notin Commands /\ Null \notin Messages /\ \A f \in Frames : f \notin Commands
    BY WsmAssumption, MessagesDiffer DEF Messages
  <1>4. ASSUME NEW c \in Callers, Caller(c) PROVE NumberInv'
    <2>1. UNCHANGED <<inhand, atfw>>
      BY <1>4, CallerFrame
    <2>2. cpc \in [Callers -> {"idle", "send", "wait", "timeout", "last"}]
      BY DEF TypeInv
    <2>3. CASE /\ cpc[c] = "idle" /\ cpc' = [cpc EXCEPT ![c] = "send"]
               /\ calls' = calls + 1 /\ UNCHANGED wsm_cmd
      <3>1. \A m \in (atfw \cup {inhand, wsm_cmd.ptr}) \cap Commands : m.no <= calls
        BY DEF NumberInv
      <3>2. \A m \in (atfw \cup {inhand, wsm_cmd.ptr}) \cap Commands : m.no < calls' /\ m.no <= calls'
        BY <1>1, <1>2, <2>3, <3>1
      <3>3. calls' > 0
        BY <1>2, <2>3
      <3> QED BY <2>1, <2>3, <3>2, <3>3 DEF NumberInv
    <2>4. ASSUME NEW i \in Ids, cpc[c] = "send", cpc' = [cpc EXCEPT ![c] = "wait"],
                 wsm_cmd' = [ptr |-> Cmd(c, i), arg |-> c, cmd |-> i, done |-> FALSE],
                 UNCHANGED calls
          PROVE  NumberInv'
      <3>1. \A m \in (atfw \cup {inhand}) \cap Commands : m.no < calls
        BY <2>4 DEF NumberInv
      <3>2. wsm_cmd'.ptr = Cmd(c, i) /\ Cmd(c, i).no = calls
        BY <2>4 DEF Cmd
      <3>3. calls \in 1 .. MaxCalls
        <4>1. calls > 0
          BY <2>4 DEF NumberInv
        <4> QED BY <4>1 DEF TypeInv
      <3>4. Cmd(c, i) \in Commands
        BY <3>3 DEF Cmd, Commands
      <3>5. Cmd(c, i) \notin atfw
        <4> SUFFICES ASSUME Cmd(c, i) \in atfw PROVE FALSE
          OBVIOUS
        <4>1. Cmd(c, i).no < calls
          BY <3>1, <3>4
        <4> QED BY <1>2, <3>2, <4>1
      <3>6. \A d \in Callers : cpc'[d] # "send"
        <4>1. \A d \in Callers : d # c => cpc[d] = "idle"
          BY <2>4 DEF SlotInv
        <4> QED BY <2>2, <2>4, <4>1
      <3>7. \A m \in (atfw \cup {inhand, Cmd(c, i)}) \cap Commands : m.no <= calls
        BY <1>1, <1>2, <3>1, <3>2
      <3>8. calls > 0
        BY <3>3
      <3> QED BY <2>1, <2>4, <3>2, <3>5, <3>6, <3>7, <3>8 DEF NumberInv
    <2>5. CASE /\ UNCHANGED calls
               /\ \E pc \in {"idle", "timeout", "last"} : cpc' = [cpc EXCEPT ![c] = pc] /\ cpc[c] # "idle"
               /\ wsm_cmd' = wsm_cmd \/ wsm_cmd' = [wsm_cmd EXCEPT !.arg = Null, !.ptr = Null]
      <3>1. wsm_cmd'.ptr \in {wsm_cmd.ptr, Null}
        BY <2>5 DEF TypeInv
      <3>2. \A d \in Callers : cpc'[d] # "idle" => cpc[d] # "idle"
        BY <2>2, <2>5
      <3>3. \A d \in Callers : cpc'[d] = "send" => cpc[d] = "send"
        BY <2>2, <2>5
      <3>4. Null \notin atfw
        BY <1>3 DEF TypeInv
      <3> QED BY <1>3, <2>1, <2>5, <3>1, <3>2, <3>3, <3>4 DEF NumberInv
    <2> QED BY <1>4, <2>3, <2>4, <2>5, CallerMoves
  <1>5. ASSUME NEW l \in Lockers, Locker(l) PROVE NumberInv'
    <2>1. calls' = calls \/ calls' = calls + 1
      BY <1>5, LockerMoves
    <2>2. UNCHANGED <<wsm_cmd, cpc, inhand, atfw>>
      BY <1>5, LockerFrame
    <2>3. calls' \in Nat /\ calls <= calls'
      BY <1>2, <2>1
    <2>4. \A m \in (atfw \cup {inhand, wsm_cmd.ptr}) \cap Commands :
            m.no <= calls' /\ \A c \in Callers : cpc[c] = "send" => m.no < calls'
      <3> TAKE m \in (atfw \cup {inhand, wsm_cmd.ptr}) \cap Commands
      <3>1. m.no \in Nat /\ m.no <= calls
        BY <1>1 DEF NumberInv
      <3>2. \A c \in Callers : cpc[c] = "send" => m.no < calls
        BY DEF NumberInv
      <3>3. m.no <= calls'
        BY <1>2, <2>3, <3>1
      <3>4. m.no < calls => m.no < calls'
        BY <1>2, <2>3, <3>1
      <3> QED BY <3>2, <3>3, <3>4
    <2>5. calls > 0 => calls' > 0
      BY <1>2, <2>3
    <2> QED BY <2>2, <2>4, <2>5 DEF NumberInv
  <1>6. ASSUME BhStep PROVE NumberInv'
    <2>1. UNCHANGED <<cpc, calls>>
      BY <1>6, BhFrame
    <2>2. wsm_cmd'.ptr \in {wsm_cmd.ptr, Null}
      <3>1. wsm_cmd' = wsm_cmd \/ wsm_cmd' = [wsm_cmd EXCEPT !.ptr = Null]
        BY <1>6, BhSteps, BhQuietFrame, BhReads, BhSends, BhGets, BhWrites, BhFails, Zenon
      <3> QED BY <3>1 DEF TypeInv
    <2>3. Null \notin atfw
      BY <1>3 DEF TypeInv
    <2>4. CASE BhQuiet \/ BhRead \/ BhSend \/ BhFault
      <3>1. UNCHANGED atfw /\ inhand' \in {inhand, Null}
        BY <2>4, BhQuietFrame, BhReads, BhSends, BhFails
      <3> QED BY <1>3, <2>1, <2>2, <2>3, <3>1 DEF NumberInv
    <2>5. CASE xradio_bh_get
      <3>1. UNCHANGED <<wsm_cmd, atfw>>
        BY <2>5, BhGets
      <3>2. inhand' \in {inhand, wsm_cmd.ptr} \/ inhand' \in Frames
        <4>1. bhtx # <<>> => Head(bhtx) \in Frames
          BY DEF TypeInv
        <4> QED BY <2>5, <4>1, BhGets
      <3> QED BY <1>3, <2>1, <3>1, <3>2 DEF NumberInv
    <2>6. CASE BhWrite
      <3>1. inhand' = Null
        BY <2>6, BhWrites
      <3>2. CASE inhand \in Frames /\ atfw' = atfw \cup {inhand} /\ UNCHANGED wsm_cmd
        <4>1. wsm_cmd.ptr \notin Frames
          BY <1>3, WsmAssumption DEF TypeInv
        <4> QED BY <1>3, <2>1, <3>1, <3>2, <4>1 DEF NumberInv
      <3>3. ASSUME wsm_cmd' = [wsm_cmd EXCEPT !.ptr = Null], NEW m \in {wsm_cmd.ptr, inhand},
                   m \in Commands, atfw' = atfw \cup {m}
            PROVE  NumberInv'
        <4>1. wsm_cmd'.ptr = Null
          BY <3>3 DEF TypeInv
        <4> QED BY <1>3, <2>1, <2>3, <3>1, <3>3, <4>1 DEF NumberInv
      <3> QED BY <2>6, <3>2, <3>3, BhWrites
    <2> QED BY <1>6, <2>4, <2>5, <2>6, BhSteps
  <1>7. ASSUME Proc \/ xradio_tx PROVE NumberInv'
    <2>1. UNCHANGED <<cpc, calls, inhand, atfw>>
      BY <1>7, ProcFrame
    <2>2. wsm_cmd' = wsm_cmd \/ wsm_cmd' = [wsm_cmd EXCEPT !.cmd = Taken] \/ wsm_cmd' = [wsm_cmd EXCEPT !.done = TRUE]
      BY <1>7, StackPuts, ProcWakes, ProcHandles, ProcCompletes, ProcGives, Zenon DEF Proc
    <2>3. wsm_cmd'.ptr = wsm_cmd.ptr
      BY <2>2 DEF TypeInv
    <2> QED BY <2>1, <2>3 DEF NumberInv
  <1>8. ASSUME FwStep PROVE NumberInv'
    <2>1. UNCHANGED <<cpc, calls, inhand, wsm_cmd>>
      BY <1>8, FwFrame
    <2>2. atfw' \subseteq atfw
      BY <1>8, FwSays
    <2> QED BY <2>1, <2>2 DEF NumberInv
  <1> QED BY <1>4, <1>5, <1>6, <1>7, <1>8, NextSteps

LEMMA LockStep ==
    ASSUME TypeInv, LockInv, Next
    PROVE  LockInv'
  <1> DEFINE A == {l \in Lockers : lpc[l] # "idle"}
  <1>1. IsFiniteSet(A) /\ Cardinality(A) \in Nat /\ tx_lock \in Int /\ calls \in Nat
    <2>1. IsFiniteSet(A) /\ Cardinality(A) \in Nat
      BY WsmAssumption, FS_Subset, FS_CardinalityType
    <2> QED BY <2>1 DEF TypeInv
  <1>2. tx_lock >= Cardinality(A) /\ tx_lock <= calls
    BY DEF LockInv
  <1>3. ASSUME NEW c \in Callers, Caller(c) PROVE LockInv'
    <2>1. UNCHANGED <<tx_lock, lpc>>
      BY <1>3, CallerFrame
    <2>2. calls' = calls \/ calls' = calls + 1
      BY <1>3, CallerMoves
    <2>3. tx_lock' >= Cardinality(A)
      BY <1>2, <2>1
    <2>4. A' = A
      BY <2>1
    <2> HIDE DEF A
    <2>5. tx_lock' <= calls'
      BY <1>1, <1>2, <2>1, <2>2
    <2> QED BY <2>3, <2>4, <2>5 DEF LockInv, A
  <1>4. ASSUME NEW l \in Lockers, Locker(l) PROVE LockInv'
    <2>1. lpc \in [Lockers -> {"idle", "flush", "drain", "held"}]
      BY DEF TypeInv
    <2>2. CASE /\ lpc[l] = "idle" /\ \E pc \in {"flush", "held"} : lpc' = [lpc EXCEPT ![l] = pc]
               /\ calls' = calls + 1 /\ tx_lock' = tx_lock + 1
      <3>1. A' = A \cup {l} /\ l \notin A
        BY <2>1, <2>2
      <3> HIDE DEF A
      <3>2. Cardinality(A') = Cardinality(A) + 1
        BY <1>1, <3>1, FS_AddElement
      <3>3. tx_lock' >= Cardinality(A') /\ tx_lock' <= calls'
        BY <1>1, <1>2, <2>2, <3>2
      <3> QED BY <3>3 DEF LockInv, A
    <2>3. CASE /\ lpc[l] # "idle" /\ UNCHANGED <<calls, tx_lock>>
               /\ \E pc \in {"flush", "drain", "held"} : lpc' = [lpc EXCEPT ![l] = pc]
      <3>1. A' = A
        BY <2>1, <2>3
      <3> HIDE DEF A
      <3>2. tx_lock' >= Cardinality(A') /\ tx_lock' <= calls'
        BY <1>2, <2>3, <3>1
      <3> QED BY <3>2 DEF LockInv, A
    <2>4. CASE /\ lpc[l] = "held" /\ UNCHANGED calls /\ lpc' = [lpc EXCEPT ![l] = "idle"]
               /\ tx_lock' \in {tx_lock, tx_lock - 1}
      <3>1. A' = A \ {l} /\ l \in A
        BY <2>1, <2>4
      <3> HIDE DEF A
      <3>2. Cardinality(A') = Cardinality(A) - 1
        BY <1>1, <3>1, FS_RemoveElement
      <3>3. tx_lock' >= Cardinality(A') /\ tx_lock' <= calls'
        BY <1>1, <1>2, <2>4, <3>2
      <3> QED BY <3>3 DEF LockInv, A
    <2> QED BY <1>4, <2>2, <2>3, <2>4, LockerMoves
  <1>5. CASE UNCHANGED <<tx_lock, lpc, calls>>
    BY <1>5 DEF LockInv
  <1> QED BY <1>3, <1>4, <1>5, NextSteps, BhFrame, ProcFrame, FwFrame
-----------------------------------------------------------------------------
(***************************************************************************)
(* The command under way.                                                  *)
(***************************************************************************)
LEMMA LoneSame ==
    ASSUME LoneInv, UNCHANGED <<wsm_cmd, inhand, atfw, fwout, rxq, confirm, repeats>>,
           bh_error' = bh_error \/ bh_error' = TRUE
    PROVE  LoneInv'
  BY Zenon DEF LoneInv, Open, NoneIn, LoneIn, AllBy, CmdsOf

LEMMA LoneCaller ==
    ASSUME TypeInv, SlotInv, LoneInv, NEW c \in Callers, Caller(c)
    PROVE  LoneInv'
  <1>1. UNCHANGED <<inhand, atfw, fwout, rxq, confirm, repeats>>
    BY CallerFrame
  <1>2. CASE UNCHANGED wsm_cmd /\ (bh_error' = bh_error \/ bh_error' = TRUE)
    BY <1>1, <1>2, LoneSame
  <1>3. ASSUME NEW i \in Ids, cpc[c] = "send",
               wsm_cmd' = [ptr |-> Cmd(c, i), arg |-> c, cmd |-> i, done |-> FALSE],
               ~bh_error, UNCHANGED bh_error, repeats = 0
        PROVE  LoneInv'
    <2>1. ~Open
      <3> SUFFICES ASSUME Open PROVE FALSE
        OBVIOUS
      <3>1. wsm_cmd.arg \in Callers
        BY DEF Open, TypeInv
      <3>2. cpc[wsm_cmd.arg] \in {"wait", "timeout"}
        BY DEF SlotInv, Open
      <3>3. wsm_cmd_sema = wsm_cmd.arg /\ wsm_cmd_sema = c
        BY <1>3, <3>1, <3>2 DEF SlotInv
      <3> QED BY <1>3, <3>2, <3>3
    <2>2. inhand \notin Commands /\ atfw \cap Commands = {} /\ NoneIn(fwout) /\ NoneIn(rxq)
      BY <1>3, <2>1, Zenon DEF LoneInv
    <2>3. wsm_cmd'.ptr = Cmd(c, i) /\ wsm_cmd'.arg = c /\ wsm_cmd'.cmd = i /\ Cmd(c, i).by = c
      BY <1>3 DEF Cmd
    <2>4. confirm # Null /\ confirm.arg # Null => confirm.cmd.by = confirm.arg
      BY <1>3 DEF LoneInv
    <2>5. Open'
      BY <2>3, <1>3, WsmAssumption DEF Open
    <2>6. \A m \in (atfw \cup {inhand, Cmd(c, i)}) \cap Commands : m.by = c
      BY <2>2, <2>3
    <2>7. AllBy(fwout, c) /\ AllBy(rxq, c) /\ LoneIn(fwout) /\ LoneIn(rxq)
      BY <2>2 DEF NoneIn, LoneIn, AllBy
    <2> HIDE DEF NoneIn, LoneIn, AllBy, Open
    <2>8. /\ NoneIn(fwout)' /\ NoneIn(rxq)' /\ LoneIn(fwout)' /\ LoneIn(rxq)'
          /\ AllBy(fwout, wsm_cmd.arg)' /\ AllBy(rxq, wsm_cmd.arg)'
      BY <1>1, <2>2, <2>3, <2>7 DEF NoneIn, LoneIn, AllBy, CmdsOf
    <2> QED BY <1>1, <2>2, <2>3, <2>4, <2>5, <2>6, <2>8, Zenon DEF LoneInv
  <1>4. ASSUME wsm_cmd' = [wsm_cmd EXCEPT !.arg = Null, !.ptr = Null],
               wsm_cmd.cmd = Taken \/ bh_error' = TRUE, bh_error' = bh_error \/ bh_error' = TRUE
        PROVE  LoneInv'
    <2>1. wsm_cmd'.arg = Null /\ wsm_cmd'.ptr = Null
      BY <1>4 DEF TypeInv
    <2>2. ~Open'
      BY <2>1 DEF Open
    <2>3. CASE bh_error' = TRUE
      BY <1>1, <2>2, <2>3, Zenon DEF LoneInv
    <2>4. CASE bh_error' # TRUE
      <3>1. ~Open
        BY <1>4, <2>4, MessagesDiffer DEF Open
      <3>2. repeats = 0 =>
              /\ inhand \notin Commands /\ atfw \cap Commands = {} /\ NoneIn(fwout) /\ NoneIn(rxq)
              /\ confirm # Null /\ confirm.arg # Null => confirm.cmd.by = confirm.arg
        BY <1>4, <2>4, <3>1, Zenon DEF LoneInv
      <3>3. repeats = 0 => NoneIn(fwout)' /\ NoneIn(rxq)' /\ LoneIn(fwout)' /\ LoneIn(rxq)'
        BY <1>1, <3>2 DEF NoneIn, LoneIn, CmdsOf
      <3> QED BY <1>1, <2>1, <2>2, <3>2, <3>3, Zenon DEF LoneInv
    <2> QED BY <2>3, <2>4
  <1>5. CASE repeats # 0
    BY <1>1, <1>5 DEF LoneInv
  <1> QED BY <1>2, <1>3, <1>4, <1>5, CallerMoves

LEMMA LoneBh ==
    ASSUME TypeInv, HandInv, LoneInv, BhStep
    PROVE  LoneInv'
  <1>1. UNCHANGED <<confirm, repeats>>
    BY BhFrame
  <1>2. SUFFICES ASSUME repeats = 0 PROVE LoneInv'
    BY <1>1 DEF LoneInv
  <1>3. Null \notin Commands
    BY MessagesDiffer
  <1>4. CASE BhQuiet \/ BhSend
    <2>1. UNCHANGED <<wsm_cmd, inhand, atfw, fwout, rxq>>
      BY <1>4, BhQuietFrame, BhSends
    <2>2. bh_error' = bh_error \/ bh_error' = TRUE
      BY <1>4, BhSends, Zenon DEF BhQuiet, BhEvent, BhIdle, BhData, BhReadLater, BhEnd,
         BhFrameTimeout, Dies, flagVars
    <2> QED BY <1>1, <2>1, <2>2, LoneSame
  <1>5. CASE BhFault
    <2>1. UNCHANGED <<wsm_cmd, atfw, fwout, rxq>> /\ inhand' = Null /\ bh_error' = TRUE
      BY <1>5, BhFails
    <2>2. Open' = Open
      BY <2>1 DEF Open
    <2>3. /\ AllBy(fwout, wsm_cmd.arg)' = AllBy(fwout, wsm_cmd.arg)
          /\ AllBy(rxq, wsm_cmd.arg)' = AllBy(rxq, wsm_cmd.arg)
      BY <2>1 DEF AllBy, CmdsOf
    <2> QED BY <1>1, <1>2, <1>3, <2>1, <2>2, <2>3, Zenon DEF LoneInv
  <1>6. CASE xradio_bh_get
    <2>1. UNCHANGED <<wsm_cmd, atfw, fwout, rxq, bh_error>>
      BY <1>6, BhGets
    <2>2. inhand' = wsm_cmd.ptr \/ inhand' \notin Commands \/ inhand' = inhand
      <3>1. bhtx # <<>> => Head(bhtx) \notin Commands
        BY MessagesDiffer DEF TypeInv
      <3> QED BY <1>6, <3>1, BhGets
    <2>3. Open' = Open
      BY <2>1 DEF Open
    <2>4. /\ AllBy(fwout, wsm_cmd.arg)' = AllBy(fwout, wsm_cmd.arg)
          /\ AllBy(rxq, wsm_cmd.arg)' = AllBy(rxq, wsm_cmd.arg)
          /\ NoneIn(fwout)' = NoneIn(fwout) /\ NoneIn(rxq)' = NoneIn(rxq)
          /\ LoneIn(fwout)' = LoneIn(fwout) /\ LoneIn(rxq)' = LoneIn(rxq)
      BY <2>1 DEF AllBy, NoneIn, LoneIn, CmdsOf
    <2>5. /\ inhand' \in Commands => inhand' = wsm_cmd.ptr \/ inhand' = inhand
          /\ wsm_cmd'.ptr = wsm_cmd.ptr /\ wsm_cmd'.arg = wsm_cmd.arg
      BY <2>1, <2>2
    <2> QED BY <1>1, <1>2, <1>3, <2>1, <2>3, <2>4, <2>5 DEF LoneInv
  <1>7. CASE BhWrite
    <2>1. UNCHANGED <<fwout, rxq, bh_error>> /\ inhand' = Null
      BY <1>7, BhWrites
    <2>2. /\ NoneIn(fwout)' = NoneIn(fwout) /\ NoneIn(rxq)' = NoneIn(rxq)
          /\ LoneIn(fwout)' = LoneIn(fwout) /\ LoneIn(rxq)' = LoneIn(rxq)
      BY <2>1 DEF NoneIn, LoneIn, CmdsOf
    <2>3. CASE inhand \in Frames /\ inhand \notin Commands /\ atfw' = atfw \cup {inhand} /\ UNCHANGED wsm_cmd
      <3>1. atfw' \cap Commands = atfw \cap Commands /\ Open' = Open
        BY <2>3 DEF Open
      <3>2. /\ AllBy(fwout, wsm_cmd.arg)' = AllBy(fwout, wsm_cmd.arg)
            /\ AllBy(rxq, wsm_cmd.arg)' = AllBy(rxq, wsm_cmd.arg)
        BY <2>1, <2>3 DEF AllBy, CmdsOf
      <3>3. Open => \A m \in (atfw' \cup {inhand', wsm_cmd'.ptr}) \cap Commands : m.by = wsm_cmd.arg
        BY <1>2, <1>3, <2>1, <2>3 DEF LoneInv
      <3> QED BY <1>1, <1>2, <1>3, <2>1, <2>2, <2>3, <3>1, <3>2, <3>3 DEF LoneInv
    <2>4. ASSUME inhand \in Commands, wsm_cmd' = [wsm_cmd EXCEPT !.ptr = Null],
                 NEW m \in {wsm_cmd.ptr, inhand}, m \in Commands, atfw' = atfw \cup {m}
          PROVE  LoneInv'
      <3>1. wsm_cmd'.arg = wsm_cmd.arg /\ wsm_cmd'.cmd = wsm_cmd.cmd /\ wsm_cmd'.ptr = Null
        BY <2>4 DEF TypeInv
      <3>2. Open' = Open
        BY <3>1 DEF Open
      <3>3. /\ AllBy(fwout, wsm_cmd.arg)' = AllBy(fwout, wsm_cmd.arg)
            /\ AllBy(rxq, wsm_cmd.arg)' = AllBy(rxq, wsm_cmd.arg)
        BY <2>1, <3>1 DEF AllBy, CmdsOf
      <3>4. bh_error # TRUE => /\ Open /\ atfw \cap Commands = {} /\ NoneIn(fwout) /\ NoneIn(rxq)
                               /\ LoneIn(fwout) /\ LoneIn(rxq)
        <4>1. bh_error # TRUE => inhand = wsm_cmd.ptr /\ Open
          BY <1>2, <2>4 DEF LoneInv
        <4> QED BY <1>2, <1>3, <2>4, <4>1 DEF LoneInv
      <3>5. bh_error # TRUE => atfw' \cap Commands = {m}
        BY <2>4, <3>4
      <3>6. Open => \A x \in (atfw' \cup {inhand', wsm_cmd'.ptr}) \cap Commands : x.by = wsm_cmd.arg
        BY <1>2, <1>3, <2>1, <2>4, <3>1 DEF LoneInv
      <3>7. /\ Open => AllBy(fwout, wsm_cmd.arg) /\ AllBy(rxq, wsm_cmd.arg)
            /\ confirm # Null /\ confirm.arg # Null => confirm.cmd.by = confirm.arg
        BY <1>2 DEF LoneInv
      <3> QED BY <1>1, <1>3, <2>1, <2>2, <3>1, <3>2, <3>3, <3>4, <3>5, <3>6, <3>7 DEF LoneInv
    <2> QED BY <1>7, <2>3, <2>4, BhWrites
  <1>8. CASE BhRead
    <2> DEFINE m == Head(fwout)
    <2>1. /\ fwout # <<>> /\ fwout' = Tail(fwout) /\ UNCHANGED <<wsm_cmd, inhand, atfw>>
          /\ \/ rxq' = rxq /\ bh_error' = TRUE
             \/ m.cmd # Null /\ rxq' = <<m>> \o rxq /\ UNCHANGED bh_error
             \/ m.cmd = Null /\ rxq' = Append(rxq, m) /\ UNCHANGED bh_error
      BY <1>8, BhReads
    <2>2. fwout \in Seq(Confirmations) /\ rxq \in Seq(Confirmations) /\ m \in Confirmations
      BY <2>1 DEF TypeInv
    <2>3. /\ NoneIn(fwout) => NoneIn(Tail(fwout)) /\ m.cmd = Null
          /\ LoneIn(fwout) => LoneIn(Tail(fwout))
          /\ LoneIn(fwout) /\ m.cmd # Null => NoneIn(Tail(fwout))
          /\ \A c : AllBy(fwout, c) => AllBy(Tail(fwout), c) /\ (m.cmd # Null => m.cmd.by = c)
      BY <2>1, <2>2, TailOf
    <2>4. Open' = Open
      BY <2>1 DEF Open
    <2>5. /\ m.cmd = Null => /\ NoneIn(rxq) => NoneIn(Append(rxq, m))
                             /\ LoneIn(rxq) => LoneIn(Append(rxq, m))
                             /\ \A c : AllBy(rxq, c) => AllBy(Append(rxq, m), c)
          /\ NoneIn(rxq) => LoneIn(<<m>> \o rxq)
          /\ \A c : AllBy(rxq, c) /\ m.cmd.by = c => AllBy(<<m>> \o rxq, c)
      BY <2>2, AppendNone, PutOne, Zenon
    <2> HIDE DEF m
    <2>6. AllBy(fwout, wsm_cmd.arg)' <=> AllBy(Tail(fwout), wsm_cmd.arg)
      BY <2>1 DEF AllBy, CmdsOf
    <2>7. NoneIn(fwout)' = NoneIn(Tail(fwout)) /\ LoneIn(fwout)' = LoneIn(Tail(fwout))
      BY <2>1 DEF NoneIn, LoneIn, CmdsOf
    <2>8. Open => AllBy(Tail(fwout), wsm_cmd.arg) /\ (m.cmd # Null => m.cmd.by = wsm_cmd.arg)
      BY <1>2, <2>3 DEF LoneInv
    <2>9. Open => AllBy(rxq, wsm_cmd.arg)
      BY <1>2 DEF LoneInv
    <2>10. CASE rxq' = rxq /\ bh_error' = TRUE
      <3>1. AllBy(rxq, wsm_cmd.arg)' <=> AllBy(rxq, wsm_cmd.arg)
        BY <2>1, <2>10 DEF AllBy, CmdsOf
      <3> QED BY <1>1, <1>2, <2>1, <2>4, <2>6, <2>8, <2>9, <2>10, <3>1 DEF LoneInv
    <2>11. CASE m.cmd # Null /\ rxq' = <<m>> \o rxq /\ UNCHANGED bh_error
      <3>1. AllBy(rxq, wsm_cmd.arg)' <=> AllBy(<<m>> \o rxq, wsm_cmd.arg)
        BY <2>1, <2>11 DEF AllBy, CmdsOf
      <3>2. Open => AllBy(rxq, wsm_cmd.arg)'
        BY <2>5, <2>8, <2>9, <2>11, <3>1
      <3>3. LoneIn(rxq)' <=> LoneIn(<<m>> \o rxq)
        BY <2>11 DEF LoneIn, CmdsOf
      <3>4. bh_error # TRUE => /\ Open /\ wsm_cmd.ptr = Null /\ inhand \notin Commands
                               /\ atfw \cap Commands = {} /\ NoneIn(rxq) /\ LoneIn(fwout)
        <4>1. ~NoneIn(fwout)
          BY <2>3, <2>11
        <4>2. bh_error # TRUE => /\ Open /\ wsm_cmd.ptr = Null /\ atfw \cap Commands = {}
                                 /\ NoneIn(rxq) /\ LoneIn(fwout)
          BY <1>2, <4>1 DEF LoneInv
        <4>3. bh_error # TRUE => inhand \notin Commands
          BY <1>2, <1>3, <4>2 DEF LoneInv
        <4> QED BY <4>2, <4>3
      <3>5. bh_error # TRUE => LoneIn(rxq)' /\ NoneIn(fwout)' /\ LoneIn(fwout)'
        BY <2>3, <2>5, <2>7, <2>11, <3>3, <3>4
      <3> QED BY <1>1, <1>2, <2>1, <2>4, <2>6, <2>8, <2>11, <3>2, <3>4, <3>5 DEF LoneInv
    <2>12. CASE m.cmd = Null /\ rxq' = Append(rxq, m) /\ UNCHANGED bh_error
      <3>1. AllBy(rxq, wsm_cmd.arg)' <=> AllBy(Append(rxq, m), wsm_cmd.arg)
        BY <2>1, <2>12 DEF AllBy, CmdsOf
      <3>2. Open => AllBy(rxq, wsm_cmd.arg)'
        BY <2>5, <2>9, <2>12, <3>1
      <3>3. LoneIn(rxq)' = LoneIn(Append(rxq, m)) /\ NoneIn(rxq)' = NoneIn(Append(rxq, m))
        BY <2>12 DEF NoneIn, LoneIn, CmdsOf
      <3>4. (NoneIn(rxq) => NoneIn(rxq)') /\ (LoneIn(rxq) => LoneIn(rxq)')
        BY <2>5, <2>12, <3>3
      <3>5. (NoneIn(fwout) => NoneIn(fwout)') /\ (LoneIn(fwout) => LoneIn(fwout)')
        BY <2>3, <2>7
      <3> QED BY <1>1, <1>2, <2>1, <2>4, <2>6, <2>8, <2>12, <3>2, <3>4, <3>5 DEF LoneInv
    <2> QED BY <2>1, <2>10, <2>11, <2>12
  <1> QED BY <1>4, <1>5, <1>6, <1>7, <1>8, BhSteps

LEMMA LoneProc ==
    ASSUME TypeInv, HandInv, SlotInv, LoneInv, Proc \/ xradio_tx
    PROVE  LoneInv'
  <1>1. UNCHANGED <<inhand, atfw, fwout, bh_error, repeats>>
    BY ProcFrame
  <1>2. SUFFICES ASSUME repeats = 0 PROVE LoneInv'
    BY <1>1 DEF LoneInv
  <1>3. CASE xradio_tx \/ ProcWake \/ wsm_get_tx
    <2>1. UNCHANGED <<wsm_cmd, rxq, confirm>>
      BY <1>3, StackPuts, ProcWakes, ProcGives
    <2> QED BY <1>1, <2>1, LoneSame
  <1>4. /\ NoneIn(fwout)' = NoneIn(fwout) /\ LoneIn(fwout)' = LoneIn(fwout)
    BY <1>1 DEF NoneIn, LoneIn, CmdsOf
  <1>5. CASE ConfirmDone
    <2>1. rxq' = rxq /\ confirm' = Null /\ wsm_cmd' = [wsm_cmd EXCEPT !.done = TRUE]
      BY <1>5, ProcCompletes
    <2>2. wsm_cmd'.ptr = wsm_cmd.ptr /\ wsm_cmd'.arg = wsm_cmd.arg /\ wsm_cmd'.cmd = wsm_cmd.cmd
      BY <2>1 DEF TypeInv
    <2>3. Open' = Open
      BY <2>2 DEF Open
    <2>4. /\ AllBy(fwout, wsm_cmd.arg)' = AllBy(fwout, wsm_cmd.arg)
          /\ AllBy(rxq, wsm_cmd.arg)' = AllBy(rxq, wsm_cmd.arg)
          /\ NoneIn(rxq)' = NoneIn(rxq) /\ LoneIn(rxq)' = LoneIn(rxq)
      BY <1>1, <2>1, <2>2 DEF AllBy, NoneIn, LoneIn, CmdsOf
    <2> QED BY <1>1, <1>2, <1>4, <2>1, <2>2, <2>3, <2>4 DEF LoneInv
  <1>6. CASE wsm_handle_rx
    <2> DEFINE m == Head(rxq)
    <2>1. /\ ppc = "rx" /\ rxq # <<>> /\ rxq' = Tail(rxq)
          /\ \/ m.cmd = Null /\ UNCHANGED <<wsm_cmd, confirm>>
             \/ /\ m.cmd # Null /\ wsm_cmd' = [wsm_cmd EXCEPT !.cmd = Taken]
                /\ m.cmd.id = wsm_cmd.cmd /\ confirm' = [cmd |-> m.cmd, arg |-> wsm_cmd.arg]
             \/ /\ m.cmd # Null /\ wsm_cmd' = [wsm_cmd EXCEPT !.cmd = Taken]
                /\ UNCHANGED confirm
      BY <1>6, ProcHandles
    <2>2. rxq \in Seq(Confirmations) /\ m \in Confirmations
      BY <2>1 DEF TypeInv
    <2>3. /\ NoneIn(rxq) => NoneIn(Tail(rxq)) /\ m.cmd = Null
          /\ LoneIn(rxq) => LoneIn(Tail(rxq))
          /\ LoneIn(rxq) /\ m.cmd # Null => NoneIn(Tail(rxq))
          /\ \A c : AllBy(rxq, c) => AllBy(Tail(rxq), c) /\ (m.cmd # Null => m.cmd.by = c)
      BY <2>1, <2>2, TailOf
    <2>4. NoneIn(rxq)' = NoneIn(Tail(rxq)) /\ LoneIn(rxq)' = LoneIn(Tail(rxq))
      BY <2>1 DEF NoneIn, LoneIn, CmdsOf
    <2>5. m.cmd # Null => m.cmd \in Commands
      BY <2>2 DEF Confirmations
    <2>6. Open => AllBy(rxq, wsm_cmd.arg)
      BY <1>2 DEF LoneInv
    <2> HIDE DEF m
    <2>7. CASE m.cmd = Null /\ UNCHANGED <<wsm_cmd, confirm>>
      <3>1. Open' = Open
        BY <2>7 DEF Open
      <3>2. /\ AllBy(fwout, wsm_cmd.arg)' = AllBy(fwout, wsm_cmd.arg)
            /\ AllBy(rxq, wsm_cmd.arg)' = AllBy(Tail(rxq), wsm_cmd.arg)
        BY <1>1, <2>1, <2>7 DEF AllBy, CmdsOf
      <3>3. Open => AllBy(rxq, wsm_cmd.arg)'
        BY <2>3, <2>6, <3>2
      <3>4. (NoneIn(rxq) => NoneIn(rxq)') /\ (LoneIn(rxq) => LoneIn(rxq)')
        BY <2>3, <2>4
      <3> QED BY <1>1, <1>2, <1>4, <2>7, <3>1, <3>2, <3>3, <3>4 DEF LoneInv
    <2>8. CASE /\ m.cmd # Null /\ wsm_cmd' = [wsm_cmd EXCEPT !.cmd = Taken]
               /\ \/ m.cmd.id = wsm_cmd.cmd /\ confirm' = [cmd |-> m.cmd, arg |-> wsm_cmd.arg]
                  \/ UNCHANGED confirm
      <3>1. wsm_cmd'.cmd = Taken /\ wsm_cmd'.ptr = wsm_cmd.ptr
        BY <2>8 DEF TypeInv
      <3>2. ~Open'
        BY <3>1, MessagesDiffer DEF Open
      <3>3. bh_error # TRUE => /\ wsm_cmd.ptr = Null /\ inhand \notin Commands
                               /\ atfw \cap Commands = {} /\ NoneIn(fwout) /\ LoneIn(fwout) /\ LoneIn(rxq)
        <4>1. ~NoneIn(rxq)
          BY <2>3, <2>8
        <4>2. bh_error # TRUE => /\ wsm_cmd.ptr = Null /\ atfw \cap Commands = {}
                                 /\ NoneIn(fwout) /\ LoneIn(fwout) /\ LoneIn(rxq)
          BY <1>2, <4>1 DEF LoneInv
        <4>3. bh_error # TRUE => inhand \notin Commands
          BY <1>2, <4>2, MessagesDiffer DEF LoneInv
        <4> QED BY <4>2, <4>3
      <3>4. bh_error # TRUE => NoneIn(rxq)' /\ LoneIn(rxq)'
        BY <2>3, <2>4, <2>8, <3>3
      <3>5. (confirm # Null /\ confirm.arg # Null => confirm.cmd.by = confirm.arg)'
        <4>1. CASE UNCHANGED confirm
          BY <1>2, <4>1 DEF LoneInv
        <4>2. CASE m.cmd.id = wsm_cmd.cmd /\ confirm' = [cmd |-> m.cmd, arg |-> wsm_cmd.arg]
          <5>1. wsm_cmd.cmd \in Ids
            BY <2>5, <2>8, <4>2 DEF Commands
          <5>2. wsm_cmd.arg # Null => m.cmd.by = wsm_cmd.arg
            BY <2>3, <2>6, <2>8, <5>1 DEF Open
          <5> QED BY <4>2, <5>2
        <4> QED BY <2>8, <4>1, <4>2
      <3> QED BY <1>1, <1>4, <3>1, <3>2, <3>3, <3>4, <3>5 DEF LoneInv
    <2> QED BY <2>1, <2>7, <2>8
  <1> QED BY <1>3, <1>5, <1>6 DEF Proc

LEMMA LoneFw ==
    ASSUME TypeInv, LoneInv, FwStep
    PROVE  LoneInv'
  <1>1. UNCHANGED <<wsm_cmd, inhand, rxq, bh_error, confirm>>
    BY FwFrame
  <1>2. /\ NoneIn(rxq)' = NoneIn(rxq) /\ LoneIn(rxq)' = LoneIn(rxq) /\ Open' = Open
        /\ AllBy(rxq, wsm_cmd.arg)' = AllBy(rxq, wsm_cmd.arg)
    BY <1>1 DEF AllBy, NoneIn, LoneIn, CmdsOf, Open
  <1>3. fwout \in Seq(Confirmations)
    BY DEF TypeInv
  <1>4. ASSUME NEW m \in atfw \cap Commands, atfw' = atfw \ {m}, UNCHANGED repeats,
               fwout' = Append(fwout, [cmd |-> m, frames |-> {}]),
               [cmd |-> m, frames |-> {}] \in Confirmations, repeats = 0
        PROVE  LoneInv'
    <2> DEFINE x == [cmd |-> m, frames |-> {}]
    <2>1. x \in Confirmations /\ x.cmd = m /\ m # Null /\ fwout' = Append(fwout, x)
      BY <1>4, MessagesDiffer
    <2> HIDE DEF x
    <2>2. /\ NoneIn(fwout) => LoneIn(Append(fwout, x))
          /\ \A c : AllBy(fwout, c) /\ x.cmd.by = c => AllBy(Append(fwout, x), c)
      BY <1>3, <2>1, AppendOne
    <2>3. LoneIn(fwout)' = LoneIn(Append(fwout, x))
      BY <2>1 DEF LoneIn, CmdsOf
    <2>4. AllBy(fwout, wsm_cmd.arg)' = AllBy(Append(fwout, x), wsm_cmd.arg)
      BY <1>1, <2>1 DEF AllBy, CmdsOf
    <2>5. Open => AllBy(fwout, wsm_cmd.arg) /\ m.by = wsm_cmd.arg
      BY <1>4 DEF LoneInv
    <2>6. Open => AllBy(fwout, wsm_cmd.arg)'
      BY <2>1, <2>2, <2>4, <2>5
    <2>7. bh_error # TRUE => /\ Open /\ wsm_cmd.ptr = Null /\ inhand \notin Commands
                             /\ NoneIn(fwout) /\ NoneIn(rxq) /\ LoneIn(rxq)
                             /\ atfw' \cap Commands = {}
      <3>1. bh_error # TRUE => \A n \in atfw \cap Commands : m = n
        BY <1>4 DEF LoneInv
      <3>2. bh_error # TRUE => atfw' \cap Commands = {}
        BY <1>4, <3>1
      <3>3. bh_error # TRUE => Open /\ wsm_cmd.ptr = Null /\ NoneIn(fwout) /\ NoneIn(rxq) /\ LoneIn(rxq)
        BY <1>4 DEF LoneInv
      <3>4. bh_error # TRUE => inhand \notin Commands
        BY <1>4, <3>3, MessagesDiffer DEF LoneInv
      <3> QED BY <3>2, <3>3, <3>4
    <2>8. bh_error # TRUE => LoneIn(fwout)'
      BY <2>2, <2>3, <2>7
    <2>9. Open => \A y \in (atfw' \cup {inhand', wsm_cmd'.ptr}) \cap Commands : y.by = wsm_cmd.arg
      BY <1>1, <1>4 DEF LoneInv
    <2>10. /\ confirm # Null /\ confirm.arg # Null => confirm.cmd.by = confirm.arg
           /\ Open => AllBy(rxq, wsm_cmd.arg)
      BY <1>4 DEF LoneInv
    <2> QED BY <1>1, <1>2, <2>6, <2>7, <2>8, <2>9, <2>10 DEF LoneInv
  <1>5. ASSUME NEW S \in SUBSET (atfw \cap Frames) \ {{}}, atfw' = atfw \ S, UNCHANGED repeats,
               fwout' = Append(fwout, [cmd |-> Null, frames |-> S]),
               [cmd |-> Null, frames |-> S] \in Confirmations, repeats = 0
        PROVE  LoneInv'
    <2> DEFINE x == [cmd |-> Null, frames |-> S]
    <2>1. x \in Confirmations /\ x.cmd = Null /\ fwout' = Append(fwout, x)
      BY <1>5
    <2> HIDE DEF x
    <2>2. /\ NoneIn(fwout) => NoneIn(Append(fwout, x))
          /\ LoneIn(fwout) => LoneIn(Append(fwout, x))
          /\ \A c : AllBy(fwout, c) => AllBy(Append(fwout, x), c)
      BY <1>3, <2>1, AppendNone
    <2>3. /\ LoneIn(fwout)' = LoneIn(Append(fwout, x)) /\ NoneIn(fwout)' = NoneIn(Append(fwout, x))
      BY <2>1 DEF NoneIn, LoneIn, CmdsOf
    <2>4. AllBy(fwout, wsm_cmd.arg)' = AllBy(Append(fwout, x), wsm_cmd.arg)
      BY <1>1, <2>1 DEF AllBy, CmdsOf
    <2>5. /\ NoneIn(fwout) => NoneIn(fwout)'
          /\ LoneIn(fwout) => LoneIn(fwout)'
          /\ AllBy(fwout, wsm_cmd.arg) => AllBy(fwout, wsm_cmd.arg)'
      BY <2>2, <2>3, <2>4
    <2>6. atfw' \cap Commands = atfw \cap Commands
      BY <1>5, MessagesDiffer
    <2>7. \A y : y \in (atfw' \cup {inhand', wsm_cmd'.ptr}) \cap Commands
                  => y \in (atfw \cup {inhand, wsm_cmd.ptr}) \cap Commands
      BY <1>1, <1>5
    <2> QED BY <1>1, <1>2, <1>5, <2>5, <2>6, <2>7 DEF LoneInv
  <1>6. CASE repeats' # 0
    BY <1>6 DEF LoneInv
  <1>7. ASSUME repeats' = repeats + 1 PROVE repeats' # 0
    BY <1>7 DEF TypeInv
  <1> QED BY <1>4, <1>5, <1>6, <1>7, FwSays

LEMMA LoneStep ==
    ASSUME TypeInv, HandInv, SlotInv, LoneInv, Next
    PROVE  LoneInv'
  <1>1. ASSUME NEW l \in Lockers, Locker(l) PROVE LoneInv'
    <2>1. bh_error' = bh_error \/ bh_error' = TRUE
      BY <1>1, LockerMoves
    <2> QED BY <1>1, <2>1, LockerFrame, LoneSame
  <1> QED BY <1>1, NextSteps, LoneCaller, LoneBh, LoneProc, LoneFw
-----------------------------------------------------------------------------
(***************************************************************************)
(* The frames.                                                             *)
(***************************************************************************)
LEMMA InFrames ==
    ASSUME NEW s, NEW f
    PROVE  f \in FramesIn(s) <=> \E k \in DOMAIN s : f \in s[k].frames
  BY DEF FramesIn

LEMMA FramesType ==
    ASSUME NEW s \in Seq(Confirmations)
    PROVE  FramesIn(s) \subseteq Frames /\ \A k \in DOMAIN s : s[k].frames \subseteq Frames
  <1>1. \A k \in DOMAIN s : s[k] \in Confirmations
    OBVIOUS
  <1>2. \A m \in Confirmations : m.frames \subseteq Frames
    BY DEF Confirmations
  <1> QED BY <1>1, <1>2, InFrames

LEMMA FramesAppend ==
    ASSUME NEW s \in Seq(Confirmations), NEW m \in Confirmations
    PROVE  /\ FramesIn(Append(s, m)) = FramesIn(s) \cup m.frames
           /\ Apart(s) /\ m.frames \cap FramesIn(s) = {} => Apart(Append(s, m))
  <1> DEFINE t == Append(s, m)
             n == Len(s) + 1
  <1>1. /\ Len(s) \in Nat /\ DOMAIN s = 1 .. Len(s) /\ DOMAIN t = 1 .. n
        /\ t[n] = m /\ \A k \in DOMAIN s : t[k] = s[k]
    OBVIOUS
  <1> HIDE DEF t
  <1>2. \A k : k \in DOMAIN t <=> k \in DOMAIN s \/ k = n
    BY <1>1
  <1> HIDE DEF n
  <1>3. FramesIn(t) = FramesIn(s) \cup m.frames
    <2>1. \A f : f \in FramesIn(t) <=> f \in FramesIn(s) \/ f \in m.frames
      BY <1>1, <1>2, InFrames, Zenon
    <2> QED BY <2>1
  <1>4. ASSUME Apart(s), m.frames \cap FramesIn(s) = {} PROVE Apart(t)
    <2>1. \A k \in DOMAIN s : m.frames \cap s[k].frames = {}
      BY <1>4, InFrames
    <2>2. \A j, k \in DOMAIN s : j # k => s[j].frames \cap s[k].frames = {}
      BY <1>4 DEF Apart
    <2> SUFFICES ASSUME NEW j \in DOMAIN t, NEW k \in DOMAIN t, j # k
                 PROVE  t[j].frames \cap t[k].frames = {}
      BY Zenon DEF Apart
    <2>3. CASE j = n
      <3>1. k \in DOMAIN s /\ t[k] = s[k] /\ t[j] = m
        BY <1>1, <1>2, <2>3
      <3> QED BY <2>1, <3>1
    <2>4. CASE k = n
      <3>1. j \in DOMAIN s /\ t[j] = s[j] /\ t[k] = m
        BY <1>1, <1>2, <2>4
      <3> QED BY <2>1, <3>1
    <2>5. CASE j # n /\ k # n
      BY <1>1, <1>2, <2>2, <2>5
    <2> QED BY <2>3, <2>4, <2>5
  <1> QED BY <1>3, <1>4 DEF t

LEMMA FramesPut ==
    ASSUME NEW s \in Seq(Confirmations), NEW m \in Confirmations
    PROVE  FramesIn(<<m>> \o s) = FramesIn(s) \cup m.frames
  <1> DEFINE t == <<m>> \o s
  <1>1. <<m>> \in Seq(Confirmations) /\ Len(<<m>>) = 1 /\ <<m>>[1] = m
    OBVIOUS
  <1>2. Len(s) \in Nat /\ DOMAIN s = 1 .. Len(s) /\ DOMAIN t = 1 .. (1 + Len(s)) /\ t[1] = m
    BY <1>1
  <1>3. \A k \in 1 .. (1 + Len(s)) : k # 1 => t[k] = s[k - 1]
    BY <1>1, <1>2
  <1> HIDE DEF t
  <1>4. \A k \in DOMAIN t : k = 1 \/ (k - 1 \in DOMAIN s /\ t[k] = s[k - 1])
    BY <1>2, <1>3
  <1>5. \A k \in DOMAIN s : k + 1 \in DOMAIN t /\ t[k + 1] = s[k]
    BY <1>2, <1>3
  <1>6. 1 \in DOMAIN t
    BY <1>2
  <1>7. \A f : f \in FramesIn(t) <=> f \in FramesIn(s) \/ f \in m.frames
    <2> TAKE f
    <2>1. ASSUME f \in FramesIn(t) PROVE f \in FramesIn(s) \/ f \in m.frames
      <3>1. PICK k \in DOMAIN t : f \in t[k].frames
        BY <2>1, InFrames, Zenon
      <3> QED BY <1>2, <1>4, <3>1, InFrames, Zenon
    <2>2. ASSUME f \in FramesIn(s) PROVE f \in FramesIn(t)
      <3>1. PICK k \in DOMAIN s : f \in s[k].frames
        BY <2>2, InFrames, Zenon
      <3> QED BY <1>5, <3>1, InFrames, Zenon
    <2>3. ASSUME f \in m.frames PROVE f \in FramesIn(t)
      BY <1>2, <1>6, <2>3, InFrames, Zenon
    <2> QED BY <2>1, <2>2, <2>3
  <1> QED BY <1>7 DEF t

LEMMA FramesTail ==
    ASSUME NEW s \in Seq(Confirmations), s # <<>>
    PROVE  /\ FramesIn(s) = FramesIn(Tail(s)) \cup Head(s).frames
           /\ Apart(s) => Apart(Tail(s)) /\ FramesIn(Tail(s)) \cap Head(s).frames = {}
  <1> DEFINE t == Tail(s)
             m == Head(s)
  <1>1. /\ Len(s) \in Nat /\ DOMAIN s = 1 .. Len(s) /\ DOMAIN t = 1 .. (Len(s) - 1)
        /\ m = s[1] /\ 1 \in DOMAIN s
    OBVIOUS
  <1>2. \A k \in 1 .. (Len(s) - 1) : t[k] = s[k + 1]
    OBVIOUS
  <1> HIDE DEF t, m
  <1>3. \A k \in DOMAIN t : k \in Nat /\ k + 1 \in DOMAIN s /\ k + 1 # 1 /\ t[k] = s[k + 1]
    BY <1>1, <1>2
  <1>4. \A k \in DOMAIN s : k = 1 \/ (k - 1 \in DOMAIN t /\ t[k - 1] = s[k])
    BY <1>1, <1>2
  <1>5. FramesIn(s) = FramesIn(t) \cup m.frames
    <2>1. ASSUME NEW f \in FramesIn(s) PROVE f \in FramesIn(t) \/ f \in m.frames
      <3>1. PICK k \in DOMAIN s : f \in s[k].frames
        BY <2>1, InFrames, Zenon
      <3> QED BY <1>1, <1>4, <3>1, InFrames, Zenon
    <2>2. ASSUME NEW f \in FramesIn(t) PROVE f \in FramesIn(s)
      <3>1. PICK k \in DOMAIN t : f \in t[k].frames
        BY <2>2, InFrames, Zenon
      <3> QED BY <1>3, <3>1, InFrames, Zenon
    <2>3. ASSUME NEW f \in m.frames PROVE f \in FramesIn(s)
      BY <1>1, <2>3, InFrames, Zenon
    <2> QED BY <2>1, <2>2, <2>3
  <1>6. ASSUME Apart(s) PROVE Apart(t) /\ FramesIn(t) \cap m.frames = {}
    <2>1. \A j, k \in DOMAIN s : j # k => s[j].frames \cap s[k].frames = {}
      BY <1>6 DEF Apart
    <2>2. ASSUME NEW j \in DOMAIN t, NEW k \in DOMAIN t, j # k
          PROVE  t[j].frames \cap t[k].frames = {}
      <3>1. j \in Nat /\ k \in Nat /\ j + 1 \in DOMAIN s /\ k + 1 \in DOMAIN s
        BY <1>3
      <3>2. j + 1 # k + 1
        BY <2>2, <3>1
      <3>3. t[j] = s[j + 1] /\ t[k] = s[k + 1]
        BY <1>3
      <3> QED BY <2>1, <3>1, <3>2, <3>3
    <2>3. ASSUME NEW f \in FramesIn(t), f \in m.frames PROVE FALSE
      <3>1. PICK k \in DOMAIN t : f \in t[k].frames
        BY <2>3, InFrames, Zenon
      <3>2. s[k + 1].frames \cap s[1].frames = {}
        BY <1>1, <1>3, <2>1
      <3> QED BY <1>1, <1>3, <2>3, <3>1, <3>2
    <2> QED BY <2>2, <2>3 DEF Apart
  <1> QED BY <1>5, <1>6 DEF t, m

LEMMA FrameSame ==
    ASSUME FrameInv, UNCHANGED <<fresh, queue, bhtx, pending, rxq, inhand, atfw, fwout>>
    PROVE  FrameInv'
  <1>1. /\ FramesIn(rxq)' = FramesIn(rxq) /\ FramesIn(fwout)' = FramesIn(fwout)
        /\ Elems(queue)' = Elems(queue) /\ Elems(bhtx)' = Elems(bhtx)
        /\ OnTheWay' = OnTheWay
    BY DEF FramesIn, Elems, OnTheWay
  <1>2. NoDup(queue)' = NoDup(queue) /\ NoDup(bhtx)' = NoDup(bhtx) /\ Apart(fwout)' = Apart(fwout)
    BY DEF NoDup, Apart
  <1> QED BY <1>1, <1>2 DEF FrameInv

LEMMA FrameBh ==
    ASSUME TypeInv, HandInv, NumberInv, FrameInv, BhStep
    PROVE  FrameInv'
  <1>1. UNCHANGED <<fresh, queue, pending>>
    BY BhFrame
  <1>2. Elems(queue)' = Elems(queue) /\ NoDup(queue)' = NoDup(queue)
    BY <1>1 DEF Elems, NoDup
  <1>3. /\ FramesIn(fwout) \subseteq Frames /\ FramesIn(rxq) \subseteq Frames /\ atfw \subseteq Messages
        /\ Null \notin Frames /\ Null \notin Messages /\ Commands \cap Frames = {}
    BY FramesType, WsmAssumption, MessagesDiffer DEF TypeInv, Messages
  <1>4. CASE BhQuiet \/ BhSend
    BY <1>1, <1>4, BhQuietFrame, BhSends, FrameSame
  <1>5. CASE UNCHANGED <<rxq, fwout, bhtx>>
    <2>1. /\ FramesIn(rxq)' = FramesIn(rxq) /\ FramesIn(fwout)' = FramesIn(fwout)
          /\ Elems(bhtx)' = Elems(bhtx)
      BY <1>5 DEF FramesIn, Elems
    <2>2. NoDup(bhtx)' = NoDup(bhtx) /\ Apart(fwout)' = Apart(fwout)
      BY <1>5 DEF NoDup, Apart
    <2>3. OnTheWay' = ((atfw' \cup {inhand'}) \cap Frames) \cup FramesIn(fwout)
      BY <2>1 DEF OnTheWay
    <2>4. CASE BhFault
      <3>1. UNCHANGED atfw /\ inhand' = Null
        BY <2>4, BhFails
      <3>2. OnTheWay' \subseteq OnTheWay
        BY <2>3, <3>1, <1>3 DEF OnTheWay
      <3> QED BY <1>1, <1>2, <1>3, <2>1, <2>2, <3>1, <3>2 DEF FrameInv
    <2>5. CASE BhWrite
      <3>1. inhand' = Null
        BY <2>5, BhWrites
      <3>2. CASE inhand \in Frames /\ atfw' = atfw \cup {inhand}
        <4>1. OnTheWay' = OnTheWay
          BY <1>3, <2>3, <3>1, <3>2 DEF OnTheWay
        <4>2. inhand' \notin atfw' \cup FramesIn(fwout) /\ atfw' \cap FramesIn(fwout) = {}
          BY <1>3, <3>1, <3>2 DEF FrameInv
        <4> QED BY <1>1, <1>2, <2>1, <2>2, <4>1, <4>2 DEF FrameInv
      <3>3. ASSUME NEW m \in Commands, inhand \in Commands, atfw' = atfw \cup {m} PROVE FrameInv'
        <4>1. OnTheWay' = OnTheWay
          BY <1>3, <2>3, <3>1, <3>3 DEF OnTheWay
        <4>2. inhand' \notin atfw' \cup FramesIn(fwout) /\ atfw' \cap FramesIn(fwout) = {}
          BY <1>3, <3>1, <3>3, MessagesDiffer DEF FrameInv
        <4> QED BY <1>1, <1>2, <2>1, <2>2, <4>1, <4>2 DEF FrameInv
      <3> QED BY <2>5, <3>2, <3>3, BhWrites
    <2>6. CASE xradio_bh_get /\ UNCHANGED inhand
      BY <1>1, <1>5, <2>6, BhGets, FrameSame
    <2>7. CASE xradio_bh_get /\ wsm_cmd.ptr # Null /\ inhand' = wsm_cmd.ptr
      <3>1. UNCHANGED atfw /\ bpc = "get"
        BY <2>7, BhGets
      <3>2. inhand = Null
        BY <3>1 DEF HandInv
      <3>3. inhand' \in Commands /\ inhand' \notin atfw
        BY <2>7 DEF TypeInv, NumberInv
      <3>4. OnTheWay' = OnTheWay
        BY <1>3, <2>3, <3>1, <3>2, <3>3 DEF OnTheWay
      <3>5. inhand' \notin atfw' \cup FramesIn(fwout)
        BY <1>3, <3>1, <3>3
      <3> QED BY <1>1, <1>2, <2>1, <2>2, <3>1, <3>4, <3>5 DEF FrameInv
    <2>8. CASE BhRead
      <3>1. fwout # <<>> /\ fwout' = Tail(fwout) /\ fwout \in Seq(Confirmations)
        BY <2>8, BhReads DEF TypeInv
      <3>2. Len(Tail(fwout)) # Len(fwout)
        BY <3>1
      <3> QED BY <1>5, <3>1, <3>2
    <2>9. xradio_bh_get => UNCHANGED inhand \/ (wsm_cmd.ptr # Null /\ inhand' = wsm_cmd.ptr)
      <3>1. bhtx # <<>> => Len(Tail(bhtx)) # Len(bhtx)
        BY DEF TypeInv
      <3> QED BY <1>5, <3>1, BhGets
    <2> QED BY <1>4, <2>4, <2>5, <2>6, <2>7, <2>8, <2>9, BhSteps
  <1>6. CASE xradio_bh_get /\ bhtx # <<>> /\ inhand' = Head(bhtx) /\ bhtx' = Tail(bhtx)
    <2> DEFINE f == Head(bhtx)
    <2>1. UNCHANGED <<rxq, atfw, fwout>> /\ bpc = "get"
      BY <1>6, BhGets
    <2>2. inhand = Null
      BY <2>1 DEF HandInv
    <2>3. FramesIn(rxq)' = FramesIn(rxq) /\ FramesIn(fwout)' = FramesIn(fwout) /\ Apart(fwout)' = Apart(fwout)
      BY <2>1 DEF FramesIn, Apart
    <2>4. bhtx \in Seq(Frames) /\ NoDup(bhtx) /\ f \in Elems(bhtx) /\ f \in Frames
      BY <1>6, ElemsType DEF TypeInv, FrameInv
    <2>5. Elems(Tail(bhtx)) = Elems(bhtx) \ {f} /\ NoDup(Tail(bhtx))
      BY <1>6, <2>4, ElemsTail
    <2>6. Elems(bhtx)' = Elems(bhtx) \ {f} /\ NoDup(bhtx)'
      BY <1>6, <2>5
    <2>7. inhand' = f
      BY <1>6
    <2> HIDE DEF f
    <2>8. OnTheWay' = OnTheWay \cup {f}
      BY <1>3, <2>1, <2>2, <2>3, <2>4, <2>7 DEF OnTheWay
    <2>9. f \notin OnTheWay /\ f \in pending
      BY <2>4 DEF FrameInv
    <2>10. f \notin atfw \cup FramesIn(fwout)
      BY <2>4, <2>9 DEF OnTheWay
    <2> QED BY <1>1, <1>2, <2>1, <2>3, <2>4, <2>6, <2>7, <2>8, <2>9, <2>10 DEF FrameInv
  <1>7. CASE BhRead
    <2> DEFINE m == Head(fwout)
    <2>1. /\ fwout # <<>> /\ fwout' = Tail(fwout) /\ UNCHANGED <<bhtx, inhand, atfw>>
          /\ rxq' = rxq \/ rxq' = <<m>> \o rxq \/ rxq' = Append(rxq, m)
      BY <1>7, BhReads
    <2>2. fwout \in Seq(Confirmations) /\ rxq \in Seq(Confirmations) /\ m \in Confirmations
      BY <2>1 DEF TypeInv
    <2>3. /\ FramesIn(fwout) = FramesIn(Tail(fwout)) \cup m.frames
          /\ Apart(Tail(fwout)) /\ FramesIn(Tail(fwout)) \cap m.frames = {}
      BY <2>1, <2>2, FramesTail DEF FrameInv
    <2>4. FramesIn(rxq') \subseteq FramesIn(rxq) \cup m.frames
      <3>1. FramesIn(<<m>> \o rxq) = FramesIn(rxq) \cup m.frames
        BY <2>2, FramesPut
      <3>2. FramesIn(Append(rxq, m)) = FramesIn(rxq) \cup m.frames
        BY <2>2, FramesAppend
      <3> QED BY <2>1, <3>1, <3>2
    <2>5. /\ FramesIn(fwout)' = FramesIn(Tail(fwout)) /\ FramesIn(rxq)' = FramesIn(rxq')
          /\ Apart(fwout)' /\ Elems(bhtx)' = Elems(bhtx) /\ NoDup(bhtx)' = NoDup(bhtx)
      BY <2>1, <2>3 DEF Elems, NoDup
    <2> HIDE DEF m
    <2>6. OnTheWay' = ((atfw \cup {inhand}) \cap Frames) \cup FramesIn(Tail(fwout))
      BY <2>1, <2>5 DEF OnTheWay
    <2>7. (atfw \cup {inhand}) \cap FramesIn(fwout) = {}
      BY DEF FrameInv
    <2>8. OnTheWay' \subseteq OnTheWay /\ m.frames \subseteq OnTheWay /\ OnTheWay' \cap m.frames = {}
      BY <2>3, <2>6, <2>7 DEF OnTheWay
    <2>9. m.frames \subseteq pending /\ Elems(bhtx) \cap m.frames = {}
      BY <2>8 DEF FrameInv
    <2> HIDE DEF Elems, OnTheWay
    <2>10. (Elems(bhtx) \cup OnTheWay') \cap (FramesIn(rxq) \cup m.frames) = {}
      BY <2>8, <2>9 DEF FrameInv
    <2>11. (fresh \cup Elems(queue)) \cap (pending \cup FramesIn(rxq) \cup m.frames) = {}
      BY <2>9 DEF FrameInv
    <2>12. FramesIn(Tail(fwout)) \subseteq FramesIn(fwout)
      BY <2>3
    <2> QED BY <1>1, <1>2, <2>1, <2>4, <2>5, <2>8, <2>10, <2>11, <2>12 DEF FrameInv
  <1> QED BY <1>4, <1>5, <1>6, <1>7, BhSteps, BhGets, BhWrites, BhFails

LEMMA FrameProc ==
    ASSUME TypeInv, HandInv, FrameInv, Proc \/ xradio_tx
    PROVE  FrameInv'
  <1>1. UNCHANGED <<inhand, atfw, fwout>>
    BY ProcFrame
  <1>2. OnTheWay' = OnTheWay /\ FramesIn(fwout)' = FramesIn(fwout) /\ Apart(fwout)' = Apart(fwout)
    BY <1>1 DEF OnTheWay, FramesIn, Apart
  <1>3. CASE xradio_tx
    <2>1. PICK f \in fresh : fresh' = fresh \ {f} /\ queue' = Append(queue, f)
      BY <1>3, StackPuts
    <2>2. UNCHANGED <<bhtx, pending, rxq>>
      BY <1>3, StackPuts
    <2>3. queue \in Seq(Frames) /\ f \in Frames /\ f \notin Elems(queue) /\ NoDup(queue)
      BY DEF TypeInv, FrameInv
    <2>4. Elems(queue)' = Elems(queue) \cup {f} /\ NoDup(queue)'
      BY <2>1, <2>3, ElemsAppend
    <2>5. Elems(bhtx)' = Elems(bhtx) /\ NoDup(bhtx)' = NoDup(bhtx) /\ FramesIn(rxq)' = FramesIn(rxq)
      BY <2>2 DEF Elems, NoDup, FramesIn
    <2> QED BY <1>1, <1>2, <2>1, <2>2, <2>4, <2>5 DEF FrameInv
  <1>4. CASE ProcWake \/ ConfirmDone
    BY <1>1, <1>4, ProcWakes, ProcCompletes, FrameSame
  <1>5. CASE wsm_handle_rx
    <2> DEFINE m == Head(rxq)
    <2>1. /\ rxq # <<>> /\ rxq' = Tail(rxq) /\ UNCHANGED <<fresh, queue, bhtx>>
          /\ pending' = pending \/ pending' = pending \ m.frames
      BY <1>5, ProcHandles
    <2>2. rxq \in Seq(Confirmations)
      BY DEF TypeInv
    <2>3. FramesIn(rxq) = FramesIn(Tail(rxq)) \cup m.frames
      BY <2>1, <2>2, FramesTail
    <2>4. /\ Elems(bhtx)' = Elems(bhtx) /\ NoDup(bhtx)' = NoDup(bhtx)
          /\ Elems(queue)' = Elems(queue) /\ NoDup(queue)' = NoDup(queue)
          /\ FramesIn(rxq)' = FramesIn(Tail(rxq))
      BY <2>1 DEF Elems, NoDup
    <2> HIDE DEF m
    <2>5. (Elems(bhtx) \cup OnTheWay) \cap m.frames = {}
      BY <2>3 DEF FrameInv
    <2>6. Elems(bhtx) \cup OnTheWay \subseteq pending' /\ pending' \subseteq pending
      BY <2>1, <2>5 DEF FrameInv
    <2>7. FramesIn(rxq)' \subseteq FramesIn(rxq)
      BY <2>3, <2>4
    <2> QED BY <1>1, <1>2, <2>1, <2>4, <2>6, <2>7 DEF FrameInv
  <1>6. CASE wsm_get_tx
    <2>1. UNCHANGED <<fresh, rxq>>
      BY <1>6, ProcGives
    <2>2. CASE UNCHANGED <<queue, bhtx, pending>>
      BY <1>1, <2>1, <2>2, FrameSame
    <2>3. CASE /\ queue # <<>> /\ queue' = Tail(queue) /\ bhtx' = Append(bhtx, Head(queue))
               /\ pending' = pending \cup {Head(queue)}
      <3> DEFINE f == Head(queue)
      <3>1. /\ queue \in Seq(Frames) /\ bhtx \in Seq(Frames) /\ NoDup(queue) /\ NoDup(bhtx)
            /\ f \in Elems(queue) /\ f \in Frames
        BY <2>3, ElemsType DEF TypeInv, FrameInv
      <3>2. f \notin pending /\ f \notin FramesIn(rxq) /\ f \notin fresh
        BY <3>1 DEF FrameInv
      <3>3. f \notin Elems(bhtx) /\ f \notin OnTheWay
        BY <3>2 DEF FrameInv
      <3>4. Elems(Tail(queue)) = Elems(queue) \ {f} /\ NoDup(Tail(queue))
        BY <2>3, <3>1, ElemsTail
      <3>5. Elems(Append(bhtx, f)) = Elems(bhtx) \cup {f} /\ NoDup(Append(bhtx, f))
        BY <3>1, <3>3, ElemsAppend
      <3>6. Elems(queue)' = Elems(queue) \ {f} /\ NoDup(queue)'
        BY <2>3, <3>4
      <3>7. Elems(bhtx)' = Elems(bhtx) \cup {f} /\ NoDup(bhtx)'
        BY <2>3, <3>5
      <3>8. FramesIn(rxq)' = FramesIn(rxq) /\ pending' = pending \cup {f}
        BY <2>1, <2>3
      <3> HIDE DEF f
      <3> QED BY <1>1, <1>2, <2>1, <3>2, <3>3, <3>6, <3>7, <3>8 DEF FrameInv
    <2> QED BY <1>6, <2>2, <2>3, ProcGives
  <1> QED BY <1>3, <1>4, <1>5, <1>6 DEF Proc

LEMMA FrameFw ==
    ASSUME TypeInv, FrameInv, FwStep
    PROVE  FrameInv'
  <1>1. UNCHANGED <<fresh, queue, bhtx, pending, inhand, rxq>>
    BY FwFrame
  <1>2. /\ Elems(bhtx)' = Elems(bhtx) /\ NoDup(bhtx)' = NoDup(bhtx)
        /\ Elems(queue)' = Elems(queue) /\ NoDup(queue)' = NoDup(queue)
        /\ FramesIn(rxq)' = FramesIn(rxq)
    BY <1>1 DEF Elems, NoDup, FramesIn
  <1>3. /\ atfw' = atfw \/ \E m \in Commands : atfw' = atfw \ {m}
        /\ FramesIn(fwout)' = FramesIn(fwout) /\ Apart(fwout)'
        \/ \E S \in SUBSET (atfw \cap Frames) :
             /\ atfw' = atfw \ S /\ FramesIn(fwout)' = FramesIn(fwout) \cup S /\ Apart(fwout)'
    <2>1. fwout \in Seq(Confirmations) /\ Apart(fwout)
      BY DEF TypeInv, FrameInv
    <2>2. ASSUME NEW m, [cmd |-> m, frames |-> {}] \in Confirmations
          PROVE  LET x == [cmd |-> m, frames |-> {}]
                 IN  FramesIn(Append(fwout, x)) = FramesIn(fwout) /\ Apart(Append(fwout, x))
      <3> DEFINE x == [cmd |-> m, frames |-> {}]
      <3>1. x \in Confirmations /\ x.frames = {}
        BY <2>2
      <3> HIDE DEF x
      <3>2. FramesIn(Append(fwout, x)) = FramesIn(fwout) /\ Apart(Append(fwout, x))
        BY <2>1, <3>1, FramesAppend
      <3> QED BY <3>2 DEF x
    <2>3. ASSUME NEW m, [cmd |-> m, frames |-> {}] \in Confirmations,
                 fwout' = Append(fwout, [cmd |-> m, frames |-> {}])
          PROVE  FramesIn(fwout)' = FramesIn(fwout) /\ Apart(fwout)'
      BY <2>2, <2>3
    <2>4. ASSUME NEW S \in SUBSET (atfw \cap Frames), [cmd |-> Null, frames |-> S] \in Confirmations,
                 fwout' = Append(fwout, [cmd |-> Null, frames |-> S])
          PROVE  FramesIn(fwout)' = FramesIn(fwout) \cup S /\ Apart(fwout)'
      <3> DEFINE x == [cmd |-> Null, frames |-> S]
      <3>1. x \in Confirmations /\ x.frames = S /\ fwout' = Append(fwout, x)
        BY <2>4
      <3> HIDE DEF x
      <3>2. S \cap FramesIn(fwout) = {}
        BY DEF FrameInv
      <3>3. FramesIn(Append(fwout, x)) = FramesIn(fwout) \cup S /\ Apart(Append(fwout, x))
        BY <2>1, <3>1, <3>2, FramesAppend
      <3> QED BY <3>1, <3>3
    <2>5. CASE \E m \in atfw \cap Commands :
                 /\ atfw' = atfw \ {m} /\ fwout' = Append(fwout, [cmd |-> m, frames |-> {}])
                 /\ [cmd |-> m, frames |-> {}] \in Confirmations
      BY <2>3, <2>5
    <2>6. CASE \E S \in SUBSET (atfw \cap Frames) \ {{}} :
                 /\ atfw' = atfw \ S /\ fwout' = Append(fwout, [cmd |-> Null, frames |-> S])
                 /\ [cmd |-> Null, frames |-> S] \in Confirmations
      BY <2>4, <2>6
    <2>7. CASE /\ fwout' = Append(fwout, [cmd |-> last, frames |-> {}])
               /\ [cmd |-> last, frames |-> {}] \in Confirmations /\ UNCHANGED atfw
      BY <2>3, <2>7
    <2> QED BY <2>5, <2>6, <2>7, FwSays
  <1>4. CASE /\ atfw' = atfw \/ \E m \in Commands : atfw' = atfw \ {m}
             /\ FramesIn(fwout)' = FramesIn(fwout) /\ Apart(fwout)'
    <2>1. OnTheWay' = OnTheWay
      BY <1>1, <1>4, MessagesDiffer DEF OnTheWay
    <2>2. atfw' \subseteq atfw
      BY <1>4
    <2> QED BY <1>1, <1>2, <1>4, <2>1, <2>2 DEF FrameInv
  <1>5. ASSUME NEW S \in SUBSET (atfw \cap Frames),
               atfw' = atfw \ S, FramesIn(fwout)' = FramesIn(fwout) \cup S, Apart(fwout)'
        PROVE  FrameInv'
    <2>1. OnTheWay' = OnTheWay
      BY <1>1, <1>5 DEF OnTheWay
    <2>2. inhand' \notin atfw' \cup (FramesIn(fwout) \cup S) /\ atfw' \cap (FramesIn(fwout) \cup S) = {}
      BY <1>1, <1>5 DEF FrameInv
    <2> QED BY <1>1, <1>2, <1>5, <2>1, <2>2 DEF FrameInv
  <1> QED BY <1>3, <1>4, <1>5

LEMMA FrameStep ==
    ASSUME TypeInv, HandInv, NumberInv, FrameInv, Next
    PROVE  FrameInv'
  <1>1. ASSUME NEW c \in Callers, Caller(c) PROVE FrameInv'
    BY <1>1, CallerFrame, FrameSame
  <1>2. ASSUME NEW l \in Lockers, Locker(l) PROVE FrameInv'
    BY <1>2, LockerFrame, FrameSame
  <1> QED BY <1>1, <1>2, NextSteps, FrameBh, FrameProc, FrameFw
-----------------------------------------------------------------------------
(***************************************************************************)
(* The buffers.                                                            *)
(***************************************************************************)
LEMMA CardWithout ==
    ASSUME NEW S, NEW T, IsFiniteSet(S), T \subseteq S
    PROVE  /\ IsFiniteSet(T) /\ IsFiniteSet(S \ T)
           /\ Cardinality(S) \in Nat /\ Cardinality(T) \in Nat /\ Cardinality(S \ T) \in Nat
           /\ Cardinality(S \ T) = Cardinality(S) - Cardinality(T)
  <1>1. IsFiniteSet(T) /\ IsFiniteSet(S \ T)
    BY FS_Subset, FS_Difference
  <1>2. S \cap T = T
    OBVIOUS
  <1>3. Cardinality(S \ T) = Cardinality(S) - Cardinality(S \cap T)
    BY FS_Difference
  <1> QED BY <1>1, <1>2, <1>3, FS_CardinalityType

LEMMA CmdsFinite ==
    ASSUME NEW s \in Seq(Confirmations)
    PROVE  IsFiniteSet(CmdsOf(s)) /\ Cardinality(CmdsOf(s)) \in Nat
  <1>1. DOMAIN s = 1 .. Len(s) /\ Len(s) \in Nat
    OBVIOUS
  <1>2. IsFiniteSet(1 .. Len(s))
    BY <1>1, FS_Interval
  <1>3. CmdsOf(s) \in SUBSET (1 .. Len(s))
    BY <1>1 DEF CmdsOf
  <1>4. IsFiniteSet(CmdsOf(s))
    BY <1>2, <1>3, FS_Subset
  <1> QED BY <1>4, FS_CardinalityType

LEMMA CountAppend ==
    ASSUME NEW s \in Seq(Confirmations), NEW m \in Confirmations
    PROVE  /\ m.cmd = Null => CommandsIn(Append(s, m)) = CommandsIn(s)
           /\ m.cmd # Null => CommandsIn(Append(s, m)) = CommandsIn(s) + 1
  <1>1. \A t : CommandsIn(t) = Cardinality(CmdsOf(t))
    BY DEF CommandsIn, CmdsOf
  <1>2. IsFiniteSet(CmdsOf(s))
    BY CmdsFinite
  <1>3. m.cmd # Null => Cardinality(CmdsOf(s) \cup {Len(s) + 1}) = Cardinality(CmdsOf(s)) + 1
    BY <1>2, CmdsAppend, FS_AddElement
  <1> QED BY <1>1, <1>3, CmdsAppend

LEMMA CountTail ==
    ASSUME NEW s \in Seq(Confirmations), s # <<>>
    PROVE  /\ Head(s).cmd = Null => CommandsIn(Tail(s)) = CommandsIn(s)
           /\ Head(s).cmd # Null => CommandsIn(Tail(s)) = CommandsIn(s) - 1
  <1> DEFINE S == CmdsOf(Tail(s))
             T == CmdsOf(s) \ {1}
             f == [k \in S |-> k + 1]
  <1>1. Tail(s) \in Seq(Confirmations)
    OBVIOUS
  <1>2. IsFiniteSet(S) /\ IsFiniteSet(CmdsOf(s))
    BY <1>1, CmdsFinite
  <1>3. /\ \A k \in S : k \in Nat \ {0} /\ k + 1 \in CmdsOf(s)
        /\ \A k \in CmdsOf(s) : k \in Nat \ {0} /\ (k # 1 => k - 1 \in S)
        /\ 1 \in CmdsOf(s) <=> Head(s).cmd # Null
    BY CmdsTail
  <1> HIDE DEF S
  <1>4. \A k \in S : k + 1 \in T
    BY <1>3
  <1>5. \A k \in T : k - 1 \in S /\ (k - 1) + 1 = k
    BY <1>3
  <1>6. \A j, k \in S : j + 1 = k + 1 => j = k
    BY <1>3
  <1> HIDE DEF T
  <1>7. f \in Bijection(S, T)
    <2>1. f \in [S -> T]
      BY <1>4
    <2>2. \A t \in T : \E k \in S : f[k] = t
      BY <1>5
    <2>3. \A j, k \in S : f[j] = f[k] => j = k
      BY <1>6
    <2> HIDE DEF f
    <2> QED BY <2>1, <2>2, <2>3 DEF Bijection, Injection, Surjection, IsInjective
  <1>8. ExistsBijection(S, T)
    BY <1>7 DEF ExistsBijection
  <1>9. Cardinality(T) = Cardinality(S)
    BY <1>2, <1>8, FS_Bijection
  <1>10. Cardinality(T) = IF Head(s).cmd # Null THEN Cardinality(CmdsOf(s)) - 1 ELSE Cardinality(CmdsOf(s))
    BY <1>2, <1>3, FS_RemoveElement DEF T
  <1>11. \A t : CommandsIn(t) = Cardinality(CmdsOf(t))
    BY DEF CommandsIn, CmdsOf
  <1> QED BY <1>9, <1>10, <1>11 DEF S

\* What the firmware has and has answered unread, of all messages and of frames.
Load == Cardinality(atfw) + CommandsIn(fwout) + Cardinality(FramesIn(fwout))
Vif == (atfw \cap Frames) \cup FramesIn(fwout)

LEMMA LoadType ==
    ASSUME TypeInv, BufInv
    PROVE  /\ IsFiniteSet(atfw) /\ IsFiniteSet(FramesIn(fwout)) /\ IsFiniteSet(Vif)
           /\ Cardinality(atfw) \in Nat /\ CommandsIn(fwout) \in Nat
           /\ Cardinality(FramesIn(fwout)) \in Nat /\ Cardinality(Vif) \in Nat
           /\ Cardinality(Vif) <= Cardinality(atfw) + Cardinality(FramesIn(fwout))
           /\ Load \in Nat /\ Cardinality(Vif) <= Load
           /\ used = Load + Hand - repeats /\ usedVif = Cardinality(Vif)
  <1> DEFINE F == FramesIn(fwout)
             G == atfw \cap Frames
  <1>1. fwout \in Seq(Confirmations) /\ F \in SUBSET Frames
    BY FramesType DEF TypeInv
  <1>2. IsFiniteSet(atfw) /\ IsFiniteSet(F)
    BY <1>1, WsmAssumption, FS_Subset DEF BufInv
  <1>3. CommandsIn(fwout) \in Nat
    BY <1>1, CmdsFinite DEF CommandsIn, CmdsOf
  <1>4. used = Load + Hand - repeats /\ usedVif = Cardinality(Vif)
    BY DEF BufInv, Load, Vif
  <1>5. Vif = G \cup F
    BY DEF Vif
  <1> HIDE DEF F
  <1>6. IsFiniteSet(G) /\ Cardinality(G) <= Cardinality(atfw)
    BY <1>2, FS_Intersection
  <1> HIDE DEF G
  <1>7. IsFiniteSet(Vif) /\ Cardinality(Vif) = Cardinality(G) + Cardinality(F) - Cardinality(G \cap F)
    BY <1>2, <1>5, <1>6, FS_Union
  <1>8. IsFiniteSet(G \cap F)
    BY <1>6, FS_Intersection
  <1>9. /\ Cardinality(G) \in Nat /\ Cardinality(F) \in Nat /\ Cardinality(G \cap F) \in Nat
        /\ Cardinality(atfw) \in Nat /\ Cardinality(Vif) \in Nat
    BY <1>2, <1>6, <1>7, <1>8, FS_CardinalityType
  <1>10. Load = Cardinality(atfw) + CommandsIn(fwout) + Cardinality(F)
    BY DEF Load, F
  <1>11. Cardinality(Vif) <= Cardinality(atfw) + Cardinality(F)
    BY <1>6, <1>7, <1>9
  <1>12. Load \in Nat /\ Cardinality(Vif) <= Load
    BY <1>3, <1>9, <1>10, <1>11
  <1> QED BY <1>2, <1>3, <1>4, <1>7, <1>9, <1>11, <1>12 DEF F

\* What BufInv says of the next state.
LEMMA BufMeansNext ==
    ASSUME IsFiniteSet(atfw'), used' = Load' + Hand' - repeats', usedVif' = Cardinality(Vif'),
           repeats' = 0 => usedVif' < numInpChBufs, inhand' \in Frames => used' < numInpChBufs,
           faults' + repeats' <= MaxFaults
    PROVE  BufInv'
  BY DEF BufInv, Load, Vif

LEMMA BufSame ==
    ASSUME BufInv, UNCHANGED <<atfw, fwout, used, usedVif, inhand, repeats, faults>>,
           Hand' = Hand
    PROVE  BufInv'
  BY DEF BufInv, CommandsIn, FramesIn

LEMMA BufBh ==
    ASSUME TypeInv, HandInv, NumberInv, FrameInv, BufInv, BhStep
    PROVE  BufInv'
  <1>1. UNCHANGED repeats
    BY BhFrame
  <1>2. /\ used \in Int /\ usedVif \in Int /\ repeats \in Nat /\ faults \in Nat
        /\ numInpChBufs \in Nat /\ MaxFaults \in Nat
    BY WsmAssumption DEF TypeInv
  <1>3. /\ IsFiniteSet(atfw) /\ used = Load + Hand - repeats /\ usedVif = Cardinality(Vif)
        /\ Load \in Nat /\ Cardinality(Vif) \in Nat /\ Cardinality(Vif) <= Load
        /\ Cardinality(atfw) \in Nat /\ CommandsIn(fwout) \in Nat /\ Cardinality(FramesIn(fwout)) \in Nat
        /\ IsFiniteSet(FramesIn(fwout)) /\ IsFiniteSet(Vif)
    BY LoadType
  <1>4. /\ repeats = 0 => usedVif < numInpChBufs
        /\ inhand \in Frames => used < numInpChBufs
        /\ faults + repeats <= MaxFaults
    BY DEF BufInv
  <1>5. CASE BhQuiet
    <2>1. Hand' = Hand /\ UNCHANGED <<atfw, fwout, used, usedVif, inhand, faults>>
      BY <1>5, BhQuietFrame DEF Hand
    <2> QED BY <1>1, <2>1, BufSame
  <1>6. CASE BhSend \/ xradio_bh_get \/ BhFault
    <2>0. UNCHANGED <<atfw, fwout, usedVif>>
      BY <1>6, BhSends, BhGets, BhFails
    <2>1. Load' = Load /\ Vif' = Vif
      BY <2>0 DEF Load, Vif, CommandsIn, FramesIn
    <2>2. CASE BhSend
      <3>1. UNCHANGED <<inhand, faults>> /\ bpc = "tx"
        BY <2>2, BhSends
      <3>2. used' = used + Hand' /\ Hand = 0
        BY <1>2, <2>2, BhSends DEF Hand
      <3>3. inhand = Null
        BY <3>1 DEF HandInv
      <3>4. Hand' \in {0, 1}
        BY DEF Hand
      <3>5. used' = Load + Hand' - repeats
        BY <1>2, <1>3, <3>2, <3>4
      <3> QED BY <1>1, <1>3, <1>4, <2>0, <2>1, <3>1, <3>3, <3>5, WsmAssumption, BufMeansNext
    <2>3. CASE xradio_bh_get
      <3>1. UNCHANGED faults /\ bpc = "get" /\ Hand = 1
        BY <2>3, BhGets DEF Hand
      <3>2. \/ used' = used /\ Hand' = 1
            \/ used' = used - 1 /\ Hand' = 0
        BY <2>3, BhGets DEF Hand
      <3>3. inhand' \in Frames => used' < numInpChBufs
        <4>1. inhand = Null
          BY <3>1 DEF HandInv
        <4>2. wsm_cmd.ptr \notin Frames
          BY MessagesDiffer, WsmAssumption DEF TypeInv
        <4> QED BY <2>3, <4>1, <4>2, BhGets, WsmAssumption
      <3>4. used' = Load + Hand' - repeats
        BY <1>2, <1>3, <3>1, <3>2
      <3> QED BY <1>1, <1>3, <1>4, <2>0, <2>1, <3>1, <3>3, <3>4, BufMeansNext
    <2>4. CASE BhFault
      <3>1. inhand' = Null /\ faults' = faults + 1 /\ faults + repeats < MaxFaults /\ Hand' = 0
        BY <2>4, BhFails DEF Hand
      <3>2. used' = used - Hand
        BY <1>2, <2>4, BhFails DEF Hand
      <3>3. Hand \in {0, 1}
        BY DEF Hand
      <3>4. used' = Load + Hand' - repeats
        BY <1>2, <1>3, <3>1, <3>2, <3>3
      <3>5. faults' + repeats <= MaxFaults
        BY <1>2, <3>1
      <3> QED BY <1>1, <1>3, <1>4, <2>0, <2>1, <3>1, <3>4, <3>5, WsmAssumption, BufMeansNext
    <2> QED BY <1>6, <2>2, <2>3, <2>4
  <1>7. CASE BhWrite
    <2>1. /\ UNCHANGED <<fwout, used, faults>> /\ inhand' = Null /\ Hand = 1 /\ Hand' = 0
      BY <1>7, BhWrites DEF Hand
    <2>2. FramesIn(fwout)' = FramesIn(fwout) /\ CommandsIn(fwout)' = CommandsIn(fwout)
      BY <2>1 DEF FramesIn, CommandsIn
    <2>3. ASSUME NEW m, m \notin atfw, atfw' = atfw \cup {m}
          PROVE  IsFiniteSet(atfw') /\ used' = Load' + Hand' - repeats'
      <3>1. IsFiniteSet(atfw') /\ Cardinality(atfw') = Cardinality(atfw) + 1
        BY <1>3, <2>3, FS_AddElement
      <3>2. Load' = Load + 1
        BY <1>3, <2>2, <3>1 DEF Load
      <3> QED BY <1>1, <1>2, <1>3, <2>1, <3>1, <3>2
    <2>4. CASE inhand \in Frames /\ atfw' = atfw \cup {inhand} /\ usedVif' = usedVif + 1
      <3>1. inhand \notin atfw /\ inhand \notin FramesIn(fwout)
        BY DEF FrameInv
      <3>2. Vif' = Vif \cup {inhand} /\ inhand \notin Vif
        BY <2>2, <2>4, <3>1 DEF Vif
      <3>3. Cardinality(Vif') = Cardinality(Vif) + 1
        BY <1>3, <3>2, FS_AddElement
      <3>4. usedVif' = Cardinality(Vif')
        BY <1>3, <2>4, <3>3
      <3>5. repeats = 0 => usedVif' < numInpChBufs
        BY <1>2, <1>3, <1>4, <2>1, <2>4
      <3> QED BY <1>1, <1>4, <2>1, <2>3, <2>4, <3>1, <3>4, <3>5, WsmAssumption, BufMeansNext
    <2>5. ASSUME NEW m \in {wsm_cmd.ptr, inhand}, m \in Commands, m \notin Frames,
                 atfw' = atfw \cup {m}, UNCHANGED usedVif
          PROVE  BufInv'
      <3>1. m \notin atfw
        BY <2>5 DEF NumberInv, FrameInv
      <3>2. Vif' = Vif
        BY <2>2, <2>5 DEF Vif
      <3> QED BY <1>1, <1>3, <1>4, <2>1, <2>3, <2>5, <3>1, <3>2, WsmAssumption, BufMeansNext
    <2> QED BY <1>7, <2>4, <2>5, BhWrites
  <1>8. CASE BhRead
    <2> DEFINE m == Head(fwout)
               F == FramesIn(fwout)
               T == FramesIn(Tail(fwout))
               M == m.frames
    <2>1. /\ fwout # <<>> /\ fwout' = Tail(fwout) /\ UNCHANGED <<inhand, atfw, faults>>
          /\ usedVif' = usedVif - Cardinality(M)
          /\ m.cmd # Null => used' = used - 1
          /\ m.cmd = Null => used' = used - Cardinality(M)
      BY <1>8, BhReads
    <2>2. Hand = 0 /\ Hand' = 0 /\ bpc = "rx"
      BY <1>8, BhReads DEF Hand
    <2>3. fwout \in Seq(Confirmations) /\ m \in Confirmations
      BY <2>1 DEF TypeInv
    <2>4. F = T \cup M /\ T \cap M = {}
      BY <2>1, <2>3, FramesTail DEF FrameInv
    <2>5. /\ m.cmd = Null => CommandsIn(Tail(fwout)) = CommandsIn(fwout)
          /\ m.cmd # Null => CommandsIn(Tail(fwout)) = CommandsIn(fwout) - 1
      BY <2>1, <2>3, CountTail
    <2>6. m.cmd # Null => M = {}
      BY <2>3 DEF Confirmations
    <2>7. M \cap atfw = {} /\ M \subseteq Frames
      BY <2>1, <2>3, <2>4, FramesType DEF FrameInv
    <2>8. FramesIn(fwout)' = T /\ CommandsIn(fwout)' = CommandsIn(Tail(fwout))
      BY <2>1
    <2>9. Vif = (atfw \cap Frames) \cup F /\ Load = Cardinality(atfw) + CommandsIn(fwout) + Cardinality(F)
      BY DEF Vif, Load
    <2>10. IsFiniteSet(F) /\ Cardinality(F) \in Nat
      BY <1>3
    <2>11. Vif' = (atfw \cap Frames) \cup T /\ Load' = Cardinality(atfw) + CommandsIn(Tail(fwout)) + Cardinality(T)
      BY <2>1, <2>8 DEF Vif, Load
    <2> HIDE DEF F, T, M, m
    <2>12. IsFiniteSet(M)
      BY <2>4, <2>10, FS_Subset
    <2>13. Cardinality(T) = Cardinality(F) - Cardinality(M)
      <3>1. T = F \ M /\ M \subseteq F
        BY <2>4
      <3> QED BY <2>10, <3>1, CardWithout
    <2>14. Cardinality(Vif') = Cardinality(Vif) - Cardinality(M)
      <3>1. Vif' = Vif \ M /\ M \subseteq Vif
        BY <2>4, <2>7, <2>9, <2>11
      <3>2. Cardinality(Vif \ M) = Cardinality(Vif) - Cardinality(M)
        BY <1>3, <3>1, CardWithout
      <3> QED BY <3>1, <3>2
    <2>15. Cardinality(M) \in Nat /\ (m.cmd # Null => Cardinality(M) = 0)
      BY <2>6, <2>12, FS_CardinalityType, FS_EmptySet
    <2>16. used' = Load' + Hand' - repeats'
      <3> DEFINE a == Cardinality(atfw)
                 k == CommandsIn(fwout)
                 kt == CommandsIn(Tail(fwout))
                 x == Cardinality(F)
                 xt == Cardinality(T)
                 n == Cardinality(M)
      <3>1. a \in Nat /\ k \in Nat /\ x \in Nat /\ n \in Nat /\ xt = x - n
        BY <1>3, <2>10, <2>13, <2>15
      <3>2. Load = a + k + x /\ Load' = a + kt + xt
        BY <2>9, <2>11
      <3>3. used = Load - repeats
        BY <1>2, <1>3, <2>2
      <3>4. \/ kt = k - 1 /\ used' = used - 1 /\ n = 0
            \/ kt = k /\ used' = used - n
        BY <2>1, <2>5, <2>15
      <3> HIDE DEF a, k, kt, x, xt, n
      <3>5. used' = Load' - repeats /\ Load' \in Int
        <4>1. used \in Int /\ repeats \in Int /\ a \in Int /\ k \in Int /\ x \in Int /\ n \in Int
          BY <1>2, <3>1
        <4>2. CASE kt = k - 1 /\ used' = used - 1 /\ n = 0
          <5>1. Load' = a + (k - 1) + (x - 0)
            BY <3>1, <3>2, <4>2
          <5> QED BY <3>2, <3>3, <4>1, <4>2, <5>1
        <4>3. CASE kt = k /\ used' = used - n
          <5>1. Load' = a + k + (x - n)
            BY <3>1, <3>2, <4>3
          <5> QED BY <3>2, <3>3, <4>1, <4>3, <5>1
        <4> QED BY <3>4, <4>2, <4>3
      <3> QED BY <1>1, <1>2, <2>2, <3>5
    <2>17. usedVif' = Cardinality(Vif') /\ (repeats = 0 => usedVif' < numInpChBufs)
      BY <1>2, <1>3, <1>4, <2>1, <2>14, <2>15
    <2>18. inhand = Null
      BY <2>2 DEF HandInv
    <2> QED BY <1>1, <1>3, <1>4, <2>1, <2>16, <2>17, <2>18, WsmAssumption, BufMeansNext
  <1> QED BY <1>5, <1>6, <1>7, <1>8, BhSteps

LEMMA BufFw ==
    ASSUME TypeInv, FrameInv, BufInv, FwStep
    PROVE  BufInv'
  <1>1. UNCHANGED <<used, usedVif, bpc, inhand, faults>> /\ Hand' = Hand
    BY FwFrame DEF Hand
  <1>2. /\ used \in Int /\ repeats \in Nat /\ faults \in Nat /\ MaxFaults \in Nat /\ Hand \in Nat
        /\ fwout \in Seq(Confirmations)
    BY WsmAssumption DEF TypeInv, Hand
  <1>3. /\ IsFiniteSet(atfw) /\ used = Load + Hand - repeats /\ usedVif = Cardinality(Vif)
        /\ Cardinality(atfw) \in Nat /\ CommandsIn(fwout) \in Nat /\ Cardinality(FramesIn(fwout)) \in Nat
        /\ IsFiniteSet(FramesIn(fwout))
    BY LoadType
  <1>4. /\ repeats = 0 => usedVif < numInpChBufs
        /\ inhand \in Frames => used < numInpChBufs
        /\ faults + repeats <= MaxFaults
    BY DEF BufInv
  <1>5. ASSUME NEW m, [cmd |-> m, frames |-> {}] \in Confirmations, m # Null,
               fwout' = Append(fwout, [cmd |-> m, frames |-> {}])
        PROVE  FramesIn(fwout)' = FramesIn(fwout) /\ CommandsIn(fwout)' = CommandsIn(fwout) + 1
    <2> DEFINE x == [cmd |-> m, frames |-> {}]
    <2>1. x \in Confirmations /\ x.frames = {} /\ x.cmd # Null /\ fwout' = Append(fwout, x)
      BY <1>5
    <2> HIDE DEF x
    <2>2. FramesIn(Append(fwout, x)) = FramesIn(fwout) /\ CommandsIn(Append(fwout, x)) = CommandsIn(fwout) + 1
      BY <1>2, <2>1, FramesAppend, CountAppend
    <2> QED BY <2>1, <2>2
  <1>6. ASSUME NEW m \in atfw \cap Commands, atfw' = atfw \ {m}, UNCHANGED repeats,
               fwout' = Append(fwout, [cmd |-> m, frames |-> {}]),
               [cmd |-> m, frames |-> {}] \in Confirmations
        PROVE  BufInv'
    <2>1. m # Null /\ m \notin Frames
      BY MessagesDiffer
    <2>2. FramesIn(fwout)' = FramesIn(fwout) /\ CommandsIn(fwout)' = CommandsIn(fwout) + 1
      BY <1>5, <1>6, <2>1
    <2>3. IsFiniteSet(atfw') /\ Cardinality(atfw') = Cardinality(atfw) - 1
      BY <1>3, <1>6, FS_RemoveElement
    <2>4. Load' = Load
      BY <1>3, <2>2, <2>3 DEF Load
    <2>5. Vif' = Vif
      BY <1>6, <2>1, <2>2 DEF Vif
    <2> QED BY <1>1, <1>3, <1>4, <1>6, <2>3, <2>4, <2>5, BufMeansNext
  <1>7. ASSUME NEW S \in SUBSET (atfw \cap Frames), atfw' = atfw \ S, UNCHANGED repeats,
               fwout' = Append(fwout, [cmd |-> Null, frames |-> S]),
               [cmd |-> Null, frames |-> S] \in Confirmations
        PROVE  BufInv'
    <2> DEFINE x == [cmd |-> Null, frames |-> S]
               F == FramesIn(fwout)
    <2>1. x \in Confirmations /\ x.frames = S /\ x.cmd = Null /\ fwout' = Append(fwout, x)
      BY <1>7
    <2> HIDE DEF x
    <2>2. FramesIn(Append(fwout, x)) = F \cup S /\ CommandsIn(Append(fwout, x)) = CommandsIn(fwout)
      BY <1>2, <2>1, FramesAppend, CountAppend
    <2>3. FramesIn(fwout)' = F \cup S /\ CommandsIn(fwout)' = CommandsIn(fwout)
      BY <2>1, <2>2
    <2>4. F \cap S = {} /\ IsFiniteSet(F) /\ Cardinality(F) \in Nat
      BY <1>3 DEF FrameInv
    <2>5. /\ Load = Cardinality(atfw) + CommandsIn(fwout) + Cardinality(F)
          /\ Load' = Cardinality(atfw') + CommandsIn(fwout) + Cardinality(F \cup S)
      BY <2>3 DEF Load
    <2>6. Vif' = Vif
      BY <1>7, <2>3 DEF Vif
    <2> HIDE DEF F
    <2>7. /\ IsFiniteSet(S) /\ IsFiniteSet(atfw') /\ Cardinality(S) \in Nat
          /\ Cardinality(atfw') = Cardinality(atfw) - Cardinality(S)
      BY <1>3, <1>7, CardWithout
    <2>8. Cardinality(F \cup S) = Cardinality(F) + Cardinality(S)
      <3>1. Cardinality(F \cup S) = Cardinality(F) + Cardinality(S) - Cardinality(F \cap S)
        BY <2>4, <2>7, FS_Union
      <3>2. Cardinality(F \cap S) = 0
        BY <2>4, FS_EmptySet
      <3> QED BY <2>4, <2>7, <3>1, <3>2
    <2>9. Load' = Load
      <3> DEFINE a == Cardinality(atfw)
                 n == Cardinality(S)
      <3>1. Cardinality(atfw') = a - n /\ a \in Nat /\ n \in Nat
        BY <1>3, <2>7
      <3> HIDE DEF a, n
      <3> QED BY <1>3, <2>4, <2>5, <2>8, <3>1 DEF a, n
    <2> QED BY <1>1, <1>3, <1>4, <1>7, <2>6, <2>7, <2>9, BufMeansNext
  <1>8. ASSUME last # Null, faults + repeats < MaxFaults, repeats' = repeats + 1,
               fwout' = Append(fwout, [cmd |-> last, frames |-> {}]),
               [cmd |-> last, frames |-> {}] \in Confirmations, UNCHANGED atfw
        PROVE  BufInv'
    <2>1. FramesIn(fwout)' = FramesIn(fwout) /\ CommandsIn(fwout)' = CommandsIn(fwout) + 1
      BY <1>5, <1>8
    <2>2. Load' = Load + 1 /\ Load \in Nat
      BY <1>3, <1>8, <2>1 DEF Load
    <2>3. Vif' = Vif
      BY <1>8, <2>1 DEF Vif
    <2>4. used' = Load' + Hand' - repeats' /\ repeats' # 0 /\ faults' + repeats' <= MaxFaults
      BY <1>1, <1>2, <1>3, <1>8, <2>2
    <2> QED BY <1>1, <1>3, <1>4, <1>8, <2>3, <2>4, BufMeansNext
  <1> QED BY <1>6, <1>7, <1>8, FwSays

LEMMA BufStep ==
    ASSUME TypeInv, HandInv, NumberInv, FrameInv, BufInv, Next
    PROVE  BufInv'
  <1>1. ASSUME NEW c \in Callers, Caller(c) PROVE BufInv'
    BY <1>1, CallerFrame, BufSame DEF Hand
  <1>2. ASSUME NEW l \in Lockers, Locker(l) PROVE BufInv'
    BY <1>2, LockerFrame, BufSame DEF Hand
  <1>3. ASSUME Proc \/ xradio_tx PROVE BufInv'
    BY <1>3, ProcFrame, BufSame DEF Hand
  <1> QED BY <1>1, <1>2, <1>3, NextSteps, BufBh, BufFw

-----------------------------------------------------------------------------
(***************************************************************************)
(* Flushing.                                                               *)
(***************************************************************************)

\* While anybody holds the lock, no frame sets out.
LEMMA LockedStays ==
    ASSUME TypeInv, HandInv, tx_lock > 0, Next
    PROVE  OnTheWay' \subseteq OnTheWay
  <1>1. CASE UNCHANGED <<atfw, inhand, fwout>>
    BY <1>1 DEF OnTheWay, FramesIn
  <1>2. ASSUME BhStep PROVE OnTheWay' \subseteq OnTheWay
    <2>1. Null \notin Frames /\ Commands \cap Frames = {}
      BY WsmAssumption, MessagesDiffer
    <2>2. CASE BhRead
      <3>1. fwout # <<>> /\ fwout' = Tail(fwout) /\ UNCHANGED <<inhand, atfw>>
        BY <2>2, BhReads
      <3>2. FramesIn(Tail(fwout)) \subseteq FramesIn(fwout)
        BY <3>1, FramesTail DEF TypeInv
      <3>3. FramesIn(fwout)' \subseteq FramesIn(fwout)
        BY <3>1, <3>2
      <3> QED BY <3>1, <3>3 DEF OnTheWay
    <2>3. CASE UNCHANGED fwout
      <3>1. FramesIn(fwout)' = FramesIn(fwout)
        BY <2>3 DEF FramesIn
      <3>2. CASE xradio_bh_get
        <4>1. UNCHANGED atfw /\ (inhand' = inhand \/ inhand' = wsm_cmd.ptr)
          BY <3>2, BhGets DEF TypeInv
        <4>2. wsm_cmd.ptr \notin Frames
          BY <2>1 DEF TypeInv
        <4> QED BY <3>1, <4>1, <4>2 DEF OnTheWay
      <3>3. CASE BhWrite
        <4>1. inhand' = Null /\ \E m : atfw' = atfw \cup {m} /\ (m = inhand \/ m \notin Frames)
          BY <3>3, BhWrites
        <4> QED BY <2>1, <3>1, <4>1 DEF OnTheWay
      <3>4. CASE BhFault
        BY <2>1, <3>1, <3>4, BhFails DEF OnTheWay
      <3> QED BY <1>1, <1>2, <2>2, <3>2, <3>3, <3>4, BhSteps, BhQuietFrame, BhSends
    <2> QED BY <1>2, <2>2, <2>3, BhSteps, BhQuietFrame, BhSends, BhGets, BhWrites, BhFails
  <1>3. ASSUME FwStep PROVE OnTheWay' \subseteq OnTheWay
    <2>1. UNCHANGED inhand /\ fwout \in Seq(Confirmations)
      BY <1>3, FwFrame DEF TypeInv
    <2>2. ASSUME NEW x \in Confirmations, fwout' = Append(fwout, x),
                 x.frames \subseteq atfw \cap Frames, atfw' \subseteq atfw
          PROVE  OnTheWay' \subseteq OnTheWay
      <3>1. FramesIn(Append(fwout, x)) = FramesIn(fwout) \cup x.frames
        BY <2>1, FramesAppend
      <3>2. FramesIn(fwout)' = FramesIn(fwout) \cup x.frames
        BY <2>2, <3>1
      <3> QED BY <2>1, <2>2, <3>2 DEF OnTheWay
    <2>3. \E x \in Confirmations : /\ fwout' = Append(fwout, x) /\ x.frames \subseteq atfw \cap Frames
                                   /\ atfw' \subseteq atfw
      <3>1. CASE \E m : /\ atfw' \subseteq atfw /\ fwout' = Append(fwout, [cmd |-> m, frames |-> {}])
                        /\ [cmd |-> m, frames |-> {}] \in Confirmations
        <4>1. PICK m : /\ atfw' \subseteq atfw /\ fwout' = Append(fwout, [cmd |-> m, frames |-> {}])
                       /\ [cmd |-> m, frames |-> {}] \in Confirmations
          BY <3>1
        <4>2. [cmd |-> m, frames |-> {}].frames = {}
          OBVIOUS
        <4> QED BY <4>1, <4>2
      <3>2. CASE \E S \in SUBSET (atfw \cap Frames) \ {{}} :
                   /\ atfw' = atfw \ S /\ fwout' = Append(fwout, [cmd |-> Null, frames |-> S])
                   /\ [cmd |-> Null, frames |-> S] \in Confirmations
        <4>1. PICK S \in SUBSET (atfw \cap Frames) \ {{}} :
                   /\ atfw' = atfw \ S /\ fwout' = Append(fwout, [cmd |-> Null, frames |-> S])
                   /\ [cmd |-> Null, frames |-> S] \in Confirmations
          BY <3>2
        <4>2. [cmd |-> Null, frames |-> S].frames = S
          OBVIOUS
        <4> QED BY <4>1, <4>2
      <3>3. (\E m \in atfw \cap Commands :
                 /\ atfw' = atfw \ {m}
                 /\ fwout' = Append(fwout, [cmd |-> m, frames |-> {}])
                 /\ [cmd |-> m, frames |-> {}] \in Confirmations)
            => \E m : /\ atfw' \subseteq atfw /\ fwout' = Append(fwout, [cmd |-> m, frames |-> {}])
                        /\ [cmd |-> m, frames |-> {}] \in Confirmations
        OBVIOUS
      <3> QED BY <1>3, <3>1, <3>2, <3>3, FwSays
    <2> QED BY <2>2, <2>3
  <1> QED BY <1>1, <1>2, <1>3, NextSteps, CallerFrame, LockerFrame, ProcFrame

\* A flush returns true when the firmware has no frame.
LEMMA FlushedEmpty ==
    ASSUME TypeInv, HandInv, FrameInv, BufInv, repeats = 0, NEW l \in Lockers,
           BufsUsed(l) = 0 \/ pending = {}
    PROVE  /\ \A f, g \in OnTheWay : f = g
           /\ lkind[l] # "vif" => OnTheWay = {}
  <1>1. CASE pending = {}
    BY <1>1 DEF FrameInv
  <1>2. CASE BufsUsed(l) = 0 /\ lkind[l] = "vif"
    <2>1. usedVif = 0
      BY <1>2 DEF BufsUsed
    <2>2. Vif = {}
      BY <2>1, LoadType, FS_EmptySet
    <2>3. OnTheWay \subseteq {inhand}
      BY <2>2 DEF OnTheWay, Vif
    <2> QED BY <1>2, <2>3
  <1>3. CASE BufsUsed(l) = 0 /\ lkind[l] # "vif"
    <2>1. used = 0
      BY <1>3 DEF BufsUsed
    <2>2. Hand \in {0, 1}
      BY DEF Hand
    <2>3. Load + Hand = 0 /\ Load \in Nat
      BY <2>1, <2>2, LoadType
    <2>4. Hand = 0 /\ Load = 0
      BY <2>2, <2>3
    <2>5. Cardinality(Vif) = 0
      BY <2>4, LoadType
    <2>6. Vif = {}
      BY <2>5, LoadType, FS_EmptySet
    <2>7. inhand = Null
      BY <2>4 DEF Hand, HandInv
    <2> QED BY <2>6, <2>7, WsmAssumption DEF OnTheWay, Vif
  <1> QED BY <1>1, <1>2, <1>3

LEMMA QuietStep ==
    ASSUME TypeInv, FlagInv, HandInv, FrameInv, BufInv, LockInv, QuietInv, Next
    PROVE  QuietInv'
  <1>1. ASSUME NEW l \in Lockers, quiet[l], quiet[l]', lpc[l]' = "held", lkind[l]' = lkind[l],
               repeats' = 0
        PROVE  /\ (\A f, g \in OnTheWay : f = g)'
               /\ lkind[l]' # "vif" => OnTheWay' = {}
    <2>1. lpc[l] = "held"
      BY <1>1 DEF QuietInv
    <2>2. tx_lock > 0
      <3> DEFINE A == {k \in Lockers : lpc[k] # "idle"}
      <3>1. IsFiniteSet(A)
        BY WsmAssumption, FS_Subset
      <3>2. l \in A
        BY <2>1
      <3> HIDE DEF A
      <3>3. Cardinality(A) \in Nat /\ Cardinality(A) # 0
        BY <3>1, <3>2, FS_CardinalityType, FS_EmptySet
      <3>4. tx_lock >= Cardinality(A) /\ tx_lock \in Int
        BY DEF LockInv, TypeInv, A
      <3> QED BY <3>3, <3>4
    <2>3. OnTheWay' \subseteq OnTheWay
      BY <2>2, LockedStays
    <2>4. repeats = 0
      <3>1. UNCHANGED repeats \/ repeats' = repeats + 1
        BY NextSteps, CallerFrame, LockerFrame, BhFrame, ProcFrame, FwSays
      <3> QED BY <1>1, <3>1 DEF TypeInv
    <2>5. (\A f, g \in OnTheWay : f = g) /\ (lkind[l] # "vif" => OnTheWay = {})
      BY <1>1, <2>4 DEF QuietInv
    <2> QED BY <1>1, <2>3, <2>5
  <1>2. CASE UNCHANGED <<quiet, lpc, lkind>>
    <2> SUFFICES ASSUME NEW l \in Lockers, quiet[l]'
                 PROVE  /\ lpc[l]' = "held"
                        /\ repeats' = 0 => (\A f, g \in OnTheWay : f = g)'
                        /\ repeats' = 0 /\ lkind[l]' # "vif" => OnTheWay' = {}
      BY DEF QuietInv
    <2>1. quiet[l] /\ lpc[l]' = "held" /\ lkind[l]' = lkind[l]
      BY <1>2 DEF QuietInv
    <2> QED BY <1>1, <2>1
  <1>3. ASSUME NEW k \in Lockers, Locker(k) PROVE QuietInv'
    <2>1. /\ quiet \in [Lockers -> BOOLEAN] /\ lpc \in [Lockers -> {"idle", "flush", "drain", "held"}]
          /\ lkind \in [Lockers -> {Null, "all", "vif", "async"}]
      BY DEF TypeInv, FlagInv
    <2>2. \A l \in Lockers : l # k => quiet[l]' = quiet[l] /\ lpc[l]' = lpc[l] /\ lkind[l]' = lkind[l]
      <3>1. quiet' = quiet \/ \E b \in BOOLEAN : quiet' = [quiet EXCEPT ![k] = b]
        BY <1>3, LockerMoves, Zenon
      <3>2. \E pc : lpc' = [lpc EXCEPT ![k] = pc]
        BY <1>3, LockerMoves, Zenon
      <3>3. lkind' = lkind \/ \E kind : lkind' = [lkind EXCEPT ![k] = kind]
        BY <1>3, LockerMoves, Zenon
      <3> QED BY <2>1, <3>1, <3>2, <3>3
    <2>3. \/ quiet[k]' = FALSE
          \/ quiet[k]' = quiet[k] /\ (lpc[k] # "held" \/ ~quiet[k])
          \/ /\ lpc[k]' = "held" /\ lkind' = lkind
             /\ BufsUsed(k) = 0 \/ pending = {}
      BY <1>3, <2>1, LockerMoves
    <2>4. UNCHANGED <<atfw, inhand, fwout, repeats>>
      BY <1>3, LockerFrame
    <2>5. OnTheWay' = OnTheWay
      BY <2>4 DEF OnTheWay, FramesIn
    <2> SUFFICES ASSUME NEW l \in Lockers, quiet[l]'
                 PROVE  /\ lpc[l]' = "held"
                        /\ repeats' = 0 => (\A f, g \in OnTheWay : f = g)'
                        /\ repeats' = 0 /\ lkind[l]' # "vif" => OnTheWay' = {}
      BY DEF QuietInv
    <2>6. CASE l # k
      <3>1. quiet[l] /\ lpc[l]' = "held" /\ lkind[l]' = lkind[l]
        BY <2>2, <2>6 DEF QuietInv
      <3> QED BY <1>1, <3>1
    <2>7. CASE l = k
      <3>1. quiet[k] => lpc[k] = "held"
        BY DEF QuietInv
      <3>2. lpc[k]' = "held" /\ lkind' = lkind /\ (BufsUsed(k) = 0 \/ pending = {})
        BY <2>3, <2>7, <3>1
      <3>3. repeats = 0 => (\A f, g \in OnTheWay : f = g) /\ (lkind[k] # "vif" => OnTheWay = {})
        BY <3>2, FlushedEmpty
      <3> QED BY <2>4, <2>5, <2>7, <3>2, <3>3
    <2> QED BY <2>6, <2>7
  <1> QED BY <1>2, <1>3, NextSteps, CallerFrame, BhFrame, ProcFrame, FwFrame
-----------------------------------------------------------------------------
(***************************************************************************)
(* The theorems.                                                           *)
(***************************************************************************)
LEMMA InitInv ==
    ASSUME Init
    PROVE  Inv
  <1> USE DEF Init
  <1>1. /\ FramesIn(<<>>) = {} /\ CmdsOf(<<>>) = {} /\ CommandsIn(<<>>) = 0 /\ Elems(<<>>) = {}
        /\ NoDup(<<>>) /\ Apart(<<>>)
    <2>1. FramesIn(<<>>) = {} /\ CmdsOf(<<>>) = {} /\ Elems(<<>>) = {} /\ NoDup(<<>>) /\ Apart(<<>>)
      BY DEF FramesIn, CmdsOf, Elems, NoDup, Apart
    <2>2. CommandsIn(<<>>) = Cardinality(CmdsOf(<<>>))
      BY DEF CommandsIn, CmdsOf
    <2> QED BY <2>1, <2>2, FS_EmptySet
  <1>2. TypeInv
    BY WsmAssumption DEF TypeInv, NoCmd
  <1>3. FlagInv
    BY DEF FlagInv
  <1>4. HandInv
    BY DEF HandInv
  <1>5. Null \notin Commands
    BY MessagesDiffer
  <1>6. wsm_cmd.ptr = Null /\ wsm_cmd.arg = Null /\ wsm_cmd.cmd = Null
    BY DEF NoCmd
  <1>7. NumberInv
    BY <1>5, <1>6 DEF NumberInv
  <1>8. OnTheWay = {}
    BY <1>1, WsmAssumption DEF OnTheWay
  <1>9. FrameInv
    BY <1>1, <1>8 DEF FrameInv
  <1>10. BufInv
    <2>1. Hand = 0 /\ Cardinality(atfw) = 0 /\ IsFiniteSet(atfw) /\ (atfw \cap Frames) \cup FramesIn(fwout) = {}
      BY <1>1, FS_EmptySet DEF Hand
    <2>2. Cardinality((atfw \cap Frames) \cup FramesIn(fwout)) = 0 /\ Cardinality(FramesIn(fwout)) = 0
      BY <1>1, <2>1, FS_EmptySet
    <2>3. CommandsIn(fwout) = 0 /\ used = 0 /\ usedVif = 0 /\ repeats = 0 /\ faults = 0 /\ inhand = Null
      BY <1>1
    <2> QED BY <2>1, <2>2, <2>3, WsmAssumption DEF BufInv
  <1>11. SlotInv
    BY <1>6, WsmAssumption DEF SlotInv
  <1>12. LoneInv
    <2>1. ~Open
      BY <1>6 DEF Open
    <2>2. NoneIn(fwout) /\ NoneIn(rxq) /\ LoneIn(fwout) /\ LoneIn(rxq)
      BY <1>1 DEF NoneIn, LoneIn
    <2> QED BY <1>5, <1>6, <2>1, <2>2 DEF LoneInv
  <1>13. LockInv
    <2>1. {l \in Lockers : lpc[l] # "idle"} = {}
      OBVIOUS
    <2>2. Cardinality({l \in Lockers : lpc[l] # "idle"}) = 0
      BY <2>1, FS_EmptySet
    <2> QED BY <2>2 DEF LockInv
  <1>14. QuietInv
    BY DEF QuietInv
  <1> QED BY <1>2, <1>3, <1>4, <1>7, <1>9, <1>10, <1>11, <1>12, <1>13, <1>14 DEF Inv

LEMMA StutterInv ==
    ASSUME Inv, UNCHANGED vars
    PROVE  Inv'
  <1> USE DEF vars, cmdVars, dataVars, bufVars, lockVars, bhVars, flagVars, procVars, fwVars
  <1>1. TypeInv'
    BY DEF Inv, TypeInv
  <1>2. FlagInv' /\ HandInv' /\ NumberInv'
    BY DEF Inv, FlagInv, HandInv, NumberInv
  <1>3. FrameInv' /\ BufInv'
    BY FrameSame, BufSame DEF Inv, Hand
  <1>4. SlotInv' /\ LockInv'
    BY DEF Inv, SlotInv, LockInv
  <1>5. LoneInv'
    BY LoneSame DEF Inv
  <1>6. QuietInv'
    BY DEF Inv, QuietInv, OnTheWay, FramesIn
  <1> QED BY <1>1, <1>2, <1>3, <1>4, <1>5, <1>6 DEF Inv

LEMMA InvHolds == Spec => []Inv
  <1>1. ASSUME Inv, Next PROVE Inv'
    BY <1>1, TypeStep, FlagStep, HandStep, NumberStep, FrameStep, BufStep, SlotStep, LoneStep,
       LockStep, QuietStep DEF Inv
  <1>2. ASSUME Inv, [Next]_vars PROVE Inv'
    BY <1>1, <1>2, StutterInv
  <1> QED BY <1>2, InitInv, PTL DEF Spec

\* Every variable has the values of its C type, hw_bufs_used never exceeds the
\* firmware's buffers and tx_lock is never negative, whatever the threads, the
\* firmware and the timeouts do.
THEOREM TypeCorrect == Spec => []TypeOK
  <1>1. ASSUME Inv PROVE TypeOK
    <2>1. TypeInv /\ FlagInv /\ BufInv /\ LockInv
      BY <1>1 DEF Inv
    <2>2. used \in -MaxFaults .. numInpChBufs
      <3>1. used = Load + Hand - repeats /\ Load \in Nat
        BY <2>1, LoadType
      <3>2. Hand \in {0, 1}
        BY DEF Hand
      <3>3. repeats \in 0 .. MaxFaults /\ used \in Int /\ used <= numInpChBufs
        BY <2>1 DEF TypeInv
      <3> QED BY <3>1, <3>2, <3>3, WsmAssumption
    <2>3. usedVif \in 0 .. Cardinality(Frames)
      <3>1. usedVif = Cardinality(Vif) /\ Cardinality(Vif) \in Nat
        BY <2>1, LoadType
      <3>2. Vif \in SUBSET Frames
        BY <2>1, FramesType DEF Vif, TypeInv
      <3>3. Cardinality(Vif) <= Cardinality(Frames) /\ Cardinality(Frames) \in Nat
        BY <3>2, WsmAssumption, FS_Subset, FS_CardinalityType
      <3> QED BY <3>1, <3>3
    <2>4. tx_lock \in 0 .. MaxCalls
      <3> DEFINE A == {l \in Lockers : lpc[l] # "idle"}
      <3>1. IsFiniteSet(A)
        BY WsmAssumption, FS_Subset
      <3>2. Cardinality(A) \in Nat
        BY <3>1, FS_CardinalityType
      <3>3. tx_lock >= Cardinality(A) /\ tx_lock <= calls
        BY <2>1 DEF LockInv
      <3> HIDE DEF A
      <3>4. tx_lock \in Int /\ calls \in 0 .. MaxCalls
        BY <2>1 DEF TypeInv
      <3> QED BY <3>2, <3>3, <3>4, WsmAssumption
    <2>5. confirm \in Handled \cup {Null}
      BY <2>1 DEF TypeInv, Handled
    <2> QED BY <2>1, <2>2, <2>3, <2>4, <2>5 DEF TypeOK, TypeInv, FlagInv
  <1> QED BY <1>1, InvHolds, PTL

\* hw_bufs_used and hw_bufs_used_vif count what the firmware has: no interleaving
\* of sends, partial confirmations and failures makes the counts drift.
THEOREM BuffersCounted == Spec => []BuffersMatch
  <1>1. ASSUME Inv PROVE BuffersMatch
    BY <1>1 DEF Inv, BufInv, BuffersMatch, Hand
  <1> QED BY <1>1, InvHolds, PTL

\* A confirmation writes only through the argument of a caller that is inside
\* wsm_cmd_send, although the caller's timeout races with it.
THEOREM ConfirmSafe == Spec => []ConfirmInsideSend
  <1>1. ASSUME Inv PROVE ConfirmInsideSend
    <2>1. SlotInv /\ LoneInv
      BY <1>1 DEF Inv
    <2> QED BY <2>1 DEF SlotInv, LoneInv, ConfirmInsideSend
  <1> QED BY <1>1, InvHolds, PTL

\* After a flush and until the unlock the firmware has no frame, however the
\* lockers, the bottom half and the proc thread interleave.
THEOREM FlushIsQuiet == Spec => []FlushQuiet
  <1>1. ASSUME Inv PROVE FlushQuiet
    <2> SUFFICES ASSUME NEW l \in Lockers, quiet[l], repeats = 0
                 PROVE  Cardinality(OnTheWay) <= IF lkind[l] = "vif" THEN 1 ELSE 0
      BY DEF FlushQuiet
    <2>1. (\A f, g \in OnTheWay : f = g) /\ (lkind[l] # "vif" => OnTheWay = {})
      BY <1>1 DEF Inv, QuietInv
    <2>2. CASE OnTheWay = {}
      BY <2>2, FS_EmptySet
    <2>3. CASE OnTheWay # {}
      <3>1. \E f : OnTheWay = {f}
        BY <2>1, <2>3
      <3>2. Cardinality(OnTheWay) = 1
        BY <3>1, FS_Singleton
      <3> QED BY <2>1, <2>3, <3>2
    <2> QED BY <2>2, <2>3
  <1> QED BY <1>1, InvHolds, PTL
=============================================================================
