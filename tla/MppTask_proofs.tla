--------------------------- MODULE MppTask_proofs ---------------------------
(***************************************************************************)
(* Proofs about MppTask: its type invariant, the reference counts of       *)
(* tasks, that no thread follows a pointer to a freed task, that the       *)
(* interrupt and the timeout work never both finish a task; then that the  *)
(* devices of a queue take turns, that both task counters are exact, and   *)
(* that a session outlives its tasks.                                      *)
(*                                                                         *)
(* None of these is inductive alone.  A reference count is only right      *)
(* because no task is popped from the running list twice, which holds      *)
(* because a task is claimed once (TASK_STATE_HANDLE), and the claim of    *)
(* the interrupt is for the right task because cur_task is the running     *)
(* task of its device whenever an interrupt can be raised.  Inv says this. *)
(*                                                                         *)
(* All of it holds until a timeout work ends a task that the worker, which *)
(* has armed its timer, is about to start (overtaken): the theorems say    *)
(* so, and what the code does then is shown by a run of TLC.               *)
(*                                                                         *)
(* The hardware is exclusive because a started task stays on the running   *)
(* list until it is done and the list never has a second entry; a counter  *)
(* is exact because every kref_put that frees a task finds it counted by   *)
(* both counters; and the worker frees a session only after it has read 0  *)
(* from an exact counter.                                                  *)
(***************************************************************************)
EXTENDS MppTask, KernelLists_proofs, TLAPS, FiniteSetTheorems

\* The sessions, their clients and the tasks in their lists.
SessionInv ==
    /\ \A s \in Sessions :
        /\ NoDup(spend[s])
        /\ \A t \in Elems(spend[s]) : owner[t] = s
        /\ cpc[s] # "idle" => sess[s] = "attached"
        /\ cpc[s] \in {"wait", "abort", "pop"} => ctask[s] \in Elems(spend[s])
        /\ cpc[s] = "trigger" => /\ ctask[s] \in Tasks
                                 /\ owner[ctask[s]] = s
                                 /\ "START" \notin bits[ctask[s]]
                                 /\ ctask[s] \notin Elems(qpend)
                                 /\ ctask[s] \notin Elems(running)
        /\ cpc[s] \in {"idle", "get"} => ctask[s] = Null
        /\ s \in Elems(detach) => sess[s] = "detached"
        /\ sess[s] = "attached" => sdev[s] \in Devices
    /\ NoDup(detach)
    /\ \A t \in Tasks : alloc[t] # "none" => /\ owner[t] \in Sessions
                                             /\ sess[owner[t]] \notin {"none", "open"}
                                             /\ DeviceOf(t) \in Devices

\* The lists of the queue and the worker.
QueueInv ==
    /\ NoDup(qpend) /\ NoDup(running)
    /\ \A t \in Tasks : ~ (t \in Elems(qpend) /\ t \in Elems(running))
    /\ \A t \in Elems(qpend) : "START" \notin bits[t]
    /\ wpc \in {"idle", "again", "done"} => wtask = Null
    /\ wpc \in {"check", "move"} => wtask \in Elems(qpend)
    /\ wpc = "move" => Elems(running) = {}
    /\ wpc = "run" => Elems(running) = {wtask} /\ "START" \notin bits[wtask]
    /\ wpc = "start" => /\ Elems(running) = {wtask} /\ "START" \in bits[wtask]
                        /\ "IRQ" \notin bits[wtask] /\ "DONE" \notin bits[wtask]

\* The state bits of a task and its timeout work.
ClaimInv ==
    \A t \in Tasks :
        /\ alloc[t] = "none" => bits[t] = {} /\ timer[t] = "off"
        /\ "HANDLE" \in bits[t] => "START" \in bits[t]
        /\ "START" \in bits[t] /\ "HANDLE" \notin bits[t] => t \in Elems(running)
        /\ "DONE" \in bits[t] => "HANDLE" \in bits[t]
        /\ "IRQ" \in bits[t] => /\ "HANDLE" \in bits[t]
                                /\ timer[t] \notin {"armed", "reset", "pop"}
        /\ "FINISH" \in bits[t] => "IRQ" \in bits[t] /\ "DONE" \in bits[t]
        /\ "TIMEOUT" \in bits[t] => "IRQ" \notin bits[t] /\ "DONE" \in bits[t]
        /\ timer[t] = "armed" => "START" \in bits[t] /\ "HANDLE" \notin bits[t]
        /\ timer[t] = "fired" => /\ "START" \in bits[t]
                                 /\ "HANDLE" \in bits[t] => "IRQ" \in bits[t]
        /\ timer[t] \in {"reset", "pop"} => "HANDLE" \in bits[t] /\ t \in Elems(running)
        /\ timer[t] = "reset" => "DONE" \notin bits[t]
        /\ timer[t] = "pop" => "TIMEOUT" \in bits[t]

\* The devices and their interrupt threads.
DeviceInv ==
    \A d \in Devices :
        /\ hw[d] = "busy" => irqraw[d] = "none"
        /\ hw[d] = "busy" \/ irqraw[d] # "none" =>
              /\ curtask[d] \in Elems(running) /\ DeviceOf(curtask[d]) = d
              /\ "START" \in bits[curtask[d]]
              /\ "IRQ" \notin bits[curtask[d]] /\ "DONE" \notin bits[curtask[d]]
        /\ iwake[d] =>
              /\ curtask[d] \in Elems(running) /\ DeviceOf(curtask[d]) = d
              /\ "IRQ" \in bits[curtask[d]] /\ "DONE" \notin bits[curtask[d]]
        /\ ipc[d] = "pop" =>
              /\ itask[d] \in Elems(running) /\ DeviceOf(itask[d]) = d
              /\ "FINISH" \in bits[itask[d]]
        /\ ipc[d] # "pop" => itask[d] = Null
        /\ wpc = "start" => /\ hw[d] = "idle" /\ irqraw[d] = "none"
                            /\ ~iwake[d] /\ ipc[d] # "pop"

\* The inductive invariant.
Inv == TypeOK /\ RefsCountHolders /\ SessionInv /\ QueueInv /\ ClaimInv /\ DeviceInv

-----------------------------------------------------------------------------
(***************************************************************************)
(* References.                                                             *)
(***************************************************************************)

\* What kref_put does to the types: mpp_free_task subtracts cardinalities of
\* finite sets of tasks from the counters.
LEMMA KrefPut ==
    ASSUME TypeOK, NEW T \in SUBSET Tasks, kref_put(T)
    PROVE  /\ ref' = [t \in Tasks |-> IF t \in T THEN ref[t] - 1 ELSE ref[t]]
           /\ alloc' = [t \in Tasks |-> IF t \in T /\ ref[t] = 1 THEN "freed" ELSE alloc[t]]
           /\ alloc' \in [Tasks -> {"none", "live", "freed"}]
           /\ scount' \in [Sessions -> Int]
           /\ dcount' \in [Devices -> Int]
           /\ owner' = owner
  <1> DEFINE F == {t \in T : ref[t] = 1}
  <1>1. mpp_free_task(F) /\ owner' = owner
        /\ ref' = [t \in Tasks |-> IF t \in T THEN ref[t] - 1 ELSE ref[t]]
    BY DEF kref_put
  <1>2. \A P \in SUBSET F : Cardinality(P) \in Nat
    <2>1. SUFFICES ASSUME NEW P \in SUBSET F PROVE Cardinality(P) \in Nat
      OBVIOUS
    <2>2. IsFiniteSet(P)
      BY FS_Subset, ConstantsAssumption
    <2> QED BY <2>2, FS_CardinalityType
  <1>3. alloc' = [t \in Tasks |-> IF t \in T /\ ref[t] = 1 THEN "freed" ELSE alloc[t]]
    BY <1>1 DEF mpp_free_task
  <1>4. scount' \in [Sessions -> Int]
    <2> DEFINE n(s) == Cardinality({t \in F : owner[t] = s})
    <2> HIDE DEF F
    <2>1. ASSUME NEW s \in Sessions PROVE n(s) \in Nat
      <3> DEFINE P == {t \in F : owner[t] = s}
      <3>1. P \in SUBSET F
        OBVIOUS
      <3> HIDE DEF P
      <3>2. Cardinality(P) \in Nat
        BY <3>1, <1>2
      <3> QED BY <3>2 DEF P
    <2>2. scount' = [s \in Sessions |-> scount[s] - n(s)]
      BY <1>1 DEF mpp_free_task
    <2> HIDE DEF n
    <2> QED BY <2>1, <2>2 DEF TypeOK
  <1>5. dcount' \in [Devices -> Int]
    <2> DEFINE n(d) == Cardinality({t \in F : DeviceOf(t) = d})
    <2> HIDE DEF F
    <2>1. ASSUME NEW d \in Devices PROVE n(d) \in Nat
      <3> DEFINE P == {t \in F : DeviceOf(t) = d}
      <3>1. P \in SUBSET F
        OBVIOUS
      <3> HIDE DEF P
      <3>2. Cardinality(P) \in Nat
        BY <3>1, <1>2
      <3> QED BY <3>2 DEF P
    <2>2. dcount' = [d \in Devices |-> dcount[d] - n(d)]
      BY <1>1 DEF mpp_free_task
    <2> HIDE DEF n
    <2> QED BY <2>1, <2>2 DEF TypeOK
  <1>6. alloc' \in [Tasks -> {"none", "live", "freed"}]
    BY <1>3 DEF TypeOK
  <1> QED BY <1>1, <1>3, <1>4, <1>5, <1>6

\* A task that somebody holds is allocated, one that nobody holds is not.
LEMMA HeldIsLive ==
    ASSUME TypeOK, RefsCountHolders, NEW t \in Tasks
    PROVE  /\ InSession(t) \/ OnQueue(t) => ref[t] \in 1 .. 2 /\ alloc[t] = "live"
           /\ alloc[t] # "live" => ~InSession(t) /\ ~OnQueue(t)
  <1>1. /\ ref[t] = (IF InSession(t) THEN 1 ELSE 0) + (IF OnQueue(t) THEN 1 ELSE 0)
        /\ alloc[t] = "live" <=> ref[t] > 0
    BY DEF RefsCountHolders
  <1>2. CASE InSession(t) /\ OnQueue(t)
    BY <1>1, <1>2
  <1>3. CASE InSession(t) /\ ~OnQueue(t)
    BY <1>1, <1>3
  <1>4. CASE ~InSession(t) /\ OnQueue(t)
    BY <1>1, <1>4
  <1>5. CASE ~InSession(t) /\ ~OnQueue(t)
    BY <1>1, <1>5
  <1> QED BY <1>2, <1>3, <1>4, <1>5

\* A step that leaves holders and counts alone.
LEMMA HolderFrame ==
    ASSUME RefsCountHolders, UNCHANGED <<ref, alloc>>,
           \A u \in Tasks : (InSession(u)' <=> InSession(u)) /\ (OnQueue(u)' <=> OnQueue(u))
    PROVE  RefsCountHolders'
  BY DEF RefsCountHolders

\* A step that adds a task held by its session and by the allocating thread.
LEMMA HolderNew ==
    ASSUME TypeOK, RefsCountHolders, NEW t \in Tasks,
           ref' = [ref EXCEPT ![t] = 2], alloc' = [alloc EXCEPT ![t] = "live"],
           InSession(t)', OnQueue(t)',
           \A u \in Tasks \ {t} :
               (InSession(u)' <=> InSession(u)) /\ (OnQueue(u)' <=> OnQueue(u))
    PROVE  RefsCountHolders'
  <1>1. SUFFICES ASSUME NEW u \in Tasks
                 PROVE  /\ ref'[u] = (IF InSession(u)' THEN 1 ELSE 0)
                                     + (IF OnQueue(u)' THEN 1 ELSE 0)
                        /\ alloc'[u] = "live" <=> ref'[u] > 0
    BY DEF RefsCountHolders
  <1>2. CASE u = t
    BY <1>2 DEF TypeOK
  <1>3. CASE u # t
    <2>1. ref'[u] = ref[u] /\ alloc'[u] = alloc[u]
      BY <1>3 DEF TypeOK
    <2> QED BY <1>3, <2>1 DEF RefsCountHolders
  <1> QED BY <1>2, <1>3

\* A step in which one holder of one task lets go.
LEMMA HolderPut ==
    ASSUME TypeOK, RefsCountHolders, NEW x \in Tasks,
           ref' = [ref EXCEPT ![x] = @ - 1],
           alloc' = [t \in Tasks |-> IF t = x /\ ref[t] = 1 THEN "freed" ELSE alloc[t]],
           \/ InSession(x) /\ ~InSession(x)' /\ (OnQueue(x)' <=> OnQueue(x))
           \/ OnQueue(x) /\ ~OnQueue(x)' /\ (InSession(x)' <=> InSession(x)),
           \A u \in Tasks \ {x} :
               (InSession(u)' <=> InSession(u)) /\ (OnQueue(u)' <=> OnQueue(u))
    PROVE  RefsCountHolders'
  <1>1. SUFFICES ASSUME NEW u \in Tasks
                 PROVE  /\ ref'[u] = (IF InSession(u)' THEN 1 ELSE 0)
                                     + (IF OnQueue(u)' THEN 1 ELSE 0)
                        /\ alloc'[u] = "live" <=> ref'[u] > 0
    BY DEF RefsCountHolders
  <1>2. CASE u = x
    <2>1. /\ ref[x] = (IF InSession(x) THEN 1 ELSE 0) + (IF OnQueue(x) THEN 1 ELSE 0)
          /\ alloc[x] = "live" <=> ref[x] > 0
      BY DEF RefsCountHolders
    <2>2. ref'[x] = ref[x] - 1 /\ alloc'[x] = IF ref[x] = 1 THEN "freed" ELSE alloc[x]
      BY DEF TypeOK
    <2>3. CASE InSession(x) /\ OnQueue(x)
      BY <1>2, <2>1, <2>2, <2>3
    <2>4. CASE ~(InSession(x) /\ OnQueue(x))
      BY <1>2, <2>1, <2>2, <2>4
    <2> QED BY <2>3, <2>4
  <1>3. CASE u # x
    <2>1. ref'[u] = ref[u] /\ alloc'[u] = alloc[u]
      BY <1>3 DEF TypeOK
    <2> QED BY <1>3, <2>1 DEF RefsCountHolders
  <1> QED BY <1>2, <1>3

\* A step in which a session lets go of all its tasks.
LEMMA HolderClear ==
    ASSUME TypeOK, RefsCountHolders, NEW T \in SUBSET Tasks,
           ref' = [t \in Tasks |-> IF t \in T THEN ref[t] - 1 ELSE ref[t]],
           alloc' = [t \in Tasks |-> IF t \in T /\ ref[t] = 1 THEN "freed" ELSE alloc[t]],
           \A u \in T : InSession(u) /\ ~InSession(u)',
           \A u \in Tasks : /\ OnQueue(u)' <=> OnQueue(u)
                            /\ u \notin T => (InSession(u)' <=> InSession(u))
    PROVE  RefsCountHolders'
  <1>1. SUFFICES ASSUME NEW u \in Tasks
                 PROVE  /\ ref'[u] = (IF InSession(u)' THEN 1 ELSE 0)
                                     + (IF OnQueue(u)' THEN 1 ELSE 0)
                        /\ alloc'[u] = "live" <=> ref'[u] > 0
    BY DEF RefsCountHolders
  <1>2. CASE u \in T
    <2>1. /\ ref[u] = (IF InSession(u) THEN 1 ELSE 0) + (IF OnQueue(u) THEN 1 ELSE 0)
          /\ alloc[u] = "live" <=> ref[u] > 0
      BY DEF RefsCountHolders
    <2>2. ref'[u] = ref[u] - 1 /\ alloc'[u] = IF ref[u] = 1 THEN "freed" ELSE alloc[u]
      BY <1>2 DEF TypeOK
    <2>3. CASE OnQueue(u)
      BY <1>2, <2>1, <2>2, <2>3
    <2>4. CASE ~OnQueue(u)
      BY <1>2, <2>1, <2>2, <2>4
    <2> QED BY <2>3, <2>4
  <1>3. CASE u \notin T
    <2>1. ref'[u] = ref[u] /\ alloc'[u] = alloc[u]
      BY <1>3 DEF TypeOK
    <2> QED BY <1>3, <2>1 DEF RefsCountHolders
  <1> QED BY <1>2, <1>3

-----------------------------------------------------------------------------
(***************************************************************************)
(* The client's actions preserve the invariant.                            *)
(***************************************************************************)

\* Opening a file touches no task.
LEMMA InvOpen ==
    ASSUME Inv, NEW s \in Sessions, mpp_dev_open(s)
    PROVE  Inv'
  <1> USE DEF Inv, mpp_dev_open, sessVars, refVars, listVars, wVars, cVars,
      hwVars, iVars, hist
  <1>1. TypeOK'
    BY DEF TypeOK
  <1>2. \A u \in Tasks : (InSession(u)' <=> InSession(u)) /\ (OnQueue(u)' <=> OnQueue(u))
    BY DEF InSession, OnQueue, Untriggered, TypeOK
  <1>3. RefsCountHolders'
    BY <1>2, HolderFrame
  <1>4. SessionInv'
    BY DEF SessionInv, DeviceOf, TypeOK
  <1>5. QueueInv'
    BY DEF QueueInv, TypeOK
  <1>6. ClaimInv'
    BY DEF ClaimInv, TypeOK
  <1>7. DeviceInv'
    BY DEF DeviceInv, DeviceOf, TypeOK
  <1> QED BY <1>1, <1>3, <1>4, <1>5, <1>6, <1>7

\* A session that is attached has no task yet, so no task changes its device.
LEMMA InvInitClientType ==
    ASSUME Inv, NEW s \in Sessions, NEW d \in Devices, InitClientType(s, d)
    PROVE  Inv'
  <1> USE DEF Inv, InitClientType, IoctlAllowed, sessVars, refVars, listVars,
      wVars, cVars, hwVars, iVars, hist
  <1>1. TypeOK'
    BY DEF TypeOK
  <1>2. \A u \in Tasks : (InSession(u)' <=> InSession(u)) /\ (OnQueue(u)' <=> OnQueue(u))
    BY DEF InSession, OnQueue, Untriggered, TypeOK
  <1>3. RefsCountHolders'
    BY <1>2, HolderFrame
  <1>4. SessionInv'
    BY DEF SessionInv, DeviceOf, TypeOK
  <1>5. QueueInv'
    BY DEF QueueInv, TypeOK
  <1>6. ClaimInv'
    BY DEF ClaimInv, TypeOK
  <1>7. DeviceInv'
    <2>1. \A t \in Elems(running) : t \in Tasks /\ alloc[t] = "live"
      BY ElemsType, HeldIsLive DEF TypeOK, OnQueue
    <2>2. \A t \in Elems(running) : sdev'[owner[t]] = sdev[owner[t]]
      BY <2>1 DEF SessionInv, TypeOK
    <2>3. UNCHANGED <<owner, bits, running, curtask, hw, irqraw, iwake, ipc, itask>>
      OBVIOUS
    <2> QED BY <2>2, <2>3 DEF DeviceInv, DeviceOf
  <1> QED BY <1>1, <1>3, <1>4, <1>5, <1>6, <1>7

\* The new task is held by its session and by the allocating thread.
LEMMA InvProcessTask ==
    ASSUME Inv, NEW s \in Sessions, NEW t \in Tasks, NEW poll \in BOOLEAN,
           mpp_process_task_default(s, t, poll)
    PROVE  Inv'
  <1> USE DEF Inv, mpp_process_task_default, IoctlAllowed, sessVars, refVars,
      listVars, wVars, cVars, hwVars, iVars, hist
  <1>1. ~InSession(t) /\ ~OnQueue(t) /\ bits[t] = {} /\ timer[t] = "off"
    BY DEF TypeOK, RefsCountHolders, ClaimInv
  <1>2. /\ spend'[s] \in Seq(Tasks) /\ NoDup(spend'[s])
        /\ Elems(spend'[s]) = Elems(spend[s]) \cup {t}
        /\ \A u \in Sessions \ {s} : spend'[u] = spend[u]
    <2>1. t \notin Elems(spend[s])
      BY <1>1 DEF InSession
    <2> QED BY <2>1, ElemsAppend DEF TypeOK, SessionInv
  <1>3. TypeOK'
    BY <1>1, <1>2 DEF TypeOK
  <1>4. InSession(t)' /\ \A u \in Tasks \ {t} : InSession(u)' <=> InSession(u)
    BY <1>2 DEF InSession
  <1>5. OnQueue(t)' /\ \A u \in Tasks \ {t} : OnQueue(u)' <=> OnQueue(u)
    <2>1. /\ cpc'[s] = "trigger" /\ ctask'[s] = t /\ cpc[s] # "trigger"
          /\ \A u \in Sessions \ {s} : cpc'[u] = cpc[u] /\ ctask'[u] = ctask[u]
      BY DEF TypeOK
    <2> QED BY <2>1 DEF OnQueue, Untriggered
  <1>6. RefsCountHolders'
    BY <1>4, <1>5, HolderNew
  <1>7. SessionInv'
    <2>1. /\ owner'[t] = s /\ \A u \in Tasks \ {t} : owner'[u] = owner[u]
          /\ sess[s] = "attached" /\ ctask'[s] = t /\ cpc'[s] = "trigger"
          /\ \A u \in Sessions \ {s} : cpc'[u] = cpc[u] /\ ctask'[u] = ctask[u]
          /\ UNCHANGED <<sess, sdev, bits, qpend, running, detach>>
      BY DEF TypeOK
    <2>2. \A u \in Sessions : t \notin Elems(spend[u])
      BY <1>1 DEF InSession
    <2>3. \A u \in Sessions : \A v \in Elems(spend'[u]) : owner'[v] = u
      BY <1>2, <2>1, <2>2, ElemsType DEF SessionInv, TypeOK
    <2>4. \A u \in Sessions \ {s} : cpc[u] = "trigger" => ctask[u] # t
      BY <1>1 DEF OnQueue, Untriggered
    <2>5. \A u \in Tasks : alloc'[u] # "none" => /\ owner'[u] \in Sessions
                                                /\ sess'[owner'[u]] \notin {"none", "open"}
                                                /\ DeviceOf(u)' \in Devices
      BY <2>1 DEF SessionInv, TypeOK, DeviceOf
    <2>6. t \notin Elems(qpend) /\ t \notin Elems(running)
      BY <1>1 DEF OnQueue
    <2>7. ASSUME NEW u \in Sessions
          PROVE  /\ NoDup(spend'[u])
                 /\ cpc'[u] # "idle" => sess'[u] = "attached"
                 /\ cpc'[u] \in {"wait", "abort", "pop"} => ctask'[u] \in Elems(spend'[u])
                 /\ cpc'[u] \in {"idle", "get"} => ctask'[u] = Null
                 /\ u \in Elems(detach)' => sess'[u] = "detached"
                 /\ sess'[u] = "attached" => sdev'[u] \in Devices
      BY <1>2, <2>1 DEF SessionInv
    <2>8. ASSUME NEW u \in Sessions, cpc'[u] = "trigger"
          PROVE  /\ ctask'[u] \in Tasks
                 /\ owner'[ctask'[u]] = u
                 /\ "START" \notin bits'[ctask'[u]]
                 /\ ctask'[u] \notin Elems(qpend)'
                 /\ ctask'[u] \notin Elems(running)'
      BY <1>1, <2>1, <2>4, <2>6, <2>8 DEF SessionInv
    <2>9. NoDup(detach)'
      BY <2>1 DEF SessionInv
    <2> QED BY <2>3, <2>5, <2>7, <2>8, <2>9 DEF SessionInv
  <1>8. QueueInv'
    BY <1>1, <1>2 DEF QueueInv, TypeOK, RefsCountHolders, InSession, OnQueue,
        Untriggered
  <1>9. ClaimInv'
    BY <1>1, <1>2 DEF ClaimInv, TypeOK, RefsCountHolders, InSession, OnQueue,
        Untriggered
  <1>10. DeviceInv'
    <2>1. \A u \in Elems(running) : u \in Tasks /\ owner'[u] = owner[u]
      BY <1>1, ElemsType DEF TypeOK, OnQueue
    <2>2. UNCHANGED <<sdev, bits, running, curtask, hw, irqraw, iwake, ipc, itask>>
      OBVIOUS
    <2> QED BY <2>1, <2>2 DEF DeviceInv, DeviceOf
  <1> QED BY <1>3, <1>6, <1>7, <1>8, <1>9, <1>10

\* The reference of the allocating thread becomes the one of the queue.
LEMMA InvMsgsTrigger ==
    ASSUME Inv, NEW s \in Sessions, mpp_msgs_trigger(s)
    PROVE  Inv'
  <1> USE DEF Inv, mpp_msgs_trigger, set_bit, mpp_taskqueue_trigger_work,
      StateBits, sessVars, refVars, listVars, wVars, cVars, hwVars, iVars, hist
  <1>1. ctask[s] \in Tasks /\ ctask[s] \notin Elems(qpend) /\ ctask[s] \notin Elems(running)
    BY DEF SessionInv
  <1>2. /\ qpend' \in Seq(Tasks) /\ NoDup(qpend')
        /\ Elems(qpend') = Elems(qpend) \cup {ctask[s]}
    BY <1>1, ElemsAppend DEF TypeOK, QueueInv
  <1>3. sdev[s] \in Devices /\ alloc[ctask[s]] = "live"
    BY <1>1, HeldIsLive DEF SessionInv, OnQueue, Untriggered
  <1>4. TypeOK'
    BY <1>1, <1>2, <1>3 DEF TypeOK
  <1>5. \A u \in Tasks : (InSession(u)' <=> InSession(u)) /\ (OnQueue(u)' <=> OnQueue(u))
    BY <1>1, <1>2, <1>3 DEF InSession, OnQueue, Untriggered, TypeOK,
        SessionInv, DeviceOf
  <1>6. RefsCountHolders'
    BY <1>5, HolderFrame
  <1>7. SessionInv'
    BY <1>1, <1>2, <1>3, SMTT(30) DEF SessionInv, DeviceOf, TypeOK, RefsCountHolders,
        InSession, OnQueue, Untriggered
  <1>8. QueueInv'
    BY <1>1, <1>2, <1>3 DEF QueueInv, TypeOK, SessionInv, DeviceOf
  <1>9. ClaimInv'
    BY <1>1, <1>2, <1>3 DEF ClaimInv, TypeOK
  <1>10. DeviceInv'
    BY <1>1, <1>2, <1>3 DEF DeviceInv, DeviceOf, TypeOK
  <1> QED BY <1>4, <1>6, <1>7, <1>8, <1>9, <1>10

\* Starting to poll.
LEMMA InvPollIoctl ==
    ASSUME Inv, NEW s \in Sessions, PollIoctl(s)
    PROVE  Inv'
  <1> USE DEF Inv, PollIoctl, IoctlAllowed, sessVars, refVars, listVars,
      wVars, cVars, hwVars, iVars, hist
  <1>1. TypeOK'
    BY DEF TypeOK
  <1>2. \A u \in Tasks : (InSession(u)' <=> InSession(u)) /\ (OnQueue(u)' <=> OnQueue(u))
    BY DEF InSession, OnQueue, Untriggered, TypeOK
  <1>3. RefsCountHolders'
    BY <1>2, HolderFrame
  <1>4. SessionInv'
    BY DEF SessionInv, DeviceOf, TypeOK
  <1>5. QueueInv'
    BY DEF QueueInv, TypeOK
  <1>6. ClaimInv'
    BY DEF ClaimInv, TypeOK
  <1>7. DeviceInv'
    BY DEF DeviceInv, DeviceOf, TypeOK
  <1> QED BY <1>1, <1>3, <1>4, <1>5, <1>6, <1>7

\* The poller takes the head of its session's list.
LEMMA InvGetPendingTask ==
    ASSUME Inv, NEW s \in Sessions, mpp_session_get_pending_task(s)
    PROVE  Inv'
  <1> USE DEF Inv, mpp_session_get_pending_task, sessVars, refVars, listVars,
      wVars, cVars, hwVars, iVars, hist
  <1>1. spend[s] # <<>> => Head(spend[s]) \in Elems(spend[s]) /\ Head(spend[s]) \in Tasks
    BY ElemsType DEF TypeOK
  <1>2. /\ cpc' \in [Sessions -> {"idle", "trigger", "get", "wait", "abort", "pop"}]
        /\ ctask' \in [Sessions -> Tasks \cup {Null}]
        /\ cpc'[s] # "trigger"
        /\ \A u \in Sessions \ {s} : cpc'[u] = cpc[u] /\ ctask'[u] = ctask[u]
    <2>1. CASE spend[s] = <<>>
      <3>1. cpc' = [cpc EXCEPT ![s] = "idle"] /\ ctask' = ctask
        BY <2>1
      <3> QED BY <3>1 DEF TypeOK
    <2>2. CASE spend[s] # <<>>
      <3>1. PICK x \in Tasks : x = Head(spend[s])
        BY <1>1, <2>2
      <3>2. cpc' = [cpc EXCEPT ![s] = "wait"] /\ ctask' = [ctask EXCEPT ![s] = x]
        BY <2>2, <3>1
      <3> QED BY <3>2 DEF TypeOK
    <2> QED BY <2>1, <2>2
  <1>3. TypeOK'
    BY <1>2 DEF TypeOK
  <1>4. \A u \in Tasks : InSession(u)' <=> InSession(u)
    BY DEF InSession
  <1>5. \A u \in Tasks : OnQueue(u)' <=> OnQueue(u)
    <2>1. cpc[s] = "get" /\ qpend' = qpend /\ running' = running
      OBVIOUS
    <2> QED BY <1>2, <2>1 DEF OnQueue, Untriggered
  <1>6. RefsCountHolders'
    BY <1>4, <1>5, HolderFrame
  <1>7. SessionInv'
    BY <1>1 DEF SessionInv, DeviceOf, TypeOK
  <1>8. QueueInv'
    BY <1>1 DEF QueueInv, TypeOK
  <1>9. ClaimInv'
    BY <1>1 DEF ClaimInv, TypeOK
  <1>10. DeviceInv'
    BY <1>1 DEF DeviceInv, DeviceOf, TypeOK
  <1> QED BY <1>3, <1>6, <1>7, <1>8, <1>9, <1>10

\* The wait ends.
LEMMA InvWaitDone ==
    ASSUME Inv, NEW s \in Sessions, WaitDone(s)
    PROVE  Inv'
  <1> USE DEF Inv, WaitDone, sessVars, refVars, listVars, wVars, cVars,
      hwVars, iVars, hist
  <1>1. TypeOK'
    BY DEF TypeOK
  <1>2. \A u \in Tasks : (InSession(u)' <=> InSession(u)) /\ (OnQueue(u)' <=> OnQueue(u))
    BY DEF InSession, OnQueue, Untriggered, TypeOK
  <1>3. RefsCountHolders'
    BY <1>2, HolderFrame
  <1>4. SessionInv'
    BY DEF SessionInv, DeviceOf, TypeOK
  <1>5. QueueInv'
    BY DEF QueueInv, TypeOK
  <1>6. ClaimInv'
    BY DEF ClaimInv, TypeOK
  <1>7. DeviceInv'
    BY DEF DeviceInv, DeviceOf, TypeOK
  <1> QED BY <1>1, <1>3, <1>4, <1>5, <1>6, <1>7

\* The wait times out.
LEMMA InvWaitTimeout ==
    ASSUME Inv, NEW s \in Sessions, WaitTimeout(s)
    PROVE  Inv'
  <1> USE DEF Inv, WaitTimeout, sessVars, refVars, listVars, wVars, cVars,
      hwVars, iVars, hist
  <1>1. TypeOK'
    BY DEF TypeOK
  <1>2. \A u \in Tasks : (InSession(u)' <=> InSession(u)) /\ (OnQueue(u)' <=> OnQueue(u))
    BY DEF InSession, OnQueue, Untriggered, TypeOK
  <1>3. RefsCountHolders'
    BY <1>2, HolderFrame
  <1>4. SessionInv'
    BY DEF SessionInv, DeviceOf, TypeOK
  <1>5. QueueInv'
    BY DEF QueueInv, TypeOK
  <1>6. ClaimInv'
    BY DEF ClaimInv, TypeOK
  <1>7. DeviceInv'
    BY DEF DeviceInv, DeviceOf, TypeOK
  <1> QED BY <1>1, <1>3, <1>4, <1>5, <1>6, <1>7

\* The poller gives up; the ABORT bit is none of those the invariant mentions.
LEMMA InvWaitAbort ==
    ASSUME Inv, NEW s \in Sessions, WaitAbort(s)
    PROVE  Inv'
  <1> USE DEF Inv, WaitAbort, set_bit, StateBits, sessVars, refVars, listVars,
      wVars, cVars, hwVars, iVars, hist
  <1>1. ctask[s] \in Elems(spend[s]) /\ ctask[s] \in Tasks
    BY ElemsType DEF SessionInv, TypeOK
  <1>2. alloc[ctask[s]] = "live"
    BY <1>1, HeldIsLive DEF InSession
  <1>3. TypeOK'
    BY <1>1, <1>2 DEF TypeOK
  <1>4. \A u \in Tasks : (InSession(u)' <=> InSession(u)) /\ (OnQueue(u)' <=> OnQueue(u))
    BY <1>1, <1>2 DEF InSession, OnQueue, Untriggered, TypeOK
  <1>5. RefsCountHolders'
    BY <1>4, HolderFrame
  <1>6. SessionInv'
    BY <1>1, <1>2 DEF SessionInv, DeviceOf, TypeOK
  <1>7. QueueInv'
    BY <1>1, <1>2 DEF QueueInv, TypeOK
  <1>8. ClaimInv'
    BY <1>1, <1>2 DEF ClaimInv, TypeOK
  <1>9. DeviceInv'
    BY <1>1, <1>2 DEF DeviceInv, DeviceOf, TypeOK
  <1> QED BY <1>3, <1>5, <1>6, <1>7, <1>8, <1>9

\* The poller's task leaves the session's list, which gives up its reference.
LEMMA InvPopPending ==
    ASSUME Inv, NEW s \in Sessions, mpp_session_pop_pending(s)
    PROVE  Inv'
  <1> USE DEF Inv, mpp_session_pop_pending, sessVars, refVars, listVars,
      wVars, cVars, hwVars, iVars, hist
  <1>0. PICK x \in Tasks : x = ctask[s]
    BY ElemsType DEF SessionInv, TypeOK
  <1>1. x \in Elems(spend[s])
    BY <1>0 DEF SessionInv
  <1>2. /\ spend' \in [Sessions -> Seq(Tasks)] /\ NoDup(spend'[s])
        /\ Elems(spend'[s]) = Elems(spend[s]) \ {x}
        /\ \A u \in Sessions \ {s} : spend'[u] = spend[u]
    BY <1>0, ElemsListDel DEF TypeOK, SessionInv
  <1>3. /\ ref' = [ref EXCEPT ![x] = @ - 1]
        /\ alloc' = [t \in Tasks |-> IF t = x /\ ref[t] = 1 THEN "freed" ELSE alloc[t]]
        /\ owner' = owner
        /\ alloc' \in [Tasks -> {"none", "live", "freed"}]
        /\ scount' \in [Sessions -> Int] /\ dcount' \in [Devices -> Int]
    BY <1>0, KrefPut DEF TypeOK
  <1>4. ref[x] \in 1 .. 2 /\ alloc[x] = "live" /\ ref' \in [Tasks -> 0 .. 2]
    BY <1>1, <1>3, HeldIsLive DEF InSession, TypeOK
  <1>5. TypeOK'
    BY <1>2, <1>3, <1>4 DEF TypeOK
  <1>6. /\ InSession(x) /\ ~InSession(x)'
        /\ \A u \in Tasks \ {x} : InSession(u)' <=> InSession(u)
    <2>1. \A u \in Sessions \ {s} : x \notin Elems(spend[u])
      BY <1>1 DEF SessionInv
    <2> QED BY <1>1, <1>2, <2>1 DEF InSession
  <1>7. \A u \in Tasks : OnQueue(u)' <=> OnQueue(u)
    <2>1. /\ cpc[s] # "trigger" /\ cpc'[s] # "trigger"
          /\ qpend' = qpend /\ running' = running
          /\ \A u \in Sessions \ {s} : cpc'[u] = cpc[u] /\ ctask'[u] = ctask[u]
      BY DEF TypeOK
    <2> QED BY <2>1 DEF OnQueue, Untriggered
  <1>8. RefsCountHolders'
    BY <1>3, <1>6, <1>7, HolderPut
  <1>9. SessionInv'
    BY <1>0, <1>1, <1>2, <1>3, <1>4 DEF SessionInv, DeviceOf, TypeOK
  <1>10. QueueInv'
    BY <1>1, <1>2, <1>3, <1>4 DEF QueueInv, TypeOK
  <1>11. ClaimInv'
    BY <1>1, <1>2, <1>3, <1>4 DEF ClaimInv, TypeOK
  <1>12. DeviceInv'
    BY <1>1, <1>2, <1>3, <1>4 DEF DeviceInv, DeviceOf, TypeOK
  <1> QED BY <1>5, <1>8, <1>9, <1>10, <1>11, <1>12

\* All references of the session's list are given up.
LEMMA InvResetSession ==
    ASSUME Inv, NEW s \in Sessions, ResetSession(s)
    PROVE  Inv'
  <1> DEFINE T == Elems(spend[s])
  <1> USE DEF Inv, ResetSession, IoctlAllowed, mpp_session_clear, sessVars,
      refVars, listVars, wVars, cVars, hwVars, iVars, hist
  <1>1. /\ T \in SUBSET Tasks
        /\ \A t \in T : ref[t] \in 1 .. 2 /\ alloc[t] = "live"
        /\ \A u \in Sessions \ {s} : \A t \in Elems(spend[u]) : t \notin T
    <2>1. Elems(spend[s]) \subseteq Tasks
      BY ElemsType DEF TypeOK
    <2>2. \A t \in Elems(spend[s]) : ref[t] \in 1 .. 2 /\ alloc[t] = "live"
      BY <2>1, HeldIsLive DEF InSession
    <2> QED BY <2>1, <2>2 DEF SessionInv
  <1>2. /\ ref' = [t \in Tasks |-> IF t \in T THEN ref[t] - 1 ELSE ref[t]]
        /\ alloc' = [t \in Tasks |-> IF t \in T /\ ref[t] = 1 THEN "freed" ELSE alloc[t]]
        /\ owner' = owner
        /\ alloc' \in [Tasks -> {"none", "live", "freed"}]
        /\ scount' \in [Sessions -> Int] /\ dcount' \in [Devices -> Int]
    BY <1>1, KrefPut
  <1>3. /\ spend' \in [Sessions -> Seq(Tasks)]
        /\ spend'[s] = <<>> /\ Elems(spend'[s]) = {} /\ NoDup(spend'[s])
        /\ \A u \in Sessions \ {s} : spend'[u] = spend[u]
    BY DEF TypeOK, Elems, NoDup
  <1>4. ref' \in [Tasks -> 0 .. 2] /\ abort' \in [Tasks -> BOOLEAN]
    <2> HIDE DEF T
    <2>1. ref' \in [Tasks -> 0 .. 2]
      BY <1>1, <1>2 DEF TypeOK
    <2>2. abort' \in [Tasks -> BOOLEAN]
      BY Zenon DEF T
    <2> QED BY <2>1, <2>2
  <1>5. TypeOK'
    BY <1>2, <1>3, <1>4 DEF TypeOK
  <1>6. /\ \A u \in T : InSession(u) /\ ~InSession(u)'
        /\ \A u \in Tasks \ T : InSession(u)' <=> InSession(u)
    BY <1>1, <1>3 DEF InSession
  <1>7. \A u \in Tasks : OnQueue(u)' <=> OnQueue(u)
    BY DEF OnQueue, Untriggered
  <1>8. RefsCountHolders'
    <2> HIDE DEF T, ResetSession, mpp_session_clear
    <2> QED BY <1>1, <1>2, <1>6, <1>7, HolderClear
  <1>9. SessionInv'
    <2>1. \A t \in Tasks : alloc'[t] # "none" => alloc[t] # "none"
      BY <1>1, <1>2
    <2>2. \A u \in Sessions : /\ NoDup(spend'[u])
                              /\ \A t \in Elems(spend'[u]) : owner[t] = u
                              /\ cpc[u] \in {"wait", "abort", "pop"} => ctask[u] \in Elems(spend'[u])
      BY <1>3 DEF SessionInv
    <2>3. UNCHANGED <<sess, sdev, owner, bits, qpend, running, detach, cpc, ctask>>
      BY <1>2
    <2> HIDE DEF T, ResetSession, mpp_session_clear
    <2> QED BY <2>1, <2>2, <2>3 DEF SessionInv, DeviceOf
  <1>10. QueueInv'
    BY <1>1, <1>2, <1>3 DEF QueueInv, TypeOK
  <1>11. ClaimInv'
    BY <1>1, <1>2, <1>3 DEF ClaimInv, TypeOK
  <1>12. DeviceInv'
    BY <1>1, <1>2, <1>3 DEF DeviceInv, DeviceOf, TypeOK
  <1> QED BY <1>5, <1>8, <1>9, <1>10, <1>11, <1>12

\* The session goes to the worker; no thread of the client is in an ioctl.
LEMMA InvRelease ==
    ASSUME Inv, NEW s \in Sessions, mpp_dev_release(s)
    PROVE  Inv'
  <1> USE DEF Inv, mpp_dev_release, mpp_taskqueue_trigger_work, sessVars,
      refVars, listVars, wVars, cVars, hwVars, iVars, hist
  <1>1. /\ detach' \in Seq(Sessions) /\ NoDup(detach') /\ trig' \subseteq Devices
        /\ sess' \in [Sessions -> {"none", "open", "attached", "detached", "orphan", "freed"}]
        /\ \/ sess' = [sess EXCEPT ![s] = "detached"] /\ Elems(detach') = Elems(detach) \cup {s}
           \/ sess' = [sess EXCEPT ![s] = "freed"] /\ Elems(detach') = Elems(detach)
    <2>1. CASE sess[s] = "attached"
      <3>1. /\ sess' = [sess EXCEPT ![s] = "detached"] /\ detach' = Append(detach, s)
            /\ trig' = trig \cup {sdev[s]} /\ sdev[s] \in Devices
        BY <2>1 DEF SessionInv
      <3>2. s \notin Elems(detach)
        BY <2>1 DEF SessionInv
      <3> QED BY <3>1, <3>2, ElemsAppend DEF TypeOK, SessionInv
    <2>2. CASE sess[s] # "attached"
      <3>1. sess' = [sess EXCEPT ![s] = "freed"] /\ detach' = detach /\ trig' = trig
        BY <2>2
      <3> QED BY <3>1 DEF TypeOK, SessionInv
    <2> QED BY <2>1, <2>2
  <1>2. TypeOK'
    BY <1>1 DEF TypeOK
  <1>3. \A u \in Tasks : (InSession(u)' <=> InSession(u)) /\ (OnQueue(u)' <=> OnQueue(u))
    BY <1>1 DEF InSession, OnQueue, Untriggered, TypeOK
  <1>4. RefsCountHolders'
    BY <1>3, HolderFrame
  <1>5. SessionInv'
    <2>1. s \notin Elems(detach)
      BY DEF SessionInv
    <2>2. UNCHANGED <<sdev, spend, owner, alloc, bits, qpend, running, cpc, ctask>>
      OBVIOUS
    <2>3. /\ sess'[s] \in {"detached", "freed"}
          /\ s \in Elems(detach') => sess'[s] = "detached"
          /\ \A u \in Sessions \ {s} :
                sess'[u] = sess[u] /\ (u \in Elems(detach') <=> u \in Elems(detach))
      BY <1>1, <2>1 DEF TypeOK
    <2>4. cpc[s] = "idle"
      OBVIOUS
    <2> HIDE DEF mpp_dev_release
    <2>5. \A u \in Sessions :
             /\ cpc[u] # "idle" => sess'[u] = "attached"
             /\ u \in Elems(detach') => sess'[u] = "detached"
             /\ sess'[u] = "attached" => sdev[u] \in Devices
      BY <2>3, <2>4 DEF SessionInv
    <2>6. \A t \in Tasks : alloc[t] # "none" => sess'[owner[t]] \notin {"none", "open"}
      BY <2>3 DEF SessionInv
    <2> QED BY <1>1, <2>2, <2>5, <2>6 DEF SessionInv, DeviceOf
  <1>6. QueueInv'
    BY <1>1 DEF QueueInv, TypeOK
  <1>7. ClaimInv'
    BY <1>1 DEF ClaimInv, TypeOK
  <1>8. DeviceInv'
    BY <1>1 DEF DeviceInv, DeviceOf, TypeOK
  <1> QED BY <1>2, <1>4, <1>5, <1>6, <1>7, <1>8

-----------------------------------------------------------------------------
(***************************************************************************)
(* The worker's actions preserve the invariant.                            *)
(***************************************************************************)

\* The worker starts.
LEMMA InvWorkerStart ==
    ASSUME Inv, NEW d \in Devices, WorkerStart(d)
    PROVE  Inv'
  <1> USE DEF Inv, WorkerStart, sessVars, refVars, listVars, wVars, cVars,
      hwVars, iVars, hist
  <1>1. TypeOK'
    BY DEF TypeOK
  <1>2. \A u \in Tasks : (InSession(u)' <=> InSession(u)) /\ (OnQueue(u)' <=> OnQueue(u))
    BY DEF InSession, OnQueue, Untriggered, TypeOK
  <1>3. RefsCountHolders'
    BY <1>2, HolderFrame
  <1>4. SessionInv'
    BY DEF SessionInv, DeviceOf, TypeOK
  <1>5. QueueInv'
    BY DEF QueueInv, TypeOK
  <1>6. ClaimInv'
    BY DEF ClaimInv, TypeOK
  <1>7. DeviceInv'
    BY DEF DeviceInv, DeviceOf, TypeOK
  <1> QED BY <1>1, <1>3, <1>4, <1>5, <1>6, <1>7

\* The worker takes the head of the pending list.
LEMMA InvWorkerPeek ==
    ASSUME Inv, mpp_taskqueue_get_pending_task
    PROVE  Inv'
  <1> USE DEF Inv, mpp_taskqueue_get_pending_task, sessVars, refVars,
      listVars, wVars, cVars, hwVars, iVars, hist
  <1>1. qpend # <<>> => Head(qpend) \in Elems(qpend) /\ Head(qpend) \in Tasks
    BY ElemsType DEF TypeOK
  <1>2. TypeOK'
    BY <1>1, ZenonT(40) DEF TypeOK
  <1>3. \A u \in Tasks : (InSession(u)' <=> InSession(u)) /\ (OnQueue(u)' <=> OnQueue(u))
    BY <1>1 DEF InSession, OnQueue, Untriggered, TypeOK
  <1>4. RefsCountHolders'
    BY <1>3, HolderFrame
  <1>5. SessionInv'
    BY <1>1 DEF SessionInv, DeviceOf, TypeOK
  <1>6. QueueInv'
    BY <1>1 DEF QueueInv, TypeOK
  <1>7. ClaimInv'
    BY <1>1 DEF ClaimInv, TypeOK
  <1>8. DeviceInv'
    BY <1>1 DEF DeviceInv, DeviceOf, TypeOK
  <1> QED BY <1>2, <1>4, <1>5, <1>6, <1>7, <1>8

\* The queue gives up an aborted task.
LEMMA InvPopAborted ==
    ASSUME Inv, mpp_taskqueue_pop_pending
    PROVE  Inv'
  <1> USE DEF Inv, mpp_taskqueue_pop_pending, sessVars, refVars, listVars, wVars, cVars,
      hwVars, iVars, hist
  <1>0. PICK x \in Tasks : x = Head(qpend)
    BY ElemsType DEF TypeOK, QueueInv, DeviceInv
  <1>1. x \in Elems(qpend)
    BY <1>0, ElemsType DEF TypeOK, QueueInv, ClaimInv, DeviceInv
  <1>2. /\ qpend' \in Seq(Tasks) /\ NoDup(qpend')
        /\ Elems(qpend') = Elems(qpend) \ {x}
    BY <1>0, ElemsListDel DEF TypeOK, QueueInv
  <1>3. /\ ref' = [ref EXCEPT ![x] = @ - 1]
        /\ alloc' = [u \in Tasks |-> IF u = x /\ ref[u] = 1 THEN "freed" ELSE alloc[u]]
        /\ owner' = owner
        /\ alloc' \in [Tasks -> {"none", "live", "freed"}]
        /\ scount' \in [Sessions -> Int] /\ dcount' \in [Devices -> Int]
    BY <1>0, KrefPut DEF TypeOK
  <1>4. ref[x] \in 1 .. 2 /\ alloc[x] = "live" /\ ref' \in [Tasks -> 0 .. 2]
    BY <1>1, <1>3, HeldIsLive DEF OnQueue, TypeOK
  <1>5. TypeOK'
    BY <1>0, <1>2, <1>3, <1>4 DEF TypeOK
  <1>6. \A u \in Tasks : InSession(u)' <=> InSession(u)
    BY DEF InSession
  <1>7. /\ OnQueue(x) /\ ~OnQueue(x)'
        /\ \A u \in Tasks \ {x} : OnQueue(u)' <=> OnQueue(u)
    <2>1. \A s \in Sessions : cpc[s] = "trigger" => ctask[s] # x
      BY <1>1 DEF SessionInv
    <2>2. ~(x \in Elems(qpend) /\ x \in Elems(running))
      BY DEF QueueInv
    <2> QED BY <1>1, <1>2, <2>1, <2>2 DEF OnQueue, Untriggered
  <1>8. RefsCountHolders'
    BY <1>3, <1>6, <1>7, HolderPut
  <1>9. SessionInv'
    BY <1>1, <1>2, <1>3, <1>4 DEF SessionInv, DeviceOf, TypeOK
  <1>10. QueueInv'
    BY <1>0, <1>1, <1>2, <1>3, <1>4 DEF QueueInv, TypeOK, ClaimInv
  <1>11. ClaimInv'
    BY <1>0, <1>1, <1>2, <1>3, <1>4 DEF ClaimInv, TypeOK
  <1>12. DeviceInv'
    BY <1>0, <1>1, <1>2, <1>3, <1>4 DEF DeviceInv, DeviceOf, TypeOK, ClaimInv
  <1> QED BY <1>5, <1>8, <1>9, <1>10, <1>11, <1>12

\* The worker finds the running list empty, or leaves the task alone.
LEMMA InvIsRunning ==
    ASSUME Inv, mpp_taskqueue_is_running
    PROVE  Inv'
  <1> USE DEF Inv, mpp_taskqueue_is_running, sessVars, refVars, listVars,
      wVars, cVars, hwVars, iVars, hist
  <1>1. running = <<>> => Elems(running) = {}
    BY ElemsType DEF TypeOK
  <1>2. TypeOK'
    BY <1>1 DEF TypeOK
  <1>3. \A u \in Tasks : (InSession(u)' <=> InSession(u)) /\ (OnQueue(u)' <=> OnQueue(u))
    BY <1>1 DEF InSession, OnQueue, Untriggered, TypeOK
  <1>4. RefsCountHolders'
    BY <1>3, HolderFrame
  <1>5. SessionInv'
    BY <1>1 DEF SessionInv, DeviceOf, TypeOK
  <1>6. QueueInv'
    BY <1>1 DEF QueueInv, TypeOK
  <1>7. ClaimInv'
    BY <1>1 DEF ClaimInv, TypeOK
  <1>8. DeviceInv'
    BY <1>1 DEF DeviceInv, DeviceOf, TypeOK
  <1> QED BY <1>2, <1>4, <1>5, <1>6, <1>7, <1>8

\* The task moves from one list of the queue to the other.
LEMMA InvPendingToRun ==
    ASSUME Inv, mpp_taskqueue_pending_to_run
    PROVE  Inv'
  <1> USE DEF Inv, mpp_taskqueue_pending_to_run, set_bit, StateBits, sessVars,
      refVars, listVars, wVars, cVars, hwVars, iVars, hist
  <1>1. wtask \in Elems(qpend) /\ wtask \in Tasks /\ wtask \notin Elems(running) /\ Elems(running) = {}
    BY ElemsType DEF TypeOK, QueueInv
  <1>2. /\ qpend' \in Seq(Tasks) /\ NoDup(qpend')
        /\ Elems(qpend') = Elems(qpend) \ {wtask}
    BY ElemsListDel DEF TypeOK, QueueInv
  <1>3. /\ running' \in Seq(Tasks) /\ NoDup(running')
        /\ Elems(running') = {wtask}
    BY <1>1, ElemsAppend DEF TypeOK, QueueInv
  <1>4. alloc[wtask] = "live"
    BY <1>1, HeldIsLive DEF OnQueue
  <1>5. TypeOK'
    BY <1>1, <1>2, <1>3, <1>4 DEF TypeOK
  <1>6. \A u \in Tasks : (InSession(u)' <=> InSession(u)) /\ (OnQueue(u)' <=> OnQueue(u))
    BY <1>1, <1>2, <1>3, <1>4 DEF InSession, OnQueue, Untriggered, TypeOK,
        SessionInv, DeviceOf, QueueInv
  <1>7. RefsCountHolders'
    BY <1>6, HolderFrame
  <1>8. SessionInv'
    BY <1>1, <1>2, <1>3, <1>4 DEF SessionInv, DeviceOf, TypeOK, QueueInv
  <1>9. QueueInv'
    BY <1>1, <1>2, <1>3, <1>4 DEF QueueInv, TypeOK
  <1>10. ClaimInv'
    BY <1>1, <1>2, <1>3, <1>4 DEF ClaimInv, TypeOK, QueueInv
  <1>11. DeviceInv'
    BY <1>1, <1>2, <1>3, <1>4 DEF DeviceInv, DeviceOf, TypeOK
  <1> QED BY <1>5, <1>7, <1>8, <1>9, <1>10, <1>11

\* The timer is armed: no device has an interrupt due, because any such interrupt
\* would concern the only task of the running list, which was not started yet.
LEMMA InvTaskRun ==
    ASSUME Inv, mpp_task_run
    PROVE  Inv'
  <1> USE DEF Inv, mpp_task_run, set_bit, StateBits, sessVars, refVars,
      listVars, wVars, cVars, hwVars, iVars, hist
  <1>1. /\ wtask \in Tasks /\ Elems(running) = {wtask} /\ "START" \notin bits[wtask]
        /\ "HANDLE" \notin bits[wtask] /\ "IRQ" \notin bits[wtask] /\ "DONE" \notin bits[wtask]
    BY ElemsType DEF TypeOK, QueueInv, ClaimInv
  <1>2. alloc[wtask] = "live" /\ DeviceOf(wtask) \in Devices
    BY <1>1, HeldIsLive DEF OnQueue, SessionInv
  <1>3. TypeOK'
    BY <1>1, <1>2 DEF TypeOK
  <1>4. \A u \in Tasks : (InSession(u)' <=> InSession(u)) /\ (OnQueue(u)' <=> OnQueue(u))
    BY <1>1, <1>2 DEF InSession, OnQueue, Untriggered, TypeOK
  <1>5. RefsCountHolders'
    BY <1>4, HolderFrame
  <1>6. SessionInv'
    BY <1>1, <1>2 DEF SessionInv, DeviceOf, TypeOK
  <1>7. QueueInv'
    BY <1>1, <1>2 DEF QueueInv, TypeOK
  <1>8. ClaimInv'
    BY <1>1, <1>2 DEF ClaimInv, TypeOK
  <1>9. DeviceInv'
    BY <1>1, <1>2 DEF DeviceInv, DeviceOf, TypeOK, ClaimInv, QueueInv
  <1> QED BY <1>3, <1>5, <1>6, <1>7, <1>8, <1>9

\* Starting the hardware for the only task of the running list.
LEMMA InvVdpuRun ==
    ASSUME Inv, vdpu_run
    PROVE  Inv'
  <1> USE DEF Inv, vdpu_run, sessVars, refVars, listVars, wVars, cVars, hwVars, iVars, hist
  <1>1. /\ wtask \in Tasks /\ Elems(running) = {wtask} /\ "START" \in bits[wtask]
        /\ "IRQ" \notin bits[wtask] /\ "DONE" \notin bits[wtask]
    BY ElemsType DEF TypeOK, QueueInv
  <1>2. alloc[wtask] = "live" /\ DeviceOf(wtask) \in Devices
    BY <1>1, HeldIsLive DEF OnQueue, SessionInv
  <1>3. TypeOK'
    BY <1>1, <1>2 DEF TypeOK
  <1>4. \A u \in Tasks : (InSession(u)' <=> InSession(u)) /\ (OnQueue(u)' <=> OnQueue(u))
    BY DEF InSession, OnQueue, Untriggered
  <1>5. RefsCountHolders'
    BY <1>4, HolderFrame
  <1>6. SessionInv'
    BY DEF SessionInv, DeviceOf
  <1>7. QueueInv'
    BY <1>1 DEF QueueInv
  <1>8. ClaimInv'
    BY DEF ClaimInv
  <1>9. DeviceInv'
    BY <1>1, <1>2 DEF DeviceInv, DeviceOf, TypeOK
  <1> QED BY <1>3, <1>5, <1>6, <1>7, <1>8, <1>9

\* A task that could not be started leaves the running list.
LEMMA InvTaskRunFailed ==
    ASSUME Inv, mpp_task_run_failed
    PROVE  Inv'
  <1> USE DEF Inv, mpp_task_run_failed, sessVars, refVars, listVars, wVars, cVars,
      hwVars, iVars, hist
  <1>0. PICK x \in Tasks : x = wtask
    BY ElemsType DEF TypeOK, QueueInv, DeviceInv
  <1>1. Elems(running) = {x} /\ "START" \notin bits[x] /\ "HANDLE" \notin bits[x]
    BY <1>0, ElemsType DEF TypeOK, QueueInv, ClaimInv, DeviceInv
  <1>2. /\ running' \in Seq(Tasks) /\ NoDup(running')
        /\ Elems(running') = Elems(running) \ {x}
    BY <1>0, ElemsListDel DEF TypeOK, QueueInv
  <1>3. /\ ref' = [ref EXCEPT ![x] = @ - 1]
        /\ alloc' = [u \in Tasks |-> IF u = x /\ ref[u] = 1 THEN "freed" ELSE alloc[u]]
        /\ owner' = owner
        /\ alloc' \in [Tasks -> {"none", "live", "freed"}]
        /\ scount' \in [Sessions -> Int] /\ dcount' \in [Devices -> Int]
    BY <1>0, KrefPut DEF TypeOK
  <1>4. ref[x] \in 1 .. 2 /\ alloc[x] = "live" /\ ref' \in [Tasks -> 0 .. 2]
    BY <1>1, <1>3, HeldIsLive DEF OnQueue, TypeOK
  <1>5. TypeOK'
    BY <1>0, <1>2, <1>3, <1>4 DEF TypeOK
  <1>6. \A u \in Tasks : InSession(u)' <=> InSession(u)
    BY DEF InSession
  <1>7. /\ OnQueue(x) /\ ~OnQueue(x)'
        /\ \A u \in Tasks \ {x} : OnQueue(u)' <=> OnQueue(u)
    <2>1. \A s \in Sessions : cpc[s] = "trigger" => ctask[s] # x
      BY <1>1 DEF SessionInv
    <2>2. ~(x \in Elems(qpend) /\ x \in Elems(running))
      BY DEF QueueInv
    <2> QED BY <1>1, <1>2, <2>1, <2>2 DEF OnQueue, Untriggered
  <1>8. RefsCountHolders'
    BY <1>3, <1>6, <1>7, HolderPut
  <1>9. SessionInv'
    BY <1>1, <1>2, <1>3, <1>4 DEF SessionInv, DeviceOf, TypeOK
  <1>10. QueueInv'
    BY <1>0, <1>1, <1>2, <1>3, <1>4 DEF QueueInv, TypeOK, ClaimInv
  <1>11. ClaimInv'
    BY <1>0, <1>1, <1>2, <1>3, <1>4 DEF ClaimInv, TypeOK
  <1>12. DeviceInv'
    BY <1>0, <1>1, <1>2, <1>3, <1>4 DEF DeviceInv, DeviceOf, TypeOK, ClaimInv
  <1> QED BY <1>5, <1>8, <1>9, <1>10, <1>11, <1>12

\* A detached session has no client thread.  Its list, if not empty, is cleared;
\* a session that still has tasks is only forgotten.
LEMMA InvSessionDeinit ==
    ASSUME Inv, mpp_session_deinit
    PROVE  Inv'
  <1> USE DEF Inv, sessVars, refVars, listVars, wVars, cVars, hwVars, iVars, hist
  <1>0. PICK s \in Sessions : s = Head(detach)
    BY ElemsType DEF TypeOK, mpp_session_deinit
  <1>1. /\ sess[s] = "detached" /\ cpc[s] = "idle"
        /\ detach' \in Seq(Sessions) /\ NoDup(detach')
        /\ Elems(detach') = Elems(detach) \ {s}
    BY <1>0, ElemsType, ElemsTail DEF TypeOK, SessionInv, mpp_session_deinit
  <1>d. \A u \in Sessions : u \in Elems(detach') /\ u # s => sess[u] = "detached"
    BY <1>1 DEF SessionInv
  <1>2. CASE scount[s] # 0
    <2>0. /\ sess' = [sess EXCEPT ![s] = "orphan"]
          /\ UNCHANGED <<dma, refVars, abort, spend, sdev, bits, timer, qpend, running,
                         trig, wVars, cVars, hwVars, iVars, hist, shut>>
      BY <1>0, <1>2 DEF mpp_session_deinit
    <2> USE <2>0
    <2>1. TypeOK'
      BY <1>1 DEF TypeOK
    <2>2. RefsCountHolders'
      <3>1. \A u \in Tasks : (InSession(u)' <=> InSession(u)) /\ (OnQueue(u)' <=> OnQueue(u))
        BY DEF InSession, OnQueue, Untriggered
      <3> QED BY <3>1, HolderFrame
    <2>3. SessionInv'
      <3>1. sess'[s] = "orphan" /\ \A u \in Sessions \ {s} : sess'[u] = sess[u]
        BY DEF TypeOK
      <3>2. \A u \in Sessions :
               /\ cpc[u] # "idle" => sess'[u] = "attached"
               /\ u \in Elems(detach') => sess'[u] = "detached"
               /\ sess'[u] = "attached" => sdev[u] \in Devices
        BY <1>1, <1>d, <3>1 DEF SessionInv
      <3>3. \A t \in Tasks : alloc[t] # "none" => sess'[owner[t]] \notin {"none", "open"}
        BY <3>1 DEF SessionInv
      <3> QED BY <1>1, <3>2, <3>3 DEF SessionInv, DeviceOf
    <2>4. QueueInv'
      BY DEF QueueInv
    <2>5. ClaimInv'
      BY DEF ClaimInv
    <2>6. DeviceInv'
      BY DEF DeviceInv, DeviceOf
    <2> QED BY <2>1, <2>2, <2>3, <2>4, <2>5, <2>6
  <1>3. CASE scount[s] = 0
    <2>0. /\ sess' = [sess EXCEPT ![s] = "freed"]
          /\ dma' = [dma EXCEPT ![s] = "null"]
          /\ mpp_session_clear(s)
          /\ UNCHANGED <<sdev, bits, timer, qpend, running, trig, wVars, cVars, hwVars,
                         iVars, hist, shut>>
      BY <1>0, <1>3 DEF mpp_session_deinit
    <2>1. PICK T \in SUBSET Tasks : T = Elems(spend[s])
      BY <1>0, ElemsType DEF TypeOK
    <2>2. /\ \A t \in T : ref[t] \in 1 .. 2 /\ alloc[t] = "live"
          /\ \A u \in Sessions \ {s} : \A t \in Elems(spend[u]) : t \notin T
      BY <2>1, HeldIsLive DEF InSession, SessionInv
    <2>3. /\ ref' = [t \in Tasks |-> IF t \in T THEN ref[t] - 1 ELSE ref[t]]
          /\ alloc' = [t \in Tasks |-> IF t \in T /\ ref[t] = 1 THEN "freed" ELSE alloc[t]]
          /\ owner' = owner
          /\ alloc' \in [Tasks -> {"none", "live", "freed"}]
          /\ scount' \in [Sessions -> Int] /\ dcount' \in [Devices -> Int]
      BY <2>0, <2>1, KrefPut DEF mpp_session_clear
    <2>4. /\ spend' \in [Sessions -> Seq(Tasks)]
          /\ spend'[s] = <<>> /\ Elems(spend'[s]) = {} /\ NoDup(spend'[s])
          /\ \A u \in Sessions \ {s} : spend'[u] = spend[u]
      BY <2>0 DEF TypeOK, Elems, NoDup, mpp_session_clear
    <2>5. ref' \in [Tasks -> 0 .. 2] /\ abort' \in [Tasks -> BOOLEAN]
      <3>1. ref' \in [Tasks -> 0 .. 2]
        BY <2>2, <2>3 DEF TypeOK
      <3>2. abort' \in [Tasks -> BOOLEAN]
        BY <2>0, Zenon DEF mpp_session_clear
      <3> QED BY <3>1, <3>2
    <2>6. TypeOK'
      BY <1>1, <2>0, <2>3, <2>4, <2>5 DEF TypeOK
    <2>7. RefsCountHolders'
      <3>1. /\ \A u \in T : InSession(u) /\ ~InSession(u)'
            /\ \A u \in Tasks \ T : InSession(u)' <=> InSession(u)
        BY <2>1, <2>2, <2>4 DEF InSession
      <3>2. \A u \in Tasks : OnQueue(u)' <=> OnQueue(u)
        BY <2>0 DEF OnQueue, Untriggered
      <3> QED BY <2>3, <3>1, <3>2, HolderClear
    <2>8. SessionInv'
      <3>1. sess'[s] = "freed" /\ \A u \in Sessions \ {s} : sess'[u] = sess[u]
        BY <2>0 DEF TypeOK
      <3>2. \A u \in Sessions :
               /\ cpc[u] # "idle" => sess'[u] = "attached"
               /\ u \in Elems(detach') => sess'[u] = "detached"
               /\ sess'[u] = "attached" => sdev[u] \in Devices
        BY <1>1, <1>d, <3>1 DEF SessionInv
      <3>3. \A t \in Tasks : alloc'[t] # "none" =>
               alloc[t] # "none" /\ sess'[owner[t]] \notin {"none", "open"}
        BY <2>2, <2>3, <3>1 DEF SessionInv
      <3>4. \A u \in Sessions : /\ NoDup(spend'[u])
                                /\ \A t \in Elems(spend'[u]) : owner[t] = u
                                /\ cpc[u] \in {"wait", "abort", "pop"} => ctask[u] \in Elems(spend'[u])
        BY <1>1, <2>4 DEF SessionInv
      <3> QED BY <1>1, <2>0, <2>3, <3>2, <3>3, <3>4 DEF SessionInv, DeviceOf
    <2>9. QueueInv'
      BY <2>0 DEF QueueInv
    <2>10. ClaimInv'
      BY <2>0, <2>2, <2>3 DEF ClaimInv, TypeOK
    <2>11. DeviceInv'
      BY <2>0, <2>3 DEF DeviceInv, DeviceOf
    <2> QED BY <2>6, <2>7, <2>8, <2>9, <2>10, <2>11
  <1> QED BY <1>2, <1>3

\* The worker ends.
LEMMA InvWorkerEnd ==
    ASSUME Inv, WorkerEnd
    PROVE  Inv'
  <1> USE DEF Inv, WorkerEnd, sessVars, refVars, listVars, wVars, cVars,
      hwVars, iVars, hist
  <1>1. TypeOK'
    BY DEF TypeOK
  <1>2. \A u \in Tasks : (InSession(u)' <=> InSession(u)) /\ (OnQueue(u)' <=> OnQueue(u))
    BY DEF InSession, OnQueue, Untriggered, TypeOK
  <1>3. RefsCountHolders'
    BY <1>2, HolderFrame
  <1>4. SessionInv'
    BY DEF SessionInv, DeviceOf, TypeOK
  <1>5. QueueInv'
    BY DEF QueueInv, TypeOK
  <1>6. ClaimInv'
    BY DEF ClaimInv, TypeOK
  <1>7. DeviceInv'
    BY DEF DeviceInv, DeviceOf, TypeOK
  <1> QED BY <1>1, <1>3, <1>4, <1>5, <1>6, <1>7

-----------------------------------------------------------------------------
(***************************************************************************)
(* The interrupt and the timeout work preserve the invariant.              *)
(***************************************************************************)

\* The hardware raises the interrupt of the task it works on.
LEMMA InvHwFinish ==
    ASSUME Inv, NEW d \in Devices, NEW st \in {"ready", "error"}, HwFinish(d, st)
    PROVE  Inv'
  <1> USE DEF Inv, HwFinish, sessVars, refVars, listVars, wVars, cVars,
      hwVars, iVars, hist
  <1>1. TypeOK'
    BY DEF TypeOK
  <1>2. \A u \in Tasks : (InSession(u)' <=> InSession(u)) /\ (OnQueue(u)' <=> OnQueue(u))
    BY DEF InSession, OnQueue, Untriggered, TypeOK
  <1>3. RefsCountHolders'
    BY <1>2, HolderFrame
  <1>4. SessionInv'
    BY DEF SessionInv, DeviceOf, TypeOK
  <1>5. QueueInv'
    BY DEF QueueInv, TypeOK
  <1>6. ClaimInv'
    BY DEF ClaimInv, TypeOK
  <1>7. DeviceInv'
    BY DEF DeviceInv, DeviceOf, TypeOK
  <1> QED BY <1>1, <1>3, <1>4, <1>5, <1>6, <1>7

\* The top half claims the running task of its device, unless the timeout has.
LEMMA InvDevIrq ==
    ASSUME Inv, NEW d \in Devices, mpp_dev_irq(d)
    PROVE  Inv'
  <1> USE DEF Inv, StateBits, sessVars, refVars, listVars, wVars, cVars, hwVars, iVars, hist
  <1>0. PICK x \in Tasks : x = curtask[d]
    BY ElemsType DEF TypeOK, DeviceInv, mpp_dev_irq
  <1>1. /\ x \in Elems(running) /\ x # Null /\ DeviceOf(x) = d
        /\ "START" \in bits[x] /\ "DONE" \notin bits[x] /\ "IRQ" \notin bits[x]
    BY <1>0, ConstantsAssumption DEF DeviceInv, mpp_dev_irq
  <1>2. alloc[x] = "live"
    BY <1>1, HeldIsLive DEF OnQueue
  <1>3. /\ irqraw[d] # "none"
        /\ irqstatus' = [irqstatus EXCEPT ![d] = irqraw[d]]
        /\ irqraw' = [irqraw EXCEPT ![d] = "none"]
        /\ UNCHANGED <<sessVars, refVars, abort, listVars, trig, wVars, cVars,
                       curtask, power, readers, hw, ipc, itask, shut, hist>>
    BY DEF mpp_dev_irq
  <1>4. \A u \in Tasks : (InSession(u)' <=> InSession(u)) /\ (OnQueue(u)' <=> OnQueue(u))
    BY <1>3 DEF InSession, OnQueue, Untriggered
  <1>5. RefsCountHolders'
    BY <1>3, <1>4, HolderFrame
  <1>6. CASE "HANDLE" \in bits[x]
    <2>1. UNCHANGED <<bits, timer>> /\ iwake' = iwake
      <3>1. UNCHANGED <<bits, timer>>
        BY <1>0, <1>1, <1>6 DEF mpp_dev_irq
      <3>2. iwake' = [iwake EXCEPT ![d] = @ \/ FALSE]
        BY <1>0, <1>1, <1>6 DEF mpp_dev_irq
      <3>3. iwake[d] \in BOOLEAN /\ iwake \in [Devices -> BOOLEAN]
        BY DEF TypeOK
      <3> QED BY <3>1, <3>2, <3>3
    <2>2. TypeOK'
      BY <1>3, <2>1 DEF TypeOK
    <2>3. SessionInv'
      BY <1>3, <2>1 DEF SessionInv, DeviceOf
    <2>4. QueueInv'
      BY <1>3, <2>1 DEF QueueInv
    <2>5. ClaimInv'
      BY <1>3, <2>1 DEF ClaimInv
    <2>6. DeviceInv'
      BY <1>3, <2>1 DEF DeviceInv, DeviceOf, TypeOK
    <2> QED BY <1>5, <2>2, <2>3, <2>4, <2>5, <2>6
  <1>7. CASE "HANDLE" \notin bits[x]
    <2>1. /\ bits' = [bits EXCEPT ![x] = @ \cup {"HANDLE", "IRQ"}]
          /\ timer' = [timer EXCEPT ![x] = IF @ = "armed" THEN "off" ELSE @]
          /\ iwake' = [iwake EXCEPT ![d] = TRUE]
      <3>1. /\ bits' = [bits EXCEPT ![x] = @ \cup {"HANDLE", "IRQ"}]
            /\ timer' = [timer EXCEPT ![x] = IF @ = "armed" THEN "off" ELSE @]
        BY <1>0, <1>1, <1>7 DEF mpp_dev_irq, set_bit
      <3>2. iwake' = [iwake EXCEPT ![d] = @ \/ TRUE]
        BY <1>0, <1>1, <1>7 DEF mpp_dev_irq
      <3> QED BY <3>1, <3>2
    <2>2. TypeOK'
      BY <1>3, <2>1 DEF TypeOK
    <2>3. SessionInv'
      BY <1>1, <1>3, <2>1 DEF SessionInv, DeviceOf, TypeOK
    <2>4. QueueInv'
      <3>1. wpc # "start"
        BY <1>3 DEF DeviceInv
      <3> QED BY <1>1, <1>3, <2>1, <3>1 DEF QueueInv, TypeOK
    <2>5. ClaimInv'
      BY <1>1, <1>2, <1>3, <1>7, <2>1 DEF ClaimInv, TypeOK
    <2>6. DeviceInv'
      BY <1>0, <1>1, <1>3, <1>7, <2>1 DEF DeviceInv, DeviceOf, TypeOK, ClaimInv
    <2> QED BY <1>5, <2>2, <2>3, <2>4, <2>5, <2>6
  <1> QED BY <1>6, <1>7

\* The interrupt thread finishes the task that the top half claimed.
LEMMA InvTaskFinish ==
    ASSUME Inv, NEW d \in Devices, mpp_task_finish(d)
    PROVE  Inv'
  <1> USE DEF Inv, StateBits, sessVars, refVars, listVars, wVars, cVars, hwVars, iVars, hist
  <1>0. PICK x \in Tasks : x = curtask[d]
    BY ElemsType DEF TypeOK, DeviceInv, mpp_task_finish
  <1>1. /\ x \in Elems(running) /\ x # Null /\ DeviceOf(x) = d
        /\ "IRQ" \in bits[x] /\ "DONE" \notin bits[x]
    BY <1>0, ConstantsAssumption DEF DeviceInv, mpp_task_finish
  <1>2. /\ alloc[x] = "live"
        /\ "START" \in bits[x] /\ "HANDLE" \in bits[x] /\ "TIMEOUT" \notin bits[x]
        /\ timer[x] \notin {"armed", "reset", "pop"}
    BY <1>1, HeldIsLive DEF OnQueue, ClaimInv
  <1>3. /\ ipc[d] = "idle" /\ iwake[d]
        /\ iwake' = [iwake EXCEPT ![d] = FALSE]
        /\ itask' = [itask EXCEPT ![d] = x]
        /\ curtask' = [curtask EXCEPT ![d] = Null]
        /\ readers' = readers - 1
        /\ power' = [power EXCEPT ![d] = @ - 1]
        /\ bits' = [bits EXCEPT ![x] = @ \cup {"FINISH", "DONE"}]
        /\ ipc' = [ipc EXCEPT ![d] = "pop"]
        /\ irqstatus' = [irqstatus EXCEPT ![d] = "none"]
        /\ UNCHANGED <<sessVars, refVars, abort, timer, listVars, trig, wVars, cVars,
                       hw, irqraw, shut, hist>>
    BY <1>0, <1>1 DEF mpp_task_finish, set_bit
  <1>4. TypeOK'
    BY <1>3 DEF TypeOK
  <1>5. \A u \in Tasks : (InSession(u)' <=> InSession(u)) /\ (OnQueue(u)' <=> OnQueue(u))
    BY <1>3 DEF InSession, OnQueue, Untriggered
  <1>6. RefsCountHolders'
    BY <1>3, <1>5, HolderFrame
  <1>7. SessionInv'
    BY <1>1, <1>2, <1>3 DEF SessionInv, DeviceOf, TypeOK
  <1>8. QueueInv'
    BY <1>1, <1>2, <1>3 DEF QueueInv, TypeOK
  <1>9. ClaimInv'
    BY <1>1, <1>2, <1>3 DEF ClaimInv, TypeOK
  <1>10. DeviceInv'
    BY <1>0, <1>1, <1>2, <1>3, SMTT(30) DEF DeviceInv, DeviceOf, TypeOK, ClaimInv
  <1> QED BY <1>4, <1>6, <1>7, <1>8, <1>9, <1>10

\* No one else will pop this task: the timeout did not claim it, it was started,
\* and it belongs to this device.
LEMMA InvIsrPop ==
    ASSUME Inv, NEW d \in Devices, IsrPopRunning(d)
    PROVE  Inv'
  <1> USE DEF Inv, IsrPopRunning, sessVars, refVars, listVars, wVars, cVars,
      hwVars, iVars, hist
  <1>0. PICK x \in Tasks : x = itask[d]
    BY ElemsType DEF TypeOK, QueueInv, DeviceInv
  <1>1. /\ x \in Elems(running) /\ DeviceOf(x) = d
        /\ "FINISH" \in bits[x] /\ "START" \in bits[x] /\ "IRQ" \in bits[x]
    BY <1>0, ElemsType DEF TypeOK, QueueInv, ClaimInv, DeviceInv
  <1>2. /\ running' \in Seq(Tasks) /\ NoDup(running')
        /\ Elems(running') = Elems(running) \ {x}
    BY <1>0, ElemsListDel DEF TypeOK, QueueInv
  <1>3. /\ ref' = [ref EXCEPT ![x] = @ - 1]
        /\ alloc' = [u \in Tasks |-> IF u = x /\ ref[u] = 1 THEN "freed" ELSE alloc[u]]
        /\ owner' = owner
        /\ alloc' \in [Tasks -> {"none", "live", "freed"}]
        /\ scount' \in [Sessions -> Int] /\ dcount' \in [Devices -> Int]
    BY <1>0, KrefPut DEF TypeOK
  <1>4. ref[x] \in 1 .. 2 /\ alloc[x] = "live" /\ ref' \in [Tasks -> 0 .. 2]
    BY <1>1, <1>3, HeldIsLive DEF OnQueue, TypeOK
  <1>5. TypeOK'
    BY <1>0, <1>2, <1>3, <1>4 DEF TypeOK
  <1>6. \A u \in Tasks : InSession(u)' <=> InSession(u)
    BY DEF InSession
  <1>7. /\ OnQueue(x) /\ ~OnQueue(x)'
        /\ \A u \in Tasks \ {x} : OnQueue(u)' <=> OnQueue(u)
    <2>1. \A s \in Sessions : cpc[s] = "trigger" => ctask[s] # x
      BY <1>1 DEF SessionInv
    <2>2. ~(x \in Elems(qpend) /\ x \in Elems(running))
      BY DEF QueueInv
    <2> QED BY <1>1, <1>2, <2>1, <2>2 DEF OnQueue, Untriggered
  <1>8. RefsCountHolders'
    BY <1>3, <1>6, <1>7, HolderPut
  <1>9. SessionInv'
    BY <1>1, <1>2, <1>3, <1>4 DEF SessionInv, DeviceOf, TypeOK
  <1>10. QueueInv'
    BY <1>0, <1>1, <1>2, <1>3, <1>4 DEF QueueInv, TypeOK, ClaimInv
  <1>11. ClaimInv'
    BY <1>0, <1>1, <1>2, <1>3, <1>4 DEF ClaimInv, TypeOK
  <1>12. DeviceInv'
    BY <1>0, <1>1, <1>2, <1>3, <1>4 DEF DeviceInv, DeviceOf, TypeOK, ClaimInv
  <1> QED BY <1>5, <1>8, <1>9, <1>10, <1>11, <1>12

\* The interrupt thread triggers the queue.
LEMMA InvIsrSched ==
    ASSUME Inv, NEW d \in Devices, mpp_dev_isr_sched(d)
    PROVE  Inv'
  <1> USE DEF Inv, mpp_dev_isr_sched, mpp_taskqueue_trigger_work, sessVars,
      refVars, listVars, wVars, cVars, hwVars, iVars, hist
  <1>1. TypeOK'
    BY DEF TypeOK
  <1>2. \A u \in Tasks : (InSession(u)' <=> InSession(u)) /\ (OnQueue(u)' <=> OnQueue(u))
    BY DEF InSession, OnQueue, Untriggered, TypeOK
  <1>3. RefsCountHolders'
    BY <1>2, HolderFrame
  <1>4. SessionInv'
    BY DEF SessionInv, DeviceOf, TypeOK
  <1>5. QueueInv'
    BY DEF QueueInv, TypeOK
  <1>6. ClaimInv'
    BY DEF ClaimInv, TypeOK
  <1>7. DeviceInv'
    BY DEF DeviceInv, DeviceOf, TypeOK
  <1> QED BY <1>1, <1>3, <1>4, <1>5, <1>6, <1>7

\* The timeout work is entered.
LEMMA InvTimerExpire ==
    ASSUME Inv, NEW t \in Tasks, TimerExpire(t)
    PROVE  Inv'
  <1> USE DEF Inv, TimerExpire, sessVars, refVars, listVars, wVars, cVars,
      hwVars, iVars, hist
  <1>1. TypeOK'
    BY DEF TypeOK
  <1>2. \A u \in Tasks : (InSession(u)' <=> InSession(u)) /\ (OnQueue(u)' <=> OnQueue(u))
    BY DEF InSession, OnQueue, Untriggered, TypeOK
  <1>3. RefsCountHolders'
    BY <1>2, HolderFrame
  <1>4. SessionInv'
    BY DEF SessionInv, DeviceOf, TypeOK
  <1>5. QueueInv'
    BY DEF QueueInv, TypeOK
  <1>6. ClaimInv'
    BY DEF ClaimInv, TypeOK
  <1>7. DeviceInv'
    BY DEF DeviceInv, DeviceOf, TypeOK
  <1> QED BY <1>1, <1>3, <1>4, <1>5, <1>6, <1>7

\* The timeout work claims the task; if the interrupt has done so before, the task
\* may even be freed, and nothing changes.
LEMMA InvTimeoutHandle ==
    ASSUME Inv, NEW t \in Tasks, TimeoutHandle(t)
    PROVE  Inv'
  <1> USE DEF Inv, TimeoutHandle, set_bit, StateBits, sessVars, refVars,
      listVars, wVars, cVars, hwVars, iVars, hist
  <1>1. "START" \in bits[t] /\ ("HANDLE" \notin bits[t] => t \in Elems(running) /\ "DONE" \notin bits[t] /\ "IRQ" \notin bits[t])
    BY DEF ClaimInv
  <1>2. alloc[t] # "none"
    BY DEF ClaimInv, TypeOK
  <1>3. TypeOK'
    BY <1>1, <1>2 DEF TypeOK
  <1>4. \A u \in Tasks : (InSession(u)' <=> InSession(u)) /\ (OnQueue(u)' <=> OnQueue(u))
    BY <1>1, <1>2 DEF InSession, OnQueue, Untriggered, TypeOK
  <1>5. RefsCountHolders'
    BY <1>4, HolderFrame
  <1>6. SessionInv'
    BY <1>1, <1>2 DEF SessionInv, DeviceOf, TypeOK
  <1>7. QueueInv'
    BY <1>1, <1>2 DEF QueueInv, TypeOK
  <1>8. ClaimInv'
    BY <1>1, <1>2 DEF ClaimInv, TypeOK
  <1>9. DeviceInv'
    BY <1>1, <1>2 DEF DeviceInv, DeviceOf, TypeOK
  <1> QED BY <1>3, <1>5, <1>6, <1>7, <1>8, <1>9

\* The timeout work resets the hardware of its task, so no interrupt of it is left.
LEMMA InvTimeoutWork ==
    ASSUME Inv, NEW t \in Tasks, mpp_task_timeout_work(t), ~Starting(t)
    PROVE  Inv'
  <1> USE DEF Inv, mpp_task_timeout_work, set_bit, StateBits, sessVars,
      refVars, listVars, wVars, cVars, hwVars, iVars, hist
  <1>1. "HANDLE" \in bits[t] /\ "START" \in bits[t] /\ "IRQ" \notin bits[t] /\ t \in Elems(running)
    BY DEF ClaimInv
  <1>2. alloc[t] = "live" /\ DeviceOf(t) \in Devices /\ wpc # "start"
    BY <1>1, HeldIsLive DEF OnQueue, SessionInv, QueueInv, Starting
  <1>3. TypeOK'
    BY <1>1, <1>2 DEF TypeOK
  <1>4. \A u \in Tasks : (InSession(u)' <=> InSession(u)) /\ (OnQueue(u)' <=> OnQueue(u))
    BY <1>1, <1>2 DEF InSession, OnQueue, Untriggered, TypeOK
  <1>5. RefsCountHolders'
    BY <1>4, HolderFrame
  <1>6. SessionInv'
    BY <1>1, <1>2 DEF SessionInv, DeviceOf, TypeOK
  <1>7. QueueInv'
    BY <1>1, <1>2 DEF QueueInv, TypeOK
  <1>8. ClaimInv'
    BY <1>1, <1>2 DEF ClaimInv, TypeOK
  <1>9. DeviceInv'
    BY <1>1, <1>2 DEF DeviceInv, DeviceOf, TypeOK, ClaimInv
  <1> QED BY <1>3, <1>5, <1>6, <1>7, <1>8, <1>9

\* The task that the timeout work has claimed leaves the running list.
LEMMA InvTimeoutPop ==
    ASSUME Inv, NEW t \in Tasks, TimeoutPopRunning(t)
    PROVE  Inv'
  <1> USE DEF Inv, TimeoutPopRunning, sessVars, refVars, listVars, wVars, cVars,
      hwVars, iVars, hist
  <1>0. PICK x \in Tasks : x = t
    BY ElemsType DEF TypeOK, QueueInv, DeviceInv
  <1>1. /\ x \in Elems(running)
        /\ "TIMEOUT" \in bits[x] /\ "DONE" \in bits[x] /\ "START" \in bits[x]
        /\ "HANDLE" \in bits[x] /\ "IRQ" \notin bits[x]
    BY <1>0, ElemsType DEF TypeOK, QueueInv, ClaimInv, DeviceInv
  <1>2. /\ running' \in Seq(Tasks) /\ NoDup(running')
        /\ Elems(running') = Elems(running) \ {x}
    BY <1>0, ElemsListDel DEF TypeOK, QueueInv
  <1>3. /\ ref' = [ref EXCEPT ![x] = @ - 1]
        /\ alloc' = [u \in Tasks |-> IF u = x /\ ref[u] = 1 THEN "freed" ELSE alloc[u]]
        /\ owner' = owner
        /\ alloc' \in [Tasks -> {"none", "live", "freed"}]
        /\ scount' \in [Sessions -> Int] /\ dcount' \in [Devices -> Int]
    BY <1>0, KrefPut DEF TypeOK
  <1>4. ref[x] \in 1 .. 2 /\ alloc[x] = "live" /\ ref' \in [Tasks -> 0 .. 2]
    BY <1>1, <1>3, HeldIsLive DEF OnQueue, TypeOK
  <1>5. TypeOK'
    BY <1>0, <1>2, <1>3, <1>4 DEF TypeOK
  <1>6. \A u \in Tasks : InSession(u)' <=> InSession(u)
    BY DEF InSession
  <1>7. /\ OnQueue(x) /\ ~OnQueue(x)'
        /\ \A u \in Tasks \ {x} : OnQueue(u)' <=> OnQueue(u)
    <2>1. \A s \in Sessions : cpc[s] = "trigger" => ctask[s] # x
      BY <1>1 DEF SessionInv
    <2>2. ~(x \in Elems(qpend) /\ x \in Elems(running))
      BY DEF QueueInv
    <2> QED BY <1>1, <1>2, <2>1, <2>2 DEF OnQueue, Untriggered
  <1>8. RefsCountHolders'
    BY <1>3, <1>6, <1>7, HolderPut
  <1>9. SessionInv'
    BY <1>1, <1>2, <1>3, <1>4 DEF SessionInv, DeviceOf, TypeOK
  <1>10. QueueInv'
    BY <1>0, <1>1, <1>2, <1>3, <1>4 DEF QueueInv, TypeOK, ClaimInv
  <1>11. ClaimInv'
    BY <1>0, <1>1, <1>2, <1>3, <1>4 DEF ClaimInv, TypeOK
  <1>12. DeviceInv'
    BY <1>0, <1>1, <1>2, <1>3, <1>4 DEF DeviceInv, DeviceOf, TypeOK, ClaimInv
  <1> QED BY <1>5, <1>8, <1>9, <1>10, <1>11, <1>12

-----------------------------------------------------------------------------
(***************************************************************************)
(* Shutdown preserves the invariant.                                       *)
(***************************************************************************)

\* Shutdown is requested.
LEMMA InvShutdown ==
    ASSUME Inv, NEW d \in Devices, mpp_dev_shutdown(d)
    PROVE  Inv'
  <1> USE DEF Inv, mpp_dev_shutdown, sessVars, refVars, listVars, wVars,
      cVars, hwVars, iVars, hist
  <1>1. TypeOK'
    BY DEF TypeOK
  <1>2. \A u \in Tasks : (InSession(u)' <=> InSession(u)) /\ (OnQueue(u)' <=> OnQueue(u))
    BY DEF InSession, OnQueue, Untriggered, TypeOK
  <1>3. RefsCountHolders'
    BY <1>2, HolderFrame
  <1>4. SessionInv'
    BY DEF SessionInv, DeviceOf, TypeOK
  <1>5. QueueInv'
    BY DEF QueueInv, TypeOK
  <1>6. ClaimInv'
    BY DEF ClaimInv, TypeOK
  <1>7. DeviceInv'
    BY DEF DeviceInv, DeviceOf, TypeOK
  <1> QED BY <1>1, <1>3, <1>4, <1>5, <1>6, <1>7

-----------------------------------------------------------------------------
(***************************************************************************)
(* The invariant and its consequences.                                     *)
(***************************************************************************)

\* No task, no session and no interrupt exists at first.
LEMMA InitInv == Init => Inv
  <1> SUFFICES ASSUME Init PROVE Inv
    OBVIOUS
  <1> USE DEF Init
  <1>1. Elems(<<>>) = {} /\ NoDup(<<>>)
    BY DEF Elems, NoDup
  <1>2. TypeOK
    <2>1. <<>> \in Seq(Tasks) /\ <<>> \in Seq(Sessions)
      OBVIOUS
    <2>2. spend \in [Sessions -> Seq(Tasks)]
      BY <2>1
    <2>3. /\ sess \in [Sessions -> {"none", "open", "attached", "detached", "orphan", "freed"}]
          /\ sdev \in [Sessions -> Devices \cup {Null}]
          /\ dma \in [Sessions -> {"null", "live", "destroyed"}]
          /\ scount \in [Sessions -> Int]
          /\ cpc \in [Sessions -> {"idle", "trigger", "get", "wait", "abort", "pop"}]
          /\ ctask \in [Sessions -> Tasks \cup {Null}]
          /\ cpoll \in [Sessions -> BOOLEAN]
      OBVIOUS
    <2>4. /\ owner \in [Tasks -> Sessions \cup {Null}]
          /\ alloc \in [Tasks -> {"none", "live", "freed"}]
          /\ ref \in [Tasks -> 0 .. 2]
          /\ bits \in [Tasks -> SUBSET StateBits]
          /\ abort \in [Tasks -> BOOLEAN]
          /\ timer \in [Tasks -> {"off", "armed", "fired", "reset", "pop"}]
      OBVIOUS
    <2>5. /\ curtask \in [Devices -> Tasks \cup {Null}]
          /\ dcount \in [Devices -> Int]
          /\ power \in [Devices -> Int]
          /\ hw \in [Devices -> {"idle", "busy"}]
          /\ irqraw \in [Devices -> {"none", "ready", "error"}]
          /\ irqstatus \in [Devices -> {"none", "ready", "error"}]
          /\ iwake \in [Devices -> BOOLEAN]
          /\ ipc \in [Devices -> {"idle", "pop", "trigger"}]
          /\ itask \in [Devices -> Tasks \cup {Null}]
      OBVIOUS
    <2>6. /\ trig \subseteq Devices /\ readers \in Int /\ shut \in 0 .. 1
          /\ wpc \in {"idle", "again", "check", "move", "run", "start", "done"}
          /\ wtask \in Tasks \cup {Null}
      OBVIOUS
    <2>8. overtaken \in BOOLEAN /\ stray \in BOOLEAN
      BY Zenon
    <2>7. qpend \in Seq(Tasks) /\ running \in Seq(Tasks) /\ detach \in Seq(Sessions)
      BY <2>1
    <2> HIDE DEF Init
    <2> QED BY <2>2, <2>3, <2>4, <2>5, <2>6, <2>7, <2>8 DEF TypeOK
  <1>3. RefsCountHolders
    BY <1>1 DEF RefsCountHolders, InSession, OnQueue, Untriggered
  <1>4. SessionInv
    BY <1>1 DEF SessionInv
  <1>5. QueueInv
    BY <1>1 DEF QueueInv
  <1>6. ClaimInv
    BY DEF ClaimInv
  <1>7. DeviceInv
    BY DEF DeviceInv
  <1> QED BY <1>2, <1>3, <1>4, <1>5, <1>6, <1>7 DEF Inv

\* Once a timeout work has overtaken the worker, it has.
LEMMA OvertakenStays == overtaken /\ [Next]_vars => overtaken'
  <1> SUFFICES ASSUME overtaken, [Next]_vars PROVE overtaken'
    OBVIOUS
  <1> USE DEF hist
  <1>1. ASSUME NEW s \in Sessions, Client(s) PROVE overtaken'
    BY <1>1 DEF Client, mpp_dev_open, InitClientType, mpp_process_task_default,
       mpp_msgs_trigger, PollIoctl, mpp_session_get_pending_task, WaitDone, WaitTimeout,
       WaitAbort, mpp_session_pop_pending, ResetSession, mpp_dev_release
  <1>2. CASE Worker
    BY <1>2 DEF Worker, WorkerStart, mpp_taskqueue_get_pending_task,
       mpp_taskqueue_pop_pending, mpp_taskqueue_is_running, mpp_taskqueue_pending_to_run,
       mpp_task_run, vdpu_run, mpp_task_run_failed, mpp_session_deinit, WorkerEnd
  <1>3. ASSUME NEW d \in Devices, Interrupt(d) \/ mpp_dev_shutdown(d) PROVE overtaken'
    BY <1>3 DEF Interrupt, HwFinish, mpp_dev_irq, mpp_task_finish, IsrPopRunning,
       mpp_dev_isr_sched, mpp_dev_shutdown
  <1>4. ASSUME NEW t \in Tasks, Timeout(t) \/ UseFreed(t) PROVE overtaken'
    BY <1>4 DEF Timeout, TimerExpire, TimeoutHandle, mpp_task_timeout_work,
       TimeoutPopRunning, UseFreed
  <1>5. CASE UNCHANGED vars
    BY <1>5 DEF vars
  <1> QED BY <1>1, <1>2, <1>3, <1>4, <1>5 DEF Next

\* Every step of every thread preserves the invariant, except the timeout work
\* that ends a task which the worker is about to start.
LEMMA NextInv == Inv /\ [Next]_vars /\ ~overtaken' => Inv'
  <1> SUFFICES ASSUME Inv, [Next]_vars, ~overtaken' PROVE Inv'
    OBVIOUS
  <1>1. ASSUME NEW s \in Sessions, Client(s) PROVE Inv'
    BY <1>1, InvOpen, InvInitClientType, InvProcessTask, InvMsgsTrigger, InvPollIoctl,
       InvGetPendingTask, InvWaitDone, InvWaitTimeout, InvWaitAbort, InvPopPending,
       InvResetSession, InvRelease DEF Client
  <1>2. CASE Worker
    BY <1>2, InvWorkerStart, InvWorkerPeek, InvPopAborted, InvIsRunning,
       InvPendingToRun, InvTaskRun, InvVdpuRun, InvTaskRunFailed, InvSessionDeinit, InvWorkerEnd
       DEF Worker
  <1>3. ASSUME NEW d \in Devices, Interrupt(d) PROVE Inv'
    BY <1>3, InvHwFinish, InvDevIrq, InvTaskFinish, InvIsrPop, InvIsrSched DEF Interrupt
  <1>4. ASSUME NEW t \in Tasks, Timeout(t) PROVE Inv'
    <2>1. CASE mpp_task_timeout_work(t)
      <3>1. ~Starting(t)
        BY <2>1 DEF mpp_task_timeout_work
      <3> QED BY <2>1, <3>1, InvTimeoutWork
    <2> QED BY <1>4, <2>1, InvTimerExpire, InvTimeoutHandle, InvTimeoutPop DEF Timeout
  <1>5. ASSUME NEW d \in Devices, mpp_dev_shutdown(d) PROVE Inv'
    BY <1>5, InvShutdown
  <1>6. CASE UNCHANGED vars \/ \E t \in Tasks : UseFreed(t)
    <2> USE <1>6 DEF vars, UseFreed, sessVars, refVars, listVars, wVars, cVars, hwVars, iVars, hist
    <2>1. TypeOK' /\ QueueInv' /\ ClaimInv'
      <3>1. overtaken' \in BOOLEAN /\ stray' \in BOOLEAN
        BY DEF Inv, TypeOK
      <3>2. QueueInv' /\ ClaimInv'
        BY DEF Inv, QueueInv, ClaimInv
      <3>3. TypeOK'
        BY <3>1 DEF Inv, TypeOK
      <3> QED BY <3>2, <3>3
    <2>2. RefsCountHolders'
      BY DEF Inv, RefsCountHolders, InSession, OnQueue, Untriggered
    <2>3. SessionInv' /\ DeviceInv'
      BY DEF Inv, SessionInv, DeviceInv, DeviceOf
    <2> QED BY <2>1, <2>2, <2>3 DEF Inv
  <1> QED BY <1>1, <1>2, <1>3, <1>4, <1>5, <1>6 DEF Next

\* The invariant holds in every reachable state, for any number of sessions,
\* tasks and devices, as long as no timeout work has overtaken the worker.
THEOREM Invariance == Spec => [](overtaken \/ Inv)
  <1>1. Init => overtaken \/ Inv
    BY InitInv
  <1>2. (overtaken \/ Inv) /\ [Next]_vars => (overtaken \/ Inv)'
    BY OvertakenStays, NextInv
  <1> QED BY <1>1, <1>2, PTL DEF Spec

\* Every variable keeps its type, no reference count leaves 0 .. 2: as long as no
\* timeout work has ended a task that the worker went on to start.
THEOREM TypeCorrect == Spec => [](overtaken \/ TypeOK)
  <1>1. Inv => TypeOK
    BY DEF Inv
  <1> QED BY <1>1, Invariance, PTL

\* task->ref is the number of holders of the task, and the task is allocated
\* exactly while there is one (mpp_free_task runs once, at the last kref_put):
\* as long as no timeout work has ended a task that the worker went on to start.
THEOREM RefCounting == Spec => [](overtaken \/ RefsCountHolders)
  <1>1. Inv => RefsCountHolders
    BY DEF Inv
  <1> QED BY <1>1, Invariance, PTL

\* No thread, interrupt or timer reaches a task that has been freed, except the
\* timeout work entered just before the interrupt claimed its task, until a
\* timeout work ends a task that the worker goes on to start.
THEOREM MemorySafety == Spec => []NoUseAfterFree
  <1>1. ASSUME Inv PROVE NoUseAfterFree
    <2> USE DEF Inv
    <2>1. \A t \in Tasks : InSession(t) \/ OnQueue(t) => alloc[t] = "live"
      BY <1>1, HeldIsLive
    <2>2. ASSUME NEW t \in Elems(qpend) \cup Elems(running) PROVE alloc[t] = "live"
      <3>1. t \in Tasks
        BY <1>1, ElemsType DEF TypeOK
      <3> QED BY <2>1, <3>1 DEF OnQueue
    <2>3. ASSUME NEW s \in Sessions, NEW t \in Elems(spend[s]) PROVE alloc[t] = "live"
      <3>1. t \in Tasks
        BY <1>1, ElemsType DEF TypeOK
      <3> QED BY <2>1, <3>1 DEF InSession
    <2>4. wtask # Null => alloc[wtask] = "live"
      <3>1. wtask # Null => wtask \in Elems(qpend) \cup Elems(running)
        BY <1>1 DEF TypeOK, QueueInv
      <3> QED BY <2>2, <3>1
    <2>5. ASSUME NEW s \in Sessions, ctask[s] # Null PROVE alloc[ctask[s]] = "live"
      <3>1. cpc[s] = "trigger" \/ ctask[s] \in Elems(spend[s])
        BY <1>1, <2>5 DEF TypeOK, SessionInv
      <3>2. CASE cpc[s] = "trigger"
        BY <1>1, <2>1, <3>2 DEF SessionInv, OnQueue, Untriggered
      <3> QED BY <2>3, <3>1, <3>2
    <2>6. ASSUME NEW d \in Devices, itask[d] # Null PROVE alloc[itask[d]] = "live"
      BY <1>1, <2>2, <2>6 DEF DeviceInv
    <2>7. ASSUME NEW d \in Devices, irqraw[d] # "none" \/ iwake[d]
          PROVE  alloc[curtask[d]] = "live"
      BY <1>1, <2>2, <2>7 DEF DeviceInv
    <2>8. ASSUME NEW t \in Tasks, timer[t] \in {"armed", "fired", "reset", "pop"},
                 "IRQ" \notin bits[t]
          PROVE  alloc[t] = "live"
      BY <1>1, <2>2, <2>8 DEF ClaimInv
    <2>9. ASSUME NEW t \in UNION {Elems(spend[s]) : s \in Sessions} PROVE alloc[t] = "live"
      BY <2>3
    <2>10. ASSUME NEW t \in {ctask[s] : s \in Sessions}, t # Null PROVE alloc[t] = "live"
      BY <2>5, <2>10
    <2>11. ASSUME NEW t \in {itask[d] : d \in Devices}, t # Null PROVE alloc[t] = "live"
      BY <2>6, <2>11
    <2>12. ASSUME NEW t \in {curtask[d] : d \in {e \in Devices : irqraw[e] # "none" \/ iwake[e]}}
           PROVE  alloc[t] = "live"
      BY <2>7
    <2>13. ASSUME NEW t \in {u \in Tasks : timer[u] \in {"armed", "fired", "reset", "pop"}
                                            /\ "IRQ" \notin bits[u]}
           PROVE  alloc[t] = "live"
      BY <2>8
    <2> QED BY <2>2, <2>4, <2>9, <2>10, <2>11, <2>12, <2>13 DEF NoUseAfterFree
  <1>2. overtaken => NoUseAfterFree
    BY DEF NoUseAfterFree
  <1> QED BY <1>1, <1>2, Invariance, PTL

\* A task is finished by the interrupt thread or by the timeout work, never by
\* both, however the interrupt and the timer race for a task that runs: until a
\* timeout work ends a task that the worker goes on to start.
THEOREM FinishedOnce == Spec => []HandledOnce
  <1>1. overtaken \/ Inv => HandledOnce
    BY DEF Inv, ClaimInv, HandledOnce
  <1> QED BY <1>1, Invariance, PTL

\* An interrupt concerns the running task of its device, until a timeout work
\* ends a task that the worker goes on to start.
THEOREM InterruptTarget == Spec => []InterruptIsForRunningTask
  <1>1. overtaken \/ Inv => InterruptIsForRunningTask
    BY DEF Inv, DeviceInv, InterruptIsForRunningTask
  <1> QED BY <1>1, Invariance, PTL

-----------------------------------------------------------------------------
(***************************************************************************)
(* The hardware.                                                           *)
(***************************************************************************)

\* The running list has at most one entry, and a started task is on it.
RunInv ==
    /\ \A t, u \in Elems(running) : t = u
    /\ \A t \in Tasks : Started(t) => t \in Elems(running)

\* The power and the reset lock are held for started tasks.
PowerInv ==
    /\ \A d \in Devices :
         power[d] = IF \E t \in Tasks : Started(t) /\ DeviceOf(t) = d THEN 1 ELSE 0
    /\ readers = IF \E t \in Tasks : Started(t) THEN 1 ELSE 0

HwInv == RunInv /\ PowerInv

\* Only live tasks are started.
LEMMA StartedIsLive ==
    ASSUME Inv, RunInv, NEW t \in Tasks, Started(t)
    PROVE  alloc[t] = "live" /\ owner[t] \in Sessions /\ DeviceOf(t) \in Devices
  <1>1. alloc[t] = "live"
    BY HeldIsLive DEF Inv, RunInv, OnQueue
  <1> QED BY <1>1 DEF Inv, SessionInv

\* Marking a task with bits other than START and DONE starts and ends nothing.
LEMMA MarkQuiet ==
    ASSUME TypeOK, NEW x, NEW b \in SUBSET (StateBits \ {"START", "DONE"}), set_bit(x, b)
    PROVE  \A t \in Tasks : Started(t)' <=> Started(t)
  BY DEF set_bit, Started, TypeOK

\* A step that starts and ends no task, and moves no started task to another
\* device, leaves power and lock as they have to be.
LEMMA PowerQuiet ==
    ASSUME PowerInv, UNCHANGED <<power, readers>>,
           \A t \in Tasks : Started(t)' <=> Started(t),
           \A t \in Tasks : Started(t) => DeviceOf(t)' = DeviceOf(t)
    PROVE  PowerInv'
  BY DEF PowerInv

\* In particular one that leaves bits, list and devices alone.
LEMMA HwFrame ==
    ASSUME HwInv, UNCHANGED <<bits, owner, sdev, running, power, readers>>
    PROVE  HwInv'
  BY DEF HwInv, RunInv, PowerInv, Started, DeviceOf

\* A task that is not started leaves the running list.
LEMMA HwPop ==
    ASSUME Inv, HwInv, NEW x \in Tasks, ~Started(x), running' = ListDel(running, x),
           UNCHANGED <<bits, owner, sdev, power, readers>>
    PROVE  HwInv'
  <1>1. Elems(running') = Elems(running) \ {x}
    BY ElemsListDel DEF Inv, TypeOK, QueueInv
  <1>2. \A t \in Tasks : (Started(t)' <=> Started(t)) /\ DeviceOf(t)' = DeviceOf(t)
    BY DEF Started, DeviceOf
  <1>3. RunInv'
    BY <1>1, <1>2 DEF HwInv, RunInv
  <1> QED BY <1>2, <1>3, PowerQuiet DEF HwInv

\* The steps of a client leave the hardware alone.
LEMMA HwClient ==
    ASSUME Inv, HwInv, NEW s \in Sessions, Client(s)
    PROVE  HwInv'
  <1> USE DEF sessVars, refVars, listVars, wVars, cVars, hwVars, iVars, hist
  <1>1. CASE \/ mpp_dev_open(s) \/ PollIoctl(s) \/ mpp_session_get_pending_task(s)
             \/ WaitDone(s) \/ WaitTimeout(s) \/ mpp_dev_release(s)
             \/ mpp_session_pop_pending(s) \/ ResetSession(s)
    BY <1>1, HwFrame DEF mpp_dev_open, PollIoctl, mpp_session_get_pending_task, WaitDone,
       WaitTimeout, mpp_dev_release, mpp_session_pop_pending, ResetSession,
       mpp_session_clear, kref_put
  <1>2. ASSUME NEW d \in Devices, InitClientType(s, d) PROVE HwInv'
    <2>1. \A t \in Tasks : Started(t)' <=> Started(t)
      BY <1>2 DEF InitClientType, Started
    <2>2. \A t \in Tasks : Started(t) => sess[owner[t]] # "open"
      BY StartedIsLive DEF HwInv, Inv, SessionInv
    <2>3. \A t \in Tasks : Started(t) => DeviceOf(t)' = DeviceOf(t)
      BY <1>2, <2>2, StartedIsLive DEF InitClientType, DeviceOf, HwInv, Inv, TypeOK
    <2>4. PowerInv'
      BY <1>2, <2>1, <2>3, PowerQuiet DEF InitClientType, HwInv
    <2> QED BY <1>2, <2>1, <2>4 DEF InitClientType, HwInv, RunInv
  <1>3. ASSUME NEW t \in Tasks, NEW poll \in BOOLEAN, mpp_process_task_default(s, t, poll)
        PROVE  HwInv'
    <2>1. ~Started(t)
      BY <1>3 DEF mpp_process_task_default, Inv, ClaimInv, Started
    <2>2. \A u \in Tasks : Started(u)' <=> Started(u)
      BY <1>3 DEF mpp_process_task_default, Started
    <2>3. \A u \in Tasks : Started(u) => DeviceOf(u)' = DeviceOf(u)
      BY <1>3, <2>1 DEF mpp_process_task_default, DeviceOf, Inv, TypeOK
    <2>4. PowerInv'
      BY <1>3, <2>2, <2>3, PowerQuiet DEF mpp_process_task_default, HwInv
    <2> QED BY <1>3, <2>2, <2>4 DEF mpp_process_task_default, HwInv, RunInv
  <1>4. CASE mpp_msgs_trigger(s) \/ WaitAbort(s)
    <2>1. \A t \in Tasks : Started(t)' <=> Started(t)
      BY <1>4, MarkQuiet DEF mpp_msgs_trigger, WaitAbort, Inv, StateBits
    <2>2. UNCHANGED <<owner, sdev, running, power, readers>>
      BY <1>4 DEF mpp_msgs_trigger, WaitAbort
    <2>3. PowerInv'
      BY <2>1, <2>2, PowerQuiet DEF DeviceOf, HwInv
    <2> QED BY <2>1, <2>2, <2>3 DEF HwInv, RunInv
  <1> QED BY <1>1, <1>2, <1>3, <1>4 DEF Client

\* The worker starts a task only when no other is started: the running list has
\* had no entry but this one since it looked.
LEMMA HwWorker ==
    ASSUME Inv, HwInv, Worker
    PROVE  HwInv'
  <1> USE DEF sessVars, refVars, listVars, wVars, cVars, hwVars, iVars, hist
  <1>1. CASE \/ mpp_taskqueue_get_pending_task \/ mpp_taskqueue_is_running \/ WorkerEnd
             \/ mpp_taskqueue_pop_pending \/ vdpu_run \/ \E d \in Devices : WorkerStart(d)
    BY <1>1, HwFrame DEF vdpu_run, mpp_taskqueue_get_pending_task, mpp_taskqueue_is_running, WorkerEnd,
       WorkerStart, mpp_taskqueue_pop_pending, kref_put
  <1>2. CASE mpp_session_deinit
    <2>1. UNCHANGED <<bits, owner, sdev, running, power, readers>>
      BY <1>2 DEF mpp_session_deinit, mpp_session_clear, kref_put
    <2> QED BY <2>1, HwFrame
  <1>3. CASE mpp_taskqueue_pending_to_run
    <2>1. wtask \in Tasks /\ Elems(running) = {}
      BY <1>3, ElemsType DEF mpp_taskqueue_pending_to_run, Inv, QueueInv, TypeOK
    <2>2. Elems(running') = {wtask}
      BY <1>3, <2>1, ElemsAppend DEF mpp_taskqueue_pending_to_run, Inv, TypeOK
    <2>3. \A t \in Tasks : Started(t)' <=> Started(t)
      BY <1>3, MarkQuiet DEF mpp_taskqueue_pending_to_run, Inv, StateBits
    <2>4. RunInv'
      BY <2>1, <2>2, <2>3 DEF HwInv, RunInv
    <2>5. PowerInv'
      BY <1>3, <2>3, PowerQuiet DEF mpp_taskqueue_pending_to_run, DeviceOf, HwInv
    <2> QED BY <2>4, <2>5 DEF HwInv
  <1>4. CASE mpp_task_run
    <2>1. /\ Elems(running) = {wtask} /\ wtask \in Tasks /\ "START" \notin bits[wtask]
          /\ "DONE" \notin bits[wtask]
      BY <1>4, ElemsType DEF mpp_task_run, Inv, QueueInv, TypeOK, ClaimInv
    <2>2. \A t \in Tasks : ~Started(t)
      BY <2>1 DEF HwInv, RunInv, Started
    <2>3. /\ bits' = [bits EXCEPT ![wtask] = @ \cup {"START"}] /\ running' = running
          /\ UNCHANGED <<owner, sdev>> /\ readers' = readers + 1
          /\ power' = [power EXCEPT ![DeviceOf(wtask)] = @ + 1]
      BY <1>4 DEF mpp_task_run, set_bit
    <2>4. \A t \in Tasks : Started(t)' <=> t = wtask
      BY <2>1, <2>2, <2>3 DEF Started, Inv, TypeOK
    <2>5. DeviceOf(wtask) \in Devices
      <3>1. alloc[wtask] = "live"
        BY <2>1, HeldIsLive DEF Inv, OnQueue
      <3> QED BY <2>1, <3>1 DEF Inv, SessionInv
    <2>6. readers = 0 /\ \A d \in Devices : power[d] = 0
      BY <2>2 DEF HwInv, PowerInv
    <2>7. RunInv'
      BY <2>1, <2>3, <2>4 DEF RunInv
    <2>8. \A d \in Devices : power'[d] = IF d = DeviceOf(wtask) THEN 1 ELSE 0
      BY <2>3, <2>5, <2>6 DEF Inv, TypeOK
    <2>9. \A t \in Tasks : DeviceOf(t)' = DeviceOf(t)
      BY <2>3 DEF DeviceOf
    <2>10. PowerInv'
      BY <2>1, <2>3, <2>4, <2>6, <2>8, <2>9 DEF PowerInv
    <2> QED BY <2>7, <2>10 DEF HwInv
  <1>5. CASE mpp_task_run_failed
    <2>1. PICK x \in Tasks : x = wtask /\ ~Started(x)
      BY <1>5, ElemsType DEF mpp_task_run_failed, Inv, QueueInv, TypeOK, Started
    <2> QED BY <1>5, <2>1, HwPop DEF mpp_task_run_failed, kref_put
  <1> QED BY <1>1, <1>2, <1>3, <1>4, <1>5 DEF Worker

\* Ending the started task x of device e: e is powered off and the lock is
\* released.
LEMMA HwEnd ==
    ASSUME Inv, HwInv, NEW x \in Tasks, Started(x), NEW e \in Devices, e = DeviceOf(x),
           NEW b, "DONE" \in b,
           bits' = [bits EXCEPT ![x] = @ \cup b],
           power' = [power EXCEPT ![e] = @ - 1], readers' = readers - 1,
           UNCHANGED <<owner, sdev, running>>
    PROVE  HwInv'
  <1>1. \A t \in Tasks : Started(t) <=> t = x
    BY DEF HwInv, RunInv
  <1>2. \A t \in Tasks : ~Started(t)'
    BY <1>1 DEF Started, Inv, TypeOK
  <1>3. readers = 1 /\ \A d \in Devices : power[d] = IF d = e THEN 1 ELSE 0
    BY <1>1 DEF HwInv, PowerInv
  <1>4. \A d \in Devices : power'[d] = 0
    BY <1>3 DEF Inv, TypeOK
  <1>5. PowerInv'
    BY <1>2, <1>3, <1>4 DEF PowerInv
  <1>6. RunInv'
    BY <1>2 DEF HwInv, RunInv
  <1> QED BY <1>5, <1>6 DEF HwInv

\* The interrupt ends the started task of its device, or marks it.
LEMMA HwInterrupt ==
    ASSUME Inv, HwInv, NEW d \in Devices, Interrupt(d)
    PROVE  HwInv'
  <1> USE DEF sessVars, refVars, listVars, wVars, cVars, hwVars, iVars, hist
  <1>1. CASE (\E st \in {"ready", "error"} : HwFinish(d, st)) \/ mpp_dev_isr_sched(d)
    BY <1>1, HwFrame DEF HwFinish, mpp_dev_isr_sched
  <1>2. CASE mpp_dev_irq(d)
    <2>1. \/ set_bit(curtask[d], {"HANDLE", "IRQ"})
          \/ bits' = bits
      BY <1>2 DEF mpp_dev_irq
    <2>2. \A t \in Tasks : Started(t)' <=> Started(t)
      <3>1. CASE bits' = bits
        BY <3>1 DEF Started
      <3>2. CASE set_bit(curtask[d], {"HANDLE", "IRQ"})
        BY <3>2, MarkQuiet DEF Inv, StateBits
      <3> QED BY <2>1, <3>1, <3>2
    <2>3. UNCHANGED <<owner, sdev, running, power, readers>>
      BY <1>2 DEF mpp_dev_irq
    <2>4. PowerInv'
      BY <2>2, <2>3, PowerQuiet DEF DeviceOf, HwInv
    <2> QED BY <2>2, <2>3, <2>4 DEF HwInv, RunInv
  <1>3. CASE mpp_task_finish(d)
    <2>1. PICK x \in Tasks : x = curtask[d]
      BY <1>3, ElemsType DEF mpp_task_finish, Inv, DeviceInv, TypeOK
    <2>2. Started(x) /\ DeviceOf(x) = d /\ x # Null
      BY <1>3, <2>1, ConstantsAssumption DEF mpp_task_finish, Inv, DeviceInv, ClaimInv, Started
    <2>3. /\ bits' = [bits EXCEPT ![x] = @ \cup {"FINISH", "DONE"}]
          /\ power' = [power EXCEPT ![d] = @ - 1] /\ readers' = readers - 1
          /\ UNCHANGED <<owner, sdev, running>>
      BY <1>3, <2>1, <2>2 DEF mpp_task_finish, set_bit
    <2> QED BY <2>2, <2>3, HwEnd
  <1>4. CASE IsrPopRunning(d)
    <2>1. PICK x \in Tasks : x = itask[d] /\ ~Started(x)
      BY <1>4, ElemsType DEF IsrPopRunning, Inv, DeviceInv, ClaimInv, TypeOK, Started
    <2> QED BY <1>4, <2>1, HwPop DEF IsrPopRunning, kref_put
  <1> QED BY <1>1, <1>2, <1>3, <1>4 DEF Interrupt

\* So does the timeout work.
LEMMA HwTimeout ==
    ASSUME Inv, HwInv, NEW t \in Tasks, Timeout(t)
    PROVE  HwInv'
  <1> USE DEF sessVars, refVars, listVars, wVars, cVars, hwVars, iVars, hist
  <1>1. CASE TimerExpire(t)
    BY <1>1, HwFrame DEF TimerExpire
  <1>2. CASE TimeoutHandle(t)
    <2>1. \A u \in Tasks : Started(u)' <=> Started(u)
      BY <1>2, MarkQuiet DEF TimeoutHandle, Inv, StateBits
    <2>2. UNCHANGED <<owner, sdev, running, power, readers>>
      BY <1>2 DEF TimeoutHandle
    <2>3. PowerInv'
      BY <2>1, <2>2, PowerQuiet DEF DeviceOf, HwInv
    <2> QED BY <2>1, <2>2, <2>3 DEF HwInv, RunInv
  <1>3. CASE mpp_task_timeout_work(t)
    <2>1. Started(t)
      BY <1>3 DEF mpp_task_timeout_work, Inv, ClaimInv, Started
    <2>2. PICK e \in Devices : e = DeviceOf(t)
      BY <2>1, StartedIsLive DEF HwInv
    <2>3. /\ bits' = [bits EXCEPT ![t] = @ \cup {"TIMEOUT", "DONE"}]
          /\ power' = [power EXCEPT ![e] = @ - 1] /\ readers' = readers - 1
          /\ UNCHANGED <<owner, sdev, running>>
      BY <1>3, <2>2 DEF mpp_task_timeout_work, set_bit
    <2> QED BY <2>1, <2>2, <2>3, HwEnd
  <1>4. CASE TimeoutPopRunning(t)
    <2>1. ~Started(t)
      BY <1>4 DEF TimeoutPopRunning, Inv, ClaimInv, Started
    <2> QED BY <1>4, <2>1, HwPop DEF TimeoutPopRunning, kref_put
  <1> QED BY <1>1, <1>2, <1>3, <1>4 DEF Timeout

\* Every step preserves what is said of the hardware.  (The step of a timeout
\* work that overtakes the worker still does; it is Inv that is lost with it.)
LEMMA HwStep == Inv /\ HwInv /\ [Next]_vars => HwInv'
  <1> SUFFICES ASSUME Inv, HwInv, [Next]_vars PROVE HwInv'
    OBVIOUS
  <1>1. ASSUME NEW d \in Devices, mpp_dev_shutdown(d) PROVE HwInv'
    BY <1>1, HwFrame DEF mpp_dev_shutdown, sessVars, refVars, listVars, hwVars
  <1>2. CASE UNCHANGED vars \/ \E t \in Tasks : UseFreed(t)
    BY <1>2, HwFrame DEF vars, UseFreed, sessVars, refVars, listVars, hwVars
  <1> QED BY <1>1, <1>2, HwClient, HwWorker, HwInterrupt, HwTimeout DEF Next

\* Whatever interrupts, timeouts and clients do, at most one task of the queue is
\* started and not done; exactly its device is powered and holds the reset lock,
\* and no other device decodes: until a timeout work ends a task that the worker
\* goes on to start.
THEOREM HardwareExclusion == Spec => [](overtaken \/ ExclusiveHardware)
  <1>1. Init => HwInv
    <2> SUFFICES ASSUME Init PROVE HwInv
      OBVIOUS
    <2>1. \A t \in Tasks : ~Started(t)
      BY DEF Init, Started
    <2>2. Elems(running) = {}
      BY DEF Init, Elems
    <2> QED BY <2>1, <2>2 DEF HwInv, RunInv, PowerInv, Init
  <1>2. Inv /\ HwInv => ExclusiveHardware
    <2> SUFFICES ASSUME Inv, HwInv PROVE ExclusiveHardware
      OBVIOUS
    <2>1. ASSUME NEW d \in Devices, hw[d] = "busy" PROVE power[d] = 1
      <3>1. PICK x \in Tasks : x = curtask[d]
        BY <2>1, ElemsType DEF Inv, DeviceInv, TypeOK
      <3>2. Started(x) /\ DeviceOf(x) = d
        BY <2>1, <3>1 DEF Inv, DeviceInv, Started
      <3> QED BY <3>2 DEF HwInv, PowerInv
    <2>2. \A t, u \in Tasks : Started(t) /\ Started(u) => t = u
      BY DEF HwInv, RunInv
    <2> QED BY <2>1, <2>2 DEF HwInv, PowerInv, ExclusiveHardware
  <1>3. (overtaken \/ Inv) /\ (overtaken \/ HwInv) /\ [Next]_vars => (overtaken \/ HwInv)'
    BY HwStep, OvertakenStays
  <1> QED BY <1>1, <1>2, <1>3, Invariance, PTL DEF Spec

-----------------------------------------------------------------------------
(***************************************************************************)
(* The counters.                                                           *)
(***************************************************************************)

\* The tasks that each counter counts.
LiveOf(s) == {t \in Tasks : alloc[t] = "live" /\ owner[t] = s}
QueuedOn(d) == {t \in Tasks : alloc[t] = "live" /\ "PENDING" \in bits[t] /\ DeviceOf(t) = d}

\* A live task is marked PENDING as soon as its client has triggered it.
PendInv ==
    \A t \in Tasks : alloc[t] = "live" => ("PENDING" \in bits[t] <=> ~Untriggered(t))

CountInv == PendInv /\ CountsMatch

\* Sets of tasks are finite, and removing a subset removes its cardinality.
LEMMA TasksCount ==
    ASSUME NEW A \in SUBSET Tasks, NEW B \in SUBSET A
    PROVE  /\ IsFiniteSet(A) /\ Cardinality(A) \in Nat
           /\ Cardinality(A \ B) = Cardinality(A) - Cardinality(B)
  <1>1. IsFiniteSet(A)
    BY FS_Subset, ConstantsAssumption
  <1>2. A \cap B = B
    OBVIOUS
  <1> QED BY <1>1, <1>2, FS_CardinalityType, FS_Difference

\* A step that leaves alone which tasks are live, queued, and whose they are.
LEMMA CountFrame ==
    ASSUME CountsMatch, UNCHANGED <<scount, dcount, alloc>>,
           \A t \in Tasks : alloc[t] = "live" =>
               /\ owner'[t] = owner[t] /\ DeviceOf(t)' = DeviceOf(t)
               /\ "PENDING" \in bits'[t] <=> "PENDING" \in bits[t]
    PROVE  CountsMatch'
  <1>1. ASSUME NEW s \in Sessions PROVE LiveOf(s)' = LiveOf(s)
    BY DEF LiveOf
  <1>2. ASSUME NEW d \in Devices PROVE QueuedOn(d)' = QueuedOn(d)
    BY DEF QueuedOn
  <1>3. \A s \in Sessions : scount[s] = Cardinality(LiveOf(s))
    BY DEF CountsMatch, LiveOf
  <1>4. \A d \in Devices : dcount[d] = Cardinality(QueuedOn(d))
    BY DEF CountsMatch, QueuedOn
  <1>5. \A s \in Sessions : scount'[s] = Cardinality(LiveOf(s)')
    BY <1>1, <1>3
  <1>6. \A d \in Devices : dcount'[d] = Cardinality(QueuedOn(d)')
    BY <1>2, <1>4
  <1> QED BY <1>5, <1>6 DEF CountsMatch, LiveOf, QueuedOn

\* A kref_put of live tasks: whoever is freed was marked PENDING, so it leaves
\* both counters right.
LEMMA CountPut ==
    ASSUME TypeOK, CountsMatch, NEW T \in SUBSET Tasks, kref_put(T),
           \A t \in T : alloc[t] = "live" /\ (ref[t] = 1 => "PENDING" \in bits[t]),
           UNCHANGED <<bits, sdev>>
    PROVE  CountsMatch'
  <1> DEFINE F == {t \in T : ref[t] = 1}
             FS(s) == {t \in F : owner[t] = s}
             FD(d) == {t \in F : DeviceOf(t) = d}
  <1>1. /\ alloc' = [t \in Tasks |-> IF t \in F THEN "freed" ELSE alloc[t]]
        /\ scount' = [s \in Sessions |-> scount[s] - Cardinality(FS(s))]
        /\ dcount' = [d \in Devices |-> dcount[d] - Cardinality(FD(d))]
        /\ owner' = owner
    BY DEF kref_put, mpp_free_task
  <1>2. F \in SUBSET Tasks /\ \A t \in F : alloc[t] = "live" /\ "PENDING" \in bits[t]
    OBVIOUS
  <1> HIDE DEF F
  <1>3. ASSUME NEW s \in Sessions
        PROVE  FS(s) \in SUBSET LiveOf(s) /\ LiveOf(s)' = LiveOf(s) \ FS(s)
    BY <1>1, <1>2 DEF LiveOf
  <1>4. ASSUME NEW d \in Devices
        PROVE  FD(d) \in SUBSET QueuedOn(d) /\ QueuedOn(d)' = QueuedOn(d) \ FD(d)
    BY <1>1, <1>2 DEF QueuedOn, DeviceOf
  <1> HIDE DEF FS, FD
  <1>5. ASSUME NEW s \in Sessions PROVE scount'[s] = Cardinality(LiveOf(s)')
    <2>1. scount[s] = Cardinality(LiveOf(s))
      BY DEF CountsMatch, LiveOf
    <2>2. Cardinality(LiveOf(s) \ FS(s)) = Cardinality(LiveOf(s)) - Cardinality(FS(s))
      <3>1. LiveOf(s) \in SUBSET Tasks
        BY DEF LiveOf
      <3> QED BY <1>3, <3>1, TasksCount
    <2>3. scount'[s] = scount[s] - Cardinality(FS(s))
      BY <1>1
    <2> QED BY <1>3, <2>1, <2>2, <2>3
  <1>6. ASSUME NEW d \in Devices PROVE dcount'[d] = Cardinality(QueuedOn(d)')
    <2>1. dcount[d] = Cardinality(QueuedOn(d))
      BY DEF CountsMatch, QueuedOn
    <2>2. Cardinality(QueuedOn(d) \ FD(d)) = Cardinality(QueuedOn(d)) - Cardinality(FD(d))
      <3>1. QueuedOn(d) \in SUBSET Tasks
        BY DEF QueuedOn
      <3> QED BY <1>4, <3>1, TasksCount
    <2>3. dcount'[d] = dcount[d] - Cardinality(FD(d))
      BY <1>1
    <2> QED BY <1>4, <2>1, <2>2, <2>3
  <1> QED BY <1>5, <1>6 DEF CountsMatch, LiveOf, QueuedOn

\* A step that changes no counter, no task's life and no mark PENDING, and in
\* which no thread comes to or leaves the trigger.
LEMMA CountQuiet ==
    ASSUME TypeOK, CountInv, UNCHANGED <<scount, dcount, alloc, owner, sdev>>,
           \A t \in Tasks : "PENDING" \in bits'[t] <=> "PENDING" \in bits[t],
           \A t \in Tasks : Untriggered(t)' <=> Untriggered(t)
    PROVE  CountInv'
  <1>1. PendInv'
    BY DEF CountInv, PendInv
  <1>2. CountsMatch'
    BY CountFrame DEF CountInv, DeviceOf
  <1> QED BY <1>1, <1>2 DEF CountInv

\* A kref_put when no thread comes to or leaves the trigger.
LEMMA PutQuiet ==
    ASSUME Inv, CountInv, NEW T \in SUBSET Tasks, kref_put(T),
           \A t \in T : alloc[t] = "live" /\ (ref[t] = 1 => ~Untriggered(t)),
           UNCHANGED <<bits, sdev>>,
           \A t \in Tasks : Untriggered(t)' <=> Untriggered(t)
    PROVE  CountInv'
  <1>1. CountsMatch'
    BY CountPut DEF Inv, CountInv, PendInv
  <1>2. \A t \in Tasks : alloc'[t] = "live" => alloc[t] = "live"
    <2>1. alloc' = [t \in Tasks |-> IF t \in T /\ ref[t] = 1 THEN "freed" ELSE alloc[t]]
      BY KrefPut DEF Inv
    <2> QED BY <2>1
  <1>3. PendInv'
    BY <1>2 DEF CountInv, PendInv
  <1> QED BY <1>1, <1>3 DEF CountInv

\* A task on a list of the queue is not at the trigger, and a task of a session
\* that nobody else holds is not either.
LEMMA PoppedIsTriggered ==
    ASSUME Inv, NEW t \in Tasks
    PROVE  /\ t \in Elems(qpend) \cup Elems(running) => alloc[t] = "live" /\ ~Untriggered(t)
           /\ InSession(t) => alloc[t] = "live" /\ (ref[t] = 1 => ~Untriggered(t))
  <1>1. ASSUME t \in Elems(qpend) \cup Elems(running)
        PROVE  alloc[t] = "live" /\ ~Untriggered(t)
    BY <1>1, HeldIsLive DEF Inv, OnQueue, Untriggered, SessionInv
  <1>2. ASSUME InSession(t), ref[t] = 1 PROVE ~Untriggered(t)
    <2>1. ~OnQueue(t)
      BY <1>2 DEF Inv, RefsCountHolders
    <2> QED BY <2>1 DEF OnQueue
  <1> QED BY <1>1, <1>2, HeldIsLive DEF Inv

\* The steps of a client that makes or triggers a task.
LEMMA CountNewTask ==
    ASSUME Inv, CountInv, NEW s \in Sessions, NEW t \in Tasks, NEW poll \in BOOLEAN,
           mpp_process_task_default(s, t, poll)
    PROVE  CountInv'
  <1> USE DEF mpp_process_task_default, IoctlAllowed, sessVars
  <1>1. /\ alloc' = [alloc EXCEPT ![t] = "live"] /\ owner' = [owner EXCEPT ![t] = s]
        /\ scount' = [scount EXCEPT ![s] = @ + 1] /\ alloc[t] = "none" /\ bits[t] = {}
        /\ UNCHANGED <<dcount, bits, sdev>>
    BY DEF Inv, ClaimInv
  <1>2. Untriggered(t)' /\ \A u \in Tasks \ {t} : Untriggered(u)' <=> Untriggered(u)
    <2>1. /\ cpc'[s] = "trigger" /\ ctask'[s] = t /\ cpc[s] # "trigger"
          /\ \A u \in Sessions \ {s} : cpc'[u] = cpc[u] /\ ctask'[u] = ctask[u]
      BY DEF Inv, TypeOK
    <2> QED BY <2>1 DEF Untriggered
  <1>3. PendInv'
    BY <1>1, <1>2 DEF CountInv, PendInv, Inv, TypeOK
  <1>4. ASSUME NEW u \in Sessions PROVE scount'[u] = Cardinality(LiveOf(u)')
    <2>1. scount[u] = Cardinality(LiveOf(u)) /\ t \notin LiveOf(u)
      BY <1>1 DEF CountInv, CountsMatch, LiveOf
    <2>2. CASE u = s
      <3>1. LiveOf(u)' = LiveOf(u) \cup {t}
        BY <1>1, <2>2 DEF LiveOf, Inv, TypeOK
      <3>2. IsFiniteSet(LiveOf(u))
        BY FS_Subset, ConstantsAssumption DEF LiveOf
      <3>3. Cardinality(LiveOf(u) \cup {t}) = Cardinality(LiveOf(u)) + 1
        BY <2>1, <3>2, FS_AddElement
      <3>4. scount'[u] = scount[u] + 1
        BY <1>1, <2>2 DEF Inv, TypeOK
      <3> QED BY <2>1, <3>1, <3>3, <3>4
    <2>3. CASE u # s
      <3>1. LiveOf(u)' = LiveOf(u)
        BY <1>1, <2>3 DEF LiveOf, Inv, TypeOK
      <3>2. scount'[u] = scount[u]
        BY <1>1, <2>3 DEF Inv, TypeOK
      <3> QED BY <2>1, <3>1, <3>2
    <2> QED BY <2>2, <2>3
  <1>5. ASSUME NEW d \in Devices PROVE dcount'[d] = Cardinality(QueuedOn(d)')
    <2>1. QueuedOn(d)' = QueuedOn(d)
      BY <1>1 DEF QueuedOn, DeviceOf, Inv, TypeOK
    <2> QED BY <1>1, <2>1 DEF CountInv, CountsMatch, QueuedOn
  <1>6. CountsMatch'
    BY <1>4, <1>5 DEF CountsMatch, LiveOf, QueuedOn
  <1> QED BY <1>3, <1>6 DEF CountInv

\* mpp_msgs_trigger counts the task on its device and marks it PENDING.
LEMMA CountTrigger ==
    ASSUME Inv, CountInv, NEW s \in Sessions, mpp_msgs_trigger(s)
    PROVE  CountInv'
  <1> USE DEF mpp_msgs_trigger, sessVars
  <1>1. PICK t \in Tasks : t = ctask[s] /\ owner[t] = s
    BY DEF Inv, SessionInv
  <1>2. PICK e \in Devices : e = sdev[s]
    BY DEF Inv, SessionInv
  <1>3. /\ bits' = [bits EXCEPT ![t] = @ \cup {"PENDING"}]
        /\ dcount' = [dcount EXCEPT ![e] = @ + 1]
        /\ UNCHANGED <<scount, alloc, owner, sdev>>
    BY <1>1, <1>2 DEF set_bit
  <1>4. Untriggered(t)
    BY <1>1 DEF Untriggered
  <1>5. alloc[t] = "live" /\ "PENDING" \notin bits[t]
    BY <1>4, HeldIsLive DEF OnQueue, CountInv, PendInv, Inv
  <1>6. ASSUME NEW r \in Sessions \ {s} PROVE ~(cpc[r] = "trigger" /\ ctask[r] = t)
    BY <1>1, <1>6 DEF Inv, SessionInv
  <1>7. ~Untriggered(t)' /\ \A u \in Tasks \ {t} : Untriggered(u)' <=> Untriggered(u)
    <2>1. /\ cpc'[s] # "trigger"
          /\ \A u \in Sessions \ {s} : cpc'[u] = cpc[u] /\ ctask'[u] = ctask[u]
      BY DEF Inv, TypeOK
    <2> QED BY <1>1, <1>6, <2>1 DEF Untriggered
  <1>8. PendInv'
    BY <1>3, <1>7 DEF CountInv, PendInv, Inv, TypeOK
  <1>9. ASSUME NEW u \in Sessions PROVE scount'[u] = Cardinality(LiveOf(u)')
    <2>1. LiveOf(u)' = LiveOf(u)
      BY <1>3 DEF LiveOf
    <2> QED BY <1>3, <2>1 DEF CountInv, CountsMatch, LiveOf
  <1>10. ASSUME NEW d \in Devices PROVE dcount'[d] = Cardinality(QueuedOn(d)')
    <2>1. dcount[d] = Cardinality(QueuedOn(d)) /\ t \notin QueuedOn(d)
      BY <1>5 DEF CountInv, CountsMatch, QueuedOn
    <2>2. DeviceOf(t) = e
      BY <1>1, <1>2 DEF DeviceOf
    <2>3. CASE d = e
      <3>1. QueuedOn(d)' = QueuedOn(d) \cup {t}
        BY <1>3, <1>5, <2>2, <2>3 DEF QueuedOn, DeviceOf, Inv, TypeOK
      <3>2. IsFiniteSet(QueuedOn(d))
        BY FS_Subset, ConstantsAssumption DEF QueuedOn
      <3>3. Cardinality(QueuedOn(d) \cup {t}) = Cardinality(QueuedOn(d)) + 1
        BY <2>1, <3>2, FS_AddElement
      <3>4. dcount'[d] = dcount[d] + 1
        BY <1>3, <2>3 DEF Inv, TypeOK
      <3> QED BY <2>1, <3>1, <3>3, <3>4
    <2>4. CASE d # e
      <3>1. QueuedOn(d)' = QueuedOn(d)
        BY <1>3, <2>2, <2>4 DEF QueuedOn, DeviceOf, Inv, TypeOK
      <3>2. dcount'[d] = dcount[d]
        BY <1>3, <2>4 DEF Inv, TypeOK
      <3> QED BY <2>1, <3>1, <3>2
    <2> QED BY <2>3, <2>4
  <1>11. CountsMatch'
    BY <1>9, <1>10 DEF CountsMatch, LiveOf, QueuedOn
  <1> QED BY <1>8, <1>11 DEF CountInv

\* Marking a task with bits other than PENDING.
LEMMA MarkKeepsPending ==
    ASSUME TypeOK, NEW x, NEW b \in SUBSET (StateBits \ {"PENDING"}),
           bits' = bits \/ set_bit(x, b)
    PROVE  \A t \in Tasks : "PENDING" \in bits'[t] <=> "PENDING" \in bits[t]
  <1>1. CASE bits' = bits
    BY <1>1
  <1>2. CASE set_bit(x, b)
    <2>1. ASSUME NEW t \in Tasks PROVE bits'[t] = bits[t] \/ bits'[t] = bits[t] \cup b
      BY <1>2 DEF set_bit, TypeOK
    <2> QED BY <2>1
  <1> QED BY <1>1, <1>2

\* The steps of a client keep the counters exact.
LEMMA CountClient ==
    ASSUME Inv, CountInv, NEW s \in Sessions, Client(s)
    PROVE  CountInv'
  <1> USE DEF sessVars, refVars, cVars
  <1>1. TypeOK
    BY DEF Inv
  <1>2. CASE mpp_dev_open(s) \/ mpp_dev_release(s)
    <2>1. UNCHANGED <<scount, dcount, alloc, owner, sdev, bits, cpc, ctask>>
      BY <1>2 DEF mpp_dev_open, mpp_dev_release
    <2> QED BY <1>1, <2>1, CountQuiet DEF Untriggered
  <1>3. CASE \/ PollIoctl(s) \/ mpp_session_get_pending_task(s)
             \/ WaitDone(s) \/ WaitTimeout(s) \/ WaitAbort(s)
    <2>1. UNCHANGED <<scount, dcount, alloc, owner, sdev>>
      BY <1>3 DEF PollIoctl, mpp_session_get_pending_task, WaitDone, WaitTimeout, WaitAbort
    <2>2. bits' = bits \/ set_bit(ctask[s], {"ABORT"})
      BY <1>3 DEF PollIoctl, mpp_session_get_pending_task, WaitDone, WaitTimeout, WaitAbort
    <2>3. \A t \in Tasks : "PENDING" \in bits'[t] <=> "PENDING" \in bits[t]
      BY <1>1, <2>2, MarkKeepsPending DEF StateBits
    <2>4. /\ cpc[s] # "trigger" /\ cpc'[s] # "trigger"
          /\ \A r \in Sessions \ {s} : cpc'[r] = cpc[r] /\ ctask'[r] = ctask[r]
      BY <1>1, <1>3 DEF PollIoctl, IoctlAllowed, mpp_session_get_pending_task, WaitDone,
         WaitTimeout, WaitAbort, TypeOK
    <2>5. \A t \in Tasks : Untriggered(t)' <=> Untriggered(t)
      BY <2>4 DEF Untriggered
    <2> QED BY <1>1, <2>1, <2>3, <2>5, CountQuiet
  <1>4. ASSUME NEW d \in Devices, InitClientType(s, d) PROVE CountInv'
    <2>1. UNCHANGED <<scount, dcount, alloc, owner, bits, cpc, ctask>>
      BY <1>4 DEF InitClientType
    <2>2. \A t \in Tasks : Untriggered(t)' <=> Untriggered(t)
      BY <2>1 DEF Untriggered
    <2>3. \A t \in Tasks : alloc[t] = "live" => DeviceOf(t)' = DeviceOf(t)
      BY <1>4 DEF InitClientType, DeviceOf, Inv, SessionInv, TypeOK
    <2>4. CountsMatch'
      BY <2>1, <2>3, CountFrame DEF CountInv
    <2> QED BY <2>1, <2>2, <2>4 DEF CountInv, PendInv
  <1>5. CASE mpp_session_pop_pending(s)
    <2>1. PICK x \in Tasks : x = ctask[s] /\ x \in Elems(spend[s])
      BY <1>1, <1>5, ElemsType DEF mpp_session_pop_pending, Inv, SessionInv, TypeOK
    <2>2. alloc[x] = "live" /\ (ref[x] = 1 => ~Untriggered(x))
      BY <2>1, PoppedIsTriggered DEF InSession
    <2>3. /\ cpc[s] # "trigger" /\ cpc'[s] # "trigger"
          /\ \A r \in Sessions \ {s} : cpc'[r] = cpc[r] /\ ctask'[r] = ctask[r]
      BY <1>1, <1>5 DEF mpp_session_pop_pending, TypeOK
    <2>4. \A t \in Tasks : Untriggered(t)' <=> Untriggered(t)
      BY <2>3 DEF Untriggered
    <2>5. kref_put({x}) /\ UNCHANGED <<bits, sdev>>
      BY <1>5, <2>1 DEF mpp_session_pop_pending
    <2> QED BY <2>2, <2>4, <2>5, PutQuiet
  <1>6. CASE ResetSession(s)
    <2>1. PICK T \in SUBSET Tasks : T = Elems(spend[s])
      BY <1>1, ElemsType DEF TypeOK
    <2>2. \A t \in T : alloc[t] = "live" /\ (ref[t] = 1 => ~Untriggered(t))
      BY <2>1, PoppedIsTriggered DEF InSession
    <2>3. kref_put(T) /\ UNCHANGED <<bits, sdev, cpc, ctask>>
      BY <1>6, <2>1 DEF ResetSession, mpp_session_clear
    <2>4. \A t \in Tasks : Untriggered(t)' <=> Untriggered(t)
      BY <2>3 DEF Untriggered
    <2> QED BY <2>2, <2>3, <2>4, PutQuiet
  <1> QED BY <1>2, <1>3, <1>4, <1>5, <1>6, CountNewTask, CountTrigger DEF Client

\* A kref_put by a thread that is not a client, of a task it takes off a list of
\* the queue.
LEMMA CountQueuePop ==
    ASSUME Inv, CountInv, NEW x \in Tasks, x \in Elems(qpend) \cup Elems(running),
           kref_put({x}), UNCHANGED <<bits, sdev, cpc, ctask>>
    PROVE  CountInv'
  <1>1. alloc[x] = "live" /\ ~Untriggered(x)
    BY PoppedIsTriggered
  <1>2. \A t \in Tasks : Untriggered(t)' <=> Untriggered(t)
    BY DEF Untriggered
  <1> QED BY <1>1, <1>2, PutQuiet

\* A step of a thread that is not a client and takes nothing off a list.
LEMMA CountMark ==
    ASSUME Inv, CountInv, UNCHANGED <<scount, dcount, alloc, owner, sdev, cpc, ctask>>,
           NEW x, NEW b \in SUBSET (StateBits \ {"PENDING"}),
           bits' = bits \/ set_bit(x, b)
    PROVE  CountInv'
  <1>1. \A t \in Tasks : "PENDING" \in bits'[t] <=> "PENDING" \in bits[t]
    BY MarkKeepsPending DEF Inv
  <1>2. \A t \in Tasks : Untriggered(t)' <=> Untriggered(t)
    BY DEF Untriggered
  <1> QED BY <1>1, <1>2, CountQuiet DEF Inv

\* The steps of the worker keep the counters exact.
LEMMA CountWorker ==
    ASSUME Inv, CountInv, Worker
    PROVE  CountInv'
  <1> USE DEF sessVars, refVars, cVars
  <1>1. CASE \/ mpp_taskqueue_get_pending_task \/ mpp_taskqueue_is_running \/ WorkerEnd
             \/ vdpu_run \/ \E d \in Devices : WorkerStart(d)
    <2>1. UNCHANGED <<scount, dcount, alloc, owner, sdev, bits, cpc, ctask>>
      BY <1>1 DEF vdpu_run, mpp_taskqueue_get_pending_task, mpp_taskqueue_is_running, WorkerEnd,
         WorkerStart
    <2> QED BY <2>1, CountQuiet DEF Untriggered, Inv
  <1>2. CASE mpp_taskqueue_pop_pending
    <2>1. PICK x \in Tasks : x = Head(qpend) /\ x \in Elems(qpend)
      BY <1>2, ElemsType DEF mpp_taskqueue_pop_pending, Inv, TypeOK
    <2>2. kref_put({x}) /\ UNCHANGED <<bits, sdev, cpc, ctask>>
      BY <1>2, <2>1 DEF mpp_taskqueue_pop_pending
    <2> QED BY <2>1, <2>2, CountQueuePop
  <1>3. CASE mpp_taskqueue_pending_to_run
    <2>1. UNCHANGED <<scount, dcount, alloc, owner, sdev, cpc, ctask>> /\ set_bit(wtask, {"RUNNING"})
      BY <1>3 DEF mpp_taskqueue_pending_to_run
    <2> QED BY <2>1, CountMark DEF StateBits
  <1>4. CASE mpp_task_run
    <2>1. UNCHANGED <<scount, dcount, alloc, owner, sdev, cpc, ctask>> /\ set_bit(wtask, {"START"})
      BY <1>4 DEF mpp_task_run
    <2> QED BY <2>1, CountMark DEF StateBits
  <1>5. CASE mpp_task_run_failed
    <2>1. PICK x \in Tasks : x = wtask /\ x \in Elems(running)
      BY <1>5, ElemsType DEF mpp_task_run_failed, Inv, QueueInv, TypeOK
    <2>2. kref_put({x}) /\ UNCHANGED <<bits, sdev, cpc, ctask>>
      BY <1>5, <2>1 DEF mpp_task_run_failed
    <2> QED BY <2>1, <2>2, CountQueuePop
  <1>6. CASE mpp_session_deinit
    <2>1. PICK s \in Sessions : s = Head(detach)
      BY <1>6, ElemsType DEF Inv, TypeOK, mpp_session_deinit
    <2>2. UNCHANGED <<bits, sdev, cpc, ctask>>
      BY <1>6 DEF mpp_session_deinit
    <2>3. \A t \in Tasks : Untriggered(t)' <=> Untriggered(t)
      BY <2>2 DEF Untriggered
    <2>4. CASE scount[s] # 0
      <3>1. UNCHANGED <<scount, dcount, alloc, owner>>
        BY <1>6, <2>1, <2>4 DEF mpp_session_deinit
      <3> QED BY <2>2, <2>3, <3>1, CountQuiet DEF Inv
    <2>5. CASE scount[s] = 0
      <3>1. PICK T \in SUBSET Tasks : T = Elems(spend[s])
        BY ElemsType DEF Inv, TypeOK
      <3>2. kref_put(T)
        BY <1>6, <2>1, <2>5, <3>1 DEF mpp_session_deinit, mpp_session_clear
      <3>3. \A t \in T : alloc[t] = "live" /\ (ref[t] = 1 => ~Untriggered(t))
        BY <3>1, PoppedIsTriggered DEF InSession
      <3> QED BY <2>2, <2>3, <3>2, <3>3, PutQuiet
    <2> QED BY <2>4, <2>5
  <1> QED BY <1>1, <1>2, <1>3, <1>4, <1>5, <1>6 DEF Worker

\* So do the steps of an interrupt.
LEMMA CountInterrupt ==
    ASSUME Inv, CountInv, NEW d \in Devices, Interrupt(d)
    PROVE  CountInv'
  <1> USE DEF sessVars, refVars, cVars
  <1>1. CASE (\E st \in {"ready", "error"} : HwFinish(d, st)) \/ mpp_dev_isr_sched(d)
    <2>1. UNCHANGED <<scount, dcount, alloc, owner, sdev, bits, cpc, ctask>>
      BY <1>1 DEF HwFinish, mpp_dev_isr_sched
    <2> QED BY <2>1, CountQuiet DEF Untriggered, Inv
  <1>2. CASE mpp_dev_irq(d)
    <2>1. /\ UNCHANGED <<scount, dcount, alloc, owner, sdev, cpc, ctask>>
          /\ bits' = bits \/ set_bit(curtask[d], {"HANDLE", "IRQ"})
      BY <1>2 DEF mpp_dev_irq
    <2> QED BY <2>1, CountMark DEF StateBits
  <1>3. CASE mpp_task_finish(d)
    <2>1. /\ UNCHANGED <<scount, dcount, alloc, owner, sdev, cpc, ctask>>
          /\ bits' = bits \/ set_bit(curtask[d], {"FINISH", "DONE"})
      BY <1>3 DEF mpp_task_finish
    <2> QED BY <2>1, CountMark DEF StateBits
  <1>4. CASE IsrPopRunning(d)
    <2>1. PICK x \in Tasks : x = itask[d] /\ x \in Elems(running)
      BY <1>4, ElemsType DEF IsrPopRunning, Inv, DeviceInv, TypeOK
    <2>2. kref_put({x}) /\ UNCHANGED <<bits, sdev, cpc, ctask>>
      BY <1>4, <2>1 DEF IsrPopRunning
    <2> QED BY <2>1, <2>2, CountQueuePop
  <1> QED BY <1>1, <1>2, <1>3, <1>4 DEF Interrupt

\* So do the steps of a timeout work.
LEMMA CountTimeout ==
    ASSUME Inv, CountInv, NEW t \in Tasks, Timeout(t)
    PROVE  CountInv'
  <1> USE DEF sessVars, refVars, cVars
  <1>1. CASE TimerExpire(t) \/ TimeoutHandle(t)
    <2>1. /\ UNCHANGED <<scount, dcount, alloc, owner, sdev, cpc, ctask>>
          /\ bits' = bits \/ set_bit(t, {"HANDLE"})
      BY <1>1 DEF TimerExpire, TimeoutHandle
    <2> QED BY <2>1, CountMark DEF StateBits
  <1>2. CASE mpp_task_timeout_work(t)
    <2>1. /\ UNCHANGED <<scount, dcount, alloc, owner, sdev, cpc, ctask>>
          /\ set_bit(t, {"TIMEOUT", "DONE"})
      BY <1>2 DEF mpp_task_timeout_work
    <2> QED BY <2>1, CountMark DEF StateBits
  <1>3. CASE TimeoutPopRunning(t)
    <2>1. t \in Elems(running)
      BY <1>3 DEF TimeoutPopRunning, Inv, ClaimInv
    <2>2. kref_put({t}) /\ UNCHANGED <<bits, sdev, cpc, ctask>>
      BY <1>3 DEF TimeoutPopRunning
    <2> QED BY <2>1, <2>2, CountQueuePop
  <1> QED BY <1>1, <1>2, <1>3 DEF Timeout

\* Every step keeps the counters exact.
LEMMA CountStep == Inv /\ CountInv /\ [Next]_vars => CountInv'
  <1> SUFFICES ASSUME Inv, CountInv, [Next]_vars PROVE CountInv'
    OBVIOUS
  <1>1. CASE \/ UNCHANGED vars \/ \E d \in Devices : mpp_dev_shutdown(d)
             \/ \E t \in Tasks : UseFreed(t)
    <2>1. UNCHANGED <<scount, dcount, alloc, owner, sdev, bits, cpc, ctask>>
      BY <1>1 DEF vars, mpp_dev_shutdown, UseFreed, sessVars, refVars, cVars
    <2> QED BY <2>1, CountQuiet DEF Untriggered, Inv
  <1> QED BY <1>1, CountClient, CountWorker, CountInterrupt, CountTimeout DEF Next

\* The counters are exact in every reachable state.
LEMMA CountInvariance == Spec => [](overtaken \/ CountInv)
  <1>1. Init => CountInv
    <2> SUFFICES ASSUME Init PROVE CountInv
      OBVIOUS
    <2>1. PendInv
      BY DEF Init, PendInv
    <2>2. /\ \A s \in Sessions : LiveOf(s) = {}
          /\ \A d \in Devices : QueuedOn(d) = {}
      BY DEF Init, LiveOf, QueuedOn
    <2>3. CountsMatch
      <3>1. \A s \in Sessions : scount[s] = Cardinality(LiveOf(s))
        BY <2>2, FS_EmptySet DEF Init
      <3>2. \A d \in Devices : dcount[d] = Cardinality(QueuedOn(d))
        BY <2>2, FS_EmptySet DEF Init
      <3> QED BY <3>1, <3>2 DEF CountsMatch, LiveOf, QueuedOn
    <2> QED BY <2>1, <2>3 DEF CountInv
  <1>2. (overtaken \/ Inv) /\ (overtaken \/ CountInv) /\ [Next]_vars => (overtaken \/ CountInv)'
    BY CountStep, OvertakenStays
  <1> QED BY <1>1, <1>2, Invariance, PTL DEF Spec

\* session->task_count and mpp->task_count are exact, whichever of the poller,
\* the worker, the interrupt thread and the timeout work frees a task: what
\* mpp_session_deinit and mpp_dev_shutdown wait for is the truth, until a timeout
\* work ends a task that the worker goes on to start.
THEOREM CountersExact == Spec => [](overtaken \/ CountsMatch)
  <1>1. CountInv => CountsMatch
    BY DEF CountInv
  <1> QED BY <1>1, CountInvariance, PTL

-----------------------------------------------------------------------------
(***************************************************************************)
(* Sessions.                                                               *)
(***************************************************************************)

\* No live task belongs to a session that has been freed.
AliveInv == \A t \in Tasks : alloc[t] = "live" => sess[owner[t]] # "freed"

\* A step that makes no task and frees no session.
LEMMA AliveQuiet ==
    ASSUME Inv, AliveInv, owner' = owner,
           \A t \in Tasks : alloc'[t] = "live" => alloc[t] = "live",
           \A s \in Sessions : sess'[s] = "freed" => sess[s] = "freed"
    PROVE  AliveInv'
  <1>1. \A t \in Tasks : alloc[t] = "live" => owner[t] \in Sessions
    BY DEF Inv, SessionInv
  <1> QED BY <1>1 DEF AliveInv

\* kref_put makes no task live.
LEMMA PutLive ==
    ASSUME Inv, NEW T \in SUBSET Tasks, kref_put(T)
    PROVE  owner' = owner /\ \A t \in Tasks : alloc'[t] = "live" => alloc[t] = "live"
  BY KrefPut DEF Inv, TypeOK

\* The steps that change no session and put no task.
LEMMA AliveFrame ==
    ASSUME Inv, AliveInv, UNCHANGED <<sess, alloc, owner>>
    PROVE  AliveInv'
  BY AliveQuiet

\* A client makes tasks for its own open file and frees it only without one.
LEMMA AliveClient ==
    ASSUME Inv, AliveInv, NEW s \in Sessions, Client(s)
    PROVE  AliveInv'
  <1> USE DEF sessVars, refVars
  <1>1. CASE \/ mpp_msgs_trigger(s) \/ PollIoctl(s) \/ mpp_session_get_pending_task(s)
             \/ WaitDone(s) \/ WaitTimeout(s) \/ WaitAbort(s)
    BY <1>1, AliveFrame DEF mpp_msgs_trigger, PollIoctl, mpp_session_get_pending_task,
       WaitDone, WaitTimeout, WaitAbort
  <1>2. CASE mpp_dev_open(s) \/ \E d \in Devices : InitClientType(s, d)
    <2>1. UNCHANGED <<alloc, owner>> /\ \A r \in Sessions : sess'[r] = "freed" => sess[r] = "freed"
      BY <1>2 DEF mpp_dev_open, InitClientType, Inv, TypeOK
    <2> QED BY <2>1, AliveQuiet
  <1>3. ASSUME NEW t \in Tasks, NEW poll \in BOOLEAN, mpp_process_task_default(s, t, poll)
        PROVE  AliveInv'
    <2>1. /\ alloc' = [alloc EXCEPT ![t] = "live"] /\ owner' = [owner EXCEPT ![t] = s]
          /\ sess' = sess /\ sess[s] = "attached"
      BY <1>3 DEF mpp_process_task_default
    <2> QED BY <2>1 DEF AliveInv, Inv, TypeOK
  <1>4. CASE mpp_session_pop_pending(s)
    <2>1. PICK x \in Tasks : x = ctask[s]
      BY <1>4, ElemsType DEF mpp_session_pop_pending, Inv, SessionInv, TypeOK
    <2>2. kref_put({x}) /\ sess' = sess
      BY <1>4, <2>1 DEF mpp_session_pop_pending
    <2> QED BY <2>2, PutLive, AliveQuiet
  <1>5. CASE ResetSession(s)
    <2>1. PICK T \in SUBSET Tasks : T = Elems(spend[s])
      BY ElemsType DEF Inv, TypeOK
    <2>2. kref_put(T) /\ sess' = sess
      BY <1>5, <2>1 DEF ResetSession, mpp_session_clear
    <2> QED BY <2>2, PutLive, AliveQuiet
  <1>6. CASE mpp_dev_release(s)
    <2>1. UNCHANGED <<alloc, owner>>
      BY <1>6 DEF mpp_dev_release
    <2>2. \A r \in Sessions : sess'[r] = "freed" => sess[r] = "freed" \/ sess[r] = "open"
      BY <1>6 DEF mpp_dev_release, Inv, TypeOK
    <2>3. \A t \in Tasks : alloc[t] = "live" => owner[t] \in Sessions /\ sess[owner[t]] # "open"
      BY DEF Inv, SessionInv
    <2> QED BY <2>1, <2>2, <2>3 DEF AliveInv
  <1> QED BY <1>1, <1>2, <1>3, <1>4, <1>5, <1>6 DEF Client

\* The worker frees a session whose counter is 0, so that it has no live task.
LEMMA AliveWorker ==
    ASSUME Inv, CountInv, AliveInv, Worker
    PROVE  AliveInv'
  <1> USE DEF sessVars, refVars
  <1>1. CASE \/ mpp_taskqueue_get_pending_task \/ mpp_taskqueue_is_running \/ WorkerEnd
             \/ mpp_taskqueue_pending_to_run \/ mpp_task_run \/ vdpu_run
             \/ \E d \in Devices : WorkerStart(d)
    BY <1>1, AliveFrame DEF vdpu_run, mpp_taskqueue_get_pending_task, mpp_taskqueue_is_running, WorkerEnd,
       mpp_taskqueue_pending_to_run, mpp_task_run, WorkerStart
  <1>2. CASE mpp_taskqueue_pop_pending
    <2>1. PICK x \in Tasks : x = Head(qpend)
      BY <1>2, ElemsType DEF mpp_taskqueue_pop_pending, Inv, TypeOK
    <2>2. kref_put({x}) /\ sess' = sess
      BY <1>2, <2>1 DEF mpp_taskqueue_pop_pending
    <2> QED BY <2>2, PutLive, AliveQuiet
  <1>3. CASE mpp_task_run_failed
    <2>1. PICK x \in Tasks : x = wtask
      BY <1>3, ElemsType DEF mpp_task_run_failed, Inv, QueueInv, TypeOK
    <2>2. kref_put({x}) /\ sess' = sess
      BY <1>3, <2>1 DEF mpp_task_run_failed
    <2> QED BY <2>2, PutLive, AliveQuiet
  <1>4. CASE mpp_session_deinit
    <2>1. PICK s \in Sessions : s = Head(detach)
      BY <1>4, ElemsType DEF Inv, TypeOK, mpp_session_deinit
    <2>2. CASE scount[s] # 0
      <3>1. UNCHANGED <<alloc, owner>> /\ sess' = [sess EXCEPT ![s] = "orphan"]
        BY <1>4, <2>1, <2>2 DEF mpp_session_deinit
      <3>2. \A r \in Sessions : sess'[r] = "freed" => sess[r] = "freed"
        BY <3>1 DEF Inv, TypeOK
      <3> QED BY <3>1, <3>2, AliveQuiet
    <2>3. CASE scount[s] = 0
      <3>1. PICK T \in SUBSET Tasks : T = Elems(spend[s])
        BY ElemsType DEF Inv, TypeOK
      <3>2. kref_put(T) /\ sess' = [sess EXCEPT ![s] = "freed"]
        BY <1>4, <2>1, <2>3, <3>1 DEF mpp_session_deinit, mpp_session_clear
      <3>3. owner' = owner /\ \A t \in Tasks : alloc'[t] = "live" => alloc[t] = "live"
        BY <3>2, PutLive
      <3>4. \A t \in Tasks : alloc[t] = "live" => owner[t] \in Sessions /\ owner[t] # s
        <4>1. LiveOf(s) \in SUBSET Tasks /\ Cardinality(LiveOf(s)) = 0
          BY <2>3 DEF CountInv, CountsMatch, LiveOf
        <4>2. LiveOf(s) = {}
          BY <4>1, FS_Subset, FS_EmptySet, ConstantsAssumption
        <4> QED BY <4>2 DEF LiveOf, Inv, SessionInv
      <3>5. \A r \in Sessions \ {s} : sess'[r] = sess[r]
        BY <3>2 DEF Inv, TypeOK
      <3> QED BY <3>3, <3>4, <3>5 DEF AliveInv
    <2> QED BY <2>2, <2>3
  <1> QED BY <1>1, <1>2, <1>3, <1>4 DEF Worker

\* Interrupts and timeouts free tasks, never a session.
LEMMA AliveStep == Inv /\ CountInv /\ AliveInv /\ [Next]_vars => AliveInv'
  <1> SUFFICES ASSUME Inv, CountInv, AliveInv, [Next]_vars PROVE AliveInv'
    OBVIOUS
  <1> USE DEF sessVars, refVars
  <1>1. CASE \/ UNCHANGED vars \/ \E d \in Devices : mpp_dev_shutdown(d)
             \/ \E t \in Tasks : UseFreed(t)
    BY <1>1, AliveFrame DEF vars, mpp_dev_shutdown, UseFreed, refVars
  <1>2. ASSUME NEW d \in Devices, Interrupt(d) PROVE AliveInv'
    <2>1. CASE \/ (\E st \in {"ready", "error"} : HwFinish(d, st)) \/ mpp_dev_isr_sched(d)
               \/ mpp_dev_irq(d) \/ mpp_task_finish(d)
      BY <2>1, AliveFrame DEF HwFinish, mpp_dev_isr_sched, mpp_dev_irq, mpp_task_finish
    <2>2. CASE IsrPopRunning(d)
      <3>1. PICK x \in Tasks : x = itask[d]
        BY <2>2, ElemsType DEF IsrPopRunning, Inv, DeviceInv, TypeOK
      <3>2. kref_put({x}) /\ sess' = sess
        BY <2>2, <3>1 DEF IsrPopRunning
      <3> QED BY <3>2, PutLive, AliveQuiet
    <2> QED BY <1>2, <2>1, <2>2 DEF Interrupt
  <1>3. ASSUME NEW t \in Tasks, Timeout(t) PROVE AliveInv'
    <2>1. CASE TimerExpire(t) \/ TimeoutHandle(t) \/ mpp_task_timeout_work(t)
      BY <2>1, AliveFrame DEF TimerExpire, TimeoutHandle, mpp_task_timeout_work
    <2>2. CASE TimeoutPopRunning(t)
      <3>1. kref_put({t}) /\ sess' = sess
        BY <2>2 DEF TimeoutPopRunning
      <3> QED BY <3>1, PutLive, AliveQuiet
    <2> QED BY <1>3, <2>1, <2>2 DEF Timeout
  <1> QED BY <1>1, <1>2, <1>3, AliveClient, AliveWorker DEF Next

\* The worker frees a session only when no task can lead to it any more, and it
\* then has no task left to abort in mpp_session_clear: until a timeout work ends
\* a task that the worker goes on to start.
THEOREM SessionOutlives == Spec => [](overtaken \/ SessionOutlivesTasks)
  <1>1. Init => AliveInv
    BY DEF Init, AliveInv
  <1>2. Inv /\ AliveInv => SessionOutlivesTasks
    <2> SUFFICES ASSUME Inv, AliveInv PROVE SessionOutlivesTasks
      OBVIOUS
    <2>1. ASSUME NEW t \in Tasks, alloc[t] = "live"
          PROVE  sess[owner[t]] \in {"attached", "detached", "orphan"}
      BY <2>1 DEF AliveInv, Inv, SessionInv, TypeOK
    <2>2. ASSUME NEW s \in Sessions, sess[s] = "freed" PROVE spend[s] = <<>> /\ cpc[s] = "idle"
      <3>1. cpc[s] = "idle"
        BY <2>2 DEF Inv, SessionInv
      <3>2. spend[s] \in Seq(Tasks)
        BY DEF Inv, TypeOK
      <3>3. ASSUME NEW t \in Elems(spend[s]) PROVE FALSE
        <4>1. t \in Tasks /\ owner[t] = s
          BY <3>2, ElemsType DEF Inv, SessionInv
        <4>2. alloc[t] = "live"
          BY <4>1, HeldIsLive DEF Inv, InSession
        <4> QED BY <2>1, <2>2, <4>1, <4>2
      <3>4. spend[s] = <<>>
        BY <3>2, <3>3, ElemsType
      <3> QED BY <3>1, <3>4
    <2> QED BY <2>1, <2>2 DEF SessionOutlivesTasks
  <1>3. /\ overtaken \/ Inv
        /\ overtaken \/ CountInv
        /\ overtaken \/ AliveInv
        /\ [Next]_vars
        => (overtaken \/ AliveInv)'
    BY AliveStep, OvertakenStays
  <1> QED BY <1>1, <1>2, <1>3, CountInvariance, Invariance, PTL DEF Spec

=============================================================================
