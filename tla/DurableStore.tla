---------------------------- MODULE DurableStore ----------------------------
(***************************************************************************)
(* What a persistent store of items promises, whatever the medium: a write *)
(* reaches the store as a whole or not at all, it has reached it when the  *)
(* caller is told so, and a loss of power leaves what the store holds.     *)
(***************************************************************************)
CONSTANTS
    Ids,          \* names of items
    Answers,      \* what a read can return of an item,
    NoItem,       \* or this, when it was never written
    Clients       \* the threads that write

VARIABLES
    mem,          \* what a read returns; after a power loss, what it will return
    store,        \* what would be found after a power loss
    busy,         \* the clients in the middle of a write
    excused,      \* the medium failed or two clients wrote at once, and no
                  \* write has repaired the store since
    void          \* the memory itself is spoilt

storeVars == <<busy, excused, mem, store>>
vars == <<storeVars, void>>

Init ==
    /\ mem = [id \in Ids |-> NoItem]
    /\ store = mem
    /\ busy = {}
    /\ excused = FALSE
    /\ void = FALSE

\* A client's data is visible to readers at once; no other item changes.  A
\* second writer beside the first is not what the store is made for.
Write(c) ==
    /\ c \notin busy
    /\ busy' = busy \cup {c}
    /\ \E id \in Ids, ans \in Answers : mem' = [mem EXCEPT ![id] = ans]
    /\ excused' = (excused \/ busy # {})
    /\ UNCHANGED store

\* All of the memory reaches the store in one step.
Commit ==
    /\ excused' = FALSE
    /\ UNCHANGED <<busy, mem>>
    /\ store' = mem

\* A client is told that its data is stored.
Return(c) ==
    /\ c \in busy
    /\ busy' = busy \ {c}
    /\ excused \/ store = mem
    /\ UNCHANGED <<mem, store, excused>>

\* The medium fails: nothing is known of the store until the next commit.
Damage ==
    /\ excused' = TRUE
    /\ UNCHANGED <<busy, mem>>

\* Memory is lost; the store is not, unless the medium fails at the same time.
PowerLoss ==
    /\ busy' = {}
    /\ excused' = TRUE \/ UNCHANGED <<store, excused>>
    /\ mem' = store'

Step ==
    \/ \E c \in Clients : Write(c) \/ Return(c)
    \/ Commit \/ Damage \/ PowerLoss

\* Two threads meet in the memory, or a boot fills it with parts of two stores:
\* from then on nothing is promised.
Void == void' = TRUE

Next == (Step /\ UNCHANGED void) \/ Void

Spec == Init /\ [][Next]_vars

=============================================================================
