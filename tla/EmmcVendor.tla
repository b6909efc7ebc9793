----------------------------- MODULE EmmcVendor -----------------------------
(***************************************************************************)
(* The vendor storage on eMMC,                                             *)
(* yangfan/kernel/src/driv/soc/sdmmc_vendor_storage.c.  g_vendor is kept   *)
(* in memory; every write rewrites the whole of it, sector by sector, to   *)
(* the next of PartNum partitions, and the boot takes the newest partition *)
(* whose first and last sector agree on the version.                       *)
(*                                                                         *)
(* A sector of 512 bytes is written as a whole or not at all.  An image    *)
(* has a first sector (with the version and the item table; it holds 62 of *)
(* the 126 entries, and those beyond it are not told apart from them),     *)
(* sectors in the middle and a last one (with version2); the middle ones   *)
(* are all treated alike and are one sector here.                          *)
(*                                                                         *)
(* The ioctl's clients are serialised by vendor_ops_mutex, the kernel's    *)
(* callers of rk_vendor_write are not.  An update of g_vendor that nobody  *)
(* disturbs is one step; that two threads meet in g_vendor is a step of    *)
(* its own (Race), as is a boot that has not read all of its image.  The   *)
(* model does not follow what the code makes of such a mixture: it records *)
(* that there is one and ends (torn).                                      *)
(***************************************************************************)
EXTENDS VendorTable

CONSTANTS
    PartNum,      \* EMMC_VENDOR_PART_NUM
    Clients,      \* threads that write
    Unlocked,     \* the ones that call rk_vendor_write, without the mutex
    MaxFaults,    \* bound: transfers that fail and writes beside another one
    Null

\* There are four partitions in the code; a single one would be rewritten in
\* place.
ASSUME EmmcAssumption ==
    /\ PartNum \in Nat \ {0, 1}
    /\ Unlocked \subseteq Clients
    /\ MaxFaults \in Nat
    /\ Null \notin Clients

VARIABLES
    flash,        \* the partitions
    g_vendor,     \* the image in memory, or Null
    vendor_ops_mutex, \* the client that holds it, or Null
    pc,           \* where a client is: "idle", or the sector it writes next
    next_index,   \* the local variable next_index: the partition it writes
    stamp,        \* writes so far
    faults,       \* failed transfers and writes beside another one so far
    stored,       \* what a boot would let clients read (history)
    clean,        \* the write in progress is alone and without errors (history)
    suspect,      \* partitions not rewritten by a clean write since the last
                  \* one that was not (history)
    torn          \* g_vendor is a mixture of two images (history)

vars == <<flash, g_vendor, vendor_ops_mutex, pc, next_index, stamp, faults,
          stored, clean, suspect, torn>>

Parts == 0 .. (PartNum - 1)

\* The whole of struct vendor_info.
Images == [table : Tables, version : Nat, next_index : Parts, version2 : Nat]

ASSUME NullDiffers == Null \notin Images

Image(t, version, index) ==
    [table |-> t, version |-> version, next_index |-> index,
     version2 |-> version]

\* What a partition holds, by sector.  A blank partition has no tag and
\* version 0.
First(g) == [version |-> g.version, next_index |-> g.next_index,
             items |-> g.table.items, free_offset |-> g.table.free_offset,
             free_size |-> g.table.free_size]

Sectors(g) == [first |-> First(g), middle |-> g.table.data, last |-> g.version2]

Blank == Sectors(Image(EmptyTable, 0, 0))

Init ==
    /\ flash = [p \in Parts |-> Blank]
    /\ g_vendor = Null
    /\ vendor_ops_mutex = Null
    /\ pc = [c \in Clients |-> "idle"]
    /\ next_index = [c \in Clients |-> 0]
    /\ stamp = 0
    /\ faults = 0
    /\ stored = Contents(EmptyTable)
    /\ clean = TRUE
    /\ suspect = {}
    /\ torn = FALSE

-----------------------------------------------------------------------------
(* emmc_vendor_storage_init. *)

\* Altered form: the first sector alone is trusted.
has_tag(part) == part.first.version > 0

\* Whether a partition holds an image, and the image.
Accepted(part) == part.last = part.first.version /\ part.first.version > 0

ReadImage(part) ==
    [table |-> [items |-> part.first.items,
                free_offset |-> part.first.free_offset,
                free_size |-> part.first.free_size,
                data |-> part.middle],
     version |-> part.first.version,
     next_index |-> part.first.next_index,
     version2 |-> part.last]

\* The image that a boot takes: of the accepted partitions the first of the
\* newest.  A fresh image of version 1 is not written until the first write.
Found(fl) ==
    LET accepted == {p \in Parts : Accepted(fl[p])}
        newest == {p \in accepted : \A q \in accepted :
                      fl[q].first.version <= fl[p].first.version}
    IN  IF accepted = {} THEN Image(EmptyTable, 1, 0)
                         ELSE ReadImage(fl[Min(newest)])

\* The same when emmc_vendor_ops fails to read one sector of it: its result is
\* that of the last sector alone, and in place of the failed one stays what was
\* in memory, the first sector of the partition that was looked at last, or in
\* the middle what kmalloc returned.
Misread(fl, s) ==
    LET image == Found(fl)
        last == ReadImage(fl[PartNum - 1])
    IN  CASE s = "first" -> [last EXCEPT !.table.data = image.table.data,
                                         !.version2 = image.version2]
          [] s = "middle" -> [image EXCEPT !.table.data = EmptyTable.data]

\* A failed read while it looks for the newest partition, or of the last sector,
\* ends the boot without the device; it changes nothing.
emmc_vendor_storage_init ==
    /\ g_vendor = Null
    /\ \/ g_vendor' = Found(flash) /\ UNCHANGED faults
       \/ /\ \E p \in Parts : Accepted(flash[p])
          /\ faults < MaxFaults
          /\ faults' = faults + 1
          /\ \E s \in {"first", "middle"} : g_vendor' = Misread(flash, s)
    /\ torn' = (g_vendor' # Found(flash))
    /\ UNCHANGED <<flash, vendor_ops_mutex, pc, next_index, stamp, stored, clean,
                   suspect>>

-----------------------------------------------------------------------------
(* emmc_vendor_write. *)

\* Altered form: the growth is forgotten.
free_size_kept(v, w, growth) == v.free_size

\* free_size after an item has grown: the space that other items gave back
\* when they were moved is not counted.
GrownFreeSize(v, w, growth) == v.free_size - growth

\* The table after the n-th write.
NewTable(id, size, n) ==
    LET v == g_vendor.table
        w == VendorWrite(v, id, Buf(n, size), size)
    IN  IF Outgrown(v, id, size)
        THEN [w EXCEPT !.free_size = GrownFreeSize(v, w, Growth(v, id, size))]
        ELSE w

\* Altered form: the index does not wrap.
next_index_unbounded(t) == Image(t, g_vendor.version + 1, g_vendor.next_index + 1)

\* The new version of the whole image, and the partition after it.
NewImage(t) ==
    Image(t, g_vendor.version + 1,
          IF g_vendor.next_index + 1 >= PartNum THEN 0
                                                ELSE g_vendor.next_index + 1)

\* Client c can enter emmc_vendor_write: vendor_storage_ioctl takes the mutex
\* first, rk_vendor_write does not.
MayEnter(c) ==
    /\ g_vendor # Null
    /\ pc[c] = "idle"
    /\ c \in Unlocked \/ vendor_ops_mutex = Null

\* The write that no other thread disturbs while it updates g_vendor.
emmc_vendor_write(c, id, size) ==
    /\ MayEnter(c)
    /\ stamp < MaxWrites
    /\ Fits(g_vendor.table, id, size)
    /\ stamp' = stamp + 1
    /\ g_vendor' = NewImage(NewTable(id, size, stamp'))
    /\ next_index' = [next_index EXCEPT ![c] = g_vendor.next_index]
    /\ vendor_ops_mutex' = IF c \in Unlocked THEN vendor_ops_mutex ELSE c
    /\ pc' = [pc EXCEPT ![c] = "first"]
    /\ clean' = (\A d \in Clients : pc[d] = "idle")
    /\ suspect' = IF clean' THEN suspect ELSE Parts
    /\ faults' = IF clean' THEN faults ELSE faults + 1
    /\ faults' <= MaxFaults
    /\ UNCHANGED <<flash, stored, torn>>

\* An update from old to new that is not finished: each part is still the old or
\* already the new one, and next_index may have been counted up and not wrapped.
Unfinished(old, new) ==
    [table : [items : {old.table.items, new.table.items},
              free_offset : {old.table.free_offset, new.table.free_offset},
              free_size : {old.table.free_size, new.table.free_size},
              data : {old.table.data, new.table.data}],
     version : {old.version, new.version},
     next_index : {old.next_index, old.next_index + 1, new.next_index},
     version2 : {old.version2, new.version2}]

\* Client c is in the middle of its update while client d transfers a sector or
\* comes to update g_vendor too: one of them is a kernel caller, which nothing
\* keeps out.
Race(c, d, id, size) ==
    /\ c # d /\ {c, d} \cap Unlocked # {}
    /\ MayEnter(c)
    /\ MayEnter(d) \/ pc[d] \in {"first", "middle", "last"}
    /\ stamp < MaxWrites
    /\ faults < MaxFaults
    /\ Fits(g_vendor.table, id, size)
    /\ g_vendor' \in Unfinished(g_vendor, NewImage(NewTable(id, size, stamp + 1)))
    /\ torn' = TRUE
    /\ faults' = faults + 1
    /\ UNCHANGED <<flash, vendor_ops_mutex, pc, next_index, stamp, stored, clean,
                   suspect>>

NextSector(s) ==
    CASE s = "first" -> "middle" [] s = "middle" -> "last" [] s = "last" -> "done"

\* rk_emmc_transfer of the next sector, from g_vendor as it is now.
Transferred(c) ==
    [flash EXCEPT ![next_index[c]][pc[c]] = Sectors(g_vendor)[pc[c]]]

\* emmc_vendor_ops: one transfer of its loop.  A failed transfer leaves the
\* sector as it was; the loop goes on, and nobody looks at the result.
emmc_vendor_ops(c) ==
    /\ pc[c] \in {"first", "middle", "last"}
    /\ \/ /\ flash' = Transferred(c)
          /\ stored' = Contents(Found(Transferred(c)).table)
          /\ UNCHANGED faults
          /\ suspect' = IF pc[c] = "last" /\ clean
                        THEN suspect \ {next_index[c]} ELSE suspect
          /\ UNCHANGED clean
       \/ /\ faults < MaxFaults
          /\ faults' = faults + 1
          /\ clean' = FALSE
          /\ suspect' = Parts
          /\ UNCHANGED <<flash, stored>>
    /\ pc' = [pc EXCEPT ![c] = NextSector(pc[c])]
    /\ UNCHANGED <<g_vendor, vendor_ops_mutex, next_index, stamp, torn>>

\* emmc_vendor_write returns 0, and the ioctl drops the mutex.
WriteReturns(c) ==
    /\ pc[c] = "done"
    /\ pc' = [pc EXCEPT ![c] = "idle"]
    /\ vendor_ops_mutex' = IF c \in Unlocked THEN vendor_ops_mutex ELSE Null
    /\ UNCHANGED <<flash, g_vendor, next_index, stamp, faults, stored,
                   clean, suspect, torn>>

\* The power fails between two sectors.
PowerLoss ==
    /\ g_vendor # Null
    /\ g_vendor' = Null
    /\ vendor_ops_mutex' = Null
    /\ pc' = [c \in Clients |-> "idle"]
    /\ next_index' = [c \in Clients |-> 0]
    /\ UNCHANGED <<flash, stamp, faults, stored, clean, suspect, torn>>

Next ==
    /\ ~torn
    /\ \/ emmc_vendor_storage_init
       \/ \E c \in Clients, id \in Ids, size \in Sizes :
             emmc_vendor_write(c, id, size)
       \/ \E c, d \in Clients, id \in Ids, size \in Sizes : Race(c, d, id, size)
       \/ \E c \in Clients : emmc_vendor_ops(c) \/ WriteReturns(c)
       \/ PowerLoss

Spec == Init /\ [][Next]_vars

-----------------------------------------------------------------------------

\* Types, and the mutex is held by the one client that writes under it, while
\* g_vendor is whole.
TypeOK ==
    /\ torn \in BOOLEAN
    /\ ~torn =>
         /\ \A p \in Parts : flash[p].first.next_index \in Parts
         /\ g_vendor \in Images \cup {Null}
         /\ pc \in [Clients -> {"idle", "first", "middle", "last", "done"}]
         /\ next_index \in [Clients -> Parts]
         /\ clean \in BOOLEAN /\ suspect \subseteq Parts
         /\ \A c \in Clients \ Unlocked : pc[c] # "idle" => vendor_ops_mutex = c

\* While no two threads have met in g_vendor and no boot has misread its image,
\* the tables, the one in memory and the one that a boot would find, stay well
\* formed: moving items down, shrinking and growing them never lets two items
\* share bytes or run past the end of data (emmc_vendor_write).
TablesConsistent ==
    ~torn => /\ TableConsistent(Found(flash).table)
             /\ g_vendor # Null => TableConsistent(g_vendor.table)

\* What clients read; after a power loss, what the boot will let them read.
MemContents == IF g_vendor = Null THEN stored ELSE Contents(g_vendor.table)

DS == INSTANCE DurableStore WITH
        mem <- MemContents, store <- stored,
        busy <- {c \in Clients : pc[c] # "idle"}, excused <- suspect # {},
        void <- torn

\* The eMMC storage is a durable store: a write changes what is read of its own
\* item and of no other, power loss finds a whole image, and emmc_vendor_write
\* returns 0 only when its image is the one that the next boot takes.  A failed
\* transfer, or a kernel caller's write beside another one, excuses this until
\* every partition has been rewritten by a write that is alone and without an
\* error; two threads that meet in g_vendor, or a boot that misses a sector of
\* its image, void it.
EmmcIsDurable == DS!Spec

=============================================================================
