----------------------------- MODULE MtdVendor -----------------------------
(***************************************************************************)
(* The vendor storage on NAND,                                             *)
(* yangfan/kernel/src/driv/soc/mtd_vendor_storage.c.  Each write programs  *)
(* the image of g_vendor twice, into the next free slots of a ring of      *)
(* erase blocks; the boot looks for the newest block by its first slot and *)
(* then for the last good image in that block.                             *)
(*                                                                         *)
(* A slot is ops_size bytes, one or more pages.  It reads back as erased,  *)
(* as an image, or as neither: an ECC error, or a tag and versions that do *)
(* agree, which the code treats alike.                                     *)
(*                                                                         *)
(* vendor_storage_ioctl calls mtd_vendor_write under vendor_ops_mutex, so  *)
(* that one of its clients is inside at a time; a kernel caller of         *)
(* rk_vendor_write takes no mutex and may find another thread inside.      *)
(* Calls that follow one another are the same from either side.  That two  *)
(* threads meet in g_vendor and nand_info is a step of its own (Race); the *)
(* model does not follow what the code makes of the mixture: it records    *)
(* that there is one and ends (torn).                                      *)
(***************************************************************************)
EXTENDS VendorTable

CONSTANTS
    BlockNum,     \* erase blocks of the partition
    SlotNum,      \* slots of an erase block
    MaxBad,       \* how many blocks may be marked bad
    MaxFaults,    \* bound: programs and erases that fail, slots that rot, threads
                  \* that meet
    Null

\* With fewer than two blocks that can be erased there is nowhere to keep the
\* old image while the next block is erased.
ASSUME MtdAssumption ==
    /\ BlockNum \in Nat /\ SlotNum \in Nat \ {0}
    /\ MaxBad \in Nat /\ MaxBad + MaxFaults + 2 <= BlockNum
    /\ MaxFaults \in Nat

VARIABLES
    bad,          \* blocks for which mtd_block_isbad
    flash,        \* the slots of each block
    g_vendor,     \* the image in memory, or NULL
    blk_offset,   \* nand_info.blk_offset, in blocks,
    page_offset,  \* and nand_info.page_offset, in slots
    pc,           \* "off", "idle", or inside mtd_vendor_nand_write: "format"
                  \* when called by the boot, "write" by a client
    count,        \* its local variable count: copies written
    stamp,        \* writes so far
    faults,       \* faults so far
    stored,       \* what a boot would let clients read (history)
    suspect,      \* a slot was programmed twice, or in a block that no boot
                  \* takes, or the first slot of a block or the only copy in
                  \* the newest was lost, and no new block begun (history)
    torn          \* two threads have met in g_vendor and nand_info (history)

flashVars == <<flash, stored, suspect>>
nandVars == <<blk_offset, page_offset>>
memVars == <<bad, flashVars, nandVars, g_vendor, pc, count, stamp, faults>>
vars == <<memVars, torn>>

Blocks == 0 .. (BlockNum - 1)
Slots == 0 .. (SlotNum - 1)

Erased == [programmed |-> FALSE, image |-> Null]
Torn == [programmed |-> TRUE, image |-> Null]
Programmed(image) == [programmed |-> TRUE, image |-> image]
ErasedBlock == [s \in Slots |-> Erased]

\* The whole of struct vendor_info; its two versions are written together.
Images == [table : Tables, version : Nat]

ASSUME NullDiffers == Null \notin Images

Image(t, version) == [table |-> t, version |-> version]
FreshImage == Image(EmptyTable, 1)

-----------------------------------------------------------------------------
(* mtd_vendor_storage_init. *)

Good(slot) == slot.image # Null

\* The good blocks whose first slot holds an image, and of those the first of
\* the newest.
Candidates(fl) == {b \in Blocks \ bad : Good(fl[b][0])}

\* Altered form: the first, whatever its version.
first_block(fl) == Min(Candidates(fl))

NewestBlock(fl) ==
    LET cs == Candidates(fl)
    IN  Min({b \in cs : \A d \in cs :
                fl[d][0].image.version <= fl[b][0].image.version})

\* The last image of a block, searched from its end.
LastImage(block) == block[Max({s \in Slots : Good(block[s])})].image

\* The slot after the last one that is programmed.  The test
\* page_offset < offset is never true of slot 0.
NextFree(block) ==
    LET used == {s \in Slots : block[s].programmed /\ 0 < s}
    IN  IF used = {} THEN 0 ELSE Max(used) + 1

\* The image that a boot takes.
Found(fl) ==
    IF Candidates(fl) = {} THEN FreshImage ELSE LastImage(fl[NewestBlock(fl)])

\* The medium changes, and with it what a boot would find.
PutFlash(fl) ==
    \E f \in {fl} :
        /\ flash' = f
        /\ \E image \in {Found(f)} : stored' = Contents(image.table)

\* Where blk_offset ends up when there is no image: behind the bad blocks at
\* the beginning.
FirstGood == Min(Blocks \ bad)

Init ==
    /\ bad \in {S \in SUBSET Blocks : Cardinality(S) <= MaxBad}
    /\ flash = [b \in Blocks |-> ErasedBlock]
    /\ g_vendor = Null
    /\ blk_offset = 0 /\ page_offset = 0
    /\ pc = "off"
    /\ count = 0 /\ stamp = 0 /\ faults = 0
    /\ stored = Contents(EmptyTable)
    /\ suspect = FALSE
    /\ torn = FALSE

\* There is an image.
BootFound ==
    /\ pc = "off"
    /\ Candidates(flash) # {}
    /\ blk_offset' = NewestBlock(flash)
    /\ page_offset' = NextFree(flash[blk_offset'])
    /\ g_vendor' = LastImage(flash[blk_offset'])
    /\ pc' = "idle"
    /\ UNCHANGED <<bad, flashVars, count, stamp, faults>>

\* There is none: erase, and write a fresh one.  The address of each erase is
\* blk_offset + offset, so that bad blocks at the beginning shift the erases
\* past the first good block and past the end of the partition.
FormatErased == {b \in Blocks \ bad : b - FirstGood \in Blocks \ bad}

BootFormat ==
    /\ pc = "off"
    /\ Candidates(flash) = {}
    /\ g_vendor' = FreshImage
    /\ blk_offset' = FirstGood /\ page_offset' = 0
    /\ flash' = [b \in Blocks |-> IF b \in FormatErased THEN ErasedBlock ELSE flash[b]]
    /\ pc' = "format" /\ count' = 0
    /\ UNCHANGED <<bad, stored, suspect, stamp, faults>>

-----------------------------------------------------------------------------
(* mtd_vendor_write and mtd_vendor_nand_write. *)

\* Altered form: as the eMMC driver computes it.
grown_by(v, w, growth) == v.free_size - growth

\* free_size after an item has grown.
GrownFreeSize(v, w, growth) == DataSize - w.free_offset

\* The table after the n-th write.
NewTable(id, size, n) ==
    LET v == g_vendor.table
        w == VendorWrite(v, id, Buf(n, size), size)
    IN  IF Outgrown(v, id, size)
        THEN [w EXCEPT !.free_size = GrownFreeSize(v, w, Growth(v, id, size))]
        ELSE w

\* No other thread is inside.
mtd_vendor_write(id, size) ==
    /\ pc = "idle"
    /\ stamp < MaxWrites
    /\ Fits(g_vendor.table, id, size)
    /\ stamp' = stamp + 1
    /\ g_vendor' = Image(NewTable(id, size, stamp'), g_vendor.version + 1)
    /\ pc' = "write" /\ count' = 0
    /\ UNCHANGED <<bad, flashVars, nandVars, faults>>

\* An update from old to new that is not finished: each part is still the old or
\* already the new one.
Unfinished(old, new) ==
    [table : [items : {old.table.items, new.table.items},
              free_offset : {old.table.free_offset, new.table.free_offset},
              free_size : {old.table.free_size, new.table.free_size},
              data : {old.table.data, new.table.data}],
     version : {old.version, new.version}]

\* A thread is in the middle of its update, and another one is inside too or
\* comes in; one of them is a kernel caller.  In mtd_vendor_nand_write each may
\* have made its test of nand_info before the other's addition.
Race(id, size) ==
    /\ pc \in {"idle", "write"}
    /\ stamp < MaxWrites
    /\ faults < MaxFaults /\ faults' = faults + 1
    /\ Fits(g_vendor.table, id, size)
    /\ g_vendor' \in Unfinished(g_vendor,
                        Image(NewTable(id, size, stamp + 1), g_vendor.version + 1))
    /\ IF page_offset < SlotNum
       THEN /\ page_offset' \in page_offset .. (page_offset + 2)
            /\ UNCHANGED blk_offset
       ELSE /\ blk_offset' \in blk_offset .. (blk_offset + 2)
            /\ UNCHANGED page_offset
    /\ torn' = TRUE
    /\ UNCHANGED <<bad, flashVars, pc, count, stamp>>

NandWriting == pc \in {"format", "write"} /\ count < 2

\* Altered form: the ring does not wrap.
runs_past_end(b) == b + 1

NextBlock(b) == IF b + 1 >= BlockNum THEN 0 ELSE b + 1

\* The block is full: go to the next one and erase it, and to the one after it
\* when it is bad or the erase fails.
BlockFull == NandWriting /\ page_offset >= SlotNum

\* Altered form: the same block is tested again.
tests_bad_again ==
    /\ BlockFull /\ NextBlock(blk_offset) \in bad
    /\ UNCHANGED vars

SkipBad ==
    /\ BlockFull /\ NextBlock(blk_offset) \in bad
    /\ blk_offset' = NextBlock(blk_offset)
    /\ UNCHANGED <<bad, flashVars, page_offset, faults, g_vendor, pc, count, stamp>>

EraseNext ==
    /\ BlockFull /\ NextBlock(blk_offset) \notin bad
    /\ blk_offset' = NextBlock(blk_offset)
    /\ \/ /\ PutFlash([flash EXCEPT ![NextBlock(blk_offset)] = ErasedBlock])
          /\ page_offset' = 0
          /\ UNCHANGED faults
       \/ /\ faults < MaxFaults /\ faults' = faults + 1
          /\ UNCHANGED <<flash, stored, page_offset>>
    /\ UNCHANGED <<bad, suspect, g_vendor, pc, count, stamp>>

\* What the present slot holds after it is programmed: a second program only
\* clears more bits.
AfterProgram ==
    IF flash[blk_offset][page_offset].programmed THEN Torn ELSE Programmed(g_vendor)

WithSlot(slot) == [flash EXCEPT ![blk_offset][page_offset] = slot]

\* When the second copy begins a new block and the first began the one before,
\* both blocks begin with the same version and a boot takes the one in front.
NotTaken == Good(flash[blk_offset][0]) /\ NewestBlock(flash) # blk_offset

\* A new block begins with its first slot; losing that slot, or programming a
\* slot twice, endangers the images of the block, and in a block that is not
\* taken nobody will find them.
SuspectAfter(slot) ==
    IF page_offset = 0 THEN ~Good(slot)
    ELSE suspect \/ flash[blk_offset][page_offset].programmed \/ NotTaken

\* mtd_write of one copy, with its result: an error leaves the slot torn and is
\* tried again in the next slot.  A program of a used slot may report either.
ProgramStep ==
    /\ NandWriting
    /\ page_offset < SlotNum
    /\ \/ /\ PutFlash(WithSlot(AfterProgram))
          /\ count' = count + 1
          /\ suspect' = SuspectAfter(AfterProgram)
          /\ UNCHANGED faults
       \/ /\ IF flash[blk_offset][page_offset].programmed
             THEN UNCHANGED faults ELSE faults < MaxFaults /\ faults' = faults + 1
          /\ PutFlash(WithSlot(Torn))
          /\ suspect' = SuspectAfter(Torn)
          /\ UNCHANGED count
    /\ page_offset' = page_offset + 1
    /\ UNCHANGED <<bad, blk_offset, g_vendor, pc, stamp>>

\* Two copies are written: mtd_vendor_nand_write returns.
NandReturn ==
    /\ pc \in {"format", "write"} /\ count = 2
    /\ pc' = "idle" /\ count' = 0
    /\ UNCHANGED <<bad, flashVars, nandVars, g_vendor, stamp, faults>>

-----------------------------------------------------------------------------
(* What happens to the device. *)

\* The power fails between two operations, or in the middle of one: a slot that
\* is being programmed is torn, a block that is being erased holds no image.
LosePower(fl) ==
    /\ pc # "off"
    /\ pc' = "off" /\ count' = 0
    /\ g_vendor' = Null
    /\ blk_offset' = 0 /\ page_offset' = 0
    /\ PutFlash(fl)
    /\ UNCHANGED <<bad, stamp, faults>>

PowerLoss == LosePower(flash) /\ UNCHANGED suspect

PowerLossInProgram ==
    /\ NandWriting /\ page_offset < SlotNum
    /\ LosePower(WithSlot(Torn))
    /\ suspect' = (suspect \/ flash[blk_offset][page_offset].programmed)

PowerLossInErase ==
    /\ BlockFull /\ NextBlock(blk_offset) \notin bad
    /\ LosePower([flash EXCEPT ![NextBlock(blk_offset)] = [s \in Slots |-> Torn]])
    /\ UNCHANGED suspect

\* A block that begins with the newest version.
Leading(b) ==
    /\ b \in Candidates(flash)
    /\ \A c \in Candidates(flash) :
          flash[c][0].image.version <= flash[b][0].image.version

\* A slot can no longer be read.  The other copy of its image is still in its
\* block unless the power failed between the two.
OtherCopies(b, s) == {t \in Slots \ {s} : flash[b][t] = flash[b][s]}

Rot(b, s) ==
    /\ faults < MaxFaults /\ faults' = faults + 1
    /\ Good(flash[b][s])
    /\ PutFlash([flash EXCEPT ![b][s] = Torn])
    /\ suspect' = (suspect \/ s = 0 \/ (Leading(b) /\ OtherCopies(b, s) = {}))
    /\ UNCHANGED <<bad, nandVars, g_vendor, pc, count, stamp>>

\* A step of the thread inside mtd_vendor_nand_write.
NandStep == SkipBad \/ EraseNext \/ ProgramStep \/ NandReturn

\* What happens as long as no two threads meet.
Undisturbed ==
    \/ BootFound \/ BootFormat
    \/ \E id \in Ids, size \in Sizes : mtd_vendor_write(id, size)
    \/ NandStep
    \/ PowerLoss \/ PowerLossInProgram \/ PowerLossInErase
    \/ \E b \in Blocks, s \in Slots : Rot(b, s)

Next ==
    /\ ~torn
    /\ \/ Undisturbed /\ UNCHANGED torn
       \/ \E id \in Ids, size \in Sizes : Race(id, size)

\* The thread inside mtd_vendor_nand_write goes on as long as there is power.
Fairness == WF_vars(~torn /\ NandStep /\ UNCHANGED torn)

Spec == Init /\ [][Next]_vars /\ Fairness

-----------------------------------------------------------------------------

\* Types, and the ring's position stays inside the partition, while no two
\* threads have met in g_vendor and nand_info.
TypeOK ==
    /\ torn \in BOOLEAN
    /\ ~torn =>
         /\ blk_offset \in Blocks /\ page_offset \in 0 .. SlotNum
         /\ count \in 0 .. 2
         /\ pc \in {"off", "idle", "format", "write"}
         /\ g_vendor \in Images \cup {Null}
         /\ (pc = "off") = (g_vendor = Null)

\* While no two threads have met in g_vendor, the free space of the table is
\* exactly what the items leave (mtd_vendor_write).
TablesExact ==
    ~torn /\ g_vendor # Null =>
        /\ TableConsistent(g_vendor.table)
        /\ g_vendor.table.free_offset + g_vendor.table.free_size = DataSize

MemContents == IF g_vendor = Null THEN stored ELSE Contents(g_vendor.table)

DS == INSTANCE DurableStore WITH
        Clients <- {"client"}, mem <- MemContents, store <- stored,
        busy <- IF pc = "write" THEN {"client"} ELSE {}, excused <- suspect,
        void <- torn

\* The NAND storage is a durable store, whatever blocks are bad, over power
\* loss in the middle of a program or an erase, failed programs and erases and
\* the loss of either copy of an image (mtd_vendor_nand_write,
\* mtd_vendor_storage_init): from the first slot of a new block on, until a slot
\* is programmed twice or in a block that is not taken, or the first slot of a
\* block, or the only copy in the newest one, is lost; and until two threads
\* meet in g_vendor and nand_info.
MtdIsDurable == DS!Spec

\* mtd_vendor_nand_write finds two slots: it does not go round the bad blocks
\* for ever, while no other thread moves nand_info under it.
WriteEnds == (pc = "write") ~> (pc # "write" \/ torn)

\* The comment "write 2 copies for reliability" of mtd_vendor_nand_write: what a
\* client has been told is written is what the next boot finds, while no two
\* threads have met.
AcknowledgedIsStored == ~torn /\ pc = "idle" => stored = MemContents

=============================================================================
