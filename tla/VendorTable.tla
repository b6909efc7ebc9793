---------------------------- MODULE VendorTable ----------------------------
(***************************************************************************)
(* The item table of Rockchip's vendor storage: the part of struct         *)
(* vendor_info that sdmmc_vendor_storage.c, flash_vendor_storage.c and     *)
(* mtd_vendor_storage.c (yangfan/kernel/src/driv/soc) share.  Items are    *)
(* allocated one after the other in data, in units of Align bytes; an item *)
(* that outgrows its units is taken out, the items behind it are moved     *)
(* down, and it is put at the end.                                         *)
(***************************************************************************)
EXTENDS Integers, Sequences, SequencesExt

CONSTANTS
    Ids,          \* the ids that clients use
    Sizes,        \* the lengths that clients write
    MaxWrites,    \* bound: writes of one behaviour
    Align,        \* 0x40
    DataSize,     \* sizeof(g_vendor->data), no multiple of Align
    ItemNum       \* ARRAY_SIZE(g_vendor->item)

\* The code never compares item_num with the size of the table: it relies on
\* its clients to use no more ids than there are entries.
ASSUME VendorTableAssumption ==
    /\ Sizes \subseteq Nat
    /\ Align \in Nat \ {0} /\ DataSize \in Nat /\ ItemNum \in Nat
    /\ MaxWrites \in Nat
    /\ IsFiniteSet(Ids) /\ Cardinality(Ids) <= ItemNum

\* The contents of the buffer of the n-th write: every write's are different.
Buf(n, size) == [k \in 0 .. (size - 1) |-> <<n, k>>]

\* A table: its entries, and the bytes they point into.
Bytes == Nat \X Nat
Items == [id : Ids, offset : Nat, size : Nat]
Tables ==
    [items : Seq(Items), free_offset : Nat, free_size : Nat,
     data : [0 .. (DataSize - 1) -> Bytes]]

\* What a read can return: the length and the data, or -1.
Answer(buf, size) == [ret |-> size, data |-> buf]
NoItem == Answer(<<>>, -1)
Answers == {Answer(Buf(n, size), size) : n \in 1 .. MaxWrites, size \in Sizes}

\* ALIGN(size, 0x40).
ALIGN(size) == ((size + Align - 1) \div Align) * Align

\* memcpy of n bytes.  The areas overlap when an item is moved down by less
\* than its own length; the kernel's memcpy copies upwards, so the bytes arrive.
Memcpy(data, to, src, from, n) ==
    [k \in DOMAIN data |-> IF to <= k /\ k < to + n THEN src[from + k - to]
                                                    ELSE data[k]]

\* A cleared table, as the storage_init functions make when they find no image.
EmptyTable ==
    [items |-> <<>>, free_offset |-> 0, free_size |-> DataSize,
     data |-> [k \in 0 .. (DataSize - 1) |-> <<0, 0>>]]

\* The entries with an id; the loops stop at the first.
Entries(v, id) == {i \in DOMAIN v.items : v.items[i].id = id}
Entry(v, id) == Min(Entries(v, id))

\* vendor_read into a buffer that is large enough; -1 when there is no item.
VendorRead(v, id) ==
    IF Entries(v, id) = {} THEN NoItem
    ELSE LET item == v.items[Entry(v, id)]
         IN  Answer([k \in 0 .. (item.size - 1) |-> v.data[item.offset + k]],
                    item.size)

Contents(v) == [id \in Ids |-> VendorRead(v, id)]

\* Whether vendor_write finds the space, or returns -1 and changes nothing.
Fits(v, id, size) ==
    \/ v.free_size >= ALIGN(size)
    \/ Entries(v, id) # {} /\ size <= ALIGN(v.items[Entry(v, id)].size)

\* One round of the loop that moves item j + 1 down, over item j.
MoveDown(a, j) ==
    LET next == a.v.items[j + 1]
        next_size == ALIGN(next.size)
    IN  [offset |-> a.offset + next_size,
         v |-> [a.v EXCEPT
                  !.items[j] = [id |-> next.id, offset |-> a.offset,
                                size |-> next.size],
                  !.data = Memcpy(@, a.offset, @, next.offset, next_size)]]

\* After n rounds from item i on: the table, and where the next item goes.
Moved(v, i, n) ==
    LET a[k \in 0 .. n] ==
            IF k = 0 THEN [v |-> v, offset |-> v.items[i].offset]
                     ELSE MoveDown(a[k - 1], i + k - 1)
    IN  a[n]

\* Item i has outgrown its units: it is moved to the end.  The drivers differ in
\* how they compute free_size then, which is left to them.
Grow(v, i, id, buf, size) ==
    LET a == Moved(v, i, Len(v.items) - i)
    IN  [a.v EXCEPT
           !.items[Len(v.items)] = [id |-> id, offset |-> a.offset, size |-> size],
           !.data = Memcpy(@, a.offset, buf, 0, size),
           !.free_offset = a.offset + ALIGN(size)]

\* The item still fits where it is.
Overwrite(v, i, buf, size) ==
    [v EXCEPT !.data = Memcpy(@, v.items[i].offset, buf, 0, size),
              !.items[i].size = size]

\* A new item at the end.
AddItem(v, id, buf, size) ==
    [v EXCEPT
       !.items = Append(@, [id |-> id, offset |-> v.free_offset, size |-> size]),
       !.data = Memcpy(@, v.free_offset, buf, 0, size),
       !.free_offset = @ + ALIGN(size),
       !.free_size = @ - ALIGN(size)]

\* Whether an item has to be moved, and by how many bytes it grows.
Outgrown(v, id, size) ==
    Entries(v, id) # {} /\ size > ALIGN(v.items[Entry(v, id)].size)
Growth(v, id, size) == ALIGN(size) - ALIGN(v.items[Entry(v, id)].size)

\* vendor_write in memory, when it Fits, up to free_size after a move.
VendorWrite(v, id, buf, size) ==
    CASE Entries(v, id) = {} -> AddItem(v, id, buf, size)
      [] Outgrown(v, id, size) -> Grow(v, Entry(v, id), id, buf, size)
      [] OTHER -> Overwrite(v, Entry(v, id), buf, size)

\* The units of an item.
Area(item) == item.offset .. (item.offset + ALIGN(item.size) - 1)

\* The bookkeeping of a table adds up: the items' areas do not overlap and lie
\* in front of the free space, which ends inside data.
TableConsistent(v) ==
    /\ Len(v.items) <= ItemNum
    /\ \A i, j \in DOMAIN v.items :
          i # j => /\ v.items[i].id # v.items[j].id
                   /\ Area(v.items[i]) \cap Area(v.items[j]) = {}
    /\ \A i \in DOMAIN v.items :
          v.items[i].offset + ALIGN(v.items[i].size) <= v.free_offset
    /\ v.free_size >= 0
    /\ v.free_offset + v.free_size <= DataSize

=============================================================================
