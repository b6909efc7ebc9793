------------------------- MODULE EmmcVendor_proofs -------------------------
(***************************************************************************)
(* The eMMC storage keeps its tables well formed and is a durable store,   *)
(* for any number of partitions from two on, of clients and of ids, while  *)
(* no two threads meet in g_vendor and no boot misses a sector (torn).     *)
(***************************************************************************)
EXTENDS EmmcVendor, VendorTable_proofs

SectorNames == {"first", "middle", "last"}

FirstSectors == [version : Nat, next_index : Parts, items : Seq(Items),
                 free_offset : Nat, free_size : Nat]

Partitions == [first : FirstSectors, middle : [0 .. (DataSize - 1) -> Bytes],
               last : Nat]

\* The table of a partition is well formed, whatever images its sectors are
\* from, and its version is of one of the first n writes.
PartInv(part, n) ==
    /\ part \in Partitions
    /\ TableInv(ReadImage(part).table)
    /\ part.first.version <= n + 1

\* The same of a whole image, with versions that agree.
ImageInv(g, n) ==
    /\ g \in Images
    /\ TableInv(g.table)
    /\ g.version2 = g.version
    /\ 1 <= g.version /\ g.version <= n + 1

\* The partitions are numbered from 0, and there are two or more.
LEMMA PartFacts ==
    /\ PartNum \in Nat /\ 1 < PartNum
    /\ Parts \subseteq Nat /\ 0 \in Parts /\ 1 \in Parts /\ Parts # {}
  BY EmmcAssumption DEF Parts

\* What the parts of an image are, and that it is not Null.
LEMMA ImageFacts ==
    ASSUME NEW g \in Images
    PROVE  /\ g.table \in Tables /\ g.version \in Nat /\ g.next_index \in Parts
           /\ g.version2 \in Nat /\ g # Null
  BY NullDiffers DEF Images

\* What the sectors of an image are.
LEMMA SectorFacts ==
    ASSUME NEW g \in Images
    PROVE  /\ Sectors(g).first = First(g) /\ Sectors(g).middle = g.table.data
           /\ Sectors(g).last = g.version2
           /\ First(g) \in FirstSectors
           /\ g.table.data \in [0 .. (DataSize - 1) -> Bytes]
           /\ First(g).version = g.version /\ First(g).next_index = g.next_index
           /\ First(g).items = g.table.items
           /\ First(g).free_offset = g.table.free_offset
           /\ First(g).free_size = g.table.free_size
           /\ Sectors(g) \in Partitions
  <1>1. /\ g.table \in Tables /\ g.version \in Nat /\ g.next_index \in Parts
        /\ g.version2 \in Nat
    BY ImageFacts
  <1>2. /\ g.table.items \in Seq(Items) /\ g.table.free_offset \in Nat
        /\ g.table.free_size \in Nat /\ g.table.data \in [0 .. (DataSize - 1) -> Bytes]
    BY <1>1, TableFacts
  <1>3. First(g) \in FirstSectors
    BY <1>1, <1>2 DEF First, FirstSectors
  <1>4. Sectors(g) \in Partitions
    BY <1>1, <1>2, <1>3 DEF Sectors, Partitions
  <1> QED BY <1>2, <1>3, <1>4 DEF Sectors, First

\* What the parts of a partition are.
LEMMA PartitionFacts ==
    ASSUME NEW part \in Partitions
    PROVE  /\ part.first \in FirstSectors /\ part.last \in Nat
           /\ part.middle \in [0 .. (DataSize - 1) -> Bytes]
           /\ part.first.version \in Nat /\ part.first.next_index \in Parts
           /\ part.first.items \in Seq(Items)
           /\ part.first.free_offset \in Nat /\ part.first.free_size \in Nat
  <1>1. /\ part.first \in FirstSectors /\ part.last \in Nat
        /\ part.middle \in [0 .. (DataSize - 1) -> Bytes]
    BY DEF Partitions
  <1> QED BY <1>1 DEF FirstSectors

\* And the image that it is read as.
LEMMA ReadFacts ==
    ASSUME NEW part \in Partitions
    PROVE  /\ ReadImage(part) \in Images
           /\ ReadImage(part).table \in Tables
           /\ ReadImage(part).table.items = part.first.items
           /\ ReadImage(part).table.free_offset = part.first.free_offset
           /\ ReadImage(part).table.free_size = part.first.free_size
           /\ ReadImage(part).table.data = part.middle
           /\ ReadImage(part).version = part.first.version
           /\ ReadImage(part).next_index = part.first.next_index
           /\ ReadImage(part).version2 = part.last
  <1>1. ReadImage(part).table \in Tables
    BY PartitionFacts DEF ReadImage, Tables
  <1>2. ReadImage(part) \in Images
    BY <1>1, PartitionFacts DEF ReadImage, Images
  <1> QED BY <1>1, <1>2 DEF ReadImage

\* A table is well formed by its items and its free space, whatever its data.
SameItems(v, w) ==
    /\ w.items = v.items /\ w.free_offset = v.free_offset /\ w.free_size = v.free_size

\* Then the other table is well formed too.
LEMMA DataUnread ==
    ASSUME NEW v, NEW w \in Tables, TableInv(v), SameItems(v, w)
    PROVE  TableInv(w)
  BY DEF SameItems, TableInv, TableOrder

-----------------------------------------------------------------------------
(* Writing a sector. *)

\* One sector of a partition is overwritten with the one of an image.
Transfers(part, s, g, new) == new = [part EXCEPT ![s] = Sectors(g)[s]]

\* The sectors of the partition after it.
LEMMA TransferFields ==
    ASSUME NEW part \in Partitions, NEW g \in Images, NEW s \in SectorNames,
           NEW new, Transfers(part, s, g, new)
    PROVE  /\ new \in Partitions
           /\ new.first = IF s = "first" THEN First(g) ELSE part.first
           /\ new.middle = IF s = "middle" THEN g.table.data ELSE part.middle
           /\ new.last = IF s = "last" THEN g.version2 ELSE part.last
  <1>1. PICK f, m, k : /\ f = First(g) /\ m = g.table.data /\ k = g.version2
                       /\ Sectors(g).first = f /\ Sectors(g).middle = m
                       /\ Sectors(g).last = k
                       /\ f \in FirstSectors /\ m \in [0 .. (DataSize - 1) -> Bytes]
                       /\ k \in Nat
    BY SectorFacts, ImageFacts
  <1>2. CASE s = "first"
    <2>1. new = [part EXCEPT !.first = f]
      BY <1>1, <1>2 DEF Transfers
    <2> QED BY <1>1, <1>2, <2>1 DEF Partitions
  <1>3. CASE s = "middle"
    <2>1. new = [part EXCEPT !.middle = m]
      BY <1>1, <1>3 DEF Transfers
    <2> QED BY <1>1, <1>3, <2>1 DEF Partitions
  <1>4. CASE s = "last"
    <2>1. new = [part EXCEPT !.last = k]
      BY <1>1, <1>4 DEF Transfers
    <2> QED BY <1>1, <1>4, <2>1 DEF Partitions
  <1> QED BY <1>2, <1>3, <1>4 DEF SectorNames

\* The partition stays well formed.
LEMMA TransferKeeps ==
    ASSUME NEW n \in Nat, NEW part, PartInv(part, n), NEW g, ImageInv(g, n),
           NEW s \in SectorNames, NEW new, Transfers(part, s, g, new)
    PROVE  PartInv(new, n)
  <1>0. part \in Partitions /\ g \in Images
    BY DEF PartInv, ImageInv
  <1>1. /\ new \in Partitions
        /\ new.first = IF s = "first" THEN First(g) ELSE part.first
    BY <1>0, TransferFields
  <1>2. CASE s = "first"
    <2>1. new.first = First(g)
      BY <1>1, <1>2
    <2>2. SameItems(g.table, ReadImage(new).table)
      <3>1. /\ ReadImage(new).table.items = new.first.items
            /\ ReadImage(new).table.free_offset = new.first.free_offset
            /\ ReadImage(new).table.free_size = new.first.free_size
        BY <1>1, ReadFacts
      <3>2. /\ First(g).items = g.table.items
            /\ First(g).free_offset = g.table.free_offset
            /\ First(g).free_size = g.table.free_size
        BY <1>0, SectorFacts
      <3> QED BY <2>1, <3>1, <3>2 DEF SameItems
    <2>3. TableInv(ReadImage(new).table)
      BY <2>2, <1>1, ReadFacts, DataUnread DEF ImageInv
    <2>4. new.first.version <= n + 1
      BY <2>1, <1>0, SectorFacts DEF ImageInv
    <2> QED BY <2>3, <2>4, <1>1 DEF PartInv
  <1>3. CASE s # "first"
    <2>1. new.first = part.first
      BY <1>1, <1>3
    <2>2. SameItems(ReadImage(part).table, ReadImage(new).table)
      BY <2>1, <1>0, <1>1, ReadFacts DEF SameItems
    <2>3. TableInv(ReadImage(new).table)
      BY <2>2, <1>1, ReadFacts, DataUnread DEF PartInv
    <2> QED BY <2>1, <2>3, <1>1 DEF PartInv
  <1> QED BY <1>2, <1>3

-----------------------------------------------------------------------------
(* The image that a boot finds. *)

FlashInv(fl, n) ==
    /\ fl \in [Parts -> Partitions]
    /\ \A p \in Parts : PartInv(fl[p], n)

\* Partition p is the one that a boot takes.
IsNewest(fl, p) ==
    /\ p \in Parts /\ Accepted(fl[p])
    /\ \A q \in Parts : Accepted(fl[q]) =>
          /\ fl[q].first.version <= fl[p].first.version
          /\ fl[q].first.version = fl[p].first.version => p <= q

NoneAccepted(fl) == \A p \in Parts : ~Accepted(fl[p])

\* The fresh image.
LEMMA FreshImageInv ==
    ASSUME NEW n \in Nat
    PROVE  /\ ImageInv(Image(EmptyTable, 1, 0), n)
           /\ Image(EmptyTable, 1, 0).version = 1
  <1>1. EmptyTable \in Tables /\ TableInv(EmptyTable)
    BY EmptyTableInv DEF TableInv, TableOrder
  <1>2. PICK t : t = EmptyTable /\ t \in Tables /\ TableInv(t)
    BY <1>1
  <1>3. PICK g : g = Image(t, 1, 0)
    OBVIOUS
  <1>4. /\ g.table = t /\ g.version = 1 /\ g.version2 = 1 /\ g.next_index = 0
        /\ g \in Images
    BY <1>2, <1>3, PartFacts DEF Image, Images
  <1>5. ImageInv(g, n)
    BY <1>2, <1>4 DEF ImageInv
  <1> QED BY <1>2, <1>3, <1>4, <1>5

\* A boot takes the newest partition.
LEMMA NewestFound ==
    ASSUME NEW fl \in [Parts -> Partitions], NEW p, IsNewest(fl, p)
    PROVE  Found(fl) = ReadImage(fl[p])
  <1> DEFINE accepted == {q \in Parts : Accepted(fl[q])}
             newest == {a \in accepted : \A q \in accepted :
                           fl[q].first.version <= fl[a].first.version}
  <1>v. \A q \in Parts : fl[q].first.version \in Nat
    BY PartitionFacts
  <1>1. p \in accepted
    BY DEF IsNewest
  <1>2. p \in newest
    BY <1>1 DEF IsNewest
  <1>3. ASSUME NEW q \in newest PROVE p <= q
    <2>1. q \in Parts /\ p \in Parts /\ Accepted(fl[q])
      BY <1>1
    <2>2. fl[p].first.version <= fl[q].first.version
      BY <1>1, <1>3
    <2>3. fl[q].first.version <= fl[p].first.version
      BY <2>1 DEF IsNewest
    <2>4. fl[q].first.version = fl[p].first.version
      BY <2>1, <2>2, <2>3, <1>v
    <2> QED BY <2>1, <2>4 DEF IsNewest
  <1>4. newest \in SUBSET Nat /\ newest # {}
    BY <1>2, PartFacts
  <1>5. Min(newest) \in newest /\ \A q \in newest : Min(newest) <= q
    BY <1>4, MinIsLeast
  <1>6. Min(newest) = p
    <2>1. Min(newest) <= p /\ p <= Min(newest)
      BY <1>2, <1>3, <1>5
    <2>2. Min(newest) \in Nat /\ p \in Nat
      BY <1>2, <1>4, <1>5
    <2> QED BY <2>1, <2>2
  <1>7. Found(fl) = IF accepted = {} THEN Image(EmptyTable, 1, 0)
                    ELSE ReadImage(fl[Min(newest)])
    BY DEF Found
  <1> QED BY <1>1, <1>6, <1>7

\* A boot that accepts no partition makes a fresh image.
LEMMA NoneFound ==
    ASSUME NEW fl, NoneAccepted(fl)
    PROVE  Found(fl) = Image(EmptyTable, 1, 0)
  BY DEF NoneAccepted, Found

\* There is a newest partition when one is accepted: their versions are bounded.
LEMMA NewestExists ==
    ASSUME NEW n \in Nat, NEW fl, FlashInv(fl, n), ~NoneAccepted(fl)
    PROVE  \E p \in Parts : IsNewest(fl, p)
  <1> DEFINE accepted == {q \in Parts : Accepted(fl[q])}
             ver(q) == fl[q].first.version
             ages == {m \in Nat : \E q \in accepted : m = n + 1 - ver(q)}
  <1>v. \A q \in Parts : ver(q) \in Nat /\ ver(q) <= n + 1
    BY PartitionFacts DEF FlashInv, PartInv
  <1>1. PICK a \in Parts : a \in accepted
    BY DEF NoneAccepted
  <1>2. n + 1 - ver(a) \in ages
    BY <1>1, <1>v
  <1>3. Min(ages) \in ages /\ \A m \in ages : Min(ages) <= m
    BY <1>2, MinIsLeast
  <1>4. PICK b \in accepted : Min(ages) = n + 1 - ver(b)
    BY <1>3
  <1>5. ASSUME NEW q \in accepted PROVE ver(q) <= ver(b)
    <2>1. ver(q) \in Nat /\ ver(q) <= n + 1 /\ ver(b) \in Nat /\ ver(b) <= n + 1
      BY <1>v
    <2>2. n + 1 - ver(q) \in ages
      BY <2>1
    <2>3. n + 1 - ver(b) <= n + 1 - ver(q)
      BY <1>3, <1>4, <2>2
    <2> QED BY <2>1, <2>3
  <1> DEFINE ties == {q \in accepted : ver(q) = ver(b)}
  <1>6. ties \in SUBSET Nat /\ b \in ties
    BY PartFacts
  <1>7. Min(ties) \in ties /\ \A q \in ties : Min(ties) <= q
    BY <1>6, MinIsLeast
  <1>8. PICK p : p = Min(ties) /\ p \in ties /\ \A q \in ties : p <= q
    BY <1>7
  <1>9. IsNewest(fl, p)
    <2>1. p \in Parts /\ Accepted(fl[p]) /\ ver(p) = ver(b)
      BY <1>8
    <2>2. ASSUME NEW q \in Parts, Accepted(fl[q])
          PROVE  ver(q) <= ver(p) /\ (ver(q) = ver(p) => p <= q)
      BY <2>1, <2>2, <1>5, <1>8
    <2> QED BY <2>1, <2>2 DEF IsNewest
  <1> QED BY <1>8, <1>9

\* Two newest partitions are the same.
LEMMA NewestUnique ==
    ASSUME NEW fl \in [Parts -> Partitions], NEW p, NEW q,
           IsNewest(fl, p), IsNewest(fl, q)
    PROVE  p = q
  <1>1. p \in Nat /\ q \in Nat /\ fl[p].first.version \in Nat /\ fl[q].first.version \in Nat
    BY PartFacts, PartitionFacts DEF IsNewest
  <1>2. fl[p].first.version <= fl[q].first.version /\ fl[q].first.version <= fl[p].first.version
    BY DEF IsNewest
  <1>3. p <= q /\ q <= p
    BY <1>1, <1>2 DEF IsNewest
  <1> QED BY <1>1, <1>3

\* What a boot finds is well formed.
LEMMA FoundInv ==
    ASSUME NEW n \in Nat, NEW fl, FlashInv(fl, n)
    PROVE  ImageInv(Found(fl), n)
  <1>1. CASE NoneAccepted(fl)
    BY <1>1, NoneFound, FreshImageInv
  <1>2. CASE ~NoneAccepted(fl)
    <2>1. PICK p \in Parts : IsNewest(fl, p)
      BY <1>2, NewestExists
    <2>2. Found(fl) = ReadImage(fl[p])
      BY <2>1, NewestFound DEF FlashInv
    <2>3. /\ fl[p] \in Partitions /\ TableInv(ReadImage(fl[p]).table)
          /\ fl[p].first.version <= n + 1
      BY DEF FlashInv, PartInv
    <2>4. fl[p].last = fl[p].first.version /\ fl[p].first.version > 0
      BY <2>1 DEF IsNewest, Accepted
    <2>5. /\ ReadImage(fl[p]) \in Images
          /\ ReadImage(fl[p]).version = fl[p].first.version
          /\ ReadImage(fl[p]).version2 = fl[p].last
          /\ fl[p].first.version \in Nat
      BY <2>3, ReadFacts, PartitionFacts
    <2>6. ImageInv(ReadImage(fl[p]), n)
      <3>1. PICK x : x = fl[p].first.version
        OBVIOUS
      <3>2. x \in Nat /\ x > 0 /\ x <= n + 1
        BY <3>1, <2>3, <2>4, <2>5
      <3>3. 1 <= x
        BY <3>2
      <3>4. ReadImage(fl[p]).version = x /\ ReadImage(fl[p]).version2 = x
        BY <3>1, <2>4, <2>5
      <3> QED BY <3>2, <3>3, <3>4, <2>3, <2>5 DEF ImageInv
    <2> QED BY <2>2, <2>6
  <1> QED BY <1>1, <1>2

\* The blank partition is well formed, and not accepted.
LEMMA BlankInv ==
    ASSUME NEW n \in Nat
    PROVE  PartInv(Blank, n) /\ ~Accepted(Blank) /\ Blank.last = 0
  <1>1. PICK g : g = Image(EmptyTable, 0, 0)
    OBVIOUS
  <1>2. EmptyTable \in Tables /\ TableInv(EmptyTable)
    BY EmptyTableInv DEF TableInv, TableOrder
  <1>3. /\ g \in Images /\ g.table = EmptyTable /\ g.version = 0 /\ g.version2 = 0
    BY <1>1, <1>2, PartFacts DEF Image, Images
  <1>4. Blank = Sectors(g)
    BY <1>1 DEF Blank
  <1>5. /\ Blank \in Partitions /\ Blank.first = First(g) /\ Blank.last = 0
        /\ Blank.first.version = 0
    BY <1>3, <1>4, SectorFacts
  <1>6. SameItems(g.table, ReadImage(Blank).table)
    <2>1. /\ ReadImage(Blank).table.items = First(g).items
          /\ ReadImage(Blank).table.free_offset = First(g).free_offset
          /\ ReadImage(Blank).table.free_size = First(g).free_size
      BY <1>5, ReadFacts
    <2>2. /\ First(g).items = g.table.items
          /\ First(g).free_offset = g.table.free_offset
          /\ First(g).free_size = g.table.free_size
      BY <1>3, SectorFacts
    <2> QED BY <2>1, <2>2 DEF SameItems
  <1>7. TableInv(ReadImage(Blank).table)
    BY <1>2, <1>3, <1>5, <1>6, ReadFacts, DataUnread
  <1> QED BY <1>5, <1>7 DEF PartInv, Accepted

-----------------------------------------------------------------------------
(* A write in memory. *)

\* The partition after a given one.
Following(p) == IF p + 1 >= PartNum THEN 0 ELSE p + 1

\* It is another one.
LEMMA FollowingFacts ==
    ASSUME NEW p \in Parts
    PROVE  Following(p) \in Parts /\ Following(p) # p
  <1>1. p \in Nat /\ p <= PartNum - 1 /\ PartNum \in Nat /\ 1 < PartNum
    BY EmmcAssumption DEF Parts
  <1> QED BY <1>1 DEF Following, Parts

\* The buffer of a write holds bytes.
LEMMA BufBytes ==
    ASSUME NEW n \in Nat, NEW size \in Sizes
    PROVE  size \in Nat /\ Buf(n, size) \in [0 .. (size - 1) -> Bytes]
  BY VendorTableAssumption DEF Buf, Bytes

\* What the table keeps when the write grows an item: the space counted as free
\* is at most what is free.
LEMMA NewTableWrites ==
    ASSUME NEW n \in Nat, TableInv(g_vendor.table), NEW id \in Ids, NEW size \in Sizes,
           Fits(g_vendor.table, id, size), NEW t, t = NewTable(id, size, n)
    PROVE  TableInv(t) /\ Written(g_vendor.table, t, id, Buf(n, size), size)
  <1>1. PICK v : v = g_vendor.table
    OBVIOUS
  <1>2. PICK buf : buf = Buf(n, size) /\ buf \in [0 .. (size - 1) -> Bytes] /\ size \in Nat
    BY BufBytes
  <1>3. PICK w : w = VendorWrite(v, id, buf, size)
    OBVIOUS
  <1>4. TableInv(v) /\ Fits(v, id, size)
    BY <1>1
  <1>5. Writes(v, id, buf, size)
    BY <1>2, <1>4 DEF Writes
  <1>6. /\ TableOrder(w)
        /\ Written(v, w, id, buf, size)
        /\ Outgrown(v, id, size) = FALSE => TableInv(w)
        /\ Outgrown(v, id, size) =>
              /\ w.free_offset <= v.free_offset + Growth(v, id, size)
              /\ Growth(v, id, size) \in Nat /\ Growth(v, id, size) <= v.free_size
    BY <1>3, <1>4, <1>5, VendorWriteWrites
  <1>7. t = IF Outgrown(v, id, size)
            THEN [w EXCEPT !.free_size = GrownFreeSize(v, w, Growth(v, id, size))]
            ELSE w
    BY <1>1, <1>2, <1>3 DEF NewTable
  <1>8. Outgrown(v, id, size) \in BOOLEAN
    BY DEF Outgrown
  <1>9. CASE Outgrown(v, id, size) = FALSE
    BY <1>1, <1>2, <1>6, <1>7, <1>9
  <1>10. CASE Outgrown(v, id, size) = TRUE
    <2>1. PICK fs : fs = v.free_size - Growth(v, id, size)
      OBVIOUS
    <2>2. PICK gr : gr = Growth(v, id, size) /\ gr \in Nat /\ gr <= v.free_size
                    /\ w.free_offset <= v.free_offset + gr
      BY <1>6, <1>10
    <2>3. /\ v.free_size \in Nat /\ v.free_offset \in Nat
          /\ v.free_offset + v.free_size <= DataSize /\ w.free_offset \in Nat
          /\ DataSize \in Nat
      BY <1>4, <1>6, TableFacts DEF TableInv, TableOrder
    <2>4. PICK vo, vs, wo : /\ vo = v.free_offset /\ vs = v.free_size /\ wo = w.free_offset
                            /\ vo \in Nat /\ vs \in Nat /\ wo \in Nat
      BY <2>3
    <2>5. /\ fs = vs - gr /\ gr <= vs /\ wo <= vo + gr /\ vo + vs <= DataSize
      BY <2>1, <2>2, <2>3, <2>4
    <2>6. fs \in Nat /\ wo + fs <= DataSize
      BY <2>2, <2>3, <2>4, <2>5
    <2>7. t = [w EXCEPT !.free_size = fs]
      BY <1>7, <1>10, <2>1 DEF GrownFreeSize
    <2>8. /\ TableOrder(t) /\ t.free_size = fs /\ t.free_offset = w.free_offset
          /\ SameContents(w, t)
      BY <1>6, <2>6, <2>7, FreeSizeUnread
    <2>9. TableInv(t)
      BY <2>4, <2>6, <2>8 DEF TableInv
    <2>10. ASSUME NEW x \in Ids
           PROVE  VendorRead(t, x) = IF x = id THEN Answer(buf, size) ELSE VendorRead(v, x)
      <3>1. VendorRead(t, x) = VendorRead(w, x)
        BY <2>8, SameContentsRead
      <3> QED BY <3>1, <1>6 DEF Written
    <2> QED BY <1>1, <1>2, <2>9, <2>10 DEF Written
  <1> QED BY <1>8, <1>9, <1>10

\* And of the whole image.
LEMMA NewImageWrites ==
    ASSUME NEW n \in Nat, ImageInv(g_vendor, n), NEW id \in Ids, NEW size \in Sizes,
           Fits(g_vendor.table, id, size), NEW g,
           g = NewImage(NewTable(id, size, n + 1))
    PROVE  /\ ImageInv(g, n + 1)
           /\ g.version = g_vendor.version + 1
           /\ g.next_index = Following(g_vendor.next_index)
           /\ Written(g_vendor.table, g.table, id, Buf(n + 1, size), size)
  <1>1. PICK t : t = NewTable(id, size, n + 1)
    OBVIOUS
  <1>2. TableInv(t) /\ Written(g_vendor.table, t, id, Buf(n + 1, size), size)
    <2>1. n + 1 \in Nat /\ TableInv(g_vendor.table)
      BY DEF ImageInv
    <2> QED BY <1>1, <2>1, NewTableWrites
  <1>3. /\ g_vendor \in Images /\ g_vendor.version \in Nat /\ g_vendor.next_index \in Parts
        /\ 1 <= g_vendor.version /\ g_vendor.version <= n + 1
    BY ImageFacts DEF ImageInv
  <1>4. g = Image(t, g_vendor.version + 1, Following(g_vendor.next_index))
    BY <1>1 DEF NewImage, Following
  <1>5. PICK ver, ix : /\ ver = g_vendor.version + 1 /\ ix = Following(g_vendor.next_index)
                       /\ ver \in Nat /\ 1 <= ver /\ ver <= n + 1 + 1 /\ ix \in Parts
    BY <1>3, FollowingFacts
  <1>6. t \in Tables
    BY <1>2 DEF TableInv, TableOrder
  <1>7. g = [table |-> t, version |-> ver, next_index |-> ix, version2 |-> ver]
    BY <1>4, <1>5 DEF Image
  <1>8. /\ g \in Images /\ g.table = t /\ g.version = ver /\ g.next_index = ix
        /\ g.version2 = ver
    BY <1>5, <1>6, <1>7 DEF Images
  <1>9. ImageInv(g, n + 1)
    BY <1>2, <1>5, <1>8 DEF ImageInv
  <1> QED BY <1>2, <1>5, <1>8, <1>9

-----------------------------------------------------------------------------
(* Types, and tables that stay well formed. *)

TypeInv ==
    /\ stamp \in Nat
    /\ FlashInv(flash, stamp)
    /\ g_vendor # Null => ImageInv(g_vendor, stamp)
    /\ g_vendor = Null => \A c \in Clients : pc[c] = "idle"
    /\ pc \in [Clients -> {"idle", "first", "middle", "last", "done"}]
    /\ next_index \in [Clients -> Parts]
    /\ clean \in BOOLEAN /\ suspect \subseteq Parts
    /\ \A c \in Clients \ Unlocked : pc[c] # "idle" => vendor_ops_mutex = c

\* The bound on the versions only grows.
LEMMA LaterFlash ==
    ASSUME NEW n \in Nat, NEW fl, FlashInv(fl, n)
    PROVE  FlashInv(fl, n + 1)
  <1>1. ASSUME NEW p \in Parts PROVE fl[p].first.version <= n + 1 + 1
    <2>1. fl[p].first.version \in Nat /\ fl[p].first.version <= n + 1
      BY PartitionFacts DEF FlashInv, PartInv
    <2> QED BY <2>1
  <1> QED BY <1>1 DEF FlashInv, PartInv

\* A transfer, seen from the flash: its partition alone changes, in the sector
\* that the client is at.
LEMMA TransferredFields ==
    ASSUME TypeInv, NEW c \in Clients, pc[c] \in SectorNames,
           NEW fl, fl = Transferred(c)
    PROVE  /\ g_vendor # Null /\ ImageInv(g_vendor, stamp)
           /\ fl \in [Parts -> Partitions]
           /\ FlashInv(fl, stamp)
           /\ \A q \in Parts : q # next_index[c] => fl[q] = flash[q]
           /\ Transfers(flash[next_index[c]], pc[c], g_vendor, fl[next_index[c]])
  <1>1. g_vendor # Null /\ ImageInv(g_vendor, stamp)
    BY DEF TypeInv, SectorNames
  <1>2. PICK p, s, old : p = next_index[c] /\ s = pc[c] /\ old = flash[p]
    OBVIOUS
  <1>3. p \in Parts /\ s \in SectorNames /\ flash \in [Parts -> Partitions] /\ stamp \in Nat
    BY <1>2 DEF TypeInv, FlashInv
  <1>4. PICK new : new = [old EXCEPT ![s] = Sectors(g_vendor)[s]]
    OBVIOUS
  <1>5. fl = [flash EXCEPT ![p] = new]
    BY <1>2, <1>4 DEF Transferred
  <1>6. Transfers(old, s, g_vendor, new)
    BY <1>4 DEF Transfers
  <1>7. PartInv(old, stamp)
    BY <1>2, <1>3 DEF TypeInv, FlashInv
  <1>8. PartInv(new, stamp)
    BY <1>1, <1>3, <1>6, <1>7, TransferKeeps
  <1>9. new \in Partitions
    BY <1>8 DEF PartInv
  <1>10. /\ fl \in [Parts -> Partitions] /\ fl[p] = new
         /\ \A q \in Parts : q # p => fl[q] = flash[q]
    BY <1>3, <1>5, <1>9
  <1>11. ASSUME NEW q \in Parts PROVE PartInv(fl[q], stamp)
    <2>1. CASE q = p
      BY <1>8, <1>10, <2>1
    <2>2. CASE q # p
      BY <1>10, <2>2 DEF TypeInv, FlashInv
    <2> QED BY <2>1, <2>2
  <1> QED BY <1>1, <1>2, <1>6, <1>10, <1>11 DEF FlashInv

\* The initial states.
LEMMA InitTypeInv == Init => TypeInv
  <1> SUFFICES ASSUME Init PROVE TypeInv
    OBVIOUS
  <1>1. stamp = 0 /\ stamp \in Nat
    BY DEF Init
  <1>2. PartInv(Blank, 0) /\ Blank \in Partitions
    BY BlankInv DEF PartInv
  <1>3. FlashInv(flash, stamp)
    <2>1. flash = [p \in Parts |-> Blank]
      BY DEF Init
    <2> QED BY <1>1, <1>2, <2>1 DEF FlashInv
  <1>4. g_vendor = Null /\ pc = [c \in Clients |-> "idle"]
        /\ next_index = [c \in Clients |-> 0] /\ clean = TRUE /\ suspect = {}
    BY DEF Init
  <1> QED BY <1>1, <1>3, <1>4, PartFacts DEF TypeInv

\* A boot that has read all of the image.
LEMMA WholeBoot ==
    ASSUME emmc_vendor_storage_init, ~torn'
    PROVE  g_vendor' = Found(flash)
  <1>1. torn' = (g_vendor' # Found(flash))
    BY DEF emmc_vendor_storage_init
  <1> QED BY <1>1

\* What it changes.
LEMMA BootTypeInv ==
    ASSUME TypeInv, emmc_vendor_storage_init, ~torn'
    PROVE  TypeInv'
  <1>1. ImageInv(Found(flash), stamp)
    BY FoundInv DEF TypeInv
  <1>2. /\ g_vendor' = Found(flash)
        /\ UNCHANGED <<flash, pc, next_index, stamp, clean, suspect, vendor_ops_mutex>>
    BY WholeBoot DEF emmc_vendor_storage_init
  <1>3. \A c \in Clients : pc[c] = "idle"
    BY DEF TypeInv, emmc_vendor_storage_init
  <1> QED BY <1>1, <1>2, <1>3 DEF TypeInv

\* A write.
LEMMA WriteTypeInv ==
    ASSUME TypeInv, NEW c \in Clients, NEW id \in Ids, NEW size \in Sizes,
           emmc_vendor_write(c, id, size)
    PROVE  TypeInv'
  <1>1. ImageInv(g_vendor, stamp) /\ stamp \in Nat /\ Fits(g_vendor.table, id, size)
    BY DEF TypeInv, emmc_vendor_write, MayEnter
  <1>2. /\ stamp' = stamp + 1
        /\ g_vendor' = NewImage(NewTable(id, size, stamp + 1))
        /\ next_index' = [next_index EXCEPT ![c] = g_vendor.next_index]
        /\ vendor_ops_mutex' = IF c \in Unlocked THEN vendor_ops_mutex ELSE c
        /\ pc' = [pc EXCEPT ![c] = "first"]
        /\ clean' = (\A d \in Clients : pc[d] = "idle")
        /\ suspect' = IF clean' THEN suspect ELSE Parts
        /\ flash' = flash
        /\ c \in Unlocked \/ vendor_ops_mutex = Null
    BY DEF emmc_vendor_write, MayEnter
  <1>3. ImageInv(g_vendor', stamp')
    BY <1>1, <1>2, NewImageWrites
  <1>4. FlashInv(flash', stamp') /\ stamp' \in Nat
    BY <1>1, <1>2, LaterFlash DEF TypeInv
  <1>5. g_vendor' # Null
    BY <1>3, ImageFacts DEF ImageInv
  <1>6. pc' \in [Clients -> {"idle", "first", "middle", "last", "done"}]
    BY <1>2 DEF TypeInv
  <1>7. next_index' \in [Clients -> Parts]
    <2>1. g_vendor.next_index \in Parts
      BY <1>1, ImageFacts DEF ImageInv
    <2> QED BY <1>2, <2>1 DEF TypeInv
  <1>8. clean' \in BOOLEAN /\ suspect' \subseteq Parts
    BY <1>2 DEF TypeInv
  <1>9. ASSUME NEW d \in Clients \ Unlocked, pc'[d] # "idle" PROVE vendor_ops_mutex' = d
    <2>1. CASE d = c
      BY <1>2, <2>1
    <2>2. CASE d # c
      <3>1. pc[d] # "idle"
        BY <1>2, <1>9, <2>2 DEF TypeInv
      <3>2. vendor_ops_mutex = d /\ d # Null
        BY <3>1, EmmcAssumption DEF TypeInv
      <3> QED BY <1>2, <3>2
    <2> QED BY <2>1, <2>2
  <1> QED BY <1>3, <1>4, <1>5, <1>6, <1>7, <1>8, <1>9 DEF TypeInv

\* A transfer.
LEMMA TransferTypeInv ==
    ASSUME TypeInv, NEW c \in Clients, emmc_vendor_ops(c)
    PROVE  TypeInv'
  <1>1. pc[c] \in SectorNames
    BY DEF emmc_vendor_ops, SectorNames
  <1>2. /\ pc' = [pc EXCEPT ![c] = NextSector(pc[c])]
        /\ UNCHANGED <<g_vendor, vendor_ops_mutex, next_index, stamp>>
    BY DEF emmc_vendor_ops
  <1>3. NextSector(pc[c]) \in {"middle", "last", "done"}
    BY <1>1 DEF NextSector, SectorNames
  <1>4. FlashInv(flash', stamp')
    <2>1. CASE flash' = Transferred(c)
      BY <1>1, <1>2, <2>1, TransferredFields
    <2>2. CASE flash' = flash
      BY <1>2, <2>2 DEF TypeInv
    <2> QED BY <2>1, <2>2 DEF emmc_vendor_ops
  <1>5. clean' \in BOOLEAN /\ suspect' \subseteq Parts
    BY DEF emmc_vendor_ops, TypeInv
  <1>6. g_vendor # Null
    BY <1>1 DEF TypeInv, SectorNames
  <1>7. /\ pc' \in [Clients -> {"idle", "first", "middle", "last", "done"}]
        /\ \A d \in Clients : pc'[d] # "idle" => pc[d] # "idle"
    BY <1>1, <1>2, <1>3 DEF TypeInv, SectorNames
  <1> QED BY <1>2, <1>4, <1>5, <1>6, <1>7 DEF TypeInv

\* The end of a write.
LEMMA ReturnTypeInv ==
    ASSUME TypeInv, NEW c \in Clients, WriteReturns(c)
    PROVE  TypeInv'
  <1>1. /\ pc[c] = "done" /\ pc' = [pc EXCEPT ![c] = "idle"]
        /\ vendor_ops_mutex' = IF c \in Unlocked THEN vendor_ops_mutex ELSE Null
        /\ UNCHANGED <<flash, g_vendor, next_index, stamp, clean, suspect>>
    BY DEF WriteReturns
  <1>2. /\ pc' \in [Clients -> {"idle", "first", "middle", "last", "done"}]
        /\ \A d \in Clients : pc'[d] # "idle" => d # c /\ pc[d] # "idle"
    BY <1>1 DEF TypeInv
  <1>3. ASSUME NEW d \in Clients \ Unlocked, pc'[d] # "idle" PROVE vendor_ops_mutex' = d
    <2>1. d # c /\ vendor_ops_mutex = d
      BY <1>2, <1>3 DEF TypeInv
    <2>2. c \in Unlocked
      BY <1>1, <2>1 DEF TypeInv
    <2> QED BY <1>1, <2>1, <2>2
  <1>4. g_vendor # Null
    BY <1>1 DEF TypeInv
  <1> QED BY <1>1, <1>2, <1>3, <1>4 DEF TypeInv

\* A loss of power.
LEMMA PowerLossTypeInv ==
    ASSUME TypeInv, PowerLoss
    PROVE  TypeInv'
  <1>1. /\ g_vendor' = Null /\ pc' = [c \in Clients |-> "idle"]
        /\ next_index' = [c \in Clients |-> 0]
        /\ UNCHANGED <<flash, stamp, clean, suspect>>
    BY DEF PowerLoss
  <1> QED BY <1>1, PartFacts DEF TypeInv

\* Every step, unless it tears g_vendor.
LEMMA StepTypeInv == TypeInv /\ [Next]_vars => TypeInv' \/ torn'
  <1> SUFFICES ASSUME TypeInv, [Next]_vars, ~torn' PROVE TypeInv'
    OBVIOUS
  <1>1. CASE emmc_vendor_storage_init
    BY <1>1, BootTypeInv
  <1>2. CASE \E c \in Clients, id \in Ids, size \in Sizes : emmc_vendor_write(c, id, size)
    BY <1>2, WriteTypeInv
  <1>3. CASE \E c \in Clients : emmc_vendor_ops(c) \/ WriteReturns(c)
    BY <1>3, TransferTypeInv, ReturnTypeInv
  <1>4. CASE PowerLoss
    BY <1>4, PowerLossTypeInv
  <1>5. CASE UNCHANGED vars
    BY <1>5 DEF vars, TypeInv
  <1>6. ASSUME NEW c \in Clients, NEW d \in Clients, NEW id \in Ids, NEW size \in Sizes,
               Race(c, d, id, size)
        PROVE  FALSE
    BY <1>6 DEF Race
  <1> QED BY <1>1, <1>2, <1>3, <1>4, <1>5, <1>6 DEF Next

\* Once torn, g_vendor stays so: the model ends.
LEMMA StepTorn == torn /\ [Next]_vars => torn'
  BY DEF Next, vars

\* torn is a flag.
LEMMA TornFlag == Spec => [](torn \in BOOLEAN)
  <1>1. Init => torn \in BOOLEAN
    <2>1. Init => torn = FALSE
      BY DEF Init
    <2>2. torn = FALSE => torn \in BOOLEAN
      BY Zenon
    <2> QED BY <2>1, <2>2
  <1>2. torn \in BOOLEAN /\ [Next]_vars => (torn \in BOOLEAN)'
    <2> SUFFICES ASSUME torn \in BOOLEAN, [Next]_vars PROVE torn' \in BOOLEAN
      OBVIOUS
    <2>1. \/ torn' = torn \/ torn' = TRUE \/ torn' = (g_vendor' # Found(flash))
      BY Zenon DEF Next, vars, emmc_vendor_storage_init, emmc_vendor_write, Race,
                   emmc_vendor_ops, WriteReturns, PowerLoss
    <2> QED BY <2>1, Zenon
  <1> QED BY <1>1, <1>2, PTL DEF Spec

\* So types and tables are right in every reachable state.
LEMMA AlwaysTypeInv == Spec => [](torn \/ TypeInv)
  <1> QED BY InitTypeInv, StepTypeInv, StepTorn, PTL DEF Spec

\* While g_vendor is not torn, it is a whole image, its next_index and those that
\* the clients hold (emmc_vendor_write) are partitions, and vendor_ops_mutex is
\* with the one client that writes under it.
THEOREM TypeCorrect == Spec => []TypeOK
  <1>1. torn \in BOOLEAN /\ (torn \/ TypeInv) => TypeOK
    <2> SUFFICES ASSUME torn \in BOOLEAN, ~torn => TypeInv PROVE TypeOK
      OBVIOUS
    <2>1. ~torn => \A p \in Parts : flash[p].first.next_index \in Parts
      BY PartitionFacts DEF TypeInv, FlashInv, PartInv
    <2>2. ~torn => g_vendor \in Images \cup {Null}
      BY DEF TypeInv, ImageInv
    <2> QED BY <2>1, <2>2 DEF TypeInv, TypeOK
  <1> QED BY <1>1, AlwaysTypeInv, TornFlag, PTL

\* While no two threads have met in g_vendor and no boot has misread its image,
\* the tables, the one in memory and the one that a boot would find, are well
\* formed, also when sectors of several images are mixed on the eMMC by failed
\* transfers and by updates between the transfers of another write
\* (emmc_vendor_write, emmc_vendor_ops): the items and the free space are all in
\* the first sector.
THEOREM TablesStayConsistent == Spec => []TablesConsistent
  <1>1. torn \/ TypeInv => TablesConsistent
    <2> SUFFICES ASSUME TypeInv, ~torn PROVE TablesConsistent
      BY DEF TablesConsistent
    <2>1. ImageInv(Found(flash), stamp)
      BY FoundInv DEF TypeInv
    <2>2. TableConsistent(Found(flash).table)
      BY <2>1, TableInvConsistent DEF ImageInv
    <2>3. g_vendor # Null => TableConsistent(g_vendor.table)
      BY TableInvConsistent DEF TypeInv, ImageInv
    <2> QED BY <2>2, <2>3 DEF TablesConsistent
  <1> QED BY <1>1, AlwaysTypeInv, PTL

-----------------------------------------------------------------------------
(* The durable store. *)

Writing(c) == pc[c] \in SectorNames
Quiet == \A c \in Clients : ~Writing(c)

\* No accepted partition is newer than the image in memory.
NoneNewer ==
    \A p \in Parts : Accepted(flash[p]) => flash[p].first.version <= g_vendor.version

\* How far a client has come that writes alone, and without an error so far.
CleanWrite(c) ==
    LET t == next_index[c]
    IN  /\ g_vendor.next_index = Following(t)
        /\ \A q \in Parts :
              Accepted(flash[q]) /\ (pc[c] = "first" \/ q # t) =>
                 flash[q].first.version < g_vendor.version
        /\ pc[c] \in {"middle", "last"} => flash[t].first = First(g_vendor)
        /\ pc[c] = "last" => flash[t].middle = g_vendor.table.data

\* What a boot would find while a client writes: the image before the one that
\* is written, which is not in the partition that is overwritten; or, from the
\* first sector on, that partition, when its last sector was left behind by a
\* write that failed.
Behind(c) ==
    \/ /\ Found(flash).version + 1 = g_vendor.version
       /\ pc[c] = "first" => Found(flash).next_index = next_index[c]
    \/ /\ pc[c] # "first"
       /\ Found(flash).version = g_vendor.version
       /\ next_index[c] \in suspect

\* Since some write was alone and without an error: a partition that has been
\* rewritten ends in no later version than the newest image has, whose successor
\* goes to another partition.
Repaired ==
    /\ \A p \in Parts \ suspect : flash[p].last <= Found(flash).version
    /\ \A q \in Parts : IsNewest(flash, q) => flash[q].first.next_index # q
    /\ g_vendor # Null /\ Quiet => Found(flash) = g_vendor
    /\ \A c \in Clients : Writing(c) => Behind(c)

Alone == \A c, d \in Clients : pc[c] # "idle" /\ pc[d] # "idle" => c = d

DurableInv ==
    /\ stored = Contents(Found(flash).table)
    /\ clean = FALSE => suspect = Parts
    /\ clean = TRUE => Alone
    /\ g_vendor # Null => NoneNewer
    /\ clean = TRUE => \A c \in Clients : Writing(c) => CleanWrite(c)
    /\ suspect # Parts => Repaired

\* An image that has been written whole is read as it was.
LEMMA ReadBack ==
    ASSUME NEW part \in Partitions, NEW g \in Images, part.first = First(g),
           part.middle = g.table.data, part.last = g.version2
    PROVE  ReadImage(part) = g
  <1>1. PICK r : r = ReadImage(part)
    OBVIOUS
  <1>2. PICK t, u : t = r.table /\ u = g.table
    OBVIOUS
  <1>3. /\ r \in Images /\ t \in Tables /\ t.items = part.first.items
        /\ t.free_offset = part.first.free_offset
        /\ t.free_size = part.first.free_size /\ t.data = part.middle
        /\ r.version = part.first.version /\ r.next_index = part.first.next_index
        /\ r.version2 = part.last
    BY <1>1, <1>2, ReadFacts
  <1>4. /\ First(g).items = u.items /\ First(g).free_offset = u.free_offset
        /\ First(g).free_size = u.free_size /\ First(g).version = g.version
        /\ First(g).next_index = g.next_index /\ u \in Tables
    BY <1>2, SectorFacts, ImageFacts
  <1>5. /\ t.items = u.items /\ t.free_offset = u.free_offset
        /\ t.free_size = u.free_size /\ t.data = u.data
    BY <1>2, <1>3, <1>4
  <1>6. t = u
    BY <1>3, <1>4, <1>5 DEF Tables
  <1>7. r.table = g.table /\ r.version = g.version /\ r.next_index = g.next_index
        /\ r.version2 = g.version2
    BY <1>2, <1>3, <1>4, <1>6
  <1>8. r = g
    BY <1>3, <1>7 DEF Images
  <1> QED BY <1>1, <1>8

\* What is true of every transfer: no accepted partition is newer than the image
\* in memory.
LEMMA TransferNoneNewer ==
    ASSUME TypeInv, NoneNewer, NEW c \in Clients, pc[c] \in SectorNames,
           NEW fl, fl = Transferred(c), NEW p \in Parts, Accepted(fl[p])
    PROVE  fl[p].first.version <= g_vendor.version
  <1>1. PICK t, s : t = next_index[c] /\ s = pc[c]
    OBVIOUS
  <1>2. /\ g_vendor \in Images /\ g_vendor.version2 = g_vendor.version
        /\ fl \in [Parts -> Partitions] /\ flash \in [Parts -> Partitions]
        /\ \A q \in Parts : q # t => fl[q] = flash[q]
        /\ Transfers(flash[t], s, g_vendor, fl[t])
        /\ t \in Parts /\ s \in SectorNames
    BY <1>1, TransferredFields DEF ImageInv, TypeInv, FlashInv
  <1>3. g_vendor.version \in Nat /\ First(g_vendor).version = g_vendor.version
    BY <1>2, ImageFacts, SectorFacts
  <1>4. CASE p # t
    BY <1>2, <1>4 DEF NoneNewer
  <1>5. CASE p = t
    <2>1. /\ fl[t].first = IF s = "first" THEN First(g_vendor) ELSE flash[t].first
          /\ fl[t].last = IF s = "last" THEN g_vendor.version2 ELSE flash[t].last
      BY <1>2, TransferFields
    <2>2. CASE s = "first"
      BY <2>1, <2>2, <1>3, <1>5
    <2>3. CASE s = "last"
      <3>1. fl[t].first.version = g_vendor.version
        BY <2>1, <2>3, <1>2, <1>5 DEF Accepted
      <3> QED BY <3>1, <1>3, <1>5
    <2>4. CASE s = "middle"
      <3>1. fl[t].first = flash[t].first /\ fl[t].last = flash[t].last
        BY <2>1, <2>4
      <3>2. Accepted(flash[t])
        BY <3>1, <1>5 DEF Accepted
      <3> QED BY <3>1, <3>2, <1>2, <1>5 DEF NoneNewer
    <2> QED BY <2>2, <2>3, <2>4, <1>2 DEF SectorNames
  <1> QED BY <1>4, <1>5

\* The last sector of a write that is alone and without an error completes its
\* image, and it is the newest.
LEMMA LastTransfer ==
    ASSUME TypeInv, NEW c \in Clients, pc[c] = "last", CleanWrite(c),
           NEW fl, fl = Transferred(c)
    PROVE  /\ Found(fl) = g_vendor
           /\ IsNewest(fl, next_index[c])
           /\ fl[next_index[c]].last = g_vendor.version
           /\ fl[next_index[c]].first.next_index = g_vendor.next_index
  <1>1. PICK t : t = next_index[c]
    OBVIOUS
  <1>2. /\ g_vendor \in Images /\ g_vendor.version2 = g_vendor.version
        /\ 1 <= g_vendor.version
        /\ fl \in [Parts -> Partitions] /\ flash \in [Parts -> Partitions]
        /\ \A q \in Parts : q # t => fl[q] = flash[q]
        /\ Transfers(flash[t], "last", g_vendor, fl[t])
        /\ t \in Parts
    BY <1>1, TransferredFields DEF ImageInv, TypeInv, FlashInv, SectorNames
  <1>3. fl[t].first = flash[t].first /\ fl[t].middle = flash[t].middle
        /\ fl[t].last = g_vendor.version2
    BY <1>2, TransferFields DEF SectorNames
  <1>4. flash[t].first = First(g_vendor) /\ flash[t].middle = g_vendor.table.data
    BY <1>1 DEF CleanWrite
  <1>5. ReadImage(fl[t]) = g_vendor
    BY <1>2, <1>3, <1>4, ReadBack
  <1>6. /\ fl[t].first.version = g_vendor.version /\ g_vendor.version \in Nat
        /\ fl[t].first.next_index = g_vendor.next_index
    BY <1>2, <1>3, <1>4, SectorFacts, ImageFacts
  <1>7. Accepted(fl[t])
    BY <1>2, <1>3, <1>6 DEF Accepted
  <1>8. ASSUME NEW q \in Parts, Accepted(fl[q]), q # t
        PROVE  fl[q].first.version < fl[t].first.version /\ fl[q].first.version \in Nat
    <2>1. flash[q].first.version < g_vendor.version
      BY <1>1, <1>2, <1>8 DEF CleanWrite
    <2>2. fl[q] = flash[q] /\ fl[q].first.version \in Nat
      BY <1>2, <1>8, PartitionFacts
    <2> QED BY <2>1, <2>2, <1>6
  <1>9. IsNewest(fl, t)
    <2>1. ASSUME NEW q \in Parts, Accepted(fl[q])
          PROVE  /\ fl[q].first.version <= fl[t].first.version
                 /\ fl[q].first.version = fl[t].first.version => t <= q
      <3>1. t \in Nat
        BY <1>2, PartFacts
      <3>2. CASE q = t
        BY <3>1, <3>2, <1>6
      <3>3. CASE q # t
        BY <3>3, <2>1, <1>6, <1>8
      <3> QED BY <3>2, <3>3
    <2> QED BY <1>2, <1>7, <2>1 DEF IsNewest
  <1>10. Found(fl) = g_vendor
    BY <1>2, <1>5, <1>9, NewestFound
  <1> QED BY <1>1, <1>2, <1>3, <1>6, <1>9, <1>10

\* Parts of Repaired, for a given flash.
RepairedParts(fl) ==
    /\ \A p \in Parts \ suspect : fl[p].last <= Found(fl).version
    /\ \A q \in Parts : IsNewest(fl, q) => fl[q].first.next_index # q

\* The first sector goes to another partition than the one that a boot finds.
LEMMA FirstTransfer ==
    ASSUME TypeInv, NEW c \in Clients, pc[c] = "first", CleanWrite(c), RepairedParts(flash),
           Behind(c), NEW fl, fl = Transferred(c)
    PROVE  /\ RepairedParts(fl)
           /\ \/ Found(fl) = Found(flash)
              \/ Found(fl).version = g_vendor.version /\ next_index[c] \in suspect
  <1>1. PICK t : t = next_index[c]
    OBVIOUS
  <1>2. /\ g_vendor \in Images
        /\ fl \in [Parts -> Partitions] /\ flash \in [Parts -> Partitions]
        /\ FlashInv(flash, stamp) /\ stamp \in Nat /\ FlashInv(fl, stamp)
        /\ \A q \in Parts : q # t => fl[q] = flash[q]
        /\ Transfers(flash[t], "first", g_vendor, fl[t])
        /\ t \in Parts
    BY <1>1, TransferredFields DEF ImageInv, TypeInv, FlashInv, SectorNames
  <1>3. fl[t].first = First(g_vendor) /\ fl[t].last = flash[t].last
    BY <1>2, TransferFields DEF SectorNames
  <1>4. /\ fl[t].first.version = g_vendor.version /\ g_vendor.version \in Nat
        /\ fl[t].first.next_index = g_vendor.next_index
    BY <1>2, <1>3, SectorFacts, ImageFacts
  <1>5. g_vendor.next_index = Following(t) /\ Following(t) # t
    BY <1>1, <1>2, FollowingFacts DEF CleanWrite
  <1>6. Found(flash).version + 1 = g_vendor.version /\ Found(flash).next_index = t
        /\ Found(flash).version \in Nat
    <2>1. Found(flash).version \in Nat
      BY <1>2, FoundInv, ImageFacts DEF ImageInv
    <2> QED BY <1>1, <2>1 DEF Behind
  <1>7. ASSUME NEW q \in Parts, Accepted(flash[q])
        PROVE  flash[q].first.version < g_vendor.version /\ flash[q].first.version \in Nat
    BY <1>2, <1>7, PartitionFacts DEF CleanWrite
  <1>8. \A q \in Parts : IsNewest(flash, q) => q # t
    <2>1. ASSUME NEW q \in Parts, IsNewest(flash, q) PROVE q # t
      <3>1. ReadImage(flash[q]) = Found(flash)
        BY <1>2, <2>1, NewestFound
      <3>2. flash[q].first.next_index = t
        BY <1>2, <1>6, <3>1, ReadFacts
      <3> QED BY <2>1, <3>2 DEF RepairedParts
    <2> QED BY <2>1
  <1>9. \A p \in Parts : fl[p].last = flash[p].last /\ fl[p].last \in Nat
    BY <1>2, <1>3, PartitionFacts
  <1>10. CASE Accepted(fl[t])
    <2>1. t \in suspect
      <3>1. fl[t].last = g_vendor.version
        BY <1>4, <1>10 DEF Accepted
      <3>2. ~(flash[t].last <= Found(flash).version)
        BY <3>1, <1>6, <1>9, <1>2
      <3> QED BY <3>2, <1>2 DEF RepairedParts
    <2>2. IsNewest(fl, t)
      <3>1. ASSUME NEW q \in Parts, Accepted(fl[q])
            PROVE  /\ fl[q].first.version <= fl[t].first.version
                   /\ fl[q].first.version = fl[t].first.version => t <= q
        <4>1. t \in Nat
          BY <1>2, PartFacts
        <4>2. CASE q = t
          BY <4>1, <4>2, <1>4
        <4>3. CASE q # t
          <5>1. fl[q] = flash[q] /\ Accepted(flash[q])
            BY <1>2, <3>1, <4>3
          <5> QED BY <5>1, <1>4, <1>7
        <4> QED BY <4>2, <4>3
      <3> QED BY <3>1, <1>2, <1>10 DEF IsNewest
    <2>3. Found(fl).version = g_vendor.version
      <3>1. Found(fl) = ReadImage(fl[t])
        BY <1>2, <2>2, NewestFound
      <3> QED BY <3>1, <1>2, <1>4, ReadFacts
    <2>4. ASSUME NEW p \in Parts \ suspect PROVE fl[p].last <= Found(fl).version
      <3>1. flash[p].last <= Found(flash).version
        BY <2>4 DEF RepairedParts
      <3> QED BY <3>1, <2>3, <1>4, <1>6, <1>9
    <2>5. \A q \in Parts : IsNewest(fl, q) => fl[q].first.next_index # q
      <3>1. \A q \in Parts : IsNewest(fl, q) => q = t
        BY <1>2, <2>2, NewestUnique
      <3> QED BY <3>1, <1>4, <1>5
    <2> QED BY <1>1, <2>1, <2>3, <2>4, <2>5 DEF RepairedParts
  <1>11. CASE ~Accepted(fl[t])
    <2>1. \A q \in Parts : Accepted(fl[q]) => q # t /\ Accepted(flash[q]) /\ fl[q] = flash[q]
      BY <1>2, <1>11
    <2>2. Found(fl) = Found(flash)
      <3>1. CASE NoneAccepted(flash)
        <4>1. NoneAccepted(fl)
          BY <2>1, <3>1 DEF NoneAccepted
        <4> QED BY <3>1, <4>1, NoneFound
      <3>2. CASE ~NoneAccepted(flash)
        <4>1. PICK q \in Parts : IsNewest(flash, q)
          BY <1>2, <3>2, NewestExists
        <4>2. q # t /\ fl[q] = flash[q]
          BY <1>2, <1>8, <4>1
        <4>3. IsNewest(fl, q)
          BY <2>1, <4>1, <4>2 DEF IsNewest
        <4> QED BY <1>2, <4>1, <4>2, <4>3, NewestFound
      <3> QED BY <3>1, <3>2
    <2>3. \A p \in Parts \ suspect : fl[p].last <= Found(fl).version
      BY <2>2, <1>9 DEF RepairedParts
    <2>4. ASSUME NEW r \in Parts, IsNewest(fl, r) PROVE fl[r].first.next_index # r
      <3>1. r # t /\ Accepted(flash[r]) /\ fl[r] = flash[r]
        BY <2>1, <2>4 DEF IsNewest
      <3>2. ~NoneAccepted(flash)
        BY <3>1 DEF NoneAccepted
      <3>3. PICK q \in Parts : IsNewest(flash, q)
        BY <1>2, <3>2, NewestExists
      <3>4. q # t /\ fl[q] = flash[q]
        BY <1>2, <1>8, <3>3
      <3>5. IsNewest(fl, q)
        BY <2>1, <3>3, <3>4 DEF IsNewest
      <3>6. r = q
        BY <1>2, <2>4, <3>5, NewestUnique
      <3> QED BY <3>3, <3>4, <3>6 DEF RepairedParts
    <2> QED BY <2>2, <2>3, <2>4 DEF RepairedParts
  <1> QED BY <1>10, <1>11

\* A sector in the middle changes nothing of what is accepted, nor its version;
\* and nothing of what is found unless that is a partition left behind.
LEMMA MiddleTransfer ==
    ASSUME TypeInv, NEW c \in Clients, pc[c] = "middle", CleanWrite(c),
           RepairedParts(flash), Behind(c), NEW fl, fl = Transferred(c)
    PROVE  /\ RepairedParts(fl)
           /\ Found(fl).version = Found(flash).version
           /\ next_index[c] \notin suspect => Found(fl) = Found(flash)
  <1>1. PICK t : t = next_index[c]
    OBVIOUS
  <1>2. /\ g_vendor \in Images
        /\ fl \in [Parts -> Partitions] /\ flash \in [Parts -> Partitions]
        /\ FlashInv(flash, stamp) /\ stamp \in Nat
        /\ \A q \in Parts : q # t => fl[q] = flash[q]
        /\ Transfers(flash[t], "middle", g_vendor, fl[t])
        /\ t \in Parts
    BY <1>1, TransferredFields DEF ImageInv, TypeInv, FlashInv, SectorNames
  <1>3. fl[t].first = flash[t].first /\ fl[t].last = flash[t].last
    BY <1>2, TransferFields DEF SectorNames
  <1>4. \A q \in Parts : fl[q].first = flash[q].first /\ fl[q].last = flash[q].last
    BY <1>2, <1>3
  <1>5. \A q \in Parts : Accepted(fl[q]) = Accepted(flash[q])
    BY <1>4 DEF Accepted
  <1>6. \A q \in Parts : IsNewest(fl, q) = IsNewest(flash, q)
    BY <1>4, <1>5 DEF IsNewest
  <1>7. CASE NoneAccepted(flash)
    <2>1. NoneAccepted(fl)
      BY <1>5, <1>7 DEF NoneAccepted
    <2>2. Found(fl) = Found(flash)
      BY <1>7, <2>1, NoneFound
    <2> QED BY <2>2, <1>4, <1>6 DEF RepairedParts
  <1>8. CASE ~NoneAccepted(flash)
    <2>1. PICK q \in Parts : IsNewest(flash, q)
      BY <1>2, <1>8, NewestExists
    <2>2. IsNewest(fl, q)
      BY <1>6, <2>1
    <2>3. Found(flash) = ReadImage(flash[q]) /\ Found(fl) = ReadImage(fl[q])
      BY <1>2, <2>1, <2>2, NewestFound
    <2>4. /\ Found(flash).version = flash[q].first.version
          /\ Found(fl).version = fl[q].first.version
      BY <1>2, <2>3, ReadFacts
    <2>5. Found(fl).version = Found(flash).version
      BY <2>4, <1>4
    <2>6. ASSUME t \notin suspect PROVE Found(fl) = Found(flash)
      <3>1. Found(flash).version + 1 = g_vendor.version
        BY <1>1, <2>6 DEF Behind
      <3>2. flash[t].first.version = g_vendor.version
        BY <1>1, <1>2, SectorFacts DEF CleanWrite
      <3>3. flash[q].first.version \in Nat
        BY <1>2, PartitionFacts
      <3>4. q # t
        BY <3>1, <3>2, <3>3, <2>4
      <3> QED BY <3>4, <2>3, <1>2
    <2> QED BY <1>1, <1>4, <1>6, <2>5, <2>6 DEF RepairedParts
  <1> QED BY <1>7, <1>8

-----------------------------------------------------------------------------
(* The invariant is kept. *)

\* A sector of a write that is alone.
LEMMA CleanTransfer ==
    ASSUME TypeInv, NEW c \in Clients, pc[c] \in {"first", "middle"}, CleanWrite(c),
           flash' = Transferred(c), pc' = [pc EXCEPT ![c] = NextSector(pc[c])],
           UNCHANGED <<g_vendor, next_index>>
    PROVE  CleanWrite(c)'
  <1>1. PICK t, s : t = next_index[c] /\ s = pc[c]
    OBVIOUS
  <1>2. PICK fl : fl = Transferred(c) /\ fl = flash'
    OBVIOUS
  <1>3. /\ g_vendor \in Images
        /\ fl \in [Parts -> Partitions] /\ flash \in [Parts -> Partitions]
        /\ \A q \in Parts : q # t => fl[q] = flash[q]
        /\ Transfers(flash[t], s, g_vendor, fl[t])
        /\ t \in Parts /\ s \in SectorNames
    BY <1>1, <1>2, TransferredFields DEF ImageInv, TypeInv, FlashInv, SectorNames
  <1>4. /\ fl[t].first = IF s = "first" THEN First(g_vendor) ELSE flash[t].first
        /\ fl[t].middle = IF s = "middle" THEN g_vendor.table.data ELSE flash[t].middle
    BY <1>3, TransferFields
  <1>5. pc'[c] = NextSector(s) /\ pc'[c] # "first"
    BY <1>1 DEF TypeInv, NextSector
  <1>6. fl[t].first = First(g_vendor)
    BY <1>1, <1>4 DEF CleanWrite
  <1>7. pc'[c] = "last" => fl[t].middle = g_vendor.table.data
    BY <1>1, <1>4, <1>5 DEF NextSector
  <1>8. ASSUME NEW q \in Parts, Accepted(fl[q]), q # t
        PROVE  fl[q].first.version < g_vendor.version
    BY <1>1, <1>3, <1>8 DEF CleanWrite
  <1>9. g_vendor.next_index = Following(t)
    BY <1>1 DEF CleanWrite
  <1> QED BY <1>1, <1>2, <1>5, <1>6, <1>7, <1>8, <1>9 DEF CleanWrite

\* The initial states.
LEMMA InitDurable == Init => DurableInv
  <1> SUFFICES ASSUME Init PROVE DurableInv
    OBVIOUS
  <1>1. /\ flash = [p \in Parts |-> Blank] /\ g_vendor = Null
        /\ pc = [c \in Clients |-> "idle"] /\ stored = Contents(EmptyTable)
        /\ clean = TRUE /\ suspect = {}
    BY DEF Init
  <1>2. \A p \in Parts : flash[p] = Blank
    BY <1>1
  <1>3. ~Accepted(Blank) /\ Blank.last = 0
    BY BlankInv
  <1>4. NoneAccepted(flash)
    BY <1>2, <1>3 DEF NoneAccepted
  <1>5. Found(flash) = Image(EmptyTable, 1, 0)
    BY <1>4, NoneFound
  <1>6. Found(flash).table = EmptyTable /\ Found(flash).version = 1
    BY <1>5, FreshImageInv DEF Image
  <1>7. Repaired
    <2>1. \A p \in Parts \ suspect : flash[p].last <= Found(flash).version
      BY <1>2, <1>3, <1>6
    <2>2. \A q \in Parts : ~IsNewest(flash, q)
      BY <1>4 DEF NoneAccepted, IsNewest
    <2>3. \A c \in Clients : ~Writing(c)
      BY <1>1 DEF Writing, SectorNames
    <2> QED BY <1>1, <2>1, <2>2, <2>3 DEF Repaired
  <1> QED BY <1>1, <1>6, <1>7 DEF DurableInv, Alone, Writing, SectorNames

\* A boot.
LEMMA BootDurable ==
    ASSUME TypeInv, DurableInv, emmc_vendor_storage_init, ~torn'
    PROVE  DurableInv'
  <1>1. /\ g_vendor' = Found(flash)
        /\ UNCHANGED <<flash, pc, next_index, stored, clean, suspect>>
    BY WholeBoot DEF emmc_vendor_storage_init
  <1>2. \A c \in Clients : pc[c] = "idle"
    BY DEF TypeInv, emmc_vendor_storage_init
  <1>3. \A c \in Clients : ~Writing(c)'
    BY <1>1, <1>2 DEF Writing, SectorNames
  <1>4. NoneNewer'
    <2>1. ASSUME NEW p \in Parts, Accepted(flash[p])
          PROVE  flash[p].first.version <= Found(flash).version
      <3>1. FlashInv(flash, stamp) /\ flash \in [Parts -> Partitions] /\ stamp \in Nat
        BY DEF TypeInv, FlashInv
      <3>2. ~NoneAccepted(flash)
        BY <2>1 DEF NoneAccepted
      <3>3. PICK q \in Parts : IsNewest(flash, q)
        BY <3>1, <3>2, NewestExists
      <3>4. Found(flash).version = flash[q].first.version
        BY <3>1, <3>3, NewestFound, ReadFacts
      <3> QED BY <2>1, <3>3, <3>4 DEF IsNewest
    <2> QED BY <1>1, <2>1 DEF NoneNewer
  <1>5. suspect' # Parts => Repaired'
    BY <1>1, <1>3 DEF DurableInv, Repaired, Quiet
  <1> QED BY <1>1, <1>3, <1>4, <1>5 DEF DurableInv, Alone

\* A write in memory.
LEMMA WriteDurable ==
    ASSUME TypeInv, DurableInv, NEW c \in Clients, NEW id \in Ids, NEW size \in Sizes,
           emmc_vendor_write(c, id, size)
    PROVE  DurableInv'
  <1>1. /\ ImageInv(g_vendor, stamp) /\ stamp \in Nat /\ Fits(g_vendor.table, id, size)
        /\ g_vendor # Null
    BY DEF TypeInv, emmc_vendor_write, MayEnter
  <1>2. /\ stamp' = stamp + 1
        /\ g_vendor' = NewImage(NewTable(id, size, stamp + 1))
        /\ next_index' = [next_index EXCEPT ![c] = g_vendor.next_index]
        /\ pc' = [pc EXCEPT ![c] = "first"]
        /\ clean' = (\A d \in Clients : pc[d] = "idle")
        /\ suspect' = IF clean' THEN suspect ELSE Parts
        /\ flash' = flash /\ stored' = stored
    BY DEF emmc_vendor_write
  <1>3. /\ g_vendor'.version = g_vendor.version + 1
        /\ g_vendor'.next_index = Following(g_vendor.next_index)
    BY <1>1, <1>2, NewImageWrites
  <1>4. /\ next_index'[c] = g_vendor.next_index /\ pc'[c] = "first"
        /\ \A d \in Clients : d # c => pc'[d] = pc[d]
        /\ clean' \in BOOLEAN
    BY <1>2 DEF TypeInv
  <1>5. ASSUME NEW p \in Parts, Accepted(flash[p])
        PROVE  flash[p].first.version < g_vendor'.version
    <2>1. flash[p].first.version \in Nat
      BY PartitionFacts DEF TypeInv, FlashInv
    <2>2. g_vendor.version \in Nat /\ flash[p].first.version <= g_vendor.version
      BY <1>1, <1>5, ImageFacts DEF ImageInv, DurableInv, NoneNewer
    <2> QED BY <2>1, <2>2, <1>3
  <1>6. NoneNewer'
    <2>1. ASSUME NEW p \in Parts, Accepted(flash[p])
          PROVE  flash[p].first.version <= g_vendor'.version
      <3>1. flash[p].first.version \in Nat /\ g_vendor.version \in Nat
        BY <1>1, PartitionFacts, ImageFacts DEF TypeInv, FlashInv, ImageInv
      <3> QED BY <3>1, <1>3, <1>5, <2>1
    <2> QED BY <1>2, <2>1 DEF NoneNewer
  <1>7. ASSUME clean' = TRUE, NEW d \in Clients, pc'[d] # "idle" PROVE d = c
    BY <1>2, <1>4, <1>7
  <1>8. CleanWrite(c)'
    BY <1>2, <1>3, <1>4, <1>5 DEF CleanWrite
  <1>9. ASSUME suspect' # Parts PROVE Repaired'
    <2>1. clean' = TRUE /\ suspect' = suspect
      BY <1>2, <1>4, <1>9
    <2>2. Repaired /\ Quiet
      BY <1>2, <1>9, <2>1 DEF DurableInv, Quiet, Writing, SectorNames
    <2>3. Found(flash) = g_vendor
      BY <1>1, <2>2 DEF Repaired
    <2>4. Behind(c)'
      BY <1>2, <1>3, <1>4, <2>3 DEF Behind
    <2>5. ASSUME NEW d \in Clients, Writing(d)' PROVE d = c
      BY <1>7, <2>1, <2>5 DEF Writing, SectorNames
    <2>6. Writing(c)'
      BY <1>4 DEF Writing, SectorNames
    <2>7. ~Quiet'
      BY <2>6 DEF Quiet
    <2>8. \A p \in Parts \ suspect : flash[p].last <= Found(flash).version
      BY <2>2 DEF Repaired
    <2>9. \A q \in Parts : IsNewest(flash, q) => flash[q].first.next_index # q
      BY <2>2 DEF Repaired
    <2> QED BY <1>2, <2>1, <2>4, <2>5, <2>7, <2>8, <2>9 DEF Repaired
  <1>10. clean' = TRUE => Alone'
    BY <1>7 DEF Alone
  <1>11. clean' = TRUE => \A d \in Clients : Writing(d)' => CleanWrite(d)'
    <2>1. ASSUME clean' = TRUE, NEW d \in Clients, Writing(d)' PROVE d = c
      BY <1>7, <2>1 DEF Writing, SectorNames
    <2> QED BY <1>8, <2>1
  <1>12. clean' = FALSE => suspect' = Parts
    BY <1>2
  <1>13. stored' = Contents(Found(flash').table)
    BY <1>2 DEF DurableInv
  <1> QED BY <1>6, <1>9, <1>10, <1>11, <1>12, <1>13 DEF DurableInv

\* A transfer that fails.
LEMMA FailedTransferDurable ==
    ASSUME TypeInv, DurableInv, NEW c \in Clients,
           clean' = FALSE, suspect' = Parts, UNCHANGED <<flash, stored, g_vendor>>
    PROVE  DurableInv'
  BY DEF DurableInv, NoneNewer

\* One that does not.
LEMMA TransferDurable ==
    ASSUME TypeInv, DurableInv, NEW c \in Clients, pc[c] \in SectorNames,
           flash' = Transferred(c), stored' = Contents(Found(Transferred(c)).table),
           suspect' = IF pc[c] = "last" /\ clean THEN suspect \ {next_index[c]} ELSE suspect,
           pc' = [pc EXCEPT ![c] = NextSector(pc[c])],
           UNCHANGED <<clean, g_vendor, next_index, stamp>>
    PROVE  DurableInv'
  <1>1. PICK fl : fl = Transferred(c) /\ fl = flash'
    OBVIOUS
  <1>2. PICK t : t = next_index[c] /\ t \in Parts
    BY DEF TypeInv
  <1>3. /\ fl \in [Parts -> Partitions] /\ flash \in [Parts -> Partitions]
        /\ \A q \in Parts : q # t => fl[q] = flash[q]
        /\ g_vendor \in Images /\ g_vendor # Null
        /\ FlashInv(flash, stamp) /\ stamp \in Nat
    BY <1>1, <1>2, TransferredFields DEF TypeInv, FlashInv, ImageInv
  <1>4. clean \in BOOLEAN /\ suspect \subseteq Parts
    BY DEF TypeInv
  <1>5. NextSector(pc[c]) = CASE pc[c] = "first" -> "middle"
                              [] pc[c] = "middle" -> "last" [] pc[c] = "last" -> "done"
    BY DEF NextSector
  <1>6. /\ pc[c] = "first" => pc'[c] = "middle"
        /\ pc[c] = "middle" => pc'[c] = "last"
        /\ pc[c] = "last" => pc'[c] = "done"
        /\ \A d \in Clients : d # c => pc'[d] = pc[d]
    BY <1>5 DEF TypeInv
  <1>7. stored' = Contents(Found(flash').table)
    BY <1>1
  <1>8. clean' = FALSE => suspect' = Parts
    BY DEF DurableInv
  <1>9. \A d \in Clients : pc'[d] # "idle" => pc[d] # "idle"
    BY <1>6 DEF SectorNames
  <1>10. clean' = TRUE => Alone'
    BY <1>9 DEF DurableInv, Alone
  <1>11. NoneNewer'
    <2>1. NoneNewer
      BY <1>3 DEF DurableInv
    <2>2. \A p \in Parts : Accepted(fl[p]) => fl[p].first.version <= g_vendor.version
      BY <1>1, <2>1, TransferNoneNewer
    <2> QED BY <1>1, <2>2 DEF NoneNewer
  <1>12. ASSUME clean = TRUE, NEW d \in Clients, Writing(d)'
         PROVE  d = c /\ pc[c] \in {"first", "middle"}
    <2>1. pc'[d] # "idle" /\ pc[c] # "idle"
      BY <1>12 DEF Writing, SectorNames
    <2>2. d = c
      BY <1>9, <1>12, <2>1 DEF DurableInv, Alone
    <2>3. pc[c] # "last"
      BY <1>6, <1>12, <2>2 DEF Writing, SectorNames
    <2> QED BY <2>2, <2>3 DEF SectorNames
  <1>13. clean = TRUE => CleanWrite(c)
    BY DEF DurableInv, Writing
  <1>14. clean' = TRUE => \A d \in Clients : Writing(d)' => CleanWrite(d)'
    <2>1. ASSUME clean = TRUE, NEW d \in Clients, Writing(d)' PROVE CleanWrite(d)'
      <3>1. d = c /\ pc[c] \in {"first", "middle"} /\ CleanWrite(c)
        BY <1>12, <1>13, <2>1
      <3>2. CleanWrite(c)'
        BY <3>1, CleanTransfer
      <3> QED BY <3>1, <3>2
    <2> QED BY <2>1
  <1>15. ASSUME suspect' # Parts PROVE Repaired'
    <2>1. clean = TRUE
      BY <1>4, <1>15 DEF DurableInv
    <2>2. CleanWrite(c)
      BY <1>13, <2>1
    <2>3. CASE pc[c] = "last"
      <3>1. /\ Found(fl) = g_vendor /\ IsNewest(fl, t) /\ fl[t].last = g_vendor.version
            /\ fl[t].first.next_index = g_vendor.next_index
        BY <1>1, <1>2, <2>2, <2>3, LastTransfer
      <3>2. suspect' = suspect \ {t}
        BY <1>2, <2>1, <2>3
      <3>3. ASSUME NEW p \in Parts \ suspect' PROVE fl[p].last <= Found(fl).version
        <4>1. g_vendor.version \in Nat
          BY <1>3, ImageFacts
        <4>2. CASE p = t
          BY <3>1, <4>1, <4>2
        <4>3. CASE p # t
          <5>1. p \in Parts \ suspect /\ fl[p] = flash[p]
            BY <1>3, <3>2, <3>3, <4>3
          <5>2. Repaired
            BY <5>1 DEF DurableInv
          <5>3. flash[p].last <= Found(flash).version /\ Behind(c)
            BY <5>1, <5>2 DEF Repaired, Writing
          <5>4. flash[p].last \in Nat /\ Found(flash).version \in Nat
            BY <1>3, PartitionFacts, FoundInv, ImageFacts DEF ImageInv
          <5>5. Found(flash).version <= g_vendor.version
            BY <4>1, <5>3, <5>4 DEF Behind
          <5> QED BY <3>1, <4>1, <5>1, <5>3, <5>4, <5>5
        <4> QED BY <4>2, <4>3
      <3>4. \A q \in Parts : IsNewest(fl, q) => fl[q].first.next_index # q
        <4>1. \A q \in Parts : IsNewest(fl, q) => q = t
          BY <1>3, <3>1, NewestUnique
        <4>2. g_vendor.next_index # t
          BY <1>2, <2>2, FollowingFacts DEF CleanWrite
        <4> QED BY <3>1, <4>1, <4>2
      <3>5. \A d \in Clients : ~Writing(d)'
        BY <1>12, <2>1, <2>3
      <3> QED BY <1>1, <3>1, <3>3, <3>4, <3>5 DEF Repaired
    <2>4. CASE pc[c] \in {"first", "middle"}
      <3>1. suspect' = suspect
        BY <2>4
      <3>2. Repaired
        BY <1>15, <3>1 DEF DurableInv
      <3>3. RepairedParts(flash) /\ Behind(c)
        BY <3>2 DEF Repaired, RepairedParts, Writing
      <3>4. RepairedParts(fl)
        BY <1>1, <2>2, <2>4, <3>3, FirstTransfer, MiddleTransfer
      <3>5. Behind(c)'
        <4>1. CASE pc[c] = "first"
          <5>1. \/ Found(fl) = Found(flash)
                \/ Found(fl).version = g_vendor.version /\ t \in suspect
            BY <1>1, <1>2, <2>2, <4>1, <3>3, FirstTransfer
          <5>2. Found(flash).version + 1 = g_vendor.version
            BY <3>3, <4>1 DEF Behind
          <5>3. pc'[c] # "first"
            BY <1>6, <4>1
          <5> QED BY <1>1, <1>2, <3>1, <5>1, <5>2, <5>3 DEF Behind
        <4>2. CASE pc[c] = "middle"
          <5>1. Found(fl).version = Found(flash).version
            BY <1>1, <2>2, <4>2, <3>3, MiddleTransfer
          <5>2. pc'[c] # "first"
            BY <1>6, <4>2
          <5> QED BY <1>1, <3>1, <3>3, <5>1, <5>2 DEF Behind
        <4> QED BY <2>4, <4>1, <4>2
      <3>6. \A d \in Clients : Writing(d)' => Behind(d)'
        BY <1>12, <2>1, <3>5
      <3>7. ~Quiet'
        <4>1. Writing(c)'
          BY <1>6, <2>4 DEF Writing, SectorNames
        <4> QED BY <4>1 DEF Quiet
      <3>8. /\ \A p \in Parts \ suspect' : flash'[p].last <= Found(flash').version
            /\ \A q \in Parts : IsNewest(flash', q) => flash'[q].first.next_index # q
        BY <1>1, <3>1, <3>4 DEF RepairedParts
      <3> QED BY <3>6, <3>7, <3>8 DEF Repaired
    <2> QED BY <2>3, <2>4 DEF SectorNames
  <1> QED BY <1>7, <1>8, <1>10, <1>11, <1>14, <1>15 DEF DurableInv

\* The end of a write.
LEMMA ReturnDurable ==
    ASSUME TypeInv, DurableInv, NEW c \in Clients, WriteReturns(c)
    PROVE  DurableInv'
  <1>1. /\ pc[c] = "done" /\ pc' = [pc EXCEPT ![c] = "idle"]
        /\ UNCHANGED <<flash, g_vendor, next_index, stored, clean, suspect>>
    BY DEF WriteReturns
  <1>2. /\ \A d \in Clients : pc'[d] # "idle" => pc[d] # "idle"
        /\ \A d \in Clients : Writing(d)' = Writing(d)
        /\ \A d \in Clients : Writing(d)' => pc'[d] = pc[d]
    BY <1>1 DEF TypeInv, Writing, SectorNames
  <1>3. clean' = TRUE => Alone'
    BY <1>1, <1>2 DEF DurableInv, Alone
  <1>4. clean' = TRUE => \A d \in Clients : Writing(d)' => CleanWrite(d)'
    <2>1. ASSUME clean = TRUE, NEW d \in Clients, Writing(d)' PROVE CleanWrite(d)'
      <3>1. CleanWrite(d) /\ pc'[d] = pc[d]
        BY <1>2, <2>1 DEF DurableInv
      <3> QED BY <1>1, <3>1 DEF CleanWrite
    <2> QED BY <1>1, <2>1
  <1>5. ASSUME suspect' # Parts PROVE Repaired'
    <2>1. Repaired
      BY <1>1, <1>5 DEF DurableInv
    <2>2. ASSUME NEW d \in Clients, Writing(d)' PROVE Behind(d)'
      <3>1. Behind(d) /\ pc'[d] = pc[d]
        BY <1>2, <2>1, <2>2 DEF Repaired
      <3> QED BY <1>1, <3>1 DEF Behind
    <2>3. Quiet' => Quiet
      BY <1>2 DEF Quiet
    <2>4. /\ \A p \in Parts \ suspect' : flash'[p].last <= Found(flash').version
          /\ \A q \in Parts : IsNewest(flash', q) => flash'[q].first.next_index # q
          /\ g_vendor' # Null /\ Quiet' => Found(flash') = g_vendor'
      BY <1>1, <2>1, <2>3 DEF Repaired
    <2> QED BY <2>2, <2>4 DEF Repaired
  <1>6. g_vendor' # Null => NoneNewer'
    BY <1>1 DEF DurableInv, NoneNewer
  <1> QED BY <1>1, <1>3, <1>4, <1>5, <1>6 DEF DurableInv

\* A loss of power.
LEMMA PowerLossDurable ==
    ASSUME TypeInv, DurableInv, PowerLoss
    PROVE  DurableInv'
  <1>1. /\ g_vendor' = Null /\ pc' = [c \in Clients |-> "idle"]
        /\ UNCHANGED <<flash, stored, clean, suspect>>
    BY DEF PowerLoss
  <1>2. \A d \in Clients : pc'[d] = "idle" /\ ~Writing(d)'
    BY <1>1 DEF Writing, SectorNames
  <1>3. ASSUME suspect' # Parts PROVE Repaired'
    <2>1. Repaired
      BY <1>1, <1>3 DEF DurableInv
    <2> QED BY <1>1, <1>2, <2>1 DEF Repaired
  <1> QED BY <1>1, <1>2, <1>3 DEF DurableInv, Alone

\* Every step, unless it tears g_vendor.
LEMMA StepDurable == TypeInv /\ DurableInv /\ [Next]_vars => DurableInv' \/ torn'
  <1> SUFFICES ASSUME TypeInv, DurableInv, [Next]_vars, ~torn' PROVE DurableInv'
    OBVIOUS
  <1>1. CASE emmc_vendor_storage_init
    BY <1>1, BootDurable
  <1>2. CASE \E c \in Clients, id \in Ids, size \in Sizes : emmc_vendor_write(c, id, size)
    BY <1>2, WriteDurable
  <1>3. ASSUME NEW c \in Clients, emmc_vendor_ops(c) PROVE DurableInv'
    <2>1. CASE /\ flash' = Transferred(c)
               /\ stored' = Contents(Found(Transferred(c)).table)
               /\ suspect' = IF pc[c] = "last" /\ clean THEN suspect \ {next_index[c]}
                             ELSE suspect
               /\ UNCHANGED clean
      <3>1. /\ pc[c] \in SectorNames
            /\ pc' = [pc EXCEPT ![c] = NextSector(pc[c])]
            /\ UNCHANGED <<g_vendor, next_index, stamp>>
        BY <1>3 DEF emmc_vendor_ops, SectorNames
      <3> QED BY <2>1, <3>1, TransferDurable
    <2>2. CASE clean' = FALSE /\ suspect' = Parts /\ UNCHANGED <<flash, stored>>
      BY <1>3, <2>2, FailedTransferDurable DEF emmc_vendor_ops
    <2> QED BY <1>3, <2>1, <2>2 DEF emmc_vendor_ops
  <1>4. ASSUME NEW c \in Clients, WriteReturns(c) PROVE DurableInv'
    BY <1>4, ReturnDurable
  <1>5. CASE PowerLoss
    BY <1>5, PowerLossDurable
  <1>6. CASE UNCHANGED vars
    BY <1>6 DEF vars, DurableInv, Alone, NoneNewer, Writing, CleanWrite, Repaired,
                Quiet, Behind
  <1>7. ASSUME NEW c \in Clients, NEW d \in Clients, NEW id \in Ids, NEW size \in Sizes,
               Race(c, d, id, size)
        PROVE  FALSE
    BY <1>7 DEF Race
  <1> QED BY <1>1, <1>2, <1>3, <1>4, <1>5, <1>6, <1>7 DEF Next

\* So both hold in every reachable state.
LEMMA AlwaysDurable == Spec => [](torn \in BOOLEAN /\ (torn \/ (TypeInv /\ DurableInv)))
  <1>1. Init => torn \/ (TypeInv /\ DurableInv)
    BY InitTypeInv, InitDurable
  <1>2. (torn \/ (TypeInv /\ DurableInv)) /\ [Next]_vars => (torn \/ (TypeInv /\ DurableInv))'
    <2> SUFFICES ASSUME torn \/ (TypeInv /\ DurableInv), [Next]_vars
                 PROVE  torn' \/ (TypeInv' /\ DurableInv')
      OBVIOUS
    <2>1. CASE torn
      BY <2>1, StepTorn
    <2>2. CASE TypeInv /\ DurableInv
      <3>1. TypeInv' \/ torn'
        BY <2>2, StepTypeInv
      <3>2. DurableInv' \/ torn'
        BY <2>2, StepDurable
      <3> QED BY <3>1, <3>2
    <2> QED BY <2>1, <2>2
  <1> QED BY <1>1, <1>2, TornFlag, PTL DEF Spec

-----------------------------------------------------------------------------
(* The refinement, step by step. *)

\* At first no item has been written.
LEMMA InitRefines == Init => DS!Init
  <1> SUFFICES ASSUME Init PROVE DS!Init
    OBVIOUS
  <1>1. /\ g_vendor = Null /\ pc = [c \in Clients |-> "idle"]
        /\ stored = Contents(EmptyTable) /\ suspect = {} /\ torn = FALSE
    BY DEF Init
  <1>2. \A id \in Ids : VendorRead(EmptyTable, id) = NoItem
    <2>1. \A id \in Ids : Entries(EmptyTable, id) = {}
      BY DEF EmptyTable, Entries
    <2> QED BY <2>1 DEF VendorRead
  <1>3. Contents(EmptyTable) = [id \in Ids |-> NoItem]
    BY <1>2 DEF Contents
  <1>4. MemContents = stored
    BY <1>1 DEF MemContents
  <1>5. {c \in Clients : pc[c] # "idle"} = {}
    BY <1>1
  <1>6. (suspect # {}) = FALSE
    BY <1>1
  <1> QED BY <1>1, <1>3, <1>4, <1>5, <1>6 DEF DS!Init

\* A boot is not seen.
LEMMA BootRefines ==
    ASSUME TypeInv, DurableInv, emmc_vendor_storage_init, ~torn, ~torn'
    PROVE  MemContents' = MemContents /\ UNCHANGED <<stored, pc, suspect>>
  <1>1. /\ g_vendor = Null /\ g_vendor' = Found(flash) /\ stored' = stored
        /\ pc' = pc /\ suspect' = suspect
    BY WholeBoot DEF emmc_vendor_storage_init
  <1>2. stored = Contents(Found(flash).table)
    BY DEF DurableInv
  <1>3. MemContents' = MemContents
    BY <1>1, <1>2 DEF MemContents
  <1> QED BY <1>1, <1>3

\* A write in memory.
LEMMA WriteRefines ==
    ASSUME TypeInv, TypeInv', DurableInv, NEW c \in Clients, NEW id \in Ids,
           NEW size \in Sizes, emmc_vendor_write(c, id, size)
    PROVE  DS!Write(c)
  <1>1. /\ ImageInv(g_vendor, stamp) /\ stamp \in Nat /\ Fits(g_vendor.table, id, size)
        /\ g_vendor # Null
    BY DEF TypeInv, emmc_vendor_write, MayEnter
  <1>2. /\ g_vendor' = NewImage(NewTable(id, size, stamp + 1))
        /\ stamp < MaxWrites
        /\ pc[c] = "idle" /\ pc' = [pc EXCEPT ![c] = "first"]
        /\ clean' = (\A d \in Clients : pc[d] = "idle")
        /\ suspect' = IF clean' THEN suspect ELSE Parts
        /\ stored' = stored
    BY DEF emmc_vendor_write, MayEnter
  <1>3. PICK buf : buf = Buf(stamp + 1, size)
    OBVIOUS
  <1>4. ImageInv(g_vendor', stamp + 1) /\ Written(g_vendor.table, g_vendor'.table, id, buf, size)
    BY <1>1, <1>2, <1>3, NewImageWrites
  <1>5. g_vendor' # Null
    BY <1>4, ImageFacts DEF ImageInv
  <1>6. PICK m, n, a : m = Contents(g_vendor.table) /\ n = Contents(g_vendor'.table)
                       /\ a = Answer(buf, size)
    OBVIOUS
  <1>7. MemContents = m /\ MemContents' = n
    BY <1>1, <1>5, <1>6 DEF MemContents
  <1>8. n = [m EXCEPT ![id] = a]
    <2>1. \A x \in Ids : VendorRead(g_vendor'.table, x) =
              IF x = id THEN a ELSE VendorRead(g_vendor.table, x)
      BY <1>4, <1>6 DEF Written
    <2>2. /\ n = [x \in Ids |-> VendorRead(g_vendor'.table, x)]
          /\ m = [x \in Ids |-> VendorRead(g_vendor.table, x)]
      BY <1>6 DEF Contents
    <2> QED BY <2>1, <2>2
  <1>9. a \in Answers
    <2>1. stamp + 1 \in 1 .. MaxWrites
      BY <1>1, <1>2, VendorTableAssumption
    <2> QED BY <1>3, <1>6, <2>1 DEF Answers
  <1>10. /\ c \notin {d \in Clients : pc[d] # "idle"}
         /\ {d \in Clients : pc'[d] # "idle"} = {d \in Clients : pc[d] # "idle"} \cup {c}
    BY <1>2 DEF TypeInv
  <1>11. (suspect' # {}) = (suspect # {} \/ {d \in Clients : pc[d] # "idle"} # {})
    <2>1. clean' = ({d \in Clients : pc[d] # "idle"} = {})
      BY <1>2
    <2>2. CASE {d \in Clients : pc[d] # "idle"} = {}
      BY <1>2, <2>1, <2>2
    <2>3. CASE {d \in Clients : pc[d] # "idle"} # {}
      BY <1>2, <2>1, <2>3, PartFacts
    <2> QED BY <2>2, <2>3
  <1>12. \E x \in Ids, ans \in Answers : MemContents' = [MemContents EXCEPT ![x] = ans]
    BY <1>7, <1>8, <1>9
  <1> QED BY <1>2, <1>10, <1>11, <1>12 DEF DS!Write

\* A transfer: a failed one, or one of the first writes after a failure, is
\* excused; one before the last sector is not seen; the last one commits.
LEMMA TransferRefines ==
    ASSUME TypeInv, DurableInv, DurableInv', NEW c \in Clients, emmc_vendor_ops(c)
    PROVE  DS!Damage \/ DS!Commit \/ UNCHANGED DS!vars
  <1>1. /\ pc[c] \in SectorNames /\ pc' = [pc EXCEPT ![c] = NextSector(pc[c])]
        /\ UNCHANGED <<g_vendor, next_index>>
    BY DEF emmc_vendor_ops, SectorNames
  <1>2. g_vendor # Null
    BY <1>1 DEF TypeInv, SectorNames
  <1>3. MemContents' = MemContents /\ MemContents = Contents(g_vendor.table)
    BY <1>1, <1>2 DEF MemContents
  <1>4. {d \in Clients : pc'[d] # "idle"} = {d \in Clients : pc[d] # "idle"}
    <2>1. pc'[c] # "idle" /\ pc[c] # "idle"
      BY <1>1 DEF TypeInv, NextSector, SectorNames
    <2>2. \A d \in Clients : d # c => pc'[d] = pc[d]
      BY <1>1 DEF TypeInv
    <2> QED BY <2>1, <2>2
  <1>5. CASE suspect' # {}
    <2>1. (suspect' # {}) = TRUE
      BY <1>5
    <2> QED BY <1>3, <1>4, <2>1 DEF DS!Damage
  <1>6. CASE suspect' = {}
    <2>1. /\ flash' = Transferred(c)
          /\ suspect' = IF pc[c] = "last" /\ clean THEN suspect \ {next_index[c]}
                        ELSE suspect
          /\ clean' = clean
      BY <1>6, PartFacts DEF emmc_vendor_ops
    <2>2. clean = TRUE
      BY <1>6, <2>1, PartFacts DEF DurableInv, TypeInv
    <2>3. CleanWrite(c)
      BY <1>1, <2>2 DEF DurableInv, Writing
    <2>4. PICK fl : fl = Transferred(c) /\ fl = flash'
      BY <2>1
    <2>5. stored' = Contents(Found(fl).table) /\ stored = Contents(Found(flash).table)
      BY <2>4 DEF DurableInv
    <2>6. CASE pc[c] = "last"
      <3>1. Found(fl) = g_vendor
        BY <2>3, <2>4, <2>6, LastTransfer
      <3>2. stored' = MemContents
        BY <1>3, <2>5, <3>1
      <3>3. (suspect' # {}) = FALSE
        BY <1>6
      <3> QED BY <1>3, <1>4, <3>2, <3>3 DEF DS!Commit
    <2>7. CASE pc[c] \in {"first", "middle"}
      <3>1. suspect = {} /\ suspect' = suspect
        BY <1>6, <2>1, <2>7
      <3>2. Repaired
        BY <3>1, PartFacts DEF DurableInv
      <3>3. RepairedParts(flash) /\ Behind(c)
        BY <1>1, <3>2 DEF Repaired, RepairedParts, Writing
      <3>4. next_index[c] \notin suspect
        BY <3>1
      <3>5. Found(fl) = Found(flash)
        <4>1. CASE pc[c] = "first"
          <5>1. \/ Found(fl) = Found(flash)
                \/ Found(fl).version = g_vendor.version /\ next_index[c] \in suspect
            BY <2>3, <2>4, <3>3, <4>1, FirstTransfer
          <5> QED BY <3>4, <5>1
        <4>2. CASE pc[c] = "middle"
          BY <2>3, <2>4, <3>3, <3>4, <4>2, MiddleTransfer
        <4> QED BY <2>7, <4>1, <4>2
      <3>6. stored' = stored
        BY <2>5, <3>5
      <3>7. torn' = torn
        BY DEF emmc_vendor_ops
      <3> QED BY <1>3, <1>4, <3>1, <3>6, <3>7 DEF DS!vars, DS!storeVars
    <2> QED BY <1>1, <2>6, <2>7 DEF SectorNames
  <1> QED BY <1>5, <1>6

\* The end of a write: what it wrote is stored.
LEMMA ReturnRefines ==
    ASSUME TypeInv, DurableInv, NEW c \in Clients, WriteReturns(c)
    PROVE  DS!Return(c)
  <1>1. /\ pc[c] = "done" /\ pc' = [pc EXCEPT ![c] = "idle"]
        /\ UNCHANGED <<g_vendor, stored, suspect>>
    BY DEF WriteReturns
  <1>2. g_vendor # Null
    BY <1>1 DEF TypeInv
  <1>3. MemContents' = MemContents /\ MemContents = Contents(g_vendor.table)
    BY <1>1, <1>2 DEF MemContents
  <1>4. /\ c \in {d \in Clients : pc[d] # "idle"}
        /\ {d \in Clients : pc'[d] # "idle"} = {d \in Clients : pc[d] # "idle"} \ {c}
    BY <1>1 DEF TypeInv
  <1>5. suspect # {} \/ stored = MemContents
    <2>1. ASSUME suspect = {} PROVE stored = MemContents
      <3>1. clean = TRUE /\ Repaired
        BY <2>1, PartFacts DEF DurableInv, TypeInv
      <3>2. ASSUME NEW d \in Clients PROVE ~Writing(d)
        <4>1. CASE d = c
          BY <1>1, <4>1 DEF Writing, SectorNames
        <4>2. CASE d # c
          BY <1>1, <3>1, <4>2 DEF DurableInv, Alone, Writing, SectorNames
        <4> QED BY <4>1, <4>2
      <3>3. Found(flash) = g_vendor
        BY <1>2, <3>1, <3>2 DEF Repaired, Quiet
      <3> QED BY <1>3, <3>3 DEF DurableInv
    <2> QED BY <2>1
  <1> QED BY <1>1, <1>3, <1>4, <1>5 DEF DS!Return

\* A loss of power.
LEMMA PowerLossRefines ==
    ASSUME TypeInv, DurableInv, PowerLoss
    PROVE  DS!PowerLoss
  <1>1. /\ g_vendor' = Null /\ pc' = [c \in Clients |-> "idle"]
        /\ UNCHANGED <<stored, suspect>>
    BY DEF PowerLoss
  <1>2. MemContents' = stored'
    BY <1>1 DEF MemContents
  <1>3. {d \in Clients : pc'[d] # "idle"} = {}
    BY <1>1
  <1> QED BY <1>1, <1>2, <1>3 DEF DS!PowerLoss

\* Every step.
LEMMA StepRefines ==
    ASSUME torn \in BOOLEAN, torn \/ (TypeInv /\ DurableInv),
           (torn \/ (TypeInv /\ DurableInv))', [Next]_vars
    PROVE  [DS!Next]_(DS!vars)
  <1>1. CASE torn'
    <2>1. CASE UNCHANGED vars
      BY <2>1 DEF vars, DS!vars, DS!storeVars, MemContents
    <2>2. CASE Next
      <3>1. torn' = TRUE
        BY <2>2, <1>1, Zenon DEF Next, emmc_vendor_storage_init, emmc_vendor_write, Race,
                                emmc_vendor_ops, WriteReturns, PowerLoss
      <3> QED BY <3>1 DEF DS!Next, DS!Void
    <2> QED BY <2>1, <2>2
  <1>2. CASE ~torn'
    <2>0. TypeInv /\ DurableInv /\ (TypeInv /\ DurableInv)' /\ ~torn
      BY <1>2, StepTorn
    <2>1. CASE emmc_vendor_storage_init
      <3>1. MemContents' = MemContents /\ UNCHANGED <<stored, pc, suspect>>
        BY <1>2, <2>0, <2>1, BootRefines
      <3>2. torn' = torn
        <4>1. torn' = (g_vendor' # Found(flash))
          BY <2>1 DEF emmc_vendor_storage_init
        <4>2. torn = FALSE /\ torn' = FALSE
          BY <1>2, <2>0, <4>1
        <4> QED BY <4>2
      <3> QED BY <3>1, <3>2 DEF DS!vars, DS!storeVars
    <2>2. ASSUME NEW c \in Clients, NEW id \in Ids, NEW size \in Sizes,
                 emmc_vendor_write(c, id, size)
          PROVE  DS!Next
      <3>1. DS!Write(c)
        BY <2>0, <2>2, WriteRefines
      <3>2. torn' = torn
        BY <2>2 DEF emmc_vendor_write
      <3> QED BY <3>1, <3>2 DEF DS!Next, DS!Step
    <2>3. ASSUME NEW c \in Clients, emmc_vendor_ops(c) PROVE DS!Next \/ UNCHANGED DS!vars
      <3>1. DS!Damage \/ DS!Commit \/ UNCHANGED DS!vars
        BY <2>0, <2>3, TransferRefines
      <3>2. torn' = torn
        BY <2>3 DEF emmc_vendor_ops
      <3> QED BY <3>1, <3>2 DEF DS!Next, DS!Step
    <2>4. ASSUME NEW c \in Clients, WriteReturns(c) PROVE DS!Next
      <3>1. DS!Return(c)
        BY <2>0, <2>4, ReturnRefines
      <3>2. torn' = torn
        BY <2>4 DEF WriteReturns
      <3> QED BY <3>1, <3>2 DEF DS!Next, DS!Step
    <2>5. CASE PowerLoss
      <3>1. DS!PowerLoss
        BY <2>0, <2>5, PowerLossRefines
      <3>2. torn' = torn
        BY <2>5 DEF PowerLoss
      <3> QED BY <3>1, <3>2 DEF DS!Next, DS!Step
    <2>6. CASE UNCHANGED vars
      BY <2>6 DEF vars, DS!vars, DS!storeVars, MemContents
    <2>7. ASSUME NEW c \in Clients, NEW d \in Clients, NEW id \in Ids, NEW size \in Sizes,
                 Race(c, d, id, size)
          PROVE  FALSE
      BY <1>2, <2>7 DEF Race
    <2> QED BY <2>1, <2>2, <2>3, <2>4, <2>5, <2>6, <2>7 DEF Next
  <1> QED BY <1>1, <1>2

\* The eMMC storage implements the durable store: a write changes what is read
\* of its own item and of no other, a loss of power between any two sectors
\* finds a whole image, and emmc_vendor_write returns 0 only when its image is
\* the one that the next boot takes.  A transfer that fails, or an update between
\* the transfers of another write, excuses it until every partition has been
\* rewritten by a write that is alone and without an error; two threads that
\* meet in g_vendor and a boot that misses a sector void it (emmc_vendor_write,
\* emmc_vendor_ops, emmc_vendor_storage_init).
THEOREM DurableStoreImplemented == Spec => EmmcIsDurable
  <1>1. Init => DS!Init
    BY InitRefines
  <1>2. torn \in BOOLEAN /\ (torn \/ (TypeInv /\ DurableInv))
            /\ (torn \/ (TypeInv /\ DurableInv))' /\ [Next]_vars => [DS!Next]_(DS!vars)
    BY StepRefines
  <1> QED BY <1>1, <1>2, AlwaysDurable, PTL DEF Spec, EmmcIsDurable, DS!Spec

=============================================================================
