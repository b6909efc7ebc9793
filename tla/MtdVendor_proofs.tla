-------------------------- MODULE MtdVendor_proofs --------------------------
(***************************************************************************)
(* The NAND storage keeps its tables exact and is a durable store, for any *)
(* number of blocks, slots, bad blocks and faults that leaves two blocks   *)
(* to write to, while no two threads meet in g_vendor (torn).              *)
(***************************************************************************)
EXTENDS MtdVendor, VendorTable_proofs

SlotStates == [programmed : BOOLEAN, image : Images \cup {Null}]

\* The free space of a table is exactly what the items leave.
TableExact(v) == TableInv(v) /\ v.free_offset + v.free_size = DataSize

\* An image of one of the first n writes.
ImageInv(g, n) ==
    /\ g \in Images
    /\ TableExact(g.table)
    /\ 1 <= g.version /\ g.version <= n + 1

SlotInv(slot, n) ==
    /\ slot \in SlotStates
    /\ Good(slot) => slot.programmed = TRUE /\ ImageInv(slot.image, n)

FlashInv(fl, n) ==
    /\ fl \in [Blocks -> [Slots -> SlotStates]]
    /\ \A b \in Blocks, s \in Slots : SlotInv(fl[b][s], n)

\* The blocks and the slots are numbered from 0.
LEMMA NumberFacts ==
    /\ BlockNum \in Nat /\ 2 <= BlockNum /\ MaxBad + MaxFaults + 2 <= BlockNum
    /\ MaxBad \in Nat /\ MaxFaults \in Nat
    /\ SlotNum \in Nat /\ 1 <= SlotNum
    /\ Blocks \subseteq Nat /\ Slots \subseteq Nat /\ 0 \in Blocks /\ 0 \in Slots
  BY MtdAssumption DEF Blocks, Slots

\* What the parts of an image are, and that it is not Null.
LEMMA ImageFacts ==
    ASSUME NEW g \in Images
    PROVE  g.table \in Tables /\ g.version \in Nat /\ g # Null
  BY NullDiffers DEF Images

\* A good slot.
LEMMA GoodFacts ==
    ASSUME NEW n \in Nat, NEW fl, FlashInv(fl, n), NEW b \in Blocks, NEW s \in Slots,
           Good(fl[b][s])
    PROVE  /\ fl[b][s].programmed = TRUE /\ ImageInv(fl[b][s].image, n)
           /\ fl[b][s].image \in Images /\ fl[b][s].image.version \in Nat
  BY ImageFacts DEF FlashInv, SlotInv, ImageInv

\* The slots that a step leaves behind.
LEMMA NewSlots ==
    ASSUME NEW n \in Nat, NEW g, ImageInv(g, n)
    PROVE  /\ SlotInv(Erased, n) /\ ~Good(Erased) /\ Erased.programmed = FALSE
           /\ SlotInv(Torn, n) /\ ~Good(Torn) /\ Torn.programmed = TRUE
           /\ SlotInv(Programmed(g), n) /\ Good(Programmed(g))
           /\ Programmed(g).programmed = TRUE /\ Programmed(g).image = g
  <1>1. g \in Images /\ g # Null
    BY ImageFacts DEF ImageInv
  <1>2. /\ Erased.programmed = FALSE /\ Erased.image = Null /\ Erased \in SlotStates
        /\ Torn.programmed = TRUE /\ Torn.image = Null /\ Torn \in SlotStates
    BY DEF Erased, Torn, SlotStates
  <1>3. /\ Programmed(g).programmed = TRUE /\ Programmed(g).image = g
        /\ Programmed(g) \in SlotStates
    BY <1>1 DEF Programmed, SlotStates
  <1> QED BY <1>1, <1>2, <1>3 DEF SlotInv, Good

\* The fresh image.
LEMMA FreshImageInv ==
    ASSUME NEW n \in Nat
    PROVE  /\ ImageInv(FreshImage, n) /\ FreshImage.version = 1
           /\ FreshImage.table = EmptyTable
  <1>1. EmptyTable \in Tables /\ TableInv(EmptyTable)
    BY EmptyTableInv DEF TableInv, TableOrder
  <1>2. EmptyTable.free_offset + EmptyTable.free_size = DataSize
    BY VendorTableAssumption DEF EmptyTable
  <1>3. PICK t : t = EmptyTable /\ t \in Tables /\ TableExact(t)
    BY <1>1, <1>2 DEF TableExact
  <1>4. PICK g : g = Image(t, 1)
    OBVIOUS
  <1>5. g.table = t /\ g.version = 1 /\ g \in Images
    BY <1>3, <1>4 DEF Image, Images
  <1>6. ImageInv(g, n)
    BY <1>3, <1>5 DEF ImageInv
  <1> QED BY <1>3, <1>4, <1>5, <1>6 DEF FreshImage

\* The greatest of some of the first numbers.
LEMMA MaxIsGreatest ==
    ASSUME NEW n \in Nat, NEW K \in SUBSET (0 .. n), K # {}
    PROVE  Max(K) \in K /\ \A m \in K : m <= Max(K)
  <1> DEFINE L == {m \in 0 .. n : n - m \in K}
  <1>1. PICK k \in K : TRUE
    OBVIOUS
  <1>2. n - k \in L /\ L \in SUBSET Nat
    <2>1. k \in 0 .. n
      OBVIOUS
    <2>2. n - k \in 0 .. n /\ n - (n - k) = k
      BY <2>1
    <2> QED BY <1>1, <2>2
  <1>3. PICK l : l = Min(L) /\ l \in L /\ \A m \in L : l <= m
    BY <1>2, MinIsLeast
  <1>4. n - l \in K /\ l \in 0 .. n
    BY <1>3
  <1>5. ASSUME NEW m \in K PROVE m <= n - l
    <2>1. m \in 0 .. n
      OBVIOUS
    <2>2. n - m \in 0 .. n /\ n - (n - m) = m
      BY <2>1
    <2>3. l <= n - m
      BY <1>3, <2>2
    <2> QED BY <1>4, <2>1, <2>3
  <1> QED BY <1>4, <1>5 DEF Max

-----------------------------------------------------------------------------
(* The last image of a block. *)

IsLast(block, s) ==
    /\ s \in Slots /\ Good(block[s])
    /\ \A t \in Slots : Good(block[t]) => t <= s

\* A block with a good slot has a last one.
LEMMA LastExists ==
    ASSUME NEW block, NEW r \in Slots, Good(block[r])
    PROVE  \E s \in Slots : IsLast(block, s)
  <1> DEFINE K == {s \in Slots : Good(block[s])}
  <1>1. SlotNum - 1 \in Nat /\ K \in SUBSET (0 .. (SlotNum - 1)) /\ r \in K
    BY NumberFacts DEF Slots
  <1>2. PICK s : s = Max(K) /\ s \in K /\ \A m \in K : m <= s
    BY <1>1, MaxIsGreatest
  <1> QED BY <1>2 DEF IsLast

\* And that is where LastImage finds its image.
LEMMA LastFound ==
    ASSUME NEW block, NEW s, IsLast(block, s)
    PROVE  LastImage(block) = block[s].image
  <1> DEFINE K == {t \in Slots : Good(block[t])}
  <1>1. SlotNum - 1 \in Nat /\ K \in SUBSET (0 .. (SlotNum - 1)) /\ s \in K
    BY NumberFacts DEF Slots, IsLast
  <1>2. PICK m : m = Max(K) /\ m \in K /\ \A t \in K : t <= m
    BY <1>1, MaxIsGreatest
  <1>3. m <= s /\ s <= m /\ m \in Nat /\ s \in Nat
    BY <1>1, <1>2, NumberFacts DEF IsLast
  <1>4. m = s
    BY <1>3
  <1> QED BY <1>2, <1>4 DEF LastImage

\* A block whose slots hold the same images has the same last one.
LEMMA SameImagesLast ==
    ASSUME NEW x, NEW y, \A s \in Slots : x[s].image = y[s].image,
           NEW r \in Slots, Good(x[r])
    PROVE  LastImage(y) = LastImage(x)
  <1>1. PICK s \in Slots : IsLast(x, s)
    BY LastExists
  <1>2. IsLast(y, s)
    BY <1>1 DEF IsLast, Good
  <1> QED BY <1>1, <1>2, LastFound

-----------------------------------------------------------------------------
(* The image that a boot finds. *)

Version(slot) == slot.image.version

\* Block h begins with the newest version, and a block in front of it that
\* begins with the same version has the same last image.
NewestIs(fl, h) ==
    /\ h \in Candidates(fl)
    /\ \A b \in Candidates(fl) :
          /\ Version(fl[b][0]) <= Version(fl[h][0])
          /\ Version(fl[b][0]) = Version(fl[h][0]) /\ b < h =>
                LastImage(fl[b]) = LastImage(fl[h])

\* What a candidate is.
LEMMA CandidateFacts ==
    ASSUME NEW n \in Nat, NEW fl, FlashInv(fl, n), NEW b \in Candidates(fl)
    PROVE  /\ b \in Blocks /\ b \notin bad /\ b \in Nat /\ Good(fl[b][0])
           /\ Version(fl[b][0]) \in Nat /\ Version(fl[b][0]) <= n + 1
           /\ ImageInv(fl[b][0].image, n)
  <1>1. b \in Blocks /\ b \notin bad /\ Good(fl[b][0])
    BY DEF Candidates
  <1>2. b \in Nat /\ 0 \in Slots
    BY <1>1, NumberFacts
  <1>3. ImageInv(fl[b][0].image, n) /\ fl[b][0].image.version \in Nat
    BY <1>1, <1>2, GoodFacts
  <1> QED BY <1>1, <1>2, <1>3 DEF Version, ImageInv

\* The block that a boot takes is one of the newest, and the first of them.
LEMMA NewestBlockFacts ==
    ASSUME NEW n \in Nat, NEW fl, FlashInv(fl, n), Candidates(fl) # {}
    PROVE  /\ NewestBlock(fl) \in Candidates(fl)
           /\ \A b \in Candidates(fl) :
                 /\ Version(fl[b][0]) <= Version(fl[NewestBlock(fl)][0])
                 /\ Version(fl[b][0]) = Version(fl[NewestBlock(fl)][0]) =>
                       NewestBlock(fl) <= b
  <1> DEFINE cs == Candidates(fl)
             ver(b) == fl[b][0].image.version
             ages == {m \in Nat : \E b \in cs : m = n + 1 - ver(b)}
             newest == {b \in cs : \A d \in cs : ver(d) <= ver(b)}
  <1>v. \A b \in cs : ver(b) \in Nat /\ ver(b) <= n + 1 /\ b \in Nat
    BY CandidateFacts DEF Version
  <1>1. PICK a : a \in cs
    OBVIOUS
  <1>2. n + 1 - ver(a) \in ages /\ ages \in SUBSET Nat
    BY <1>1, <1>v
  <1>3. Min(ages) \in ages /\ \A m \in ages : Min(ages) <= m
    BY <1>2, MinIsLeast
  <1>4. PICK b \in cs : Min(ages) = n + 1 - ver(b)
    BY <1>3
  <1>5. ASSUME NEW d \in cs PROVE ver(d) <= ver(b)
    <2>1. ver(d) \in Nat /\ ver(d) <= n + 1 /\ ver(b) \in Nat /\ ver(b) <= n + 1
      BY <1>v
    <2>2. n + 1 - ver(d) \in ages
      BY <2>1
    <2>3. n + 1 - ver(b) <= n + 1 - ver(d)
      BY <1>3, <1>4, <2>2
    <2> QED BY <2>1, <2>3
  <1>6. b \in newest /\ newest \in SUBSET Nat
    BY <1>5, <1>v
  <1>7. Min(newest) \in newest /\ \A d \in newest : Min(newest) <= d
    BY <1>6, MinIsLeast
  <1>8. PICK m : m = Min(newest) /\ m \in newest /\ \A d \in newest : m <= d
    BY <1>7
  <1>9. NewestBlock(fl) = m
    BY <1>8 DEF NewestBlock
  <1>10. ASSUME NEW d \in cs
         PROVE  ver(d) <= ver(m) /\ (ver(d) = ver(m) => m <= d)
    <2>1. ver(d) <= ver(m) /\ m \in cs
      BY <1>8
    <2>2. ASSUME ver(d) = ver(m) PROVE d \in newest
      BY <1>8, <2>2
    <2> QED BY <1>8, <2>1, <2>2
  <1> QED BY <1>8, <1>9, <1>10 DEF Version

\* So it is newest in the sense of NewestIs.
LEMMA NewestBlockIs ==
    ASSUME NEW n \in Nat, NEW fl, FlashInv(fl, n), Candidates(fl) # {}
    PROVE  NewestIs(fl, NewestBlock(fl))
  <1>1. PICK m : m = NewestBlock(fl)
    OBVIOUS
  <1>2. /\ m \in Candidates(fl)
        /\ \A b \in Candidates(fl) :
              /\ Version(fl[b][0]) <= Version(fl[m][0])
              /\ Version(fl[b][0]) = Version(fl[m][0]) => m <= b
    BY <1>1, NewestBlockFacts
  <1>3. \A b \in Candidates(fl) : m <= b => ~(b < m)
    <2>1. \A b \in Candidates(fl) : b \in Nat
      BY CandidateFacts
    <2> QED BY <1>2, <2>1
  <1> QED BY <1>1, <1>2, <1>3 DEF NewestIs

\* A boot finds the last image of such a block.
LEMMA NewestFound ==
    ASSUME NEW n \in Nat, NEW fl, FlashInv(fl, n), NEW h, NewestIs(fl, h)
    PROVE  Found(fl) = LastImage(fl[h])
  <1>1. h \in Candidates(fl)
    BY DEF NewestIs
  <1>2. PICK m : m = NewestBlock(fl)
    OBVIOUS
  <1>3. /\ m \in Candidates(fl)
        /\ \A b \in Candidates(fl) :
              /\ Version(fl[b][0]) <= Version(fl[m][0])
              /\ Version(fl[b][0]) = Version(fl[m][0]) => m <= b
    BY <1>1, <1>2, NewestBlockFacts
  <1>4. /\ Version(fl[m][0]) \in Nat /\ Version(fl[h][0]) \in Nat
        /\ m \in Nat /\ h \in Nat
    BY <1>1, <1>3, CandidateFacts
  <1>5. Version(fl[m][0]) <= Version(fl[h][0]) /\ Version(fl[h][0]) <= Version(fl[m][0])
    BY <1>1, <1>3 DEF NewestIs
  <1>6. Version(fl[m][0]) = Version(fl[h][0])
    BY <1>4, <1>5
  <1>7. m <= h
    BY <1>1, <1>3, <1>6
  <1>8. LastImage(fl[m]) = LastImage(fl[h])
    <2>1. CASE m = h
      BY <2>1
    <2>2. CASE m < h
      BY <1>3, <1>6, <2>2 DEF NewestIs
    <2> QED BY <1>4, <1>7, <2>1, <2>2
  <1> QED BY <1>1, <1>2, <1>8 DEF Found

\* The last image of a candidate is well formed.
LEMMA LastInv ==
    ASSUME NEW n \in Nat, NEW fl, FlashInv(fl, n), NEW b \in Candidates(fl)
    PROVE  ImageInv(LastImage(fl[b]), n)
  <1>1. b \in Blocks /\ Good(fl[b][0]) /\ 0 \in Slots
    BY CandidateFacts, NumberFacts
  <1>2. PICK s \in Slots : IsLast(fl[b], s)
    BY <1>1, LastExists
  <1>3. LastImage(fl[b]) = fl[b][s].image
    BY <1>2, LastFound
  <1> QED BY <1>1, <1>2, <1>3, GoodFacts DEF IsLast

\* And so is what a boot finds.
LEMMA FoundInv ==
    ASSUME NEW n \in Nat, NEW fl, FlashInv(fl, n)
    PROVE  ImageInv(Found(fl), n)
  <1>1. CASE Candidates(fl) = {}
    BY <1>1, FreshImageInv DEF Found
  <1>2. CASE Candidates(fl) # {}
    <2>1. NewestBlock(fl) \in Candidates(fl)
      BY <1>2, NewestBlockFacts
    <2> QED BY <1>2, <2>1, LastInv DEF Found
  <1> QED BY <1>1, <1>2

-----------------------------------------------------------------------------
(* A write in memory. *)

\* The buffer of a write holds bytes.
LEMMA BufBytes ==
    ASSUME NEW n \in Nat, NEW size \in Sizes
    PROVE  size \in Nat /\ Buf(n, size) \in [0 .. (size - 1) -> Bytes]
  BY VendorTableAssumption DEF Buf, Bytes

\* The table stays exact, also when an item grows.
LEMMA NewTableWrites ==
    ASSUME NEW n \in Nat, TableExact(g_vendor.table), NEW id \in Ids, NEW size \in Sizes,
           Fits(g_vendor.table, id, size), NEW t, t = NewTable(id, size, n)
    PROVE  TableExact(t) /\ Written(g_vendor.table, t, id, Buf(n, size), size)
  <1>1. PICK v : v = g_vendor.table
    OBVIOUS
  <1>2. PICK buf : buf = Buf(n, size) /\ buf \in [0 .. (size - 1) -> Bytes] /\ size \in Nat
    BY BufBytes
  <1>3. PICK w : w = VendorWrite(v, id, buf, size)
    OBVIOUS
  <1>4. TableInv(v) /\ Fits(v, id, size) /\ v.free_offset + v.free_size = DataSize
    BY <1>1 DEF TableExact
  <1>5. Writes(v, id, buf, size)
    BY <1>2, <1>4 DEF Writes
  <1>6. /\ TableOrder(w)
        /\ Written(v, w, id, buf, size)
        /\ Outgrown(v, id, size) = FALSE =>
              /\ TableInv(w)
              /\ w.free_offset + w.free_size = v.free_offset + v.free_size
        /\ Outgrown(v, id, size) =>
              /\ w.free_offset <= v.free_offset + Growth(v, id, size)
              /\ Growth(v, id, size) \in Nat /\ Growth(v, id, size) <= v.free_size
    <2>1. Fits(v, id, size) /\ Writes(v, id, buf, size) /\ w = VendorWrite(v, id, buf, size)
      BY <1>3, <1>4, <1>5
    <2> QED BY <2>1, VendorWriteWrites, ZenonT(60)
  <1>7. t = IF Outgrown(v, id, size)
            THEN [w EXCEPT !.free_size = GrownFreeSize(v, w, Growth(v, id, size))]
            ELSE w
    BY <1>1, <1>2, <1>3 DEF NewTable
  <1>8. Outgrown(v, id, size) \in BOOLEAN
    BY DEF Outgrown
  <1>9. CASE Outgrown(v, id, size) = FALSE
    <2>1. t = w /\ w.free_offset + w.free_size = DataSize
      BY <1>4, <1>6, <1>7, <1>9
    <2> QED BY <1>1, <1>2, <1>6, <1>9, <2>1 DEF TableExact
  <1>10. CASE Outgrown(v, id, size) = TRUE
    <2>1. PICK fs : fs = DataSize - w.free_offset
      OBVIOUS
    <2>2. PICK gr : gr = Growth(v, id, size) /\ gr \in Nat /\ gr <= v.free_size
                    /\ w.free_offset <= v.free_offset + gr
      BY <1>6, <1>10
    <2>3. /\ v.free_size \in Nat /\ v.free_offset \in Nat /\ w.free_offset \in Nat
          /\ DataSize \in Nat
      BY <1>4, <1>6, TableFacts DEF TableInv, TableOrder
    <2>4. PICK vo, vs, wo : /\ vo = v.free_offset /\ vs = v.free_size /\ wo = w.free_offset
                            /\ vo \in Nat /\ vs \in Nat /\ wo \in Nat
      BY <2>3
    <2>5. /\ fs = DataSize - wo /\ gr <= vs /\ wo <= vo + gr /\ vo + vs = DataSize
      BY <1>4, <2>1, <2>2, <2>4
    <2>6. fs \in Nat /\ wo + fs = DataSize /\ wo + fs <= DataSize
      BY <2>2, <2>3, <2>4, <2>5
    <2>7. t = [w EXCEPT !.free_size = fs]
      BY <1>7, <1>10, <2>1 DEF GrownFreeSize
    <2>8. /\ TableOrder(t) /\ t.free_size = fs /\ t.free_offset = w.free_offset
          /\ SameContents(w, t)
      BY <1>6, <2>6, <2>7, FreeSizeUnread
    <2>9. TableExact(t)
      BY <2>4, <2>6, <2>8 DEF TableInv, TableExact
    <2>10. ASSUME NEW x \in Ids
           PROVE  VendorRead(t, x) = IF x = id THEN Answer(buf, size) ELSE VendorRead(v, x)
      <3>1. VendorRead(t, x) = VendorRead(w, x)
        BY <2>8, SameContentsRead
      <3> QED BY <3>1, <1>6 DEF Written
    <2> QED BY <1>1, <1>2, <2>9, <2>10 DEF Written
  <1> QED BY <1>8, <1>9, <1>10

\* And of the whole image.
LEMMA NewImageWrites ==
    ASSUME NEW n \in Nat, ImageInv(g_vendor, n), NEW id \in Ids, NEW size \in Sizes,
           Fits(g_vendor.table, id, size), NEW g,
           g = Image(NewTable(id, size, n + 1), g_vendor.version + 1)
    PROVE  /\ ImageInv(g, n + 1)
           /\ g.version = g_vendor.version + 1
           /\ Written(g_vendor.table, g.table, id, Buf(n + 1, size), size)
  <1>1. PICK t : t = NewTable(id, size, n + 1)
    OBVIOUS
  <1>2. TableExact(t) /\ Written(g_vendor.table, t, id, Buf(n + 1, size), size)
    <2>1. n + 1 \in Nat /\ TableExact(g_vendor.table)
      BY DEF ImageInv
    <2> QED BY <1>1, <2>1, NewTableWrites
  <1>3. g_vendor.version \in Nat /\ 1 <= g_vendor.version /\ g_vendor.version <= n + 1
    BY ImageFacts DEF ImageInv
  <1>4. PICK ver : /\ ver = g_vendor.version + 1 /\ ver \in Nat /\ 1 <= ver
                   /\ ver <= n + 1 + 1
    BY <1>3
  <1>5. t \in Tables
    BY <1>2 DEF TableExact, TableInv, TableOrder
  <1>6. g = [table |-> t, version |-> ver]
    BY <1>1, <1>4 DEF Image
  <1>7. g \in Images /\ g.table = t /\ g.version = ver
    BY <1>4, <1>5, <1>6 DEF Images
  <1>8. ImageInv(g, n + 1)
    BY <1>2, <1>4, <1>7 DEF ImageInv
  <1> QED BY <1>2, <1>4, <1>7, <1>8

-----------------------------------------------------------------------------
(* Types, and tables that stay exact. *)

TypeInv ==
    /\ bad \subseteq Blocks /\ IsFiniteSet(bad) /\ Cardinality(bad) <= MaxBad
    /\ stamp \in Nat /\ faults \in 0 .. MaxFaults
    /\ FlashInv(flash, stamp)
    /\ g_vendor # Null => ImageInv(g_vendor, stamp)
    /\ blk_offset \in Blocks /\ page_offset \in 0 .. SlotNum
    /\ pc \in {"off", "idle", "format", "write"} /\ count \in 0 .. 2
    /\ (pc = "off") = (g_vendor = Null)
    /\ suspect \in BOOLEAN

\* The bound on the versions only grows.
LEMMA LaterFlash ==
    ASSUME NEW n \in Nat, NEW fl, FlashInv(fl, n)
    PROVE  FlashInv(fl, n + 1)
  <1>1. ASSUME NEW g, ImageInv(g, n) PROVE ImageInv(g, n + 1)
    <2>1. g.version \in Nat /\ g.version <= n + 1
      BY <1>1, ImageFacts DEF ImageInv
    <2>2. g.version <= n + 1 + 1
      BY <2>1
    <2> QED BY <1>1, <2>2 DEF ImageInv
  <1> QED BY <1>1 DEF FlashInv, SlotInv

\* One slot is replaced.
SlotReplaced(fl, b, s, slot, f) == f = [fl EXCEPT ![b][s] = slot]

\* That slot has changed, and nothing else.
LEMMA SlotReplacedFields ==
    ASSUME NEW n \in Nat, NEW fl, FlashInv(fl, n), NEW b \in Blocks, NEW s \in Slots,
           NEW slot, SlotInv(slot, n), NEW f, SlotReplaced(fl, b, s, slot, f)
    PROVE  /\ FlashInv(f, n)
           /\ f[b][s] = slot
           /\ \A t \in Slots : t # s => f[b][t] = fl[b][t]
           /\ \A c \in Blocks : c # b => f[c] = fl[c]
  <1>1. fl \in [Blocks -> [Slots -> SlotStates]] /\ slot \in SlotStates
    BY DEF FlashInv, SlotInv
  <1>2. PICK block : block = [fl[b] EXCEPT ![s] = slot]
    OBVIOUS
  <1>3. /\ block \in [Slots -> SlotStates] /\ block[s] = slot
        /\ \A t \in Slots : t # s => block[t] = fl[b][t]
    BY <1>1, <1>2
  <1>4. f = [fl EXCEPT ![b] = block]
    BY <1>2 DEF SlotReplaced
  <1>5. /\ f \in [Blocks -> [Slots -> SlotStates]] /\ f[b] = block
        /\ \A c \in Blocks : c # b => f[c] = fl[c]
    BY <1>1, <1>3, <1>4
  <1>6. ASSUME NEW c \in Blocks, NEW t \in Slots PROVE SlotInv(f[c][t], n)
    <2>1. CASE c # b
      BY <1>5, <2>1 DEF FlashInv
    <2>2. CASE c = b /\ t # s
      BY <1>3, <1>5, <2>2 DEF FlashInv
    <2>3. CASE c = b /\ t = s
      BY <1>3, <1>5, <2>3
    <2> QED BY <2>1, <2>2, <2>3
  <1> QED BY <1>3, <1>5, <1>6 DEF FlashInv

\* A block, or several, is replaced by slots of one kind.
BlocksReplaced(n, fl, B, slot, f) ==
    /\ n \in Nat /\ FlashInv(fl, n) /\ SlotInv(slot, n)
    /\ f = [b \in Blocks |-> IF b \in B THEN [s \in Slots |-> slot] ELSE fl[b]]

\* All slots of those blocks have changed, and nothing else.
LEMMA BlocksReplacedFields ==
    ASSUME NEW n, NEW fl, NEW B, NEW slot, NEW f, BlocksReplaced(n, fl, B, slot, f)
    PROVE  /\ FlashInv(f, n)
           /\ \A b \in Blocks : b \in B => \A s \in Slots : f[b][s] = slot
           /\ \A b \in Blocks : b \notin B => f[b] = fl[b]
  <1>0. FlashInv(fl, n) /\ SlotInv(slot, n)
    BY DEF BlocksReplaced
  <1>1. fl \in [Blocks -> [Slots -> SlotStates]] /\ slot \in SlotStates
    BY <1>0 DEF FlashInv, SlotInv
  <1>2. PICK block : block = [s \in Slots |-> slot]
    OBVIOUS
  <1>3. block \in [Slots -> SlotStates] /\ \A s \in Slots : block[s] = slot
    BY <1>1, <1>2
  <1>4. f = [b \in Blocks |-> IF b \in B THEN block ELSE fl[b]]
    BY <1>2 DEF BlocksReplaced
  <1>5. /\ f \in [Blocks -> [Slots -> SlotStates]]
        /\ \A b \in Blocks : b \in B => f[b] = block
        /\ \A b \in Blocks : b \notin B => f[b] = fl[b]
    BY <1>1, <1>3, <1>4
  <1>6. ASSUME NEW c \in Blocks, NEW t \in Slots PROVE SlotInv(f[c][t], n)
    BY <1>0, <1>3, <1>5 DEF FlashInv
  <1> QED BY <1>3, <1>5, <1>6 DEF FlashInv

\* Erasing or tearing one block.
OneBlock(fl, b, slot) == [fl EXCEPT ![b] = [s \in Slots |-> slot]]

\* That is a set of one block.
LEMMA OneBlockReplaced ==
    ASSUME NEW n \in Nat, NEW fl, FlashInv(fl, n), NEW b \in Blocks, NEW slot,
           SlotInv(slot, n), NEW f, f = OneBlock(fl, b, slot)
    PROVE  BlocksReplaced(n, fl, {b}, slot, f)
  <1>1. fl \in [Blocks -> [Slots -> SlotStates]] /\ slot \in SlotStates
    BY DEF FlashInv, SlotInv
  <1> QED BY <1>1 DEF OneBlock, BlocksReplaced

\* The next block is a block.
LEMMA NextBlockFacts ==
    ASSUME NEW b \in Blocks
    PROVE  NextBlock(b) \in Blocks
  BY MtdAssumption DEF NextBlock, Blocks

\* The slot behind the last one that is used is inside the block or its end.
LEMMA NextFreeFacts ==
    ASSUME NEW block
    PROVE  /\ NextFree(block) \in 0 .. SlotNum
           /\ 0 < NextFree(block) => \A t \in Slots :
                  NextFree(block) <= t => ~block[t].programmed
  <1> DEFINE used == {s \in Slots : block[s].programmed /\ 0 < s}
  <1>1. CASE used = {}
    <2>1. NextFree(block) = 0
      BY <1>1 DEF NextFree
    <2> QED BY <2>1, NumberFacts
  <1>2. CASE used # {}
    <2>1. SlotNum - 1 \in Nat /\ used \in SUBSET (0 .. (SlotNum - 1))
      BY NumberFacts DEF Slots
    <2>2. PICK m : m = Max(used) /\ m \in used /\ \A t \in used : t <= m
      BY <1>2, <2>1, MaxIsGreatest
    <2>3. NextFree(block) = m + 1
      BY <1>2, <2>2 DEF NextFree
    <2>4. m \in 0 .. (SlotNum - 1)
      BY <2>1, <2>2
    <2>5. ASSUME NEW t \in Slots, m + 1 <= t PROVE ~block[t].programmed
      <3>1. t \in Nat /\ 0 < t /\ ~(t <= m)
        BY <2>4, <2>5, NumberFacts
      <3> QED BY <2>2, <3>1
    <2> QED BY <2>3, <2>4, <2>5, NumberFacts
  <1> QED BY <1>1, <1>2


\* How many blocks there are.
LEMMA BlockCount == IsFiniteSet(Blocks) /\ Cardinality(Blocks) = BlockNum
  <1>1. 0 \in Int /\ BlockNum - 1 \in Int /\ ~(0 > BlockNum - 1)
    BY NumberFacts
  <1>2. IsFiniteSet(0 .. (BlockNum - 1))
        /\ Cardinality(0 .. (BlockNum - 1)) =
              IF 0 > BlockNum - 1 THEN 0 ELSE (BlockNum - 1) - 0 + 1
    BY <1>1, FS_Interval
  <1>3. Cardinality(0 .. (BlockNum - 1)) = (BlockNum - 1) - 0 + 1
    BY <1>1, <1>2, Zenon
  <1>4. (BlockNum - 1) - 0 + 1 = BlockNum
    BY NumberFacts
  <1> QED BY <1>2, <1>3, <1>4 DEF Blocks

\* There are good blocks, and the first of them is one.
LEMMA FirstGoodFacts ==
    ASSUME bad \subseteq Blocks, IsFiniteSet(bad), Cardinality(bad) <= MaxBad
    PROVE  FirstGood \in Blocks /\ FirstGood \notin bad
  <1>1. IsFiniteSet(Blocks) /\ Cardinality(Blocks) = BlockNum
    BY BlockCount
  <1>2. Blocks \ bad # {}
    <2> SUFFICES ASSUME Blocks \ bad = {} PROVE FALSE
      OBVIOUS
    <2>1. bad = Blocks
      OBVIOUS
    <2> QED BY <1>1, <2>1, NumberFacts
  <1>3. Blocks \ bad \in SUBSET Nat
    BY NumberFacts
  <1>4. Min(Blocks \ bad) \in Blocks \ bad
    BY <1>2, <1>3, MinIsLeast
  <1> QED BY <1>4 DEF FirstGood

\* Inside mtd_vendor_nand_write there is an image to write.
LEMMA WritingFacts ==
    ASSUME TypeInv, NandWriting
    PROVE  /\ pc \in {"format", "write"} /\ pc # "off" /\ pc # "idle" /\ count \in {0, 1}
           /\ g_vendor # Null /\ ImageInv(g_vendor, stamp)
           /\ stamp \in Nat /\ FlashInv(flash, stamp)
           /\ blk_offset \in Blocks /\ page_offset \in 0 .. SlotNum
           /\ page_offset < SlotNum => page_offset \in Slots
  <1>1. pc \in {"format", "write"} /\ count < 2 /\ count \in 0 .. 2
    BY DEF TypeInv, NandWriting
  <1>2. page_offset \in 0 .. SlotNum /\ (page_offset < SlotNum => page_offset \in Slots)
    BY NumberFacts DEF TypeInv, Slots
  <1> QED BY <1>1, <1>2 DEF TypeInv

\* What the slot holds after it is programmed.
LEMMA AfterProgramFacts ==
    ASSUME TypeInv, NandWriting
    PROVE  /\ SlotInv(AfterProgram, stamp)
           /\ AfterProgram.programmed = TRUE
           /\ flash[blk_offset][page_offset].programmed => ~Good(AfterProgram)
           /\ ~flash[blk_offset][page_offset].programmed =>
                 Good(AfterProgram) /\ AfterProgram.image = g_vendor
           /\ SlotInv(Torn, stamp) /\ Torn.programmed = TRUE /\ ~Good(Torn)
           /\ SlotInv(Erased, stamp) /\ Erased.programmed = FALSE /\ ~Good(Erased)
  <1>1. ImageInv(g_vendor, stamp) /\ stamp \in Nat
    BY WritingFacts
  <1>2. /\ SlotInv(Torn, stamp) /\ ~Good(Torn) /\ Torn.programmed = TRUE
        /\ SlotInv(Erased, stamp) /\ ~Good(Erased) /\ Erased.programmed = FALSE
        /\ SlotInv(Programmed(g_vendor), stamp) /\ Good(Programmed(g_vendor))
        /\ Programmed(g_vendor).programmed = TRUE /\ Programmed(g_vendor).image = g_vendor
    BY <1>1, NewSlots
  <1>3. CASE flash[blk_offset][page_offset].programmed
    <2>1. AfterProgram = Torn
      BY <1>3 DEF AfterProgram
    <2> QED BY <1>2, <1>3, <2>1
  <1>4. CASE ~flash[blk_offset][page_offset].programmed
    <2>1. AfterProgram = Programmed(g_vendor)
      BY <1>4 DEF AfterProgram
    <2> QED BY <1>2, <1>4, <2>1
  <1> QED BY <1>3, <1>4

\* A step of the writer changes the present slot, or the next block.
LEMMA SlotWritten ==
    ASSUME TypeInv, NandWriting, page_offset < SlotNum, NEW slot, SlotInv(slot, stamp),
           NEW f, f = WithSlot(slot)
    PROVE  /\ SlotReplaced(flash, blk_offset, page_offset, slot, f)
           /\ FlashInv(f, stamp)
  <1>1. SlotReplaced(flash, blk_offset, page_offset, slot, f)
    BY DEF WithSlot, SlotReplaced
  <1>2. /\ stamp \in Nat /\ FlashInv(flash, stamp) /\ blk_offset \in Blocks
        /\ page_offset \in Slots
    BY WritingFacts
  <1> QED BY <1>1, <1>2, SlotReplacedFields

\* Or, when the block is full, it changes the next one.
LEMMA BlockErased ==
    ASSUME TypeInv, NandWriting, NEW slot, SlotInv(slot, stamp),
           NEW f, f = [flash EXCEPT ![NextBlock(blk_offset)] = [s \in Slots |-> slot]]
    PROVE  /\ BlocksReplaced(stamp, flash, {NextBlock(blk_offset)}, slot, f)
           /\ FlashInv(f, stamp)
  <1>1. /\ stamp \in Nat /\ FlashInv(flash, stamp) /\ NextBlock(blk_offset) \in Blocks
    BY WritingFacts, NextBlockFacts
  <1>2. f = OneBlock(flash, NextBlock(blk_offset), slot)
    BY DEF OneBlock
  <1>3. BlocksReplaced(stamp, flash, {NextBlock(blk_offset)}, slot, f)
    BY <1>1, <1>2, OneBlockReplaced
  <1> QED BY <1>3, BlocksReplacedFields

\* The initial states.
LEMMA InitTypeInv == Init => TypeInv
  <1> SUFFICES ASSUME Init PROVE TypeInv
    OBVIOUS
  <1>1. stamp = 0 /\ stamp \in Nat
    BY DEF Init
  <1>2. SlotInv(Erased, 0) /\ Erased \in SlotStates
    BY FreshImageInv, NewSlots DEF SlotInv
  <1>3. FlashInv(flash, stamp)
    <2>1. flash = [b \in Blocks |-> ErasedBlock] /\ ErasedBlock = [s \in Slots |-> Erased]
      BY DEF Init, ErasedBlock
    <2> QED BY <1>1, <1>2, <2>1 DEF FlashInv
  <1>4. /\ g_vendor = Null /\ blk_offset = 0 /\ page_offset = 0 /\ pc = "off" /\ count = 0
        /\ faults = 0 /\ suspect = FALSE
        /\ bad \subseteq Blocks /\ Cardinality(bad) <= MaxBad
    BY DEF Init
  <1>5. IsFiniteSet(bad)
    <2> QED BY <1>4, BlockCount, FS_Subset
  <1>6. 0 \in Blocks /\ 0 \in 0 .. SlotNum /\ 0 \in 0 .. 2 /\ 0 \in 0 .. MaxFaults
    BY NumberFacts
  <1> QED BY <1>1, <1>3, <1>4, <1>5, <1>6 DEF TypeInv

\* A boot that finds an image.
LEMMA BootFoundTypeInv ==
    ASSUME TypeInv, BootFound
    PROVE  TypeInv'
  <1>1. /\ Candidates(flash) # {} /\ blk_offset' = NewestBlock(flash)
        /\ page_offset' = NextFree(flash[blk_offset'])
        /\ g_vendor' = LastImage(flash[blk_offset']) /\ pc' = "idle"
        /\ UNCHANGED <<bad, flash, suspect, count, stamp, faults>>
    BY DEF BootFound, flashVars
  <1>2. PICK b : b = blk_offset' /\ b \in Candidates(flash)
    BY <1>1, NewestBlockFacts DEF TypeInv
  <1>3. b \in Blocks /\ ImageInv(LastImage(flash[b]), stamp)
    BY <1>2, CandidateFacts, LastInv DEF TypeInv
  <1>4. NextFree(flash[b]) \in 0 .. SlotNum
    BY NextFreeFacts
  <1>5. g_vendor' # Null
    BY <1>1, <1>2, <1>3, ImageFacts DEF ImageInv
  <1> QED BY <1>1, <1>2, <1>3, <1>4, <1>5 DEF TypeInv

\* A boot that finds none.
LEMMA BootFormatTypeInv ==
    ASSUME TypeInv, BootFormat
    PROVE  TypeInv'
  <1>1. /\ g_vendor' = FreshImage /\ blk_offset' = FirstGood /\ page_offset' = 0
        /\ pc' = "format" /\ count' = 0
        /\ UNCHANGED <<bad, suspect, stamp, faults>>
    BY DEF BootFormat
  <1>3. stamp \in Nat /\ FlashInv(flash, stamp) /\ FirstGood \in Blocks
    BY FirstGoodFacts DEF TypeInv
  <1>4. ImageInv(FreshImage, stamp) /\ SlotInv(Erased, stamp) /\ FreshImage # Null
    BY <1>3, FreshImageInv, NewSlots, ImageFacts DEF ImageInv
  <1>5. FlashInv(flash', stamp)
    <2>1. BlocksReplaced(stamp, flash, FormatErased, Erased, flash')
      BY <1>3, <1>4 DEF BootFormat, BlocksReplaced, ErasedBlock
    <2> QED BY <2>1, BlocksReplacedFields
  <1>6. 0 \in 0 .. SlotNum /\ 0 \in 0 .. 2
    BY NumberFacts
  <1> QED BY <1>1, <1>3, <1>4, <1>5, <1>6 DEF TypeInv

\* A write in memory.
LEMMA WriteTypeInv ==
    ASSUME TypeInv, NEW id \in Ids, NEW size \in Sizes, mtd_vendor_write(id, size)
    PROVE  TypeInv'
  <1>1. /\ pc = "idle" /\ Fits(g_vendor.table, id, size) /\ stamp' = stamp + 1
        /\ g_vendor' = Image(NewTable(id, size, stamp + 1), g_vendor.version + 1)
        /\ pc' = "write" /\ count' = 0
        /\ UNCHANGED <<bad, flash, suspect, blk_offset, page_offset, faults>>
    BY DEF mtd_vendor_write, flashVars, nandVars
  <1>2. ImageInv(g_vendor, stamp) /\ stamp \in Nat
    BY <1>1 DEF TypeInv
  <1>3. ImageInv(g_vendor', stamp')
    BY <1>1, <1>2, NewImageWrites
  <1>4. FlashInv(flash', stamp') /\ stamp' \in Nat
    BY <1>1, <1>2, LaterFlash DEF TypeInv
  <1>5. g_vendor' # Null
    BY <1>3, ImageFacts DEF ImageInv
  <1> QED BY <1>1, <1>3, <1>4, <1>5 DEF TypeInv

\* The next block.
LEMMA NextBlockTypeInv ==
    ASSUME TypeInv, SkipBad \/ EraseNext
    PROVE  TypeInv'
  <1>1. NandWriting
    BY DEF SkipBad, EraseNext, BlockFull
  <1>2. SlotInv(Erased, stamp) /\ NextBlock(blk_offset) \in Blocks
    BY <1>1, AfterProgramFacts, WritingFacts, NextBlockFacts
  <1>3. /\ blk_offset' = NextBlock(blk_offset)
        /\ UNCHANGED <<bad, suspect, g_vendor, pc, count, stamp>>
    BY DEF SkipBad, EraseNext, flashVars
  <1>4. /\ \/ flash' = flash
           \/ flash' = [flash EXCEPT ![NextBlock(blk_offset)] = [s \in Slots |-> Erased]]
        /\ page_offset' = page_offset \/ page_offset' = 0
        /\ faults' = faults \/ (faults < MaxFaults /\ faults' = faults + 1)
    BY DEF SkipBad, EraseNext, flashVars, PutFlash, ErasedBlock
  <1>5. FlashInv(flash', stamp)
    <2>1. CASE flash' = flash
      BY <2>1 DEF TypeInv
    <2>2. CASE flash' = [flash EXCEPT ![NextBlock(blk_offset)] = [s \in Slots |-> Erased]]
      BY <1>1, <1>2, <2>2, BlockErased
    <2> QED BY <1>4, <2>1, <2>2
  <1>6. faults' \in 0 .. MaxFaults /\ page_offset' \in 0 .. SlotNum
    BY <1>4, NumberFacts DEF TypeInv
  <1> QED BY <1>2, <1>3, <1>5, <1>6 DEF TypeInv

\* A slot is programmed.
LEMMA ProgramTypeInv ==
    ASSUME TypeInv, ProgramStep
    PROVE  TypeInv'
  <1>1. /\ NandWriting /\ page_offset < SlotNum /\ page_offset' = page_offset + 1
        /\ UNCHANGED <<bad, blk_offset, g_vendor, pc, stamp>>
    BY DEF ProgramStep
  <1>2. /\ flash' = WithSlot(AfterProgram) \/ flash' = WithSlot(Torn)
        /\ count' = count + 1 \/ count' = count
        /\ faults' = faults \/ (faults < MaxFaults /\ faults' = faults + 1)
        /\ suspect' \in BOOLEAN
    BY DEF ProgramStep, PutFlash, SuspectAfter, NotTaken, Good, TypeInv
  <1>3. FlashInv(flash', stamp)
    <2>1. SlotInv(AfterProgram, stamp) /\ SlotInv(Torn, stamp)
      BY <1>1, AfterProgramFacts
    <2>2. CASE flash' = WithSlot(AfterProgram)
      BY <1>1, <2>1, <2>2, SlotWritten
    <2>3. CASE flash' = WithSlot(Torn)
      BY <1>1, <2>1, <2>3, SlotWritten
    <2> QED BY <1>2, <2>2, <2>3
  <1>4. count' \in 0 .. 2
    <2>1. count \in {0, 1}
      BY <1>1, WritingFacts
    <2> QED BY <1>2, <2>1
  <1>5. page_offset' \in 0 .. SlotNum /\ faults' \in 0 .. MaxFaults
    BY <1>1, <1>2, NumberFacts DEF TypeInv
  <1> QED BY <1>1, <1>2, <1>3, <1>4, <1>5 DEF TypeInv

\* Power is lost, or a slot.
LEMMA PowerTypeInv ==
    ASSUME TypeInv, NEW fl, LosePower(fl), FlashInv(fl, stamp), suspect' \in BOOLEAN
    PROVE  TypeInv'
  <1>1. /\ pc' = "off" /\ count' = 0 /\ g_vendor' = Null /\ blk_offset' = 0
        /\ page_offset' = 0 /\ flash' = fl
        /\ UNCHANGED <<bad, stamp, faults>>
    BY DEF LosePower, PutFlash
  <1>2. 0 \in Blocks /\ 0 \in 0 .. SlotNum /\ 0 \in 0 .. 2
    BY NumberFacts
  <1> QED BY <1>1, <1>2 DEF TypeInv

\* A slot rots: it becomes a torn one.
LEMMA RotTypeInv ==
    ASSUME TypeInv, NEW b \in Blocks, NEW s \in Slots, Rot(b, s)
    PROVE  /\ TypeInv'
           /\ SlotReplaced(flash, b, s, Torn, flash')
  <1>1. /\ faults < MaxFaults /\ faults' = faults + 1 /\ Good(flash[b][s])
        /\ flash' = [flash EXCEPT ![b][s] = Torn]
        /\ suspect' \in BOOLEAN
        /\ UNCHANGED <<bad, blk_offset, page_offset, g_vendor, pc, count, stamp>>
    BY DEF Rot, PutFlash, nandVars, Leading, TypeInv
  <1>2. stamp \in Nat /\ FlashInv(flash, stamp) /\ SlotInv(Torn, stamp)
    BY FreshImageInv, NewSlots DEF TypeInv
  <1>3. SlotReplaced(flash, b, s, Torn, flash')
    BY <1>1 DEF SlotReplaced
  <1>4. FlashInv(flash', stamp)
    BY <1>2, <1>3, SlotReplacedFields
  <1>5. faults' \in 0 .. MaxFaults
    BY <1>1, NumberFacts DEF TypeInv
  <1> QED BY <1>1, <1>3, <1>4, <1>5 DEF TypeInv

\* Every step.
LEMMA StepTypeInv == TypeInv /\ [Undisturbed]_memVars => TypeInv'
  <1> SUFFICES ASSUME TypeInv, [Undisturbed]_memVars PROVE TypeInv'
    OBVIOUS
  <1>1. CASE BootFound \/ BootFormat
    BY <1>1, BootFoundTypeInv, BootFormatTypeInv
  <1>2. CASE \E id \in Ids, size \in Sizes : mtd_vendor_write(id, size)
    BY <1>2, WriteTypeInv
  <1>3. CASE SkipBad \/ EraseNext
    BY <1>3, NextBlockTypeInv
  <1>4. CASE ProgramStep
    BY <1>4, ProgramTypeInv
  <1>5. CASE NandReturn
    <2>1. /\ pc # "off" /\ pc' = "idle" /\ count' = 0
          /\ UNCHANGED <<bad, flash, suspect, blk_offset, page_offset, g_vendor, stamp, faults>>
      BY <1>5 DEF NandReturn, flashVars, nandVars
    <2> QED BY <2>1 DEF TypeInv
  <1>6. CASE PowerLoss
    <2>1. LosePower(flash) /\ suspect' = suspect
      BY <1>6 DEF PowerLoss
    <2> QED BY <2>1, PowerTypeInv DEF TypeInv
  <1>7. CASE PowerLossInProgram
    <2>1. NandWriting /\ page_offset < SlotNum /\ LosePower(WithSlot(Torn))
          /\ suspect' \in BOOLEAN
      BY <1>7 DEF PowerLossInProgram
    <2>2. FlashInv(WithSlot(Torn), stamp)
      BY <2>1, AfterProgramFacts, SlotWritten
    <2> QED BY <2>1, <2>2, PowerTypeInv
  <1>8. CASE PowerLossInErase
    <2>1. PICK f : f = [flash EXCEPT ![NextBlock(blk_offset)] = [s \in Slots |-> Torn]]
      OBVIOUS
    <2>2. NandWriting /\ LosePower(f) /\ suspect' = suspect
      BY <1>8, <2>1 DEF PowerLossInErase, BlockFull
    <2>3. FlashInv(f, stamp)
      BY <2>1, <2>2, AfterProgramFacts, BlockErased
    <2> QED BY <2>2, <2>3, PowerTypeInv DEF TypeInv
  <1>9. CASE \E b \in Blocks, s \in Slots : Rot(b, s)
    BY <1>9, RotTypeInv
  <1>10. CASE UNCHANGED memVars
    BY <1>10 DEF memVars, flashVars, nandVars, TypeInv
  <1> QED BY <1>1, <1>2, <1>3, <1>4, <1>5, <1>6, <1>7, <1>8, <1>9, <1>10 DEF Undisturbed, NandStep

\* A step is one that nobody disturbs, or it tears g_vendor; then the model ends.
LEMMA NextSteps ==
    ASSUME [Next]_vars
    PROVE  /\ torn => torn'
           /\ torn' \/ (~torn /\ [Undisturbed]_memVars)
           /\ torn' = torn \/ torn' = TRUE
           /\ torn' = torn => [Undisturbed]_memVars
  <1>1. CASE UNCHANGED vars
    BY <1>1 DEF vars
  <1>2. CASE ~torn /\ Undisturbed /\ UNCHANGED torn
    BY <1>2
  <1>3. CASE ~torn /\ \E id \in Ids, size \in Sizes : Race(id, size)
    BY <1>3 DEF Race
  <1> QED BY <1>1, <1>2, <1>3 DEF Next

\* torn is a flag.
LEMMA TornFlag == Spec => [](torn \in BOOLEAN)
  <1>1. Init => torn \in BOOLEAN
    <2>1. Init => torn = FALSE
      BY DEF Init
    <2>2. torn = FALSE => torn \in BOOLEAN
      BY Zenon
    <2> QED BY <2>1, <2>2
  <1>2. torn \in BOOLEAN /\ [Next]_vars => (torn \in BOOLEAN)'
    <2> SUFFICES ASSUME torn \in BOOLEAN, [Next]_vars PROVE torn' \in BOOLEAN
      OBVIOUS
    <2>1. torn' = torn \/ torn' = TRUE
      BY NextSteps
    <2> QED BY <2>1, Zenon
  <1> QED BY <1>1, <1>2, PTL DEF Spec

\* So types and tables are right in every reachable state that is not torn.
LEMMA AlwaysTypeInv == Spec => [](torn \/ TypeInv)
  <1>1. (torn \/ TypeInv) /\ [Next]_vars => (torn \/ TypeInv)'
    <2> SUFFICES ASSUME torn \/ TypeInv, [Next]_vars PROVE torn' \/ TypeInv'
      OBVIOUS
    <2> QED BY NextSteps, StepTypeInv
  <1> QED BY <1>1, InitTypeInv, PTL DEF Spec

\* While no two threads have met in g_vendor and nand_info, the position of the
\* ring stays inside the partition (mtd_vendor_nand_write,
\* mtd_vendor_storage_init), and the image in memory is a whole image.
THEOREM TypeCorrect == Spec => []TypeOK
  <1>1. torn \in BOOLEAN /\ (torn \/ TypeInv) => TypeOK
    BY DEF TypeInv, TypeOK, ImageInv
  <1> QED BY <1>1, AlwaysTypeInv, TornFlag, PTL

\* While no two threads have met in g_vendor, the table in memory, as written and
\* as read back after any loss, is well formed and its free space is exactly
\* what the items leave (mtd_vendor_write computes it from the offset, where
\* the eMMC driver subtracts).
THEOREM TablesStayExact == Spec => []TablesExact
  <1>1. torn \/ TypeInv => TablesExact
    <2> SUFFICES ASSUME TypeInv, g_vendor # Null
                 PROVE  /\ TableConsistent(g_vendor.table)
                        /\ g_vendor.table.free_offset + g_vendor.table.free_size = DataSize
      BY DEF TablesExact
    <2>1. TableExact(g_vendor.table)
      BY DEF TypeInv, ImageInv
    <2> QED BY <2>1, TableInvConsistent DEF TableExact
  <1> QED BY <1>1, AlwaysTypeInv, PTL

-----------------------------------------------------------------------------
(* One block: the order of its images, and where the next one goes. *)

\* The images of a block come in the order of their versions, the copies of one
\* image one after the other.
InOrder(block) ==
    \A s, t \in Slots :
        s < t /\ Good(block[s]) /\ Good(block[t]) =>
            /\ Version(block[s]) <= Version(block[t])
            /\ Version(block[s]) = Version(block[t]) => block[s].image = block[t].image

\* A block is used from its first slot on.
FilledUp(block) ==
    block[0].programmed = FALSE => \A s \in Slots : block[s].programmed = FALSE

BlockInv(block, n) ==
    /\ \A s \in Slots : SlotInv(block[s], n)
    /\ FilledUp(block)
    /\ Good(block[0]) => InOrder(block)

\* A block whose slot number page is to be programmed with an image: unless its
\* first slot is lost, the slots from there on are free, and no slot holds a
\* newer image or another one of the same version.
Ready(block, g, page) ==
    /\ 0 < page => block[0].programmed = TRUE
    /\ 0 < page /\ Good(block[0]) =>
          \A t \in Slots : page <= t => block[t].programmed = FALSE
    /\ Good(block[0]) =>
          \A s \in Slots : Good(block[s]) =>
              Version(block[s]) < g.version \/ block[s].image = g

\* A block that begins with the version of an image holds nothing else.
Begun(block, g) ==
    Good(block[0]) /\ Version(block[0]) = g.version =>
        \A s \in Slots : Good(block[s]) => block[s].image = g

\* One slot of a block is replaced.
BlockReplaced(block, s, slot, new) ==
    new[s] = slot /\ \A t \in Slots : t # s => new[t] = block[t]

\* A slot that is not programmed holds no image; a good one has a version.
LEMMA SlotFacts ==
    ASSUME NEW n \in Nat, NEW slot, SlotInv(slot, n)
    PROVE  /\ slot.programmed = FALSE => ~Good(slot)
           /\ slot.programmed \in BOOLEAN
           /\ Good(slot) => Version(slot) \in Nat /\ ImageInv(slot.image, n)
  BY ImageFacts DEF SlotInv, SlotStates, Version, ImageInv

\* The slot is programmed, with the image or with nothing.
Programs(block, g, page, slot, n) ==
    /\ BlockInv(block, n) /\ ImageInv(g, n) /\ page \in Slots
    /\ Ready(block, g, page)
    /\ SlotInv(slot, n) /\ slot.programmed = TRUE
    /\ Good(slot) => block[page].programmed = FALSE /\ slot.image = g

\* Then the good slots are that one and those before it.
LEMMA ProgramGood ==
    ASSUME NEW n \in Nat, NEW block, NEW g, NEW page, NEW slot, NEW new,
           Programs(block, g, page, slot, n), BlockReplaced(block, page, slot, new),
           Good(new[0])
    PROVE  /\ \A t \in Slots : page < t => new[t].programmed = FALSE /\ ~Good(new[t])
           /\ \A t \in Slots : t < page =>
                  new[t] = block[t] /\ Good(block[0])
           /\ new[page] = slot
  <1>0. page \in Slots /\ Slots \subseteq Nat /\ 0 \in Slots
    BY NumberFacts DEF Programs
  <1>1. new[page] = slot /\ \A t \in Slots : t # page => new[t] = block[t]
    BY DEF BlockReplaced
  <1>2. \A t \in Slots : SlotInv(block[t], n)
    BY DEF Programs, BlockInv
  <1>3. CASE page = 0
    <2>1. block[0].programmed = FALSE
      BY <1>1, <1>3 DEF Programs
    <2>2. \A t \in Slots : block[t].programmed = FALSE
      BY <2>1 DEF Programs, BlockInv, FilledUp
    <2>3. ASSUME NEW t \in Slots, page < t
          PROVE  new[t].programmed = FALSE /\ ~Good(new[t])
      <3>1. new[t] = block[t]
        BY <1>0, <1>1, <2>3
      <3> QED BY <1>2, <2>2, <3>1, SlotFacts
    <2>4. \A t \in Slots : ~(t < page)
      BY <1>0, <1>3
    <2> QED BY <1>1, <2>3, <2>4
  <1>4. CASE page # 0
    <2>1. 0 < page /\ new[0] = block[0]
      BY <1>0, <1>1, <1>4
    <2>2. Good(block[0])
      BY <2>1
    <2>3. \A t \in Slots : page <= t => block[t].programmed = FALSE
      BY <2>1, <2>2 DEF Programs, Ready
    <2>4. ASSUME NEW t \in Slots, page < t
          PROVE  new[t].programmed = FALSE /\ ~Good(new[t])
      <3>1. t # page /\ page <= t
        BY <1>0, <2>4
      <3>2. new[t] = block[t] /\ block[t].programmed = FALSE
        BY <1>1, <2>3, <3>1
      <3> QED BY <1>2, <3>2, SlotFacts
    <2>5. \A t \in Slots : t < page => t # page
      BY <1>0
    <2> QED BY <1>1, <2>2, <2>4, <2>5
  <1> QED BY <1>3, <1>4

\* It stays in order, and the image is its last one.
LEMMA ProgramBlock ==
    ASSUME NEW n \in Nat, NEW block, NEW g, NEW page, NEW slot, NEW new,
           Programs(block, g, page, slot, n), BlockReplaced(block, page, slot, new)
    PROVE  /\ BlockInv(new, n)
           /\ Ready(new, g, page + 1)
           /\ Begun(block, g) => Begun(new, g)
           /\ Good(slot) /\ Good(new[0]) => LastImage(new) = g
  <1>0. page \in Slots /\ page \in Nat /\ Slots \subseteq Nat /\ 0 \in Slots
    BY NumberFacts DEF Programs
  <1>1. new[page] = slot /\ \A t \in Slots : t # page => new[t] = block[t]
    BY DEF BlockReplaced
  <1>2. /\ BlockInv(block, n) /\ Ready(block, g, page) /\ ImageInv(g, n)
        /\ SlotInv(slot, n) /\ slot.programmed = TRUE
        /\ Good(slot) => slot.image = g
    BY DEF Programs
  <1>3. g.version \in Nat
    BY <1>2, ImageFacts DEF ImageInv
  <1>4. \A t \in Slots : SlotInv(block[t], n) /\ SlotInv(new[t], n)
    BY <1>1, <1>2 DEF BlockInv
  <1>5. new[0].programmed = TRUE
    <2>1. CASE page = 0
      BY <1>1, <1>2, <2>1
    <2>2. CASE page # 0
      <3>1. new[0] = block[0] /\ 0 < page
        BY <1>0, <1>1, <2>2
      <3> QED BY <1>2, <3>1 DEF Ready
    <2> QED BY <2>1, <2>2
  <1>6. ASSUME Good(new[0]), NEW s \in Slots, Good(new[s])
        PROVE  /\ s <= page
               /\ Version(new[s]) < g.version \/ new[s].image = g
               /\ s < page => Good(block[s]) /\ Good(block[0]) /\ new[s] = block[s]
               /\ s = page => Good(slot) /\ new[s].image = g
    <2>0. /\ \A t \in Slots : page < t => new[t].programmed = FALSE /\ ~Good(new[t])
          /\ \A t \in Slots : t < page => new[t] = block[t] /\ Good(block[0])
      BY <1>6, ProgramGood
    <2>1. s <= page
      BY <1>0, <1>6, <2>0
    <2>2. CASE s = page
      <3>1. Good(slot) /\ new[s].image = g
        BY <1>1, <1>2, <1>6, <2>2
      <3>2. ~(s < page)
        BY <1>0, <2>2
      <3> QED BY <2>1, <3>1, <3>2
    <2>3. CASE s < page
      <3>1. new[s] = block[s] /\ Good(block[0]) /\ Good(block[s])
        BY <1>6, <2>0, <2>3
      <3>2. s # page
        BY <1>0, <2>3
      <3> QED BY <1>2, <2>1, <3>1, <3>2 DEF Ready
    <2> QED BY <1>0, <2>1, <2>2, <2>3
  <1>7. BlockInv(new, n)
    <2>1. ASSUME Good(new[0]), NEW s \in Slots, NEW t \in Slots, s < t,
                 Good(new[s]), Good(new[t])
          PROVE  /\ Version(new[s]) <= Version(new[t])
                 /\ Version(new[s]) = Version(new[t]) => new[s].image = new[t].image
      <3>1. t <= page /\ s < page /\ s \in Nat /\ t \in Nat
        BY <1>0, <1>6, <2>1
      <3>2. Good(block[s]) /\ Good(block[0]) /\ new[s] = block[s]
            /\ (Version(new[s]) < g.version \/ new[s].image = g)
        BY <1>6, <2>1, <3>1
      <3>3. CASE t = page
        <4>1. new[t].image = g
          BY <1>6, <2>1, <3>3
        <4>2. Version(new[t]) = g.version
          BY <4>1 DEF Version
        <4>3. Version(new[s]) \in Nat
          BY <1>4, <2>1, SlotFacts
        <4>4. CASE Version(new[s]) < g.version
          BY <1>3, <4>2, <4>3, <4>4
        <4>5. CASE new[s].image = g
          <5>1. Version(new[s]) = g.version
            BY <4>5 DEF Version
          <5> QED BY <1>3, <4>1, <4>2, <4>5, <5>1
        <4> QED BY <3>2, <4>4, <4>5
      <3>4. CASE t # page
        <4>1. t < page
          BY <1>0, <3>1, <3>4
        <4>2. Good(block[t]) /\ new[t] = block[t]
          BY <1>6, <2>1, <4>1
        <4>3. InOrder(block)
          BY <1>2, <3>2 DEF BlockInv
        <4> QED BY <2>1, <3>2, <4>2, <4>3 DEF InOrder
      <3> QED BY <3>3, <3>4
    <2>2. Good(new[0]) => InOrder(new)
      BY <2>1 DEF InOrder
    <2>3. FilledUp(new)
      BY <1>5 DEF FilledUp
    <2> QED BY <1>4, <2>2, <2>3 DEF BlockInv
  <1>8. Ready(new, g, page + 1)
    <2>1. ASSUME Good(new[0]), NEW t \in Slots, page + 1 <= t
          PROVE  new[t].programmed = FALSE
      <3>1. page < t
        BY <1>0, <2>1
      <3>2. \A r \in Slots : page < r => new[r].programmed = FALSE /\ ~Good(new[r])
        BY <2>1, ProgramGood
      <3> QED BY <3>1, <3>2
    <2> QED BY <1>5, <1>6, <2>1 DEF Ready
  <1>9. ASSUME Begun(block, g) PROVE Begun(new, g)
    <2> SUFFICES ASSUME Good(new[0]), Version(new[0]) = g.version,
                        NEW s \in Slots, Good(new[s])
                 PROVE  new[s].image = g
      BY DEF Begun
    <2>1. CASE s = page
      BY <1>6, <2>1
    <2>2. CASE s # page
      <3>1. s <= page
        BY <1>6
      <3>2. s < page /\ page # 0
        BY <1>0, <2>2, <3>1
      <3>3. Good(block[s]) /\ new[s] = block[s]
        BY <1>6, <3>2
      <3>4. new[0] = block[0]
        BY <1>0, <1>1, <3>2
      <3> QED BY <1>9, <3>3, <3>4 DEF Begun
    <2> QED BY <2>1, <2>2
  <1>10. ASSUME Good(slot), Good(new[0]) PROVE LastImage(new) = g
    <2>1. Good(new[page]) /\ new[page].image = g
      BY <1>1, <1>2, <1>10
    <2>2. \A t \in Slots : Good(new[t]) => t <= page
      BY <1>6, <1>10
    <2>3. IsLast(new, page)
      BY <1>0, <2>1, <2>2 DEF IsLast
    <2> QED BY <2>1, <2>3, LastFound
  <1> QED BY <1>7, <1>8, <1>9, <1>10

\* A slot rots: what is left is as it was.
LEMMA RotBlock ==
    ASSUME NEW n \in Nat, NEW block, BlockInv(block, n), NEW s \in Slots, Good(block[s]),
           SlotInv(Torn, n), NEW new, BlockReplaced(block, s, Torn, new)
    PROVE  /\ BlockInv(new, n)
           /\ \A t \in Slots : Good(new[t]) => t # s /\ new[t] = block[t]
           /\ \A g, page : Ready(block, g, page) => Ready(new, g, page)
           /\ \A g : Begun(block, g) => Begun(new, g)
  <1>0. 0 \in Slots
    BY NumberFacts
  <1>1. new[s] = Torn /\ \A t \in Slots : t # s => new[t] = block[t]
    BY DEF BlockReplaced
  <1>2. ~Good(Torn) /\ Torn.programmed = TRUE
    BY DEF Torn, Good
  <1>3. \A t \in Slots : Good(new[t]) => t # s /\ new[t] = block[t]
    BY <1>1, <1>2
  <1>4. \A t \in Slots : SlotInv(block[t], n) /\ SlotInv(new[t], n)
    BY <1>1 DEF BlockInv
  <1>5. block[s].programmed = TRUE
    BY <1>4 DEF SlotInv
  <1>6. \A t \in Slots : new[t].programmed = block[t].programmed
    BY <1>1, <1>2, <1>5
  <1>7. FilledUp(new)
    BY <1>0, <1>6 DEF FilledUp, BlockInv
  <1>8. Good(new[0]) => InOrder(new)
    BY <1>0, <1>3 DEF InOrder, BlockInv
  <1>9. ASSUME NEW g, NEW page, Ready(block, g, page) PROVE Ready(new, g, page)
    <2>1. 0 < page => new[0].programmed = TRUE
      BY <1>0, <1>6, <1>9 DEF Ready
    <2>2. Good(new[0]) => Good(block[0])
      BY <1>0, <1>3
    <2>3. 0 < page /\ Good(new[0]) => \A t \in Slots : page <= t => new[t].programmed = FALSE
      BY <1>6, <1>9, <2>2 DEF Ready
    <2>4. Good(new[0]) => \A t \in Slots : Good(new[t]) =>
              Version(new[t]) < g.version \/ new[t].image = g
      BY <1>3, <1>9, <2>2 DEF Ready
    <2> QED BY <2>1, <2>3, <2>4 DEF Ready
  <1>10. ASSUME NEW g, Begun(block, g) PROVE Begun(new, g)
    BY <1>0, <1>3, <1>10 DEF Begun
  <1> QED BY <1>3, <1>4, <1>7, <1>8, <1>9, <1>10 DEF BlockInv

\* The last image of the block stays, when another copy is left.
LEMMA RotLast ==
    ASSUME NEW n \in Nat, NEW block, BlockInv(block, n), Good(block[0]),
           NEW s \in Slots, Good(block[s]), NEW new, BlockReplaced(block, s, Torn, new),
           NEW t \in Slots, t # s, block[t] = block[s]
    PROVE  LastImage(new) = LastImage(block)
  <1>0. Slots \subseteq Nat
    BY NumberFacts
  <1>1. new[s] = Torn /\ \A r \in Slots : r # s => new[r] = block[r]
    BY DEF BlockReplaced
  <1>2. ~Good(Torn)
    BY DEF Torn, Good
  <1>3. PICK l \in Slots : IsLast(block, l)
    BY LastExists
  <1>4. PICK k \in Slots : IsLast(new, k)
    <2>1. Good(new[t])
      BY <1>1
    <2> QED BY <2>1, LastExists
  <1>5. LastImage(block) = block[l].image /\ LastImage(new) = new[k].image
    BY <1>3, <1>4, LastFound
  <1>6. k # s /\ new[k] = block[k] /\ Good(block[k]) /\ Good(new[k])
    BY <1>1, <1>2, <1>4 DEF IsLast
  <1>7. CASE l # s
    <2>1. Good(new[l])
      BY <1>1, <1>3, <1>7 DEF IsLast
    <2>2. l <= k /\ k <= l
      BY <1>3, <1>4, <1>6, <2>1 DEF IsLast
    <2>3. l = k
      BY <1>0, <2>2
    <2> QED BY <1>5, <1>6, <2>3
  <1>8. CASE l = s
    <2>1. t <= k /\ k <= s
      <3>1. Good(new[t])
        BY <1>1
      <3> QED BY <1>3, <1>4, <1>6, <1>8, <3>1 DEF IsLast
    <2>2. k < s
      BY <1>0, <1>6, <2>1
    <2>3. InOrder(block)
      BY DEF BlockInv
    <2>4. /\ Version(block[k]) <= Version(block[s])
          /\ Version(block[k]) = Version(block[s]) => block[k].image = block[s].image
      BY <1>6, <2>2, <2>3 DEF InOrder
    <2>5. Version(block[t]) = Version(block[s]) /\ Good(block[t])
      OBVIOUS
    <2>6. Version(block[s]) <= Version(block[k])
      <3>1. CASE t = k
        <4>1. Version(block[s]) \in Nat
          BY SlotFacts DEF BlockInv
        <4> QED BY <2>5, <3>1, <4>1
      <3>2. CASE t # k
        <4>1. t < k
          BY <1>0, <2>1, <3>2
        <4> QED BY <1>6, <2>3, <2>5, <4>1 DEF InOrder
      <3> QED BY <3>1, <3>2
    <2>7. Version(block[s]) \in Nat /\ Version(block[k]) \in Nat
      BY <1>6, SlotFacts DEF BlockInv
    <2>8. Version(block[k]) = Version(block[s])
      BY <2>4, <2>6, <2>7
    <2> QED BY <1>5, <1>6, <1>8, <2>4, <2>8
  <1> QED BY <1>7, <1>8

-----------------------------------------------------------------------------
(* The block that a boot takes, over a change of the flash. *)

\* The blocks that begin with an image are among those before, and so begin;
\* the newest of them end as before.
Likewise(fl, f, h) ==
    /\ h \in Candidates(f) /\ Candidates(f) \subseteq Candidates(fl)
    /\ \A c \in Candidates(f) : Version(f[c][0]) = Version(fl[c][0])
    /\ \A c \in Candidates(f) :
          Version(fl[c][0]) = Version(fl[h][0]) => LastImage(f[c]) = LastImage(fl[c])

\* Then a boot finds what it found.
LEMMA SameHead ==
    ASSUME NEW n \in Nat, NEW fl, FlashInv(fl, n), NEW f, FlashInv(f, n), NEW h,
           NewestIs(fl, h), Likewise(fl, f, h)
    PROVE  NewestIs(f, h) /\ Found(f) = Found(fl)
  <1>1. LastImage(f[h]) = LastImage(fl[h]) /\ h \in Candidates(f)
    BY DEF Likewise
  <1>2. ASSUME NEW b \in Candidates(f)
        PROVE  /\ Version(f[b][0]) <= Version(f[h][0])
               /\ Version(f[b][0]) = Version(f[h][0]) /\ b < h =>
                      LastImage(f[b]) = LastImage(f[h])
    <2>1. /\ b \in Candidates(fl) /\ Version(f[b][0]) = Version(fl[b][0])
          /\ Version(f[h][0]) = Version(fl[h][0])
      BY DEF Likewise
    <2>2. Version(fl[b][0]) <= Version(fl[h][0])
      BY <2>1 DEF NewestIs
    <2>3. ASSUME Version(f[b][0]) = Version(f[h][0]), b < h
          PROVE  LastImage(f[b]) = LastImage(f[h])
      <3>1. LastImage(fl[b]) = LastImage(fl[h])
        BY <2>1, <2>3 DEF NewestIs
      <3>2. LastImage(f[b]) = LastImage(fl[b])
        BY <2>1, <2>3 DEF Likewise
      <3> QED BY <1>1, <3>1, <3>2
    <2> QED BY <2>1, <2>2, <2>3
  <1>3. NewestIs(f, h)
    BY <1>1, <1>2 DEF NewestIs
  <1>4. Found(f) = LastImage(f[h]) /\ Found(fl) = LastImage(fl[h])
    BY <1>3, NewestFound
  <1> QED BY <1>1, <1>3, <1>4

\* No image has changed.
LEMMA SameImages ==
    ASSUME NEW n \in Nat, NEW fl, FlashInv(fl, n), NEW f, FlashInv(f, n),
           \A b \in Blocks, s \in Slots : f[b][s].image = fl[b][s].image
    PROVE  /\ Candidates(f) = Candidates(fl)
           /\ \A h : NewestIs(fl, h) => NewestIs(f, h)
           /\ Found(f) = Found(fl)
  <1>1. Candidates(f) = Candidates(fl)
    BY NumberFacts DEF Candidates, Good
  <1>2. ASSUME NEW h, NewestIs(fl, h) PROVE Likewise(fl, f, h)
    <2>1. h \in Candidates(f)
      BY <1>1, <1>2 DEF NewestIs
    <2>2. \A c \in Candidates(f) : Version(f[c][0]) = Version(fl[c][0])
      BY <1>1, CandidateFacts, NumberFacts DEF Version
    <2>3. ASSUME NEW c \in Candidates(f) PROVE LastImage(f[c]) = LastImage(fl[c])
      <3>1. c \in Blocks /\ Good(fl[c][0]) /\ 0 \in Slots
        BY <1>1, CandidateFacts, NumberFacts
      <3>2. \A s \in Slots : fl[c][s].image = f[c][s].image
        BY <3>1
      <3> QED BY <3>1, <3>2, SameImagesLast
    <2> QED BY <1>1, <2>1, <2>2, <2>3 DEF Likewise
  <1>3. CASE Candidates(fl) = {}
    BY <1>1, <1>2, <1>3, SameHead DEF Found
  <1>4. CASE Candidates(fl) # {}
    BY <1>1, <1>2, <1>4, NewestBlockIs, SameHead
  <1> QED BY <1>1, <1>3, <1>4

\* A block is erased, or torn, that no boot takes.
LEMMA EraseElsewhere ==
    ASSUME NEW n, NEW fl, NEW slot, ~Good(slot), NEW m \in Blocks, NEW f,
           BlocksReplaced(n, fl, {m}, slot, f)
    PROVE  /\ FlashInv(f, n)
           /\ Candidates(f) = Candidates(fl) \ {m}
           /\ \A c \in Candidates(f) : f[c] = fl[c]
  <1>1. /\ FlashInv(f, n)
        /\ \A s \in Slots : f[m][s] = slot
        /\ \A b \in Blocks : b # m => f[b] = fl[b]
    <2>1. /\ FlashInv(f, n)
          /\ \A b \in Blocks : b \in {m} => \A s \in Slots : f[b][s] = slot
          /\ \A b \in Blocks : b \notin {m} => f[b] = fl[b]
      BY BlocksReplacedFields
    <2> QED BY <2>1
  <1>2. ~Good(f[m][0])
    BY <1>1, NumberFacts
  <1>3. Candidates(f) = Candidates(fl) \ {m}
    BY <1>1, <1>2 DEF Candidates
  <1>4. \A c \in Candidates(f) : f[c] = fl[c]
    BY <1>1, <1>3 DEF Candidates
  <1> QED BY <1>1, <1>3, <1>4

\* And so it finds what it found.
LEMMA EraseHead ==
    ASSUME NEW n \in Nat, NEW fl, FlashInv(fl, n), NEW m, NEW f, FlashInv(f, n),
           Candidates(f) = Candidates(fl) \ {m}, \A c \in Candidates(f) : f[c] = fl[c],
           NEW h, NewestIs(fl, h), h # m
    PROVE  NewestIs(f, h) /\ Found(f) = Found(fl)
  <1>1. h \in Candidates(f)
    BY DEF NewestIs
  <1>2. Likewise(fl, f, h)
    BY <1>1 DEF Likewise
  <1> QED BY <1>2, SameHead

\* A block that begins with a version, and holds nothing else, ends with it.
LEMMA BegunLast ==
    ASSUME NEW block, NEW g, Begun(block, g), Good(block[0]), Version(block[0]) = g.version
    PROVE  LastImage(block) = g
  <1>1. PICK s \in Slots : IsLast(block, s)
    BY LastExists, NumberFacts
  <1> QED BY <1>1, LastFound DEF IsLast, Begun

\* A block is begun with an image that no other block is newer than.
LEMMA BlockBegun ==
    ASSUME NEW n \in Nat, NEW fl, NEW f, FlashInv(fl, n), FlashInv(f, n),
           NEW b \in Blocks \ bad, \A c \in Blocks : c # b => f[c] = fl[c],
           NEW g, Good(f[b][0]), f[b][0].image = g, LastImage(f[b]) = g,
           \A c \in Candidates(fl) : Version(fl[c][0]) <= g.version /\ Begun(fl[c], g)
    PROVE  NewestIs(f, b) /\ Found(f) = g
  <1>1. b \in Candidates(f) /\ Version(f[b][0]) = g.version
    BY DEF Candidates, Version
  <1>2. g.version \in Nat
    BY <1>1, CandidateFacts
  <1>3. ASSUME NEW c \in Candidates(f)
        PROVE  /\ Version(f[c][0]) <= Version(f[b][0])
               /\ Version(f[c][0]) = Version(f[b][0]) => LastImage(f[c]) = LastImage(f[b])
    <2>1. CASE c = b
      BY <1>1, <1>2, <2>1
    <2>2. CASE c # b
      <3>1. f[c] = fl[c] /\ c \in Candidates(fl) /\ Good(fl[c][0])
        BY <2>2 DEF Candidates
      <3>2. Version(fl[c][0]) <= g.version /\ Begun(fl[c], g)
        BY <3>1
      <3> QED BY <1>1, <3>1, <3>2, BegunLast
    <2> QED BY <2>1, <2>2
  <1>4. NewestIs(f, b)
    BY <1>1, <1>3 DEF NewestIs
  <1> QED BY <1>4, NewestFound

\* The block that a boot takes goes on.
LEMMA BlockContinued ==
    ASSUME NEW n \in Nat, NEW fl, NEW f, FlashInv(fl, n), FlashInv(f, n),
           Candidates(fl) # {}, NEW b, b = NewestBlock(fl), f[b][0] = fl[b][0],
           \A c \in Blocks : c # b => f[c] = fl[c],
           NEW g, LastImage(f[b]) = g
    PROVE  NewestIs(f, b) /\ Found(f) = g
  <1>1. /\ b \in Candidates(fl) /\ b \in Nat
        /\ \A c \in Candidates(fl) :
              /\ Version(fl[c][0]) <= Version(fl[b][0])
              /\ Version(fl[c][0]) = Version(fl[b][0]) => b <= c
    BY NewestBlockFacts, CandidateFacts
  <1>2. \A c \in Blocks : f[c][0] = fl[c][0]
    OBVIOUS
  <1>3. Candidates(f) = Candidates(fl)
    BY <1>2 DEF Candidates
  <1>4. ASSUME NEW c \in Candidates(f)
        PROVE  /\ Version(f[c][0]) <= Version(f[b][0])
               /\ Version(f[c][0]) = Version(f[b][0]) => ~(c < b)
    <2>1. c \in Candidates(fl) /\ f[c][0] = fl[c][0] /\ c \in Nat
      BY <1>2, <1>3, CandidateFacts
    <2> QED BY <1>1, <2>1
  <1>5. NewestIs(f, b)
    BY <1>1, <1>3, <1>4 DEF NewestIs
  <1> QED BY <1>5, NewestFound

-----------------------------------------------------------------------------
(* The way round the ring. *)

\* The blocks from the one after h to b.
Passed(h, b) ==
    IF h <= b THEN {c \in Blocks : h < c /\ c <= b} ELSE {c \in Blocks : h < c \/ c <= b}

\* None, at first; with each step one more, until all are.
LEMMA PassedFacts ==
    ASSUME NEW h \in Blocks, NEW b \in Blocks
    PROVE  /\ Passed(h, h) = {}
           /\ Passed(h, b) \subseteq Blocks
           /\ NextBlock(b) # h =>
                 Passed(h, NextBlock(b)) = Passed(h, b) \cup {NextBlock(b)}
           /\ NextBlock(b) = h => Blocks \subseteq Passed(h, b) \cup {h}
  <1>1. /\ h \in Nat /\ b \in Nat /\ BlockNum \in Nat /\ h < BlockNum /\ b < BlockNum
        /\ Blocks \subseteq Nat /\ \A c \in Blocks : c < BlockNum
    <2>1. BlockNum \in Nat /\ Blocks \subseteq Nat
      BY NumberFacts
    <2> QED BY <2>1 DEF Blocks
  <1>2. Passed(h, h) = {}
    <2>1. Passed(h, h) = {c \in Blocks : h < c /\ c <= h}
      BY <1>1 DEF Passed
    <2>2. \A c \in Blocks : ~(h < c /\ c <= h)
      BY <1>1
    <2> QED BY <2>1, <2>2
  <1>3. Passed(h, b) \subseteq Blocks
    BY DEF Passed
  <1>4. CASE b + 1 >= BlockNum
    <2>1. NextBlock(b) = 0 /\ b = BlockNum - 1 /\ h <= b /\ 0 \in Blocks
      <3>1. 0 \in Blocks
        BY NumberFacts
      <3> QED BY <1>1, <1>4, <3>1 DEF NextBlock
    <2>2. Passed(h, b) = {c \in Blocks : h < c}
      <3>1. Passed(h, b) = {c \in Blocks : h < c /\ c <= b}
        BY <2>1 DEF Passed
      <3>2. \A c \in Blocks : c <= b
        BY <1>1, <2>1
      <3> QED BY <3>1, <3>2
    <2>3. CASE h = 0
      BY <1>1, <1>2, <1>3, <2>1, <2>2, <2>3
    <2>4. CASE h # 0
      <3>1. Passed(h, 0) = {c \in Blocks : h < c \/ c <= 0}
        BY <1>1, <2>4 DEF Passed
      <3>2. \A c \in Blocks : c <= 0 <=> c = 0
        BY <1>1
      <3>3. Passed(h, 0) = Passed(h, b) \cup {0}
        BY <2>1, <2>2, <3>1, <3>2
      <3> QED BY <1>2, <1>3, <2>1, <2>4, <3>3
    <2> QED BY <2>3, <2>4
  <1>5. CASE ~(b + 1 >= BlockNum)
    <2>1. NextBlock(b) = b + 1 /\ b + 1 \in Blocks
      BY <1>1, <1>5 DEF NextBlock, Blocks
    <2>2. CASE h = b + 1
      <3>1. Passed(h, b) = {c \in Blocks : h < c \/ c <= b}
        BY <1>1, <2>2 DEF Passed
      <3>2. Blocks \subseteq Passed(h, b) \cup {h}
        BY <1>1, <2>2, <3>1
      <3> QED BY <1>2, <1>3, <2>1, <2>2, <3>2
    <2>3. CASE h # b + 1
      <3>1. CASE h <= b
        <4>1. /\ Passed(h, b) = {c \in Blocks : h < c /\ c <= b}
              /\ Passed(h, b + 1) = {c \in Blocks : h < c /\ c <= b + 1}
          BY <1>1, <3>1 DEF Passed
        <4>2. \A c \in Blocks : (h < c /\ c <= b + 1) <=> ((h < c /\ c <= b) \/ c = b + 1)
          BY <1>1, <3>1
        <4>3. Passed(h, b + 1) = Passed(h, b) \cup {b + 1}
          BY <2>1, <4>1, <4>2
        <4> QED BY <1>2, <1>3, <2>1, <2>3, <4>3
      <3>2. CASE ~(h <= b)
        <4>1. /\ Passed(h, b) = {c \in Blocks : h < c \/ c <= b}
              /\ Passed(h, b + 1) = {c \in Blocks : h < c \/ c <= b + 1}
          BY <1>1, <2>3, <3>2 DEF Passed
        <4>2. \A c \in Blocks : (h < c \/ c <= b + 1) <=> ((h < c \/ c <= b) \/ c = b + 1)
          BY <1>1, <2>3, <3>2
        <4>3. Passed(h, b + 1) = Passed(h, b) \cup {b + 1}
          BY <2>1, <4>1, <4>2
        <4> QED BY <1>2, <1>3, <2>1, <2>3, <4>3
      <3> QED BY <3>1, <3>2
    <2> QED BY <2>2, <2>3
  <1> QED BY <1>4, <1>5

\* The good blocks that were passed are those whose erase failed.  So there is
\* always one to erase before the ring comes back to the block that a boot takes.
LEMMA NotAround ==
    ASSUME bad \subseteq Blocks, IsFiniteSet(bad), Cardinality(bad) <= MaxBad,
           NEW h \in Blocks, NEW b \in Blocks, NEW fts \in 0 .. MaxFaults,
           Cardinality(Passed(h, b) \ bad) <= fts
    PROVE  /\ NextBlock(b) # h
           /\ NextBlock(b) \in bad => Passed(h, NextBlock(b)) \ bad = Passed(h, b) \ bad
           /\ Cardinality(Passed(h, NextBlock(b)) \ bad) <= fts + 1
  <1>1. PICK P : P = Passed(h, b) \ bad
    OBVIOUS
  <1>2. IsFiniteSet(P) /\ Cardinality(P) \in Nat /\ Cardinality(P) <= fts
    <2>1. P \subseteq Blocks
      BY <1>1, PassedFacts
    <2> QED BY <1>1, <2>1, BlockCount, FS_Subset, FS_CardinalityType
  <1>3. Cardinality(bad) \in Nat
    BY FS_CardinalityType
  <1>4. NextBlock(b) # h
    <2> SUFFICES ASSUME NextBlock(b) = h PROVE FALSE
      OBVIOUS
    <2>1. Blocks \subseteq (P \cup bad) \cup {h}
      BY <1>1, PassedFacts
    <2>2. /\ IsFiniteSet(P \cup bad)
          /\ Cardinality(P \cup bad) = Cardinality(P) + Cardinality(bad) - Cardinality(P \cap bad)
      BY <1>2, FS_Union
    <2>3. Cardinality(P \cap bad) = 0
      <3>1. P \cap bad = {}
        BY <1>1
      <3> QED BY <3>1, FS_EmptySet
    <2>4. Cardinality(P \cup bad) \in Nat /\ Cardinality(P \cup bad) <= fts + MaxBad
      BY <1>2, <1>3, <2>2, <2>3, NumberFacts
    <2>5. /\ IsFiniteSet((P \cup bad) \cup {h})
          /\ Cardinality((P \cup bad) \cup {h}) =
                IF h \in P \cup bad THEN Cardinality(P \cup bad) ELSE Cardinality(P \cup bad) + 1
      BY <2>2, FS_AddElement
    <2>6. Cardinality((P \cup bad) \cup {h}) <= fts + MaxBad + 1
      BY <2>4, <2>5, NumberFacts
    <2>7. BlockNum <= Cardinality((P \cup bad) \cup {h})
      BY <2>1, <2>5, BlockCount, FS_Subset
    <2>8. Cardinality((P \cup bad) \cup {h}) \in Nat
      BY <2>5, FS_CardinalityType
    <2> QED BY <2>6, <2>7, <2>8, NumberFacts
  <1>5. Passed(h, NextBlock(b)) \ bad = IF NextBlock(b) \in bad THEN P ELSE P \cup {NextBlock(b)}
    <2>1. Passed(h, NextBlock(b)) = Passed(h, b) \cup {NextBlock(b)}
      BY <1>4, PassedFacts
    <2> QED BY <1>1, <2>1
  <1>6. Cardinality(P \cup {NextBlock(b)}) <= fts + 1
    <2>1. Cardinality(P \cup {NextBlock(b)}) =
              IF NextBlock(b) \in P THEN Cardinality(P) ELSE Cardinality(P) + 1
      BY <1>2, FS_AddElement
    <2> QED BY <1>2, <2>1
  <1>7. Cardinality(P) <= fts + 1
    BY <1>2
  <1> QED BY <1>1, <1>4, <1>5, <1>6, <1>7

-----------------------------------------------------------------------------
(* What holds besides the types. *)

NoneNewer(fl, g) == \A b \in Candidates(fl) : Version(fl[b][0]) <= g.version
AllBegun(fl, g) == \A b \in Candidates(fl) : Begun(fl[b], g)

\* The position in the ring, unless a new block is to be looked for.
Position(fl, g, blk, page) ==
    page < SlotNum => blk \notin bad /\ Ready(fl[blk], g, page)

\* Where the position is, seen from the block that a boot would take: in that
\* block, or at the beginning of one; or on the way to the next block, past
\* blocks that are bad or could not be erased.
HeadAt(fl, blk, page, fts) ==
    \/ Candidates(fl) = {} /\ page = 0
    \/ \E h \in Blocks :
          /\ NewestIs(fl, h)
          /\ 0 < page /\ page < SlotNum => h = blk
          /\ page = SlotNum => Cardinality(Passed(h, blk) \ bad) <= fts

Busy(p) == p \in {"write", "format"}

\* With power, there is nothing newer on the flash than the image in memory; the
\* position is right unless suspect; and from the first copy on a boot would
\* find that image.
PoweredInv(fl, g, p, blk, page, cnt, fts, sus) ==
    p # "off" =>
        /\ Position(fl, g, blk, page)
        /\ NoneNewer(fl, g)
        /\ Busy(p) => AllBegun(fl, g)
        /\ sus = FALSE => HeadAt(fl, blk, page, fts)
        /\ sus = FALSE /\ Busy(p) /\ 0 < cnt => Found(fl) = g

DurableInv ==
    /\ stored = Contents(Found(flash).table)
    /\ \A b \in Blocks : BlockInv(flash[b], stamp)
    /\ PoweredInv(flash, g_vendor, pc, blk_offset, page_offset, count, faults, suspect)

\* The same of the next state, in terms of its flash; bad never changes.
LEMMA DurableNext ==
    ASSUME bad' = bad, NEW fl, flash' = fl, stored' = Contents(Found(fl).table),
           \A b \in Blocks : BlockInv(fl[b], stamp'),
           PoweredInv(fl, g_vendor', pc', blk_offset', page_offset', count', faults', suspect')
    PROVE  DurableInv'
  <1>1. Candidates(flash)' = Candidates(fl)
    BY DEF Candidates
  <1>2. Found(flash)' = Found(fl)
    BY <1>1 DEF Found, NewestBlock
  <1>3. ASSUME NEW h PROVE NewestIs(flash, h)' = NewestIs(fl, h)
    BY <1>1 DEF NewestIs
  <1>4. HeadAt(flash, blk_offset, page_offset, faults)' =
            HeadAt(fl, blk_offset', page_offset', faults')
    BY <1>1, <1>3 DEF HeadAt
  <1>5. Position(flash, g_vendor, blk_offset, page_offset)' =
            Position(fl, g_vendor', blk_offset', page_offset')
    BY DEF Position
  <1>6. /\ NoneNewer(flash, g_vendor)' = NoneNewer(fl, g_vendor')
        /\ AllBegun(flash, g_vendor)' = AllBegun(fl, g_vendor')
    BY <1>1 DEF NoneNewer, AllBegun
  <1> QED BY <1>2, <1>4, <1>5, <1>6 DEF DurableInv, PoweredInv

\* The medium changes.
LEMMA PutFlashFacts ==
    ASSUME NEW fl, bad' = bad, PutFlash(fl)
    PROVE  flash' = fl /\ stored' = Contents(Found(fl).table)
  BY DEF PutFlash

-----------------------------------------------------------------------------
(* What each change of the flash does to them. *)

\* A slot that is not programmed is not good.
LEMMA UnprogrammedFacts ==
    ASSUME TypeInv, NEW b \in Blocks, NEW s \in Slots
    PROVE  /\ flash[b][s].programmed \in BOOLEAN
           /\ flash[b][s].programmed = FALSE => ~Good(flash[b][s])
           /\ SlotInv(flash[b][s], stamp) /\ stamp \in Nat
  <1>1. SlotInv(flash[b][s], stamp) /\ stamp \in Nat
    BY DEF TypeInv, FlashInv
  <1> QED BY <1>1, SlotFacts

\* A copy is programmed.
LEMMA ProgramFlash ==
    ASSUME TypeInv, DurableInv, NandWriting, page_offset < SlotNum,
           NEW slot, slot = AfterProgram \/ slot = Torn, NEW f, f = WithSlot(slot)
    PROVE  /\ FlashInv(f, stamp) /\ f[blk_offset][page_offset] = slot
           /\ \A t \in Slots : t # page_offset => f[blk_offset][t] = flash[blk_offset][t]
           /\ \A c \in Blocks : c # blk_offset => f[c] = flash[c]
           /\ \A b \in Blocks : BlockInv(f[b], stamp)
           /\ Position(f, g_vendor, blk_offset, page_offset + 1)
           /\ NoneNewer(f, g_vendor) /\ AllBegun(f, g_vendor)
           /\ Good(slot) /\ Good(f[blk_offset][0]) => LastImage(f[blk_offset]) = g_vendor
           /\ Good(slot) => slot.image = g_vendor
           /\ blk_offset \notin bad
  <1>0. PICK g, blk, page, fl : g = g_vendor /\ blk = blk_offset /\ page = page_offset
                                /\ fl = flash
    OBVIOUS
  <1>1. /\ pc # "off" /\ Busy(pc) /\ stamp \in Nat /\ FlashInv(fl, stamp)
        /\ blk \in Blocks /\ page \in Slots /\ ImageInv(g, stamp)
    BY <1>0, WritingFacts DEF Busy
  <1>2. /\ SlotInv(slot, stamp) /\ slot.programmed = TRUE
        /\ Good(slot) => fl[blk][page].programmed = FALSE /\ slot.image = g
    <2>1. fl[blk][page].programmed \in BOOLEAN
      BY <1>0, <1>1, UnprogrammedFacts
    <2>2. CASE slot = AfterProgram
      BY <1>0, <2>1, <2>2, AfterProgramFacts
    <2>3. CASE slot = Torn
      BY <2>3, AfterProgramFacts
    <2> QED BY <2>2, <2>3
  <1>3. /\ FlashInv(f, stamp) /\ f[blk][page] = slot
        /\ \A t \in Slots : t # page => f[blk][t] = fl[blk][t]
        /\ \A c \in Blocks : c # blk => f[c] = fl[c]
    <2>1. SlotReplaced(fl, blk, page, slot, f)
      BY <1>0, <1>2, SlotWritten
    <2>2. FlashInv(f, stamp) /\ f[blk][page] = slot
      BY <1>1, <1>2, <2>1, SlotReplacedFields
    <2>3. \A t \in Slots : t # page => f[blk][t] = fl[blk][t]
      BY <1>1, <1>2, <2>1, SlotReplacedFields
    <2>4. \A c \in Blocks : c # blk => f[c] = fl[c]
      BY <1>1, <1>2, <2>1, SlotReplacedFields
    <2> QED BY <2>2, <2>3, <2>4
  <1>4. /\ \A b \in Blocks : BlockInv(fl[b], stamp)
        /\ blk \notin bad /\ Ready(fl[blk], g, page)
        /\ NoneNewer(fl, g) /\ AllBegun(fl, g)
    BY <1>0, <1>1 DEF DurableInv, PoweredInv, Position
  <1>5. Programs(fl[blk], g, page, slot, stamp) /\ BlockReplaced(fl[blk], page, slot, f[blk])
    BY <1>1, <1>2, <1>3, <1>4 DEF Programs, BlockReplaced
  <1>6. /\ BlockInv(f[blk], stamp)
        /\ Ready(f[blk], g, page + 1)
        /\ Begun(fl[blk], g) => Begun(f[blk], g)
        /\ Good(slot) /\ Good(f[blk][0]) => LastImage(f[blk]) = g
    BY <1>1, <1>5, ProgramBlock
  <1>7. Begun(fl[blk], g)
    <2>1. CASE Good(fl[blk][0])
      <3>1. blk \in Candidates(fl)
        BY <1>1, <1>4, <2>1 DEF Candidates
      <3> QED BY <1>4, <3>1 DEF AllBegun
    <2>2. CASE ~Good(fl[blk][0])
      BY <2>2 DEF Begun
    <2> QED BY <2>1, <2>2
  <1>8. \A b \in Blocks : BlockInv(f[b], stamp)
    BY <1>3, <1>4, <1>6
  <1>9. ASSUME NEW c \in Candidates(f)
        PROVE  Version(f[c][0]) <= g.version /\ Begun(f[c], g)
    <2>1. c \in Blocks /\ c \notin bad /\ Good(f[c][0]) /\ 0 \in Slots
      BY NumberFacts DEF Candidates
    <2>2. CASE c # blk
      <3>1. f[c] = fl[c] /\ c \in Candidates(fl)
        BY <1>3, <2>1, <2>2 DEF Candidates
      <3> QED BY <1>4, <3>1 DEF NoneNewer, AllBegun
    <2>3. CASE c = blk /\ page = 0
      <3>1. Version(f[c][0]) = g.version
        BY <1>2, <1>3, <2>1, <2>3 DEF Version
      <3>2. g.version \in Nat
        BY <1>1, ImageFacts DEF ImageInv
      <3> QED BY <1>6, <1>7, <2>3, <3>1, <3>2
    <2>4. CASE c = blk /\ page # 0
      <3>1. f[c][0] = fl[c][0]
        BY <1>3, <2>1, <2>4
      <3>2. c \in Candidates(fl)
        BY <2>1, <3>1 DEF Candidates
      <3> QED BY <1>4, <1>6, <1>7, <2>4, <3>1, <3>2 DEF NoneNewer
    <2> QED BY <2>2, <2>3, <2>4
  <1>10. Position(f, g, blk, page + 1)
    BY <1>4, <1>6 DEF Position
  <1>11. NoneNewer(f, g) /\ AllBegun(f, g)
    BY <1>9 DEF NoneNewer, AllBegun
  <1> QED BY <1>0, <1>2, <1>3, <1>4, <1>6, <1>8, <1>10, <1>11

\* And what a boot would find then, unless suspect: the image, or what it would
\* have found before.
LEMMA ProgramFound ==
    ASSUME TypeInv, DurableInv, NandWriting, page_offset < SlotNum,
           NEW slot, slot = AfterProgram \/ slot = Torn, NEW f, f = WithSlot(slot),
           ~SuspectAfter(slot)
    PROVE  /\ NewestIs(f, blk_offset)
           /\ Good(slot) => Found(f) = g_vendor
           /\ ~Good(slot) => suspect = FALSE /\ Found(f) = Found(flash)
  <1>0. PICK g, blk, page, fl : g = g_vendor /\ blk = blk_offset /\ page = page_offset
                                /\ fl = flash
    OBVIOUS
  <1>1. /\ pc # "off" /\ stamp \in Nat /\ FlashInv(fl, stamp) /\ page \in Nat /\ 0 \in Slots
        /\ blk \in Blocks /\ page \in Slots /\ page < SlotNum
        /\ suspect \in BOOLEAN
    BY <1>0, WritingFacts, NumberFacts DEF TypeInv
  <1>2. /\ FlashInv(f, stamp) /\ f[blk][page] = slot
        /\ \A t \in Slots : t # page => f[blk][t] = fl[blk][t]
        /\ \A c \in Blocks : c # blk => f[c] = fl[c]
        /\ Good(slot) /\ Good(f[blk][0]) => LastImage(f[blk]) = g
        /\ Good(slot) => slot.image = g
        /\ blk \notin bad
    BY <1>0, ProgramFlash
  <1>3. NoneNewer(fl, g) /\ AllBegun(fl, g)
    BY <1>0, <1>1, WritingFacts DEF DurableInv, PoweredInv, Busy
  <1>4. CASE page = 0
    <2>1. Good(slot)
      BY <1>0, <1>4 DEF SuspectAfter
    <2>2. Good(f[blk][0]) /\ f[blk][0].image = g /\ LastImage(f[blk]) = g
      BY <1>2, <1>4, <2>1
    <2>3. \A c \in Candidates(fl) : Version(fl[c][0]) <= g.version /\ Begun(fl[c], g)
      BY <1>3 DEF NoneNewer, AllBegun
    <2>4. NewestIs(f, blk) /\ Found(f) = g
      BY <1>1, <1>2, <2>2, <2>3, BlockBegun
    <2> QED BY <1>0, <2>1, <2>4
  <1>5. CASE page # 0
    <2>1. /\ suspect = FALSE /\ fl[blk][page].programmed = FALSE
          /\ ~(Good(fl[blk][0]) /\ NewestBlock(fl) # blk)
      <3>1. fl[blk][page].programmed \in BOOLEAN
        BY <1>0, <1>1, UnprogrammedFacts
      <3> QED BY <1>0, <1>1, <1>5, <3>1 DEF SuspectAfter, NotTaken
    <2>2. HeadAt(fl, blk, page, faults)
      BY <1>0, <1>1, <2>1 DEF DurableInv, PoweredInv
    <2>3. 0 < page
      BY <1>1, <1>5
    <2>4. NewestIs(fl, blk)
      BY <1>1, <1>5, <2>2, <2>3 DEF HeadAt
    <2>5. blk \in Candidates(fl) /\ Good(fl[blk][0])
      BY <2>4 DEF NewestIs, Candidates
    <2>6. blk = NewestBlock(fl) /\ f[blk][0] = fl[blk][0]
      BY <1>1, <1>2, <1>5, <2>1, <2>5
    <2>7. CASE Good(slot)
      <3>1. LastImage(f[blk]) = g
        BY <1>2, <2>5, <2>6, <2>7
      <3>2. NewestIs(f, blk) /\ Found(f) = g
        BY <1>1, <1>2, <2>5, <2>6, <3>1, BlockContinued
      <3> QED BY <1>0, <2>7, <3>2
    <2>8. CASE ~Good(slot)
      <3>1. ~Good(fl[blk][page])
        BY <1>0, <1>1, <2>1, UnprogrammedFacts
      <3>2. \A b \in Blocks, s \in Slots : f[b][s].image = fl[b][s].image
        BY <1>2, <2>8, <3>1 DEF Good
      <3>3. NewestIs(f, blk) /\ Found(f) = Found(fl)
        BY <1>1, <1>2, <2>4, <3>2, SameImages
      <3> QED BY <1>0, <2>1, <2>8, <3>3
    <2> QED BY <2>7, <2>8
  <1> QED BY <1>4, <1>5

\* Power lost while a free slot is programmed changes no image.
LEMMA TornFound ==
    ASSUME TypeInv, DurableInv, NandWriting, page_offset < SlotNum,
           NEW f, f = WithSlot(Torn), flash[blk_offset][page_offset].programmed = FALSE
    PROVE  Found(f) = Found(flash)
  <1>1. /\ blk_offset \in Blocks /\ page_offset \in Slots /\ FlashInv(flash, stamp)
        /\ stamp \in Nat
    BY WritingFacts
  <1>2. /\ FlashInv(f, stamp) /\ f[blk_offset][page_offset] = Torn
        /\ \A t \in Slots : t # page_offset => f[blk_offset][t] = flash[blk_offset][t]
        /\ \A c \in Blocks : c # blk_offset => f[c] = flash[c]
    BY ProgramFlash
  <1>3. ~Good(flash[blk_offset][page_offset]) /\ ~Good(Torn)
    BY <1>1, UnprogrammedFacts, AfterProgramFacts
  <1>4. \A b \in Blocks, s \in Slots : f[b][s].image = flash[b][s].image
    BY <1>2, <1>3 DEF Good
  <1> QED BY <1>1, <1>2, <1>4, SameImages

\* On the way to the next block.
LEMMA HeadOnTheWay ==
    ASSUME TypeInv, DurableInv, BlockFull, suspect = FALSE
    PROVE  /\ page_offset = SlotNum
           /\ \E h \in Blocks :
                /\ NewestIs(flash, h) /\ NextBlock(blk_offset) # h
                /\ NextBlock(blk_offset) \in bad =>
                      Cardinality(Passed(h, NextBlock(blk_offset)) \ bad) <= faults
                /\ Cardinality(Passed(h, NextBlock(blk_offset)) \ bad) <= faults + 1
  <1>1. /\ NandWriting /\ page_offset >= SlotNum /\ page_offset \in 0 .. SlotNum /\ pc # "off"
        /\ faults \in 0 .. MaxFaults /\ blk_offset \in Blocks
        /\ bad \subseteq Blocks /\ IsFiniteSet(bad) /\ Cardinality(bad) <= MaxBad
    BY WritingFacts DEF BlockFull, TypeInv
  <1>2. page_offset = SlotNum /\ page_offset # 0
    BY <1>1, NumberFacts
  <1>3. HeadAt(flash, blk_offset, page_offset, faults)
    BY <1>1 DEF DurableInv, PoweredInv
  <1>4. PICK h \in Blocks : /\ NewestIs(flash, h)
                            /\ Cardinality(Passed(h, blk_offset) \ bad) <= faults
    BY <1>2, <1>3 DEF HeadAt
  <1>5. /\ NextBlock(blk_offset) # h
        /\ NextBlock(blk_offset) \in bad =>
              Passed(h, NextBlock(blk_offset)) \ bad = Passed(h, blk_offset) \ bad
        /\ Cardinality(Passed(h, NextBlock(blk_offset)) \ bad) <= faults + 1
    BY <1>1, <1>4, NotAround
  <1> QED BY <1>2, <1>4, <1>5

\* The next block is erased, or torn.
LEMMA EraseFlash ==
    ASSUME TypeInv, DurableInv, BlockFull, NEW slot, slot = Erased \/ slot = Torn,
           NEW f, f = [flash EXCEPT ![NextBlock(blk_offset)] = [s \in Slots |-> slot]]
    PROVE  /\ FlashInv(f, stamp)
           /\ \A b \in Blocks : BlockInv(f[b], stamp)
           /\ ~Good(f[NextBlock(blk_offset)][0])
           /\ NoneNewer(f, g_vendor) /\ AllBegun(f, g_vendor)
           /\ suspect = FALSE => /\ Found(f) = Found(flash)
                                 /\ \E h \in Blocks : NewestIs(f, h)
  <1>0. PICK m, e : m = NextBlock(blk_offset) /\ e = f
    OBVIOUS
  <1>1. /\ NandWriting /\ pc # "off" /\ Busy(pc) /\ stamp \in Nat /\ FlashInv(flash, stamp)
        /\ m \in Blocks /\ 0 \in Slots
    BY <1>0, WritingFacts, NextBlockFacts, NumberFacts DEF BlockFull, Busy
  <1>2. SlotInv(slot, stamp) /\ ~Good(slot) /\ slot.programmed \in BOOLEAN
    BY <1>1, AfterProgramFacts
  <1>3. BlocksReplaced(stamp, flash, {m}, slot, e)
    BY <1>0, <1>1, <1>2, BlockErased
  <1>4. /\ FlashInv(e, stamp)
        /\ Candidates(e) = Candidates(flash) \ {m}
        /\ \A c \in Candidates(e) : e[c] = flash[c]
        /\ \A h : NewestIs(flash, h) /\ h # m => NewestIs(e, h) /\ Found(e) = Found(flash)
    <2>1. /\ FlashInv(e, stamp)
          /\ Candidates(e) = Candidates(flash) \ {m}
          /\ \A c \in Candidates(e) : e[c] = flash[c]
      BY <1>1, <1>2, <1>3, EraseElsewhere
    <2>2. ASSUME NEW h, NewestIs(flash, h), h # m
          PROVE  NewestIs(e, h) /\ Found(e) = Found(flash)
      BY <1>1, <2>1, <2>2, EraseHead
    <2> QED BY <2>1, <2>2
  <1>5. /\ \A s \in Slots : e[m][s] = slot
        /\ \A c \in Blocks : c # m => e[c] = flash[c]
    BY <1>1, <1>3 DEF BlocksReplaced
  <1>6. BlockInv(e[m], stamp)
    BY <1>1, <1>2, <1>5 DEF BlockInv, FilledUp
  <1>7. \A b \in Blocks : BlockInv(e[b], stamp)
    BY <1>5, <1>6 DEF DurableInv
  <1>8. NoneNewer(e, g_vendor) /\ AllBegun(e, g_vendor)
    <2>1. NoneNewer(flash, g_vendor) /\ AllBegun(flash, g_vendor)
      BY <1>1 DEF DurableInv, PoweredInv
    <2> QED BY <1>4, <2>1 DEF NoneNewer, AllBegun
  <1>9. ASSUME suspect = FALSE
        PROVE  Found(e) = Found(flash) /\ \E h \in Blocks : NewestIs(e, h)
    <2>1. PICK h \in Blocks : NewestIs(flash, h) /\ m # h
      BY <1>0, <1>9, HeadOnTheWay
    <2> QED BY <1>4, <2>1
  <1> QED BY <1>0, <1>1, <1>2, <1>4, <1>5, <1>7, <1>8, <1>9

\* A slot rots.
LEMMA RotFlash ==
    ASSUME TypeInv, DurableInv, NEW b \in Blocks, NEW s \in Slots, Good(flash[b][s]),
           NEW f, SlotReplaced(flash, b, s, Torn, f)
    PROVE  /\ FlashInv(f, stamp)
           /\ \A c \in Blocks : BlockInv(f[c], stamp)
           /\ \A c \in Blocks : \A g, page : Ready(flash[c], g, page) => Ready(f[c], g, page)
           /\ \A g : NoneNewer(flash, g) => NoneNewer(f, g)
           /\ \A g : AllBegun(flash, g) => AllBegun(f, g)
           /\ s # 0 => Candidates(f) = Candidates(flash)
           /\ s # 0 /\ (Leading(b) => OtherCopies(b, s) # {}) =>
                 /\ \A h : NewestIs(flash, h) => NewestIs(f, h)
                 /\ Found(f) = Found(flash)
  <1>1. /\ stamp \in Nat /\ FlashInv(flash, stamp) /\ SlotInv(Torn, stamp) /\ 0 \in Slots
        /\ ~Good(Torn)
    BY FreshImageInv, NewSlots, NumberFacts DEF TypeInv
  <1>2. /\ FlashInv(f, stamp) /\ f[b][s] = Torn
        /\ \A t \in Slots : t # s => f[b][t] = flash[b][t]
        /\ \A c \in Blocks : c # b => f[c] = flash[c]
    <2>1. FlashInv(f, stamp) /\ f[b][s] = Torn
      BY <1>1, SlotReplacedFields
    <2>2. \A t \in Slots : t # s => f[b][t] = flash[b][t]
      BY <1>1, SlotReplacedFields
    <2>3. \A c \in Blocks : c # b => f[c] = flash[c]
      BY <1>1, SlotReplacedFields
    <2> QED BY <2>1, <2>2, <2>3
  <1>3. BlockReplaced(flash[b], s, Torn, f[b]) /\ BlockInv(flash[b], stamp)
    BY <1>2 DEF BlockReplaced, DurableInv
  <1>4. /\ BlockInv(f[b], stamp)
        /\ \A t \in Slots : Good(f[b][t]) => t # s /\ f[b][t] = flash[b][t]
        /\ \A g, page : Ready(flash[b], g, page) => Ready(f[b], g, page)
        /\ \A g : Begun(flash[b], g) => Begun(f[b], g)
    BY <1>1, <1>3, RotBlock
  <1>5. \A c \in Blocks : BlockInv(f[c], stamp)
    BY <1>2, <1>4 DEF DurableInv
  <1>6. \A c \in Blocks : \A g, page : Ready(flash[c], g, page) => Ready(f[c], g, page)
    BY <1>2, <1>4
  <1>7. ASSUME NEW c \in Candidates(f)
        PROVE  /\ c \in Candidates(flash) /\ f[c][0] = flash[c][0]
               /\ \A g : Begun(flash[c], g) => Begun(f[c], g)
    <2>1. c \in Blocks /\ c \notin bad /\ Good(f[c][0])
      BY DEF Candidates
    <2>2. CASE c # b
      BY <1>2, <2>1, <2>2 DEF Candidates
    <2>3. CASE c = b
      BY <1>1, <1>4, <2>1, <2>3 DEF Candidates
    <2> QED BY <2>2, <2>3
  <1>8. ASSUME NEW g, NoneNewer(flash, g) PROVE NoneNewer(f, g)
    BY <1>7, <1>8 DEF NoneNewer
  <1>9. ASSUME NEW g, AllBegun(flash, g) PROVE AllBegun(f, g)
    BY <1>7, <1>9 DEF AllBegun
  <1>10. ASSUME s # 0 PROVE Candidates(f) = Candidates(flash)
    <2>1. \A c \in Blocks : f[c][0] = flash[c][0]
      BY <1>1, <1>2, <1>10
    <2> QED BY <2>1 DEF Candidates
  <1>11. ASSUME s # 0, Leading(b) => OtherCopies(b, s) # {}
         PROVE  /\ \A h : NewestIs(flash, h) => NewestIs(f, h)
                /\ Found(f) = Found(flash)
    <2>1. Candidates(f) = Candidates(flash)
      BY <1>10, <1>11
    <2>2. ASSUME NEW h, NewestIs(flash, h) PROVE Likewise(flash, f, h)
      <3>1. h \in Candidates(f)
        BY <2>1, <2>2 DEF NewestIs
      <3>2. \A c \in Candidates(f) : Version(f[c][0]) = Version(flash[c][0])
        BY <1>7
      <3>3. ASSUME NEW c \in Candidates(f), Version(flash[c][0]) = Version(flash[h][0])
            PROVE  LastImage(f[c]) = LastImage(flash[c])
        <4>1. CASE c # b
          BY <1>2, <4>1 DEF Candidates
        <4>2. CASE c = b
          <5>1. Leading(b)
            <6>1. b \in Candidates(flash)
              BY <2>1, <3>3, <4>2
            <6>2. \A d \in Candidates(flash) : Version(flash[d][0]) <= Version(flash[b][0])
              BY <2>2, <3>3, <4>2 DEF NewestIs
            <6> QED BY <6>1, <6>2 DEF Leading, Version
          <5>2. PICK t \in Slots : t # s /\ flash[b][t] = flash[b][s]
            BY <1>11, <5>1 DEF OtherCopies
          <5>3. Good(flash[b][0])
            BY <5>1 DEF Leading, Candidates
          <5>4. LastImage(f[b]) = LastImage(flash[b])
            BY <1>1, <1>3, <5>2, <5>3, RotLast
          <5> QED BY <4>2, <5>4
        <4> QED BY <4>1, <4>2
      <3> QED BY <2>1, <3>1, <3>2, <3>3 DEF Likewise
    <2>3. CASE Candidates(flash) = {}
      BY <1>1, <1>2, <2>1, <2>2, <2>3, SameHead DEF Found
    <2>4. CASE Candidates(flash) # {}
      BY <1>1, <1>2, <2>2, <2>4, NewestBlockIs, SameHead
    <2> QED BY <2>3, <2>4
  <1> QED BY <1>2, <1>5, <1>6, <1>8, <1>9, <1>10, <1>11

-----------------------------------------------------------------------------
(* The invariant, step by step. *)

\* With no candidate, or in the block that a boot takes.
LEMMA HeadHere ==
    ASSUME NEW fl, NEW b \in Blocks, NewestIs(fl, b), NEW page, NEW fts \in Nat
    PROVE  HeadAt(fl, b, page, fts)
  <1>1. Cardinality(Passed(b, b) \ bad) = 0
    <2>1. Passed(b, b) = {}
      BY PassedFacts
    <2>2. Passed(b, b) \ bad = {}
      BY <2>1
    <2> QED BY <2>2, FS_EmptySet
  <1>2. Cardinality(Passed(b, b) \ bad) <= fts
    BY <1>1
  <1> QED BY <1>2, Zenon DEF HeadAt

\* At the beginning of a block any will do.
LEMMA HeadThere ==
    ASSUME NEW fl, NEW blk, NEW fts, \/ Candidates(fl) = {}
                                     \/ \E h \in Blocks : NewestIs(fl, h)
    PROVE  HeadAt(fl, blk, 0, fts)
  BY NumberFacts DEF HeadAt

\* At first everything is erased.
LEMMA InitDurableInv == Init => DurableInv
  <1> SUFFICES ASSUME Init PROVE DurableInv
    OBVIOUS
  <1>1. /\ flash = [b \in Blocks |-> ErasedBlock] /\ pc = "off"
        /\ stored = Contents(EmptyTable) /\ stamp = 0
    BY DEF Init
  <1>2. \A b \in Blocks, s \in Slots : flash[b][s] = Erased
    BY <1>1 DEF ErasedBlock
  <1>3. ~Good(Erased) /\ Erased.programmed = FALSE /\ 0 \in Slots
    BY NumberFacts DEF Good, Erased
  <1>4. Candidates(flash) = {}
    BY <1>2, <1>3 DEF Candidates
  <1>5. stored = Contents(Found(flash).table)
    BY <1>1, <1>4, FreshImageInv DEF Found
  <1>6. \A b \in Blocks, s \in Slots : SlotInv(flash[b][s], stamp)
    BY InitTypeInv DEF TypeInv, FlashInv
  <1>7. \A b \in Blocks : BlockInv(flash[b], stamp)
    BY <1>2, <1>3, <1>6 DEF BlockInv, FilledUp
  <1> QED BY <1>1, <1>5, <1>7 DEF DurableInv, PoweredInv

\* A boot that finds an image: the block ends with it, and is used up to the
\* next free slot.
LEMMA BootFoundDurable ==
    ASSUME TypeInv, DurableInv, BootFound
    PROVE  DurableInv'
  <1>0. PICK fl, b, page, g : /\ fl = flash /\ b = NewestBlock(fl)
                              /\ page = NextFree(fl[b]) /\ g = LastImage(fl[b])
    OBVIOUS
  <1>1. /\ Candidates(fl) # {} /\ blk_offset' = b /\ page_offset' = page
        /\ g_vendor' = g /\ pc' = "idle" /\ flash' = fl
        /\ UNCHANGED <<bad, stored, suspect, count, stamp, faults>>
    BY <1>0 DEF BootFound, flashVars
  <1>2. /\ stamp \in Nat /\ FlashInv(fl, stamp) /\ 0 \in Slots /\ Slots \subseteq Nat
        /\ faults \in Nat
    BY <1>0, NumberFacts DEF TypeInv
  <1>3. NewestIs(fl, b) /\ b \in Candidates(fl)
    BY <1>0, <1>1, <1>2, NewestBlockIs DEF NewestIs
  <1>4. b \in Blocks /\ b \notin bad /\ Good(fl[b][0]) /\ Version(fl[b][0]) \in Nat
    BY <1>2, <1>3, CandidateFacts
  <1>5. /\ \A c \in Blocks : BlockInv(fl[c], stamp)
        /\ stored = Contents(Found(fl).table)
    BY <1>0 DEF DurableInv
  <1>6. InOrder(fl[b])
    BY <1>4, <1>5 DEF BlockInv
  <1>7. PICK l \in Slots : IsLast(fl[b], l)
    BY <1>2, <1>4, LastExists
  <1>8. g = fl[b][l].image /\ Version(fl[b][l]) = g.version /\ Good(fl[b][l])
    BY <1>0, <1>7, LastFound DEF IsLast, Version
  <1>9. ImageInv(g, stamp) /\ g.version \in Nat
    BY <1>0, <1>2, <1>3, LastInv, ImageFacts DEF ImageInv
  <1>10. ASSUME NEW s \in Slots, Good(fl[b][s])
         PROVE  /\ Version(fl[b][s]) <= g.version
                /\ Version(fl[b][s]) < g.version \/ fl[b][s].image = g
    <2>1. Version(fl[b][s]) \in Nat
      BY <1>4, <1>10, <1>5, <1>2, SlotFacts DEF BlockInv
    <2>2. s <= l
      BY <1>7, <1>10 DEF IsLast
    <2>3. CASE s = l
      BY <1>8, <1>9, <2>3
    <2>4. CASE s # l
      <3>1. s < l
        BY <1>2, <2>2, <2>4
      <3>2. /\ Version(fl[b][s]) <= Version(fl[b][l])
            /\ Version(fl[b][s]) = Version(fl[b][l]) => fl[b][s].image = fl[b][l].image
        BY <1>6, <1>8, <1>10, <3>1 DEF InOrder
      <3> QED BY <1>8, <1>9, <2>1, <3>2
    <2> QED BY <2>3, <2>4
  <1>11. Ready(fl[b], g, page)
    <2>1. fl[b][0].programmed = TRUE
      BY <1>2, <1>4, GoodFacts
    <2>2. 0 < page => \A t \in Slots : page <= t => ~fl[b][t].programmed
      BY <1>0, NextFreeFacts
    <2>3. \A t \in Slots : fl[b][t].programmed \in BOOLEAN
      BY <1>0, <1>4, UnprogrammedFacts
    <2> QED BY <1>10, <2>1, <2>2, <2>3 DEF Ready
  <1>12. NoneNewer(fl, g)
    <2>1. ASSUME NEW c \in Candidates(fl) PROVE Version(fl[c][0]) <= g.version
      <3>1. Version(fl[c][0]) <= Version(fl[b][0]) /\ Version(fl[c][0]) \in Nat
        BY <1>2, <1>3, CandidateFacts DEF NewestIs
      <3>2. Version(fl[b][0]) <= g.version
        BY <1>2, <1>4, <1>10
      <3> QED BY <1>4, <1>9, <3>1, <3>2
    <2> QED BY <2>1 DEF NoneNewer
  <1>13. HeadAt(fl, b, page, faults)
    BY <1>2, <1>3, <1>4, HeadHere
  <1>14. PoweredInv(fl, g, "idle", b, page, count, faults, suspect)
    BY <1>4, <1>11, <1>12, <1>13 DEF PoweredInv, Position, Busy
  <1> QED BY <1>1, <1>5, <1>14, DurableNext

\* A boot that finds none: what it erases is not looked at by a boot.
LEMMA BootFormatDurable ==
    ASSUME TypeInv, DurableInv, BootFormat
    PROVE  DurableInv' /\ Found(flash) = FreshImage
  <1>0. PICK f, blk : f = flash' /\ blk = FirstGood
    OBVIOUS
  <1>1. /\ Candidates(flash) = {} /\ g_vendor' = FreshImage /\ blk_offset' = blk
        /\ page_offset' = 0 /\ pc' = "format" /\ count' = 0
        /\ UNCHANGED <<bad, stored, suspect, stamp, faults>>
    BY <1>0 DEF BootFormat
  <1>3. /\ stamp \in Nat /\ FlashInv(flash, stamp) /\ blk \in Blocks /\ blk \notin bad
        /\ 0 \in Slots /\ 0 < SlotNum
    BY <1>0, FirstGoodFacts, NumberFacts DEF TypeInv
  <1>4. SlotInv(Erased, stamp) /\ ~Good(Erased) /\ Erased.programmed = FALSE
    BY <1>3, FreshImageInv, NewSlots
  <1>5. /\ \A b \in Blocks : b \in FormatErased => \A s \in Slots : f[b][s] = Erased
        /\ \A b \in Blocks : b \notin FormatErased => f[b] = flash[b]
    <2>1. BlocksReplaced(stamp, flash, FormatErased, Erased, f)
      BY <1>0, <1>3, <1>4 DEF BootFormat, BlocksReplaced, ErasedBlock
    <2> QED BY <2>1, BlocksReplacedFields
  <1>6. Candidates(f) = {}
    BY <1>1, <1>3, <1>4, <1>5 DEF Candidates
  <1>7. Found(f) = FreshImage /\ Found(flash) = FreshImage
    BY <1>1, <1>6 DEF Found
  <1>8. ASSUME NEW b \in Blocks PROVE BlockInv(f[b], stamp)
    <2>1. CASE b \in FormatErased
      <3>1. \A s \in Slots : f[b][s] = Erased
        BY <1>5, <2>1
      <3> QED BY <1>3, <1>4, <3>1 DEF BlockInv, FilledUp
    <2>2. CASE b \notin FormatErased
      BY <1>5, <2>2 DEF DurableInv
    <2> QED BY <2>1, <2>2
  <1>9. Ready(f[blk], FreshImage, 0)
    <2>1. ~Good(f[blk][0])
      BY <1>3, <1>6 DEF Candidates
    <2> QED BY <2>1 DEF Ready
  <1>10. HeadAt(f, blk, 0, faults)
    BY <1>6, HeadThere
  <1>11. PoweredInv(f, FreshImage, "format", blk, 0, 0, faults, suspect)
    BY <1>3, <1>6, <1>9, <1>10 DEF PoweredInv, Position, NoneNewer, AllBegun
  <1>12. stored = Contents(Found(f).table)
    BY <1>7 DEF DurableInv
  <1> QED BY <1>0, <1>1, <1>7, <1>8, <1>11, <1>12, DurableNext

\* A write in memory: everything on the flash is older.
LEMMA WriteDurable ==
    ASSUME TypeInv, DurableInv, NEW id \in Ids, NEW size \in Sizes,
           mtd_vendor_write(id, size)
    PROVE  DurableInv'
  <1>0. PICK fl, g, n : fl = flash /\ g = g_vendor /\ n = g_vendor'
    OBVIOUS
  <1>1. /\ pc = "idle" /\ Fits(g_vendor.table, id, size) /\ stamp' = stamp + 1
        /\ g_vendor' = Image(NewTable(id, size, stamp + 1), g_vendor.version + 1)
        /\ pc' = "write" /\ count' = 0 /\ flash' = fl
        /\ UNCHANGED <<bad, stored, suspect, blk_offset, page_offset, faults>>
    BY <1>0 DEF mtd_vendor_write, flashVars, nandVars
  <1>2. ImageInv(g, stamp) /\ stamp \in Nat /\ FlashInv(fl, stamp)
    BY <1>0, <1>1 DEF TypeInv
  <1>3. n.version = g.version + 1 /\ g.version \in Nat
    <2>1. n.version = g.version + 1
      BY <1>0, <1>1, <1>2, NewImageWrites
    <2> QED BY <1>2, <2>1, ImageFacts DEF ImageInv
  <1>4. /\ stored = Contents(Found(fl).table)
        /\ \A b \in Blocks : BlockInv(fl[b], stamp)
        /\ Position(fl, g, blk_offset, page_offset) /\ NoneNewer(fl, g)
        /\ suspect = FALSE => HeadAt(fl, blk_offset, page_offset, faults)
    BY <1>0, <1>1 DEF DurableInv, PoweredInv
  <1>5. FlashInv(fl, stamp + 1)
    BY <1>2, LaterFlash
  <1>6. \A b \in Blocks : BlockInv(fl[b], stamp + 1)
    BY <1>4, <1>5 DEF BlockInv, FlashInv
  <1>7. ASSUME Ready(fl[blk_offset], g, page_offset), blk_offset \in Blocks
        PROVE  Ready(fl[blk_offset], n, page_offset)
    <2>1. ASSUME NEW s \in Slots, Good(fl[blk_offset][s]), Good(fl[blk_offset][0])
          PROVE  Version(fl[blk_offset][s]) < n.version
      <3>1. Version(fl[blk_offset][s]) \in Nat
        BY <1>4, <1>7, <1>2, <2>1, SlotFacts DEF BlockInv
      <3>2. Version(fl[blk_offset][s]) < g.version \/ fl[blk_offset][s].image = g
        BY <1>7, <2>1 DEF Ready
      <3>3. fl[blk_offset][s].image = g => Version(fl[blk_offset][s]) = g.version
        BY DEF Version
      <3> QED BY <1>3, <3>1, <3>2, <3>3
    <2> QED BY <1>7, <2>1 DEF Ready
  <1>8. Position(fl, n, blk_offset, page_offset)
    BY <1>4, <1>7 DEF Position, TypeInv
  <1>9. \A c \in Candidates(fl) : Version(fl[c][0]) < n.version
    <2>1. ASSUME NEW c \in Candidates(fl) PROVE Version(fl[c][0]) < n.version
      <3>1. Version(fl[c][0]) \in Nat /\ Version(fl[c][0]) <= g.version
        BY <1>2, <1>4, CandidateFacts DEF NoneNewer
      <3> QED BY <1>3, <3>1
    <2> QED BY <2>1
  <1>10. NoneNewer(fl, n) /\ AllBegun(fl, n)
    <2>1. ASSUME NEW c \in Candidates(fl)
          PROVE  Version(fl[c][0]) <= n.version /\ Version(fl[c][0]) # n.version
      <3>1. Version(fl[c][0]) \in Nat /\ Version(fl[c][0]) < n.version /\ n.version \in Nat
        BY <1>2, <1>3, <1>9, CandidateFacts
      <3> QED BY <3>1
    <2> QED BY <2>1 DEF NoneNewer, AllBegun, Begun
  <1>11. PoweredInv(fl, n, "write", blk_offset, page_offset, 0, faults, suspect)
    BY <1>4, <1>8, <1>10 DEF PoweredInv
  <1> QED BY <1>0, <1>1, <1>4, <1>6, <1>11, DurableNext

\* On to the next block.
LEMMA NextBlockDurable ==
    ASSUME TypeInv, DurableInv, SkipBad \/ EraseNext
    PROVE  DurableInv'
  <1>0. PICK f, n, g : f = flash' /\ n = NextBlock(blk_offset) /\ g = g_vendor
    OBVIOUS
  <1>1. /\ BlockFull /\ NandWriting /\ pc # "off" /\ Busy(pc)
        /\ page_offset = SlotNum /\ faults \in 0 .. MaxFaults /\ n \in Blocks /\ 0 < SlotNum
        /\ SlotNum \in Nat
    <2>1. BlockFull /\ NandWriting
      BY DEF SkipBad, EraseNext, BlockFull
    <2>2. page_offset >= SlotNum /\ page_offset \in 0 .. SlotNum /\ SlotNum \in Nat /\ 0 < SlotNum
      BY <2>1, NumberFacts DEF BlockFull, TypeInv
    <2> QED BY <1>0, <2>1, <2>2, WritingFacts, NextBlockFacts DEF TypeInv, Busy
  <1>2. /\ blk_offset' = n
        /\ UNCHANGED <<bad, suspect, g_vendor, pc, count, stamp>>
    BY <1>0 DEF SkipBad, EraseNext, flashVars
  <1>3. /\ \A b \in Blocks : BlockInv(flash[b], stamp)
        /\ stored = Contents(Found(flash).table)
        /\ NoneNewer(flash, g) /\ AllBegun(flash, g)
        /\ suspect = FALSE /\ 0 < count => Found(flash) = g
    BY <1>0, <1>1 DEF DurableInv, PoweredInv
  <1>4. suspect = FALSE =>
           \E h \in Blocks :
              /\ NewestIs(flash, h)
              /\ n \in bad => Cardinality(Passed(h, n) \ bad) <= faults
              /\ Cardinality(Passed(h, n) \ bad) <= faults + 1
    BY <1>0, <1>1, HeadOnTheWay
  <1>5. CASE flash' = flash /\ stored' = stored /\ page_offset' = page_offset
    <2>1. (n \in bad /\ faults' = faults) \/ faults' = faults + 1
      <3>1. CASE SkipBad
        BY <1>0, <3>1 DEF SkipBad
      <3>2. CASE EraseNext
        <4>1. page_offset' # 0
          BY <1>1, <1>5
        <4> QED BY <3>2, <4>1 DEF EraseNext
      <3> QED BY <3>1, <3>2
    <2>2. suspect = FALSE => HeadAt(flash, n, SlotNum, faults')
      <3> SUFFICES ASSUME suspect = FALSE PROVE HeadAt(flash, n, SlotNum, faults')
        OBVIOUS
      <3>1. PICK h \in Blocks :
              /\ NewestIs(flash, h)
              /\ n \in bad => Cardinality(Passed(h, n) \ bad) <= faults
              /\ Cardinality(Passed(h, n) \ bad) <= faults + 1
        BY <1>4
      <3>2. Cardinality(Passed(h, n) \ bad) <= faults'
        BY <2>1, <3>1
      <3>3. ~(SlotNum < SlotNum)
        BY <1>1
      <3> QED BY <3>1, <3>2, <3>3 DEF HeadAt
    <2>3. Position(flash, g, n, SlotNum)
      BY <1>1 DEF Position
    <2>4. PoweredInv(flash, g, pc, n, SlotNum, count, faults', suspect)
      BY <1>3, <2>2, <2>3 DEF PoweredInv
    <2> QED BY <1>0, <1>1, <1>2, <1>3, <1>5, <2>4, DurableNext
  <1>6. CASE /\ PutFlash([flash EXCEPT ![n] = [s \in Slots |-> Erased]])
             /\ page_offset' = 0 /\ n \notin bad
    <2>1. /\ f = [flash EXCEPT ![NextBlock(blk_offset)] = [s \in Slots |-> Erased]]
          /\ stored' = Contents(Found(f).table)
      BY <1>0, <1>2, <1>6, PutFlashFacts
    <2>2. /\ \A b \in Blocks : BlockInv(f[b], stamp)
          /\ ~Good(f[n][0])
          /\ NoneNewer(f, g) /\ AllBegun(f, g)
          /\ suspect = FALSE => /\ Found(f) = Found(flash)
                                /\ \E h \in Blocks : NewestIs(f, h)
      BY <1>0, <1>1, <2>1, EraseFlash
    <2>3. suspect = FALSE => HeadAt(f, n, 0, faults')
      BY <2>2, HeadThere
    <2>4. Position(f, g, n, 0)
      BY <1>6, <2>2 DEF Position, Ready
    <2>5. PoweredInv(f, g, pc, n, 0, count, faults', suspect)
      BY <1>3, <2>2, <2>3, <2>4 DEF PoweredInv
    <2> QED BY <1>0, <1>2, <1>6, <2>1, <2>2, <2>5, DurableNext
  <1>7. \/ flash' = flash /\ stored' = stored /\ page_offset' = page_offset
        \/ /\ PutFlash([flash EXCEPT ![n] = [s \in Slots |-> Erased]])
           /\ page_offset' = 0 /\ n \notin bad
    BY <1>0 DEF SkipBad, EraseNext, flashVars, ErasedBlock
  <1> QED BY <1>5, <1>6, <1>7

\* A copy is programmed: the two outcomes.
LEMMA ProgramCases ==
    ASSUME TypeInv, ProgramStep
    PROVE  \E slot :
             /\ \/ slot = AfterProgram /\ count' = count + 1
                \/ slot = Torn /\ count' = count
             /\ PutFlash(WithSlot(slot)) /\ suspect' = SuspectAfter(slot)
             /\ suspect' \in BOOLEAN /\ faults' \in Nat
  <1>1. faults' \in Nat /\ suspect' \in BOOLEAN
    <2>1. TypeInv'
      BY ProgramTypeInv
    <2> QED BY <2>1, NumberFacts DEF TypeInv
  <1>2. CASE /\ PutFlash(WithSlot(AfterProgram)) /\ count' = count + 1
             /\ suspect' = SuspectAfter(AfterProgram)
    BY <1>1, <1>2
  <1>3. CASE /\ PutFlash(WithSlot(Torn)) /\ count' = count
             /\ suspect' = SuspectAfter(Torn)
    BY <1>1, <1>3
  <1> QED BY <1>2, <1>3 DEF ProgramStep

\* The slots from there on stay free, the images in order; and a boot finds the
\* image as soon as one copy is good.
LEMMA ProgramDurable ==
    ASSUME TypeInv, DurableInv, ProgramStep
    PROVE  DurableInv'
  <1>1. /\ NandWriting /\ page_offset < SlotNum /\ page_offset' = page_offset + 1
        /\ UNCHANGED <<bad, blk_offset, g_vendor, pc, stamp>>
    BY DEF ProgramStep
  <1>2. PICK slot :
             /\ \/ slot = AfterProgram /\ count' = count + 1
                \/ slot = Torn /\ count' = count
             /\ PutFlash(WithSlot(slot)) /\ suspect' = SuspectAfter(slot)
             /\ suspect' \in BOOLEAN /\ faults' \in Nat
    BY ProgramCases
  <1>3. PICK f : f = WithSlot(slot) /\ flash' = f /\ stored' = Contents(Found(f).table)
    BY <1>1, <1>2, PutFlashFacts
  <1>4. /\ \A b \in Blocks : BlockInv(f[b], stamp)
        /\ Position(f, g_vendor, blk_offset, page_offset + 1)
        /\ NoneNewer(f, g_vendor) /\ AllBegun(f, g_vendor)
    BY <1>1, <1>2, <1>3, ProgramFlash
  <1>5. ASSUME suspect' = FALSE
        PROVE  /\ NewestIs(f, blk_offset)
               /\ Good(slot) => Found(f) = g_vendor
               /\ ~Good(slot) => suspect = FALSE /\ Found(f) = Found(flash)
    BY <1>1, <1>2, <1>3, <1>5, ProgramFound
  <1>6. suspect' = FALSE => HeadAt(f, blk_offset, page_offset + 1, faults')
    BY <1>1, <1>2, <1>5, WritingFacts, HeadHere
  <1>7. ASSUME suspect' = FALSE, 0 < count' PROVE Found(f) = g_vendor
    <2>1. CASE Good(slot)
      BY <1>5, <1>7, <2>1
    <2>2. CASE ~Good(slot)
      <3>1. suspect = FALSE /\ Found(f) = Found(flash)
        BY <1>5, <1>7, <2>2
      <3>2. slot = Torn
        <4> SUFFICES ASSUME slot = AfterProgram PROVE slot = Torn
          BY <1>2
        <4>1. flash[blk_offset][page_offset].programmed
          BY <1>1, <2>2, AfterProgramFacts
        <4> QED BY <4>1 DEF AfterProgram
      <3>3. CASE count' = count
        BY <1>1, <1>7, <3>1, <3>3, WritingFacts DEF DurableInv, PoweredInv, Busy
      <3>4. CASE count' # count
        <4>1. slot = AfterProgram
          BY <1>2, <3>4
        <4>2. flash[blk_offset][page_offset].programmed
          BY <1>1, <2>2, <4>1, AfterProgramFacts
        <4>3. flash[blk_offset][page_offset].programmed \in BOOLEAN
          BY <1>1, WritingFacts, UnprogrammedFacts
        <4>4. SuspectAfter(slot)
          BY <1>1, <2>2, <4>2 DEF SuspectAfter
        <4> QED BY <1>2, <1>7, <4>4
      <3> QED BY <3>3, <3>4
    <2> QED BY <2>1, <2>2
  <1>8. PoweredInv(f, g_vendor, pc, blk_offset, page_offset + 1, count', faults', suspect')
    BY <1>4, <1>6, <1>7 DEF PoweredInv
  <1> QED BY <1>1, <1>3, <1>4, <1>8, DurableNext

\* The end of a write.
LEMMA ReturnDurable ==
    ASSUME TypeInv, DurableInv, NandReturn
    PROVE  DurableInv'
  <1>1. /\ pc # "off" /\ pc' = "idle"
        /\ UNCHANGED <<bad, flash, suspect, blk_offset, page_offset, g_vendor, stamp,
                       faults, stored>>
    BY DEF NandReturn, flashVars, nandVars
  <1>2. PICK f : f = flash
    OBVIOUS
  <1>3. PoweredInv(f, g_vendor, "idle", blk_offset, page_offset, count', faults, suspect)
    BY <1>1, <1>2 DEF DurableInv, PoweredInv, Busy
  <1> QED BY <1>1, <1>2, <1>3, DurableNext DEF DurableInv

\* A loss of power.
LEMMA PowerDurable ==
    ASSUME TypeInv, NEW f, LosePower(f), \A b \in Blocks : BlockInv(f[b], stamp)
    PROVE  DurableInv' /\ stored' = Contents(Found(f).table)
  <1>1. pc' = "off" /\ UNCHANGED <<bad, stamp>> /\ PutFlash(f)
    BY DEF LosePower
  <1>2. flash' = f /\ stored' = Contents(Found(f).table)
    BY <1>1, PutFlashFacts
  <1>3. PoweredInv(f, g_vendor', pc', blk_offset', page_offset', count', faults', suspect')
    BY <1>1 DEF PoweredInv
  <1> QED BY <1>1, <1>2, <1>3, DurableNext

\* Where it happens, and what a boot finds then, unless suspect.
LEMMA PowerCases ==
    ASSUME TypeInv, DurableInv, PowerLoss \/ PowerLossInProgram \/ PowerLossInErase
    PROVE  \E f : /\ LosePower(f)
                  /\ \A b \in Blocks : BlockInv(f[b], stamp)
                  /\ suspect' \in BOOLEAN
                  /\ suspect' = FALSE => suspect = FALSE /\ Found(f) = Found(flash)
  <1>1. CASE PowerLoss
    <2>1. LosePower(flash) /\ suspect' = suspect
      BY <1>1 DEF PowerLoss
    <2> QED BY <2>1 DEF DurableInv, TypeInv
  <1>2. CASE PowerLossInProgram
    <2>1. PICK f : f = WithSlot(Torn)
      OBVIOUS
    <2>2. /\ NandWriting /\ page_offset < SlotNum /\ LosePower(f)
          /\ suspect' = (suspect \/ flash[blk_offset][page_offset].programmed)
      BY <1>2, <2>1 DEF PowerLossInProgram
    <2>3. \A b \in Blocks : BlockInv(f[b], stamp)
      BY <2>1, <2>2, ProgramFlash
    <2>4. flash[blk_offset][page_offset].programmed \in BOOLEAN /\ suspect \in BOOLEAN
      BY <2>2, WritingFacts, UnprogrammedFacts DEF TypeInv
    <2>5. ASSUME suspect' = FALSE PROVE suspect = FALSE /\ Found(f) = Found(flash)
      <3>1. suspect = FALSE /\ flash[blk_offset][page_offset].programmed = FALSE
        BY <2>2, <2>4, <2>5
      <3> QED BY <2>1, <2>2, <3>1, TornFound
    <2> QED BY <2>2, <2>3, <2>4, <2>5
  <1>3. CASE PowerLossInErase
    <2>1. PICK f : f = [flash EXCEPT ![NextBlock(blk_offset)] = [s \in Slots |-> Torn]]
      OBVIOUS
    <2>2. BlockFull /\ LosePower(f) /\ suspect' = suspect
      BY <1>3, <2>1 DEF PowerLossInErase
    <2>3. \A b \in Blocks : BlockInv(f[b], stamp)
      BY <2>1, <2>2, EraseFlash
    <2>4. ASSUME suspect' = FALSE PROVE suspect = FALSE /\ Found(f) = Found(flash)
      BY <2>1, <2>2, <2>4, EraseFlash
    <2> QED BY <2>2, <2>3, <2>4 DEF TypeInv
  <1> QED BY <1>1, <1>2, <1>3

\* A slot rots.
LEMMA RotDurable ==
    ASSUME TypeInv, DurableInv, NEW b \in Blocks, NEW s \in Slots, Rot(b, s)
    PROVE  /\ DurableInv'
           /\ suspect' \in BOOLEAN
           /\ suspect' = FALSE => suspect = FALSE /\ stored' = stored
  <1>1. /\ Good(flash[b][s]) /\ faults' = faults + 1 /\ faults \in Nat
        /\ UNCHANGED <<bad, blk_offset, page_offset, g_vendor, pc, count, stamp>>
    BY NumberFacts DEF Rot, nandVars, TypeInv
  <1>2. suspect' = (suspect \/ s = 0 \/ (Leading(b) /\ OtherCopies(b, s) = {}))
    BY DEF Rot
  <1>3. PICK f : f = flash' /\ SlotReplaced(flash, b, s, Torn, f)
    BY RotTypeInv
  <1>4. stored' = Contents(Found(f).table)
    <2>1. PICK e : e = [flash EXCEPT ![b][s] = Torn] /\ PutFlash(e)
      BY DEF Rot
    <2>2. flash' = e /\ stored' = Contents(Found(e).table)
      BY <1>1, <2>1, PutFlashFacts
    <2> QED BY <1>3, <2>2
  <1>5. /\ \A c \in Blocks : BlockInv(f[c], stamp)
        /\ \A c \in Blocks : \A g, page : Ready(flash[c], g, page) => Ready(f[c], g, page)
        /\ \A g : NoneNewer(flash, g) => NoneNewer(f, g)
        /\ \A g : AllBegun(flash, g) => AllBegun(f, g)
        /\ s # 0 => Candidates(f) = Candidates(flash)
        /\ s # 0 /\ (Leading(b) => OtherCopies(b, s) # {}) =>
              /\ \A h : NewestIs(flash, h) => NewestIs(f, h)
              /\ Found(f) = Found(flash)
    BY <1>1, <1>3, RotFlash
  <1>6. suspect' \in BOOLEAN
    BY <1>2 DEF TypeInv
  <1>7. ASSUME suspect' = FALSE
        PROVE  /\ suspect = FALSE /\ Found(f) = Found(flash)
               /\ Candidates(f) = Candidates(flash)
               /\ \A h : NewestIs(flash, h) => NewestIs(f, h)
    <2>1. suspect = FALSE /\ s # 0 /\ (Leading(b) => OtherCopies(b, s) # {})
      BY <1>2, <1>7 DEF TypeInv
    <2> QED BY <1>5, <2>1
  <1>8. ASSUME suspect' = FALSE, HeadAt(flash, blk_offset, page_offset, faults)
        PROVE  HeadAt(f, blk_offset, page_offset, faults')
    <2>1. CASE Candidates(flash) = {} /\ page_offset = 0
      BY <1>7, <1>8, <2>1 DEF HeadAt
    <2>2. ASSUME NEW h \in Blocks, NewestIs(flash, h),
                 0 < page_offset /\ page_offset < SlotNum => h = blk_offset,
                 page_offset = SlotNum => Cardinality(Passed(h, blk_offset) \ bad) <= faults
          PROVE  HeadAt(f, blk_offset, page_offset, faults')
      <3>1. NewestIs(f, h)
        BY <1>7, <1>8, <2>2
      <3>2. ASSUME page_offset = SlotNum
            PROVE  Cardinality(Passed(h, blk_offset) \ bad) <= faults'
        <4>1. IsFiniteSet(Passed(h, blk_offset) \ bad)
          <5>1. Passed(h, blk_offset) \ bad \subseteq Blocks
            BY DEF Passed
          <5> QED BY <5>1, BlockCount, FS_Subset
        <4>2. Cardinality(Passed(h, blk_offset) \ bad) \in Nat
          BY <4>1, FS_CardinalityType
        <4>3. Cardinality(Passed(h, blk_offset) \ bad) <= faults
          BY <2>2, <3>2
        <4> QED BY <1>1, <4>2, <4>3
      <3> QED BY <2>2, <3>1, <3>2 DEF HeadAt
    <2> QED BY <1>8, <2>1, <2>2 DEF HeadAt
  <1>9. blk_offset \in Blocks
    BY DEF TypeInv
  <1>10. PoweredInv(f, g_vendor, pc, blk_offset, page_offset, count, faults', suspect')
    <2> SUFFICES ASSUME pc # "off"
                 PROVE  PoweredInv(f, g_vendor, pc, blk_offset, page_offset, count,
                                   faults', suspect')
      BY DEF PoweredInv
    <2>1. /\ Position(flash, g_vendor, blk_offset, page_offset)
          /\ NoneNewer(flash, g_vendor)
          /\ Busy(pc) => AllBegun(flash, g_vendor)
          /\ suspect = FALSE => HeadAt(flash, blk_offset, page_offset, faults)
          /\ suspect = FALSE /\ Busy(pc) /\ 0 < count => Found(flash) = g_vendor
      BY DEF DurableInv, PoweredInv
    <2>2. Position(f, g_vendor, blk_offset, page_offset)
      BY <1>5, <1>9, <2>1 DEF Position
    <2>3. NoneNewer(f, g_vendor) /\ (Busy(pc) => AllBegun(f, g_vendor))
      BY <1>5, <2>1
    <2>4. suspect' = FALSE => HeadAt(f, blk_offset, page_offset, faults')
      BY <1>7, <1>8, <2>1
    <2>5. suspect' = FALSE /\ Busy(pc) /\ 0 < count => Found(f) = g_vendor
      BY <1>7, <2>1
    <2> QED BY <2>2, <2>3, <2>4, <2>5 DEF PoweredInv
  <1>11. DurableInv'
    BY <1>1, <1>3, <1>4, <1>5, <1>10, DurableNext
  <1>12. suspect' = FALSE => suspect = FALSE /\ stored' = stored
    BY <1>4, <1>7 DEF DurableInv
  <1> QED BY <1>6, <1>11, <1>12

\* Every step.
LEMMA StepDurable ==
    TypeInv /\ DurableInv /\ [Undisturbed]_memVars => DurableInv'
  <1> SUFFICES ASSUME TypeInv, DurableInv, [Undisturbed]_memVars PROVE DurableInv'
    OBVIOUS
  <1>1. CASE BootFound
    BY <1>1, BootFoundDurable
  <1>2. CASE BootFormat
    BY <1>2, BootFormatDurable
  <1>3. CASE \E id \in Ids, size \in Sizes : mtd_vendor_write(id, size)
    BY <1>3, WriteDurable
  <1>4. CASE SkipBad \/ EraseNext
    BY <1>4, NextBlockDurable
  <1>5. CASE ProgramStep
    BY <1>5, ProgramDurable
  <1>6. CASE NandReturn
    BY <1>6, ReturnDurable
  <1>7. CASE PowerLoss \/ PowerLossInProgram \/ PowerLossInErase
    BY <1>7, PowerCases, PowerDurable
  <1>8. CASE \E b \in Blocks, s \in Slots : Rot(b, s)
    BY <1>8, RotDurable
  <1>9. CASE UNCHANGED memVars
    <2>1. /\ UNCHANGED <<bad, flash, stored, suspect, blk_offset, page_offset>>
          /\ UNCHANGED <<g_vendor, pc, count, stamp, faults>>
      BY <1>9 DEF memVars, flashVars, nandVars
    <2>2. PICK f : f = flash
      OBVIOUS
    <2> QED BY <2>1, <2>2, DurableNext DEF DurableInv
  <1> QED BY <1>1, <1>2, <1>3, <1>4, <1>5, <1>6, <1>7, <1>8, <1>9 DEF Undisturbed, NandStep

\* So both hold in every reachable state.
LEMMA AlwaysDurable == Spec => [](torn \/ (TypeInv /\ DurableInv))
  <1>1. (torn \/ (TypeInv /\ DurableInv)) /\ [Next]_vars
            => (torn \/ (TypeInv /\ DurableInv))'
    <2> SUFFICES ASSUME torn \/ (TypeInv /\ DurableInv), [Next]_vars
                 PROVE  torn' \/ (TypeInv' /\ DurableInv')
      OBVIOUS
    <2> QED BY NextSteps, StepTypeInv, StepDurable
  <1>2. Init => TypeInv /\ DurableInv
    BY InitTypeInv, InitDurableInv
  <1> QED BY <1>1, <1>2, PTL DEF Spec

-----------------------------------------------------------------------------
(* The refinement, step by step. *)

\* Whose write is in memory.
BusyNow == IF pc = "write" THEN {"client"} ELSE {}

\* At first no item has been written.
LEMMA InitRefines == Init => DS!Init
  <1> SUFFICES ASSUME Init PROVE DS!Init
    OBVIOUS
  <1>1. /\ g_vendor = Null /\ pc = "off" /\ stored = Contents(EmptyTable)
        /\ suspect = FALSE /\ torn = FALSE
    BY DEF Init
  <1>2. \A id \in Ids : VendorRead(EmptyTable, id) = NoItem
    <2>1. \A id \in Ids : Entries(EmptyTable, id) = {}
      BY DEF EmptyTable, Entries
    <2> QED BY <2>1 DEF VendorRead
  <1>3. Contents(EmptyTable) = [id \in Ids |-> NoItem]
    BY <1>2 DEF Contents
  <1>4. MemContents = stored
    BY <1>1 DEF MemContents
  <1> QED BY <1>1, <1>3, <1>4 DEF DS!Init

\* A boot is not seen.
LEMMA BootRefines ==
    ASSUME TypeInv, TypeInv', DurableInv, BootFound \/ BootFormat
    PROVE  UNCHANGED DS!storeVars
  <1>1. /\ pc = "off" /\ pc' \in {"idle", "format"}
        /\ g_vendor' = Found(flash) /\ stored' = stored /\ suspect' = suspect
    <2>1. CASE BootFound
      BY <2>1 DEF BootFound, flashVars, Found
    <2>2. CASE BootFormat
      BY <2>2 DEF BootFormat, Found
    <2> QED BY <2>1, <2>2
  <1>2. g_vendor = Null /\ g_vendor' # Null
    BY <1>1 DEF TypeInv
  <1>3. MemContents' = stored /\ MemContents = stored
    BY <1>1, <1>2 DEF MemContents, DurableInv
  <1>4. BusyNow' = BusyNow
    BY <1>1 DEF BusyNow
  <1> QED BY <1>1, <1>3, <1>4 DEF DS!storeVars, BusyNow

\* A write in memory.
LEMMA WriteRefines ==
    ASSUME TypeInv, NEW id \in Ids, NEW size \in Sizes, mtd_vendor_write(id, size)
    PROVE  DS!Write("client")
  <1>1. /\ pc = "idle" /\ pc' = "write" /\ stamp < MaxWrites
        /\ Fits(g_vendor.table, id, size)
        /\ g_vendor' = Image(NewTable(id, size, stamp + 1), g_vendor.version + 1)
        /\ UNCHANGED <<stored, suspect>>
    BY DEF mtd_vendor_write, flashVars
  <1>2. ImageInv(g_vendor, stamp) /\ stamp \in Nat /\ g_vendor # Null
    BY <1>1 DEF TypeInv
  <1>3. PICK buf : buf = Buf(stamp + 1, size)
    OBVIOUS
  <1>4. ImageInv(g_vendor', stamp + 1) /\ Written(g_vendor.table, g_vendor'.table, id, buf, size)
    BY <1>1, <1>2, <1>3, NewImageWrites
  <1>5. g_vendor' # Null
    BY <1>4, ImageFacts DEF ImageInv
  <1>6. PICK m, n, a : m = Contents(g_vendor.table) /\ n = Contents(g_vendor'.table)
                       /\ a = Answer(buf, size)
    OBVIOUS
  <1>7. MemContents = m /\ MemContents' = n
    BY <1>2, <1>5, <1>6 DEF MemContents
  <1>8. n = [m EXCEPT ![id] = a]
    <2>1. \A x \in Ids : VendorRead(g_vendor'.table, x) =
              IF x = id THEN a ELSE VendorRead(g_vendor.table, x)
      BY <1>4, <1>6 DEF Written
    <2>2. /\ n = [x \in Ids |-> VendorRead(g_vendor'.table, x)]
          /\ m = [x \in Ids |-> VendorRead(g_vendor.table, x)]
      BY <1>6 DEF Contents
    <2> QED BY <2>1, <2>2
  <1>9. a \in Answers
    <2>1. stamp + 1 \in 1 .. MaxWrites
      BY <1>1, <1>2, VendorTableAssumption
    <2> QED BY <1>3, <1>6, <2>1 DEF Answers
  <1>10. \E x \in Ids, ans \in Answers : MemContents' = [MemContents EXCEPT ![x] = ans]
    BY <1>7, <1>8, <1>9
  <1>11. BusyNow = {} /\ BusyNow' = {"client"}
    BY <1>1 DEF BusyNow
  <1>12. suspect \in BOOLEAN
    BY DEF TypeInv
  <1> QED BY <1>1, <1>10, <1>11, <1>12 DEF DS!Write, BusyNow

\* The medium fails, in the middle of whatever it was doing.
LEMMA DamageRefines ==
    ASSUME suspect' = TRUE, UNCHANGED <<pc, g_vendor>>, g_vendor # Null
    PROVE  DS!Damage
  <1>1. MemContents' = MemContents
    BY DEF MemContents
  <1> QED BY <1>1 DEF DS!Damage

\* Nothing is seen of a step that changes neither.
LEMMA StutterRefines ==
    ASSUME UNCHANGED <<pc, g_vendor, stored, suspect>>
    PROVE  UNCHANGED DS!storeVars
  <1>1. MemContents' = MemContents
    BY DEF MemContents
  <1> QED BY <1>1 DEF DS!storeVars

\* On to the next block: what a boot finds is not in it.
LEMMA NextBlockRefines ==
    ASSUME TypeInv, DurableInv, SkipBad \/ EraseNext
    PROVE  DS!Step \/ UNCHANGED DS!storeVars
  <1>1. /\ BlockFull /\ NandWriting
        /\ UNCHANGED <<bad, suspect, g_vendor, pc>>
    BY DEF SkipBad, EraseNext, BlockFull, flashVars
  <1>2. g_vendor # Null /\ suspect \in BOOLEAN
    BY <1>1, WritingFacts DEF TypeInv
  <1>3. CASE stored' = stored
    BY <1>1, <1>3, StutterRefines
  <1>4. CASE suspect = TRUE
    BY <1>1, <1>2, <1>4, DamageRefines DEF DS!Step
  <1>5. CASE /\ suspect = FALSE
             /\ PutFlash([flash EXCEPT ![NextBlock(blk_offset)] = [s \in Slots |-> Erased]])
    <2>1. PICK f : /\ f = [flash EXCEPT ![NextBlock(blk_offset)] = [s \in Slots |-> Erased]]
                   /\ stored' = Contents(Found(f).table)
      BY <1>1, <1>5, PutFlashFacts
    <2>2. Found(f) = Found(flash)
      BY <1>1, <1>5, <2>1, EraseFlash
    <2>3. stored' = stored
      BY <2>1, <2>2 DEF DurableInv
    <2> QED BY <1>3, <2>3
  <1>6. \/ stored' = stored
        \/ PutFlash([flash EXCEPT ![NextBlock(blk_offset)] = [s \in Slots |-> Erased]])
    BY DEF SkipBad, EraseNext, flashVars, ErasedBlock
  <1> QED BY <1>2, <1>3, <1>4, <1>5, <1>6

\* A copy is programmed: the first good one commits.
LEMMA ProgramRefines ==
    ASSUME TypeInv, DurableInv, ProgramStep
    PROVE  DS!Step \/ UNCHANGED DS!storeVars
  <1>1. /\ NandWriting /\ page_offset < SlotNum
        /\ UNCHANGED <<bad, g_vendor, pc>>
    BY DEF ProgramStep
  <1>2. PICK slot :
             /\ slot = AfterProgram \/ slot = Torn
             /\ PutFlash(WithSlot(slot)) /\ suspect' = SuspectAfter(slot)
             /\ suspect' \in BOOLEAN
    BY ProgramCases
  <1>3. PICK f : f = WithSlot(slot) /\ stored' = Contents(Found(f).table)
    BY <1>1, <1>2, PutFlashFacts
  <1>4. g_vendor # Null
    BY <1>1, WritingFacts
  <1>5. CASE suspect' = TRUE
    BY <1>1, <1>4, <1>5, DamageRefines DEF DS!Step
  <1>6. CASE suspect' = FALSE
    <2>1. /\ Good(slot) => Found(f) = g_vendor
          /\ ~Good(slot) => suspect = FALSE /\ Found(f) = Found(flash)
      BY <1>1, <1>2, <1>3, <1>6, ProgramFound
    <2>2. CASE Good(slot)
      <3>1. MemContents = Contents(g_vendor.table) /\ MemContents' = MemContents
        BY <1>1, <1>4 DEF MemContents
      <3>2. stored' = MemContents
        BY <1>3, <2>1, <2>2, <3>1
      <3>3. DS!Commit
        BY <1>1, <1>6, <3>1, <3>2 DEF DS!Commit
      <3> QED BY <3>3 DEF DS!Step
    <2>3. CASE ~Good(slot)
      <3>1. stored' = stored /\ suspect' = suspect
        BY <1>3, <1>6, <2>1, <2>3 DEF DurableInv
      <3> QED BY <1>1, <3>1, StutterRefines
    <2> QED BY <2>2, <2>3
  <1> QED BY <1>2, <1>5, <1>6

\* The end of a write: what it wrote is stored.
LEMMA ReturnRefines ==
    ASSUME TypeInv, DurableInv, NandReturn
    PROVE  DS!Step \/ UNCHANGED DS!storeVars
  <1>1. /\ pc \in {"format", "write"} /\ count = 2 /\ pc' = "idle"
        /\ UNCHANGED <<g_vendor, stored, suspect>>
    BY DEF NandReturn, flashVars
  <1>2. g_vendor # Null /\ pc # "off" /\ Busy(pc)
    BY <1>1 DEF TypeInv, Busy
  <1>3. MemContents' = MemContents /\ MemContents = Contents(g_vendor.table)
    BY <1>1, <1>2 DEF MemContents
  <1>4. CASE pc = "format"
    <2>1. BusyNow' = BusyNow
      BY <1>1, <1>4 DEF BusyNow
    <2> QED BY <1>1, <1>3, <2>1 DEF DS!storeVars, BusyNow
  <1>5. CASE pc = "write"
    <2>1. suspect = FALSE => stored = MemContents
      <3>1. suspect = FALSE => Found(flash) = g_vendor
        BY <1>1, <1>2 DEF DurableInv, PoweredInv
      <3> QED BY <1>3, <3>1 DEF DurableInv
    <2>2. BusyNow = {"client"} /\ BusyNow' = {}
      BY <1>1, <1>5 DEF BusyNow
    <2>3. suspect \in BOOLEAN
      BY DEF TypeInv
    <2>4. DS!Return("client")
      BY <1>1, <1>3, <2>1, <2>2, <2>3 DEF DS!Return, BusyNow
    <2> QED BY <2>4 DEF DS!Step
  <1> QED BY <1>1, <1>4, <1>5

\* A loss of power, in the middle of a program or an erase too.
LEMMA PowerRefines ==
    ASSUME TypeInv, DurableInv, PowerLoss \/ PowerLossInProgram \/ PowerLossInErase
    PROVE  DS!PowerLoss
  <1>1. PICK f : /\ LosePower(f)
                 /\ \A b \in Blocks : BlockInv(f[b], stamp)
                 /\ suspect' \in BOOLEAN
                 /\ suspect' = FALSE => suspect = FALSE /\ Found(f) = Found(flash)
    BY PowerCases
  <1>2. stored' = Contents(Found(f).table)
    BY <1>1, PowerDurable
  <1>3. g_vendor' = Null /\ pc' = "off"
    BY <1>1 DEF LosePower
  <1>4. MemContents' = stored' /\ BusyNow' = {}
    BY <1>3 DEF MemContents, BusyNow
  <1>5. suspect' = FALSE => suspect' = suspect /\ stored' = stored
    BY <1>1, <1>2 DEF DurableInv
  <1>6. suspect' = TRUE \/ UNCHANGED <<stored, suspect>>
    BY <1>1, <1>5
  <1> QED BY <1>4, <1>6 DEF DS!PowerLoss, BusyNow

\* A slot rots, with or without power.
LEMMA RotRefines ==
    ASSUME TypeInv, DurableInv, NEW b \in Blocks, NEW s \in Slots, Rot(b, s)
    PROVE  DS!Step \/ UNCHANGED DS!storeVars
  <1>1. UNCHANGED <<g_vendor, pc>>
    BY DEF Rot
  <1>2. /\ suspect' \in BOOLEAN
        /\ suspect' = FALSE => suspect = FALSE /\ stored' = stored
    BY RotDurable
  <1>3. CASE suspect' = FALSE
    BY <1>1, <1>2, <1>3, StutterRefines
  <1>4. CASE suspect' = TRUE /\ g_vendor # Null
    BY <1>1, <1>4, DamageRefines DEF DS!Step
  <1>5. CASE suspect' = TRUE /\ g_vendor = Null
    <2>1. pc' = "off" /\ g_vendor' = Null
      BY <1>1, <1>5 DEF TypeInv
    <2>2. MemContents' = stored' /\ BusyNow' = {}
      BY <2>1 DEF MemContents, BusyNow
    <2>3. DS!PowerLoss
      BY <1>5, <2>2 DEF DS!PowerLoss, BusyNow
    <2> QED BY <2>3 DEF DS!Step
  <1> QED BY <1>2, <1>3, <1>4, <1>5

\* Every step.
LEMMA StepRefines ==
    TypeInv /\ DurableInv /\ (TypeInv /\ DurableInv)' /\ [Undisturbed]_memVars
        => [DS!Step]_(DS!storeVars)
  <1> SUFFICES ASSUME TypeInv, DurableInv, TypeInv', DurableInv', [Undisturbed]_memVars
               PROVE  DS!Step \/ UNCHANGED DS!storeVars
    OBVIOUS
  <1>1. CASE BootFound \/ BootFormat
    BY <1>1, BootRefines
  <1>2. CASE \E id \in Ids, size \in Sizes : mtd_vendor_write(id, size)
    BY <1>2, WriteRefines DEF DS!Step
  <1>3. CASE SkipBad \/ EraseNext
    BY <1>3, NextBlockRefines
  <1>4. CASE ProgramStep
    BY <1>4, ProgramRefines
  <1>5. CASE NandReturn
    BY <1>5, ReturnRefines
  <1>6. CASE PowerLoss \/ PowerLossInProgram \/ PowerLossInErase
    BY <1>6, PowerRefines DEF DS!Step
  <1>7. CASE \E b \in Blocks, s \in Slots : Rot(b, s)
    BY <1>7, RotRefines
  <1>8. CASE UNCHANGED memVars
    BY <1>8, StutterRefines DEF memVars, flashVars
  <1> QED BY <1>1, <1>2, <1>3, <1>4, <1>5, <1>6, <1>7, <1>8 DEF Undisturbed, NandStep

\* The NAND storage implements the durable store, for any ring with two blocks
\* more than can be bad or fail: a write changes what is read of its own item
\* and of no other, a loss of power in the middle of a program or an erase finds
\* a whole image, and mtd_vendor_write returns only when a boot would take its
\* image; unless a slot has been programmed twice or in a block that is not
\* taken, or the first slot of a block or the only copy in the newest is lost,
\* and until the next block is begun (mtd_vendor_nand_write,
\* mtd_vendor_storage_init).  Two threads that meet in g_vendor and nand_info,
\* one of them a kernel caller without vendor_ops_mutex, void it.
THEOREM DurableStoreImplemented == Spec => MtdIsDurable
  <1>1. Init => DS!Init
    BY InitRefines
  <1>2. (torn \/ (TypeInv /\ DurableInv)) /\ (torn \/ (TypeInv /\ DurableInv))'
            /\ [Next]_vars => [DS!Next]_(DS!vars)
    <2> SUFFICES ASSUME torn \/ (TypeInv /\ DurableInv),
                        torn' \/ (TypeInv' /\ DurableInv'), [Next]_vars
                 PROVE  DS!Next \/ UNCHANGED DS!vars
      OBVIOUS
    <2>1. CASE torn' = torn /\ ~torn'
      <3>1. [DS!Step]_(DS!storeVars)
        BY <2>1, NextSteps, StepRefines
      <3> QED BY <2>1, <3>1 DEF DS!Next, DS!vars
    <2>2. CASE torn' = TRUE
      BY <2>2 DEF DS!Next, DS!Void
    <2>3. CASE torn' = torn /\ torn
      <3>1. UNCHANGED vars
        BY <2>3 DEF Next
      <3> QED BY <3>1 DEF vars, memVars, flashVars, MemContents, DS!vars, DS!storeVars
    <2> QED BY <2>1, <2>2, <2>3, NextSteps
  <1> QED BY <1>1, <1>2, AlwaysDurable, PTL DEF Spec, MtdIsDurable, DS!Spec

=============================================================================
