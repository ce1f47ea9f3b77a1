-------------------------- MODULE PagePrintProofs ---------------------------
(***************************************************************************)
(* Pages of any size, on any head, in whatever sizes compression gives.    *)
(* First PrintBuffers: the buffers tile the page, the blocks carry every   *)
(* buffer once, the packets every block; Tiled and Packed speak of         *)
(* neighbours, and the induction adds where the last of them ends and what *)
(* the loops still have to do.  Then the firmware: what it has burned are  *)
(* the lines of the buffers it has laid.  Then the callers: that is the    *)
(* page they drew.                                                         *)
(***************************************************************************)
EXTENDS PagePrint, SequenceTheorems, TLAPS

\* Where the tiler stands: current_col follows the last buffer, inside the
\* band in hand.
AtColumn ==
  /\ band = 0 => left = 0 /\ col = 0
  /\ band > 0 => col = Reached(band) - left /\ Reached(band - 1) <= col
  /\ chunks = <<>> => col = 0
  /\ chunks # <<>> => chunks[Len(chunks)].start + chunks[Len(chunks)].cols = col
  /\ pc # "split" => left = 0 /\ band = Len(page.bands)
  /\ pc \notin {"split", "refused"} => chunks # <<>>

\* Where the packer stands: the group it tries is one of buffers left over.
AtBuffer ==
  /\ pc \in {"split", "refused"} => next = 0 /\ blocks = <<>>
  /\ next <= Len(chunks)
  /\ blocks = <<>> => next = 0
  /\ blocks # <<>> => blocks[Len(blocks)].from + blocks[Len(blocks)].count = next
  /\ pc = "pack" /\ next < Len(chunks) => take \in 1..Len(chunks) - next
  /\ pc \in {"send", "done"} => next = Len(chunks)

\* Where the sender stands: the last packet is the last of the block just sent.
AtPacket ==
  /\ pc \in {"split", "refused", "pack"} => sent = 0
  /\ pc = "done" => sent = Len(blocks)
  /\ sent = 0 <=> packets = <<>>
  /\ packets # <<>> =>
       LET last == packets[Len(packets)]
       IN  last.block = sent /\ last.idx + 1 = last.total

BufInv == TypeOK /\ Tiled /\ Packed /\ AtColumn /\ AtBuffer
PrintInv == BufInv /\ PacketsWhole /\ AtPacket

\* The columns cut so far are those of the buffers.
Covered ==
  /\ \A c \in 0..col - 1 : \E i \in 1..Len(chunks) :
       c \in chunks[i].start..chunks[i].start + chunks[i].cols - 1
  /\ \A i \in 1..Len(chunks) : chunks[i].start + chunks[i].cols <= col

\* A page of one band is cut into full buffers and a rest.
OneBandCut ==
  Len(page.bands) = 1 =>
    /\ left > 0 => col % MaxCols = 0
    /\ \A i \in 1..Len(chunks) :
         /\ chunks[i].start % MaxCols = 0
         /\ chunks[i].cols = Lesser(MaxCols, Reached(1) - chunks[i].start)

\* No block reaches past the buffers packed so far.
Inside == \A b \in 1..Len(blocks) : blocks[b].from + blocks[b].count <= next

\* Buffers the firmware has laid, and the column they reach.
Laid == IF blk <= Len(blocks) THEN blocks[blk].from + unpacked ELSE Len(chunks)
Column(k) == IF k = 0 THEN 0 ELSE chunks[k].start + chunks[k].cols

\* What the ink of buffer i leaves on the label.
InkIn(i) ==
  {p \in page.ink : p[1] - page.margin * page.planes \in
     chunks[i].start * page.planes..(chunks[i].start + chunks[i].cols) * page.planes - 1}
Mark(i, p) ==
  [line |-> p[1] - page.margin * page.planes, dot |-> p[2],
   black |-> Nodu(chunks[i].density), red |-> Lesser(chunks[i].density.red, MAX_DENSITY)]
MarksOf(i) == {Mark(i, p) : p \in InkIn(i)}

\* Where the firmware stands: it has burned the buffers it has laid, each line
\* where the page has it.
AtBlock ==
  /\ blk \in Nat \ {0} /\ unpacked \in Nat
  /\ blk <= Len(blocks) => unpacked < blocks[blk].count
  /\ blk > Len(blocks) => unpacked = 0
  /\ pc # "done" => blk = 1 /\ unpacked = 0 /\ line = 0 /\ burned = {}
AsCut ==
  pc = "done" =>
    /\ blk \in 1..Len(blocks) + 1 /\ Laid \in 0..Len(chunks)
    /\ line = Column(Laid) * page.planes
    /\ burned = UNION {MarksOf(i) : i \in 1..Laid}

IInv == PrintInv /\ Covered /\ OneBandCut /\ Inside /\ AtBlock /\ AsCut

-----------------------------------------------------------------------------
(* Arithmetic and sequences *)

LEMMA LesserFacts ==
  ASSUME NEW a \in Int, NEW b \in Int
  PROVE  Lesser(a, b) <= a /\ Lesser(a, b) <= b /\ Lesser(a, b) \in {a, b}
BY DEF Lesser

LEMMA Quotient ==
  ASSUME NEW a \in Nat, NEW b \in Nat \ {0}
  PROVE  /\ a \div b \in Nat
         /\ b * (a \div b) <= a /\ (a \div b) * b <= a
         /\ b <= a => a \div b >= 1
         /\ a < b * ((a \div b) + 1)
OBVIOUS

LEMMA AppendSeq ==
  ASSUME NEW S, NEW s \in Seq(S), NEW e \in S
  PROVE  /\ Append(s, e) \in Seq(S) /\ Append(s, e) # <<>>
         /\ Len(s) \in Nat /\ Len(Append(s, e)) = Len(s) + 1
         /\ \A i \in 1..Len(s) : Append(s, e)[i] = s[i]
         /\ Append(s, e)[Len(s) + 1] = e
OBVIOUS

LEMMA SeqMembers ==
  ASSUME NEW S, NEW s \in Seq(S)
  PROVE  Len(s) \in Nat /\ \A i \in 1..Len(s) : s[i] \in S
OBVIOUS

\* What the assumptions say of the page in hand.
LEMMA PageFacts ==
  ASSUME job \in DOMAIN Pages
  PROVE  /\ page.stride \in Nat \ {0} /\ page.planes \in {1, 2}
         /\ page.stride * page.planes \in Nat \ {0}
         /\ page.stride * page.planes <= MAX_BUF_DATA
         /\ page.bands \in Seq([upto: Nat, density: Densities])
         /\ Len(page.bands) \in Nat
         /\ \A b \in 0..Len(page.bands) : Reached(b) \in Nat
         /\ \A b \in 1..Len(page.bands) : Reached(b - 1) <= Reached(b)
         /\ \A b \in 1..Len(page.bands) : page.bands[b].density \in Densities
<1>1. /\ page.stride \in Nat \ {0} /\ page.planes \in {1, 2}
      /\ page.stride * page.planes <= MAX_BUF_DATA
      /\ page.bands \in Seq([upto: Nat, density: Densities])
      /\ \A b \in 2..Len(page.bands) : page.bands[b - 1].upto <= page.bands[b].upto
  BY PagesAssumption DEF page
<1>2. page.stride * page.planes \in Nat \ {0}
  BY <1>1
<1>3. Len(page.bands) \in Nat
  BY <1>1
<1>4. \A b \in 1..Len(page.bands) : page.bands[b] \in [upto: Nat, density: Densities]
  <2> DEFINE bands == page.bands
  <2>1. bands \in Seq([upto: Nat, density: Densities])
    BY <1>1
  <2> HIDE DEF bands
  <2>2. \A b \in 1..Len(bands) : bands[b] \in [upto: Nat, density: Densities]
    BY <2>1, SeqMembers
  <2> QED
    BY <2>2 DEF bands
<1>5. \A b \in 0..Len(page.bands) : Reached(b) \in Nat
  BY <1>3, <1>4 DEF Reached
<1>6. ASSUME NEW b \in 1..Len(page.bands) PROVE Reached(b - 1) <= Reached(b)
  <2>1. CASE b = 1
    BY <2>1, <1>3, <1>5 DEF Reached
  <2>2. CASE b # 1
    BY <2>2, <1>1, <1>3 DEF Reached
  <2> QED
    BY <2>1, <2>2
<1> QED
  BY <1>1, <1>2, <1>3, <1>4, <1>5, <1>6

\* A print buffer holds a column, and not more than its data.
LEMMA Capacity ==
  ASSUME job \in DOMAIN Pages
  PROVE  /\ MaxCols \in Nat /\ MaxCols >= 1
         /\ \A n \in Nat : n <= MaxCols => n * page.planes * page.stride <= MAX_BUF_DATA
<1> DEFINE w == page.stride * page.planes
<1>1. w \in Nat \ {0} /\ w <= MAX_BUF_DATA /\ MAX_BUF_DATA \in Nat
  BY PageFacts, LimitsAssumption
<1>2. MaxCols = MAX_BUF_DATA \div w
  BY DEF MaxCols
<1> HIDE DEF w
<1>3. MaxCols \in Nat /\ MaxCols >= 1 /\ MaxCols * w <= MAX_BUF_DATA
  BY <1>1, <1>2, Quotient
<1>4. ASSUME NEW n \in Nat, n <= MaxCols PROVE n * w <= MAX_BUF_DATA
  <2>1. n * w <= MaxCols * w
    BY <1>1, <1>3, <1>4
  <2>2. n * w \in Nat /\ MaxCols * w \in Nat
    BY <1>1, <1>3
  <2> QED
    BY <2>1, <2>2, <1>1, <1>3
<1>5. ASSUME NEW n \in Nat PROVE n * page.planes * page.stride = n * w
  BY PageFacts DEF w
<1> QED
  BY <1>3, <1>4, <1>5

LEMMA FewerThan ==
  ASSUME NEW P \in Nat \ {0}, NEW q \in Nat, NEW n \in Nat, P * q < P * n
  PROVE  q < n
<1> SUFFICES ASSUME q >= n PROVE FALSE
  OBVIOUS
<1>1. PICK d \in Nat : q = n + d
  <2>1. q - n \in Nat /\ q = n + (q - n)
    OBVIOUS
  <2> QED
    BY <2>1
<1>2. P * (n + d) = P * n + P * d /\ P * d \in Nat /\ P * n \in Nat
  OBVIOUS
<1> QED
  BY <1>1, <1>2

\* No cast of a block's length, of its packets' count or index loses a bit.
LEMMA CastsKeep ==
  ASSUME TypeOK, NEW b \in 1..Len(blocks)
  PROVE  LET size  == blocks[b].size
             total == PacketCount(size)
         IN  /\ size \in Nat \ {0} /\ total \in Nat
             /\ Header(b) = [length |-> size, packets |-> total]
             /\ BlockPackets(b) =
                  [k \in 1..total |->
                    [block |-> b, idx |-> k - 1, total |-> total,
                     bytes |-> Lesser(DATA_PAYLOAD_SIZE, size - (k - 1) * DATA_PAYLOAD_SIZE)]]
<1> DEFINE size == blocks[b].size
           total == PacketCount(size)
           P == DATA_PAYLOAD_SIZE
<1>1. size \in Nat \ {0} /\ P \in Nat \ {0} /\ size < 65536 /\ size <= 255 * P
  <2>1. blocks[b] \in Block
    BY SeqMembers DEF TypeOK
  <2> QED
    BY <2>1, SizesAssumption DEF Block
<1>2. total = (size + P - 1) \div P
  BY DEF PacketCount
<1>3. Header(b) = [length |-> U16(size), packets |-> U16(total)]
  BY DEF Header
<1>4. BlockPackets(b) =
        [k \in 1..total |-> [block |-> b, idx |-> U8(k - 1), total |-> U8(total),
                             bytes |-> Lesser(P, size - (k - 1) * P)]]
  BY DEF BlockPackets
<1> HIDE DEF size, total, P
<1>5. total \in Nat /\ P * total <= size + P - 1
  BY <1>1, <1>2, Quotient
<1>6. total < 256
  <2>1. P * 256 = 255 * P + P /\ P * total \in Nat /\ 255 * P \in Nat
    BY <1>1, <1>5
  <2>2. P * total < P * 256
    BY <2>1, <1>1, <1>5
  <2> QED
    BY <2>2, <1>1, <1>5, FewerThan
<1>7. U16(size) = size /\ U16(total) = total /\ U8(total) = total
  BY <1>1, <1>5, <1>6 DEF U16, U8
<1>8. \A k \in 1..total : U8(k - 1) = k - 1
  BY <1>5, <1>6 DEF U8
<1>9. Header(b) = [length |-> size, packets |-> total]
  BY <1>3, <1>7
<1>10. BlockPackets(b) =
        [k \in 1..total |-> [block |-> b, idx |-> k - 1, total |-> total,
                             bytes |-> Lesser(P, size - (k - 1) * P)]]
  BY <1>4, <1>7, <1>8
<1> QED
  BY <1>1, <1>5, <1>9, <1>10 DEF size, total, P

\* The packets of a block are well formed; none is empty.
LEMMA PacketsTyped ==
  ASSUME TypeOK, NEW b \in 1..Len(blocks)
  PROVE  BlockPackets(b) \in Seq(Packet)
<1> DEFINE size == blocks[b].size
           total == PacketCount(size)
           P == DATA_PAYLOAD_SIZE
<1>1. size \in Nat \ {0} /\ P \in Nat \ {0}
  <2>1. blocks[b] \in Block
    BY SeqMembers DEF TypeOK
  <2> QED
    BY <2>1, SizesAssumption DEF Block
<1>2. total = (size + P - 1) \div P
  BY DEF PacketCount
<1> HIDE DEF size, total, P
<1>3. total \in Nat /\ P * total <= size + P - 1
  BY <1>1, <1>2, Quotient
<1>4. ASSUME NEW k \in 1..total
      PROVE  size - (k - 1) * P \in Nat \ {0}
  <2>1. (k - 1) * P <= (total - 1) * P
    BY <1>1, <1>3
  <2>2. (total - 1) * P = P * total - P
    BY <1>1, <1>3
  <2>3. (k - 1) * P \in Int /\ P * total \in Int
    BY <1>1, <1>3
  <2> QED
    BY <2>1, <2>2, <2>3, <1>1, <1>3
<1>5. ASSUME NEW k \in 1..total
      PROVE  Lesser(P, size - (k - 1) * P) \in Nat \ {0}
  BY <1>1, <1>4 DEF Lesser
<1>6. \A k \in 1..total : k - 1 \in Nat
  BY <1>3
<1>7. b \in Nat \ {0}
  BY DEF TypeOK
<1>8. \A k \in 1..total :
        [block |-> b, idx |-> k - 1, total |-> total,
         bytes |-> Lesser(P, size - (k - 1) * P)] \in Packet
  BY <1>3, <1>5, <1>6, <1>7 DEF Packet
<1>9. BlockPackets(b) =
        [k \in 1..total |-> [block |-> b, idx |-> k - 1, total |-> total,
                             bytes |-> Lesser(P, size - (k - 1) * P)]]
  BY CastsKeep DEF size, total, P
<1> QED
  BY <1>3, <1>8, <1>9

\* They carry the block whole: each but the last is full, the last has the rest.
LEMMA BlockWhole ==
  ASSUME TypeOK, NEW b \in 1..Len(blocks)
  PROVE  LET ps == BlockPackets(b) IN
         /\ Len(ps) \in Nat \ {0}
         /\ \A k \in 1..Len(ps) :
              /\ Carries(ps[k])
              /\ ps[k].block = b /\ ps[k].idx = k - 1 /\ ps[k].total = Len(ps)
<1> DEFINE size == blocks[b].size
           total == PacketCount(size)
           P == DATA_PAYLOAD_SIZE
           ps == BlockPackets(b)
<1>1. size \in Nat \ {0} /\ P \in Nat \ {0}
  <2>1. blocks[b] \in Block
    BY SeqMembers DEF TypeOK
  <2> QED
    BY <2>1, SizesAssumption DEF Block
<1>2. total = (size + P - 1) \div P
  BY DEF PacketCount
<1>3. /\ ps = [k \in 1..total |-> [block |-> b, idx |-> k - 1, total |-> total,
                                  bytes |-> Lesser(P, size - (k - 1) * P)]]
      /\ Header(b) = [length |-> size, packets |-> total]
  BY CastsKeep
<1> HIDE DEF total, ps, size, P
<1>0. size + P - 1 \in Nat
  BY <1>1
<1>4. total \in Nat /\ P * total <= size + P - 1 /\ size + P - 1 < P * (total + 1)
      /\ (P <= size + P - 1 => total >= 1)
  BY <1>0, <1>1, <1>2, Quotient
<1>5. total >= 1
  BY <1>1, <1>4
<1>6. Len(ps) = total
  BY <1>3, <1>4
<1>7. ASSUME NEW k \in 1..total
      PROVE  Carries(ps[k]) /\ ps[k].block = b /\ ps[k].idx = k - 1 /\ ps[k].total = total
  <2>1. ps[k] = [block |-> b, idx |-> k - 1, total |-> total,
                 bytes |-> Lesser(P, size - (k - 1) * P)]
    BY <1>3
  <2>2. (k - 1) * P \in Nat /\ k - 1 \in Nat /\ k \in Nat
    BY <1>1, <1>4
  <2>3. CASE k < total
    <3>1. k * P <= (total - 1) * P
      BY <1>1, <1>4, <2>2, <2>3
    <3>2. (total - 1) * P = P * total - P /\ k * P = (k - 1) * P + P
      BY <1>1, <1>4, <2>2
    <3>3. P * total \in Int /\ k * P \in Int
      BY <1>1, <1>4, <2>2
    <3>4. P <= size - (k - 1) * P
      BY <3>1, <3>2, <3>3, <1>1, <1>4, <2>2
    <3>5. ps[k].bytes = P
      BY <2>1, <3>4 DEF Lesser
    <3>6. ps[k].idx + 1 < ps[k].total /\ ps[k].idx < ps[k].total
      BY <2>1, <2>2, <2>3, <1>4
    <3>7. ps[k].block = b /\ ps[k].total = Header(ps[k].block).packets
      BY <2>1, <1>3
    <3> QED
      BY <2>1, <3>5, <3>6, <3>7 DEF Carries, P
  <2>4. CASE k = total
    <3>1. (k - 1) * P = P * total - P /\ P * (total + 1) = P * total + P
      BY <1>1, <1>4, <2>4
    <3>2. P * total \in Int
      BY <1>1, <1>4
    <3>3. size - (k - 1) * P \in 1..P
      BY <3>1, <3>2, <1>1, <1>4, <2>2
    <3>4. ps[k].bytes = size - (k - 1) * P
      BY <2>1, <3>3, <1>1 DEF Lesser
    <3>5. ~ (ps[k].idx + 1 < ps[k].total) /\ ps[k].idx < ps[k].total
      BY <2>1, <2>2, <2>4, <1>4
    <3>6. size = (k - 1) * P + ps[k].bytes
      BY <3>4, <1>1, <2>2
    <3>7. ps[k].idx = k - 1 /\ ps[k].block = b
      BY <2>1
    <3>8. blocks[ps[k].block].size = ps[k].idx * DATA_PAYLOAD_SIZE + ps[k].bytes
      BY <3>6, <3>7 DEF P, size
    <3>9. ps[k].bytes \in 1..DATA_PAYLOAD_SIZE
      BY <3>3, <3>4 DEF P
    <3>10. /\ ps[k].total = Header(ps[k].block).packets
           /\ Header(ps[k].block).length = blocks[ps[k].block].size
      BY <2>1, <1>3 DEF size
    <3>11. Carries(ps[k])
      BY <3>5, <3>7, <3>8, <3>9, <3>10 DEF Carries
    <3> QED
      BY <2>1, <3>11
  <2>5. k < total \/ k = total
    BY <1>4
  <2> QED
    BY <2>3, <2>4, <2>5
<1> QED
  BY <1>4, <1>5, <1>6, <1>7 DEF ps

-----------------------------------------------------------------------------
(* The induction *)

LEMMA InitInv == Init => BufInv
<1> SUFFICES ASSUME Init PROVE BufInv
  OBVIOUS
<1> USE DEF Init
<1>1. TypeOK
  BY PageFacts, LimitsAssumption DEF TypeOK
<1>2. AtColumn /\ AtBuffer
  BY DEF AtColumn, AtBuffer
<1>3. Tiled /\ Packed
  BY DEF Tiled, Packed
<1> QED
  BY <1>1, <1>2, <1>3 DEF BufInv

LEMMA NextBandInv == BufInv /\ NextBand => BufInv'
<1> SUFFICES ASSUME BufInv, NextBand PROVE BufInv'
  OBVIOUS
<1> USE DEF BufInv
<1>1. job \in DOMAIN Pages /\ band \in Nat /\ band < Len(page.bands) /\ left = 0
      /\ pc = "split" /\ page' = page
  BY PageFacts DEF TypeOK, NextBand, page
<1>2. /\ Reached(band) \in Nat /\ Reached(band + 1) \in Nat
      /\ Reached(band) <= Reached(band + 1)
  <2>1. band \in 0..Len(page.bands) /\ band + 1 \in 1..Len(page.bands)
    BY <1>1, PageFacts
  <2>2. (band + 1) - 1 = band
    BY <1>1
  <2> QED
    BY <2>1, <2>2, <1>1, PageFacts
<1>3. \A b : Reached(b)' = IF b = 0 THEN 0 ELSE page.bands[b].upto
  BY <1>1 DEF Reached
<1>4. /\ Reached(band)' = Reached(band + 1) /\ Reached(band - 1)' = Reached(band)
      /\ band' = band + 1 /\ left' = Reached(band + 1) - Reached(band) /\ col' = col
  <2>1. band' = band + 1 /\ left' = Reached(band + 1) - Reached(band) /\ col' = col
    BY <1>1 DEF NextBand
  <2>2. (band + 1) - 1 = band
    BY <1>1
  <2> QED
    BY <2>1, <2>2, <1>1 DEF Reached
<1>5. col = Reached(band)
  <2>1. band = 0 => Reached(band) = 0
    BY DEF Reached
  <2> QED
    BY <2>1, <1>1, <1>2 DEF AtColumn
<1>6. TypeOK'
  <2>1. band + 1 \in 0..Len(page.bands)
    BY <1>1, PageFacts
  <2>2. left' \in Nat
    BY <1>2, <1>4
  <2> QED
    BY <1>1, <1>4, <2>1, <2>2 DEF TypeOK, NextBand, packVars, sendVars
<1>7. AtColumn'
  BY <1>1, <1>2, <1>4, <1>5 DEF AtColumn, NextBand
<1>8. AtBuffer' /\ Packed'
  BY <1>1 DEF AtBuffer, Packed, NextBand, packVars, sendVars
<1>9. Tiled'
  BY <1>1, <1>3 DEF Tiled, NextBand, Reached
<1> QED
  BY <1>6, <1>7, <1>8, <1>9

LEMMA CutChunkInv == BufInv /\ CutChunk => BufInv'
<1> SUFFICES ASSUME BufInv, CutChunk PROVE BufInv'
  OBVIOUS
<1> USE DEF BufInv
<1> DEFINE cols == Lesser(left, MaxCols)
           density == page.bands[band].density
           c == [start |-> col, cols |-> cols, density |-> density]
           n == Len(chunks)
<1>1. /\ job \in DOMAIN Pages /\ pc = "split" /\ pc' = pc
      /\ page' = page /\ band' = band /\ job' = job
      /\ chunks' = Append(chunks, c) /\ col' = col + cols /\ left' = left - cols
      /\ UNCHANGED <<next, take, blocks, sent, packets>>
  BY DEF TypeOK, CutChunk, page, packVars, sendVars
<1>2. left \in Nat /\ left > 0 /\ col \in Nat /\ chunks \in Seq(Chunk)
  BY DEF TypeOK, CutChunk
<1>3. band \in 1..Len(page.bands) /\ Len(page.bands) \in Nat
  BY <1>1, <1>2, PageFacts DEF TypeOK, AtColumn
<1>4. cols \in Nat \ {0} /\ cols <= left /\ cols <= MaxCols
  BY <1>1, <1>2, Capacity DEF Lesser
<1>5. density \in Densities
  BY <1>1, <1>3, PageFacts
<1>6. c \in Chunk
  BY <1>2, <1>4, <1>5 DEF Chunk
<1>7. /\ chunks' \in Seq(Chunk) /\ n \in Nat /\ Len(chunks') = n + 1 /\ chunks' # <<>>
      /\ \A i \in 1..n : chunks'[i] = chunks[i]
      /\ chunks'[n + 1] = c
  BY <1>1, <1>2, <1>6, AppendSeq
<1>8. c.start = col /\ c.cols = cols /\ c.density = density
  OBVIOUS
<1>9. /\ Reached(band) \in Nat /\ Reached(band - 1) \in Nat
      /\ col = Reached(band) - left /\ Reached(band - 1) <= col
  <2>1. band \in 0..Len(page.bands) /\ band - 1 \in 0..Len(page.bands) /\ band > 0
    BY <1>3
  <2> QED
    BY <2>1, <1>1, PageFacts DEF AtColumn
<1> HIDE DEF cols, density, c, n
<1>10. TypeOK'
  <2>1. left' \in Nat /\ col' \in Nat
    BY <1>1, <1>2, <1>4
  <2> QED
    BY <2>1, <1>1, <1>7 DEF TypeOK
<1>11. AtColumn'
  <2>1. Reached(band)' = Reached(band) /\ Reached(band - 1)' = Reached(band - 1)
    BY <1>1 DEF Reached
  <2>2. chunks'[Len(chunks')].start + chunks'[Len(chunks')].cols = col'
    BY <1>1, <1>7, <1>8
  <2>3. col' = Reached(band) - left' /\ Reached(band - 1) <= col'
    BY <1>1, <1>2, <1>4, <1>9
  <2> QED
    BY <2>1, <2>2, <2>3, <1>1, <1>3, <1>7 DEF AtColumn
<1>12. AtBuffer'
  <2>1. next = 0 /\ blocks = <<>>
    BY <1>1 DEF AtBuffer
  <2> QED
    BY <2>1, <1>1, <1>7 DEF AtBuffer
<1>13. Packed'
  BY <1>1 DEF Packed
<1>14. Tiled'
  <2>1. ASSUME NEW i \in 1..n + 1
        PROVE  /\ chunks'[i].start = (IF i = 1 THEN 0 ELSE chunks'[i - 1].start + chunks'[i - 1].cols)
               /\ chunks'[i].cols * page.planes * page.stride <= MAX_BUF_DATA
               /\ \E b \in 1..Len(page.bands) :
                    /\ Reached(b - 1) <= chunks'[i].start
                    /\ chunks'[i].start + chunks'[i].cols <= Reached(b)
                    /\ chunks'[i].density = page.bands[b].density
    <3>1. CASE i \in 1..n
      <4>1. chunks'[i] = chunks[i] /\ (i # 1 => chunks'[i - 1] = chunks[i - 1])
        BY <3>1, <1>7
      <4> QED
        BY <4>1, <3>1 DEF Tiled, n
    <3>2. CASE i = n + 1
      <4>1. chunks'[i] = c
        BY <3>2, <1>7
      <4>2. c.start = (IF i = 1 THEN 0 ELSE chunks'[i - 1].start + chunks'[i - 1].cols)
        <5>1. CASE n = 0
          BY <5>1, <3>2, <1>2, <1>8 DEF AtColumn, n
        <5>2. CASE n > 0
          <6>1. chunks'[i - 1] = chunks[n] /\ i # 1 /\ chunks # <<>>
            BY <5>2, <3>2, <1>2, <1>7 DEF n
          <6> QED
            BY <6>1, <1>8 DEF AtColumn, n
        <5> QED
          BY <5>1, <5>2, <1>7
      <4>3. c.cols * page.planes * page.stride <= MAX_BUF_DATA
        BY <1>1, <1>4, <1>8, Capacity
      <4>4. Reached(band - 1) <= c.start /\ c.start + c.cols <= Reached(band)
        BY <1>2, <1>4, <1>8, <1>9
      <4>5. c.density = page.bands[band].density
        BY <1>8 DEF density
      <4> QED
        BY <4>1, <4>2, <4>3, <4>4, <4>5, <1>3
    <3> QED
      BY <3>1, <3>2, <1>7
  <2>2. \A i \in 1..n + 1 : \E b \in 1..Len(page'.bands) :
          /\ Reached(b - 1)' <= chunks'[i].start
          /\ chunks'[i].start + chunks'[i].cols <= Reached(b)'
          /\ chunks'[i].density = page'.bands[b].density
    BY <2>1, <1>1 DEF Reached
  <2>3. \A i \in 1..n + 1 :
          /\ chunks'[i].start = (IF i = 1 THEN 0 ELSE chunks'[i - 1].start + chunks'[i - 1].cols)
          /\ chunks'[i].cols * page'.planes * page'.stride <= MAX_BUF_DATA
    BY <2>1, <1>1
  <2>4. pc' = "split" /\ Len(chunks') = n + 1
    BY <1>1, <1>7
  <2> QED
    BY <2>2, <2>3, <2>4 DEF Tiled
<1> QED
  BY <1>10, <1>11, <1>12, <1>13, <1>14

LEMMA SplitDoneInv == BufInv /\ SplitDone => BufInv'
<1> SUFFICES ASSUME BufInv, SplitDone PROVE BufInv'
  OBVIOUS
<1> USE DEF BufInv
<1>1. /\ job \in DOMAIN Pages /\ page' = page /\ left = 0 /\ band = Len(page.bands)
      /\ pc = "split" /\ pc' = IF chunks = <<>> THEN "refused" ELSE "pack"
      /\ take' = Lesser(BUFFER_MAX_COUNT, Len(chunks))
      /\ UNCHANGED <<job, band, left, col, chunks, next, blocks, sent, packets>>
  BY DEF TypeOK, SplitDone, page, splitVars, sendVars
<1>2. next = 0 /\ blocks = <<>>
  BY <1>1 DEF AtBuffer
<1>3. Len(chunks) \in Nat /\ (chunks # <<>> => Len(chunks) > 0)
  BY DEF TypeOK
<1>4. take' \in 0..BUFFER_MAX_COUNT /\ (chunks # <<>> => take' \in 1..Len(chunks))
  BY <1>1, <1>3, LimitsAssumption DEF Lesser
<1>5. TypeOK'
  BY <1>1, <1>4 DEF TypeOK
<1>6. AtColumn'
  BY <1>1 DEF AtColumn, Reached
<1>7. AtBuffer'
  BY <1>1, <1>2, <1>3, <1>4 DEF AtBuffer
<1>8. Packed'
  BY <1>1, <1>2 DEF Packed
<1>9. Tiled'
  <2>1. \A b : Reached(b)' = Reached(b)
    BY <1>1 DEF Reached
  <2>2. pc' = "pack" => chunks[Len(chunks)].start + chunks[Len(chunks)].cols = Reached(band)
    <3>1. pc' = "pack" => chunks # <<>>
      BY <1>1
    <3>2. band \in 0..Len(page.bands) /\ Reached(band) \in Nat /\ Len(page.bands) \in Nat
      BY <1>1, PageFacts DEF TypeOK
    <3>3. band > 0 => col = Reached(band)
      BY <3>2, <1>1 DEF AtColumn
    <3>4. band = 0 => col = Reached(band)
      BY DEF AtColumn, Reached
    <3> QED
      BY <3>1, <3>2, <3>3, <3>4 DEF AtColumn
  <2>3. pc' \in {"pack", "refused"}
    BY <1>1
  <2> QED
    BY <2>1, <2>2, <2>3, <1>1 DEF Tiled, Reached
<1> QED
  BY <1>5, <1>6, <1>7, <1>8, <1>9

\* Packing and sending leave the tiles alone.
LEMMA TiledKept ==
  ASSUME Tiled, AtColumn, UNCHANGED <<job, splitVars>>,
         pc' \notin {"split", "refused"}, pc \notin {"split", "refused"}
  PROVE  Tiled' /\ AtColumn'
<1>1. page' = page /\ UNCHANGED <<band, left, col, chunks>>
  BY DEF page, splitVars
<1>2. \A b : Reached(b)' = Reached(b)
  BY <1>1 DEF Reached
<1>3. Tiled'
  BY <1>1, <1>2 DEF Tiled, Reached
<1>4. AtColumn'
  BY <1>1 DEF AtColumn, Reached
<1> QED
  BY <1>3, <1>4

LEMMA ShrinkInv == BufInv /\ Shrink => BufInv'
<1> SUFFICES ASSUME BufInv, Shrink PROVE BufInv'
  OBVIOUS
<1> USE DEF BufInv
<1>1. take \in 1..Len(chunks) - next /\ take # 1
  BY DEF Shrink, Fits, AtBuffer
<1>2. Len(chunks) \in Nat /\ next \in Nat /\ take \in 0..BUFFER_MAX_COUNT
  BY DEF TypeOK
<1>3. take - 1 \in 1..Len(chunks) - next /\ take - 1 \in 0..BUFFER_MAX_COUNT
  BY <1>1, <1>2, LimitsAssumption
<1>4. page' = page
  BY DEF Shrink, page
<1>5. TypeOK'
  BY <1>3, <1>4 DEF TypeOK, Shrink, splitVars, sendVars
<1>6. Tiled' /\ AtColumn'
  BY TiledKept DEF Shrink
<1>7. AtBuffer' /\ Packed'
  BY <1>3 DEF AtBuffer, Packed, Shrink, splitVars
<1> QED
  BY <1>5, <1>6, <1>7

LEMMA PackBlockInv == BufInv /\ PackBlock => BufInv'
<1> SUFFICES ASSUME BufInv, PackBlock PROVE BufInv'
  OBVIOUS
<1> USE DEF BufInv
<1>1. PICK size \in Sizes :
        Fits(size) /\ blocks' = Append(blocks, [from |-> next, count |-> take, size |-> size])
  BY DEF PackBlock
<1> DEFINE e == [from |-> next, count |-> take, size |-> size]
           n == Len(blocks)
<1>2. /\ pc = "pack" /\ pc' = pc /\ page' = page /\ next' = next + take
      /\ take' = Lesser(BUFFER_MAX_COUNT, Len(chunks) - next')
      /\ UNCHANGED <<job, band, left, col, chunks, sent, packets>>
  BY DEF PackBlock, page, splitVars, sendVars
<1>3. /\ Len(chunks) \in Nat /\ next \in Nat /\ take \in 0..BUFFER_MAX_COUNT
      /\ blocks \in Seq(Block) /\ sent \in 0..Len(blocks)
  BY DEF TypeOK
<1>4. take \in 1..Len(chunks) - next
  BY <1>2 DEF PackBlock, AtBuffer
<1>5. e \in Block
  BY <1>3, <1>4 DEF Block
<1>6. /\ blocks' \in Seq(Block) /\ n \in Nat /\ Len(blocks') = n + 1 /\ blocks' # <<>>
      /\ \A i \in 1..n : blocks'[i] = blocks[i]
      /\ blocks'[n + 1] = e
  BY <1>1, <1>3, <1>5, AppendSeq
<1>7. e.from = next /\ e.count = take /\ e.size = size
  OBVIOUS
<1>8. next' \in Nat /\ next' <= Len(chunks)
  BY <1>2, <1>3, <1>4
<1>9. /\ take' \in 0..BUFFER_MAX_COUNT
      /\ next' < Len(chunks) => take' \in 1..Len(chunks) - next'
  BY <1>2, <1>3, <1>8, LimitsAssumption DEF Lesser
<1> HIDE DEF e, n
<1>10. TypeOK'
  <2>1. sent \in 0..Len(blocks')
    BY <1>3, <1>6 DEF n
  <2> QED
    BY <2>1, <1>2, <1>6, <1>8, <1>9 DEF TypeOK
<1>11. Tiled' /\ AtColumn'
  BY <1>2, TiledKept DEF splitVars
<1>12. AtBuffer'
  <2>1. blocks'[Len(blocks')].from + blocks'[Len(blocks')].count = next'
    BY <1>2, <1>6, <1>7
  <2> QED
    BY <2>1, <1>2, <1>6, <1>8, <1>9 DEF AtBuffer
<1>13. Packed'
  <2>1. ASSUME NEW j \in 1..n + 1
        PROVE  /\ blocks'[j].from = (IF j = 1 THEN 0 ELSE blocks'[j - 1].from + blocks'[j - 1].count)
               /\ blocks'[j].count <= BUFFER_MAX_COUNT
               /\ blocks'[j].size <= MAX_COMPRESSED_BLOCK \/ blocks'[j].count = 1
    <3>1. CASE j \in 1..n
      <4>1. blocks'[j] = blocks[j] /\ (j # 1 => blocks'[j - 1] = blocks[j - 1])
        BY <3>1, <1>6
      <4> QED
        BY <4>1, <3>1 DEF Packed, n
    <3>2. CASE j = n + 1
      <4>1. blocks'[j] = e
        BY <3>2, <1>6
      <4>2. e.from = (IF j = 1 THEN 0 ELSE blocks'[j - 1].from + blocks'[j - 1].count)
        <5>1. CASE n = 0
          BY <5>1, <3>2, <1>3, <1>7 DEF AtBuffer, n
        <5>2. CASE n > 0
          <6>1. blocks'[j - 1] = blocks[n] /\ j # 1 /\ blocks # <<>>
            BY <5>2, <3>2, <1>3, <1>6 DEF n
          <6> QED
            BY <6>1, <1>7 DEF AtBuffer, n
        <5> QED
          BY <5>1, <5>2, <1>6
      <4>3. e.count <= BUFFER_MAX_COUNT
        BY <1>3, <1>7, LimitsAssumption
      <4>4. e.size <= MAX_COMPRESSED_BLOCK \/ e.count = 1
        BY <1>1, <1>7 DEF Fits
      <4> QED
        BY <4>1, <4>2, <4>3, <4>4
    <3> QED
      BY <3>1, <3>2, <1>6
  <2> QED
    BY <2>1, <1>2, <1>6 DEF Packed
<1> QED
  BY <1>10, <1>11, <1>12, <1>13

LEMMA PackDoneInv == BufInv /\ PackDone => BufInv'
<1> SUFFICES ASSUME BufInv, PackDone PROVE BufInv'
  OBVIOUS
<1> USE DEF BufInv
<1>1. /\ pc = "pack" /\ pc' = "send" /\ next = Len(chunks) /\ page' = page
      /\ UNCHANGED <<job, band, left, col, chunks, next, take, blocks, sent, packets>>
  BY DEF PackDone, page, splitVars, packVars, sendVars
<1>2. TypeOK'
  BY <1>1 DEF TypeOK
<1>3. Tiled' /\ AtColumn'
  BY <1>1, TiledKept DEF splitVars
<1>4. AtBuffer'
  BY <1>1 DEF AtBuffer
<1>5. chunks # <<>> /\ Len(chunks) # 0
  BY <1>1 DEF AtColumn, TypeOK
<1>6. Packed'
  BY <1>1, <1>5 DEF Packed, AtBuffer
<1> QED
  BY <1>2, <1>3, <1>4, <1>6

\* A step that sends nothing keeps the packets whole, if no block is taken back.
LEMMA PacketsKept ==
  ASSUME TypeOK, PacketsWhole, AtPacket, UNCHANGED sendVars,
         \/ blocks' = blocks
         \/ sent = 0,
         pc' # "done", pc' \in {"split", "refused", "pack"} => sent = 0
  PROVE  PacketsWhole' /\ AtPacket'
<1>1. sent' = sent /\ packets' = packets
  BY DEF sendVars
<1>2. CASE packets = <<>>
  BY <1>1, <1>2 DEF PacketsWhole, AtPacket
<1>3. CASE packets # <<>>
  <2>1. blocks' = blocks
    BY <1>3 DEF AtPacket
  <2>2. AtPacket'
    BY <1>1 DEF AtPacket
  <2>3. PacketsWhole'
    BY <1>1, <2>1 DEF PacketsWhole, Carries, Header
  <2> QED
    BY <2>2, <2>3
<1> QED
  BY <1>2, <1>3

\* A block's packets follow the last of the block before.
LEMMA SendBlockWhole ==
  ASSUME TypeOK, PacketsWhole, AtPacket, SendBlock
  PROVE  PacketsWhole' /\ AtPacket'
<1> DEFINE b == sent + 1
           ps == BlockPackets(b)
           n == Len(packets)
           m == Len(ps)
<1>1. /\ packets' = packets \o ps /\ sent' = b /\ blocks' = blocks
      /\ pc = "send" /\ pc' = "send" /\ b \in 1..Len(blocks) /\ sent \in Nat
  BY DEF SendBlock, TypeOK, packVars
<1>2. /\ m \in Nat \ {0}
      /\ \A k \in 1..m :
           Carries(ps[k]) /\ ps[k].block = b /\ ps[k].idx = k - 1 /\ ps[k].total = m
  BY <1>1, BlockWhole
<1>3. packets \in Seq(Packet) /\ ps \in Seq(Packet)
  BY <1>1, PacketsTyped DEF TypeOK
<1>4. n \in Nat
  BY <1>3
<1> HIDE DEF ps, b
<1>5. /\ Len(packets') = n + m
      /\ \A i \in 1..n : packets'[i] = packets[i]
      /\ \A i \in n + 1..n + m : packets'[i] = ps[i - n]
  BY <1>1, <1>3, ConcatProperties
<1> HIDE DEF n, m
<1>6. \A i \in 1..n : Carries(packets[i])
  BY DEF PacketsWhole, n
<1>7. \A i \in 1..n + m : Carries(packets'[i])
  <2> TAKE i \in 1..n + m
  <2>1. CASE i \in 1..n
    BY <2>1, <1>5, <1>6
  <2>2. CASE i \in n + 1..n + m
    <3>1. i - n \in 1..m
      BY <2>2, <1>2, <1>4
    <3> QED
      BY <2>2, <3>1, <1>2, <1>5
  <2>3. i \in 1..n \/ i \in n + 1..n + m
    BY <1>2, <1>4
  <2> QED
    BY <2>1, <2>2, <2>3
<1>8. n > 0 => packets[n].block = sent /\ packets[n].idx + 1 = packets[n].total
  BY <1>3, <1>4 DEF AtPacket, n
<1>9. n = 0 <=> sent = 0
  BY <1>3 DEF AtPacket, n
<1>10. \A i \in 2..n + m : Follows(packets'[i - 1], packets'[i])
  <2> TAKE i \in 2..n + m
  <2>1. CASE i \in 2..n
    <3>1. i - 1 \in 1..n /\ i \in 1..n
      BY <2>1, <1>4
    <3>2. Follows(packets[i - 1], packets[i])
      BY <2>1 DEF PacketsWhole, n
    <3> QED
      BY <3>1, <3>2, <1>5
  <2>2. CASE i = n + 1
    <3>1. n > 0 /\ i - 1 = n /\ n \in 1..n /\ i - n = 1 /\ 1 \in 1..m /\ i \in n + 1..n + m
      BY <2>2, <1>2, <1>4
    <3>2. packets'[i - 1] = packets[n] /\ packets'[i] = ps[1]
      BY <3>1, <1>5
    <3>3. packets[n].block = sent /\ packets[n].idx + 1 = packets[n].total
      BY <3>1, <1>8
    <3>4. ps[1].block = sent + 1 /\ ps[1].idx = 0
      BY <3>1, <1>2 DEF b
    <3> QED
      BY <3>2, <3>3, <3>4 DEF Follows
  <2>3. CASE i \in n + 2..n + m
    <3>1. /\ i - n \in 1..m /\ (i - 1) - n \in 1..m /\ i - n - 1 = ((i - 1) - n - 1) + 1
          /\ i \in n + 1..n + m /\ i - 1 \in n + 1..n + m
      BY <2>3, <1>2, <1>4
    <3>2. packets'[i - 1] = ps[(i - 1) - n] /\ packets'[i] = ps[i - n]
      BY <3>1, <1>5
    <3>3. /\ ps[i - n].block = b /\ ps[i - n].idx = i - n - 1 /\ ps[i - n].total = m
          /\ ps[(i - 1) - n].block = b /\ ps[(i - 1) - n].idx = (i - 1) - n - 1
          /\ ps[(i - 1) - n].total = m
      BY <3>1, <1>2
    <3>4. ps[i - n].idx = ps[(i - 1) - n].idx + 1
      BY <3>1, <3>3
    <3> QED
      BY <3>2, <3>3, <3>4 DEF Follows
  <2>4. i \in 2..n \/ i = n + 1 \/ i \in n + 2..n + m
    BY <1>2, <1>4
  <2> QED
    BY <2>1, <2>2, <2>3, <2>4
<1>11. packets'[1].block = 1 /\ packets'[1].idx = 0
  <2>1. CASE n = 0
    <3>1. packets'[1] = ps[1] /\ 1 \in 1..m
      BY <2>1, <1>2, <1>4, <1>5
    <3> QED
      BY <3>1, <2>1, <1>2, <1>9 DEF b
  <2>2. CASE n > 0
    <3>1. packets # <<>> /\ packets'[1] = packets[1]
      BY <2>2, <1>4, <1>5 DEF n
    <3> QED
      BY <3>1 DEF PacketsWhole
  <2> QED
    BY <2>1, <2>2, <1>4
<1>12. packets' # <<>> /\ packets'[n + m].block = b
       /\ packets'[n + m].idx + 1 = packets'[n + m].total
  <2>1. n + m \in n + 1..n + m /\ (n + m) - n = m /\ m \in 1..m /\ n + m # 0
    BY <1>2, <1>4
  <2>2. packets'[n + m] = ps[m]
    BY <2>1, <1>5
  <2>3. ps[m].block = b /\ ps[m].idx = m - 1 /\ ps[m].total = m
    BY <2>1, <1>2
  <2>4. packets' # <<>>
    BY <2>1, <1>5
  <2> QED
    BY <2>2, <2>3, <2>4, <1>2
<1>13. AtPacket'
  BY <1>1, <1>5, <1>12 DEF AtPacket, b
<1>14. \A i \in 1..Len(packets') : Carries(packets[i])'
  BY <1>1, <1>5, <1>7 DEF Carries, Header
<1>15. PacketsWhole'
  BY <1>1, <1>5, <1>10, <1>11, <1>14 DEF PacketsWhole, Follows
<1> QED
  BY <1>13, <1>15

LEMMA SendInv == BufInv /\ (SendBlock \/ SendDone) => BufInv'
<1> SUFFICES ASSUME BufInv, SendBlock \/ SendDone PROVE BufInv'
  OBVIOUS
<1> USE DEF BufInv
<1>1. /\ pc = "send" /\ pc' \in {"send", "done"} /\ page' = page
      /\ UNCHANGED <<job, band, left, col, chunks, next, take, blocks>>
  BY DEF SendBlock, SendDone, page, splitVars, packVars, sendVars
<1>2. sent' \in 0..Len(blocks) /\ packets' \in Seq(Packet)
  <2>1. CASE SendBlock
    <3>1. sent + 1 \in 1..Len(blocks)
      BY <2>1 DEF SendBlock, TypeOK
    <3>2. BlockPackets(sent + 1) \in Seq(Packet) /\ packets \in Seq(Packet)
      BY <3>1, PacketsTyped DEF TypeOK
    <3>3. packets' \in Seq(Packet)
      BY <2>1, <3>2 DEF SendBlock
    <3> QED
      BY <2>1, <3>1, <3>3 DEF SendBlock
  <2>2. CASE SendDone
    BY <2>2 DEF SendDone, TypeOK, sendVars
  <2> QED
    BY <2>1, <2>2
<1>3. TypeOK'
  BY <1>1, <1>2 DEF TypeOK
<1>4. Tiled' /\ AtColumn'
  BY <1>1, TiledKept DEF splitVars
<1>5. AtBuffer' /\ Packed'
  BY <1>1 DEF AtBuffer, Packed
<1> QED
  BY <1>3, <1>4, <1>5

LEMMA StutterInv == BufInv /\ UNCHANGED vars => BufInv'
BY DEF BufInv, vars, splitVars, packVars, sendVars, TypeOK, Tiled, Packed, AtColumn,
       AtBuffer, Reached, page

LEMMA PrintInit == Init => PrintInv
<1> SUFFICES ASSUME Init PROVE PrintInv
  OBVIOUS
<1>1. PacketsWhole /\ AtPacket
  BY DEF Init, PacketsWhole, AtPacket
<1> QED
  BY <1>1, InitInv DEF PrintInv

LEMMA PrintStep == PrintInv /\ [Next]_vars => PrintInv'
<1> SUFFICES ASSUME PrintInv, [Next]_vars PROVE PrintInv'
  OBVIOUS
<1>0. BufInv /\ TypeOK /\ PacketsWhole /\ AtPacket
  BY DEF PrintInv, BufInv
<1>1. BufInv'
  BY <1>0, NextBandInv, CutChunkInv, SplitDoneInv, ShrinkInv, PackBlockInv, PackDoneInv,
     SendInv, StutterInv DEF Next, Step
<1>2. CASE NextBand \/ CutChunk \/ SplitDone
  <2>1. pc = "split" /\ UNCHANGED sendVars /\ pc' \in {"split", "refused", "pack"}
    BY <1>2 DEF NextBand, CutChunk, SplitDone
  <2>2. sent = 0
    BY <1>0, <2>1 DEF AtPacket
  <2> QED
    BY <1>0, <1>1, <2>1, <2>2, PacketsKept DEF PrintInv
<1>3. CASE Shrink \/ PackBlock \/ PackDone
  <2>1. pc = "pack" /\ UNCHANGED sendVars /\ pc' \in {"pack", "send"}
    BY <1>3 DEF Shrink, PackBlock, PackDone
  <2>2. sent = 0
    BY <1>0, <2>1 DEF AtPacket
  <2> QED
    BY <1>0, <1>1, <2>1, <2>2, PacketsKept DEF PrintInv
<1>4. CASE SendBlock
  BY <1>0, <1>1, <1>4, SendBlockWhole DEF PrintInv
<1>5. CASE SendDone
  <2>1. /\ pc = "send" /\ pc' = "done" /\ sent = Len(blocks)
        /\ blocks' = blocks /\ sent' = sent /\ packets' = packets
    BY <1>5 DEF SendDone, sendVars, packVars
  <2>2. blocks # <<>> /\ sent # 0
    <3>1. next = Len(chunks) /\ chunks # <<>> /\ (blocks = <<>> => next = 0)
      BY <1>0, <2>1 DEF BufInv, AtColumn, AtBuffer
    <3>2. chunks \in Seq(Chunk) /\ blocks \in Seq(Block)
      BY <1>0 DEF TypeOK
    <3> QED
      BY <3>1, <3>2, <2>1
  <2>3. packets # <<>> /\ packets[Len(packets)].block = Len(blocks)
        /\ packets[Len(packets)].idx + 1 = packets[Len(packets)].total
    BY <1>0, <2>1, <2>2 DEF AtPacket
  <2>4. PacketsWhole'
    BY <1>0, <2>1, <2>3 DEF PacketsWhole, Carries, Header
  <2>5. AtPacket'
    BY <1>0, <2>1 DEF AtPacket
  <2> QED
    BY <1>1, <2>4, <2>5 DEF PrintInv
<1>6. CASE UNCHANGED vars
  <2>1. UNCHANGED <<pc, blocks, sent, packets>>
    BY <1>6 DEF vars, packVars, sendVars
  <2>2. PacketsWhole' /\ AtPacket'
    BY <1>0, <2>1 DEF PacketsWhole, Carries, Header, AtPacket
  <2> QED
    BY <1>1, <2>2 DEF PrintInv
<1> QED
  BY <1>2, <1>3, <1>4, <1>5, <1>6 DEF Next, Step

-----------------------------------------------------------------------------
(* The columns are covered *)

LEMMA Division ==
  ASSUME NEW q \in Nat, NEW m \in Nat \ {0}, NEW r \in 0..m - 1
  PROVE  (m * q + r) % m = r /\ (m * q + r) \div m = q
<1> DEFINE a == m * q + r
           k == a \div m
<1>1. m * q \in Nat /\ a \in Nat
  OBVIOUS
<1>2. k \in Nat /\ a = m * k + (a % m) /\ a % m \in 0..m - 1
  BY <1>1
<1>3. m * q + r = m * k + (a % m)
  BY <1>2
<1> HIDE DEF k, a
<1>4. q = k
  <2>1. CASE q >= k + 1
    <3>1. m * q >= m * (k + 1)
      BY <2>1, <1>2
    <3>2. m * (k + 1) = m * k + m
      BY <1>2
    <3> QED
      BY <3>1, <3>2, <1>1, <1>2, <1>3
  <2>2. CASE k >= q + 1
    <3>1. m * k >= m * (q + 1)
      BY <2>2, <1>2
    <3>2. m * (q + 1) = m * q + m
      OBVIOUS
    <3> QED
      BY <3>1, <3>2, <1>1, <1>2, <1>3
  <2> QED
    BY <2>1, <2>2, <1>2
<1> QED
  BY <1>3, <1>4, <1>1, <1>2 DEF a, k

LEMMA Multiples ==
  ASSUME NEW a \in Nat, NEW m \in Nat \ {0}, a % m = 0
  PROVE  (a + m) % m = 0
<1>1. PICK q \in Nat : a = m * q
  <2>1. a \div m \in Nat /\ a = m * (a \div m) + (a % m)
    OBVIOUS
  <2> QED
    BY <2>1
<1>2. a + m = m * (q + 1) + 0
  BY <1>1
<1>3. (m * (q + 1) + 0) % m = 0
  <2>1. q + 1 \in Nat /\ 0 \in 0..m - 1
    OBVIOUS
  <2> QED
    BY <2>1, Division
<1> QED
  BY <1>2, <1>3

LEMMA ChunkTyped ==
  ASSUME BufInv, NEW i \in 1..Len(chunks)
  PROVE  chunks[i].start \in Nat /\ chunks[i].cols \in Nat \ {0} /\ chunks[i].density \in Densities
<1>1. chunks[i] \in Chunk
  BY SeqMembers DEF BufInv, TypeOK
<1> QED
  BY <1>1 DEF Chunk

LEMMA CoverInit == Init => Covered /\ OneBandCut
BY DEF Init, Covered, OneBandCut

LEMMA CoverCut ==
  ASSUME BufInv, Covered, OneBandCut, CutChunk
  PROVE  Covered' /\ OneBandCut'
<1> DEFINE cols == Lesser(left, MaxCols)
           c == [start |-> col, cols |-> cols, density |-> page.bands[band].density]
           n == Len(chunks)
<1>1. /\ job \in DOMAIN Pages /\ page' = page
      /\ chunks' = Append(chunks, c) /\ col' = col + cols /\ left' = left - cols
  BY DEF BufInv, TypeOK, CutChunk, page
<1>2. left \in Nat /\ left > 0 /\ col \in Nat /\ chunks \in Seq(Chunk)
  BY DEF BufInv, TypeOK, CutChunk
<1>3. band \in 1..Len(page.bands) /\ Len(page.bands) \in Nat
  BY <1>1, <1>2, PageFacts DEF BufInv, TypeOK, AtColumn
<1>4. MaxCols \in Nat \ {0} /\ MaxCols' = MaxCols
  BY <1>1, Capacity DEF MaxCols
<1>5. cols \in Nat \ {0} /\ cols <= left /\ cols \in {left, MaxCols}
  BY <1>2, <1>4 DEF Lesser
<1>6. /\ n \in Nat /\ Len(chunks') = n + 1
      /\ \A i \in 1..n : chunks'[i] = chunks[i]
      /\ chunks'[n + 1] = c
  BY <1>1, <1>2
<1>7. c.start = col /\ c.cols = cols
  OBVIOUS
<1> HIDE DEF c, n
<1>9. Covered'
  <2>0. \A i \in 1..n + 1 : chunks'[i].start + chunks'[i].cols <= col'
    <3>1. ASSUME NEW i \in 1..n PROVE chunks'[i].start + chunks'[i].cols <= col'
      <4>1. chunks[i].start + chunks[i].cols <= col /\ chunks'[i] = chunks[i]
        BY <1>6 DEF Covered, n
      <4>2. chunks[i].start \in Nat /\ chunks[i].cols \in Nat
        BY ChunkTyped DEF n
      <4> QED
        BY <4>1, <4>2, <1>1, <1>2, <1>5
    <3>2. chunks'[n + 1].start + chunks'[n + 1].cols <= col'
      BY <1>1, <1>2, <1>5, <1>6, <1>7
    <3> QED
      BY <3>1, <3>2, <1>6
  <2> SUFFICES ASSUME NEW x \in 0..col' - 1
               PROVE  \E i \in 1..n + 1 :
                        x \in chunks'[i].start..chunks'[i].start + chunks'[i].cols - 1
    BY <1>6, <2>0 DEF Covered
  <2>1. CASE x < col
    <3>1. x \in 0..col - 1
      BY <2>1, <1>1, <1>2, <1>5
    <3>2. PICK i \in 1..n : x \in chunks[i].start..chunks[i].start + chunks[i].cols - 1
      BY <3>1 DEF Covered, n
    <3> QED
      BY <3>2, <1>6
  <2>2. CASE x >= col
    <3>1. x \in col..col + cols - 1
      BY <2>2, <1>1, <1>2, <1>5
    <3> QED
      BY <3>1, <1>6, <1>7
  <2>3. x \in Int /\ col \in Int
    BY <1>1, <1>2, <1>5
  <2> QED
    BY <2>1, <2>2, <2>3
<1>10. OneBandCut'
  <2> SUFFICES ASSUME Len(page.bands) = 1
               PROVE  /\ left' > 0 => col' % MaxCols = 0
                      /\ \A i \in 1..n + 1 :
                           /\ chunks'[i].start % MaxCols = 0
                           /\ chunks'[i].cols = Lesser(MaxCols, Reached(1) - chunks'[i].start)
    <3>1. Reached(1)' = Reached(1)
      BY <1>1 DEF Reached
    <3> QED
      BY <3>1, <1>1, <1>4, <1>6 DEF OneBandCut
  <2>1. band = 1
    BY <1>3
  <2>2. col = Reached(1) - left /\ Reached(1) \in Nat /\ col % MaxCols = 0
    BY <2>1, <1>1, <1>2, <1>3, PageFacts DEF BufInv, AtColumn, OneBandCut
  <2>3. cols = Lesser(MaxCols, Reached(1) - col)
    BY <2>2, <1>2, <1>4 DEF Lesser
  <2>4. ASSUME left' > 0 PROVE col' % MaxCols = 0
    <3>1. cols = MaxCols
      BY <2>4, <1>1, <1>2, <1>5
    <3> HIDE DEF cols
    <3>2. (col + MaxCols) % MaxCols = 0
      BY <2>2, <1>2, <1>4, Multiples
    <3> QED
      BY <3>1, <3>2, <1>1
  <2>5. ASSUME NEW i \in 1..n + 1
        PROVE  /\ chunks'[i].start % MaxCols = 0
               /\ chunks'[i].cols = Lesser(MaxCols, Reached(1) - chunks'[i].start)
    <3>1. CASE i = n + 1
      BY <3>1, <1>6, <1>7, <2>2, <2>3
    <3>2. CASE i # n + 1
      <4>1. i \in 1..n
        BY <3>2, <1>6
      <4> QED
        BY <4>1, <1>6 DEF OneBandCut, n
    <3> QED
      BY <3>1, <3>2
  <2> QED
    BY <2>4, <2>5
<1> QED
  BY <1>9, <1>10

LEMMA CoverBand ==
  ASSUME BufInv, Covered, OneBandCut, NextBand
  PROVE  Covered' /\ OneBandCut'
<1>1. /\ job \in DOMAIN Pages /\ page' = page /\ chunks' = chunks /\ col' = col
      /\ left = 0 /\ band' = band + 1 /\ band < Len(page.bands)
      /\ left' = Reached(band + 1) - Reached(band)
  BY DEF BufInv, TypeOK, NextBand, page
<1>2. Covered'
  BY <1>1 DEF Covered
<1>3. ASSUME Len(page.bands) = 1 PROVE col % MaxCols = 0
  <2>1. band = 0 /\ col = 0
    BY <1>1, <1>3 DEF BufInv, TypeOK, AtColumn
  <2>2. MaxCols \in Nat \ {0}
    BY <1>1, Capacity
  <2> QED
    BY <2>1, <2>2
<1>4. Reached(1)' = Reached(1) /\ MaxCols' = MaxCols
  BY <1>1 DEF Reached, MaxCols
<1>5. OneBandCut'
  BY <1>1, <1>3, <1>4 DEF OneBandCut
<1> QED
  BY <1>2, <1>5

LEMMA CoverKept ==
  ASSUME Covered, OneBandCut, UNCHANGED <<job, splitVars>>
  PROVE  Covered' /\ OneBandCut'
<1>1. page' = page /\ chunks' = chunks /\ col' = col /\ left' = left
  BY DEF splitVars, page
<1>2. Reached(1)' = Reached(1) /\ MaxCols' = MaxCols
  BY <1>1 DEF Reached, MaxCols
<1> QED
  BY <1>1, <1>2 DEF Covered, OneBandCut

LEMMA CoverStep ==
  ASSUME BufInv, Covered, OneBandCut, [Next]_vars
  PROVE  Covered' /\ OneBandCut'
<1>1. CASE NextBand
  BY <1>1, CoverBand
<1>2. CASE CutChunk
  BY <1>2, CoverCut
<1>3. CASE SplitDone \/ Shrink \/ PackBlock \/ PackDone \/ SendBlock \/ SendDone \/ UNCHANGED vars
  <2>1. UNCHANGED <<job, splitVars>>
    BY <1>3 DEF SplitDone, Shrink, PackBlock, PackDone, SendBlock, SendDone, vars
  <2> QED
    BY <2>1, CoverKept
<1> QED
  BY <1>1, <1>2, <1>3 DEF Next, Step

-----------------------------------------------------------------------------
(* The firmware *)

LEMMA InsideStep ==
  ASSUME BufInv, Inside, [Next]_vars
  PROVE  Inside'
<1>1. blocks \in Seq(Block) /\ next \in Nat /\ take \in Nat
  BY LimitsAssumption DEF BufInv, TypeOK
<1>2. CASE PackBlock
  <2> DEFINE n == Len(blocks)
  <2>1. PICK size \in Sizes :
          blocks' = Append(blocks, [from |-> next, count |-> take, size |-> size])
    BY <1>2 DEF PackBlock
  <2>2. next' = next + take
    BY <1>2 DEF PackBlock
  <2> DEFINE e == [from |-> next, count |-> take, size |-> size]
  <2>3. /\ n \in Nat /\ Len(blocks') = n + 1 /\ blocks'[n + 1] = e
        /\ \A b \in 1..n : blocks'[b] = blocks[b]
    BY <2>1, <1>1
  <2>4. e.from = next /\ e.count = take
    OBVIOUS
  <2> HIDE DEF e
  <2> SUFFICES ASSUME NEW b \in 1..n + 1
               PROVE  blocks'[b].from + blocks'[b].count <= next'
    BY <2>3 DEF Inside
  <2>5. CASE b = n + 1
    BY <2>5, <2>2, <2>3, <2>4, <1>1
  <2>6. CASE b # n + 1
    <3>1. b \in 1..Len(blocks)
      BY <2>6, <2>3
    <3>2. blocks[b] \in Block
      BY <3>1, <1>1, SeqMembers
    <3>3. blocks[b].from \in Nat /\ blocks[b].count \in Nat
      BY <3>2 DEF Block
    <3>4. blocks[b].from + blocks[b].count <= next
      BY <3>1 DEF Inside
    <3> QED
      BY <3>1, <3>3, <3>4, <2>2, <2>3, <1>1
  <2> QED
    BY <2>5, <2>6
<1>3. CASE \/ NextBand \/ CutChunk \/ SplitDone \/ Shrink \/ PackDone \/ SendBlock \/ SendDone
           \/ UNCHANGED vars
  <2>1. next' = next /\ blocks' = blocks
    BY <1>3 DEF NextBand, CutChunk, SplitDone, Shrink, PackDone, SendBlock, SendDone, vars, packVars
  <2> QED
    BY <2>1 DEF Inside
<1> QED
  BY <1>2, <1>3 DEF Next, Step

\* What is known of the blocks once they are all sent.
SentFacts == pc = "done" =>
  /\ blocks \in Seq(Block) /\ Len(blocks) \in Nat \ {0} /\ Len(chunks) \in Nat \ {0}
  /\ \A b \in 1..Len(blocks) : blocks[b].from \in Nat /\ blocks[b].count \in Nat \ {0}
  /\ blocks[1].from = 0
  /\ \A b \in 2..Len(blocks) : blocks[b].from = blocks[b - 1].from + blocks[b - 1].count
  /\ \A b \in 1..Len(blocks) : blocks[b].from + blocks[b].count <= Len(chunks)
  /\ blocks[Len(blocks)].from + blocks[Len(blocks)].count = Len(chunks)

LEMMA AllSent == PrintInv /\ Inside => SentFacts
<1> SUFFICES ASSUME PrintInv, Inside, pc = "done" PROVE SentFacts
  BY DEF SentFacts
<1>1. blocks \in Seq(Block) /\ chunks \in Seq(Chunk) /\ next = Len(chunks) /\ chunks # <<>>
  BY DEF PrintInv, BufInv, TypeOK, AtBuffer, AtColumn
<1>2. blocks # <<>>
  BY <1>1 DEF PrintInv, BufInv, AtBuffer
<1>3. Len(blocks) \in Nat \ {0} /\ Len(chunks) \in Nat \ {0}
  BY <1>1, <1>2
<1>4. ASSUME NEW b \in 1..Len(blocks)
      PROVE blocks[b].from \in Nat /\ blocks[b].count \in Nat \ {0}
  <2>1. blocks[b] \in Block
    BY <1>1, SeqMembers
  <2> QED
    BY <2>1 DEF Block
<1>5. /\ blocks[1].from = 0
      /\ \A b \in 2..Len(blocks) : blocks[b].from = blocks[b - 1].from + blocks[b - 1].count
      /\ blocks[Len(blocks)].from + blocks[Len(blocks)].count = Len(chunks)
  BY <1>3 DEF PrintInv, BufInv, Packed
<1>6. \A b \in 1..Len(blocks) : blocks[b].from + blocks[b].count <= Len(chunks)
  BY <1>1 DEF Inside
<1> QED
  BY <1>1, <1>3, <1>4, <1>5, <1>6 DEF SentFacts

LEMMA FirmwareInit == PageInit => Inside /\ AtBlock /\ AsCut
BY DEF PageInit, Init, Inside, AtBlock, AsCut

LEMMA FirmwareWaits ==
  ASSUME PrintInv, PrintInv', Inside', AtBlock, AsCut, [Next]_vars, UNCHANGED firmwareVars
  PROVE  AtBlock' /\ AsCut'
<1>0. UNCHANGED <<blk, unpacked, line, burned>>
  BY DEF firmwareVars
<1>1. CASE pc # "done"
  <2>1. blk = 1 /\ unpacked = 0 /\ line = 0 /\ burned = {}
    BY <1>1 DEF AtBlock
  <2>2. ASSUME pc' = "done" PROVE AtBlock' /\ AsCut'
    <3>0. SentFacts'
      BY AllSent, PTL
    <3>1. /\ blocks' \in Seq(Block) /\ Len(blocks') \in Nat \ {0} /\ Len(chunks') \in Nat \ {0}
          /\ \A b \in 1..Len(blocks') :
               blocks'[b].from \in Nat /\ blocks'[b].count \in Nat \ {0}
          /\ blocks'[1].from = 0
      BY <2>2, <3>0 DEF SentFacts
    <3>2. Laid' = 0
      BY <3>1, <2>1, <1>0 DEF Laid
    <3>3. page'.planes \in {1, 2}
      <4>1. (job \in DOMAIN Pages)'
        BY DEF PrintInv, BufInv, TypeOK
      <4> QED
        BY <4>1, PagesAssumption DEF page
    <3>4. AtBlock'
      BY <3>1, <2>1, <2>2, <1>0 DEF AtBlock
    <3>5. AsCut'
      BY <3>1, <3>2, <3>3, <2>1, <2>2, <1>0 DEF AsCut, Column
    <3> QED
      BY <3>4, <3>5
  <2>3. ASSUME pc' # "done" PROVE AtBlock' /\ AsCut'
    <3>1. (blocks \in Seq(Block))'
      BY DEF PrintInv, BufInv, TypeOK
    <3>2. 1 <= Len(blocks') => blocks'[1] \in Block
      BY <3>1, SeqMembers
    <3>3. 1 <= Len(blocks') => blocks'[1].count \in Nat \ {0}
      BY <3>2 DEF Block
    <3> QED
      BY <2>1, <2>3, <3>3, <1>0 DEF AtBlock, AsCut
  <2> QED
    BY <2>2, <2>3
<1>2. CASE pc = "done"
  <2>1. UNCHANGED vars
    BY <1>2 DEF Next, Step, NextBand, CutChunk, SplitDone, Shrink, PackBlock, PackDone,
       SendBlock, SendDone
  <2>2. UNCHANGED <<job, pc, chunks, blocks>>
    BY <2>1 DEF vars, splitVars, packVars
  <2>3. Laid' = Laid /\ page' = page
    BY <2>2, <1>0 DEF Laid, page
  <2>4. AtBlock'
    BY <2>2, <1>0 DEF AtBlock
  <2>5. AsCut'
    BY <2>2, <2>3, <1>0 DEF AsCut, Column, MarksOf, Mark, InkIn
  <2> QED
    BY <2>4, <2>5
<1> QED
  BY <1>1, <1>2

LEMMA Scaled ==
  ASSUME NEW P \in {1, 2}, NEW m \in Nat, NEW s \in Nat, NEW c \in Nat
  PROVE  /\ (m + s) * P = m * P + s * P /\ (s + c) * P = s * P + c * P
         /\ m * P \in Nat /\ s * P \in Nat /\ c * P \in Nat
OBVIOUS

\* A buffer leaves its ink where the page has it.
LEMMA BufferMarks ==
  ASSUME BufInv, NEW i \in 1..Len(chunks)
  PROVE  {[line |-> chunks[i].start * page.planes + p[1], dot |-> p[2],
           black |-> Buffer(i).nodu, red |-> Buffer(i).red] : p \in Buffer(i).ink} = MarksOf(i)
<1> DEFINE P == page.planes
           m == page.margin
           s == chunks[i].start
           c == chunks[i].cols
           from == (m + s) * P
           base == m * P
           M(l, d) == [line |-> l, dot |-> d, black |-> Nodu(chunks[i].density),
                       red |-> Lesser(chunks[i].density.red, MAX_DENSITY)]
<1>1. job \in DOMAIN Pages
  BY DEF BufInv, TypeOK
<1>2. P \in {1, 2} /\ m \in Nat /\ page.ink \subseteq Int \X Int
  BY <1>1, PagesAssumption DEF page
<1>3. s \in Nat /\ c \in Nat
  BY ChunkTyped
<1> HIDE DEF P, m, s, c
<1>4. from = base + s * P /\ (s + c) * P = s * P + c * P
      /\ base \in Nat /\ s * P \in Nat /\ c * P \in Nat
  BY <1>2, <1>3, Scaled
<1> HIDE DEF from, base
<1>5. Buffer(i).ink = {<<q[1] - from, q[2]>> : q \in {r \in page.ink : r[1] \in from..from + c * P - 1}}
  BY DEF Buffer, Ink, from, P, m, s, c
<1>6. InkIn(i) = {r \in page.ink : r[1] \in from..from + c * P - 1}
  <2>1. \A r \in page.ink : r[1] \in Int
    BY <1>2
  <2>2. \A r \in page.ink : r[1] - base \in s * P..(s + c) * P - 1
                        <=> r[1] \in from..from + c * P - 1
    BY <2>1, <1>4
  <2> QED
    BY <2>2 DEF InkIn, base, P, m, s, c
<1>7. \A q \in page.ink : s * P + (q[1] - from) = q[1] - base
  BY <1>2, <1>4
<1>8. Buffer(i).nodu = Nodu(chunks[i].density)
      /\ Buffer(i).red = Lesser(chunks[i].density.red, MAX_DENSITY)
  BY DEF Buffer
<1>9. MarksOf(i) = {M(q[1] - base, q[2]) : q \in InkIn(i)}
  BY DEF MarksOf, Mark, base, P, m
<1>10. {M(s * P + p[1], p[2]) : p \in Buffer(i).ink} = {M(q[1] - base, q[2]) : q \in InkIn(i)}
  <2> HIDE DEF M
  <2>1. InkIn(i) \subseteq page.ink
    BY DEF InkIn
  <2>2. ASSUME NEW p \in Buffer(i).ink
        PROVE  \E q \in InkIn(i) : M(s * P + p[1], p[2]) = M(q[1] - base, q[2])
    <3>1. PICK q \in InkIn(i) : p = <<q[1] - from, q[2]>>
      BY <1>5, <1>6
    <3>2. p[1] = q[1] - from /\ p[2] = q[2]
      BY <3>1
    <3> QED
      BY <3>2, <2>1, <1>7
  <2>3. ASSUME NEW q \in InkIn(i)
        PROVE  \E p \in Buffer(i).ink : M(s * P + p[1], p[2]) = M(q[1] - base, q[2])
    <3>1. <<q[1] - from, q[2]>> \in Buffer(i).ink
      BY <1>5, <1>6
    <3>2. s * P + (q[1] - from) = q[1] - base
      BY <2>1, <1>7
    <3> QED
      BY <3>1, <3>2
  <2> QED
    BY <2>2, <2>3
<1> QED
  BY <1>8, <1>9, <1>10 DEF s, P

LEMMA BurnStep ==
  ASSUME PrintInv, Inside, AtBlock, AsCut, Burn
  PROVE  AtBlock' /\ AsCut'
<1>1. /\ pc = "done" /\ blk <= Len(blocks) /\ UNCHANGED <<job, pc, chunks, blocks>>
      /\ IF unpacked + 1 < blocks[blk].count
         THEN unpacked' = unpacked + 1 /\ blk' = blk
         ELSE unpacked' = 0 /\ blk' = blk + 1
  BY DEF Burn, vars, splitVars, packVars
<1> DEFINE n == Len(blocks)
           k == Len(chunks)
           i == Laid + 1
           P == page.planes
<1>2. n \in Nat \ {0} /\ k \in Nat \ {0}
  BY <1>1, AllSent DEF SentFacts
<1>3. blk \in 1..n /\ unpacked \in Nat /\ unpacked < blocks[blk].count
      /\ blocks[blk].from \in Nat /\ blocks[blk].count \in Nat \ {0}
      /\ blocks[blk].from + blocks[blk].count <= k
  BY <1>1, <1>2, AllSent DEF SentFacts, AtBlock
<1>4. Laid = blocks[blk].from + unpacked
  BY <1>1 DEF Laid
<1>5. Laid \in Nat /\ i \in 1..k
  BY <1>2, <1>3, <1>4
<1>6. page' = page
  BY <1>1 DEF page
<1>7. AtBlock'
  <2>1. CASE unpacked + 1 < blocks[blk].count
    BY <2>1, <1>1, <1>3 DEF AtBlock
  <2>2. CASE ~(unpacked + 1 < blocks[blk].count)
    <3>1. unpacked' = 0 /\ blk' = blk + 1 /\ blk' \in Nat \ {0} /\ blocks' = blocks /\ pc' = "done"
      BY <2>2, <1>1, <1>3
    <3>2. blk' <= n => blocks[blk'].count \in Nat \ {0}
      BY <3>1, <1>1, <1>2, AllSent DEF SentFacts
    <3> QED
      BY <3>1, <3>2 DEF AtBlock
  <2> QED
    BY <2>1, <2>2
<1>8. Laid' = i /\ blk' \in 1..n + 1
  <2>1. CASE unpacked + 1 < blocks[blk].count
    BY <2>1, <1>1, <1>2, <1>3, <1>4 DEF Laid
  <2>2. CASE ~(unpacked + 1 < blocks[blk].count)
    <3>1. unpacked' = 0 /\ blk' = blk + 1 /\ unpacked + 1 = blocks[blk].count /\ blocks' = blocks
          /\ chunks' = chunks
      BY <2>2, <1>1, <1>3
    <3>2. i = blocks[blk].from + blocks[blk].count
      <4>1. Laid + 1 = blocks[blk].from + (unpacked + 1)
        BY <1>3, <1>4
      <4> QED
        BY <3>1, <4>1
    <3>3. CASE blk < n
      <4>1. blk + 1 \in 2..n /\ (blk + 1) - 1 = blk
        BY <3>3, <1>2, <1>3
      <4>2. /\ blocks[blk + 1].from = blocks[(blk + 1) - 1].from + blocks[(blk + 1) - 1].count
            /\ blocks[blk + 1].from \in Nat
        <5>1. blk + 1 \in 2..Len(blocks) /\ blk + 1 \in 1..Len(blocks)
          BY <4>1, <1>2
        <5> QED
          BY <5>1, <1>1, AllSent DEF SentFacts
      <4> QED
        BY <3>1, <3>2, <4>1, <4>2, <1>2 DEF Laid
    <3>4. CASE blk = n
      <4>1. blocks[blk].from + blocks[blk].count = k
        BY <3>4, <1>1, AllSent DEF SentFacts
      <4> QED
        BY <3>1, <3>2, <3>4, <4>1, <1>2 DEF Laid
    <3> QED
      BY <3>3, <3>4, <1>2, <1>3
  <2> QED
    BY <2>1, <2>2
<1>9. chunks[i].start = Column(Laid) /\ chunks[i].start \in Nat /\ chunks[i].cols \in Nat
  <2>1. chunks[i].start = IF i = 1 THEN 0 ELSE chunks[i - 1].start + chunks[i - 1].cols
    BY <1>5 DEF PrintInv, BufInv, Tiled
  <2> QED
    BY <2>1, <1>5, ChunkTyped DEF PrintInv, Column
<1>10. line = chunks[i].start * P /\ burned = UNION {MarksOf(h) : h \in 1..Laid}
  BY <1>1, <1>9 DEF AsCut
<1>11. Buffer(blocks[blk].from + unpacked + 1) = Buffer(i)
  BY <1>4
<1>12. burned' = burned \union {[line |-> line + p[1], dot |-> p[2],
                 black |-> Buffer(i).nodu, red |-> Buffer(i).red] : p \in Buffer(i).ink}
       /\ line' = line + Buffer(i).lines
  BY <1>11 DEF Burn
<1>13. burned' = burned \union MarksOf(i)
  BY <1>5, <1>10, <1>12, BufferMarks DEF PrintInv
<1>14. P \in {1, 2}
  BY PagesAssumption DEF page, PrintInv, BufInv, TypeOK
<1>15. line' = Column(i) * P
  <2>1. Buffer(i).lines = chunks[i].cols * P
    BY DEF Buffer
  <2>2. Column(i) = chunks[i].start + chunks[i].cols
    BY <1>5 DEF Column
  <2> HIDE DEF i, P
  <2> QED
    BY <2>1, <2>2, <1>9, <1>10, <1>12, <1>14
<1>16. burned' = UNION {MarksOf(h) : h \in 1..i}
  <2>1. 1..i = (1..Laid) \union {i}
    BY <1>5
  <2> HIDE DEF i
  <2> QED
    BY <2>1, <1>10, <1>13
<1>17. AsCut'
  <2>1. /\ Column(Laid)' = Column(i) /\ Laid' \in 0..k /\ page'.planes = P
        /\ UNION {MarksOf(h) : h \in 1..Laid}' = UNION {MarksOf(h) : h \in 1..i}
    BY <1>1, <1>5, <1>6, <1>8 DEF Column, MarksOf, Mark, InkIn
  <2> QED
    BY <2>1, <1>1, <1>8, <1>15, <1>16 DEF AsCut
<1> QED
  BY <1>7, <1>17

LEMMA Invariance == PageSpec => []IInv
<1>1. PageInit => IInv
  BY PrintInit, CoverInit, FirmwareInit DEF PageInit, IInv
<1>2. IInv /\ [PageNext]_<<vars, firmwareVars>> => IInv'
  <2> SUFFICES ASSUME IInv, [PageNext]_<<vars, firmwareVars>> PROVE IInv'
    OBVIOUS
  <2>1. PrintInv /\ BufInv /\ Covered /\ OneBandCut /\ Inside /\ AtBlock /\ AsCut
    BY DEF IInv, PrintInv
  <2>2. [Next]_vars
    BY DEF PageNext, Burn
  <2>3. PrintInv' /\ Covered' /\ OneBandCut' /\ Inside'
    BY <2>1, <2>2, PrintStep, CoverStep, InsideStep
  <2>4. AtBlock' /\ AsCut'
    <3>1. CASE Burn
      BY <3>1, <2>1, BurnStep
    <3>2. CASE UNCHANGED firmwareVars
      BY <3>2, <2>1, <2>2, <2>3, FirmwareWaits
    <3> QED
      BY <3>1, <3>2 DEF PageNext
  <2> QED
    BY <2>3, <2>4 DEF IInv
<1> QED
  BY <1>1, <1>2, PTL DEF PageSpec

-----------------------------------------------------------------------------
(* What is burned *)

LEMMA LinesWithin ==
  ASSUME NEW P \in {1, 2}, NEW s \in Nat, NEW c \in Nat, NEW t \in Nat, s + c <= t,
         NEW x \in s * P..(s + c) * P - 1
  PROVE  x \in 0..t * P - 1
<1>1. CASE P = 1
  BY <1>1
<1>2. CASE P = 2
  BY <1>2
<1> QED
  BY <1>1, <1>2

LEMMA LineOfColumn ==
  ASSUME NEW P \in {1, 2}, NEW t \in Nat, NEW x \in 0..t * P - 1
  PROVE  \E c \in 0..t - 1 : x \in c * P..(c + 1) * P - 1
<1>1. CASE P = 1
  BY <1>1
<1>2. CASE P = 2
  <2>1. x \div 2 \in 0..t - 1 /\ x \in (x \div 2) * 2..((x \div 2) + 1) * 2 - 1
    BY <1>2
  <2> QED
    BY <2>1, <1>2
<1> QED
  BY <1>1, <1>2

LEMMA ColumnWithin ==
  ASSUME NEW P \in {1, 2}, NEW s \in Nat, NEW e \in Nat, NEW c \in s..s + e - 1,
         NEW x \in c * P..(c + 1) * P - 1
  PROVE  x \in s * P..(s + e) * P - 1
<1>1. CASE P = 1
  BY <1>1
<1>2. CASE P = 2
  BY <1>2
<1> QED
  BY <1>1, <1>2

\* A mark of the finished page, and the buffer that left it.
LEMMA OfABuffer ==
  ASSUME IInv, AllBurned, NEW b
  PROVE  b \in burned <=> \E i \in 1..Len(chunks) : \E p \in InkIn(i) : b = Mark(i, p)
<1>1. Laid = Len(chunks)
  BY DEF AllBurned, Laid, IInv, AtBlock
<1>2. burned = UNION {MarksOf(i) : i \in 1..Len(chunks)}
  BY <1>1 DEF AllBurned, IInv, AsCut
<1> QED
  BY <1>2 DEF MarksOf

\* The tiler has reached the end of the page.
LEMMA AllCut ==
  ASSUME IInv, AllBurned
  PROVE  /\ job \in DOMAIN Pages /\ BufInv /\ Len(page.bands) >= 1 /\ Len(page.bands) \in Nat
         /\ col \in Nat /\ col = Reached(Len(page.bands))
         /\ page.planes \in {1, 2} /\ page.margin \in Nat /\ page.ink \subseteq Int \X Int
<1>1. /\ job \in DOMAIN Pages /\ BufInv /\ pc = "done" /\ left = 0 /\ band = Len(page.bands)
      /\ chunks # <<>> /\ chunks \in Seq(Chunk) /\ col \in Nat
  BY DEF IInv, PrintInv, BufInv, TypeOK, AtColumn, AllBurned
<1>2. page.planes \in {1, 2} /\ page.margin \in Nat /\ page.ink \subseteq Int \X Int
  BY <1>1, PagesAssumption DEF page
<1>3. Len(page.bands) \in Nat /\ \A b \in 0..Len(page.bands) : Reached(b) \in Nat
  BY <1>1, PageFacts
<1>4. band # 0
  <2>1. Len(chunks) >= 1
    BY <1>1
  <2>2. chunks[1].start + chunks[1].cols <= col /\ chunks[1].start \in Nat /\ chunks[1].cols \in Nat \ {0}
    BY <2>1, <1>1, ChunkTyped DEF IInv, Covered
  <2> QED
    BY <2>2, <1>1 DEF BufInv, AtColumn
<1>5. col = Reached(band) - left
  BY <1>1, <1>3, <1>4 DEF BufInv, AtColumn
<1> QED
  BY <1>1, <1>2, <1>3, <1>4, <1>5

\* The ink between the margins.
Printed ==
  {p \in page.ink : p[1] - page.margin * page.planes \in
     0..Reached(Len(page.bands)) * page.planes - 1}

\* It is burned where the page has it, all of it and nothing else.
LEMMA BurnedAsDrawn ==
  ASSUME IInv, AllBurned
  PROVE  DotsOf(burned) = {<<p[1] - page.margin * page.planes, p[2]>> : p \in Printed}
<1> DEFINE P == page.planes
           m == page.margin * page.planes
<1>1. /\ BufInv /\ col \in Nat /\ col = Reached(Len(page.bands)) /\ P \in {1, 2}
      /\ page.margin \in Nat /\ page.ink \subseteq Int \X Int
  BY AllCut
<1>2. m \in Int
  BY <1>1
<1>3. \A p \in page.ink : p[1] \in Int /\ p[1] - m \in Int
  BY <1>1, <1>2
<1>4. \A i, p : Mark(i, p).line = p[1] - m /\ Mark(i, p).dot = p[2]
  BY DEF Mark
<1> HIDE DEF m, P
<1>5. ASSUME NEW b \in burned
      PROVE  \E p \in Printed : <<b.line, b.dot>> = <<p[1] - m, p[2]>>
  <2>0. PICK i \in 1..Len(chunks) : \E p \in InkIn(i) : b = Mark(i, p)
    BY OfABuffer
  <2>1. PICK p \in InkIn(i) : b = Mark(i, p)
    BY <2>0
  <2>2. p \in page.ink /\ p[1] - m \in chunks[i].start * P..(chunks[i].start + chunks[i].cols) * P - 1
    BY DEF InkIn, m, P
  <2>3. chunks[i].start \in Nat /\ chunks[i].cols \in Nat
        /\ chunks[i].start + chunks[i].cols <= col
    BY <1>1, ChunkTyped DEF IInv, Covered
  <2>4. p[1] - m \in 0..col * P - 1
    BY <2>2, <2>3, <1>1, LinesWithin
  <2>5. p \in Printed
    BY <2>2, <2>4, <1>1 DEF Printed, m, P
  <2> QED
    BY <2>1, <2>5, <1>4
<1>6. ASSUME NEW p \in Printed
      PROVE  \E b \in burned : <<b.line, b.dot>> = <<p[1] - m, p[2]>>
  <2> DEFINE x == p[1] - m
  <2>1. p \in page.ink /\ x \in 0..col * P - 1
    BY <1>1 DEF Printed, m, P
  <2> HIDE DEF x
  <2>3. PICK c \in 0..col - 1 : x \in c * P..(c + 1) * P - 1
    BY <2>1, <1>1, LineOfColumn
  <2>4. PICK i \in 1..Len(chunks) :
          c \in chunks[i].start..chunks[i].start + chunks[i].cols - 1
    BY DEF IInv, Covered
  <2>5. chunks[i].start \in Nat /\ chunks[i].cols \in Nat
    BY <1>1, ChunkTyped
  <2>6. x \in chunks[i].start * P..(chunks[i].start + chunks[i].cols) * P - 1
    BY <2>3, <2>4, <2>5, <1>1, ColumnWithin
  <2>7. p \in InkIn(i)
    BY <2>1, <2>6 DEF InkIn, x, m, P
  <2>8. Mark(i, p) \in burned
    BY <2>7, OfABuffer
  <2> QED
    BY <2>8, <1>4
<1>7. DotsOf(burned) = {<<p[1] - m, p[2]>> : p \in Printed}
  BY <1>5, <1>6 DEF DotsOf
<1> QED
  BY <1>7 DEF m

-----------------------------------------------------------------------------
(* The callers *)

LEMMA PageDrawn ==
  ASSUME job \in DOMAIN Pages
  PROVE  /\ job \in Jobs /\ page = PageOf(job) /\ job.rows \in Nat /\ job.rows < 65536
         /\ job.caller = "raster" => page = RasterPage(job)
         /\ job.caller = "gray" => page = GrayPage(job)
         /\ job.caller = "two" => page = TwoColourPage(job)
         /\ job.caller = "test" => page = TestPage(job)
         /\ job.caller = "ladder" => page = LadderPage(job)
<1>1. Pages = JobPages /\ DOMAIN JobPages = Jobs
  BY PagesAreJobs DEF JobPages
<1>2. job \in Jobs
  BY <1>1
<1>3. page = PageOf(job)
  BY <1>1, <1>2 DEF JobPages, page
<1>4. job.rows \in Nat /\ job.rows < 65536
  BY <1>2, JobsAssumption
<1>5. job.caller = "raster" => PageOf(job) = RasterPage(job)
  BY DEF PageOf
<1>6. job.caller = "gray" => PageOf(job) = GrayPage(job)
  BY DEF PageOf
<1>7. job.caller = "two" => PageOf(job) = TwoColourPage(job)
  BY DEF PageOf
<1>8. job.caller = "test" => PageOf(job) = TestPage(job)
  BY DEF PageOf
<1>9. job.caller = "ladder" => PageOf(job) = LadderPage(job)
  BY DEF PageOf
<1> QED
  BY <1>2, <1>3, <1>4, <1>5, <1>6, <1>7, <1>8, <1>9

\* Where a pixel of a page w dots wide goes on a head of u dots.
Shift(w, u) == IF w >= u THEN CropOffset(w - u) ELSE -((u - w) \div 2)
DotOf(x, w, u) == w - 1 - x - Shift(w, u)

LEMMA ShiftHalves ==
  ASSUME NEW w \in Nat, NEW u \in Nat
  PROVE  /\ Shift(w, u) \in Int /\ w - u - 2 * Shift(w, u) \in -1..1
         /\ w >= u => w - u - 2 * Shift(w, u) = (w - u) % 2
         /\ w < u => w - u - 2 * Shift(w, u) \in -1..0
BY DEF Shift, CropOffset

\* dither, transpose and centre move each pixel by itself.
LEMMA CentredInk ==
  ASSUME NEW w \in Nat, NEW rows \in Nat, NEW head \in Nat,
         NEW X \in SUBSET ((0..w - 1) \X (0..rows - 1))
  PROVE  CenterInPrinthead(RasterToColumnMajor(Dither(X, w), w, rows), w, head) =
           {<<p[2], DotOf(p[1], w, Usable(head))>> :
              p \in {q \in X : DotOf(q[1], w, Usable(head)) \in 0..Usable(head) - 1}}
<1> DEFINE u == Usable(head)
           s == Shift(w, u)
           lines == RasterToColumnMajor(Dither(X, w), w, rows)
<1>1. u \in Nat
  BY DEF Usable
<1>2. \A p \in X : p[1] \in 0..w - 1 /\ p[2] \in 0..rows - 1
  OBVIOUS
<1>3. lines = {<<p[2], w - 1 - p[1]>> : p \in X}
  <2>1. Dither(X, w) = {<<w - 1 - p[1], p[2]>> : p \in X}
    BY DEF Dither
  <2>2. \A q \in Dither(X, w) : q[1] < w /\ q[2] < rows
    BY <2>1, <1>2
  <2>3. lines = {<<q[2], q[1]>> : q \in Dither(X, w)}
    BY <2>2 DEF RasterToColumnMajor
  <2>4. \A q \in lines : \E p \in X : q = <<p[2], w - 1 - p[1]>>
    BY <2>1, <2>3
  <2>5. ASSUME NEW p \in X PROVE <<p[2], w - 1 - p[1]>> \in lines
    <3>1. <<w - 1 - p[1], p[2]>> \in Dither(X, w)
      BY <2>1
    <3> QED
      BY <3>1, <2>3
  <2> HIDE DEF lines
  <2> QED
    BY <2>4, <2>5
<1>4. s \in Int
  BY <1>1, ShiftHalves
<1> DEFINE C == CenterInPrinthead(lines, w, head)
           D == {<<p[2], DotOf(p[1], w, u)>> : p \in {q \in X : DotOf(q[1], w, u) \in 0..u - 1}}
<1>5. \A p \in X : DotOf(p[1], w, u) = w - 1 - p[1] - s
  BY DEF DotOf
<1>6. CASE w >= u
  <2>1. C = {<<p[1], p[2] - s>> : p \in {q \in lines : q[2] - s \in 0..u - 1}}
    BY <1>6 DEF CenterInPrinthead, Shift
  <2> HIDE DEF s, u, lines, C
  <2>2. ASSUME NEW c \in C PROVE c \in D
    <3>1. PICK q \in lines : q[2] - s \in 0..u - 1 /\ c = <<q[1], q[2] - s>>
      BY <2>1
    <3>2. PICK p \in X : q = <<p[2], w - 1 - p[1]>>
      BY <1>3
    <3> QED
      BY <3>1, <3>2, <1>5
  <2>3. ASSUME NEW p \in X, DotOf(p[1], w, u) \in 0..u - 1
        PROVE  <<p[2], DotOf(p[1], w, u)>> \in C
    <3>1. <<p[2], w - 1 - p[1]>> \in lines
      BY <1>3
    <3> QED
      BY <3>1, <2>1, <2>3, <1>5
  <2>4. C = D
    BY <2>2, <2>3
  <2> QED
    BY <2>4 DEF C, lines, u
<1>7. CASE w < u
  <2>1. C = {<<p[1], p[2] - s>> : p \in lines}
    <3>1. C = {<<p[1], p[2] + ((u - w) \div 2)>> : p \in lines}
      BY <1>1, <1>7 DEF CenterInPrinthead
    <3>2. s = -((u - w) \div 2) /\ (u - w) \div 2 \in Int
      BY <1>1, <1>7 DEF Shift
    <3>3. \A p \in lines : p[2] \in Int
      <4> HIDE DEF lines
      <4> QED
        BY <1>2, <1>3
    <3> HIDE DEF s, lines
    <3>4. \A p \in lines : p[2] - s = p[2] + ((u - w) \div 2)
      BY <3>2, <3>3
    <3> QED
      BY <3>1, <3>4
  <2>2. \A p \in X : DotOf(p[1], w, u) \in 0..u - 1
    <3>1. w - u - 2 * s \in -1..0
      BY <1>1, <1>7, ShiftHalves
    <3> HIDE DEF s, u
    <3> QED
      BY <3>1, <1>1, <1>2, <1>4, <1>5, <1>7
  <2> HIDE DEF s, u, lines, C
  <2>3. ASSUME NEW c \in C PROVE c \in D
    <3>1. PICK q \in lines : c = <<q[1], q[2] - s>>
      BY <2>1
    <3>2. PICK p \in X : q = <<p[2], w - 1 - p[1]>>
      BY <1>3
    <3> QED
      BY <3>1, <3>2, <2>2, <1>5
  <2>4. ASSUME NEW p \in X PROVE <<p[2], DotOf(p[1], w, u)>> \in C
    <3>1. <<p[2], w - 1 - p[1]>> \in lines
      BY <1>3
    <3> QED
      BY <3>1, <2>1, <1>5
  <2>5. C = D
    BY <2>3, <2>4
  <2> QED
    BY <2>5 DEF C, lines, u
<1> QED
  BY <1>1, <1>6, <1>7

\* Its offset from the middle, doubled, is kept to half a dot; the head takes
\* what is not further from the middle than its own edge.
LEMMA Middle ==
  ASSUME NEW w \in Nat, NEW u \in Nat, NEW x \in 0..w - 1,
         NEW half, half = (IF w > u /\ (w - u) % 2 = 1 THEN 1 ELSE 0)
  PROVE  /\ DotOf(x, w, u) \in Int /\ half \in 0..1
         /\ 2 * DotOf(x, w, u) - (u - 1) - (w - 1 - 2 * x) \in -1..1
         /\ w - 1 - 2 * x \in 1 - u + half..u - 1 - half => DotOf(x, w, u) \in 0..u - 1
         /\ DotOf(x, w, u) \in 0..u - 1 => w - 1 - 2 * x \in 1 - u - half..u - 1 + half
<1> DEFINE s == Shift(w, u)
           e == w - u - 2 * s
           d == DotOf(x, w, u)
<1>1. /\ s \in Int /\ e \in -1..1 /\ (w >= u => e = (w - u) % 2) /\ (w < u => e \in -1..0)
  BY ShiftHalves
<1>2. d = w - 1 - x - s
  BY DEF DotOf
<1>3. (w >= u => e = half) /\ (w < u => half = 0) /\ half \in 0..1
  <2>1. w >= u => (w - u) % 2 \in 0..1
    OBVIOUS
  <2>2. w = u => (w - u) % 2 = 0
    OBVIOUS
  <2> QED
    BY <2>1, <2>2, <1>1
<1>4. e = w - u - 2 * s
  OBVIOUS
<1> HIDE DEF s, e, d
<1>5. 2 * d - (u - 1) - (w - 1 - 2 * x) = e /\ d \in Int
  BY <1>1, <1>2, <1>4
<1>6. w - 1 - 2 * x \in 1 - u + half..u - 1 - half => d \in 0..u - 1
  <2>1. CASE w >= u
    BY <2>1, <1>1, <1>3, <1>5
  <2>2. CASE w < u
    BY <2>2, <1>1, <1>3, <1>5
  <2> QED
    BY <2>1, <2>2
<1>7. d \in 0..u - 1 => w - 1 - 2 * x \in 1 - u - half..u - 1 + half
  <2>1. CASE w >= u
    BY <2>1, <1>1, <1>3, <1>5
  <2>2. CASE w < u
    BY <2>2, <1>1, <1>3, <1>5
  <2> QED
    BY <2>1, <2>2
<1>8. /\ d \in Int /\ half \in 0..1
      /\ 2 * d - (u - 1) - (w - 1 - 2 * x) \in -1..1
  BY <1>1, <1>3, <1>5
<1> QED
  BY <1>6, <1>7, <1>8 DEF d

\* split_into_buffers counts in u16 what is left between the margins.
LEMMA OneBandReaches ==
  ASSUME NEW rows \in Nat, rows < 65536, NEW margin \in Nat, 2 * margin <= rows, NEW d,
         page.bands = OneBand(rows, margin, d)
  PROVE  Len(page.bands) = 1 /\ Reached(1) = rows - 2 * margin
<1> DEFINE r == rows - 2 * margin
<1>1. r \in Nat /\ r < 65536
  OBVIOUS
<1>2. page.bands = <<[upto |-> r % 65536, density |-> d]>>
  BY DEF OneBand
<1> HIDE DEF r
<1>3. r % 65536 = r
  BY <1>1
<1>4. Len(page.bands) = 1 /\ Reached(1) = r
  BY <1>2, <1>3 DEF Reached
<1> QED
  BY <1>4 DEF r

LEMMA WholeBytes ==
  ASSUME NEW head \in Nat
  PROVE  Usable(8 * (head \div 8)) = Usable(head) /\ Usable(head) \in Nat
BY DEF Usable

Width == IF job.caller = "raster" THEN job.width ELSE PRINTHEAD_WIDTH_DOTS
HeadWidth == IF job.caller = "raster" THEN job.head ELSE PRINTHEAD_WIDTH_DOTS

\* transfer_page and print_grayscale draw the same way.
LEMMA CentredPage ==
  ASSUME job \in DOMAIN Pages, job.caller \in {"raster", "gray"}
  PROVE  /\ Width \in Nat /\ Usable(8 * page.stride) \in Nat /\ job.rows \in Nat
         /\ Pixels \subseteq (0..Width - 1) \X (0..job.rows - 1)
         /\ page.planes = 1 /\ page.margin \in Nat
         /\ Len(page.bands) = 1 /\ Reached(1) = job.rows - 2 * page.margin
         /\ page.ink =
              {<<p[2], DotOf(p[1], Width, Usable(8 * page.stride))>> :
                 p \in {q \in Pixels : DotOf(q[1], Width, Usable(8 * page.stride))
                                          \in 0..Usable(8 * page.stride) - 1}}
<1>1. job \in Jobs /\ job.rows \in Nat /\ job.rows < 65536
  BY PageDrawn
<1>2. Width \in Nat /\ HeadWidth \in Nat
  BY <1>1, JobsAssumption, PrintheadAssumption DEF Width, HeadWidth
<1>3. Pixels \subseteq (0..Width - 1) \X (0..job.rows - 1)
  <2>1. CASE job.caller = "raster"
    BY <2>1, <1>1, JobsAssumption DEF Pixels, Width
  <2>2. CASE job.caller = "gray"
    <3>1. Pixels = GrayPixels(job) /\ Width = PRINTHEAD_WIDTH_DOTS
      BY <2>2 DEF Pixels, Width
    <3>2. GrayPixels(job) \subseteq (0..PRINTHEAD_WIDTH_DOTS - 1) \X (0..job.rows - 1)
      BY DEF GrayPixels, GrayRamp, GrayBands
    <3> QED
      BY <3>1, <3>2
  <2> QED
    BY <2>1, <2>2
<1>4. /\ page.planes = 1 /\ page.margin \in Nat /\ 2 * page.margin <= job.rows
      /\ page.stride = HeadWidth \div 8
      /\ page.bands = OneBand(job.rows, page.margin, job.density)
      /\ page.ink = CenterInPrinthead(
           RasterToColumnMajor(Dither(Pixels, Width), Width, job.rows), Width, HeadWidth)
  <2>1. CASE job.caller = "raster"
    BY <2>1, <1>1, PageDrawn DEF RasterPage, Pixels, Width, HeadWidth
  <2>2. CASE job.caller = "gray"
    <3>1. page = GrayPage(job) /\ job.rows >= 2 * DEFAULT_MARGIN_DOTS
      BY <2>2, <1>1, PageDrawn, JobsAssumption
    <3> QED
      BY <3>1, <2>2, <1>1, PrintheadAssumption DEF GrayPage, Pixels, Width, HeadWidth
  <2> QED
    BY <2>1, <2>2
<1>5. Len(page.bands) = 1 /\ Reached(1) = job.rows - 2 * page.margin
  BY <1>1, <1>4, OneBandReaches
<1>6. Usable(8 * page.stride) = Usable(HeadWidth) /\ Usable(HeadWidth) \in Nat
  BY <1>2, <1>4, WholeBytes
<1>7. page.ink = {<<p[2], DotOf(p[1], Width, Usable(HeadWidth))>> :
        p \in {q \in Pixels : DotOf(q[1], Width, Usable(HeadWidth)) \in 0..Usable(HeadWidth) - 1}}
  BY <1>1, <1>2, <1>3, <1>4, CentredInk
<1> QED
  BY <1>1, <1>2, <1>3, <1>4, <1>5, <1>6, <1>7

LEMMA CentredHolds == IInv => Centred
<1> SUFFICES ASSUME IInv, AllBurned, job.caller \in {"raster", "gray"}
             PROVE  Centred
  BY DEF Centred
<1> DEFINE dots == DotsOf(burned)
           u == Usable(8 * page.stride)
           w == Width
           half == IF w > u /\ (w - u) % 2 = 1 THEN 1 ELSE 0
           m == page.margin
           rows == job.rows
           D(x) == DotOf(x, w, u)
           Off(x) == w - 1 - 2 * x
           Near(d, x) == 2 * d - (u - 1) - Off(x) \in -1..1
           OnPage(p, slack) ==
             /\ p[2] \in m..rows - m - 1
             /\ Off(p[1]) \in 1 - u - slack..u - 1 + slack
<1>1. job \in DOMAIN Pages
  BY AllCut
<1>2. /\ w \in Nat /\ u \in Nat /\ rows \in Nat /\ m \in Nat /\ page.planes = 1
      /\ Pixels \subseteq (0..w - 1) \X (0..rows - 1)
      /\ Len(page.bands) = 1 /\ Reached(1) = rows - 2 * m
      /\ page.ink = {<<p[2], D(p[1])>> : p \in {q \in Pixels : D(q[1]) \in 0..u - 1}}
  BY <1>1, CentredPage
<1>3. half \in 0..1
  OBVIOUS
<1>4. ASSUME NEW p \in Pixels
      PROVE  /\ p[1] \in 0..w - 1 /\ p[2] \in 0..rows - 1 /\ D(p[1]) \in Int
             /\ Near(D(p[1]), p[1])
             /\ Off(p[1]) \in 1 - u + half..u - 1 - half => D(p[1]) \in 0..u - 1
             /\ D(p[1]) \in 0..u - 1 => Off(p[1]) \in 1 - u - half..u - 1 + half
  <2>1. p[1] \in 0..w - 1 /\ p[2] \in 0..rows - 1
    BY <1>2
  <2> HIDE DEF w, u
  <2> QED
    BY <2>1, <1>2, Middle
<1>5. /\ dots = {<<p[1] - m, p[2]>> : p \in Printed}
      /\ Printed = {p \in page.ink : p[1] - m \in 0..rows - 2 * m - 1}
  <2>1. page.margin * page.planes = m /\ Reached(Len(page.bands)) * page.planes = rows - 2 * m
    BY <1>2
  <2> QED
    BY <2>1, BurnedAsDrawn DEF Printed
<1> HIDE DEF dots, u, w, half, m, rows, D
<1>6. ASSUME NEW p \in Pixels, p[2] \in m..rows - m - 1, D(p[1]) \in 0..u - 1
      PROVE  <<p[2] - m, D(p[1])>> \in dots
  <2>1. <<p[2], D(p[1])>> \in page.ink
    BY <1>2, <1>6
  <2>2. p[2] - m \in 0..rows - 2 * m - 1
    BY <1>2, <1>4, <1>6
  <2>3. <<p[2], D(p[1])>> \in Printed
    BY <1>5, <2>1, <2>2
  <2> QED
    BY <1>5, <2>3
<1>7. \A p \in Pixels : OnPage(p, -half) =>
        \E d \in 0..u - 1 : Near(d, p[1]) /\ <<p[2] - m, d>> \in dots
  <2> SUFFICES ASSUME NEW p \in Pixels, OnPage(p, -half)
               PROVE  D(p[1]) \in 0..u - 1 /\ Near(D(p[1]), p[1])
                      /\ <<p[2] - m, D(p[1])>> \in dots
    OBVIOUS
  <2>1. Off(p[1]) \in 1 - u + half..u - 1 - half
    BY <1>2, <1>3
  <2>2. D(p[1]) \in 0..u - 1 /\ Near(D(p[1]), p[1])
    BY <2>1, <1>4
  <2> QED
    BY <2>2, <1>6
<1>8. \A b \in dots : \E p \in Pixels : p[2] - m = b[1] /\ Near(b[2], p[1]) /\ OnPage(p, half)
  <2> SUFFICES ASSUME NEW b \in dots
               PROVE  \E p \in Pixels : p[2] - m = b[1] /\ Near(b[2], p[1]) /\ OnPage(p, half)
    OBVIOUS
  <2>1. PICK q \in page.ink : q[1] - m \in 0..rows - 2 * m - 1 /\ b = <<q[1] - m, q[2]>>
    BY <1>5
  <2>2. PICK p \in Pixels : D(p[1]) \in 0..u - 1 /\ q = <<p[2], D(p[1])>>
    BY <1>2
  <2>3. b[1] = p[2] - m /\ b[2] = D(p[1]) /\ q[1] = p[2]
    BY <2>1, <2>2
  <2>4. p[2] \in m..rows - m - 1
    BY <2>1, <2>3, <1>2, <1>4
  <2>5. Near(b[2], p[1]) /\ Off(p[1]) \in 1 - u - half..u - 1 + half
    BY <2>2, <2>3, <1>4
  <2> QED
    BY <2>3, <2>4, <2>5
<1>9. Reached(Len(page.bands)) = rows - 2 * m
  BY <1>2
<1> QED
  BY <1>7, <1>8, <1>9 DEF Centred, dots, u, w, half, m, rows, Width

\* The colour test tells apart the three inks of the cards.
LEMMA InkOfColour ==
  Classify(Luma(White)) = -1 /\ Classify(Luma(Red)) = 0 /\ Classify(Luma(Black)) = 1
<1>1. Luma(White) = 255 /\ Luma(Red) = 76 /\ Luma(Black) = 0
  BY DEF Luma, White, Red, Black
<1> QED
  BY <1>1 DEF Classify, BLANK_THRESHOLD, BLACK_THRESHOLD

LEMMA PictureTyped ==
  ASSUME NEW j
  PROVE  /\ DOMAIN TwoColourPicture(j) = (0..PRINTHEAD_WIDTH_DOTS - 1) \X (0..j.rows - 1)
         /\ \A p \in DOMAIN TwoColourPicture(j) : TwoColourPicture(j)[p] \in {White, Red, Black}
<1>1. CASE j.card = "bars"
  <2>1. TwoColourPicture(j) = TwoColourCard(j.mm, j.rows)
    BY <1>1 DEF TwoColourPicture
  <2>2. /\ DOMAIN TwoColourCard(j.mm, j.rows) = (0..PRINTHEAD_WIDTH_DOTS - 1) \X (0..j.rows - 1)
        /\ \A p \in DOMAIN TwoColourCard(j.mm, j.rows) :
             TwoColourCard(j.mm, j.rows)[p] \in {White, Red, Black}
    BY DEF TwoColourCard
  <2> QED
    BY <2>1, <2>2
<1>2. CASE j.card # "bars"
  <2>1. TwoColourPicture(j) = TwoColourStripes(j.mm, j.rows)
    BY <1>2 DEF TwoColourPicture
  <2>2. /\ DOMAIN TwoColourStripes(j.mm, j.rows) = (0..PRINTHEAD_WIDTH_DOTS - 1) \X (0..j.rows - 1)
        /\ \A p \in DOMAIN TwoColourStripes(j.mm, j.rows) :
             TwoColourStripes(j.mm, j.rows)[p] \in {White, Red, Black}
    BY DEF TwoColourStripes
  <2> QED
    BY <2>1, <2>2
<1> QED
  BY <1>1, <1>2

\* What the two planes of a card hold.
PlanesOf(picture, margin, rows) ==
  UNION {{<<2 * (p[2] - margin) + plane, p[1]>> :
            p \in {q \in DOMAIN picture :
               /\ picture[q] = (IF plane = 0 THEN Red ELSE Black)
               /\ q[2] \in margin..rows - margin - 1}}
         : plane \in {0, 1}}

LEMMA TwoColourHolds ==
  ASSUME IInv, AllBurned, job.caller = "two"
  PROVE  DotsOf(burned) = PlanesOf(TwoColourPicture(job), page.margin, job.rows)
<1> DEFINE pic == TwoColourPicture(job)
           rows == job.rows
           m == page.margin
           Colour(p) == Classify(Luma(pic[p]))
           T == Most(rows - 2 * m, 0)
<1>1. /\ job \in DOMAIN Pages /\ page = TwoColourPage(job) /\ rows \in Nat
  BY AllCut, PageDrawn
<1>2. m \in Nat /\ m = DEFAULT_MARGIN_DOTS /\ page.planes = 2
      /\ page.ink = TwoColourLines(pic, PRINTHEAD_WIDTH_DOTS, rows)
      /\ page.bands = <<[upto |-> TwoColourColumns(rows), density |-> job.density]>>
  BY <1>1, PrintheadAssumption DEF TwoColourPage
<1>3. Len(page.bands) = 1 /\ Reached(1) = T
  <2>1. TwoColourColumns(rows) = T
    BY <1>2 DEF TwoColourColumns
  <2> HIDE DEF T
  <2> QED
    BY <1>2, <2>1 DEF Reached
<1>4. /\ DOMAIN pic = (0..PRINTHEAD_WIDTH_DOTS - 1) \X (0..rows - 1)
      /\ \A p \in DOMAIN pic : pic[p] \in {White, Red, Black} /\ p[2] \in Int
  <2>1. /\ DOMAIN pic = (0..PRINTHEAD_WIDTH_DOTS - 1) \X (0..rows - 1)
        /\ \A p \in DOMAIN pic : pic[p] \in {White, Red, Black}
    BY PictureTyped
  <2> HIDE DEF pic
  <2>2. \A p \in (0..PRINTHEAD_WIDTH_DOTS - 1) \X (0..rows - 1) : p[2] \in Int
    OBVIOUS
  <2> QED
    BY <2>1, <2>2
<1>5. page.ink = {<<2 * p[2] + Colour(p), p[1]>> : p \in {q \in DOMAIN pic : Colour(q) # -1}}
  BY <1>2, <1>4 DEF TwoColourLines
<1> HIDE DEF pic
<1>6. ASSUME NEW p \in DOMAIN pic
      PROVE  /\ Colour(p) # -1 => Colour(p) \in {0, 1}
                                   /\ pic[p] = (IF Colour(p) = 0 THEN Red ELSE Black)
             /\ pic[p] = Red => Colour(p) = 0
             /\ pic[p] = Black => Colour(p) = 1
  BY <1>4, InkOfColour
<1>7. T \in Nat /\ (rows - 2 * m >= 0 => T = rows - 2 * m) /\ (rows - 2 * m < 0 => T = 0)
  BY <1>1, <1>2 DEF Most
<1> HIDE DEF T, m, rows, Colour
<1>8. /\ DotsOf(burned) = {<<p[1] - m * 2, p[2]>> : p \in Printed}
      /\ Printed = {p \in page.ink : p[1] - m * 2 \in 0..T * 2 - 1}
  BY <1>2, <1>3, BurnedAsDrawn DEF Printed, m
<1>9. ASSUME NEW b \in DotsOf(burned) PROVE b \in PlanesOf(pic, m, rows)
  <2>1. PICK q \in page.ink : q[1] - m * 2 \in 0..T * 2 - 1 /\ b = <<q[1] - m * 2, q[2]>>
    BY <1>8
  <2>2. PICK p \in DOMAIN pic : Colour(p) # -1 /\ q = <<2 * p[2] + Colour(p), p[1]>>
    BY <1>5
  <2>3. Colour(p) \in {0, 1} /\ pic[p] = (IF Colour(p) = 0 THEN Red ELSE Black) /\ p[2] \in Int
    BY <2>2, <1>4, <1>6
  <2>4. b = <<2 * p[2] + Colour(p) - m * 2, p[1]>> /\ 2 * p[2] + Colour(p) - m * 2 \in 0..T * 2 - 1
    <3>1. q[1] = 2 * p[2] + Colour(p) /\ q[2] = p[1]
      BY <2>2
    <3>2. q[1] - m * 2 = 2 * p[2] + Colour(p) - m * 2
      BY <3>1, <2>3, <1>2
    <3> QED
      BY <2>1, <3>1, <3>2
  <2>5. 2 * p[2] + Colour(p) - m * 2 = 2 * (p[2] - m) + Colour(p) /\ p[2] \in m..rows - m - 1
    BY <2>3, <2>4, <1>1, <1>2, <1>7
  <2>6. b = <<2 * (p[2] - m) + Colour(p), p[1]>>
    BY <2>4, <2>5
  <2> QED
    BY <2>3, <2>5, <2>6 DEF PlanesOf
<1>10. ASSUME NEW plane \in {0, 1}, NEW p \in DOMAIN pic,
              pic[p] = (IF plane = 0 THEN Red ELSE Black), p[2] \in m..rows - m - 1
       PROVE  <<2 * (p[2] - m) + plane, p[1]>> \in DotsOf(burned)
  <2>1. Colour(p) = plane /\ p[2] \in Int
    BY <1>4, <1>6, <1>10
  <2>2. <<2 * p[2] + plane, p[1]>> \in page.ink
    BY <2>1, <1>5
  <2>3. 2 * p[2] + plane - m * 2 = 2 * (p[2] - m) + plane
        /\ 2 * p[2] + plane - m * 2 \in 0..T * 2 - 1
    BY <2>1, <1>1, <1>2, <1>7, <1>10
  <2> DEFINE q == <<2 * p[2] + plane, p[1]>>
  <2>4. q \in page.ink /\ q[1] = 2 * p[2] + plane /\ q[2] = p[1]
    BY <2>2
  <2> HIDE DEF q
  <2>5. q[1] - m * 2 = 2 * p[2] + plane - m * 2
    BY <2>1, <2>4, <1>2
  <2>6. <<q[1] - m * 2, q[2]>> \in DotsOf(burned)
    BY <2>3, <2>4, <2>5, <1>8
  <2> QED
    BY <2>3, <2>4, <2>5, <2>6
<1>11. ASSUME NEW b \in PlanesOf(pic, m, rows) PROVE b \in DotsOf(burned)
  <2>1. PICK plane \in {0, 1} :
          b \in {<<2 * (p[2] - m) + plane, p[1]>> :
                   p \in {q \in DOMAIN pic : /\ pic[q] = (IF plane = 0 THEN Red ELSE Black)
                                            /\ q[2] \in m..rows - m - 1}}
    BY DEF PlanesOf
  <2> QED
    BY <2>1, <1>10
<1> QED
  BY <1>9, <1>11 DEF pic, m, rows

-----------------------------------------------------------------------------
(* The ladder *)

LEMMA TrimsKept ==
  ASSUME NEW d \in Trims
  PROVE  Nodu(d) = d.black /\ Lesser(d.red, MAX_DENSITY) = d.red
<1>1. d.black \in 0..15 /\ d.red \in 0..15
  BY DEF Trims, MAX_DENSITY
<1>2. Nodu(d) = d.black % 16 /\ MAX_DENSITY = 15
  BY DEF Nodu, MAX_DENSITY
<1> QED
  BY <1>1, <1>2 DEF Lesser

LEMMA Monotone ==
  ASSUME NEW a \in Nat, NEW b \in Nat, a <= b, NEW c \in Nat
  PROVE  a * c <= b * c /\ a * c \in Nat /\ b * c \in Nat
OBVIOUS

LEMMA Position ==
  ASSUME NEW k \in Nat, NEW cols \in Nat, k <= cols, NEW at \in Nat, NEW m \in Nat,
         NEW x \in m + at..m + at + k - 1
  PROVE  x - m \in at..at + k - 1 /\ x - m \in at..at + cols - 1 /\ k > 0
OBVIOUS

LEMMA StepOfLine ==
  ASSUME NEW cols \in Nat \ {0}, NEW s \in Nat, NEW l \in s * cols..s * cols + cols - 1
  PROVE  l \div cols = s /\ l % cols = l - s * cols
<1> DEFINE r == l - s * cols
<1>1. s * cols \in Nat /\ s * cols = cols * s
  OBVIOUS
<1>2. r \in 0..cols - 1 /\ l = cols * s + r
  BY <1>1
<1> HIDE DEF r
<1>3. (cols * s + r) % cols = r /\ (cols * s + r) \div cols = s
  BY <1>2, Division
<1>4. l % cols = r /\ l \div cols = s
  BY <1>2, <1>3
<1> QED
  BY <1>4 DEF r

\* A line lies in one band only.
LEMMA OneStep ==
  ASSUME NEW cols \in Nat \ {0}, NEW s \in Nat, NEW b \in Nat \ {0},
         NEW l \in s * cols..s * cols + cols - 1, (b - 1) * cols <= l, l < b * cols
  PROVE  b = s + 1
<1>1. (b - 1) * cols \in Nat /\ b * cols = (b - 1) * cols + cols
  OBVIOUS
<1>2. l \in (b - 1) * cols..(b - 1) * cols + cols - 1
  BY <1>1
<1>3. l \div cols = s
  BY StepOfLine
<1>4. b - 1 \in Nat
  OBVIOUS
<1>5. l \div cols = b - 1
  BY <1>2, <1>4, StepOfLine
<1> QED
  BY <1>3, <1>4, <1>5

\* The bands of a ladder are equally long, and each has the density of its step.
LEMMA LadderPageFacts ==
  ASSUME IInv, AllBurned, job.caller = "ladder",
         NEW n, n = Len(job.densities), NEW cols, cols = BandCols(job.rows, n),
         NEW k, k = Most(cols - SWATCH_SEPARATOR_DOTS, 0),
         NEW w, w = LabelDots(job.mm)
  PROVE  /\ n \in Nat \ {0} /\ cols \in Nat \ {0} /\ w \in Nat \ {0} /\ LabelEdge(w) \in Int
         /\ page.planes = 1 /\ page.margin \in Nat
         /\ \A s \in 1..n : job.densities[s] \in Trims
         /\ Len(page.bands) = n /\ \A b \in 0..n : Reached(b) = b * cols
         /\ \A b \in 1..n : page.bands[b].density = job.densities[b]
         /\ page.ink = UNION {Span(page.margin + s * cols, k) \X Span(LabelEdge(w), w) : s \in 0..n - 1}
<1>1. /\ job \in Jobs /\ page = LadderPage(job) /\ job.rows \in Nat /\ Len(page.bands) >= 1
  BY AllCut, PageDrawn
<1>2. /\ job.mm \in Nat \ {0}
      /\ job.densities \in Seq(Trims)
  BY <1>1, JobsAssumption
<1>3. n \in Nat /\ \A s \in 1..n : job.densities[s] \in Trims
  BY <1>2, SeqMembers
<1>4. /\ page.planes = 1 /\ page.margin = DEFAULT_MARGIN_DOTS /\ page.margin \in Nat
      /\ page.ink = SwatchLadder(job.mm, job.rows, n)
      /\ page.bands = IF cols = 0 THEN <<>>
                      ELSE [b \in 1..n |-> [upto |-> b * cols, density |-> job.densities[b]]]
  BY <1>1, PrintheadAssumption DEF LadderPage
<1>5. page.bands = [b \in 1..n |-> [upto |-> b * cols, density |-> job.densities[b]]]
      /\ cols # 0
  <2>1. cols = 0 => Len(page.bands) = 0
    BY <1>4
  <2> QED
    BY <2>1, <1>1, <1>4
<1>6. Len(page.bands) = n /\ n # 0
  BY <1>1, <1>3, <1>5
<1>7. cols \in Nat
  <2>1. cols = Most(job.rows - 2 * DEFAULT_MARGIN_DOTS, 0) \div Most(n, 1)
    BY DEF BandCols
  <2>2. Most(job.rows - 2 * DEFAULT_MARGIN_DOTS, 0) \in Nat /\ Most(n, 1) \in Nat \ {0}
    BY <1>1, <1>3, PrintheadAssumption DEF Most
  <2> HIDE DEF Most
  <2> QED
    BY <2>1, <2>2, Quotient
<1>8. w \in Nat \ {0} /\ LabelEdge(w) \in Int
  <2>1. job.mm * DOTS_PER_MM \in Nat \ {0}
    BY <1>2, PrintheadAssumption
  <2>2. w \in Nat \ {0}
    BY <2>1, PrintheadAssumption DEF LabelDots, Least
  <2> QED
    BY <2>2, PrintheadAssumption DEF LabelEdge
<1>9. \A b \in 1..n : page.bands[b].upto = b * cols /\ page.bands[b].density = job.densities[b]
  BY <1>5
<1>10. \A b \in 0..n : Reached(b) = b * cols
  <2>1. 0 * cols = 0
    BY <1>7
  <2> QED
    BY <2>1, <1>3, <1>9 DEF Reached
<1>11. page.ink = UNION {Span(page.margin + s * cols, k) \X Span(LabelEdge(w), w) : s \in 0..n - 1}
  BY <1>4 DEF SwatchLadder
<1> QED
  BY <1>3, <1>4, <1>5, <1>6, <1>7, <1>8, <1>9, <1>10, <1>11

LEMMA LadderHolds ==
  ASSUME IInv, AllBurned, job.caller = "ladder",
         NEW cols, cols = BandCols(job.rows, Len(job.densities))
  PROVE  /\ \A b \in burned :
              LET step == b.line \div cols + 1
              IN  /\ b.black = job.densities[step].black /\ b.red = job.densities[step].red
                  /\ b.line % cols < cols - SWATCH_SEPARATOR_DOTS
         /\ cols > SWATCH_SEPARATOR_DOTS =>
              \A s \in DOMAIN job.densities : \E b \in burned : b.line \div cols + 1 = s
<1> DEFINE n == Len(job.densities)
           k == Most(cols - SWATCH_SEPARATOR_DOTS, 0)
           w == LabelDots(job.mm)
           m == page.margin
<1>1. /\ n \in Nat \ {0} /\ cols \in Nat \ {0} /\ w \in Nat \ {0} /\ LabelEdge(w) \in Int
      /\ page.planes = 1 /\ m \in Nat
      /\ \A s \in 1..n : job.densities[s] \in Trims
      /\ Len(page.bands) = n /\ \A b \in 0..n : Reached(b) = b * cols
      /\ \A b \in 1..n : page.bands[b].density = job.densities[b]
      /\ page.ink = UNION {Span(m + s * cols, k) \X Span(LabelEdge(w), w) : s \in 0..n - 1}
  BY LadderPageFacts
<1>0. n \in Nat \ {0} /\ cols \in Nat \ {0} /\ m \in Nat /\ page.planes = 1
  BY <1>1
<1>2. m * page.planes = m /\ SWATCH_SEPARATOR_DOTS \in Nat
  BY <1>0, PrintheadAssumption
<1>3. k \in Nat /\ k <= cols /\ (k > 0 => k = cols - SWATCH_SEPARATOR_DOTS)
      /\ (cols > SWATCH_SEPARATOR_DOTS => k > 0)
  BY <1>1, <1>2 DEF Most
<1>4. BufInv
  BY AllCut
<1> HIDE DEF n, k, w, m
<1>5. ASSUME NEW b \in burned
      PROVE  /\ b.black = job.densities[b.line \div cols + 1].black
             /\ b.red = job.densities[b.line \div cols + 1].red
             /\ b.line % cols < cols - SWATCH_SEPARATOR_DOTS
  <2>1. PICK i \in 1..Len(chunks) : \E p \in InkIn(i) : b = Mark(i, p)
    BY OfABuffer
  <2>2. PICK p \in InkIn(i) : b = Mark(i, p)
    BY <2>1
  <2> DEFINE l == p[1] - m
             start == chunks[i].start
             count == chunks[i].cols
  <2>3. /\ b.line = l /\ b.black = Nodu(chunks[i].density)
        /\ b.red = Lesser(chunks[i].density.red, MAX_DENSITY)
    BY <2>2, <1>2 DEF Mark, m
  <2>4. p \in page.ink /\ l \in start..start + count - 1
    <3>1. start \in Nat /\ count \in Nat
      BY <1>4, ChunkTyped
    <3> HIDE DEF start, count
    <3>2. start * page.planes = start /\ (start + count) * page.planes = start + count
      BY <3>1, <1>0
    <3>3. p \in page.ink /\ p[1] - page.margin * page.planes \in
            start * page.planes..(start + count) * page.planes - 1
      BY DEF InkIn, start, count
    <3>4. page.margin * page.planes = m
      BY <1>2 DEF m
    <3> QED
      BY <3>1, <3>2, <3>3, <3>4, <1>0
  <2>5. PICK s \in 0..n - 1 : p \in Span(m + s * cols, k) \X Span(LabelEdge(w), w)
    BY <2>4, <1>1
  <2>6. s * cols \in Nat
    BY <1>1
  <2>7. l \in s * cols..s * cols + k - 1 /\ l \in s * cols..s * cols + cols - 1 /\ k > 0
    <3>1. p[1] \in m + s * cols..m + s * cols + k - 1
      BY <2>5 DEF Span
    <3> QED
      BY <3>1, <2>6, <1>0, <1>3, Position
  <2>8. PICK h \in 1..n : /\ Reached(h - 1) <= start /\ start + count <= Reached(h)
                          /\ chunks[i].density = page.bands[h].density
    BY <1>1, <1>4 DEF BufInv, Tiled
  <2>9. start \in Nat /\ count \in Nat
    BY <1>4, ChunkTyped
  <2>10. (h - 1) * cols <= l /\ l < h * cols
    <3>1. h - 1 \in 0..n /\ h \in 0..n
      BY <1>1
    <3>2. Reached(h - 1) = (h - 1) * cols /\ Reached(h) = h * cols
      BY <3>1, <1>1
    <3>3. (h - 1) * cols \in Int /\ h * cols \in Int
      BY <1>1
    <3> HIDE DEF l, start, count
    <3> QED
      BY <3>2, <3>3, <2>4, <2>8, <2>9
  <2> HIDE DEF l, start, count
  <2>11. l \in s * cols..s * cols + cols - 1
    BY <2>7
  <2>12. h = s + 1 /\ s \in Nat /\ h \in Nat \ {0}
    <3>1. s \in Nat /\ h \in Nat \ {0}
      BY <1>0
    <3> QED
      BY <3>1, <2>10, <2>11, <1>0, OneStep
  <2>13. l \div cols = s /\ l % cols = l - s * cols
    <3>1. s \in Nat
      BY <2>12
    <3> QED
      BY <3>1, <2>11, <1>0, StepOfLine
  <2>14. l % cols < cols - SWATCH_SEPARATOR_DOTS
    <3> DEFINE at == s * cols
    <3>1. at \in Nat /\ l \in at..at + k - 1 /\ k > 0 /\ l % cols = l - at
      BY <2>6, <2>7, <2>13
    <3> HIDE DEF at
    <3> QED
      BY <3>1, <1>0, <1>2, <1>3
  <2>15. b.line \div cols + 1 = h
    BY <2>3, <2>12, <2>13
  <2>16. chunks[i].density = job.densities[h]
         /\ job.densities[h] \in Trims
    BY <2>8, <1>1
  <2>17. Nodu(job.densities[h]) = job.densities[h].black
         /\ Lesser(job.densities[h].red, MAX_DENSITY) = job.densities[h].red
    BY <2>16, TrimsKept
  <2> QED
    BY <2>3, <2>14, <2>15, <2>16, <2>17
<1>6. ASSUME cols > SWATCH_SEPARATOR_DOTS, NEW h \in DOMAIN job.densities
      PROVE  \E b \in burned : b.line \div cols + 1 = h
  <2> DEFINE s == h - 1
             l == s * cols
             p == <<m + l, LabelEdge(w)>>
  <2>1. h \in 1..n
    <3>1. job \in Jobs
      BY AllCut, PageDrawn
    <3>2. job.densities \in Seq(Trims)
      BY <3>1, JobsAssumption
    <3> QED
      BY <3>2 DEF n
  <2>2. s \in 0..n - 1 /\ s \in Nat /\ s + 1 = h
    BY <2>1, <1>0
  <2>3. l \in 0..n * cols - 1
    <3>1. s \in Nat /\ n - 1 \in Nat /\ s <= n - 1
      BY <2>2, <1>0
    <3> HIDE DEF s
    <3>2. l <= (n - 1) * cols /\ l \in Nat /\ (n - 1) * cols \in Nat
      BY <3>1, <1>0, Monotone
    <3>3. n * cols = (n - 1) * cols + cols
      BY <1>0
    <3> DEFINE top == (n - 1) * cols
    <3>4. l <= top /\ l \in Nat /\ top \in Nat /\ n * cols = top + cols
      BY <3>2, <3>3
    <3> HIDE DEF l, top
    <3>5. l <= top + cols - 1
      BY <3>4, <1>0
    <3> QED
      BY <3>4, <3>5, <1>0
  <2>4. p \in Span(m + s * cols, k) \X Span(LabelEdge(w), w)
    <3> HIDE DEF s
    <3>1. s * cols \in Nat
      BY <2>2, <1>1
    <3>2. m + s * cols \in Span(m + s * cols, k)
      BY <3>1, <1>1, <1>3, <1>6 DEF Span
    <3>3. LabelEdge(w) \in Span(LabelEdge(w), w)
      BY <1>1 DEF Span
    <3> QED
      BY <3>2, <3>3
  <2>5. p \in page.ink
    BY <2>2, <2>4, <1>1
  <2>6. p[1] - m = l
    <3> HIDE DEF s, l
    <3> QED
      BY <2>3, <1>1
  <2> HIDE DEF l, p
  <2>7. Reached(n) * page.planes = n * cols
    <3>1. n \in 0..n /\ n * cols \in Int
      BY <1>1
    <3> QED
      BY <3>1, <1>1
  <2>8. p \in Printed
    BY <2>3, <2>5, <2>6, <2>7, <1>1, <1>2 DEF Printed, m
  <2>9. <<l, p[2]>> \in DotsOf(burned)
    BY <2>6, <2>8, <1>2, BurnedAsDrawn DEF m
  <2>10. PICK b \in burned : <<l, p[2]>> = <<b.line, b.dot>>
    BY <2>9 DEF DotsOf
  <2>11. b.line = l
    BY <2>10
  <2>12. l \in s * cols..s * cols + cols - 1
    <3>1. l = s * cols
      BY DEF l
    <3> HIDE DEF s
    <3> QED
      BY <3>1, <2>3, <1>1
  <2>13. l \div cols = s
    BY <2>2, <2>12, <1>1, StepOfLine
  <2> QED
    BY <2>2, <2>11, <2>13
<1> QED
  BY <1>5, <1>6

-----------------------------------------------------------------------------
(* The test pattern *)

LEMMA SameMultiple ==
  ASSUME NEW m \in Nat \ {0}, NEW a \in Nat, NEW b \in Nat, a % m = 0, b % m = 0,
         a <= b, b < a + m
  PROVE  a = b
<1> DEFINE q == a \div m
           r == b \div m
<1>1. q \in Nat /\ r \in Nat /\ a = m * q /\ b = m * r
  <2>1. /\ a \div m \in Nat /\ a = m * (a \div m) + (a % m)
        /\ b \div m \in Nat /\ b = m * (b \div m) + (b % m)
    OBVIOUS
  <2>2. m * (a \div m) \in Nat /\ m * (b \div m) \in Nat
    BY <2>1
  <2> QED
    BY <2>1, <2>2
<1> HIDE DEF q, r
<1>2. b - a \in 0..m - 1 /\ a + (b - a) = b /\ b + 0 = b
  OBVIOUS
<1>3. (m * q + (b - a)) % m = b - a
  BY <1>1, <1>2, Division
<1>4. m * q + (b - a) = b
  BY <1>1, <1>2
<1> QED
  BY <1>2, <1>3, <1>4

LEMMA TestHolds ==
  ASSUME IInv, AllBurned, job.caller = "test"
  PROVE  BufRegions(job.rows) =
           {<<page.margin + c.start, page.margin + c.start + c.cols>> :
              c \in {chunks[i] : i \in DOMAIN chunks}}
<1> DEFINE m == page.margin
           rows == job.rows
           T == rows - 2 * m
           cols == BUF_DATA \div Bytes(PRINTHEAD_WIDTH_DOTS)
           end == rows - m
           R == {<<m + c.start, m + c.start + c.cols>> : c \in {chunks[i] : i \in DOMAIN chunks}}
<1>1. /\ job \in DOMAIN Pages /\ BufInv /\ page = TestPage(job) /\ job \in Jobs
      /\ rows \in Nat /\ rows < 65536
  BY AllCut, PageDrawn
<1>2. rows >= 2 * DEFAULT_MARGIN_DOTS /\ m = DEFAULT_MARGIN_DOTS /\ m \in Nat /\ page.planes = 1
      /\ page.stride = Bytes(PRINTHEAD_WIDTH_DOTS)
      /\ page.bands = OneBand(rows, m, job.density)
  BY <1>1, JobsAssumption, PrintheadAssumption DEF TestPage
<1>3. Len(page.bands) = 1 /\ Reached(1) = T /\ col = T /\ T \in Nat
  <2>1. 2 * m <= rows
    BY <1>1, <1>2
  <2> HIDE DEF m, rows
  <2>2. Len(page.bands) = 1 /\ Reached(1) = rows - 2 * m
    BY <2>1, <1>1, <1>2, OneBandReaches
  <2>3. rows - 2 * m \in Nat
    BY <2>1, <1>1, <1>2
  <2>4. col = Reached(1)
    <3>1. col = Reached(Len(page.bands))
      BY AllCut
    <3>2. Len(page.bands) = 1
      BY <2>2
    <3> QED
      BY <3>1, <3>2, Zenon
  <2> QED
    BY <2>2, <2>3, <2>4
<1>4. cols = MaxCols /\ MaxCols \in Nat \ {0}
  <2>1. MaxCols \in Nat \ {0} /\ page.stride \in Nat
    BY <1>1, Capacity, PageFacts
  <2>2. page.stride * page.planes = page.stride
    BY <1>2, <2>1
  <2> QED
    BY <2>1, <2>2, <1>2, PrintheadAssumption DEF MaxCols
<1>5. Len(chunks) \in Nat /\ DOMAIN chunks = 1..Len(chunks)
  BY <1>1 DEF BufInv, TypeOK
<1>6. ASSUME NEW i \in 1..Len(chunks)
      PROVE  /\ chunks[i].start \in Nat /\ chunks[i].cols \in Nat \ {0}
             /\ chunks[i].start + chunks[i].cols <= T
             /\ chunks[i].start % cols = 0
             /\ chunks[i].cols = Lesser(cols, T - chunks[i].start)
  BY <1>1, <1>3, <1>4, ChunkTyped DEF IInv, Covered, OneBandCut
<1>7. /\ BufRegions(rows) = {<<s, Least(s + cols, end)>> :
                              s \in {x \in m..end - 1 : (x - m) % cols = 0}}
      /\ end = m + T
  BY <1>1, <1>2 DEF BufRegions
<1> HIDE DEF m, rows, T, cols, end
<1>8. ASSUME NEW i \in 1..Len(chunks)
      PROVE  /\ Least(m + chunks[i].start + cols, end) = m + chunks[i].start + chunks[i].cols
             /\ chunks[i].cols <= cols /\ m + chunks[i].start \in m..end - 1
             /\ (m + chunks[i].start) - m = chunks[i].start
  <2> DEFINE a == chunks[i].start
             c == chunks[i].cols
  <2>1. /\ a \in Nat /\ c \in Nat \ {0} /\ a + c <= T /\ c = Lesser(cols, T - a)
        /\ m \in Nat /\ T \in Nat /\ cols \in Nat \ {0} /\ end = m + T
    BY <1>2, <1>3, <1>4, <1>6, <1>7
  <2> HIDE DEF a, c
  <2>2. /\ Least(m + a + cols, m + T) = m + a + c /\ c <= cols
        /\ m + a \in m..(m + T) - 1 /\ (m + a) - m = a
    BY <2>1 DEF Least, Lesser
  <2> QED
    BY <2>1, <2>2 DEF a, c
<1>9. ASSUME NEW c \in BufRegions(rows) PROVE c \in R
  <2>1. PICK s \in m..end - 1 : (s - m) % cols = 0 /\ c = <<s, Least(s + cols, end)>>
    BY <1>7
  <2> DEFINE x == s - m
  <2>2. x \in 0..T - 1 /\ x % cols = 0 /\ s = m + x /\ x \in Nat
    BY <2>1, <1>2, <1>3, <1>7
  <2> HIDE DEF x
  <2>3. PICK i \in 1..Len(chunks) : x \in chunks[i].start..chunks[i].start + chunks[i].cols - 1
    BY <2>2, <1>3 DEF IInv, Covered
  <2>4. chunks[i].cols <= cols
    BY <1>8
  <2>5. chunks[i].start = x
    <3>1. chunks[i].start <= x /\ x < chunks[i].start + cols
      BY <2>2, <2>3, <2>4, <1>4, <1>6
    <3> QED
      BY <3>1, <2>2, <1>4, <1>6, SameMultiple
  <2>6. c = <<m + chunks[i].start, m + chunks[i].start + chunks[i].cols>>
    BY <2>1, <2>2, <2>5, <1>8
  <2> QED
    BY <2>6, <1>5
<1>10. ASSUME NEW i \in 1..Len(chunks)
       PROVE  <<m + chunks[i].start, m + chunks[i].start + chunks[i].cols>> \in BufRegions(rows)
  <2> DEFINE s == m + chunks[i].start
  <2>1. s \in m..end - 1 /\ s - m = chunks[i].start
    BY <1>8
  <2>2. (s - m) % cols = 0
    BY <2>1, <1>6
  <2>3. Least(s + cols, end) = s + chunks[i].cols
    BY <1>8
  <2> HIDE DEF s
  <2>4. <<s, Least(s + cols, end)>> \in BufRegions(rows)
    BY <2>1, <2>2, <1>7
  <2> QED
    BY <2>3, <2>4 DEF s
<1>11. BufRegions(rows) = R
  BY <1>5, <1>9, <1>10
<1> QED
  BY <1>11 DEF rows, m

LEMMA CardsHold == IInv => CardsAsDrawn
<1> SUFFICES ASSUME IInv, AllBurned PROVE CardsAsDrawn
  BY DEF CardsAsDrawn
<1>1. job.caller = "two" => DotsOf(burned) = PlanesOf(TwoColourPicture(job), page.margin, job.rows)
  BY TwoColourHolds
<1>2. job.caller = "ladder" =>
        LET cols == BandCols(job.rows, Len(job.densities))
        IN  /\ \A b \in burned :
                 LET step == b.line \div cols + 1
                 IN  /\ b.black = job.densities[step].black /\ b.red = job.densities[step].red
                     /\ b.line % cols < cols - SWATCH_SEPARATOR_DOTS
            /\ cols > SWATCH_SEPARATOR_DOTS =>
                 \A s \in DOMAIN job.densities : \E b \in burned : b.line \div cols + 1 = s
  BY LadderHolds
<1>3. job.caller = "test" =>
        BufRegions(job.rows) =
          {<<page.margin + c.start, page.margin + c.start + c.cols>> :
             c \in {chunks[i] : i \in DOMAIN chunks}}
  BY TestHolds
<1> QED
  BY <1>1, <1>2, <1>3 DEF CardsAsDrawn, PlanesOf

-----------------------------------------------------------------------------
(* The theorems *)

\* Every page, whatever its bands and the sizes compression gives, is cut,
\* packed and sent in well-formed buffers, blocks and packets: no count in
\* split_into_banded_buffers, compress_buffers or build_data_frames goes
\* below zero, and no packet is empty.
THEOREM TypeCorrect == PageSpec => []TypeOK
<1>1. IInv => TypeOK
  BY DEF IInv, PrintInv, BufInv
<1> QED
  BY Invariance, <1>1, PTL

\* split_into_banded_buffers covers the printable columns once, in order, no
\* buffer past its capacity or across a change of density.
THEOREM BuffersTile == PageSpec => []Tiled
<1>1. IInv => Tiled
  BY DEF IInv, PrintInv, BufInv
<1> QED
  BY Invariance, <1>1, PTL

\* compress_buffers takes every buffer into exactly one block, in order, and
\* exceeds the block limit only for a buffer that it cannot split.
THEOREM BlocksPack == PageSpec => []Packed
<1>1. IInv => Packed
  BY DEF IInv, PrintInv, BufInv
<1> QED
  BY Invariance, <1>1, PTL

\* build_data_frames and transfer_compressed put every block on the wire whole,
\* in order, each packet with its index and the count and length the header
\* announces: no length within SizesAssumption is rounded or cast to another.
THEOREM PacketsCarryAll == PageSpec => []PacketsWhole
<1>1. IInv => PacketsWhole
  BY DEF IInv, PrintInv
<1> QED
  BY Invariance, <1>1, PTL

\* transfer_page and print_grayscale: on any head and for any page size, a pixel
\* lands in its own row and mirrored about the middle of the head, and is lost
\* only beyond its edges or in the margins.
THEOREM PagesCentred == PageSpec => []Centred
<1> QED
  BY Invariance, CentredHolds, PTL

\* print_two_colour, print_swatch_ladder and test_print: a two-colour card comes
\* out in the planes of its colours, a ladder's steps at their own densities,
\* and the test pattern's regions are the print buffers, whatever the head.
THEOREM CardsComeOut == PageSpec => []CardsAsDrawn
<1> QED
  BY Invariance, CardsHold, PTL
=============================================================================
