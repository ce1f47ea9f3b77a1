---------------------------- MODULE PrintBuffers ----------------------------
(***************************************************************************)
(* From a page image to the packets on the wire: split_into_banded_buffers *)
(* cuts the columns into print buffers, compress_buffers packs these into  *)
(* LZMA blocks, transfer_compressed sends each block as data packets.      *)
(*                                                                         *)
(* Pages gives each job its page: the ink, a set of <<line, dot>>, and the *)
(* bands of columns it prints, each given by the column it reaches and its *)
(* density.  A column is one line, or two in two-colour mode.              *)
(* Compression is external: a group of buffers may come to any of the      *)
(* sizes in Sizes.                                                         *)
(***************************************************************************)
EXTENDS Integers, Sequences

CONSTANTS
  Pages,
  Densities,
  Sizes,                 \* compressed sizes of a group of buffers
  MAX_BUF_DATA,
  BUFFER_MAX_COUNT,
  MAX_COMPRESSED_BLOCK,
  DATA_PAYLOAD_SIZE

MAX_DENSITY == 15

\* A density is a pair of trims; a line of ink fits in a print buffer.
ASSUME DensitiesAssumption == Densities \subseteq [black: Nat, red: Nat]
ASSUME PagesAssumption ==
  \A j \in DOMAIN Pages :
    LET p == Pages[j]
    IN  /\ p.stride \in Nat \ {0} /\ p.planes \in {1, 2} /\ p.margin \in Nat
        /\ p.stride * p.planes <= MAX_BUF_DATA
        /\ p.ink \subseteq Int \X Int
        /\ p.bands \in Seq([upto: Nat, density: Densities])
        /\ \A b \in 2..Len(p.bands) : p.bands[b - 1].upto <= p.bands[b].upto
\* A group is four print buffers at most, and LZMA makes little more of them than
\* they are: far from what a u16 length and a u8 packet count can say.
ASSUME SizesAssumption ==
  /\ DATA_PAYLOAD_SIZE \in Nat \ {0}
  /\ \A size \in Sizes :
       size \in Nat \ {0} /\ size < 65536 /\ size <= 255 * DATA_PAYLOAD_SIZE
ASSUME LimitsAssumption ==
  MAX_BUF_DATA \in Nat /\ BUFFER_MAX_COUNT \in Nat \ {0} /\ MAX_COMPRESSED_BLOCK \in Nat

VARIABLES
  job,      \* the page in hand
  pc,       \* split, pack, send, done or refused
  band,     \* the band being tiled
  left,     \* cols_remaining of it
  col,      \* current_col
  chunks,   \* columns, in order, for each print buffer
  next,     \* compress_buffers: the first buffer not yet in a block
  take,     \* the size of the group it tries
  blocks,   \* groups of buffers, compressed
  sent,     \* blocks sent
  packets   \* data packets sent

page == Pages[job]

splitVars == <<band, left, col, chunks>>
packVars == <<next, take, blocks>>
sendVars == <<sent, packets>>
vars == <<job, pc, splitVars, packVars, sendVars>>

\* The casts `as u8` and `as u16`.
U8(n) == n % 256
U16(n) == n % 65536

Lesser(a, b) == IF a <= b THEN a ELSE b

Chunk == [start: Nat, cols: Nat \ {0}, density: Densities]
Block == [from: Nat, count: Nat \ {0}, size: Sizes]
Packet == [block: Nat \ {0}, idx: Nat, total: Nat, bytes: Nat \ {0}]

TypeOK ==
  /\ job \in DOMAIN Pages
  /\ pc \in {"split", "pack", "send", "done", "refused"}
  /\ band \in 0..Len(page.bands)
  /\ left \in Nat /\ col \in Nat
  /\ chunks \in Seq(Chunk)
  /\ next \in Nat
  /\ take \in 0..BUFFER_MAX_COUNT
  /\ blocks \in Seq(Block)
  /\ sent \in 0..Len(blocks)
  /\ packets \in Seq(Packet)

Init ==
  /\ job \in DOMAIN Pages
  /\ pc = "split" /\ band = 0 /\ left = 0 /\ col = 0 /\ chunks = <<>>
  /\ next = 0 /\ take = 0 /\ blocks = <<>> /\ sent = 0 /\ packets = <<>>

-----------------------------------------------------------------------------
(* Splitting *)

\* (faulty variant: capacity counted in lines, not columns)
MaxColsOfLines == MAX_BUF_DATA \div page.stride

\* Columns a print buffer holds.
MaxCols == MAX_BUF_DATA \div (page.stride * page.planes)

Reached(b) == IF b = 0 THEN 0 ELSE page.bands[b].upto

NextBand ==
  /\ pc = "split" /\ left = 0 /\ band < Len(page.bands)
  /\ band' = band + 1
  /\ left' = Reached(band + 1) - Reached(band)
  /\ UNCHANGED <<job, pc, col, chunks, packVars, sendVars>>

\* (faulty variant: a band's last buffer is filled up from the next)
CutChunkFull ==
  /\ pc = "split" /\ left > 0
  /\ chunks' = Append(chunks, [start |-> col, cols |-> MaxCols,
                               density |-> page.bands[band].density])
  /\ col' = col + MaxCols
  /\ left' = left - Lesser(left, MaxCols)
  /\ UNCHANGED <<job, pc, band, packVars, sendVars>>

CutChunk ==
  /\ pc = "split" /\ left > 0
  /\ LET cols == Lesser(left, MaxCols)
     IN  /\ chunks' = Append(chunks, [start |-> col, cols |-> cols,
                                      density |-> page.bands[band].density])
         /\ col' = col + cols
         /\ left' = left - cols
  /\ UNCHANGED <<job, pc, band, packVars, sendVars>>

\* compress_buffers has nothing to do with an empty page.
SplitDone ==
  /\ pc = "split" /\ left = 0 /\ band = Len(page.bands)
  /\ pc' = IF chunks = <<>> THEN "refused" ELSE "pack"
  /\ take' = Lesser(BUFFER_MAX_COUNT, Len(chunks))
  /\ UNCHANGED <<job, splitVars, next, blocks, sendVars>>

\* The lines of the page that go into buffer i.
Ink(i) ==
  LET from == (page.margin + chunks[i].start) * page.planes
  IN {<<p[1] - from, p[2]>> :
        p \in {q \in page.ink : q[1] \in from..from + chunks[i].cols * page.planes - 1}}

\* The density field of PAGE_REG_BITS has four bits.
Nodu(density) == density.black % (MAX_DENSITY + 1)

\* The cut field says that the page is one of two colours.
FirstCut == IF page.planes = 2 THEN 2 ELSE 0

\* build_print_buffer: what the firmware reads out of buffer i.
Buffer(i) ==
  [page_st   |-> i = 1,
   prt_end   |-> i = Len(chunks),
   lines     |-> chunks[i].cols * page.planes,
   first_cut |-> FirstCut,
   nodu      |-> Nodu(chunks[i].density),
   red       |-> Lesser(chunks[i].density.red, MAX_DENSITY),
   ink       |-> Ink(i)]

-----------------------------------------------------------------------------
(* Packing *)

\* (faulty variant: a group that is too large is sent all the same)
FitsAlways(size) == TRUE

\* (faulty variant: no end to the shrinking)
FitsOnly(size) == size <= MAX_COMPRESSED_BLOCK

\* A lone buffer has no smaller group to fall back to.
Fits(size) == size <= MAX_COMPRESSED_BLOCK \/ take = 1

Shrink ==
  /\ pc = "pack" /\ next < Len(chunks)
  /\ \E size \in Sizes : ~Fits(size)
  /\ take' = take - 1
  /\ UNCHANGED <<job, pc, splitVars, next, blocks, sendVars>>

\* (faulty variant: goes on past the group first tried)
PackBlockSkipping ==
  /\ pc = "pack" /\ next < Len(chunks)
  /\ \E size \in Sizes :
       /\ Fits(size)
       /\ blocks' = Append(blocks, [from |-> next, count |-> take, size |-> size])
  /\ next' = next + Lesser(BUFFER_MAX_COUNT, Len(chunks) - next)
  /\ take' = Lesser(BUFFER_MAX_COUNT, Len(chunks) - next')
  /\ UNCHANGED <<job, pc, splitVars, sendVars>>

PackBlock ==
  /\ pc = "pack" /\ next < Len(chunks)
  /\ \E size \in Sizes :
       /\ Fits(size)
       /\ blocks' = Append(blocks, [from |-> next, count |-> take, size |-> size])
  /\ next' = next + take
  /\ take' = Lesser(BUFFER_MAX_COUNT, Len(chunks) - next')
  /\ UNCHANGED <<job, pc, splitVars, sendVars>>

PackDone ==
  /\ pc = "pack" /\ next = Len(chunks)
  /\ pc' = "send"
  /\ UNCHANGED <<job, splitVars, packVars, sendVars>>

-----------------------------------------------------------------------------
(* Sending *)

\* (faulty variant: rounds down)
PacketCountDown(size) == size \div DATA_PAYLOAD_SIZE

\* div_ceil: the data frames that carry a block.
PacketCount(size) == (size + DATA_PAYLOAD_SIZE - 1) \div DATA_PAYLOAD_SIZE

\* What NEXT_ZIPPEDBULK announces, the length over USB and the count on the SPP
\* links; BUF_FULL repeats the length.
Header(b) ==
  [length |-> U16(blocks[b].size), packets |-> U16(PacketCount(blocks[b].size))]

\* build_data_frames: index and count of a packet are bytes.
BlockPackets(b) ==
  LET size  == blocks[b].size
      count == PacketCount(size)
  IN [k \in 1..count |->
       [block |-> b, idx |-> U8(k - 1), total |-> U8(count),
        bytes |-> Lesser(DATA_PAYLOAD_SIZE, size - (k - 1) * DATA_PAYLOAD_SIZE)]]

SendBlock ==
  /\ pc = "send" /\ sent < Len(blocks)
  /\ packets' = packets \o BlockPackets(sent + 1)
  /\ sent' = sent + 1
  /\ UNCHANGED <<job, pc, splitVars, packVars>>

\* (faulty variant: waits for a block for each buffer)
SendDoneByBuffers ==
  /\ pc = "send" /\ sent = Len(chunks)
  /\ pc' = "done"
  /\ UNCHANGED <<job, splitVars, packVars, sendVars>>

SendDone ==
  /\ pc = "send" /\ sent = Len(blocks)
  /\ pc' = "done"
  /\ UNCHANGED <<job, splitVars, packVars, sendVars>>

Step ==
  \/ NextBand \/ CutChunk \/ SplitDone
  \/ Shrink \/ PackBlock \/ PackDone
  \/ SendBlock \/ SendDone

Next == Step

Spec == Init /\ [][Next]_vars /\ WF_vars(Step)

-----------------------------------------------------------------------------
(* Properties *)

\* The buffers tile the printed columns: in order, without gap or overlap,
\* none past its capacity, and each inside one band at that band's density.
Tiled ==
  /\ \A i \in 1..Len(chunks) :
       /\ chunks[i].start = (IF i = 1 THEN 0 ELSE chunks[i - 1].start + chunks[i - 1].cols)
       /\ chunks[i].cols * page.planes * page.stride <= MAX_BUF_DATA
       /\ \E b \in 1..Len(page.bands) :
            /\ Reached(b - 1) <= chunks[i].start
            /\ chunks[i].start + chunks[i].cols <= Reached(b)
            /\ chunks[i].density = page.bands[b].density
  /\ pc \notin {"split", "refused"} =>
       chunks[Len(chunks)].start + chunks[Len(chunks)].cols = Reached(Len(page.bands))

\* Every buffer of a page goes out exactly once and in order, in groups the
\* firmware's receive buffer holds, unless one buffer alone is too large.
Packed ==
  /\ \A j \in 1..Len(blocks) :
       /\ blocks[j].from = (IF j = 1 THEN 0 ELSE blocks[j - 1].from + blocks[j - 1].count)
       /\ blocks[j].count <= BUFFER_MAX_COUNT
       /\ blocks[j].size <= MAX_COMPRESSED_BLOCK \/ blocks[j].count = 1
  /\ pc \in {"send", "done"} =>
       blocks[Len(blocks)].from + blocks[Len(blocks)].count = Len(chunks)

\* A packet is of a block's bytes: full, or the rest of the block, to the length
\* and the count that its header announces.
Carries(p) ==
  /\ p.block \in 1..Len(blocks)
  /\ p.idx < p.total /\ p.total = Header(p.block).packets
  /\ IF p.idx + 1 < p.total THEN p.bytes = DATA_PAYLOAD_SIZE
     ELSE /\ p.bytes \in 1..DATA_PAYLOAD_SIZE
          /\ blocks[p.block].size = p.idx * DATA_PAYLOAD_SIZE + p.bytes
          /\ Header(p.block).length = blocks[p.block].size

\* q is the next packet of p's block, or the first of the next block.
Follows(p, q) ==
  \/ q.block = p.block /\ q.total = p.total /\ q.idx = p.idx + 1
  \/ p.idx + 1 = p.total /\ q.block = p.block + 1 /\ q.idx = 0

\* The packets carry every block whole and in order, each with its place in the
\* block and the count and length that the block's header announces: neither the
\* rounding nor a cast makes the receiver expect another number.
PacketsWhole ==
  /\ \A i \in 1..Len(packets) : Carries(packets[i])
  /\ \A i \in 2..Len(packets) : Follows(packets[i - 1], packets[i])
  /\ packets # <<>> => packets[1].block = 1 /\ packets[1].idx = 0
  /\ pc = "done" =>
       /\ packets # <<>>
       /\ LET last == packets[Len(packets)]
          IN  last.block = Len(blocks) /\ last.idx + 1 = last.total
=============================================================================
