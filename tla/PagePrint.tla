------------------------------ MODULE PagePrint -----------------------------
(***************************************************************************)
(* The callers that make a page and print it: KsJob::transfer_page for a   *)
(* raster page, Printer::print_grayscale, print_two_colour, test_print and *)
(* print_swatch_ladder.  Each draws an image (PageImage) and hands its     *)
(* lines to the tiler (PrintBuffers); what the firmware burns is then      *)
(* compared with what was drawn.                                           *)
(***************************************************************************)
EXTENDS PrintBuffers, PageImage, FiniteSets

CONSTANTS Jobs   \* the calls to try

VARIABLES
  blk,        \* the block the firmware unpacks,
  unpacked,   \* and how many of its buffers it has laid
  line,       \* lines laid so far
  burned      \* what is burned: line, dot and the trims in force

firmwareVars == <<blk, unpacked, line, burned>>

\* split_into_buffers: one band between the margins, counted in u16.
OneBand(rows, margin, density) ==
  <<[upto |-> (rows - 2 * margin) % 65536, density |-> density]>>

\* transfer_page: the tiler trims nothing, the page is all printable.
RasterPage(j) ==
  [planes |-> 1, margin |-> 0, stride |-> j.head \div 8,
   ink |-> CenterInPrinthead(
             RasterToColumnMajor(Dither({j.pixel}, j.width), j.width, j.rows),
             j.width, j.head),
   bands |-> OneBand(j.rows, 0, j.density)]

\* cmd_gray_ramp draws one of two cards.  Only its black pixels are followed:
\* whether a grey one burns is the halftone's to say.
GrayPixels(j) ==
  LET level == IF j.card = "ramp" THEN GrayRamp(j.mm, j.rows, j.steps)
               ELSE GrayBands(j.mm, j.rows, j.steps)
  IN  {p \in DOMAIN level : level[p] = 0}

\* print_grayscale: on the T50's head, between the default margins.
GrayPage(j) ==
  [planes |-> 1, margin |-> DEFAULT_MARGIN_DOTS,
   stride |-> PRINTHEAD_WIDTH_DOTS \div 8,
   ink |-> CenterInPrinthead(
             RasterToColumnMajor(Dither(GrayPixels(j), PRINTHEAD_WIDTH_DOTS),
                                PRINTHEAD_WIDTH_DOTS, j.rows),
             PRINTHEAD_WIDTH_DOTS, PRINTHEAD_WIDTH_DOTS),
   bands |-> OneBand(j.rows, DEFAULT_MARGIN_DOTS, j.density)]

\* (faulty variant: the margins of one plane only are left out)
TwoColourColumnsHalf(rows) == rows - DEFAULT_MARGIN_DOTS

\* print_two_colour: the columns between the margins; it refuses to print none.
TwoColourColumns(rows) == Most(rows - 2 * DEFAULT_MARGIN_DOTS, 0)

TwoColourPicture(j) ==
  IF j.card = "bars" THEN TwoColourCard(j.mm, j.rows) ELSE TwoColourStripes(j.mm, j.rows)

TwoColourPage(j) ==
  [planes |-> 2, margin |-> DEFAULT_MARGIN_DOTS,
   stride |-> Bytes(PRINTHEAD_WIDTH_DOTS),
   ink |-> TwoColourLines(TwoColourPicture(j), PRINTHEAD_WIDTH_DOTS, j.rows),
   bands |-> <<[upto |-> TwoColourColumns(j.rows), density |-> j.density]>>]

\* test_print: a label wider than the head is taken for one as wide.
TestPage(j) ==
  [planes |-> 1, margin |-> DEFAULT_MARGIN_DOTS,
   stride |-> Bytes(PRINTHEAD_WIDTH_DOTS),
   ink |-> TestPattern(Least(j.mm, PRINTHEAD_WIDTH_DOTS \div DOTS_PER_MM), j.rows),
   bands |-> OneBand(j.rows, DEFAULT_MARGIN_DOTS, j.density)]

\* print_swatch_ladder: a band for each density; too short a label is refused.
LadderPage(j) ==
  LET steps == Len(j.densities)
      cols  == BandCols(j.rows, steps)
  IN [planes |-> 1, margin |-> DEFAULT_MARGIN_DOTS,
      stride |-> Bytes(PRINTHEAD_WIDTH_DOTS),
      ink |-> SwatchLadder(j.mm, j.rows, steps),
      bands |-> IF cols = 0 THEN <<>>
                ELSE [b \in 1..steps |-> [upto |-> b * cols, density |-> j.densities[b]]]]

PageOf(j) ==
  CASE j.caller = "raster" -> RasterPage(j)
    [] j.caller = "gray"   -> GrayPage(j)
    [] j.caller = "two"    -> TwoColourPage(j)
    [] j.caller = "test"   -> TestPage(j)
    [] j.caller = "ladder" -> LadderPage(j)

JobPages == [j \in Jobs |-> PageOf(j)]

\* A print buffer of the card is one of the tiler.
ASSUME PrintheadAssumption ==
  /\ DOTS_PER_MM \in Nat \ {0} /\ PRINTHEAD_WIDTH_DOTS \in Nat \ {0}
  /\ DEFAULT_MARGIN_DOTS \in Nat /\ SWATCH_SEPARATOR_DOTS \in Nat
  /\ BUF_DATA = MAX_BUF_DATA

\* The callers of split_into_buffers ask for no fewer rows than the margins
\* take; the densities are those the command line documents, 0 to 15.
Trims == [black: 0..MAX_DENSITY, red: 0..MAX_DENSITY]
ASSUME JobsAssumption ==
  \A j \in Jobs :
    /\ j.caller \in {"raster", "gray", "two", "test", "ladder"}
    /\ j.rows \in Nat /\ j.rows < 65536
    /\ j.caller \in {"gray", "test"} => j.rows >= 2 * DEFAULT_MARGIN_DOTS
    /\ j.caller = "raster" =>
         /\ j.width \in Nat /\ j.head \in Nat
         /\ j.pixel \in (0..j.width - 1) \X (0..j.rows - 1)
    /\ j.caller = "ladder" =>
         /\ j.mm \in Nat \ {0}
         /\ j.densities \in Seq(Trims)

ASSUME PagesAreJobs == Pages = JobPages

-----------------------------------------------------------------------------
(* The firmware lays the buffers it unpacks one after the other; how far   *)
(* it lags behind the transfer is PrintFlow's, here it begins after it.    *)

Burn ==
  /\ pc = "done" /\ blk <= Len(blocks)
  /\ \E buffer \in {Buffer(blocks[blk].from + unpacked + 1)} :
       /\ burned' = burned \union
            {[line |-> line + p[1], dot |-> p[2],
              black |-> buffer.nodu, red |-> buffer.red] : p \in buffer.ink}
       /\ line' = line + buffer.lines
  /\ IF unpacked + 1 < blocks[blk].count
     THEN unpacked' = unpacked + 1 /\ blk' = blk
     ELSE unpacked' = 0 /\ blk' = blk + 1
  /\ UNCHANGED vars

PageInit == Init /\ blk = 1 /\ unpacked = 0 /\ line = 0 /\ burned = {}

PageNext == (Next /\ UNCHANGED firmwareVars) \/ Burn

PageSpec ==
  /\ PageInit /\ [][PageNext]_<<vars, firmwareVars>>
  /\ WF_vars(Step) /\ WF_<<vars, firmwareVars>>(Burn)

AllBurned == pc = "done" /\ blk > Len(blocks)

DotsOf(marks) == {<<b.line, b.dot>> : b \in marks}

-----------------------------------------------------------------------------
(* Properties *)

\* The black pixels of a page printed with OneBand or its like.
Pixels == IF job.caller = "raster" THEN {job.pixel} ELSE GrayPixels(job)

\* A pixel of a raster page is burned in its own row, as far from the middle
\* of the head as it is from the middle of the page (to half a dot), on the
\* other side; it is lost only beyond the head or in the margins, and the
\* two sides lose alike.  The page is as long as its rows.
Centred ==
  AllBurned /\ job.caller \in {"raster", "gray"} =>
    LET dots   == DotsOf(burned)
        usable == Usable(8 * page.stride)
        w      == IF job.caller = "raster" THEN job.width ELSE PRINTHEAD_WIDTH_DOTS
        pixels == Pixels
        half   == IF w > usable /\ (w - usable) % 2 = 1 THEN 1 ELSE 0
        Off(x) == w - 1 - 2 * x
        Near(d, x) == 2 * d - (usable - 1) - Off(x) \in -1..1
        OnPage(p, slack) ==
          /\ p[2] \in page.margin..job.rows - page.margin - 1
          /\ Off(p[1]) \in 1 - usable - slack..usable - 1 + slack
    IN /\ \A p \in pixels : OnPage(p, -half) =>
            \E d \in 0..usable - 1 : Near(d, p[1]) /\ <<p[2] - page.margin, d>> \in dots
       /\ \A b \in dots : \E p \in pixels :
            p[2] - page.margin = b[1] /\ Near(b[2], p[1]) /\ OnPage(p, half)
       /\ Reached(Len(page.bands)) = job.rows - 2 * page.margin

\* Two colours: each pixel between the margins burns once, in the plane of its
\* colour.  A ladder: every step leaves ink, all of it at its own density and
\* short of the next.  The test pattern marks the regions the tiler cut.
CardsAsDrawn ==
  AllBurned =>
    /\ job.caller = "two" =>
         LET picture == TwoColourPicture(job) IN
         DotsOf(burned) =
           UNION {{<<2 * (p[2] - page.margin) + plane, p[1]>> :
                     p \in {q \in DOMAIN picture :
                        /\ picture[q] = (IF plane = 0 THEN Red ELSE Black)
                        /\ q[2] \in page.margin..job.rows - page.margin - 1}}
                  : plane \in {0, 1}}
    /\ job.caller = "ladder" =>
         LET cols == BandCols(job.rows, Len(job.densities))
         IN /\ \A b \in burned :
                 LET step == b.line \div cols + 1
                 IN  /\ b.black = job.densities[step].black /\ b.red = job.densities[step].red
                     /\ b.line % cols < cols - SWATCH_SEPARATOR_DOTS
            /\ cols > SWATCH_SEPARATOR_DOTS =>
                 \A s \in DOMAIN job.densities : \E b \in burned : b.line \div cols + 1 = s
    /\ job.caller = "test" =>
         BufRegions(job.rows) =
           {<<page.margin + c.start, page.margin + c.start + c.cols>> :
              c \in {chunks[i] : i \in DOMAIN chunks}}

\* Every page is burned or refused, and refused only with nothing to print.
PageEnds == <>(AllBurned \/ (pc = "refused" /\ Reached(Len(page.bands)) = 0))
=============================================================================
