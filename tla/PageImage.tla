------------------------------ MODULE PageImage -----------------------------
(***************************************************************************)
(* The images the program makes and turns into lines of dots: raster pages *)
(* (bitmap.rs, dither.rs), two-colour pages (twocolor.rs) and the printed  *)
(* cards.  A picture is a set of inked <<x, y>> (across the head, along    *)
(* the feed), lines of dots a set of <<line, dot>>; the packing of dots in *)
(* bytes shows only where it rounds to whole bytes.                        *)
(***************************************************************************)
EXTENDS Integers

CONSTANTS
  DOTS_PER_MM,
  PRINTHEAD_WIDTH_DOTS,
  DEFAULT_MARGIN_DOTS,
  SWATCH_SEPARATOR_DOTS,
  BUF_DATA   \* MAX_BUF_DATA

BLANK_THRESHOLD == 125
BLACK_THRESHOLD == 48

Least(a, b) == IF a <= b THEN a ELSE b
Most(a, b) == IF a >= b THEN a ELSE b
Bytes(dots) == (dots + 7) \div 8

-----------------------------------------------------------------------------
(* Raster pages *)

\* Ditherer::line: black pixels, mirrored across the page.
Dither(pixels, width) == {<<width - 1 - p[1], p[2]>> : p \in pixels}

\* raster_to_column_major: a row of the picture is a line of dots.
RasterToColumnMajor(pixels, width, height) ==
  {<<p[2], p[1]>> : p \in {q \in pixels : q[1] < width /\ q[2] < height}}

\* (faulty variant: the leading dots of a wide page are kept)
CropOffsetLeading(lost) == 0

\* A page wider than the head loses as much on either side.
CropOffset(lost) == lost \div 2

\* center_in_printhead: on a head of whole bytes.
Usable(head) == 8 * (head \div 8)
CenterInPrinthead(lines, width, head) ==
  IF width >= Usable(head)
  THEN LET off == CropOffset(width - Usable(head))
       IN  {<<p[1], p[2] - off>> : p \in {q \in lines : q[2] - off \in 0..Usable(head) - 1}}
  ELSE LET off == (Usable(head) - width) \div 2
       IN  {<<p[1], p[2] + off>> : p \in lines}

-----------------------------------------------------------------------------
(* Two-colour pages *)

Luma(rgb) == (30 * rgb[1] + 59 * rgb[2] + 11 * rgb[3]) \div 100

\* classify: 0 red, 1 black, -1 no ink.
Classify(luma) ==
  IF luma >= BLANK_THRESHOLD THEN -1 ELSE IF luma > BLACK_THRESHOLD THEN 0 ELSE 1

\* rgb_to_planes and interleave_planes: a column's red line, then its black.
TwoColourLines(picture, width, height) ==
  {<<2 * p[2] + Classify(Luma(picture[p])), p[1]>> :
     p \in {q \in (0..width - 1) \X (0..height - 1) : Classify(Luma(picture[q])) # -1}}

-----------------------------------------------------------------------------
(* Cards *)

LabelDots(mm) == Least(mm * DOTS_PER_MM, PRINTHEAD_WIDTH_DOTS)
LabelEdge(dots) == (PRINTHEAD_WIDTH_DOTS - dots) \div 2
Span(from, count) == from..from + count - 1

\* create_test_pattern: the regions it marks, one for each print buffer.
BufRegions(height) ==
  LET cols == BUF_DATA \div Bytes(PRINTHEAD_WIDTH_DOTS)
      end  == height - DEFAULT_MARGIN_DOTS
      starts == {s \in DEFAULT_MARGIN_DOTS..end - 1 : (s - DEFAULT_MARGIN_DOTS) % cols = 0}
  IN  {<<s, Least(s + cols, end)>> : s \in starts}

\* Its ink: borders of the label and of each region, and the crosses.
TestPattern(label_mm, height) ==
  LET w == label_mm * DOTS_PER_MM
      x0 == LabelEdge(w)
      Edge(v, n) == v < 2 \/ v >= n - 2
      Cross(lr, at) == lr - at \in -1..1 \/ lr - (w - 1 - at) \in -1..1
  IN {<<q[1], x0 + q[2]>> : q \in
       {p \in (0..height - 1) \X (0..w - 1) :
          \/ Edge(p[2], w) \/ Edge(p[1], height)
          \/ \E r \in BufRegions(height) :
               /\ p[1] \in r[1]..r[2] - 1
               /\ \/ Edge(p[1] - r[1], r[2] - r[1])
                  \/ Cross(p[2], ((p[1] - r[1]) * w) \div (r[2] - r[1]))}}

\* create_swatch_ladder: one solid block a step, and the columns of a band.
BandCols(height, steps) ==
  Most(height - 2 * DEFAULT_MARGIN_DOTS, 0) \div Most(steps, 1)
SwatchLadder(label_mm, height, steps) ==
  LET cols == BandCols(height, steps)
      ink  == Most(cols - SWATCH_SEPARATOR_DOTS, 0)
      w    == LabelDots(label_mm)
  IN  UNION {Span(DEFAULT_MARGIN_DOTS + s * cols, ink) \X Span(LabelEdge(w), w) :
               s \in 0..steps - 1}

\* The grey level of step s of n, white first.
Level(s, n) == 255 - Least((s * 255) \div (n - 1), 255)

\* create_gray_ramp and create_gray_bands: the level of each pixel of the head.
GrayRamp(label_mm, height, asked) ==
  LET steps == Most(asked, 2)
      rows  == Most(height \div steps, 1)
      w     == LabelDots(label_mm)
  IN [p \in (0..PRINTHEAD_WIDTH_DOTS - 1) \X (0..height - 1) |->
       IF p[1] \in Span(LabelEdge(w), w) THEN Level(Least(p[2] \div rows, steps - 1), steps)
       ELSE 255]
GrayBands(label_mm, height, asked) ==
  LET bands == Most(asked, 2)
      w     == LabelDots(label_mm)
      dots  == Most(w \div bands, 1)
      at(x) == (x - LabelEdge(w)) \div dots
  IN [p \in (0..PRINTHEAD_WIDTH_DOTS - 1) \X (0..height - 1) |->
       IF p[1] >= LabelEdge(w) /\ at(p[1]) < bands
          /\ p[2] \in height \div 8..(height * 7) \div 8 - 1
       THEN Level(at(p[1]), bands) ELSE 255]

White == <<255, 255, 255>>
Red == <<255, 0, 0>>
Black == <<0, 0, 0>>

\* create_two_colour_card: a thick red bar, then a thin black one.
TwoColourCard(label_mm, height) ==
  LET w == LabelDots(label_mm)
  IN [p \in (0..PRINTHEAD_WIDTH_DOTS - 1) \X (0..height - 1) |->
       IF p[1] \notin Span(LabelEdge(w), w) THEN White
       ELSE IF p[2] \in height \div 10..(height * 4) \div 10 - 1 THEN Red
       ELSE IF p[2] \in (height * 6) \div 10..(height * 3) \div 4 - 1 THEN Black
       ELSE White]

\* create_two_colour_stripes: red and black by turns, with alleys between.
TwoColourStripes(label_mm, height) ==
  LET w      == LabelDots(label_mm)
      stripe == w \div 4
      Inked(x, parity) ==
        \E s \in 0..3 : s % 2 = parity
          /\ x \in Span(LabelEdge(w) + s * stripe, Most(stripe - SWATCH_SEPARATOR_DOTS, 0))
  IN [p \in (0..PRINTHEAD_WIDTH_DOTS - 1) \X (0..height - 1) |->
       IF p[2] \notin height \div 6..(height * 5) \div 6 - 1 THEN White
       ELSE IF Inked(p[1], 0) THEN Red
       ELSE IF Inked(p[1], 1) THEN Black
       ELSE White]
=============================================================================
