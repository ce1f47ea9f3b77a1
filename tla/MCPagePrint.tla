----------------------------- MODULE MCPagePrint ----------------------------
(* PagePrint on a head of 16 dots, 4 to the millimetre, and buffers of 5   *)
(* lines.  A raster page is one black pixel, each place on pages narrower  *)
(* and wider than the head, on heads of whole bytes and not.               *)
EXTENDS PagePrint, TLC

D(b, r) == [black |-> b, red |-> r]

RasterJobs ==
  UNION {{[caller |-> "raster", width |-> w, rows |-> rows, head |-> head,
           pixel |-> p, density |-> D(4, 4)]
          : p \in {0, 1, 2, w \div 2, w - 3, w - 2, w - 1} \X {0, rows - 1}}
         : <<w, rows, head>> \in {5, 16, 17, 21} \X {4, 12} \X {16, 19}}

GrayJobs ==
  {[caller |-> "gray", mm |-> 3, rows |-> c[1], card |-> c[2], steps |-> c[3], density |-> D(8, 8)]
   : c \in {4, 8, 20} \X {"ramp", "bands"} \X {1, 4, 5}}

TwoColourJobs ==
  {[caller |-> "two", mm |-> c[1], rows |-> c[2], card |-> c[3], density |-> D(10, 3)]
   : c \in {3, 4} \X {4, 9, 14} \X {"bars", "stripes"}}

TestJobs ==
  {[caller |-> "test", mm |-> mm, rows |-> rows, density |-> D(4, 4)]
   : <<mm, rows>> \in {2, 4, 6} \X {8, 16, 20}}

LadderJobs ==
  {[caller |-> "ladder", mm |-> 3, rows |-> rows, densities |-> ds]
   : <<rows, ds>> \in {4, 12, 20} \X
       {<<D(0, 15)>>, <<D(2, 2), D(9, 4)>>, <<D(2, 2), D(9, 4), D(15, 0)>>}}

MCJobs == RasterJobs \union GrayJobs \union TwoColourJobs \union TestJobs \union LadderJobs
MCPages == JobPages @@ <<>>
MCDensities == {D(4, 4), D(8, 8), D(10, 3), D(0, 15), D(2, 2), D(9, 4), D(15, 0)}
=============================================================================
