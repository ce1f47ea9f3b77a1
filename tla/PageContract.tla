---------------------------- MODULE PageContract ----------------------------
(***************************************************************************)
(* What Printer::print_compressed promises for the pages handed to it, one *)
(* after the other: a page is a row of blocks, the blocks reach the paper  *)
(* in order, and a page is reported printed only when all of it is on the  *)
(* label.  A page reported failed may still put further blocks on paper:   *)
(* nothing tells the firmware to stop.  A page may lapse: nothing more is  *)
(* promised of it, nor of the next ones until one is begun anew.           *)
(***************************************************************************)
EXTENDS Naturals

CONSTANT MaxBlocks      \* the most blocks a page is compressed into

VARIABLES
  status,   \* of the page in hand
  size,     \* the number of its blocks
  laid      \* the number of its blocks on the label, in order

vars == <<status, size, laid>>

TypeOK ==
  /\ status \in {"none", "running", "ok", "failed", "void"}
  /\ size \in 0..MaxBlocks
  /\ laid \in 0..size

Init == status = "none" /\ size = 0 /\ laid = 0

Begin ==
  /\ status # "running"
  /\ status' = "running"
  /\ size' \in 1..MaxBlocks
  /\ laid' = 0

LayBlock ==
  /\ status \in {"running", "failed"}
  /\ laid < size
  /\ laid' = laid + 1
  /\ UNCHANGED <<status, size>>

ReportOk ==
  /\ status = "running"
  /\ laid = size
  /\ status' = "ok"
  /\ UNCHANGED <<size, laid>>

ReportFailed ==
  /\ status = "running"
  /\ status' = "failed"
  /\ UNCHANGED <<size, laid>>

Lapse ==
  /\ status = "running"
  /\ status' = "void"
  /\ size' = 0
  /\ laid' = 0

Next == Begin \/ LayBlock \/ ReportOk \/ ReportFailed \/ Lapse

Spec == Init /\ [][Next]_vars

=============================================================================
