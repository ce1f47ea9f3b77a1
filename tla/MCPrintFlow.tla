---------------------------- MODULE MCPrintFlow -----------------------------
(* A small printer session for TLC: pages of up to MaxBlocks blocks, one that *)
(* compresses well and one that hardly compresses, and attempt budgets of two. *)
EXTENDS PrintFlow

MCAverages == {400, 2900}

=============================================================================
