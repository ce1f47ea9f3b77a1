------------------------------ MODULE MCJobRun -------------------------------
(* Pages that differ in height, width and depth, and one that cannot be read. *)
EXTENDS JobRun

P(h, w, d, c, r) == [height |-> h, width |-> w, depth |-> d, copies |-> c, readable |-> r]

MCPages ==
  {P(2, 2, "contone", 0, TRUE), P(1, 1, "contone", 2, TRUE), P(1, 2, "mono", 1, TRUE),
   P(2, 2, "other", 1, TRUE), P(2, 1, "contone", 0, FALSE)}

MCConditions == {"label_end", "head_temp_high"}
MCBoth == {"io", "ble"}
MCIo == {"io"}

=============================================================================
