---------------------------- MODULE StatusReport ----------------------------
(***************************************************************************)
(* What the four status registers say (supvan-proto/src/status.rs).  A     *)
(* register content is the set of its bits, each a pair of the register    *)
(* (MSTA low and high, FSTA low and high) and its mask.                    *)
(***************************************************************************)
EXTENDS Naturals

Bits == (0..3) \X {1, 2, 4, 8, 16, 32, 64, 128}

\* decode_status_bits: the flags with a name.
Flag ==
  [label_rw_error |-> <<0, 2>>, label_end |-> <<0, 4>>, label_mode_error |-> <<0, 8>>,
   ribbon_rw_error |-> <<0, 16>>, ribbon_end |-> <<0, 32>>, low_battery |-> <<0, 64>>,
   buf_full |-> <<0, 1>>, device_busy |-> <<1, 4>>, head_temp_high |-> <<1, 8>>,
   cover_open |-> <<2, 8>>, insert_usb |-> <<2, 16>>, printing |-> <<2, 64>>,
   label_not_installed |-> <<3, 1>>]

Decode(regs) == {f \in DOMAIN Flag : Flag[f] \in regs}

\* error_flags: the flags that stop a print.
ErrorFlags ==
  {"label_rw_error", "label_end", "label_mode_error", "ribbon_rw_error",
   "ribbon_end", "cover_open", "head_temp_high", "label_not_installed"}

HasError(regs) == Decode(regs) \intersect ErrorFlags # {}
=============================================================================
