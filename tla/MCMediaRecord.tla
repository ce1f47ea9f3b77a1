--------------------------- MODULE MCMediaRecord ----------------------------
(* Two label sizes and one tagged roll.                                         *)
EXTENDS MediaRecord

MCSizes == {30, 40}
MCGenuine == {"tagA"}

=============================================================================
