---------------------------- MODULE MCCommandLink ---------------------------
(* CommandLink on each of the three links, a status query, a command whose *)
(* reply is not looked at, and transfers of up to two frames.              *)
EXTENDS CommandLink
=============================================================================
