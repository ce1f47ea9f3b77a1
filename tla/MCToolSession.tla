---------------------------- MODULE MCToolSession ----------------------------
(* Two profiles, two opcodes to ask, a low battery and a roll that ends. *)
EXTENDS ToolSession

MCSweeps == {<<"standard", "cardstock">>}
MCReads == <<177>>
MCRequested == {<<>>, <<24>>, <<44>>}
MCConditions == {{<<0, 64>>}, {<<0, 4>>}}
=============================================================================
