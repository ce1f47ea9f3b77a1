----------------------------- MODULE MCDiscovery ----------------------------
(* Two USB printers that share a descriptor serial, one of them also on    *)
(* Bluetooth and the other on BLE, and a T80 Pro that is on Bluetooth only; *)
(* prefixes and models from data/models.toml.                              *)
EXTENDS Discovery, TLC

Dev(name, pid, serial, family, spp, gatt, usbCable) ==
  [name |-> name, pid |-> pid, serial |-> serial, family |-> family, shape |-> TRUE,
   oui |-> TRUE, spp |-> spp, gatt |-> gatt, usb |-> usbCable]

MCAttr ==
  [t80m |-> Dev(<<"T0111A", "1">>, <<"T80", "M">>, <<"7E12">>, "supvan_t80", TRUE, FALSE, TRUE),
   t50m |-> Dev(<<"T0021A", "2">>, <<"T50", "M">>, <<"7E12">>, "supvan_t50", FALSE, TRUE, TRUE),
   t80pro |-> Dev(<<"T0171", "3">>, <<"none">>, <<"none">>, "supvan_t80", TRUE, FALSE, FALSE)]

MCPrefixes ==
  {[prefix |-> <<"T0111A">>, model |-> <<"T80", "M">>, family |-> "supvan_t80"],
   [prefix |-> <<"T80", "M">>, model |-> <<"T80", "M">>, family |-> "supvan_t80"],
   [prefix |-> <<"T0021A">>, model |-> <<"T50", "M">>, family |-> "supvan_t50"],
   [prefix |-> <<"T50", "M">>, model |-> <<"T50", "M">>, family |-> "supvan_t50"],
   [prefix |-> <<"T0171">>, model |-> <<"T80", " Pro">>, family |-> "supvan_t80"]}

MCModels == <<"T80", "M">> :> "supvan_t80" @@ <<"T50", "M">> :> "supvan_t50"

MCSlug ==
  <<"T0111A", "1">> :> "t0111a1" @@ <<"T0021A", "2">> :> "t0021a2"
  @@ <<"T0171", "3">> :> "t01713" @@ <<"7E12">> :> "7e12"
=============================================================================
