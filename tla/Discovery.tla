------------------------------ MODULE Discovery -----------------------------
(***************************************************************************)
(* A discovery sweep (SupvanDeviceBackend::list) over USB, Bluetooth       *)
(* Classic and BLE, the registry of models it consults, and the map from   *)
(* supvan:// names to transports that open_supvan follows afterwards.      *)
(* Cables come and go, and the kernel reuses hidraw nodes, between any two *)
(* steps of the sweep; BlueZ learns of radios as they answer.              *)
(*                                                                         *)
(* A name is a sequence of strings, split where some prefix of the registry*)
(* ends; Slug gives the queue name of each.                                *)
(***************************************************************************)
EXTENDS Integers, Sequences, FiniteSets

CONSTANTS
  Devices,
  Attr,        \* what each device is: see DevicesAssumption
  Nodes,       \* hidraw minor numbers
  Prefixes,    \* bt_names of models.toml: [prefix, model, family]
  Models,      \* what a USB product id is called, and its family
  Slug,
  BleFeature,
  MaxUpsets, MaxSweeps

NoNode == -1
NoName == <<"no name">>
Nobody == "nobody"
DefaultFamily == "supvan_t50"
DefaultModel == <<"T50", " Series">>
NoUsb == [path |-> NoNode, id |-> NoName, model |-> NoName, name |-> NoName,
          scanned |-> Nobody, probed |-> Nobody]

\* A USB descriptor's serial may be shared, but is no other printer's name.
ASSUME DevicesAssumption ==
  /\ Nobody \notin Devices /\ IsFiniteSet(Devices)
  /\ Nodes \subseteq Nat /\ IsFiniteSet(Nodes)
  /\ \A d \in Devices :
       /\ DOMAIN Attr[d] = {"name", "pid", "serial", "family", "shape", "oui", "spp", "gatt", "usb"}
       /\ {Attr[d].shape, Attr[d].oui, Attr[d].spp, Attr[d].gatt, Attr[d].usb} \subseteq BOOLEAN
       /\ {Attr[d].name, Attr[d].serial} \subseteq Seq(STRING) \ {NoName}
       /\ Attr[d].name \in DOMAIN Slug
       /\ Attr[d].pid \in DOMAIN Models => Attr[d].serial \in DOMAIN Slug
  /\ \A d, e \in Devices :
       Attr[d].pid \in DOMAIN Models /\ Slug[Attr[d].serial] = Slug[Attr[e].name] => d = e

ASSUME SweepBoundsAssumption == MaxUpsets \in Nat /\ MaxSweeps \in Nat

VARIABLES
  node,      \* hidraw node of each device
  bluez,     \* what BlueZ knows of each: absent, heard, known or paired
  upsets,    \* (bound) cables moved, restarts, D-Bus failing at the end
  sweeps,    \* (bound) sweeps begun
  phase,     \* of list(): idle, probe, pair, ble or join
  found,     \* hidraw devices still to probe
  topair,    \* unpaired matches still to try
  usb, bt, ble,   \* candidates
  map,       \* supvan_map: slug -> transports
  out        \* slug -> the model of its device id

worldVars == <<node, bluez, upsets>>
sweepVars == <<phase, found, topair, usb, bt, ble>>
vars == <<worldVars, sweeps, sweepVars, map, out>>

-----------------------------------------------------------------------------
(* The registry *)

StartsWith(name, prefix) ==
  Len(prefix) <= Len(name) /\ SubSeq(name, 1, Len(prefix)) = prefix

Matching(name) == {p \in Prefixes : StartsWith(name, p.prefix)}

\* match_bt_prefix: the longest.
MatchBtPrefix(name) ==
  CHOOSE p \in Matching(name) : \A q \in Matching(name) : Len(q.prefix) <= Len(p.prefix)

LongestAreOf(name, family) ==
  \A p \in Matching(name) :
    (\A q \in Matching(name) : Len(q.prefix) <= Len(p.prefix)) => p.family = family

\* What data/models.toml says agrees with the printers and with itself: an
\* advertised name leads to its printer's family, each USB model's name and
\* each marketing name that is a prefix too to the family it is listed with.
ASSUME RegistryAssumption ==
  /\ Prefixes \subseteq [prefix : Seq(STRING), model : Seq(STRING), family : STRING]
  /\ \A d \in Devices : LongestAreOf(Attr[d].name, Attr[d].family)
  /\ \A d \in Devices : Attr[d].pid \in DOMAIN Models => Models[Attr[d].pid] = Attr[d].family
  /\ DOMAIN Models \subseteq Seq(STRING)
  /\ \A m \in DOMAIN Models : Matching(m) # {} /\ LongestAreOf(m, Models[m])
  /\ \A p \in Prefixes : LongestAreOf(p.model, p.family)
  /\ Matching(DefaultModel) = {}

\* (faulty variant: the device id is not looked at)
FamilyForModelHintDefault(name) == DefaultFamily

\* driver_for_device, given the MDL field.
FamilyForModelHint(name) ==
  IF Matching(name) = {} THEN DefaultFamily ELSE MatchBtPrefix(name).family

\* (faulty variant: the advertised name itself)
BtModelForNameRaw(name) == name

BtModelForName(name) ==
  IF Matching(name) = {} THEN DefaultModel ELSE MatchBtPrefix(name).model

\* is_matching_bt_device, with the brand words and the serial-name shape.
IsMatching(d) ==
  \/ \E i \in DOMAIN Attr[d].name : Attr[d].name[i] = "Supvan"
  \/ Matching(Attr[d].name) # {}
  \/ Attr[d].oui /\ Attr[d].shape

-----------------------------------------------------------------------------
(* The world *)

Occupant(n) ==
  IF \E d \in Devices : node[d] = n THEN CHOOSE d \in Devices : node[d] = n ELSE Nobody

\* The kernel gives a device the lowest free node.
Plug(d) ==
  /\ Attr[d].usb /\ node[d] = NoNode /\ upsets < MaxUpsets
  /\ \E n \in Nodes :
       /\ Occupant(n) = Nobody /\ \A m \in Nodes : m < n => Occupant(m) # Nobody
       /\ node' = [node EXCEPT ![d] = n]
  /\ upsets' = upsets + 1
  /\ UNCHANGED <<bluez, sweeps, sweepVars, map, out>>

Unplug(d) ==
  /\ node[d] # NoNode /\ upsets < MaxUpsets
  /\ node' = [node EXCEPT ![d] = NoNode]
  /\ upsets' = upsets + 1
  /\ UNCHANGED <<bluez, sweeps, sweepVars, map, out>>

-----------------------------------------------------------------------------
(* The sweep: USB *)

Supvans == {d \in Devices : Attr[d].pid \in DOMAIN Models}

\* scan_hidraw_paths and the first pass of list_candidates: the devices whose
\* product id is in the registry, each with the serial or bus path of its URI.
BeginSweep ==
  /\ phase = "idle" /\ sweeps < MaxSweeps
  /\ found' = {[path |-> n, model |-> Attr[Occupant(n)].pid, id |-> Attr[Occupant(n)].serial,
                scanned |-> Occupant(n)]
               : n \in {m \in Nodes : Occupant(m) \in Supvans}}
  /\ phase' = "probe" /\ sweeps' = sweeps + 1
  /\ usb' = {} /\ bt' = {} /\ ble' = {} /\ topair' = {}
  /\ UNCHANGED <<worldVars, map, out>>

\* probe_printer_name: the serial out of RETURN_MAT, if the node opens and the
\* printer behind it answers.
Probe ==
  /\ phase = "probe"
  /\ \E f \in found :
       /\ \E name \in {NoName} \union {Attr[d].name : d \in {e \in Supvans : node[e] = f.path}} :
            usb' = usb \union {[path |-> f.path, id |-> f.id, model |-> f.model, name |-> name,
                                scanned |-> f.scanned, probed |-> Occupant(f.path)]}
       /\ found' = found \ {f}
  /\ UNCHANGED <<worldVars, sweeps, phase, topair, bt, ble, map, out>>

-----------------------------------------------------------------------------
(* The sweep: Bluetooth Classic *)

BlueZ == {"absent", "heard", "known", "paired"}

\* may_speak_spp: no profiles known is taken for may.
MaySpeakSpp(d) == bluez[d] = "heard" \/ Attr[d].spp

\* Radios that answer the inquiry: BlueZ has their names, of some the profiles.
Answering == {d \in Devices : bluez[d] = "absent" /\ Attr[d].spp}
Heard(answered, profiled) ==
  [d \in Devices |-> IF d \in profiled THEN "known"
                     ELSE IF d \in answered THEN "heard" ELSE bluez[d]]

\* run_discovery; what to pair is read once after it, or D-Bus fails and the
\* list of candidates stays empty.
Inquiry ==
  /\ phase = "probe" /\ found = {}
  /\ \/ /\ phase' = "pair"
        /\ \E answered \in SUBSET Answering : \E profiled \in SUBSET answered :
             bluez' = Heard(answered, profiled)
        /\ topair' = {d \in Devices : bluez'[d] \in {"heard", "known"} /\ IsMatching(d) /\ MaySpeakSpp(d)'}
     \/ phase' = "ble" /\ UNCHANGED <<bluez, topair>>
  /\ UNCHANGED <<node, upsets, sweeps, found, usb, bt, ble, map, out>>

\* auto_pair_device; BlueZ learns the profiles of what it pairs.
AutoPair ==
  /\ phase = "pair"
  /\ \E d \in topair :
       /\ topair' = topair \ {d}
       /\ bluez' \in {bluez, [bluez EXCEPT ![d] = "paired"]}
  /\ UNCHANGED <<node, upsets, sweeps, phase, found, usb, bt, ble, map, out>>

\* Phase 4 reports what has the profile, paired or not; or D-Bus fails now.
Report ==
  /\ phase = "pair" /\ topair = {}
  /\ phase' = "ble"
  /\ \/ /\ bt' = {d \in Devices :
                  bluez[d] \in {"known", "paired"} /\ Attr[d].spp /\ IsMatching(d)}
        /\ UNCHANGED upsets
     \/ /\ upsets < MaxUpsets /\ upsets' = upsets + 1
        /\ UNCHANGED bt
  /\ UNCHANGED <<node, bluez, sweeps, found, topair, usb, ble, map, out>>

-----------------------------------------------------------------------------
(* The sweep: BLE, then the devices of the three transports are joined *)

\* The LE scan: some of those in Supvan's range of addresses that advertise a
\* service it knows, or none without the feature.
LeScan ==
  /\ phase = "ble"
  /\ ble' \in SUBSET {d \in Devices : BleFeature /\ Attr[d].gatt /\ Attr[d].oui /\ Attr[d].shape}
  /\ phase' = "join"
  /\ UNCHANGED <<worldVars, sweeps, found, topair, usb, bt, map, out>>

UsbKey(u) == IF u.name = NoName THEN u.id ELSE u.name

Keys == {UsbKey(u) : u \in usb} \union {Attr[d].name : d \in bt \union ble}
UsbOnly == {k \in Keys : /\ \E u \in usb : UsbKey(u) = k
                         /\ \A d \in bt \union ble : Attr[d].name # k}
BtOnly == {k \in Keys : /\ \E d \in bt : Attr[d].name = k
                        /\ \A u \in usb : UsbKey(u) # k
                        /\ \A d \in ble : Attr[d].name # k}
LeftOver == Cardinality(UsbOnly) = 1 /\ Cardinality(BtOnly) = 1

\* (faulty variant: whenever there is one of each)
MergesAny == UsbOnly # {} /\ BtOnly # {}

\* One USB-only and one Bluetooth-only printer are taken for the same.
Merges == LeftOver

\* (faulty variant: the USB entry is dropped with its key)
UsbSourceDropped(k, usbKey, btKey) == k

\* Under which key the USB candidate of group k was found.
UsbSource(k, usbKey, btKey) == IF k = btKey THEN usbKey ELSE k

\* The group of key k once usbKey has gone over to btKey: of the candidates of
\* one transport with one key the last stays, of USB's the one in `late`.
Last(S, none, late) ==
  IF S = {} THEN none ELSE IF late \in S THEN late ELSE CHOOSE c \in S : TRUE
Group(k, usbKey, btKey, late) ==
  [usb |-> Last({u \in usb : UsbKey(u) = UsbSource(k, usbKey, btKey)}, NoUsb, late),
   bt |-> Last({d \in bt : Attr[d].name = k}, Nobody, Nobody),
   ble |-> Last({d \in ble : Attr[d].name = k}, Nobody, Nobody),
   lone |-> LeftOver /\ k = btKey]

\* list ends: register_supvan replaces the entry of each slug, and the device
\* id takes its model from USB, else from the registry.
Join ==
  /\ phase = "join"
  /\ \E usbKey \in (IF Merges THEN UsbOnly ELSE {NoName}),
        btKey \in (IF Merges THEN BtOnly ELSE {NoName}),
        late \in usb \union {NoUsb} :
     LET keys == Keys \ {usbKey}
         slugs == {Slug[k] : k \in keys}
         key == [s \in slugs |-> CHOOSE k \in keys : Slug[k] = s]
         group == [s \in slugs |-> Group(key[s], usbKey, btKey, late)]
     IN /\ map' = [s \in DOMAIN map \union slugs |-> IF s \in slugs THEN group[s] ELSE map[s]]
        /\ out' = [s \in DOMAIN out \union slugs |->
                     IF s \notin slugs THEN out[s]
                     ELSE IF map'[s].usb # NoUsb THEN map'[s].usb.model
                     ELSE BtModelForName(key[s])]
  /\ phase' = "idle"
  /\ UNCHANGED <<worldVars, sweeps, found, topair, usb, bt, ble>>

\* The map is in memory only; prune_stale_supvan keeps every supvan:// printer.
Restart ==
  /\ upsets < MaxUpsets
  /\ upsets' = upsets + 1
  /\ phase' = "idle" /\ found' = {} /\ topair' = {}
  /\ usb' = {} /\ bt' = {} /\ ble' = {}
  /\ map' = <<>>
  /\ UNCHANGED <<node, bluez, sweeps, out>>

\* open_supvan: what is behind the USB node now, if one is registered,
ByCable(s) ==
  IF map[s].usb = NoUsb THEN {} ELSE {Occupant(map[s].usb.path)} \ {Nobody}

\* else, when that does not open, Bluetooth and then BLE.
ByRadio(s) == {map[s].bt, map[s].ble} \ {Nobody}

Init ==
  /\ node \in [Devices -> Nodes \union {NoNode}]
  /\ \A d, e \in Devices : node[d] # NoNode => Attr[d].usb /\ (node[d] = node[e] => d = e)
  /\ bluez = [d \in Devices |-> "absent"]
  /\ upsets = 0 /\ sweeps = 0 /\ phase = "idle"
  /\ found = {} /\ topair = {} /\ usb = {} /\ bt = {} /\ ble = {}
  /\ map = <<>> /\ out = <<>>

Next ==
  \/ \E d \in Devices : Plug(d) \/ Unplug(d)
  \/ BeginSweep \/ Probe
  \/ Inquiry \/ AutoPair \/ Report \/ LeScan \/ Join
  \/ Restart

Spec == Init /\ [][Next]_vars

-----------------------------------------------------------------------------
(* Properties *)

Candidate ==
  [path: Nodes, id: {Attr[d].serial : d \in Devices}, model: DOMAIN Models,
   name: {NoName} \union {Attr[d].name : d \in Devices},
   scanned: Devices, probed: Devices \union {Nobody}]
Slugs == {Slug[k] : k \in DOMAIN Slug}

WorldTypeOK ==
  /\ node \in [Devices -> Nodes \union {NoNode}]
  /\ bluez \in [Devices -> BlueZ]
  /\ upsets \in 0..MaxUpsets /\ sweeps \in 0..MaxSweeps
  /\ phase \in {"idle", "probe", "pair", "ble", "join"}

SweepTypeOK ==
  /\ found \subseteq [path: Nodes, model: DOMAIN Models,
                      id: {Attr[d].serial : d \in Devices}, scanned: Devices]
  /\ usb \subseteq Candidate
  /\ topair \subseteq Devices /\ bt \subseteq Devices /\ ble \subseteq Devices

Transports ==
  [usb : Candidate \union {NoUsb}, bt : Devices \union {Nobody},
   ble : Devices \union {Nobody}, lone : BOOLEAN]
MdlFields == DOMAIN Models \union {p.model : p \in Prefixes} \union {DefaultModel}

MapTypeOK ==
  /\ DOMAIN map \subseteq Slugs /\ DOMAIN out \subseteq Slugs
  /\ \A s \in DOMAIN out : out[s] \in MdlFields
  /\ \A s \in DOMAIN map : map[s] \in Transports

TypeOK == WorldTypeOK /\ SweepTypeOK /\ MapTypeOK

\* The queues named for one device alone.
Owners(s) == {d \in Devices : Slug[Attr[d].name] = s}
Unshared == {s \in Slugs : Cardinality(Owners(s)) = 1}
Owned == DOMAIN map \intersect Unshared

\* By radio a queue reaches the printer it is named for and no other.  By cable
\* too, whatever cables moved during the sweep, unless the sweep joined the only
\* two printers left over, or the node has changed hands: since the probe that
\* told the name, or between scan and probe when the probe went unanswered.
RightPrinter ==
  \A s \in Owned :
    /\ ByRadio(s) \subseteq Owners(s)
    /\ \A q \in ByCable(s) :
         \/ q \in Owners(s)
         \/ map[s].lone
         \/ q # map[s].usb.probed
         \/ map[s].usb.name = NoName /\ map[s].usb.scanned # map[s].usb.probed

\* A queue gets the driver of its printer's family, by either transport, unless
\* the node changed hands between scan and probe, two printers were joined, or
\* the registry does not know the marketing name as a prefix.
RightFamily ==
  \A s \in Owned : \A d \in Owners(s) :
    \/ map[s].usb.scanned # map[s].usb.probed
    \/ map[s].lone
    \/ FamilyForModelHint(out[s]) = Attr[d].family
    \/ map[s].usb = NoUsb /\ Matching(out[s]) = {}

\* After a sweep every candidate can be reached through some queue, unless
\* another of the same transport has taken its place in the group, or another
\* group its queue.
NothingLost ==
  phase = "idle" =>
    LET Clash(k) == \E j \in Keys \ {k} : Slug[j] = Slug[k]
        Kept(k) == IF Merges /\ k \in UsbOnly THEN BtOnly ELSE {k}
    IN
    /\ \A u \in usb :
         \/ \E s \in DOMAIN map : map[s].usb = u
         \/ \E v \in usb \ {u} : UsbKey(v) = UsbKey(u)
         \/ \E k \in Kept(UsbKey(u)) : Clash(k)
    /\ \A d \in bt \union ble :
         \/ \E s \in DOMAIN map : d \in {map[s].bt, map[s].ble}
         \/ \E e \in (bt \union ble) \ {d} : Attr[e].name = Attr[d].name
         \/ Clash(Attr[d].name)
=============================================================================
