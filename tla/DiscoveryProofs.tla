--------------------------- MODULE DiscoveryProofs ---------------------------
(***************************************************************************)
(* Discovery for every set of printers, nodes and prefixes: where a queue  *)
(* leads, which family it is given, and that a sweep loses no candidate.   *)
(* The induction follows what a candidate says of the printer scanned and  *)
(* of the printer probed, from the scan to the map.                        *)
(***************************************************************************)
EXTENDS Discovery, FiniteSetTheorems, WellFoundedInduction, TLAPS

\* A node has one printer behind it.
Apart ==
  \A d, e \in Devices : node[d] # NoNode /\ node[d] = node[e] => d = e

\* A candidate has the serial and the model of the printer scanned,
Sighted(c) ==
  /\ c.scanned \in Supvans
  /\ c.id = Attr[c.scanned].serial /\ c.model = Attr[c.scanned].pid

\* and if the probe was answered the name of the printer that answered.
Answered(c) ==
  c.name # NoName => c.probed \in Devices /\ c.name = Attr[c.probed].name

SeenTrue ==
  /\ IsFiniteSet(found) /\ IsFiniteSet(usb)
  /\ \A f \in found : Sighted(f)
  /\ \A u \in usb : Sighted(u) /\ Answered(u)

\* The entry m of queue s, with model o, is of candidates whose key has that slug.
EntryTrue(m, s, o) ==
  /\ m.usb # NoUsb =>
       /\ Sighted(m.usb) /\ Answered(m.usb) /\ o = m.usb.model
       /\ m.lone = FALSE => Slug[UsbKey(m.usb)] = s
  /\ m.usb = NoUsb => \E d \in Owners(s) : o = BtModelForName(Attr[d].name)
  /\ m.bt \in Owners(s) \union {Nobody} /\ m.ble \in Owners(s) \union {Nobody}

MapTrue == \A s \in DOMAIN map : s \in DOMAIN out /\ EntryTrue(map[s], s, out[s])

IInv == TypeOK /\ Apart /\ SeenTrue /\ MapTrue /\ NothingLost

-----------------------------------------------------------------------------
(* The registry *)

\* There is a longest prefix of a name that has one.
LEMMA LongestPrefix ==
  ASSUME NEW name \in Seq(STRING), Matching(name) # {}
  PROVE  /\ MatchBtPrefix(name) \in Matching(name)
         /\ \A q \in Matching(name) : Len(q.prefix) <= Len(MatchBtPrefix(name).prefix)
<1> DEFINE less == OpToRel(<, Nat)
           rest(p) == Len(name) - Len(p.prefix)
           T == {rest(p) : p \in Matching(name)}
<1>1. IsWellFoundedOn(less, Nat)  BY NatLessThanWellFounded
<1>2. ASSUME NEW p \in Matching(name)
      PROVE  Len(p.prefix) \in Nat /\ Len(p.prefix) <= Len(name) /\ rest(p) \in Nat
  <2>1. p.prefix \in Seq(STRING)  BY RegistryAssumption DEF Matching
  <2>2. Len(p.prefix) \in Nat /\ Len(name) \in Nat  BY <2>1
  <2>3. Len(p.prefix) <= Len(name)  BY DEF Matching, StartsWith
  <2> QED BY <2>2, <2>3
<1>3. T \subseteq Nat /\ T # {}  BY <1>2
<1>4. \E x \in T : \A y \in T : ~ (<<y, x>> \in less)
  <2> HIDE DEF less, T
  <2> QED BY <1>1, <1>3, WFMin
<1>5. PICK x \in T : \A y \in T : ~ (<<y, x>> \in less)  BY <1>4
<1>6. PICK p \in Matching(name) : x = rest(p)  BY <1>5
<1>7. ASSUME NEW q \in Matching(name) PROVE Len(q.prefix) <= Len(p.prefix)
  <2>1. rest(q) \in T /\ rest(q) \in Nat /\ rest(p) \in Nat  BY <1>2
  <2>2. ~ (<<rest(q), rest(p)>> \in less)  BY <2>1, <1>5, <1>6
  <2>3. ~ (rest(q) < rest(p))
    <3> HIDE DEF rest
    <3> QED BY <2>1, <2>2 DEF OpToRel
  <2>4. Len(q.prefix) \in Nat /\ Len(p.prefix) \in Nat /\ Len(name) \in Nat  BY <1>2
  <2> QED BY <2>3, <2>4
<1>8. \E z \in Matching(name) : \A q \in Matching(name) : Len(q.prefix) <= Len(z.prefix)
  BY <1>7
<1> QED BY <1>8 DEF MatchBtPrefix

\* Where a name's longest prefixes are of one family, it is the driver's.
LEMMA FamilyOfPrefix ==
  ASSUME NEW name \in Seq(STRING), NEW family, Matching(name) # {}, LongestAreOf(name, family)
  PROVE  FamilyForModelHint(name) = family
BY LongestPrefix DEF LongestAreOf, FamilyForModelHint

\* A printer's own model name, from USB, leads to its family.
LEMMA FamilyOverUsb ==
  ASSUME NEW d \in Supvans
  PROVE  FamilyForModelHint(Attr[d].pid) = Attr[d].family
<1>1. d \in Devices /\ Attr[d].pid \in DOMAIN Models  BY DEF Supvans
<1>2. Attr[d].pid \in Seq(STRING) /\ Matching(Attr[d].pid) # {}
  BY <1>1, RegistryAssumption
<1>3. LongestAreOf(Attr[d].pid, Attr[d].family)  BY <1>1, RegistryAssumption
<1> QED BY <1>2, <1>3, FamilyOfPrefix

\* So does its advertised name, if the model it is given is known as a prefix.
LEMMA FamilyOverBluetooth ==
  ASSUME NEW d \in Devices, Matching(BtModelForName(Attr[d].name)) # {}
  PROVE  FamilyForModelHint(BtModelForName(Attr[d].name)) = Attr[d].family
<1> DEFINE name == Attr[d].name
           p == MatchBtPrefix(name)
<1>1. name \in Seq(STRING) /\ LongestAreOf(name, Attr[d].family)
  BY DevicesAssumption, RegistryAssumption
<1>2. Matching(name) # {} /\ BtModelForName(name) = p.model
  BY RegistryAssumption DEF BtModelForName
<1>3. p \in Matching(name) /\ \A q \in Matching(name) : Len(q.prefix) <= Len(p.prefix)
  BY <1>1, <1>2, LongestPrefix
<1>4. p \in Prefixes /\ p.family = Attr[d].family
  BY <1>1, <1>3 DEF LongestAreOf, Matching
<1>5. p.model \in Seq(STRING) /\ LongestAreOf(p.model, p.family)
  BY <1>4, RegistryAssumption
<1> QED BY <1>2, <1>4, <1>5, FamilyOfPrefix

\* What the registry gives a name is a model the device id can carry.
LEMMA ModelType ==
  ASSUME NEW name \in Seq(STRING)
  PROVE  BtModelForName(name) \in MdlFields
<1>1. CASE Matching(name) = {}  BY <1>1 DEF BtModelForName, MdlFields
<1>2. CASE Matching(name) # {}
  <2>1. MatchBtPrefix(name) \in Prefixes  BY <1>2, LongestPrefix DEF Matching
  <2> QED BY <1>2, <2>1 DEF BtModelForName, MdlFields
<1> QED BY <1>1, <1>2

-----------------------------------------------------------------------------
(* The world *)

\* What is behind a node.
LEMMA OccupantOf ==
  ASSUME NEW n
  PROVE  /\ Occupant(n) \in Devices \union {Nobody}
         /\ Occupant(n) \in Devices => node[Occupant(n)] = n
         /\ Occupant(n) = Nobody <=> \A d \in Devices : node[d] # n
BY DevicesAssumption DEF Occupant

LEMMA OnlyOccupant ==
  ASSUME Apart, NEW d \in Devices, node[d] # NoNode
  PROVE  Occupant(node[d]) = d
BY OccupantOf DEF Apart

LEMMA NodeNumbers == \A n \in Nodes : n # NoNode
BY DevicesAssumption DEF NoNode

\* The values of a function on a finite set are finitely many.
LEMMA FiniteValues ==
  ASSUME NEW U, IsFiniteSet(U), NEW f
  PROVE  IsFiniteSet({f[u] : u \in U})
<1> DEFINE V == {f[u] : u \in U}
           g == [u \in U |-> f[u]]
<1>1. g \in [U -> V] /\ \A v \in V : \E u \in U : g[u] = v  OBVIOUS
<1>2. g \in Surjection(U, V)  BY <1>1 DEF Surjection
<1> HIDE DEF V, g
<1>3. IsFiniteSet(V)  BY <1>2, FS_Surjection
<1> QED BY <1>3 DEF V

\* Moving one cable keeps the nodes apart.
LEMMA MoveApart ==
  ASSUME WorldTypeOK, Apart, NEW d \in Devices, Plug(d) \/ Unplug(d)
  PROVE  WorldTypeOK' /\ Apart'
<1>1. CASE Plug(d)
  <2>1. PICK n \in Nodes : Occupant(n) = Nobody /\ node' = [node EXCEPT ![d] = n]
    BY <1>1 DEF Plug
  <2>2. \A e \in Devices : node[e] # n  BY <2>1, OccupantOf
  <2>3. node' \in [Devices -> Nodes \union {NoNode}]  BY <2>1 DEF WorldTypeOK
  <2>4. Apart'  BY <2>1, <2>2 DEF Apart, WorldTypeOK
  <2>5. upsets' \in 0..MaxUpsets  BY <1>1, SweepBoundsAssumption DEF Plug, WorldTypeOK
  <2>6. UNCHANGED <<bluez, sweeps, phase>>  BY <1>1 DEF Plug, sweepVars
  <2> QED BY <2>3, <2>4, <2>5, <2>6 DEF WorldTypeOK
<1>2. CASE Unplug(d)
  <2>1. node' = [node EXCEPT ![d] = NoNode]  BY <1>2 DEF Unplug
  <2>2. node' \in [Devices -> Nodes \union {NoNode}]  BY <2>1 DEF WorldTypeOK
  <2>3. Apart'  BY <2>1 DEF Apart, WorldTypeOK
  <2>4. upsets' \in 0..MaxUpsets  BY <1>2, SweepBoundsAssumption DEF Unplug, WorldTypeOK
  <2>5. UNCHANGED <<bluez, sweeps, phase>>  BY <1>2 DEF Unplug, sweepVars
  <2> QED BY <2>2, <2>3, <2>4, <2>5 DEF WorldTypeOK
<1> QED BY <1>1, <1>2

-----------------------------------------------------------------------------
(* The sweep *)

\* The scan takes serial and model of the printer behind the node.
LEMMA ScanTrue ==
  ASSUME WorldTypeOK, BeginSweep
  PROVE  WorldTypeOK' /\ SweepTypeOK' /\ SeenTrue'
<1> DEFINE N == {m \in Nodes : Occupant(m) \in Supvans}
           seen(n) == [path |-> n, model |-> Attr[Occupant(n)].pid,
                       id |-> Attr[Occupant(n)].serial, scanned |-> Occupant(n)]
           f == [n \in N |-> seen(n)]
<1>1. found' = {seen(n) : n \in N} /\ usb' = {} /\ bt' = {} /\ ble' = {} /\ topair' = {}
  BY DEF BeginSweep
<1>2. IsFiniteSet(N)  BY DevicesAssumption, FS_Subset
<1>3. found' = {f[n] : n \in N}  BY <1>1
<1>4. IsFiniteSet(found')
  <2> HIDE DEF N, f, seen
  <2> QED BY <1>2, <1>3, FiniteValues
<1>5. ASSUME NEW n \in N
      PROVE  /\ seen(n) \in [path: Nodes, model: DOMAIN Models,
                             id: {Attr[d].serial : d \in Devices}, scanned: Devices]
             /\ Sighted(seen(n))
  <2>1. Occupant(n) \in Supvans /\ n \in Nodes  OBVIOUS
  <2>2. Occupant(n) \in Devices /\ Attr[Occupant(n)].pid \in DOMAIN Models
    BY <2>1 DEF Supvans
  <2> QED BY <2>1, <2>2 DEF Sighted
<1>6. IsFiniteSet(usb')  BY <1>1, FS_EmptySet
<1>7. SweepTypeOK'
  <2> HIDE DEF N, seen
  <2> QED BY <1>1, <1>5 DEF SweepTypeOK
<1>8. SeenTrue'
  <2> HIDE DEF N, seen
  <2> QED BY <1>1, <1>4, <1>5, <1>6 DEF SeenTrue
<1>9. WorldTypeOK'
  BY SweepBoundsAssumption DEF BeginSweep, WorldTypeOK, worldVars
<1> QED BY <1>7, <1>8, <1>9

\* The probe adds the name of the printer that is behind the node by then.
LEMMA ProbeTrue ==
  ASSUME WorldTypeOK, SweepTypeOK, Apart, SeenTrue, Probe
  PROVE  SweepTypeOK' /\ SeenTrue'
<1>1. PICK f \in found :
        /\ \E name \in {NoName} \union {Attr[d].name : d \in {e \in Supvans : node[e] = f.path}} :
             usb' = usb \union {[path |-> f.path, id |-> f.id, model |-> f.model, name |-> name,
                                 scanned |-> f.scanned, probed |-> Occupant(f.path)]}
        /\ found' = found \ {f}
  BY DEF Probe
<1>2. PICK name \in {NoName} \union {Attr[d].name : d \in {e \in Supvans : node[e] = f.path}} :
             usb' = usb \union {[path |-> f.path, id |-> f.id, model |-> f.model, name |-> name,
                                 scanned |-> f.scanned, probed |-> Occupant(f.path)]}
  BY <1>1
<1> DEFINE u == [path |-> f.path, id |-> f.id, model |-> f.model, name |-> name,
                 scanned |-> f.scanned, probed |-> Occupant(f.path)]
<1>3. f \in [path: Nodes, model: DOMAIN Models,
             id: {Attr[d].serial : d \in Devices}, scanned: Devices]
  BY DEF SweepTypeOK
<1>4. Sighted(f)  BY DEF SeenTrue
<1>5. Occupant(f.path) \in Devices \union {Nobody}  BY OccupantOf
<1>6. name \in {NoName} \union {Attr[d].name : d \in Devices}  BY <1>2 DEF Supvans
<1>7. u \in Candidate  BY <1>3, <1>5, <1>6 DEF Candidate
<1>8. Sighted(u)  BY <1>4 DEF Sighted
<1>9. ASSUME name # NoName
      PROVE  Occupant(f.path) \in Devices /\ name = Attr[Occupant(f.path)].name
  <2>1. PICK d \in Supvans : node[d] = f.path /\ name = Attr[d].name  BY <1>2, <1>9
  <2>2. d \in Devices /\ node[d] # NoNode  BY <2>1, <1>3, NodeNumbers DEF Supvans
  <2>3. Occupant(f.path) = d  BY <2>1, <2>2, OnlyOccupant
  <2> QED BY <2>1, <2>2, <2>3
<1>10. Answered(u)  BY <1>9 DEF Answered
<1>11. usb' = usb \union {u} /\ found' = found \ {f}  BY <1>1, <1>2
<1>12. UNCHANGED <<topair, bt, ble>>  BY DEF Probe
<1> HIDE DEF u
<1>13. SweepTypeOK'  BY <1>7, <1>11, <1>12 DEF SweepTypeOK
<1>14. IsFiniteSet(found') /\ IsFiniteSet(usb')
  <2>1. IsFiniteSet(found) /\ IsFiniteSet(usb)  BY DEF SeenTrue
  <2> QED BY <2>1, <1>11, FS_RemoveElement, FS_AddElement
<1>15. SeenTrue'  BY <1>8, <1>10, <1>11, <1>14 DEF SeenTrue
<1> QED BY <1>13, <1>15

\* The Bluetooth steps leave the candidates of USB alone.
LEMMA RadioTypes ==
  ASSUME WorldTypeOK, SweepTypeOK, Inquiry \/ AutoPair \/ Report \/ LeScan
  PROVE  WorldTypeOK' /\ SweepTypeOK' /\ UNCHANGED <<node, found, usb, map, out>> /\ phase' # "idle"
<1>1. CASE Inquiry
  <2>1. UNCHANGED <<node, upsets, sweeps, found, usb, bt, ble, map, out>>  BY <1>1 DEF Inquiry
  <2>2. CASE phase' = "ble" /\ UNCHANGED <<bluez, topair>>
    BY <2>1, <2>2 DEF WorldTypeOK, SweepTypeOK
  <2>3. CASE /\ phase' = "pair"
             /\ \E answered \in SUBSET Answering : \E profiled \in SUBSET answered :
                  bluez' = Heard(answered, profiled)
             /\ topair' = {d \in Devices : bluez'[d] \in {"heard", "known"} /\ IsMatching(d) /\ MaySpeakSpp(d)'}
    <3>1. topair' \subseteq Devices  BY <2>3
    <3>2. bluez' \in [Devices -> BlueZ]  BY <2>3 DEF Heard, WorldTypeOK, BlueZ
    <3> QED BY <2>1, <2>3, <3>1, <3>2 DEF WorldTypeOK, SweepTypeOK
  <2> QED BY <1>1, <2>2, <2>3 DEF Inquiry
<1>2. CASE AutoPair
  <2>1. UNCHANGED <<node, upsets, sweeps, phase, found, usb, bt, ble, map, out>> /\ phase = "pair"
    BY <1>2 DEF AutoPair
  <2>2. PICK d \in topair : /\ topair' = topair \ {d}
                            /\ bluez' \in {bluez, [bluez EXCEPT ![d] = "paired"]}
    BY <1>2 DEF AutoPair
  <2>3. bluez' \in [Devices -> BlueZ]  BY <2>2 DEF WorldTypeOK, SweepTypeOK, BlueZ
  <2>4. topair' \subseteq Devices  BY <2>2 DEF SweepTypeOK
  <2> QED BY <2>1, <2>3, <2>4 DEF WorldTypeOK, SweepTypeOK
<1>3. CASE Report
  <2>1. UNCHANGED <<node, bluez, sweeps, found, topair, usb, ble, map, out>> /\ phase' = "ble"
    BY <1>3 DEF Report
  <2>2. bt' \subseteq Devices  BY <1>3 DEF Report, SweepTypeOK
  <2>3. upsets' \in 0..MaxUpsets
    BY <1>3, SweepBoundsAssumption DEF Report, WorldTypeOK
  <2> QED BY <2>1, <2>2, <2>3 DEF WorldTypeOK, SweepTypeOK
<1>4. CASE LeScan
  <2>1. UNCHANGED <<node, bluez, upsets, sweeps, found, topair, usb, bt, map, out>> /\ phase' = "join"
    BY <1>4 DEF LeScan, worldVars
  <2>2. ble' \subseteq Devices  BY <1>4 DEF LeScan
  <2> QED BY <2>1, <2>2 DEF WorldTypeOK, SweepTypeOK
<1> QED BY <1>1, <1>2, <1>3, <1>4

-----------------------------------------------------------------------------
(* The join *)

\* Every key is a printer's name or serial, so that it has a slug.
LEMMA KeyOfUsb ==
  ASSUME SweepTypeOK, SeenTrue, NEW u \in usb
  PROVE  UsbKey(u) \in Keys /\ UsbKey(u) \in DOMAIN Slug /\ UsbKey(u) # NoName
<1>1. Sighted(u) /\ Answered(u)  BY DEF SeenTrue
<1>2. u.scanned \in Devices /\ Attr[u.scanned].pid \in DOMAIN Models
  BY <1>1 DEF Sighted, Supvans
<1>3. u.id \in DOMAIN Slug /\ u.id # NoName  BY <1>1, <1>2, DevicesAssumption DEF Sighted
<1>4. u.name # NoName => u.name \in DOMAIN Slug
  BY <1>1, DevicesAssumption DEF Answered
<1>5. UsbKey(u) \in Keys  BY DEF Keys
<1> QED BY <1>3, <1>4, <1>5 DEF UsbKey

LEMMA KeyOfRadio ==
  ASSUME SweepTypeOK, NEW d \in bt \union ble
  PROVE  Attr[d].name \in Keys /\ Attr[d].name \in DOMAIN Slug /\ Attr[d].name # NoName
         /\ d \in Owners(Slug[Attr[d].name])
<1>1. d \in Devices  BY DEF SweepTypeOK
<1> QED BY <1>1, DevicesAssumption DEF Keys, Owners

LEMMA KeyKinds ==
  ASSUME NEW k \in Keys
  PROVE  (\E u \in usb : k = UsbKey(u)) \/ (\E d \in bt \union ble : k = Attr[d].name)
BY DEF Keys

LEMMA KeysHaveSlugs ==
  ASSUME SweepTypeOK, SeenTrue
  PROVE  Keys \subseteq DOMAIN Slug /\ NoName \notin Keys
BY KeyKinds, KeyOfUsb, KeyOfRadio

\* What Last picks is of the set, if there is anything in it.
LEMMA LastIn ==
  ASSUME NEW S, NEW none, NEW lately
  PROVE  /\ S = {} => Last(S, none, lately) = none
         /\ S # {} => Last(S, none, lately) \in S
BY DEF Last

\* The two keys that are joined, when there are such.
Joined(usbKey, btKey) ==
  /\ usbKey \in (IF Merges THEN UsbOnly ELSE {NoName})
  /\ btKey \in (IF Merges THEN BtOnly ELSE {NoName})

LEMMA JoinedKeys ==
  ASSUME SweepTypeOK, SeenTrue, NEW usbKey, NEW btKey, Joined(usbKey, btKey)
  PROVE  /\ \A u \in usb : UsbKey(u) # btKey
         /\ \A d \in bt \union ble : Attr[d].name # usbKey
         /\ btKey # usbKey \/ ~Merges
         /\ Merges => btKey \in Keys /\ usbKey \in Keys
         /\ ~Merges => usbKey = NoName /\ btKey = NoName
<1>1. CASE Merges
  <2>1. usbKey \in UsbOnly /\ btKey \in BtOnly  BY <1>1 DEF Joined
  <2>2. PICK d \in bt : Attr[d].name = btKey  BY <2>1 DEF BtOnly
  <2>3. \A u \in usb : UsbKey(u) # btKey  BY <2>1 DEF BtOnly
  <2>4. \A e \in bt \union ble : Attr[e].name # usbKey  BY <2>1 DEF UsbOnly
  <2>5. btKey # usbKey  BY <2>2, <2>4
  <2>6. usbKey \in Keys /\ btKey \in Keys  BY <2>1 DEF UsbOnly, BtOnly
  <2> QED BY <1>1, <2>3, <2>4, <2>5, <2>6
<1>2. CASE ~Merges
  <2>1. usbKey = NoName /\ btKey = NoName  BY <1>2 DEF Joined
  <2> QED BY <1>2, <2>1, KeyOfUsb, KeyOfRadio
<1> QED BY <1>1, <1>2

\* The candidates of a group, transport by transport.
LEMMA GroupParts ==
  ASSUME SweepTypeOK, SeenTrue, NEW usbKey, NEW btKey, Joined(usbKey, btKey), NEW k, NEW lately
  PROVE  LET m == Group(k, usbKey, btKey, lately) IN
         /\ m \in Transports
         /\ m.usb \in usb \union {NoUsb}
         /\ m.usb \in usb => UsbKey(m.usb) = UsbSource(k, usbKey, btKey)
         /\ (\E u \in usb : UsbKey(u) = UsbSource(k, usbKey, btKey)) => m.usb \in usb
         /\ m.bt # Nobody => m.bt \in bt /\ Attr[m.bt].name = k
         /\ m.ble # Nobody => m.ble \in ble /\ Attr[m.ble].name = k
         /\ m.lone = (LeftOver /\ k = btKey)
<1> DEFINE m == Group(k, usbKey, btKey, lately)
           U == {u \in usb : UsbKey(u) = UsbSource(k, usbKey, btKey)}
           B == {d \in bt : Attr[d].name = k}
           L == {d \in ble : Attr[d].name = k}
<1>1. m = [usb |-> Last(U, NoUsb, lately), bt |-> Last(B, Nobody, Nobody),
           ble |-> Last(L, Nobody, Nobody), lone |-> LeftOver /\ k = btKey]
  BY DEF Group
<1>2. m.usb = Last(U, NoUsb, lately) /\ m.bt = Last(B, Nobody, Nobody)
      /\ m.ble = Last(L, Nobody, Nobody)
  BY <1>1
<1>3. m.lone = (LeftOver /\ k = btKey)  BY <1>1
<1>4. (U = {} /\ m.usb = NoUsb) \/ (U # {} /\ m.usb \in U)  BY <1>2, LastIn
<1>5. m.bt = Nobody \/ m.bt \in B  BY <1>2, LastIn
<1>6. m.ble = Nobody \/ m.ble \in L  BY <1>2, LastIn
<1>7. m \in Transports
  <2>1. m.usb \in Candidate \union {NoUsb}  BY <1>4 DEF SweepTypeOK
  <2>2. m.bt \in Devices \union {Nobody} /\ m.ble \in Devices \union {Nobody}
    BY <1>5, <1>6 DEF SweepTypeOK
  <2>3. m.lone \in BOOLEAN  BY <1>3
  <2>4. m = [usb |-> m.usb, bt |-> m.bt, ble |-> m.ble, lone |-> m.lone]  BY <1>1
  <2> HIDE DEF m
  <2> QED BY <2>1, <2>2, <2>3, <2>4 DEF Transports
<1>8. m.usb \in usb \union {NoUsb}  BY <1>4
<1>9. NoUsb \notin usb
  <2>1. ASSUME NoUsb \in usb PROVE FALSE
    <3>1. NoUsb \in Candidate  BY <2>1 DEF SweepTypeOK
    <3>2. NoUsb.path \in Nodes  BY <3>1 DEF Candidate
    <3>3. NoUsb.path = NoNode  BY DEF NoUsb
    <3> QED BY <3>2, <3>3, NodeNumbers
  <2> QED BY <2>1
<1>10. m.usb \in usb => UsbKey(m.usb) = UsbSource(k, usbKey, btKey)  BY <1>4, <1>9
<1>11. (\E u \in usb : UsbKey(u) = UsbSource(k, usbKey, btKey)) => m.usb \in usb  BY <1>4
<1> HIDE DEF m
<1>12. m.bt # Nobody => m.bt \in bt /\ Attr[m.bt].name = k  BY <1>5
<1>13. m.ble # Nobody => m.ble \in ble /\ Attr[m.ble].name = k  BY <1>6
<1> QED BY <1>3, <1>7, <1>8, <1>10, <1>11, <1>12, <1>13 DEF m

NoUsbOr(m, k) == IF m.usb # NoUsb THEN m.usb.model ELSE BtModelForName(k)

\* A group's entry is of candidates of its key, or of the one left over.
LEMMA GroupTrue ==
  ASSUME SweepTypeOK, SeenTrue, NEW usbKey, NEW btKey, Joined(usbKey, btKey),
         NEW k \in Keys \ {usbKey}, NEW lately
  PROVE  LET m == Group(k, usbKey, btKey, lately) IN
         EntryTrue(m, Slug[k], NoUsbOr(m, k)) /\ NoUsbOr(m, k) \in MdlFields
<1> DEFINE m == Group(k, usbKey, btKey, lately)
<1>1. /\ m \in Transports
      /\ m.usb \in usb \union {NoUsb}
      /\ m.usb \in usb => UsbKey(m.usb) = UsbSource(k, usbKey, btKey)
      /\ (\E u \in usb : UsbKey(u) = UsbSource(k, usbKey, btKey)) => m.usb \in usb
      /\ m.bt # Nobody => m.bt \in bt /\ Attr[m.bt].name = k
      /\ m.ble # Nobody => m.ble \in ble /\ Attr[m.ble].name = k
      /\ m.lone = (LeftOver /\ k = btKey)
  BY GroupParts
<1> HIDE DEF m
<1>2. m.usb # NoUsb => Sighted(m.usb) /\ Answered(m.usb)  BY <1>1 DEF SeenTrue
<1>3. ASSUME m.usb # NoUsb, m.lone = FALSE
      PROVE  UsbKey(m.usb) = k
  <2>1. m.usb \in usb /\ UsbKey(m.usb) = UsbSource(k, usbKey, btKey)  BY <1>1, <1>3
  <2>2. k # btKey \/ ~Merges  BY <1>1, <1>3 DEF Merges
  <2>3. k # NoName  BY KeysHaveSlugs
  <2>4. k # btKey  BY <2>2, <2>3, JoinedKeys
  <2> QED BY <2>1, <2>4 DEF UsbSource
<1>4. ASSUME m.usb = NoUsb
      PROVE  \E d \in bt \union ble : k = Attr[d].name
  <2>1. SUFFICES ASSUME NEW u \in usb, k = UsbKey(u) PROVE FALSE
    BY KeyKinds
  <2>2. k # btKey  BY <2>1, JoinedKeys
  <2>3. UsbKey(u) = UsbSource(k, usbKey, btKey)  BY <2>1, <2>2 DEF UsbSource
  <2>4. m.usb \in usb  BY <1>1, <2>3
  <2>5. NoUsb \in Candidate  BY <1>4, <2>4 DEF SweepTypeOK
  <2>6. NoUsb.path \in Nodes  BY <2>5 DEF Candidate
  <2>7. NoUsb.path = NoNode  BY DEF NoUsb
  <2> QED BY <2>6, <2>7, NodeNumbers
<1>5. m.usb = NoUsb => \E d \in Owners(Slug[k]) : NoUsbOr(m, k) = BtModelForName(Attr[d].name)
  BY <1>4, KeyOfRadio DEF NoUsbOr
<1>6. m.bt \in Owners(Slug[k]) \union {Nobody} /\ m.ble \in Owners(Slug[k]) \union {Nobody}
  BY <1>1, KeyOfRadio
<1>7. m.usb # NoUsb => NoUsbOr(m, k) = m.usb.model  BY DEF NoUsbOr
<1>8. EntryTrue(m, Slug[k], NoUsbOr(m, k))
  BY <1>2, <1>3, <1>5, <1>6, <1>7 DEF EntryTrue
<1>9. NoUsbOr(m, k) \in MdlFields
  <2>1. CASE m.usb # NoUsb
    <3>1. m.usb \in Candidate  BY <1>1, <2>1 DEF SweepTypeOK
    <3>2. m.usb.model \in DOMAIN Models  BY <3>1 DEF Candidate
    <3> QED BY <1>7, <2>1, <3>2 DEF MdlFields
  <2>2. CASE m.usb = NoUsb
    <3>1. PICK d \in bt \union ble : k = Attr[d].name  BY <1>4, <2>2
    <3>2. d \in Devices  BY DEF SweepTypeOK
    <3>3. k \in Seq(STRING)  BY <3>1, <3>2, DevicesAssumption
    <3>4. NoUsbOr(m, k) = BtModelForName(k)  BY <2>2 DEF NoUsbOr
    <3> QED BY <3>3, <3>4, ModelType
  <2> QED BY <2>1, <2>2
<1> QED BY <1>8, <1>9 DEF m

\* Where two keys are joined there is one key of USB only.
LEMMA OneUsbKey ==
  ASSUME SeenTrue, Merges, NEW j \in UsbOnly, NEW k \in UsbOnly
  PROVE  j = k
<1> DEFINE f == [u \in usb |-> UsbKey(u)]
           V == {f[u] : u \in usb}
<1>1. IsFiniteSet(usb)  BY DEF SeenTrue
<1>2. IsFiniteSet(V)
  <2> HIDE DEF f
  <2> QED BY <1>1, FiniteValues
<1>3. UsbOnly \in SUBSET V  BY DEF UsbOnly
<1>4. IsFiniteSet(UsbOnly)
  <2> HIDE DEF V
  <2> QED BY <1>2, <1>3, FS_Subset
<1>5. Cardinality(UsbOnly) = 1  BY DEF Merges, LeftOver
<1>6. \E x : UsbOnly = {x}  BY <1>4, <1>5, FS_Singleton
<1> QED BY <1>6

\* The queues of a sweep: each has a key it was made for, and its group is that
\* key's; the others stay as they were.
Makes(usbKey, btKey, lately, slugs, key) ==
  /\ Joined(usbKey, btKey)
  /\ slugs = {Slug[k] : k \in Keys \ {usbKey}}
  /\ \A s \in slugs : key[s] \in Keys \ {usbKey} /\ Slug[key[s]] = s
  /\ DOMAIN map' = DOMAIN map \union slugs
  /\ DOMAIN out' = DOMAIN out \union slugs
  /\ \A s \in slugs : map'[s] = Group(key[s], usbKey, btKey, lately)
  /\ \A s \in slugs : out'[s] = NoUsbOr(map'[s], key[s])
  /\ \A s \in DOMAIN map \ slugs : map'[s] = map[s]
  /\ \A s \in DOMAIN out \ slugs : out'[s] = out[s]

LEMMA JoinQueues ==
  ASSUME Join
  PROVE  \E usbKey, btKey, lately, slugs, key : Makes(usbKey, btKey, lately, slugs, key)
<1>1. PICK usbKey \in (IF Merges THEN UsbOnly ELSE {NoName}),
           btKey \in (IF Merges THEN BtOnly ELSE {NoName}),
           lately \in usb \union {NoUsb} :
     LET keys == Keys \ {usbKey}
         slugs == {Slug[k] : k \in keys}
         key == [s \in slugs |-> CHOOSE k \in keys : Slug[k] = s]
         group == [s \in slugs |-> Group(key[s], usbKey, btKey, lately)]
     IN /\ map' = [s \in DOMAIN map \union slugs |-> IF s \in slugs THEN group[s] ELSE map[s]]
        /\ out' = [s \in DOMAIN out \union slugs |->
                     IF s \notin slugs THEN out[s]
                     ELSE IF map'[s].usb # NoUsb THEN map'[s].usb.model
                     ELSE BtModelForName(key[s])]
  BY DEF Join
<1> DEFINE keys == Keys \ {usbKey}
           slugs == {Slug[k] : k \in keys}
           key == [s \in slugs |-> CHOOSE k \in keys : Slug[k] = s]
           group == [s \in slugs |-> Group(key[s], usbKey, btKey, lately)]
<1>2. /\ map' = [s \in DOMAIN map \union slugs |-> IF s \in slugs THEN group[s] ELSE map[s]]
      /\ out' = [s \in DOMAIN out \union slugs |->
                   IF s \notin slugs THEN out[s]
                   ELSE IF map'[s].usb # NoUsb THEN map'[s].usb.model
                   ELSE BtModelForName(key[s])]
  BY <1>1
<1>3. \A s \in slugs : key[s] \in keys /\ Slug[key[s]] = s
  <2>1. TAKE s \in slugs
  <2>2. \E k \in keys : Slug[k] = s  OBVIOUS
  <2>3. key[s] = CHOOSE k \in keys : Slug[k] = s  OBVIOUS
  <2> HIDE DEF key, keys
  <2> QED BY <2>2, <2>3
<1>4. \A s \in slugs : group[s] = Group(key[s], usbKey, btKey, lately)
  <2> HIDE DEF slugs, key
  <2> QED OBVIOUS
<1>5. Joined(usbKey, btKey)  BY <1>1 DEF Joined
<1>6. slugs = {Slug[k] : k \in Keys \ {usbKey}}  OBVIOUS
<1>7. \A s \in slugs : key[s] \in Keys \ {usbKey} /\ Slug[key[s]] = s  BY <1>3
<1> HIDE DEF keys, slugs, key, group
<1>8. DOMAIN map' = DOMAIN map \union slugs /\ DOMAIN out' = DOMAIN out \union slugs
  BY <1>2
<1>9. \A s \in slugs : map'[s] = Group(key[s], usbKey, btKey, lately)  BY <1>2, <1>4
<1>10. \A s \in slugs : out'[s] = NoUsbOr(map'[s], key[s])  BY <1>2 DEF NoUsbOr
<1>11. /\ \A s \in DOMAIN map \ slugs : map'[s] = map[s]
       /\ \A s \in DOMAIN out \ slugs : out'[s] = out[s]
  BY <1>2
<1>12. Makes(usbKey, btKey, lately, slugs, key)
  BY <1>5, <1>6, <1>7, <1>8, <1>9, <1>10, <1>11 DEF Makes
<1> QED BY <1>12

\* No key but k has its slug.
NoClash(k) == \A j \in Keys \ {k} : Slug[j] # Slug[k]

\* Where a candidate of USB is found in the map.
LEMMA UsbKept ==
  ASSUME SweepTypeOK, SeenTrue, NEW usbKey, NEW btKey, Joined(usbKey, btKey),
         NEW u \in usb, \A v \in usb \ {u} : UsbKey(v) # UsbKey(u), NEW lately,
         \A k \in (IF Merges /\ UsbKey(u) \in UsbOnly THEN BtOnly ELSE {UsbKey(u)}) : NoClash(k)
  PROVE  \E k \in Keys \ {usbKey} : NoClash(k) /\ Group(k, usbKey, btKey, lately).usb = u
<1>1. SUFFICES ASSUME NEW k \in Keys \ {usbKey}, NoClash(k),
                      UsbSource(k, usbKey, btKey) = UsbKey(u)
               PROVE  Group(k, usbKey, btKey, lately).usb = u
  <2>1. \E k \in Keys \ {usbKey} : NoClash(k) /\ UsbSource(k, usbKey, btKey) = UsbKey(u)
    <3>1. CASE Merges /\ UsbKey(u) \in UsbOnly
      <4>1. usbKey \in UsbOnly /\ btKey \in BtOnly  BY <3>1 DEF Joined
      <4>2. usbKey = UsbKey(u)  BY <3>1, <4>1, OneUsbKey
      <4>3. btKey \in Keys \ {usbKey}  BY <3>1, JoinedKeys
      <4>4. NoClash(btKey)  BY <3>1, <4>1
      <4>5. UsbSource(btKey, usbKey, btKey) = usbKey  BY DEF UsbSource
      <4> QED BY <4>2, <4>3, <4>4, <4>5
    <3>2. CASE ~ (Merges /\ UsbKey(u) \in UsbOnly)
      <4>1. NoClash(UsbKey(u))  BY <3>2
      <4>2. UsbKey(u) # usbKey
        <5>1. UsbKey(u) # NoName  BY KeyOfUsb
        <5> QED BY <5>1, <3>2 DEF Joined
      <4>3. UsbKey(u) \in Keys  BY KeyOfUsb
      <4>4. UsbKey(u) # btKey  BY JoinedKeys
      <4>5. UsbSource(UsbKey(u), usbKey, btKey) = UsbKey(u)  BY <4>4 DEF UsbSource
      <4> QED BY <4>1, <4>2, <4>3, <4>5
    <3> QED BY <3>1, <3>2
  <2> QED BY <2>1
<1> DEFINE m == Group(k, usbKey, btKey, lately)
<1>2. /\ m.usb \in usb => UsbKey(m.usb) = UsbSource(k, usbKey, btKey)
      /\ (\E v \in usb : UsbKey(v) = UsbSource(k, usbKey, btKey)) => m.usb \in usb
  BY GroupParts
<1> HIDE DEF m
<1>3. m.usb \in usb /\ UsbKey(m.usb) = UsbKey(u)  BY <1>1, <1>2
<1>4. m.usb = u  BY <1>3
<1> QED BY <1>4 DEF m

\* Where a candidate of Bluetooth or BLE is found in the map.
LEMMA RadioKept ==
  ASSUME SweepTypeOK, SeenTrue, NEW usbKey, NEW btKey, Joined(usbKey, btKey),
         NEW d \in bt \union ble, \A e \in (bt \union ble) \ {d} : Attr[e].name # Attr[d].name,
         NEW lately
  PROVE  LET k == Attr[d].name
             m == Group(k, usbKey, btKey, lately)
         IN  k \in Keys \ {usbKey} /\ d \in {m.bt, m.ble}
<1> DEFINE k == Attr[d].name
           B == {e \in bt : Attr[e].name = k}
           L == {e \in ble : Attr[e].name = k}
<1>1. k \in Keys \ {usbKey}  BY KeyOfRadio, JoinedKeys
<1>2. Group(k, usbKey, btKey, lately).bt = Last(B, Nobody, Nobody)  BY DEF Group
<1>3. Group(k, usbKey, btKey, lately).ble = Last(L, Nobody, Nobody)  BY DEF Group
<1>4. B \subseteq {d} /\ L \subseteq {d} /\ (d \in B \/ d \in L)  OBVIOUS
<1>5. Last(B, Nobody, Nobody) = d \/ Last(L, Nobody, Nobody) = d
  <2> HIDE DEF B, L
  <2> QED BY <1>4, LastIn
<1> QED BY <1>1, <1>2, <1>3, <1>5

\* A key that shares its slug with no other is the one its queue was made for.
LEMMA OwnQueue ==
  ASSUME NEW usbKey, NEW btKey, NEW lately, NEW slugs, NEW key,
         Makes(usbKey, btKey, lately, slugs, key),
         NEW k \in Keys \ {usbKey}, NoClash(k)
  PROVE  Slug[k] \in slugs /\ key[Slug[k]] = k
BY DEF Makes, NoClash

LEMMA JoinTypes ==
  ASSUME WorldTypeOK, SweepTypeOK, MapTypeOK, SeenTrue, MapTrue, Join
  PROVE  WorldTypeOK' /\ SweepTypeOK' /\ MapTypeOK' /\ MapTrue'
<1>1. PICK usbKey, btKey, lately, slugs, key : Makes(usbKey, btKey, lately, slugs, key)
  BY JoinQueues
<1>2. Joined(usbKey, btKey)  BY <1>1 DEF Makes
<1>3. ASSUME NEW s \in slugs
      PROVE  /\ s \in Slugs
             /\ map'[s] \in Transports /\ out'[s] \in MdlFields
             /\ EntryTrue(map'[s], s, out'[s])
  <2>1. key[s] \in Keys \ {usbKey} /\ Slug[key[s]] = s  BY <1>1 DEF Makes
  <2>2. map'[s] = Group(key[s], usbKey, btKey, lately) /\ out'[s] = NoUsbOr(map'[s], key[s])
    BY <1>1 DEF Makes
  <2>3. map'[s] \in Transports  BY <1>2, <2>2, GroupParts
  <2>4. EntryTrue(map'[s], s, out'[s]) /\ out'[s] \in MdlFields
    BY <1>2, <2>1, <2>2, GroupTrue
  <2>5. s \in Slugs  BY <2>1, KeysHaveSlugs DEF Slugs
  <2> QED BY <2>3, <2>4, <2>5
<1>4. /\ DOMAIN map' = DOMAIN map \union slugs /\ DOMAIN out' = DOMAIN out \union slugs
      /\ \A s \in DOMAIN map \ slugs : map'[s] = map[s]
      /\ \A s \in DOMAIN out \ slugs : out'[s] = out[s]
  BY <1>1 DEF Makes
<1>5. MapTypeOK'  BY <1>3, <1>4 DEF MapTypeOK
<1>6. MapTrue'  BY <1>3, <1>4 DEF MapTrue
<1>7. WorldTypeOK' /\ SweepTypeOK'
  BY DEF Join, WorldTypeOK, SweepTypeOK, worldVars
<1> QED BY <1>5, <1>6, <1>7

\* The join loses none: the sets it is stated of are as before it.
LEMMA JoinKeeps ==
  ASSUME WorldTypeOK, SweepTypeOK, SeenTrue, Join
  PROVE  NothingLost'
<1>1. PICK usbKey, btKey, lately, slugs, key : Makes(usbKey, btKey, lately, slugs, key)
  BY JoinQueues
<1>2. Joined(usbKey, btKey)  BY <1>1 DEF Makes
<1>3. ASSUME NEW k \in Keys \ {usbKey}, NoClash(k)
      PROVE  Slug[k] \in DOMAIN map' /\ map'[Slug[k]] = Group(k, usbKey, btKey, lately)
  <2>1. Slug[k] \in slugs /\ key[Slug[k]] = k  BY <1>1, <1>3, OwnQueue
  <2>2. \A s \in slugs : s \in DOMAIN map' /\ map'[s] = Group(key[s], usbKey, btKey, lately)
    BY <1>1 DEF Makes
  <2> QED BY <2>1, <2>2
<1>4. ASSUME NEW u \in usb, \A v \in usb \ {u} : UsbKey(v) # UsbKey(u),
             \A k \in (IF Merges /\ UsbKey(u) \in UsbOnly THEN BtOnly ELSE {UsbKey(u)}) : NoClash(k)
      PROVE  \E s \in DOMAIN map' : map'[s].usb = u
  <2>1. PICK k \in Keys \ {usbKey} : NoClash(k) /\ Group(k, usbKey, btKey, lately).usb = u
    BY <1>2, <1>4, UsbKept
  <2> QED BY <1>3, <2>1
<1>5. ASSUME NEW d \in bt \union ble,
             \A e \in (bt \union ble) \ {d} : Attr[e].name # Attr[d].name,
             NoClash(Attr[d].name)
      PROVE  \E s \in DOMAIN map' : d \in {map'[s].bt, map'[s].ble}
  <2>1. /\ Attr[d].name \in Keys \ {usbKey}
        /\ d \in {Group(Attr[d].name, usbKey, btKey, lately).bt,
                  Group(Attr[d].name, usbKey, btKey, lately).ble}
    BY <1>2, <1>5, RadioKept
  <2> QED BY <1>3, <1>5, <2>1
<1>6. usb' = usb /\ bt' = bt /\ ble' = ble  BY DEF Join
<1>7. Keys' = Keys  BY <1>6 DEF Keys
<1>8. UsbOnly' = UsbOnly /\ BtOnly' = BtOnly  BY <1>6, <1>7 DEF UsbOnly, BtOnly
<1>9. Merges' = Merges  BY <1>8 DEF Merges, LeftOver
<1> QED BY <1>4, <1>5, <1>6, <1>7, <1>8, <1>9 DEF NothingLost, NoClash

-----------------------------------------------------------------------------
(* The invariant *)

LEMMA InitIInv == Init => IInv
<1> SUFFICES ASSUME Init PROVE IInv  OBVIOUS
<1>1. WorldTypeOK
  BY SweepBoundsAssumption DEF Init, WorldTypeOK, BlueZ
<1>2. SweepTypeOK /\ MapTypeOK /\ MapTrue  BY DEF Init, SweepTypeOK, MapTypeOK, MapTrue
<1>3. Apart  BY DEF Init, Apart
<1>4. SeenTrue  BY FS_EmptySet DEF Init, SeenTrue
<1>5. NothingLost  BY DEF Init, NothingLost
<1> QED BY <1>1, <1>2, <1>3, <1>4, <1>5 DEF IInv, TypeOK

\* What is stated of the sweep and the map follows them only.
LEMMA SweepUnchanged ==
  ASSUME SweepTypeOK, MapTypeOK, SeenTrue, MapTrue, NothingLost,
         UNCHANGED <<sweepVars, map, out>>
  PROVE  SweepTypeOK' /\ MapTypeOK' /\ SeenTrue' /\ MapTrue' /\ NothingLost'
<1>1. UNCHANGED <<phase, found, topair, usb, bt, ble, map, out>>  BY DEF sweepVars
<1>2. SweepTypeOK' /\ MapTypeOK'  BY <1>1 DEF SweepTypeOK, MapTypeOK
<1>3. SeenTrue' /\ MapTrue'  BY <1>1 DEF SeenTrue, MapTrue
<1>4. Keys' = Keys  BY <1>1 DEF Keys
<1>5. UsbOnly' = UsbOnly /\ BtOnly' = BtOnly  BY <1>1, <1>4 DEF UsbOnly, BtOnly
<1>6. Merges' = Merges  BY <1>5 DEF Merges, LeftOver
<1>7. NothingLost'  BY <1>1, <1>4, <1>5, <1>6 DEF NothingLost
<1> QED BY <1>2, <1>3, <1>7

LEMMA NextIInv == IInv /\ [Next]_vars => IInv'
<1> SUFFICES ASSUME IInv, [Next]_vars PROVE IInv'  OBVIOUS
<1>0. WorldTypeOK /\ SweepTypeOK /\ MapTypeOK /\ Apart /\ SeenTrue /\ MapTrue /\ NothingLost
  BY DEF IInv, TypeOK
<1>1. ASSUME NEW d \in Devices, Plug(d) \/ Unplug(d) PROVE IInv'
  <2>1. WorldTypeOK' /\ Apart'  BY <1>0, <1>1, MoveApart
  <2>2. UNCHANGED <<sweepVars, map, out>>  BY <1>1 DEF Plug, Unplug
  <2>3. SweepTypeOK' /\ MapTypeOK' /\ SeenTrue' /\ MapTrue' /\ NothingLost'
    BY <1>0, <2>2, SweepUnchanged
  <2> QED BY <2>1, <2>3 DEF IInv, TypeOK
<1>2. CASE BeginSweep
  <2>1. WorldTypeOK' /\ SweepTypeOK' /\ SeenTrue'  BY <1>0, <1>2, ScanTrue
  <2>2. UNCHANGED <<node, map, out>> /\ phase' = "probe"  BY <1>2 DEF BeginSweep, worldVars
  <2>3. MapTypeOK' /\ MapTrue' /\ Apart'  BY <1>0, <2>2 DEF MapTypeOK, MapTrue, Apart
  <2>4. NothingLost'  BY <2>2 DEF NothingLost
  <2> QED BY <2>1, <2>3, <2>4 DEF IInv, TypeOK
<1>3. CASE Probe
  <2>1. SweepTypeOK' /\ SeenTrue'  BY <1>0, <1>3, ProbeTrue
  <2>2. UNCHANGED <<worldVars, sweeps, phase, map, out>> /\ phase = "probe"  BY <1>3 DEF Probe
  <2>3. WorldTypeOK' /\ MapTypeOK' /\ MapTrue' /\ Apart'
    BY <1>0, <2>2 DEF worldVars, WorldTypeOK, MapTypeOK, MapTrue, Apart
  <2>4. NothingLost'  BY <2>2 DEF NothingLost
  <2> QED BY <2>1, <2>3, <2>4 DEF IInv, TypeOK
<1>4. CASE Inquiry \/ AutoPair \/ Report \/ LeScan
  <2>1. /\ WorldTypeOK' /\ SweepTypeOK'
        /\ UNCHANGED <<node, found, usb, map, out>> /\ phase' # "idle"
    BY <1>0, <1>4, RadioTypes
  <2>2. MapTypeOK' /\ MapTrue' /\ Apart' /\ SeenTrue'
    BY <1>0, <2>1 DEF MapTypeOK, MapTrue, Apart, SeenTrue
  <2>3. NothingLost'  BY <2>1 DEF NothingLost
  <2> QED BY <2>1, <2>2, <2>3 DEF IInv, TypeOK
<1>5. CASE Join
  <2>1. WorldTypeOK' /\ SweepTypeOK' /\ MapTypeOK' /\ MapTrue'  BY <1>0, <1>5, JoinTypes
  <2>2. NothingLost'  BY <1>0, <1>5, JoinKeeps
  <2>3. UNCHANGED <<node, found, usb>>  BY <1>5 DEF Join, worldVars
  <2>4. Apart' /\ SeenTrue'  BY <1>0, <2>3 DEF Apart, SeenTrue
  <2> QED BY <2>1, <2>2, <2>4 DEF IInv, TypeOK
<1>6. CASE Restart
  <2>1. /\ upsets < MaxUpsets /\ upsets' = upsets + 1 /\ phase' = "idle"
        /\ found' = {} /\ topair' = {} /\ usb' = {} /\ bt' = {} /\ ble' = {} /\ map' = <<>>
        /\ UNCHANGED <<node, bluez, sweeps, out>>
    BY <1>6 DEF Restart
  <2>2. WorldTypeOK'  BY <1>0, <2>1, SweepBoundsAssumption DEF WorldTypeOK
  <2>3. SweepTypeOK' /\ MapTypeOK' /\ MapTrue' /\ Apart'
    BY <1>0, <2>1 DEF SweepTypeOK, MapTypeOK, MapTrue, Apart
  <2>4. SeenTrue'  BY <2>1, FS_EmptySet DEF SeenTrue
  <2>5. NothingLost'  BY <2>1 DEF NothingLost
  <2> QED BY <2>2, <2>3, <2>4, <2>5 DEF IInv, TypeOK
<1>7. CASE UNCHANGED vars
  <2>1. UNCHANGED <<node, bluez, upsets, sweeps, sweepVars, map, out>>
    BY <1>7 DEF vars, worldVars
  <2>2. SweepTypeOK' /\ MapTypeOK' /\ SeenTrue' /\ MapTrue' /\ NothingLost'
    BY <1>0, <2>1, SweepUnchanged
  <2>3. WorldTypeOK' /\ Apart'  BY <1>0, <2>1 DEF WorldTypeOK, Apart, sweepVars
  <2> QED BY <2>2, <2>3 DEF IInv, TypeOK
<1> QED BY <1>1, <1>2, <1>3, <1>4, <1>5, <1>6, <1>7 DEF Next

-----------------------------------------------------------------------------
(* What follows from it *)

\* A queue reaches the printer it is named for: that of its Bluetooth entries, and
\* over USB the one probed, or unanswered the one scanned.
LEMMA ReachesRight == IInv => RightPrinter
<1> SUFFICES ASSUME IInv, NEW s \in Owned
             PROVE  /\ ByRadio(s) \subseteq Owners(s)
                    /\ \A q \in ByCable(s) :
                         \/ q \in Owners(s)
                         \/ map[s].lone
                         \/ q # map[s].usb.probed
                         \/ map[s].usb.name = NoName /\ map[s].usb.scanned # map[s].usb.probed
  BY DEF RightPrinter
<1> DEFINE m == map[s]
<1>1. s \in DOMAIN map /\ Cardinality(Owners(s)) = 1  BY DEF Owned, Unshared
<1>2. EntryTrue(m, s, out[s]) /\ m \in Transports
  BY <1>1 DEF IInv, TypeOK, MapTypeOK, MapTrue
<1>3. ByRadio(s) = {m.bt, m.ble} \ {Nobody}  BY DEF ByRadio
<1>4. ByCable(s) = IF m.usb = NoUsb THEN {} ELSE {Occupant(m.usb.path)} \ {Nobody}
  BY DEF ByCable
<1> HIDE DEF m
<1>5. ByRadio(s) \subseteq Owners(s)  BY <1>2, <1>3 DEF EntryTrue
<1>6. ASSUME NEW q \in ByCable(s), m.lone # TRUE, q = m.usb.probed,
             m.usb.name # NoName \/ m.usb.scanned = m.usb.probed
      PROVE  q \in Owners(s)
  <2>1. m.usb # NoUsb /\ q = Occupant(m.usb.path) /\ q # Nobody  BY <1>4
  <2>2. q \in Devices
    <3>1. Occupant(m.usb.path) \in Devices \union {Nobody}  BY OccupantOf
    <3> QED BY <2>1, <3>1
  <2>3. m.lone = FALSE  BY <1>2, <1>6 DEF Transports
  <2>4. Slug[UsbKey(m.usb)] = s /\ Sighted(m.usb) /\ Answered(m.usb)
    BY <1>2, <2>1, <2>3 DEF EntryTrue
  <2>5. CASE m.usb.name # NoName
    BY <1>6, <2>2, <2>4, <2>5 DEF UsbKey, Answered, Owners
  <2>6. CASE m.usb.name = NoName
    <3>1. Slug[Attr[q].serial] = s /\ Attr[q].pid \in DOMAIN Models
      BY <1>6, <2>4, <2>6 DEF UsbKey, Sighted, Supvans
    <3>2. Owners(s) # {}  BY <1>1, FS_EmptySet
    <3>3. PICK d \in Devices : Slug[Attr[d].name] = s  BY <3>2 DEF Owners
    <3>4. q = d  BY <2>2, <3>1, <3>3, DevicesAssumption
    <3> QED BY <3>3, <3>4 DEF Owners
  <2> QED BY <2>5, <2>6
<1> QED BY <1>5, <1>6 DEF m

\* A queue gets its printer's family: the model in its device id is that of the
\* printer scanned, or comes of its advertised name.
LEMMA DrivesRight == IInv => RightFamily
<1> SUFFICES ASSUME IInv, NEW s \in Owned, NEW d \in Owners(s), map[s].lone # TRUE,
                    map[s].usb.scanned = map[s].usb.probed,
                    ~ (map[s].usb = NoUsb /\ Matching(out[s]) = {})
             PROVE  FamilyForModelHint(out[s]) = Attr[d].family
  BY DEF RightFamily
<1> DEFINE m == map[s]
<1>1. s \in DOMAIN map /\ Cardinality(Owners(s)) = 1  BY DEF Owned, Unshared
<1>2. EntryTrue(m, s, out[s]) /\ m \in Transports
  BY <1>1 DEF IInv, TypeOK, MapTypeOK, MapTrue
<1>3. \A e \in Owners(s) : e = d
  <2>1. IsFiniteSet(Owners(s))  BY DevicesAssumption, FS_Subset DEF Owners
  <2>2. \E x : Owners(s) = {x}  BY <1>1, <2>1, FS_Singleton
  <2> QED BY <2>2
<1>4. m.lone = FALSE  BY <1>2 DEF Transports
<1>5. m.usb.scanned = m.usb.probed /\ ~ (m.usb = NoUsb /\ Matching(out[s]) = {})  OBVIOUS
<1> HIDE DEF m
<1>6. CASE m.usb = NoUsb
  <2>1. PICK e \in Owners(s) : out[s] = BtModelForName(Attr[e].name)
    BY <1>2, <1>6 DEF EntryTrue
  <2>2. e = d /\ d \in Devices  BY <1>3, <2>1 DEF Owners
  <2>3. Matching(BtModelForName(Attr[d].name)) # {}  BY <1>5, <1>6, <2>1, <2>2
  <2> QED BY <2>1, <2>2, <2>3, FamilyOverBluetooth
<1>7. CASE m.usb # NoUsb
  <2>1. /\ Sighted(m.usb) /\ Answered(m.usb) /\ out[s] = m.usb.model
        /\ Slug[UsbKey(m.usb)] = s
    BY <1>2, <1>4, <1>7 DEF EntryTrue
  <2> DEFINE e == m.usb.scanned
  <2>2. e \in Supvans /\ e \in Devices /\ Attr[e].pid \in DOMAIN Models
    BY <2>1 DEF Sighted, Supvans
  <2>3. e = d
    <3>1. CASE m.usb.name # NoName
      <4>1. m.usb.probed \in Owners(s)  BY <2>1, <3>1 DEF UsbKey, Answered, Owners
      <4> QED BY <1>3, <1>5, <4>1
    <3>2. CASE m.usb.name = NoName
      <4>1. Slug[Attr[e].serial] = s  BY <2>1, <3>2 DEF UsbKey, Sighted
      <4>2. d \in Devices /\ Slug[Attr[d].name] = s  BY DEF Owners
      <4> QED BY <2>2, <4>1, <4>2, DevicesAssumption
    <3> QED BY <3>1, <3>2
  <2>4. out[s] = Attr[e].pid  BY <2>1 DEF Sighted
  <2> QED BY <2>2, <2>3, <2>4, FamilyOverUsb
<1> QED BY <1>6, <1>7

LEMMA Inductive == Spec => []IInv
BY InitIInv, NextIInv, PTL DEF Spec

\* Nodes, BlueZ's knowledge, candidates, transports and models have their types;
\* a queue's model comes from the registry.
THEOREM TypeCorrect == Spec => []TypeOK
<1>1. IInv => TypeOK  BY DEF IInv
<1> QED BY <1>1, Inductive, PTL

\* open_supvan leads by radio to the printer a queue is named for, and by cable but
\* for a node that has changed hands or two printers left over.
THEOREM ReachesItsPrinter == Spec => []RightPrinter
BY ReachesRight, Inductive, PTL

\* driver_for_device gives a queue the driver of its printer's family.
THEOREM DrivesItsFamily == Spec => []RightFamily
BY DrivesRight, Inductive, PTL

\* list joins the transports without losing a candidate.
THEOREM LosesNothing == Spec => []NothingLost
<1>1. IInv => NothingLost  BY DEF IInv
<1> QED BY <1>1, Inductive, PTL
=============================================================================
