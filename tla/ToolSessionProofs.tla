-------------------------- MODULE ToolSessionProofs --------------------------
(***************************************************************************)
(* ToolSession for every list of opcodes and every number of commands,     *)
(* lost replies and errors: what a burned strip, an error, a listed opcode *)
(* and an answer of paper-back say.  The induction follows the replies the *)
(* tool has not read: how many there are, which command they answer and    *)
(* which of them were made before the error came up.                       *)
(***************************************************************************)
EXTENDS ToolSession, SequenceTheorems, TLAPS

\* What is left unread is as many replies as went astray, over BLE all of one opcode.
Unread ==
  /\ Len(late) <= slips
  /\ kind = "ble" => \A i \in 1..Len(late) : late[i].op = late[1].op

\* A record of ours that is on its way to the tool is the one served.
OursServed ==
  \A i \in 1..Len(late) :
    late[i].op = CMD_RETURN_MAT /\ late[i].says = "ours" => served = "ours"

\* Where another record was served, only the profile announced is on its way, and
\* it is in force once our record is served.
AtWrite ==
  pc \in {"confirm", "print"} /\ over # "ours" =>
    /\ pending \in {"none", Head(walk)}
    /\ served = "ours" => pending = "none" /\ heat = Head(walk)

TakenTrue == pc = "print" /\ said = "taken" /\ over # "ours" => served = "ours"

StripInv == OursServed /\ AtWrite /\ TakenTrue /\ StripsExplained

\* From the z-th on, what is unread answers a status inquiry and shows an error.
ShowsError(queue, z) ==
  \A i \in 1..Len(queue) :
    i > z => queue[i].op = CMD_INQUIRY_STA /\ HasError(queue[i].regs)

\* A reply that went astray lets an opcode through once: while it is out, or when
\* one made before the error is read in its place.
ErrorInv ==
  /\ ~HasError(regs) => after = 0
  /\ HasError(regs) /\ (kind # "usb" \/ slips = 0) =>
       \E z \in 0..Len(late) :
         /\ ShowsError(late, z)
         /\ after + z <= slips + (IF pc \in {"inquire", "idle"} THEN 1 ELSE 0)

\* The opcodes sent so far before a status is asked for are the control, the present
\* one not yet among them, and the first of the two that do not exist.
BlindBound ==
  /\ pc = "control" => blind = 0
  /\ pc = "calibrate" => blind <= 1 \/ (blind = 2 /\ todo[1] = 81)
  /\ blind <= 3

\* Where a command stands in the opcodes it asks to learn what does not exist.
AtCalibration ==
  /\ pc \in {"control", "calibrate"} =>
       \/ /\ todo = <<80, CMD_PAPER_BACK>> /\ baseline = Nothing
          /\ late = <<>> /\ slips = 0 /\ pc = "calibrate"
       \/ /\ Len(todo) >= 3 /\ todo[1] = 80 /\ todo[2] = 81
          /\ todo[3] \notin {80, 81, CMD_PAPER_BACK}
       \/ /\ Len(todo) >= 2 /\ todo[1] = 81 /\ pc = "calibrate"
          /\ todo[2] \notin {80, 81, CMD_PAPER_BACK}
  /\ pc \in {"before", "back"} =>
       /\ todo = <<CMD_PAPER_BACK>> /\ baseline.op = 80
       /\ \A i \in 1..Len(late) : late[i].op = CMD_INQUIRY_STA

\* With every reply in time the baseline is the answer of an opcode that does not
\* exist, with the registers as they were.
BaselineTrue ==
  /\ 80 \notin known /\ 81 \notin known
  /\ told \subseteq known /\ (kind # "usb" => told = known)
  /\ slips = 0 /\ baseline # Nothing =>
       baseline.says = "plain" /\ (changed \/ baseline.regs = regs)

ProbeInv == ErrorInv /\ BlindBound /\ AtCalibration /\ BaselineTrue /\ ListedRight /\ UnmovedIsTrue

IInv == TypeOK /\ Unread /\ StripInv /\ ProbeInv
-----------------------------------------------------------------------------
(* One exchange *)

LEMMA AppendReply ==
  ASSUME NEW q \in Seq(Replies), NEW r \in Replies
  PROVE  /\ Append(q, r) \in Seq(Replies) /\ Len(Append(q, r)) = Len(q) + 1
         /\ \A i \in 1..Len(q) : Append(q, r)[i] = q[i]
         /\ Append(q, r)[Len(q) + 1] = r
  OBVIOUS

LEMMA TailReply ==
  ASSUME NEW q \in Seq(Replies), q # <<>>
  PROVE  /\ Tail(q) \in Seq(Replies) /\ Len(q) >= 1 /\ Len(Tail(q)) = Len(q) - 1
         /\ \A i \in 1..Len(Tail(q)) : Tail(q)[i] = q[i + 1]
         /\ Head(q) = q[1] /\ Head(q) \in Replies
  OBVIOUS

\* What is left after a read that meets the queue left.
Rest(left) == IF left = <<>> \/ kind = "rfcomm" THEN <<>> ELSE Tail(left)

InTime(o, r, left) ==
  /\ o.slips = slips
  /\ o.got = IF left = <<>> THEN r ELSE Head(left)
  /\ o.late = IF left = <<>> \/ kind = "rfcomm" THEN <<>> ELSE Append(Tail(left), r)

Astray(o, r, left) ==
  /\ o.slips = slips + 1 /\ slips # MaxSlips
  /\ o.got = IF left = <<>> THEN Nothing ELSE Head(left)
  /\ o.late = Rest(left) \/ o.late = Append(Rest(left), r)

LEMMA ReadAfterAnswer ==
  ASSUME NEW left \in Seq(Replies), NEW r \in Replies
  PROVE  /\ left \o <<r>> # <<>>
         /\ Head(left \o <<r>>) = IF left = <<>> THEN r ELSE Head(left)
         /\ left = <<>> => Tail(left \o <<r>>) = <<>>
         /\ left # <<>> => Tail(left \o <<r>>) = Append(Tail(left), r)
<1> DEFINE q == left \o <<r>>
<1>1. /\ q \in Seq(Replies) /\ Len(q) = Len(left) + 1
      /\ \A i \in 1..Len(left) : q[i] = left[i]
      /\ q[Len(left) + 1] = r
  OBVIOUS
<1>2. q # <<>> /\ Head(q) = q[1]
  BY <1>1
<1>3. Head(q) = IF left = <<>> THEN r ELSE Head(left)
  BY <1>1, <1>2, TailReply
<1>4. CASE left = <<>>
  <2>1. Len(Tail(q)) = 0 /\ Tail(q) \in Seq(Replies)
    BY <1>1, <1>2, <1>4, TailReply
  <2> QED
    BY <1>2, <1>3, <1>4, <2>1
<1>5. CASE left # <<>>
  <2> DEFINE t == Append(Tail(left), r)
  <2>1. /\ Tail(q) \in Seq(Replies) /\ Len(Tail(q)) = Len(left)
        /\ \A i \in 1..Len(left) : Tail(q)[i] = q[i + 1]
    BY <1>1, <1>2, TailReply
  <2>2. /\ Tail(left) \in Seq(Replies) /\ Len(left) >= 1 /\ Len(Tail(left)) = Len(left) - 1
        /\ \A i \in 1..(Len(left) - 1) : Tail(left)[i] = left[i + 1]
    BY <1>5, TailReply
  <2>3. /\ t \in Seq(Replies) /\ Len(t) = Len(left)
        /\ \A i \in 1..(Len(left) - 1) : t[i] = left[i + 1]
        /\ t[Len(left)] = r
    <3>1. Len(left) - 1 + 1 = Len(left)
      BY <2>2
    <3> QED
      BY <2>2, <3>1, AppendReply
  <2> HIDE DEF q, t
  <2>4. ASSUME NEW i \in 1..Len(left)
        PROVE  Tail(q)[i] = t[i]
    <3>1. CASE i = Len(left)
      BY <1>1, <2>1, <2>3, <3>1
    <3>2. CASE i # Len(left)
      <4>0. \A n \in Nat : \A k \in 1..n : k # n => k \in 1..(n - 1) /\ k + 1 \in 1..n
        OBVIOUS
      <4>1. i \in 1..(Len(left) - 1) /\ i + 1 \in 1..Len(left)
        BY <3>2, <4>0, LenProperties
      <4> QED
        BY <1>1, <2>1, <2>3, <4>1
    <3> QED
      BY <3>1, <3>2
  <2>5. Tail(q) = t
    BY <2>1, <2>3, <2>4, SeqEqual
  <2> QED
    BY <1>2, <1>3, <1>5, <2>5
<1> QED
  BY <1>4, <1>5

LEMMA LinkTypes ==
  ASSUME TypeOK
  PROVE  /\ late \in Seq(Replies) /\ Len(late) \in Nat
         /\ slips \in Nat /\ slips \in 0..MaxSlips /\ MaxSlips \in Nat
<1>1. late \in Seq(Replies) /\ slips \in 0..MaxSlips
  BY DEF TypeOK, LinkTypeOK, PrinterTypeOK, ProbeTypeOK
<1>2. MaxSlips \in Nat
  BY BoundsAssumption
<1>3. slips \in Nat
  BY <1>1, <1>2
<1> QED
  BY <1>1, <1>2, <1>3, LenProperties

\* An exchange reads what is unread, or the answer.
LEMMA OutcomeCases ==
  ASSUME TypeOK, NEW r \in Replies, NEW o \in Outcomes(r)
  PROVE  \E left \in {late, <<>>} :
           /\ kind = "usb" => left = late
           /\ kind = "ble" /\ left # <<>> => Head(left).op = r.op
           /\ InTime(o, r, left) \/ Astray(o, r, left)
<1> DEFINE inTime(left) == Read(left \o <<r>>)
           found(left) == Read(left)
<1>1. PICK left \in Leftovers(r.op) :
        o \in {[got |-> inTime(left).got, late |-> inTime(left).late, slips |-> slips]}
                \union
              (IF slips = MaxSlips THEN {}
               ELSE [got : {found(left).got}, late : {found(left).late, Append(found(left).late, r)},
                     slips : {slips + 1}])
  BY DEF Outcomes
<1>2. /\ left \in {late, <<>>}
      /\ kind = "usb" => left = late
      /\ kind = "ble" /\ left # <<>> => Head(left).op = r.op
  <2>1. kind \in {"usb", "rfcomm", "ble"}
    BY DEF TypeOK, LinkTypeOK, PrinterTypeOK, ProbeTypeOK
  <2>2. CASE kind = "usb"
    BY <1>1, <2>2 DEF Leftovers
  <2>3. CASE kind = "rfcomm"
    BY <1>1, <2>3 DEF Leftovers
  <2>4. CASE kind = "ble"
    BY <1>1, <2>4 DEF Leftovers
  <2> QED
    BY <2>1, <2>2, <2>3, <2>4
<1>3. left \in Seq(Replies)
  <2>1. late \in Seq(Replies)
    BY DEF TypeOK, LinkTypeOK, PrinterTypeOK, ProbeTypeOK
  <2>2. <<>> \in Seq(Replies)
    OBVIOUS
  <2> QED
    BY <1>2, <2>1, <2>2
<1>4. CASE o = [got |-> inTime(left).got, late |-> inTime(left).late, slips |-> slips]
  <2>1. InTime(o, r, left)
    BY <1>3, <1>4, ReadAfterAnswer DEF InTime, Read
  <2> QED
    BY <1>2, <2>1
<1>5. CASE /\ slips # MaxSlips
           /\ o \in [got : {found(left).got}, late : {found(left).late, Append(found(left).late, r)},
                     slips : {slips + 1}]
  <2>1. Astray(o, r, left)
    BY <1>5 DEF Astray, Read, Rest
  <2> QED
    BY <1>2, <2>1
<1> QED
  BY <1>1, <1>4, <1>5

LEMMA OutcomeTypes ==
  ASSUME TypeOK, NEW r \in Replies, NEW o \in Outcomes(r)
  PROVE  /\ o.got \in Replies \union {Nothing} /\ o.late \in Seq(Replies)
         /\ o.slips \in 0..MaxSlips /\ o.slips \in {slips, slips + 1}
<1>1. PICK left \in {late, <<>>} : InTime(o, r, left) \/ Astray(o, r, left)
  BY OutcomeCases
<1>2. late \in Seq(Replies) /\ slips \in 0..MaxSlips /\ MaxSlips \in Nat
  BY BoundsAssumption DEF TypeOK, LinkTypeOK, PrinterTypeOK, ProbeTypeOK
<1>3. <<>> \in Seq(Replies)
  OBVIOUS
<1>4. left \in Seq(Replies)
  BY <1>1, <1>2, <1>3
<1>5. Rest(left) \in Seq(Replies) /\ Append(Rest(left), r) \in Seq(Replies)
  BY <1>3, <1>4, TailReply, AppendReply DEF Rest
<1>6. left # <<>> => Append(Tail(left), r) \in Seq(Replies) /\ Head(left) \in Replies
  BY <1>4, TailReply, AppendReply
<1>7. CASE InTime(o, r, left)
  BY <1>2, <1>3, <1>6, <1>7 DEF InTime
<1>8. CASE Astray(o, r, left)
  <2>1. o.got \in Replies \union {Nothing} /\ o.late \in Seq(Replies)
    BY <1>5, <1>6, <1>8 DEF Astray
  <2>2. \A m \in Nat : \A n \in 0..m : n # m => n + 1 \in 0..m
    OBVIOUS
  <2>3. o.slips \in 0..MaxSlips /\ o.slips \in {slips, slips + 1}
    BY <1>2, <1>8, <2>2 DEF Astray
  <2> QED
    BY <2>1, <2>3
<1> QED
  BY <1>1, <1>7, <1>8

\* What is unread after an exchange, and what was read, was unread before or is
\* the answer.
LEMMA OutcomeEntries ==
  ASSUME TypeOK, NEW r \in Replies, NEW o \in Outcomes(r)
  PROVE  /\ \A i \in 1..Len(o.late) : o.late[i] = r \/ \E j \in 1..Len(late) : o.late[i] = late[j]
         /\ o.got \in {r, Nothing} \/ \E j \in 1..Len(late) : o.got = late[j]
<1>1. PICK left \in {late, <<>>} : InTime(o, r, left) \/ Astray(o, r, left)
  BY OutcomeCases
<1>2. late \in Seq(Replies)
  BY DEF TypeOK, LinkTypeOK, PrinterTypeOK, ProbeTypeOK
<1>3. <<>> \in Seq(Replies)
  OBVIOUS
<1>4. CASE left = <<>>
  <2>1. Append(<<>>, r) = <<r>>
    OBVIOUS
  <2>2. o.late = <<>> \/ o.late = <<r>>
    BY <1>1, <1>4, <2>1 DEF InTime, Astray, Rest
  <2>3. \A i \in 1..Len(o.late) : o.late[i] = r
    BY <2>2
  <2>4. o.got \in {r, Nothing}
    BY <1>1, <1>4 DEF InTime, Astray
  <2> QED
    BY <2>3, <2>4
<1>5. CASE left = late /\ late # <<>>
  <2> DEFINE Old(q) == \A i \in 1..Len(q) : \E j \in 1..Len(late) : q[i] = late[j]
  <2>1. /\ Tail(late) \in Seq(Replies) /\ Len(late) >= 1 /\ Len(Tail(late)) = Len(late) - 1
        /\ \A i \in 1..Len(Tail(late)) : Tail(late)[i] = late[i + 1]
        /\ Head(late) = late[1]
    BY <1>2, <1>5, TailReply
  <2>2. Len(late) \in Nat
    BY <1>2, LenProperties
  <2>3. \A n \in Nat : \A k \in 1..(n - 1) : k + 1 \in 1..n
    OBVIOUS
  <2>4. Old(Tail(late)) /\ Old(<<>>)
    BY <2>1, <2>2, <2>3
  <2>5. Rest(left) \in Seq(Replies) /\ Old(Rest(left))
    BY <1>3, <1>5, <2>1, <2>4 DEF Rest
  <2>6. \E j \in 1..Len(late) : o.got = late[j]
    <3>1. 1 \in 1..Len(late)
      BY <2>1, <2>2
    <3> QED
      BY <1>1, <1>5, <2>1, <3>1 DEF InTime, Astray
  <2>7. \/ o.late = <<>> \/ o.late = Rest(left)
        \/ \E q \in Seq(Replies) : Old(q) /\ o.late = Append(q, r)
    BY <1>1, <1>5, <2>1, <2>4, <2>5 DEF InTime, Astray
  <2>8. ASSUME NEW q \in Seq(Replies), Old(q)
        PROVE  \A i \in 1..Len(Append(q, r)) :
                 Append(q, r)[i] = r \/ \E j \in 1..Len(late) : Append(q, r)[i] = late[j]
    <3>1. /\ Len(Append(q, r)) = Len(q) + 1 /\ Append(q, r)[Len(q) + 1] = r
          /\ \A i \in 1..Len(q) : Append(q, r)[i] = q[i]
      BY AppendReply
    <3>2. \A n \in Nat : \A i \in 1..(n + 1) : i = n + 1 \/ i \in 1..n
      OBVIOUS
    <3>3. Len(q) \in Nat
      BY LenProperties
    <3> QED
      BY <2>8, <3>1, <3>2, <3>3
  <2>9. \A i \in 1..Len(o.late) : o.late[i] = r \/ \E j \in 1..Len(late) : o.late[i] = late[j]
    <3>1. CASE o.late = <<>>
      <4>1. \A i \in 1..Len(o.late) : FALSE
        BY <3>1
      <4> QED
        BY <4>1
    <3>2. CASE o.late = Rest(left)
      BY <2>5, <3>2
    <3>3. CASE \E q \in Seq(Replies) : Old(q) /\ o.late = Append(q, r)
      BY <2>8, <3>3
    <3> QED
      BY <2>7, <3>1, <3>2, <3>3
  <2> QED
    BY <2>6, <2>9
<1> QED
  BY <1>1, <1>4, <1>5

\* How many replies an exchange leaves unread.
LEMMA OutcomeLength ==
  ASSUME TypeOK, NEW r \in Replies, NEW left \in {late, <<>>}, NEW o,
         InTime(o, r, left) \/ Astray(o, r, left)
  PROVE  /\ InTime(o, r, left) => Len(o.late) <= Len(late)
         /\ Astray(o, r, left) => Len(o.late) <= Len(late) + 1
         /\ Astray(o, r, left) /\ left # <<>> => Len(o.late) <= Len(late)
<1>1. late \in Seq(Replies) /\ Len(late) \in Nat
  BY LenProperties DEF TypeOK, LinkTypeOK, PrinterTypeOK, ProbeTypeOK
<1>2. Len(<<>>) = 0 /\ Len(<<r>>) = 1 /\ Append(<<>>, r) = <<r>>
  OBVIOUS
<1>3. CASE left = <<>>
  <2>1. InTime(o, r, left) => o.late = <<>>
    BY <1>3 DEF InTime
  <2>2. Astray(o, r, left) => o.late = <<>> \/ o.late = <<r>>
    BY <1>2, <1>3 DEF Astray, Rest
  <2>3. \A n \in Nat : 0 <= n /\ 0 <= n + 1 /\ 1 <= n + 1
    OBVIOUS
  <2> QED
    BY <1>1, <1>2, <1>3, <2>1, <2>2, <2>3
<1>4. CASE left = late /\ late # <<>>
  <2>1. /\ Tail(late) \in Seq(Replies) /\ Len(late) >= 1 /\ Len(Tail(late)) = Len(late) - 1
        /\ Len(Append(Tail(late), r)) = Len(late) - 1 + 1
    BY <1>1, <1>4, TailReply, AppendReply
  <2>2. InTime(o, r, left) => o.late \in {<<>>, Append(Tail(late), r)}
    BY <1>4 DEF InTime
  <2>3. Astray(o, r, left) => o.late \in {<<>>, <<r>>, Tail(late), Append(Tail(late), r)}
    BY <1>2, <1>4 DEF Astray, Rest
  <2>4. /\ Len(<<>>) <= Len(late) /\ Len(<<r>>) <= Len(late) /\ Len(Tail(late)) <= Len(late)
        /\ Len(Append(Tail(late), r)) <= Len(late)
    BY <1>1, <1>2, <2>1
  <2>5. \A m, n \in Nat : m <= n => m <= n + 1
    OBVIOUS
  <2>6. o.late \in Seq(Replies) => Len(o.late) \in Nat
    BY LenProperties
  <2>7. <<>> \in Seq(Replies) /\ <<r>> \in Seq(Replies) /\ Append(Tail(late), r) \in Seq(Replies)
    BY <2>1, AppendReply
  <2> QED
    BY <1>1, <2>1, <2>2, <2>3, <2>4, <2>5, <2>6, <2>7
<1> QED
  BY <1>3, <1>4

LEMMA OutcomeUnread ==
  ASSUME TypeOK, Unread, NEW r \in Replies, NEW o \in Outcomes(r)
  PROVE  /\ Len(o.late) <= o.slips
         /\ kind = "ble" => \A i \in 1..Len(o.late) : o.late[i].op = o.late[1].op
<1>1. PICK left \in {late, <<>>} :
        /\ kind = "ble" /\ left # <<>> => Head(left).op = r.op
        /\ InTime(o, r, left) \/ Astray(o, r, left)
  BY OutcomeCases
<1>2. Len(o.late) <= o.slips
  <2>1. Len(late) \in Nat /\ slips \in Nat /\ Len(late) <= slips
    BY LinkTypes DEF Unread
  <2>2. o.late \in Seq(Replies) /\ Len(o.late) \in Nat
    BY OutcomeTypes, LenProperties
  <2>3. CASE InTime(o, r, left)
    <3>1. Len(o.late) <= Len(late) /\ o.slips = slips
      BY <2>3, OutcomeLength DEF InTime
    <3> QED
      BY <2>1, <2>2, <3>1
  <2>4. CASE Astray(o, r, left)
    <3>1. Len(o.late) <= Len(late) + 1 /\ o.slips = slips + 1
      BY <2>4, OutcomeLength DEF Astray
    <3> QED
      BY <2>1, <2>2, <3>1
  <2> QED
    BY <1>1, <2>3, <2>4
<1>3. ASSUME kind = "ble"
      PROVE  \A i \in 1..Len(o.late) : o.late[i].op = r.op
  <2>1. CASE left = <<>>
    <3>1. o.late = <<>> \/ o.late = <<r>>
      <4>1. Append(<<>>, r) = <<r>>
        OBVIOUS
      <4> QED
        BY <1>1, <2>1, <4>1 DEF InTime, Astray, Rest
    <3> QED
      BY <3>1
  <2>2. CASE left = late /\ late # <<>>
    <3>1. Len(late) >= 1 /\ Head(late) = late[1]
      BY <2>2, TailReply DEF TypeOK, LinkTypeOK, PrinterTypeOK, ProbeTypeOK
    <3>2. \A j \in 1..Len(late) : late[j].op = r.op
      BY <1>1, <1>3, <2>2, <3>1 DEF Unread
    <3> QED
      BY <3>2, OutcomeEntries
  <2> QED
    BY <1>1, <2>1, <2>2
<1>4. ASSUME kind = "ble", NEW i \in 1..Len(o.late)
      PROVE  o.late[i].op = o.late[1].op
  <2>1. Len(o.late) \in Nat
    BY OutcomeTypes, LenProperties
  <2>2. 1 \in 1..Len(o.late)
    BY <2>1
  <2> QED
    BY <1>3, <1>4, <2>2
<1> QED
  BY <1>2, <1>4

\* With no reply astray an exchange returns its own answer.
LEMMA OutcomeInTime ==
  ASSUME TypeOK, Unread, NEW r \in Replies, NEW o \in Outcomes(r), o.slips = 0
  PROVE  o.got = r /\ o.late = <<>> /\ slips = 0 /\ late = <<>>
<1>1. PICK left \in {late, <<>>} : InTime(o, r, left) \/ Astray(o, r, left)
  BY OutcomeCases
<1>2. slips \in Nat /\ late \in Seq(Replies)
  BY LinkTypes
<1>3. InTime(o, r, left) /\ slips = 0
  BY <1>1, <1>2 DEF InTime, Astray
<1>4. Len(late) = 0
  BY <1>2, <1>3, LenProperties DEF Unread
<1>5. late = <<>>
  BY <1>2, <1>4, EmptySeq
<1> QED
  BY <1>1, <1>3, <1>5 DEF InTime

LEMMA AnswerIsSome == \A m \in Replies : m # Nothing
<1>1. \A m \in Replies : m.says # "nothing"
  BY DEF Replies, Records
<1>2. Nothing.says = "nothing"
  BY DEF Nothing
<1> QED
  BY <1>1, <1>2

\* While an error is up, an exchange brings the first reply that shows it as much
\* nearer, or replies go astray; a status inquiry that does not find it has used
\* up one made before, or had its own go astray.
LEMMA OutcomeError ==
  ASSUME TypeOK, Unread, kind # "usb",
         NEW r \in Replies, NEW o \in Outcomes(r), HasError(r.regs),
         NEW z \in 0..Len(late), ShowsError(late, z)
  PROVE  \E y \in 0..Len(o.late) :
           /\ ShowsError(o.late, y)
           /\ y + slips <= z + o.slips
           /\ \/ r.op # CMD_INQUIRY_STA
              \/ o.got # Nothing /\ o.got.op = CMD_INQUIRY_STA /\ HasError(o.got.regs)
              \/ y + 1 + slips <= z + o.slips
<1> DEFINE Seen == o.got # Nothing /\ o.got.op = CMD_INQUIRY_STA /\ HasError(o.got.regs)
           Shown(q, y) == /\ y \in 0..Len(q) /\ ShowsError(q, y)
                          /\ y + slips <= z + o.slips
                          /\ r.op # CMD_INQUIRY_STA \/ Seen \/ y + 1 + slips <= z + o.slips
<1>1. PICK left \in {late, <<>>} :
        /\ kind = "ble" /\ left # <<>> => Head(left).op = r.op
        /\ InTime(o, r, left) \/ Astray(o, r, left)
  BY OutcomeCases
<1>2. /\ late \in Seq(Replies) /\ Len(late) \in Nat /\ slips \in Nat /\ z \in Nat
      /\ z <= Len(late)
  BY LinkTypes
<1>3. Len(<<>>) = 0 /\ Len(<<r>>) = 1 /\ <<r>>[1] = r /\ Append(<<>>, r) = <<r>>
  OBVIOUS
<1>4. r # Nothing
  BY AnswerIsSome
<1>5. ShowsError(<<>>, 0) /\ ShowsError(<<r>>, 1)
  BY <1>3 DEF ShowsError
<1>6. r.op = CMD_INQUIRY_STA => ShowsError(<<r>>, 0)
  BY <1>3 DEF ShowsError
<1>7. late # <<>> =>
        /\ Len(late) >= 1 /\ Head(late) = late[1] /\ late[1] \in Replies /\ late[1] # Nothing
        /\ z = 0 => late[1].op = CMD_INQUIRY_STA /\ HasError(late[1].regs)
  <2>1. ASSUME late # <<>>
        PROVE  Len(late) >= 1 /\ Head(late) = late[1] /\ late[1] \in Replies
    BY <1>2, <2>1, TailReply
  <2>2. \A m \in Replies : m # Nothing
    BY AnswerIsSome
  <2>3. ASSUME late # <<>>, z = 0
        PROVE  late[1].op = CMD_INQUIRY_STA /\ HasError(late[1].regs)
    BY <1>2, <2>1, <2>3 DEF ShowsError
  <2> QED
    BY <2>1, <2>2, <2>3
<1>8. left # <<>> => left = late /\ Head(left) = late[1] /\ (z = 0 => Seen \/ o.got # late[1])
  BY <1>1, <1>7
\* Nothing is unread after the exchange.
<1>9. CASE o.late = <<>>
  <2>1. /\ o.slips = slips \/ o.slips = slips + 1
        /\ o.slips = slips => (o.got = r \/ (o.got = late[1] /\ late # <<>>))
    <3>1. slips # slips + 1
      BY <1>2
    <3>2. left # <<>> => Head(left) = late[1] /\ late # <<>>
      BY <1>8
    <3>3. InTime(o, r, left) => o.slips = slips /\ (o.got = r \/ (o.got = late[1] /\ late # <<>>))
      <4>1. CASE left = <<>>
        BY <4>1 DEF InTime
      <4>2. CASE left # <<>>
        BY <3>2, <4>2 DEF InTime
      <4> QED
        BY <4>1, <4>2
    <3>4. Astray(o, r, left) => o.slips = slips + 1
      BY DEF Astray
    <3> QED
      BY <1>1, <3>1, <3>3, <3>4
  <2>2. o.slips = slips /\ o.got = r /\ r.op = CMD_INQUIRY_STA => Seen
    BY <1>4
  <2>3. o.slips = slips /\ o.got # r => Seen \/ z >= 1
    BY <1>2, <1>7, <2>1
  <2>4. Shown(o.late, 0)
    <3>1. 0 \in 0..Len(o.late) /\ ShowsError(o.late, 0)
      BY <1>3, <1>5, <1>9
    <3>2. 0 + slips <= z + o.slips
      BY <1>2, <2>1
    <3>3. r.op # CMD_INQUIRY_STA \/ Seen \/ 0 + 1 + slips <= z + o.slips
      <4>1. CASE o.slips = slips + 1
        BY <1>2, <4>1
      <4>2. CASE o.slips = slips /\ z >= 1
        BY <1>2, <4>2
      <4> QED
        BY <1>2, <2>1, <2>2, <2>3, <4>1, <4>2
    <3> QED
      BY <3>1, <3>2, <3>3
  <2> QED
    BY <2>4
\* Only the answer is, which went astray.
<1>10. CASE o.late = <<r>> /\ o.slips = slips + 1
  <2>1. CASE r.op = CMD_INQUIRY_STA
    <3>1. ShowsError(o.late, 0) /\ 0 \in 0..Len(o.late)
      BY <1>3, <1>6, <1>10, <2>1
    <3>2. 0 + slips <= z + o.slips /\ 0 + 1 + slips <= z + o.slips
      BY <1>2, <1>10
    <3> QED
      BY <3>1, <3>2
  <2>2. CASE r.op # CMD_INQUIRY_STA
    <3>1. ShowsError(o.late, 1) /\ 1 \in 0..Len(o.late)
      BY <1>3, <1>5, <1>10
    <3>2. 1 + slips <= z + o.slips
      BY <1>2, <1>10
    <3> QED
      BY <2>2, <3>1, <3>2
  <2> QED
    BY <2>1, <2>2
\* BLE: the first is read, and the others are left, all of the opcode asked.
<1>11. CASE /\ kind = "ble" /\ left = late /\ late # <<>>
            /\ o.got = late[1]
            /\ \/ o.late = Append(Tail(late), r) /\ o.slips \in {slips, slips + 1}
               \/ o.late = Tail(late) /\ o.slips = slips + 1
  <2>1. /\ Tail(late) \in Seq(Replies) /\ Len(Tail(late)) = Len(late) - 1
        /\ \A i \in 1..(Len(late) - 1) : Tail(late)[i] = late[i + 1]
    BY <1>2, <1>11, TailReply
  <2>2. /\ Len(Append(Tail(late), r)) = Len(late)
        /\ \A i \in 1..(Len(late) - 1) : Append(Tail(late), r)[i] = late[i + 1]
        /\ Append(Tail(late), r)[Len(late)] = r
    <3>1. Len(late) - 1 + 1 = Len(late)
      BY <1>2
    <3> QED
      BY <2>1, <3>1, AppendReply
  <2>3. \A i \in 1..Len(late) : late[i].op = r.op
    BY <1>1, <1>7, <1>11 DEF Unread
  <2>4. CASE r.op = CMD_INQUIRY_STA
    <3> DEFINE y == IF z = 0 THEN 0 ELSE z - 1
    <3>1. y \in Nat /\ y <= Len(late) - 1 /\ y <= z /\ (z >= 1 => y = z - 1)
      BY <1>2, <1>7, <1>11
    <3>2. ASSUME NEW i \in 1..(Len(late) - 1), i > y
          PROVE  late[i + 1].op = CMD_INQUIRY_STA /\ HasError(late[i + 1].regs)
      <4>1. i + 1 \in 1..Len(late) /\ i + 1 > z
        BY <1>2, <3>1, <3>2
      <4> QED
        BY <4>1 DEF ShowsError
    <3>3. ShowsError(Tail(late), y)
      BY <2>1, <3>2 DEF ShowsError
    <3>4. ShowsError(Append(Tail(late), r), y)
      <4>1. \A i \in 1..Len(late) : i = Len(late) \/ i \in 1..(Len(late) - 1)
        BY <1>2
      <4> QED
        BY <2>2, <2>4, <3>2, <4>1 DEF ShowsError
    <3>5. y \in 0..Len(Tail(late)) /\ y \in 0..Len(Append(Tail(late), r))
      BY <1>2, <2>1, <2>2, <3>1
    <3>6. y + slips <= z + o.slips
      BY <1>2, <1>11, <3>1
    <3>7. Seen \/ y + 1 + slips <= z + o.slips
      <4>1. CASE z = 0
        BY <1>7, <1>11, <4>1
      <4>2. CASE z >= 1
        BY <1>2, <1>11, <3>1, <4>2
      <4> QED
        BY <1>2, <4>1, <4>2
    <3> HIDE DEF y
    <3> QED
      BY <1>11, <3>3, <3>4, <3>5, <3>6, <3>7
  <2>5. CASE r.op # CMD_INQUIRY_STA
    <3>1. z = Len(late)
      <4>1. SUFFICES ASSUME z < Len(late) PROVE FALSE
        BY <1>2
      <4>2. Len(late) \in 1..Len(late) /\ Len(late) > z
        BY <1>2, <4>1
      <4> QED
        BY <2>3, <2>5, <4>2 DEF ShowsError
    <3>2. /\ Len(o.late) \in Nat /\ Len(o.late) <= Len(late) /\ o.slips \in Nat /\ slips <= o.slips
      BY <1>2, <1>11, <2>1, <2>2
    <3>3. ShowsError(o.late, Len(o.late)) /\ Len(o.late) \in 0..Len(o.late)
      BY <3>2 DEF ShowsError
    <3>4. Len(o.late) + slips <= z + o.slips
      BY <1>2, <3>1, <3>2
    <3> QED
      BY <2>5, <3>3, <3>4
  <2> QED
    BY <2>4, <2>5
<1>12. kind \in {"rfcomm", "ble"}
  BY DEF TypeOK, LinkTypeOK, PrinterTypeOK, ProbeTypeOK
<1> QED
  <2>1. CASE left = <<>> \/ kind = "rfcomm"
    <3>1. InTime(o, r, left) => o.late = <<>>
      BY <2>1 DEF InTime
    <3>2. Astray(o, r, left) => o.slips = slips + 1 /\ (o.late = <<>> \/ o.late = <<r>>)
      <4>1. Rest(left) = <<>>
        BY <2>1 DEF Rest
      <4> QED
        BY <1>3, <4>1 DEF Astray
    <3> QED
      BY <1>1, <1>9, <1>10, <3>1, <3>2
  <2>2. CASE left # <<>> /\ kind = "ble"
    <3>1. /\ left = late /\ late # <<>> /\ Head(late) = late[1]
          /\ kind # "rfcomm"
      BY <1>1, <1>7, <2>2
    <3>2. /\ o.got = late[1]
          /\ \/ o.late = Append(Tail(late), r) /\ o.slips \in {slips, slips + 1}
             \/ o.late = Tail(late) /\ o.slips = slips + 1
      BY <1>1, <3>1 DEF InTime, Astray, Rest
    <3> QED
      BY <1>11, <2>2, <3>1, <3>2
  <2> QED
    BY <1>12, <2>1, <2>2

-----------------------------------------------------------------------------
(* Opcodes and replies *)

LEMMA ReplyType ==
  ASSUME TypeOK, NEW op \in Opcodes, NEW says \in Records \union {"its own", "plain"}
  PROVE  Reply(op, says) \in Replies
<1>1. regs \in SUBSET Bits
  BY DEF TypeOK, LinkTypeOK, PrinterTypeOK, ProbeTypeOK
<1> QED
  BY <1>1 DEF Reply, Replies

LEMMA OpcodesInRange ==
  /\ CMD_INQUIRY_STA \in Opcodes /\ CMD_CHECK_DEVICE \in Opcodes /\ CMD_PAPER_SKIP \in Opcodes
  /\ CMD_RETURN_MAT \in Opcodes /\ CMD_SET_RFID_DATA \in Opcodes /\ CMD_PAPER_BACK \in Opcodes
  /\ 80 \in Opcodes /\ 81 \in Opcodes
BY DEF Opcodes, CMD_INQUIRY_STA, CMD_CHECK_DEVICE, CMD_PAPER_SKIP, CMD_RETURN_MAT,
       CMD_SET_RFID_DATA, CMD_PAPER_BACK

LEMMA RepliesToCommands ==
  ASSUME TypeOK
  PROVE  /\ Reply(CMD_SET_RFID_DATA, "plain") \in Replies
         /\ Reply(CMD_RETURN_MAT, served) \in Replies
         /\ Reply(CMD_CHECK_DEVICE, "plain") \in Replies
         /\ Reply(CMD_INQUIRY_STA, "plain") \in Replies
         /\ Reply(CMD_PAPER_SKIP, "plain") \in Replies
         /\ \A op \in Opcodes : Answer(op) \in Replies
<1>1. served \in Records
  BY DEF TypeOK, LinkTypeOK, PrinterTypeOK, ProbeTypeOK
<1>2. \A op \in Opcodes : Answer(op) \in Replies
  BY ReplyType DEF Answer
<1> QED
  BY <1>1, <1>2, ReplyType, OpcodesInRange

LEMMA UnallocatedOps == Range(UNALLOCATED) = {80, 81} /\ UNALLOCATED[1] = 80 /\ UNALLOCATED[2] = 81
<1>1. DOMAIN UNALLOCATED = 1..2
  BY DEF UNALLOCATED
<1>2. UNALLOCATED[1] = 80 /\ UNALLOCATED[2] = 81
  BY DEF UNALLOCATED
<1>3. 1..2 = {1, 2}
  OBVIOUS
<1> QED
  BY <1>1, <1>2, <1>3 DEF Range

LEMMA ConcatThree ==
  ASSUME NEW u \in Seq(Opcodes), Len(u) = 2, NEW q \in Seq(Opcodes), Len(q) >= 1,
         NEW also \in Seq(Opcodes)
  PROVE  LET list == u \o q \o also
         IN  /\ list \in Seq(Opcodes) /\ Len(list) >= 3
             /\ list[1] = u[1] /\ list[2] = u[2] /\ list[3] = q[1]
<1> DEFINE two == u \o q
<1>0. two \in Seq(Opcodes) /\ Len(two) = Len(u) + Len(q)
  BY ConcatProperties
<1>1. two \in Seq(Opcodes) /\ Len(two) = 2 + Len(q) /\ Len(q) \in Nat /\ Len(also) \in Nat
  BY <1>0, LenProperties
<1>2. 1 \in 1..2 /\ 2 \in 1..2 /\ 1 \in 1..Len(q) /\ 2 + 1 = 3
  BY <1>1
<1>3. two[1] = u[1] /\ two[2] = u[2] /\ two[2 + 1] = q[1]
  <2>1. \A i \in 1..(Len(u) + Len(q)) : two[i] = IF i <= Len(u) THEN u[i] ELSE q[i - Len(u)]
    BY ConcatProperties
  <2> HIDE DEF two
  <2>2. 1 \in 1..(2 + Len(q)) /\ 2 \in 1..(2 + Len(q)) /\ 3 \in 1..(2 + Len(q)) /\ 3 - 2 = 1
    BY <1>1
  <2> QED
    BY <1>2, <2>1, <2>2
<1> HIDE DEF two
<1>4. 1 \in 1..Len(two) /\ 2 \in 1..Len(two) /\ 3 \in 1..Len(two)
  BY <1>1, <1>2
<1>5. /\ two \o also \in Seq(Opcodes) /\ Len(two \o also) = Len(two) + Len(also)
      /\ \A i \in 1..3 : (two \o also)[i] = two[i]
  <2>1. /\ two \o also \in Seq(Opcodes) /\ Len(two \o also) = Len(two) + Len(also)
        /\ \A i \in 1..(Len(two) + Len(also)) :
             (two \o also)[i] = IF i <= Len(two) THEN two[i] ELSE also[i - Len(two)]
    <3>1. two \in Seq(Opcodes)
      BY <1>1
    <3> QED
      BY <3>1, ConcatProperties
  <2>2. \A i \in 1..3 : i \in 1..(Len(two) + Len(also)) /\ i <= Len(two)
    BY <1>1
  <2> QED
    BY <2>1, <2>2
<1>6. Len(two \o also) >= 3
  BY <1>1, <1>5
<1> QED
  BY <1>2, <1>3, <1>4, <1>5, <1>6 DEF two

\* What probe-reads has to ask: the two that do not exist, and at least one more.
LEMMA ProbeList ==
  ASSUME NEW also \in Seq(Opcodes)
  PROVE  LET list == UNALLOCATED \o READS \o also
         IN  /\ list \in Seq(Opcodes) /\ Len(list) >= 3
             /\ list[1] = 80 /\ list[2] = 81 /\ list[3] \notin {80, 81, CMD_PAPER_BACK}
<1>1. UNALLOCATED \in Seq(Opcodes) /\ Len(UNALLOCATED) = 2
  BY OpcodesInRange DEF UNALLOCATED
<1>2. READS \in Seq(Opcodes) /\ READS # <<>>
  BY OpsAssumption
<1>3. Len(READS) \in Nat /\ Len(READS) >= 1
  BY <1>2, LenProperties, EmptySeq
<1>4. READS[1] \notin {80, 81, CMD_PAPER_BACK}
  <2>1. 1 \in DOMAIN READS
    BY <1>2, <1>3, LenProperties
  <2> QED
    BY <2>1, OpsAssumption, UnallocatedOps
<1> QED
  BY <1>1, <1>2, <1>3, <1>4, ConcatThree, UnallocatedOps

LEMMA FirstOp ==
  ASSUME NEW q \in Seq(Opcodes), Len(q) >= 1
  PROVE  q # <<>> /\ Head(q) = q[1]
  OBVIOUS

\* The opcodes at hand and to come while the baseline is learnt.
LEMMA CalibrationStep ==
  ASSUME TypeOK, AtCalibration, pc = "calibrate"
  PROVE  /\ todo \in Seq(Opcodes) /\ todo # <<>> /\ Head(todo) = todo[1] /\ todo[1] \in {80, 81}
         /\ Tail(todo) \in Seq(Opcodes) /\ Tail(todo) # <<>>
         /\ Head(Tail(todo)) = todo[2] /\ Len(Tail(todo)) = Len(todo) - 1
         /\ Len(Tail(todo)) >= 1
         /\ \A i \in 1..(Len(todo) - 1) : Tail(todo)[i] = todo[i + 1]
<1>1. todo \in Seq(Opcodes) /\ Len(todo) \in Nat
  <2>1. todo \in Seq(Opcodes)
    BY DEF TypeOK, LinkTypeOK, PrinterTypeOK, ProbeTypeOK
  <2> QED
    BY <2>1, LenProperties
<1>2. Len(todo) >= 2 /\ todo[1] \in {80, 81}
  <2>1. CASE todo = <<80, CMD_PAPER_BACK>>
    BY <2>1
  <2>2. CASE Len(todo) >= 3 /\ todo[1] = 80
    BY <1>1, <2>2
  <2>3. CASE Len(todo) >= 2 /\ todo[1] = 81
    BY <2>3
  <2> QED
    BY <2>1, <2>2, <2>3 DEF AtCalibration
<1>3. todo # <<>> /\ Head(todo) = todo[1]
  BY <1>1, <1>2
<1>4. /\ Tail(todo) \in Seq(Opcodes) /\ Len(Tail(todo)) = Len(todo) - 1
      /\ \A i \in 1..(Len(todo) - 1) : Tail(todo)[i] = todo[i + 1]
  BY <1>1, <1>3
<1>5. Len(Tail(todo)) >= 1 /\ Tail(todo) # <<>> /\ Head(Tail(todo)) = todo[2]
  <2>1. Len(Tail(todo)) >= 1 /\ 1 \in 1..(Len(todo) - 1)
    BY <1>1, <1>2, <1>4
  <2>2. Tail(todo)[1] = todo[2]
    BY <1>4, <2>1
  <2>3. Tail(todo) # <<>> /\ Head(Tail(todo)) = Tail(todo)[1]
    BY <1>4, <2>1, FirstOp
  <2> QED
    BY <2>1, <2>2, <2>3
<1> QED
  BY <1>1, <1>2, <1>3, <1>4, <1>5

-----------------------------------------------------------------------------
(* Types *)

LEMMA ZeroInBounds ==
  0 \in 0..MaxCommands /\ 0 \in 0..MaxSlips /\ 0 \in 0..MaxFaults /\ 0 \in 0..(SETTLE_POLLS - 1)
<1>1. MaxCommands \in Nat /\ MaxSlips \in Nat /\ MaxFaults \in Nat /\ SETTLE_POLLS \in Nat \ {0}
  BY BoundsAssumption
<1> QED
  BY <1>1

LEMMA TypeInit == Init => TypeOK
<1> SUFFICES ASSUME Init PROVE TypeOK
  OBVIOUS
<1>1. READS \in Seq(Opcodes)
  BY OpsAssumption
<1>2. Range(READS) \subseteq Opcodes
  BY <1>1, RangeOfSeq
<1>3. known \subseteq Opcodes
  BY <1>2, OpcodesInRange DEF Init
<1>4. PrinterTypeOK
  <2>1. served \in Records /\ heat = "tag" /\ pending = "none" /\ regs = {} /\ faults = 0
    BY DEF Init, Records
  <2>2. changed = FALSE /\ moved = FALSE /\ told \subseteq known
    BY DEF Init
  <2> QED
    BY <1>3, <2>1, <2>2, ZeroInBounds DEF PrinterTypeOK
<1>5. LinkTypeOK
  BY ZeroInBounds DEF Init, LinkTypeOK
<1>6. SweepTypeOK
  <2>1. walk = <<>> /\ strip = FALSE /\ polls = 0 /\ strips = <<>> /\ said = "warned" /\ pc = "idle"
    BY DEF Init
  <2>2. over \in Records
    BY DEF Init, Records
  <2> QED
    <3>1. walk \in Seq(Heats) /\ strips \in Seq(Strip)
      BY <2>1
    <3> QED
      BY <2>1, <2>2, <3>1, ZeroInBounds DEF SweepTypeOK
<1>7. ProbeTypeOK
  BY DEF Init, ProbeTypeOK
<1>8. commands \in 0..MaxCommands /\ pc = "idle"
  BY ZeroInBounds DEF Init
<1> QED
  BY <1>4, <1>5, <1>6, <1>7, <1>8 DEF TypeOK

\* What a step leaves alone keeps its type; the position only asks for something
\* of the part it is about.
LEMMA PrinterTypeSame == ASSUME PrinterTypeOK, UNCHANGED printerVars PROVE PrinterTypeOK'
BY DEF PrinterTypeOK, printerVars

LEMMA LinkTypeSame == ASSUME LinkTypeOK, UNCHANGED linkVars PROVE LinkTypeOK'
BY DEF LinkTypeOK, linkVars

LEMMA SweepTypeSame ==
  ASSUME SweepTypeOK, UNCHANGED sweepVars, pc' = pc \/ pc' \notin {"announce", "confirm", "print"}
  PROVE  SweepTypeOK'
BY DEF SweepTypeOK, sweepVars

LEMMA ProbeTypeSame ==
  ASSUME ProbeTypeOK, UNCHANGED probeVars,
         \/ pc' = pc
         \/ pc' \notin {"calibrate", "ask", "inquire", "before", "back", "after"}
  PROVE  ProbeTypeOK'
BY DEF ProbeTypeOK, probeVars

\* An exchange leaves the link well typed.
LEMMA ExchangeType ==
  ASSUME TypeOK, NEW r \in Replies, NEW o \in Outcomes(r), Exchange(o)
  PROVE  LinkTypeOK'
<1>1. o.late \in Seq(Replies) /\ o.slips \in 0..MaxSlips
  BY OutcomeTypes
<1>2. kind \in {"usb", "rfcomm", "ble"}
  BY DEF TypeOK, LinkTypeOK
<1> QED
  BY <1>1, <1>2 DEF Exchange, LinkTypeOK

LEMMA SweepListsTyped ==
  /\ \A w \in Sweeps : w \in Seq(Heats) /\ w # <<>>
  /\ \A h \in Heats : <<h>> \in Seq(Heats) /\ <<h>> # <<>>
<1>1. \A w \in Sweeps : w \in Seq(Heats) /\ w # <<>>
  BY SweepsAssumption
<1>2. \A h \in Heats : <<h>> \in Seq(Heats) /\ <<h>> # <<>>
  OBVIOUS
<1> QED
  BY <1>1, <1>2

LEMMA WalkOn ==
  ASSUME NEW w \in Seq(Heats), w # <<>>
  PROVE  Head(w) \in Heats /\ Tail(w) \in Seq(Heats) /\ (Len(w) > 1 => Tail(w) # <<>>)
<1>1. Head(w) \in Heats /\ Tail(w) \in Seq(Heats) /\ Len(Tail(w)) = Len(w) - 1 /\ Len(w) \in Nat
  OBVIOUS
<1>2. Len(w) > 1 => Len(Tail(w)) # 0
  BY <1>1
<1> QED
  BY <1>1, <1>2, EmptySeq

\* A command that begins: the parts every one of them sets.
LEMMA BeginType ==
  ASSUME TypeOK, NEW first \in {"announce", "control", "calibrate", "skip"}, Begin(first),
         walk' \in Seq(Heats), todo' \in Seq(Opcodes), strip' \in BOOLEAN,
         first = "announce" => walk' # <<>>, first = "calibrate" => todo' # <<>>
  PROVE  TypeOK'
<1>1. PrinterTypeOK'
  BY DEF Begin, TypeOK, PrinterTypeOK
<1>2. LinkTypeOK'
  <2>1. late' = <<>> /\ slips' = 0 /\ kind' = kind
    BY DEF Begin
  <2>2. late' \in Seq(Replies) /\ slips' \in 0..MaxSlips
    BY <2>1, BoundsAssumption
  <2> QED
    BY <2>1, <2>2 DEF TypeOK, LinkTypeOK
<1>3. pc' \in {first, "idle"}
  BY DEF Begin
<1>4. SweepTypeOK'
  <2>1. polls' \in 0..(SETTLE_POLLS - 1)
    BY BoundsAssumption DEF Begin
  <2>2. strips' = <<>> /\ over' = over /\ said' = said
    BY DEF Begin
  <2> QED
    BY <1>3, <2>1, <2>2 DEF TypeOK, SweepTypeOK
<1>5. ProbeTypeOK'
  <2>1. baseline' = Nothing /\ asked' = {} /\ listed' = {} /\ verdict' = "none" /\ blind' = 0 /\ after' = 0
    BY DEF Begin
  <2> QED
    BY <1>3, <2>1 DEF ProbeTypeOK
<1>6. commands' \in 0..MaxCommands
  <2>1. commands \in 0..MaxCommands /\ MaxCommands \in Nat
    BY BoundsAssumption DEF TypeOK
  <2> QED
    BY <2>1 DEF Begin
<1> QED
  BY <1>1, <1>2, <1>3, <1>4, <1>5, <1>6 DEF TypeOK

LEMMA TypeNext == TypeOK /\ AtCalibration /\ [Next]_vars => TypeOK'
<1> SUFFICES ASSUME TypeOK, AtCalibration, [Next]_vars
             PROVE  TypeOK'
  OBVIOUS
<1>0. PrinterTypeOK /\ LinkTypeOK /\ SweepTypeOK /\ ProbeTypeOK
  BY DEF TypeOK
<1>p. CASE Provision
  <2>1. Begin("announce") /\ strip' = FALSE /\ todo' = <<>>
    BY <1>p DEF Provision
  <2>2. walk' \in Seq(Heats) /\ walk' # <<>>
    BY <1>p, SweepListsTyped DEF Provision
  <2>3. todo' \in Seq(Opcodes)
    BY <2>1
  <2> QED
    BY <2>1, <2>2, <2>3, BeginType
<1>h. CASE HeatSweep
  <2>1. Begin("announce") /\ strip' = TRUE /\ todo' = <<>>
    BY <1>h DEF HeatSweep
  <2>2. walk' \in Seq(Heats) /\ walk' # <<>>
    BY <1>h, SweepListsTyped DEF HeatSweep
  <2>3. todo' \in Seq(Opcodes)
    BY <2>1
  <2> QED
    BY <2>1, <2>2, <2>3, BeginType
<1>r. CASE ProbeReads
  <2>1. PICK also \in Requested : todo' = UNALLOCATED \o READS \o also
    BY <1>r DEF ProbeReads
  <2>2. also \in Seq(Opcodes)
    BY OpsAssumption
  <2>3. todo' \in Seq(Opcodes)
    BY <2>1, <2>2, ProbeList
  <2>4. walk' = <<>> /\ strip' = FALSE /\ Begin("control")
    BY <1>r DEF ProbeReads
  <2>5. walk' \in Seq(Heats)
    BY <2>4
  <2> QED
    BY <2>3, <2>4, <2>5, BeginType
<1>b. CASE PaperBack
  <2>1. todo' = <<80, CMD_PAPER_BACK>>
    BY <1>b, UnallocatedOps DEF PaperBack
  <2>2. todo' \in Seq(Opcodes) /\ todo' # <<>>
    BY <2>1, OpcodesInRange
  <2>3. walk' = <<>> /\ strip' = FALSE /\ Begin("calibrate")
    BY <1>b DEF PaperBack
  <2>4. walk' \in Seq(Heats)
    BY <2>3
  <2> QED
    BY <2>2, <2>3, <2>4, BeginType
<1>f. CASE Feed
  <2>1. Begin("skip") /\ strip' = FALSE /\ todo' = <<>> /\ walk' = <<>>
    BY <1>f DEF Feed
  <2>2. todo' \in Seq(Opcodes) /\ walk' \in Seq(Heats)
    BY <2>1
  <2> QED
    BY <2>1, <2>2, BeginType
<1>1. CASE Announce
  <2>1. LinkTypeOK'
    BY <1>0, <1>1, ExchangeType, LinkTypeSame, RepliesToCommands DEF Announce
  <2>2. walk \in Seq(Heats) /\ walk # <<>>
    BY <1>0, <1>1 DEF Announce, SweepTypeOK
  <2>3. PrinterTypeOK'
    <3>1. Head(walk) \in Heats
      BY <2>2
    <3>2. pending' \in {Head(walk), pending} /\ UNCHANGED <<served, heat, regs, faults, known, told, moved, changed>>
      BY <1>1 DEF Announce
    <3> QED
      BY <1>0, <3>1, <3>2 DEF PrinterTypeOK
  <2>4. SweepTypeOK'
    <3>1. /\ over' \in {served, "ours"} /\ UNCHANGED <<walk, strip, strips>>
          /\ polls' \in {polls, 0} /\ said' \in {said, "warned"}
      BY <1>1 DEF Announce, Provisioned
    <3>2. over' \in Records
      BY <1>0, <3>1 DEF PrinterTypeOK, Records
    <3>3. polls' \in 0..(SETTLE_POLLS - 1)
      BY <1>0, <3>1, BoundsAssumption DEF SweepTypeOK
    <3> QED
      BY <1>0, <2>2, <3>1, <3>2, <3>3 DEF SweepTypeOK
  <2>5. pc' \in {"idle", "confirm", "print"} /\ commands' = commands /\ UNCHANGED probeVars
    BY <1>1 DEF Announce, Provisioned, Return
  <2>6. ProbeTypeOK'
    BY <1>0, <2>5, ProbeTypeSame
  <2> QED
    BY <2>1, <2>3, <2>4, <2>5, <2>6 DEF TypeOK
<1>2. CASE Confirm
  <2>1. LinkTypeOK'
    BY <1>0, <1>2, ExchangeType, LinkTypeSame, RepliesToCommands DEF Confirm
  <2>2. /\ pc' \in {"idle", "confirm", "print"} /\ said' \in {said, "taken", "warned"} /\ pc = "confirm"
        /\ UNCHANGED <<printerVars, commands, walk, strip, over, strips, probeVars>>
    BY <1>2 DEF Confirm, Provisioned, Return
  <2>3. polls' \in 0..(SETTLE_POLLS - 1)
    <3>1. polls' = polls \/ polls' = 0 \/ (polls # SETTLE_POLLS - 1 /\ polls' = polls + 1)
      BY <1>2 DEF Confirm, Provisioned
    <3>2. polls \in 0..(SETTLE_POLLS - 1)
      BY <1>0 DEF SweepTypeOK
    <3>3. SETTLE_POLLS \in Nat \ {0}
      BY BoundsAssumption
    <3> QED
      BY <3>1, <3>2, <3>3
  <2>4. SweepTypeOK'
    BY <1>0, <2>2, <2>3 DEF SweepTypeOK
  <2>5. PrinterTypeOK' /\ ProbeTypeOK'
    BY <1>0, <2>2, PrinterTypeSame, ProbeTypeSame
  <2> QED
    BY <2>1, <2>2, <2>4, <2>5 DEF TypeOK
<1>3. CASE PrintStrip
  <2>1. walk \in Seq(Heats) /\ walk # <<>>
    BY <1>0, <1>3 DEF PrintStrip, SweepTypeOK
  <2>2. Head(walk) \in Heats /\ Tail(walk) \in Seq(Heats) /\ (Len(walk) > 1 => Tail(walk) # <<>>)
    BY <2>1, WalkOn
  <2>3. Burned \in Strip
    BY <1>0, <2>2 DEF Burned, Strip, SweepTypeOK, PrinterTypeOK
  <2>4. strips' \in Seq(Strip)
    <3>1. strips' = strips \/ strips' = Append(strips, Burned)
      BY <1>3 DEF PrintStrip
    <3>2. strips \in Seq(Strip)
      BY <1>0 DEF SweepTypeOK
    <3> QED
      BY <2>3, <3>1, <3>2, AppendProperties
  <2>5. /\ \/ pc' = "idle" /\ walk' \in {walk, Tail(walk)}
           \/ pc' = "announce" /\ walk' = Tail(walk) /\ Len(walk) > 1
        /\ UNCHANGED <<printerVars, linkVars, commands, strip, polls, over, said, probeVars>>
    BY <1>3 DEF PrintStrip, Return
  <2>6. SweepTypeOK'
    BY <1>0, <2>1, <2>2, <2>4, <2>5 DEF SweepTypeOK
  <2>7. PrinterTypeOK' /\ LinkTypeOK' /\ ProbeTypeOK'
    BY <1>0, <2>5, PrinterTypeSame, LinkTypeSame, ProbeTypeSame
  <2> QED
    BY <2>5, <2>6, <2>7 DEF TypeOK
<1>4. CASE Control
  <2>1. LinkTypeOK'
    BY <1>0, <1>4, ExchangeType, LinkTypeSame, RepliesToCommands DEF Control
  <2>2. /\ pc = "control" /\ pc' \in {"idle", "calibrate"}
        /\ blind' \in {blind, blind + 1}
        /\ UNCHANGED <<printerVars, commands, sweepVars, todo, baseline, asked, listed, verdict,
                       after>>
    BY <1>4 DEF Control, Return, SentBlind
  <2>3. todo # <<>>
    <3>1. Len(todo) >= 3
      BY <2>2 DEF AtCalibration
    <3> QED
      BY <3>1
  <2>4. ProbeTypeOK'
    <3>0. blind \in Nat
      BY <1>0 DEF ProbeTypeOK
    <3>1. blind' \in Nat
      BY <2>2, <3>0
    <3> QED
      BY <1>0, <2>2, <2>3, <3>1 DEF ProbeTypeOK
  <2>5. PrinterTypeOK' /\ SweepTypeOK'
    BY <1>0, <2>2, PrinterTypeSame, SweepTypeSame
  <2> QED
    BY <2>1, <2>2, <2>4, <2>5 DEF TypeOK
<1>5. CASE Calibrate
  <2>1. pc = "calibrate" /\ todo # <<>> /\ todo \in Seq(Opcodes) /\ Head(todo) \in Opcodes
    BY <1>5, CalibrationStep, OpcodesInRange DEF Calibrate
  <2>2. Answer(Head(todo)) \in Replies
    BY <2>1, RepliesToCommands
  <2>3. LinkTypeOK'
    BY <1>0, <1>5, <2>2, ExchangeType, LinkTypeSame DEF Calibrate
  <2>4. baseline' \in Replies \union {Nothing}
    BY <1>0, <1>5, <2>2, OutcomeTypes DEF Calibrate, ProbeTypeOK
  <2>5. todo' \in Seq(Opcodes) /\ todo' # <<>>
    BY <1>5, <2>1, CalibrationStep DEF Calibrate
  <2>6. /\ pc' \in {"idle", "calibrate", "before", "ask"}
        /\ pc' \in {"before", "ask"} => baseline' # Nothing
        /\ blind' \in {blind, blind + 1}
        /\ UNCHANGED <<printerVars, commands, sweepVars, asked, listed, verdict, after>>
    BY <1>5 DEF Calibrate, Return, Calibrated, SentBlind
  <2>7. ProbeTypeOK'
    <3>0. blind \in Nat
      BY <1>0 DEF ProbeTypeOK
    <3>1. blind' \in Nat
      BY <2>6, <3>0
    <3> QED
      BY <1>0, <2>4, <2>5, <2>6, <3>1 DEF ProbeTypeOK
  <2>8. PrinterTypeOK' /\ SweepTypeOK'
    BY <1>0, <2>6, PrinterTypeSame, SweepTypeSame
  <2> QED
    BY <2>3, <2>6, <2>7, <2>8 DEF TypeOK
<1>6. CASE Ask
  <2>1. todo \in Seq(Opcodes) /\ todo # <<>> /\ baseline # Nothing
    BY <1>0, <1>6 DEF Ask, ProbeTypeOK
  <2>2. Head(todo) \in Opcodes
    BY <2>1
  <2>3. LinkTypeOK'
    BY <1>0, <1>6, <2>2, ExchangeType, LinkTypeSame, RepliesToCommands DEF Ask
  <2>4. /\ pc' \in {"idle", "inquire"} /\ after' \in {after, after + 1}
        /\ asked' \in {asked, asked \union {Head(todo)}}
        /\ listed' \in {listed, listed \union {Head(todo)}}
        /\ listed' = listed \/ asked' = asked \union {Head(todo)}
        /\ UNCHANGED <<printerVars, commands, sweepVars, todo, baseline, verdict, blind>>
    BY <1>6 DEF Ask, Return, SentWithErrorUp
  <2>5. ProbeTypeOK'
    <3>1. listed \subseteq asked /\ asked \subseteq Opcodes /\ after \in Nat
      BY <1>0 DEF ProbeTypeOK
    <3>2. listed' \subseteq asked' /\ asked' \subseteq Opcodes
      BY <2>2, <2>4, <3>1
    <3>3. after' \in Nat
      BY <2>4, <3>1
    <3> QED
      BY <1>0, <2>1, <2>4, <3>2, <3>3 DEF ProbeTypeOK
  <2>6. PrinterTypeOK' /\ SweepTypeOK'
    BY <1>0, <2>4, PrinterTypeSame, SweepTypeSame
  <2> QED
    BY <2>3, <2>4, <2>5, <2>6 DEF TypeOK
<1>7. CASE Inquire
  <2>1. LinkTypeOK'
    BY <1>0, <1>7, ExchangeType, LinkTypeSame, RepliesToCommands DEF Inquire
  <2>2. todo \in Seq(Opcodes) /\ todo # <<>> /\ baseline # Nothing
    BY <1>0, <1>7 DEF Inquire, ProbeTypeOK
  <2>3. /\ (pc' = "idle" /\ todo' = todo) \/ (pc' \in {"idle", "ask"} /\ todo' = Tail(todo))
        /\ pc' = "ask" => todo' # <<>>
        /\ UNCHANGED <<printerVars, commands, sweepVars, baseline, asked, listed, verdict, blind,
                       after>>
    BY <1>7 DEF Inquire, Return, Onward
  <2>4. ProbeTypeOK'
    <3>1. Tail(todo) \in Seq(Opcodes)
      BY <2>2
    <3>2. todo' \in Seq(Opcodes)
      BY <2>2, <2>3, <3>1
    <3> QED
      BY <1>0, <2>2, <2>3, <3>2 DEF ProbeTypeOK
  <2>5. PrinterTypeOK' /\ SweepTypeOK'
    BY <1>0, <2>3, PrinterTypeSame, SweepTypeSame
  <2> QED
    BY <2>1, <2>3, <2>4, <2>5 DEF TypeOK
<1>8. CASE ShowStatus("before", "back") \/ ShowStatus("after", "idle")
  <2>1. LinkTypeOK'
    BY <1>0, <1>8, ExchangeType, LinkTypeSame, RepliesToCommands DEF ShowStatus
  <2>2. /\ pc' = "idle" \/ (pc = "before" /\ pc' = "back")
        /\ UNCHANGED <<printerVars, commands, sweepVars, probeVars>>
    BY <1>8 DEF ShowStatus, Return
  <2>3. ProbeTypeOK'
    BY <1>0, <2>2 DEF ProbeTypeOK, probeVars
  <2>4. PrinterTypeOK' /\ SweepTypeOK'
    BY <1>0, <2>2, PrinterTypeSame, SweepTypeSame
  <2> QED
    BY <2>1, <2>2, <2>3, <2>4 DEF TypeOK
<1>9. CASE SendPaperBack
  <2>1. LinkTypeOK'
    BY <1>0, <1>9, OpcodesInRange, ExchangeType, LinkTypeSame, RepliesToCommands DEF SendPaperBack
  <2>2. /\ pc = "back" /\ pc' \in {"idle", "after"}
        /\ (moved' = moved \/ moved' = (CMD_PAPER_BACK \in known))
        /\ verdict' \in {verdict, "no response", "nothing moved", "known"}
        /\ UNCHANGED <<served, heat, pending, regs, faults, known, told, changed, commands,
                       sweepVars, todo, baseline, asked, listed, blind, after>>
    BY <1>9 DEF SendPaperBack, Return
  <2>3. PrinterTypeOK'
    <3>1. moved' \in BOOLEAN
      <4>1. moved \in BOOLEAN
        BY <1>0 DEF PrinterTypeOK
      <4>2. CASE moved' = moved
        BY <4>1, <4>2
      <4>3. CASE moved' = (CMD_PAPER_BACK \in known)
        BY <4>3
      <4> QED
        BY <2>2, <4>2, <4>3
    <3> QED
      BY <1>0, <2>2, <3>1 DEF PrinterTypeOK
  <2>4. ProbeTypeOK'
    BY <1>0, <2>2 DEF ProbeTypeOK
  <2>5. SweepTypeOK'
    BY <1>0, <2>2, SweepTypeSame
  <2> QED
    BY <2>1, <2>2, <2>3, <2>4, <2>5 DEF TypeOK
<1>10. CASE SkipLabel
  <2>1. LinkTypeOK'
    BY <1>0, <1>10, ExchangeType, LinkTypeSame, RepliesToCommands DEF SkipLabel
  <2>2. pc' = "idle" /\ UNCHANGED <<printerVars, commands, sweepVars, probeVars>>
    BY <1>10 DEF SkipLabel, Return
  <2>3. PrinterTypeOK' /\ SweepTypeOK' /\ ProbeTypeOK'
    BY <1>0, <2>2, PrinterTypeSame, SweepTypeSame, ProbeTypeSame
  <2> QED
    BY <2>1, <2>2, <2>3 DEF TypeOK
<1>11. CASE Settle
  <2>1. UNCHANGED <<regs, faults, known, told, moved, changed, linkVars, commands, pc, sweepVars,
                  probeVars>>
    BY <1>11 DEF Settle
  <2>2. PrinterTypeOK'
    BY <1>0, <1>11 DEF Settle, PrinterTypeOK, Records
  <2>3. LinkTypeOK' /\ SweepTypeOK' /\ ProbeTypeOK'
    BY <1>0, <2>1, LinkTypeSame, SweepTypeSame, ProbeTypeSame
  <2> QED
    BY <2>1, <2>2, <2>3 DEF TypeOK
<1>12. CASE Disturb
  <2>1. faults' \in 0..MaxFaults
    <3>1. faults \in 0..MaxFaults /\ MaxFaults \in Nat
      BY <1>0, BoundsAssumption DEF PrinterTypeOK
    <3> QED
      BY <1>12, <3>1 DEF Disturb
  <2>2. /\ regs' \subseteq Bits /\ changed' = TRUE /\ blind' = 0 /\ after' = 0
        /\ UNCHANGED <<served, heat, pending, known, told, moved, linkVars, commands, pc,
                       sweepVars, todo, baseline, asked, listed, verdict>>
    BY <1>12, ConditionsAssumption DEF Disturb
  <2>3. PrinterTypeOK'
    BY <1>0, <2>1, <2>2 DEF PrinterTypeOK
  <2>4. ProbeTypeOK'
    BY <1>0, <2>2 DEF ProbeTypeOK
  <2>5. LinkTypeOK' /\ SweepTypeOK'
    BY <1>0, <2>2, LinkTypeSame, SweepTypeSame
  <2> QED
    BY <2>2, <2>3, <2>4, <2>5 DEF TypeOK
<1>13. CASE UNCHANGED vars
  <2>1. UNCHANGED <<printerVars, linkVars, commands, pc, sweepVars, probeVars>>
    BY <1>13 DEF vars
  <2> QED
    BY <1>0, <2>1, PrinterTypeSame, LinkTypeSame, SweepTypeSame, ProbeTypeSame DEF TypeOK
<1> QED
  BY <1>p, <1>h, <1>r, <1>b, <1>f, <1>1, <1>2, <1>3, <1>4, <1>5, <1>6, <1>7, <1>8, <1>9, <1>10,
     <1>11, <1>12, <1>13 DEF Next, Command, CommandStep

-----------------------------------------------------------------------------
(* The link *)

\* What a step does to the link: a command begins, nothing, or one exchange, whose
\* answer has the registers of the moment and says "ours" of what is served.
Begun == late' = <<>> /\ slips' = 0 /\ kind' = kind

Exchanged(r) ==
  /\ r.regs = regs /\ (r.says = "ours" => served = "ours")
  /\ \E o \in Outcomes(r) : Exchange(o)

LEMMA AnswersTrue ==
  /\ \A op, says : Reply(op, says).op = op /\ Reply(op, says).says = says
                  /\ Reply(op, says).regs = regs
  /\ \A op : Answer(op).op = op /\ Answer(op).regs = regs
            /\ Answer(op).says = IF op \in told THEN "its own" ELSE "plain"
BY DEF Reply, Answer

LEMMA LinkStep ==
  ASSUME TypeOK, AtCalibration, [Next]_vars
  PROVE  /\ (Command /\ Begun) \/ UNCHANGED linkVars \/ \E r \in Replies : Exchanged(r)
         /\ served = "ours" => served' = "ours"
<1>1. CASE Command
  <2>1. PICK first : Begin(first)
    BY <1>1 DEF Command, Provision, HeatSweep, ProbeReads, PaperBack, Feed
  <2> QED
    BY <1>1, <2>1 DEF Begin, Begun
<1>2. CASE Announce
  <2> DEFINE r == Reply(CMD_SET_RFID_DATA, "plain")
  <2>1. r \in Replies /\ r.regs = regs /\ r.says # "ours"
    BY RepliesToCommands, AnswersTrue
  <2> HIDE DEF r
  <2>2. (\E o \in Outcomes(r) : Exchange(o)) \/ UNCHANGED linkVars
    BY <1>2 DEF Announce, r
  <2>3. served' = served
    BY <1>2 DEF Announce
  <2> QED
    BY <2>1, <2>2, <2>3 DEF Exchanged
<1>3. CASE Confirm
  <2> DEFINE r == Reply(CMD_RETURN_MAT, served)
  <2>1. r \in Replies /\ r.regs = regs /\ (r.says = "ours" => served = "ours")
    BY RepliesToCommands, AnswersTrue
  <2> HIDE DEF r
  <2>2. (\E o \in Outcomes(r) : Exchange(o)) \/ UNCHANGED linkVars
    BY <1>3 DEF Confirm, r
  <2>3. served' = served
    BY <1>3 DEF Confirm, printerVars
  <2> QED
    BY <2>1, <2>2, <2>3 DEF Exchanged
<1>4. CASE PrintStrip \/ UNCHANGED vars
  BY <1>4 DEF PrintStrip, printerVars, vars
<1>5. CASE Control
  <2> DEFINE r == Reply(CMD_CHECK_DEVICE, "plain")
  <2>1. r \in Replies /\ r.regs = regs /\ r.says # "ours"
    BY RepliesToCommands, AnswersTrue
  <2> HIDE DEF r
  <2>2. (\E o \in Outcomes(r) : Exchange(o)) \/ UNCHANGED linkVars
    BY <1>5 DEF Control, r
  <2>3. served' = served
    BY <1>5 DEF Control, printerVars
  <2> QED
    BY <2>1, <2>2, <2>3 DEF Exchanged
<1>6. CASE Calibrate \/ Ask
  <2> DEFINE r == Answer(Head(todo))
  <2>1. Head(todo) \in Opcodes
    <3>1. CASE pc = "calibrate"
      BY <3>1, CalibrationStep, OpcodesInRange
    <3>2. CASE pc = "ask"
      <4>1. todo \in Seq(Opcodes) /\ todo # <<>>
        BY <3>2 DEF TypeOK, ProbeTypeOK
      <4> QED
        BY <4>1
    <3> QED
      BY <1>6, <3>1, <3>2 DEF Calibrate, Ask
  <2>2. r \in Replies /\ r.regs = regs /\ r.says # "ours"
    BY <2>1, RepliesToCommands, AnswersTrue
  <2> HIDE DEF r
  <2>3. (\E o \in Outcomes(r) : Exchange(o)) \/ UNCHANGED linkVars
    BY <1>6 DEF Calibrate, Ask, r
  <2>4. served' = served
    BY <1>6 DEF Calibrate, Ask, printerVars
  <2> QED
    BY <2>2, <2>3, <2>4 DEF Exchanged
<1>7. CASE Inquire \/ ShowStatus("before", "back") \/ ShowStatus("after", "idle")
  <2> DEFINE r == Reply(CMD_INQUIRY_STA, "plain")
  <2>1. r \in Replies /\ r.regs = regs /\ r.says # "ours"
    BY RepliesToCommands, AnswersTrue
  <2> HIDE DEF r
  <2>2. (\E o \in Outcomes(r) : Exchange(o)) \/ UNCHANGED linkVars
    BY <1>7 DEF Inquire, ShowStatus, r
  <2>3. served' = served
    BY <1>7 DEF Inquire, ShowStatus, printerVars
  <2> QED
    BY <2>1, <2>2, <2>3 DEF Exchanged
<1>8. CASE SendPaperBack
  <2> DEFINE r == Answer(CMD_PAPER_BACK)
  <2>1. r \in Replies /\ r.regs = regs /\ r.says # "ours"
    BY OpcodesInRange, RepliesToCommands, AnswersTrue
  <2> HIDE DEF r
  <2>2. (\E o \in Outcomes(r) : Exchange(o)) \/ UNCHANGED linkVars
    BY <1>8 DEF SendPaperBack, r
  <2>3. served' = served
    BY <1>8 DEF SendPaperBack
  <2> QED
    BY <2>1, <2>2, <2>3 DEF Exchanged
<1>9. CASE SkipLabel
  <2> DEFINE r == Reply(CMD_PAPER_SKIP, "plain")
  <2>1. r \in Replies /\ r.regs = regs /\ r.says # "ours"
    BY RepliesToCommands, AnswersTrue
  <2> HIDE DEF r
  <2>2. (\E o \in Outcomes(r) : Exchange(o)) \/ UNCHANGED linkVars
    BY <1>9 DEF SkipLabel, r
  <2>3. served' = served
    BY <1>9 DEF SkipLabel, printerVars
  <2> QED
    BY <2>1, <2>2, <2>3 DEF Exchanged
<1>10. CASE Settle
  BY <1>10 DEF Settle
<1>11. CASE Disturb
  BY <1>11 DEF Disturb
<1> QED
  BY <1>1, <1>2, <1>3, <1>4, <1>5, <1>6, <1>7, <1>8, <1>9, <1>10, <1>11 DEF Next, CommandStep

LEMMA UnreadNext == TypeOK /\ AtCalibration /\ Unread /\ [Next]_vars => Unread'
<1> SUFFICES ASSUME TypeOK, AtCalibration, Unread, [Next]_vars
             PROVE  Unread'
  OBVIOUS
<1>1. CASE Begun
  <2>1. Len(late') = 0 /\ slips' = 0
    BY <1>1 DEF Begun
  <2> QED
    BY <2>1 DEF Unread
<1>2. CASE UNCHANGED linkVars
  BY <1>2 DEF Unread, linkVars
<1>3. CASE \E r \in Replies : Exchanged(r)
  <2>1. PICK r \in Replies : \E o \in Outcomes(r) : Exchange(o)
    BY <1>3 DEF Exchanged
  <2>2. PICK o \in Outcomes(r) : late' = o.late /\ slips' = o.slips /\ kind' = kind
    BY <2>1 DEF Exchange
  <2> QED
    BY <2>2, OutcomeUnread DEF Unread
<1> QED
  BY <1>1, <1>2, <1>3, LinkStep

LEMMA OursServedNext == TypeOK /\ AtCalibration /\ OursServed /\ [Next]_vars => OursServed'
<1> SUFFICES ASSUME TypeOK, AtCalibration, OursServed, [Next]_vars
             PROVE  OursServed'
  OBVIOUS
<1>1. served = "ours" => served' = "ours"
  BY LinkStep
<1>2. CASE Begun
  <2>1. Len(late') = 0
    BY <1>2 DEF Begun
  <2> QED
    BY <2>1 DEF OursServed
<1>3. CASE UNCHANGED linkVars
  BY <1>1, <1>3 DEF OursServed, linkVars
<1>4. CASE \E r \in Replies : Exchanged(r)
  <2>1. PICK r \in Replies : (r.says = "ours" => served = "ours") /\ \E o \in Outcomes(r) : Exchange(o)
    BY <1>4 DEF Exchanged
  <2>2. PICK o \in Outcomes(r) : late' = o.late
    BY <2>1 DEF Exchange
  <2>3. \A i \in 1..Len(o.late) : o.late[i] = r \/ \E j \in 1..Len(late) : o.late[i] = late[j]
    BY OutcomeEntries
  <2> QED
    BY <1>1, <2>1, <2>2, <2>3 DEF OursServed
<1> QED
  BY <1>2, <1>3, <1>4, LinkStep

-----------------------------------------------------------------------------
(* The strips of a sweep *)

LEMMA ConfirmedTrue ==
  ASSUME TypeOK, OursServed, NEW o \in Outcomes(Reply(CMD_RETURN_MAT, served)),
         Confirms(UidIn(o.got))
  PROVE  served = "ours"
<1> DEFINE r == Reply(CMD_RETURN_MAT, served)
<1>1. r \in Replies /\ r.says = served
  BY RepliesToCommands, AnswersTrue
<1>2. o.got \in {r, Nothing} \/ \E j \in 1..Len(late) : o.got = late[j]
  BY <1>1, OutcomeEntries
<1>3. o.got # Nothing /\ o.got.op = CMD_RETURN_MAT /\ o.got.says = "ours"
  BY DEF Confirms, UidIn, Acks
<1> HIDE DEF r
<1> QED
  BY <1>1, <1>2, <1>3 DEF OursServed

\* Steps that leave the printer's record, the strips and the position alone.
LEMMA StripsSame ==
  ASSUME StripInv, UNCHANGED <<served, heat, pending, strips>>,
         \/ UNCHANGED <<walk, over, said>> /\ pc' = pc
         \/ pc' \notin {"confirm", "print"}
  PROVE  AtWrite' /\ TakenTrue' /\ StripsExplained'
BY DEF StripInv, AtWrite, TakenTrue, StripsExplained

LEMMA StripsNext == TypeOK /\ AtCalibration /\ StripInv /\ [Next]_vars => StripInv'
<1> SUFFICES ASSUME TypeOK, AtCalibration, StripInv, [Next]_vars
             PROVE  AtWrite' /\ TakenTrue' /\ StripsExplained'
  BY OursServedNext DEF StripInv
<1>0. PrinterTypeOK /\ SweepTypeOK
  BY DEF TypeOK
<1>1. CASE Command
  <2>1. PICK first \in {"announce", "control", "calibrate", "skip"} : Begin(first)
    BY <1>1 DEF Command, Provision, HeatSweep, ProbeReads, PaperBack, Feed
  <2>2. pc' \notin {"confirm", "print"} /\ strips' = <<>>
    BY <2>1 DEF Begin
  <2> QED
    BY <2>2 DEF AtWrite, TakenTrue, StripsExplained
<1>2. CASE Announce
  <2>1. /\ over' = IF pending = "none" THEN served ELSE "ours"
        /\ pending' \in {Head(walk), pending}
        /\ UNCHANGED <<served, heat, walk, strips>>
        /\ pc' = "print" => said' = "warned"
    BY <1>2 DEF Announce, Provisioned, Return
  <2>2. over' # "ours" => pending = "none" /\ served' # "ours"
    BY <2>1
  <2> QED
    BY <2>1, <2>2 DEF StripInv, AtWrite, TakenTrue, StripsExplained
<1>3. CASE Confirm
  <2>1. /\ pc = "confirm" /\ UNCHANGED <<served, heat, pending, walk, over, strips>>
        /\ pc' = "print" /\ said' = "taken" => served = "ours"
    BY <1>3, ConfirmedTrue DEF Confirm, Provisioned, Return, printerVars, StripInv
  <2> QED
    BY <2>1 DEF StripInv, AtWrite, TakenTrue, StripsExplained
<1>4. CASE PrintStrip
  <2>1. /\ pc = "print" /\ pc' \in {"idle", "announce"}
        /\ strips' = strips \/ strips' = Append(strips, Burned)
    BY <1>4 DEF PrintStrip, Return
  <2>2. strips \in Seq(Strip) /\ Burned \in Strip
    <3>1. walk \in Seq(Heats) /\ walk # <<>>
      BY <1>0, <2>1 DEF SweepTypeOK
    <3> QED
      BY <1>0, <3>1, WalkOn DEF SweepTypeOK, PrinterTypeOK, Burned, Strip
  <2>3. Burned.heat # Burned.asked => Burned.said = "warned" \/ Burned.over = "ours"
    <3>1. said \in {"taken", "warned"}
      BY <1>0 DEF SweepTypeOK
    <3> QED
      BY <2>1, <3>1 DEF StripInv, Burned, AtWrite, TakenTrue
  <2>4. StripsExplained'
    <3>1. CASE strips' = strips
      BY <3>1 DEF StripInv, StripsExplained
    <3>2. CASE strips' = Append(strips, Burned)
      <4>1. /\ DOMAIN strips' = 1..(Len(strips) + 1) /\ Len(strips) \in Nat /\ DOMAIN strips = 1..Len(strips)
            /\ \A i \in 1..Len(strips) : strips'[i] = strips[i]
            /\ strips'[Len(strips) + 1] = Burned
        BY <2>2, <3>2, AppendProperties, LenProperties
      <4>2. \A n \in Nat : \A i \in 1..(n + 1) : i \in 1..n \/ i = n + 1
        OBVIOUS
      <4> QED
        BY <2>3, <4>1, <4>2 DEF StripInv, StripsExplained
    <3> QED
      BY <2>1, <3>1, <3>2
  <2> QED
    BY <2>1, <2>4 DEF AtWrite, TakenTrue
<1>5. CASE Control \/ Calibrate \/ Ask \/ Inquire \/ ShowStatus("before", "back")
           \/ SendPaperBack \/ ShowStatus("after", "idle") \/ SkipLabel
  <2>1. pc' \notin {"confirm", "print"} /\ UNCHANGED <<served, heat, pending, strips>>
    BY <1>5 DEF Control, Calibrate, Ask, Inquire, ShowStatus, SendPaperBack, SkipLabel, Return,
                printerVars, sweepVars
  <2> QED
    BY <2>1, StripsSame
<1>6. CASE Settle
  <2>1. /\ pending # "none" /\ UNCHANGED <<pc, walk, over, said, strips>>
        /\ \/ served' = "ours" /\ heat' = pending /\ pending' = "none"
           \/ served # "ours" /\ served' = "half" /\ UNCHANGED <<heat, pending>>
    BY <1>6 DEF Settle, sweepVars
  <2> QED
    BY <2>1 DEF StripInv, AtWrite, TakenTrue, StripsExplained
<1>7. CASE Disturb
  <2>1. UNCHANGED <<served, heat, pending, strips, walk, over, said, pc>>
    BY <1>7 DEF Disturb, sweepVars
  <2> QED
    BY <2>1, StripsSame
<1>8. CASE UNCHANGED vars
  <2>1. UNCHANGED <<served, heat, pending, strips, walk, over, said, pc>>
    BY <1>8 DEF vars, printerVars, sweepVars
  <2> QED
    BY <2>1, StripsSame
<1> QED
  BY <1>1, <1>2, <1>3, <1>4, <1>5, <1>6, <1>7, <1>8 DEF Next, CommandStep

-----------------------------------------------------------------------------
(* An error while opcodes are asked *)

SeesError(got) == got # Nothing /\ got.op = CMD_INQUIRY_STA /\ HasError(got.regs)

\* OutcomeError, over USB too as long as no reply has gone astray.
LEMMA ErrorExchange ==
  ASSUME TypeOK, Unread, NEW r \in Replies, NEW o \in Outcomes(r),
         HasError(r.regs), kind # "usb" \/ o.slips = 0,
         NEW z \in 0..Len(late), ShowsError(late, z)
  PROVE  \E y \in 0..Len(o.late) :
           /\ ShowsError(o.late, y)
           /\ y + slips <= z + o.slips
           /\ r.op # CMD_INQUIRY_STA \/ SeesError(o.got) \/ y + 1 + slips <= z + o.slips
<1>1. CASE kind # "usb"
  BY <1>1, OutcomeError DEF SeesError
<1>2. CASE o.slips = 0
  <2>1. o.got = r /\ o.late = <<>> /\ slips = 0 /\ late = <<>>
    BY <1>2, OutcomeInTime
  <2>2. r.op # CMD_INQUIRY_STA \/ SeesError(o.got)
    BY <2>1, AnswerIsSome DEF SeesError
  <2>3. Len(<<>>) = 0 /\ z = 0
    BY <2>1
  <2>4. ShowsError(o.late, 0) /\ 0 \in 0..Len(o.late) /\ 0 + slips <= z + o.slips
    BY <1>2, <2>1, <2>3 DEF ShowsError
  <2> QED
    BY <2>2, <2>4
<1> QED
  BY <1>1, <1>2

\* What may follow from the position: an opcode is counted where it is sent, and an
\* inquiry that goes on has not seen the error.
LEMMA ErrorExchanged ==
  ASSUME TypeOK, Unread, ErrorInv, NEW r \in Replies, r.regs = regs,
         NEW o \in Outcomes(r), Exchange(o), regs' = regs,
         \/ pc \notin {"inquire", "idle"} /\ after' = after
         \/ /\ pc \notin {"inquire", "idle"} /\ pc' = "inquire"
            /\ after' = IF HasError(regs) THEN after + 1 ELSE after
         \/ /\ pc = "inquire" /\ r.op = CMD_INQUIRY_STA /\ after' = after
            /\ pc' = "idle" \/ ~SeesError(o.got)
  PROVE  ErrorInv'
<1> DEFINE Slack == IF pc \in {"inquire", "idle"} THEN 1 ELSE 0
           SlackNext == IF pc' \in {"inquire", "idle"} THEN 1 ELSE 0
<1>1. late' = o.late /\ slips' = o.slips /\ kind' = kind
  BY DEF Exchange
<1>2. slips \in Nat /\ o.slips \in Nat /\ o.slips \in {slips, slips + 1} /\ after \in Nat
  <2>1. o.slips \in 0..MaxSlips /\ o.slips \in {slips, slips + 1}
    BY OutcomeTypes
  <2>2. slips \in Nat /\ MaxSlips \in Nat
    BY LinkTypes
  <2>3. after \in Nat
    BY DEF TypeOK, ProbeTypeOK
  <2> QED
    BY <2>1, <2>2, <2>3
<1>3. ~HasError(regs) => after' = 0
  BY DEF ErrorInv
<1>4. ASSUME HasError(regs), kind # "usb" \/ o.slips = 0
      PROVE  \E y \in 0..Len(o.late) : ShowsError(o.late, y) /\ after' + y <= o.slips + SlackNext
  <2>1. kind # "usb" \/ slips = 0
    BY <1>2, <1>4
  <2>2. PICK z \in 0..Len(late) : ShowsError(late, z) /\ after + z <= slips + Slack
    BY <1>4, <2>1 DEF ErrorInv
  <2>3. PICK y \in 0..Len(o.late) :
          /\ ShowsError(o.late, y)
          /\ y + slips <= z + o.slips
          /\ r.op # CMD_INQUIRY_STA \/ SeesError(o.got) \/ y + 1 + slips <= z + o.slips
    BY <1>4, <2>2, ErrorExchange
  <2>4. z \in Nat /\ y \in Nat
    <3>1. Len(late) \in Nat
      BY LinkTypes
    <3>2. Len(o.late) \in Nat
      BY OutcomeTypes, LenProperties
    <3> QED
      BY <3>1, <3>2
  <2>5. \A a, x, w, m, n \in Nat : a + x <= m /\ w + m <= x + n => a + w <= n
    OBVIOUS
  <2>6. \A a, x, w, m, n \in Nat : a + x <= m + 1 /\ w + m <= x + n => a + w <= n + 1
    OBVIOUS
  <2>7. \A a, x, w, m, n \in Nat : a + x <= m + 1 /\ w + 1 + m <= x + n => a + w <= n
    OBVIOUS
  <2>8. CASE pc \notin {"inquire", "idle"} /\ after' = after
    <3>1. after + z <= slips
      BY <1>2, <2>2, <2>8
    <3>2. after + y <= o.slips
      BY <1>2, <2>3, <2>4, <2>5, <3>1
    <3>3. after' + y <= o.slips + SlackNext
      BY <1>2, <2>4, <2>8, <3>2
    <3> QED
      BY <2>3, <3>3
  <2>9. CASE pc \notin {"inquire", "idle"} /\ pc' = "inquire" /\ after' = after + 1
    <3>1. after + z <= slips
      BY <1>2, <2>2, <2>9
    <3>2. after + y <= o.slips
      BY <1>2, <2>3, <2>4, <2>5, <3>1
    <3>3. after' + y <= o.slips + SlackNext
      BY <1>2, <2>4, <2>9, <3>2
    <3> QED
      BY <2>3, <3>3
  <2>10. CASE pc = "inquire" /\ pc' = "idle" /\ after' = after
    <3>1. after + z <= slips + 1
      BY <2>2, <2>10
    <3>2. after + y <= o.slips + 1
      BY <1>2, <2>3, <2>4, <2>6, <3>1
    <3>3. after' + y <= o.slips + SlackNext
      BY <2>10, <3>2
    <3> QED
      BY <2>3, <3>3
  <2>11. CASE pc = "inquire" /\ r.op = CMD_INQUIRY_STA /\ after' = after /\ ~SeesError(o.got)
    <3>1. after + z <= slips + 1
      BY <2>2, <2>11
    <3>2. y + 1 + slips <= z + o.slips
      BY <2>3, <2>11
    <3>3. after + y <= o.slips
      BY <1>2, <2>4, <2>7, <3>1, <3>2
    <3>4. after' + y <= o.slips + SlackNext
      BY <1>2, <2>4, <2>11, <3>3
    <3> QED
      BY <2>3, <3>4
  <2> QED
    BY <1>4, <2>8, <2>9, <2>10, <2>11
<1> QED
  BY <1>1, <1>3, <1>4 DEF ErrorInv

LEMMA ErrorSame ==
  ASSUME ErrorInv, UNCHANGED <<linkVars, regs, after>>,
         pc \in {"inquire", "idle"} => pc' \in {"inquire", "idle"}, TypeOK
  PROVE  ErrorInv'
<1>1. slips \in Nat /\ after \in Nat /\ Len(late) \in Nat
  BY LinkTypes DEF TypeOK, ProbeTypeOK
<1>2. ~HasError(regs') => after' = 0
  BY DEF ErrorInv
<1>3. ASSUME HasError(regs), kind # "usb" \/ slips = 0
      PROVE  \E z \in 0..Len(late) :
               /\ ShowsError(late, z)
               /\ after + z <= slips + (IF pc' \in {"inquire", "idle"} THEN 1 ELSE 0)
  <2>1. PICK z \in 0..Len(late) :
          /\ ShowsError(late, z)
          /\ after + z <= slips + (IF pc \in {"inquire", "idle"} THEN 1 ELSE 0)
    BY <1>3 DEF ErrorInv
  <2>2. after + z <= slips + (IF pc' \in {"inquire", "idle"} THEN 1 ELSE 0)
    BY <1>1, <2>1
  <2> QED
    BY <2>1, <2>2
<1> QED
  BY <1>2, <1>3 DEF ErrorInv, linkVars

\* An opcode that went out in an exchange that failed ends the command.
LEMMA ErrorSent ==
  ASSUME ErrorInv, UNCHANGED <<linkVars, regs>>, TypeOK,
         pc \notin {"inquire", "idle"}, pc' = "idle",
         after' = IF HasError(regs) THEN after + 1 ELSE after
  PROVE  ErrorInv'
<1>1. slips \in Nat /\ after \in Nat /\ Len(late) \in Nat
  BY LinkTypes DEF TypeOK, ProbeTypeOK
<1>2. ~HasError(regs') => after' = 0
  BY DEF ErrorInv
<1>3. ASSUME HasError(regs), kind # "usb" \/ slips = 0
      PROVE  \E z \in 0..Len(late) : ShowsError(late, z) /\ after' + z <= slips + 1
  <2>1. PICK z \in 0..Len(late) : ShowsError(late, z) /\ after + z <= slips
    BY <1>1, <1>3 DEF ErrorInv
  <2>2. after' + z <= slips + 1
    BY <1>1, <1>3, <2>1
  <2> QED
    BY <2>1, <2>2
<1> QED
  BY <1>2, <1>3 DEF ErrorInv, linkVars

LEMMA ErrorNext == TypeOK /\ AtCalibration /\ Unread /\ ErrorInv /\ [Next]_vars => ErrorInv'
<1> SUFFICES ASSUME TypeOK, AtCalibration, Unread, ErrorInv, [Next]_vars
             PROVE  ErrorInv'
  OBVIOUS
<1>1. CASE Command
  <2>1. PICK first : Begin(first)
    BY <1>1 DEF Command, Provision, HeatSweep, ProbeReads, PaperBack, Feed
  <2>2. after' = 0 /\ late' = <<>> /\ slips' = 0
    BY <2>1 DEF Begin
  <2>3. Len(<<>>) = 0
    OBVIOUS
  <2>4. 0 \in 0..Len(late') /\ ShowsError(late', 0)
    BY <2>2, <2>3 DEF ShowsError
  <2>5. after' + 0 <= slips' + (IF pc' \in {"inquire", "idle"} THEN 1 ELSE 0)
    BY <2>2
  <2> QED
    BY <2>2, <2>4, <2>5 DEF ErrorInv
<1>2. CASE Announce
  <2> DEFINE r == Reply(CMD_SET_RFID_DATA, "plain")
  <2>1. r \in Replies /\ r.regs = regs
    BY RepliesToCommands, AnswersTrue
  <2> HIDE DEF r
  <2>2. (\E o \in Outcomes(r) : Exchange(o)) \/ UNCHANGED linkVars
    BY <1>2 DEF Announce, r
  <2>3. pc = "announce" /\ UNCHANGED <<regs, after>>
    BY <1>2 DEF Announce, probeVars
  <2> QED
    BY <2>1, <2>2, <2>3, ErrorExchanged, ErrorSame
<1>3. CASE Confirm
  <2> DEFINE r == Reply(CMD_RETURN_MAT, served)
  <2>1. r \in Replies /\ r.regs = regs
    BY RepliesToCommands, AnswersTrue
  <2> HIDE DEF r
  <2>2. (\E o \in Outcomes(r) : Exchange(o)) \/ UNCHANGED linkVars
    BY <1>3 DEF Confirm, r
  <2>3. pc = "confirm" /\ UNCHANGED <<regs, after>>
    BY <1>3 DEF Confirm, probeVars, printerVars
  <2> QED
    BY <2>1, <2>2, <2>3, ErrorExchanged, ErrorSame
<1>4. CASE PrintStrip
  <2>1. pc = "print" /\ UNCHANGED <<linkVars, regs, after>>
    BY <1>4 DEF PrintStrip, printerVars, probeVars
  <2> QED
    BY <2>1, ErrorSame
<1>5. CASE Control
  <2> DEFINE r == Reply(CMD_CHECK_DEVICE, "plain")
  <2>1. r \in Replies /\ r.regs = regs
    BY RepliesToCommands, AnswersTrue
  <2> HIDE DEF r
  <2>2. (\E o \in Outcomes(r) : Exchange(o)) \/ UNCHANGED linkVars
    BY <1>5 DEF Control, r
  <2>3. pc = "control" /\ UNCHANGED <<regs, after>>
    BY <1>5 DEF Control, printerVars
  <2> QED
    BY <2>1, <2>2, <2>3, ErrorExchanged, ErrorSame
<1>6. CASE Calibrate
  <2> DEFINE r == Answer(Head(todo))
  <2>1. r \in Replies /\ r.regs = regs
    BY <1>6, CalibrationStep, OpcodesInRange, RepliesToCommands, AnswersTrue DEF Calibrate
  <2> HIDE DEF r
  <2>2. (\E o \in Outcomes(r) : Exchange(o)) \/ UNCHANGED linkVars
    BY <1>6 DEF Calibrate, r
  <2>3. pc = "calibrate" /\ UNCHANGED <<regs, after>>
    BY <1>6 DEF Calibrate, printerVars
  <2> QED
    BY <2>1, <2>2, <2>3, ErrorExchanged, ErrorSame
<1>7. CASE Ask
  <2> DEFINE r == Answer(Head(todo))
  <2>1. r \in Replies /\ r.regs = regs
    <3>1. todo \in Seq(Opcodes) /\ todo # <<>>
      BY <1>7 DEF Ask, TypeOK, ProbeTypeOK
    <3>2. Head(todo) \in Opcodes
      BY <3>1
    <3> QED
      BY <3>2, RepliesToCommands, AnswersTrue
  <2> HIDE DEF r
  <2>2. \/ /\ \E o \in Outcomes(r) : Exchange(o)
           /\ after' = IF HasError(regs) THEN after + 1 ELSE after
           /\ pc' = "inquire"
        \/ UNCHANGED linkVars /\ pc' = "idle" /\ after' = (IF HasError(regs) THEN after + 1 ELSE after)
        \/ UNCHANGED <<linkVars, after>>
    BY <1>7 DEF Ask, Return, SentWithErrorUp, r
  <2>3. pc = "ask" /\ regs' = regs
    BY <1>7 DEF Ask, printerVars
  <2> QED
    BY <2>1, <2>2, <2>3, ErrorExchanged, ErrorSame, ErrorSent
<1>8. CASE Inquire
  <2> DEFINE r == Reply(CMD_INQUIRY_STA, "plain")
  <2>1. r \in Replies /\ r.regs = regs /\ r.op = CMD_INQUIRY_STA
    BY RepliesToCommands, AnswersTrue
  <2> HIDE DEF r
  <2>2. pc = "inquire" /\ UNCHANGED <<regs, after>>
    BY <1>8 DEF Inquire, printerVars
  <2>3. \/ \E o \in Outcomes(r) :
              /\ Exchange(o)
              /\ \E error \in ErrorsSeen(o.got) : pc' = "idle" \/ ~Aborts(error)
        \/ UNCHANGED linkVars /\ pc' = "idle"
    BY <1>8 DEF Inquire, Return, r
  <2>4. ASSUME NEW got, NEW error \in ErrorsSeen(got), ~Aborts(error)
        PROVE  ~SeesError(got)
    <3>1. SUFFICES ASSUME SeesError(got) PROVE FALSE
      OBVIOUS
    <3>2. Acks(got, CMD_INQUIRY_STA) /\ got.op = CMD_INQUIRY_STA /\ HasError(got.regs)
      BY <3>1 DEF SeesError, Acks
    <3>3. error \in {HasError(got.regs)}
      BY <2>4, <3>2 DEF ErrorsSeen
    <3> QED
      BY <2>4, <3>2, <3>3 DEF Aborts
  <2>5. CASE \E o \in Outcomes(r) : Exchange(o) /\ (pc' = "idle" \/ ~SeesError(o.got))
    BY <2>1, <2>2, <2>5, ErrorExchanged
  <2>6. CASE UNCHANGED linkVars /\ pc' = "idle"
    BY <2>2, <2>6, ErrorSame
  <2> QED
    BY <2>3, <2>4, <2>5, <2>6
<1>9. CASE ShowStatus("before", "back") \/ ShowStatus("after", "idle")
  <2> DEFINE r == Reply(CMD_INQUIRY_STA, "plain")
  <2>1. r \in Replies /\ r.regs = regs
    BY RepliesToCommands, AnswersTrue
  <2> HIDE DEF r
  <2>2. (\E o \in Outcomes(r) : Exchange(o)) \/ UNCHANGED linkVars
    BY <1>9 DEF ShowStatus, r
  <2>3. pc \in {"before", "after"} /\ UNCHANGED <<regs, after>>
    BY <1>9 DEF ShowStatus, printerVars, probeVars
  <2> QED
    BY <2>1, <2>2, <2>3, ErrorExchanged, ErrorSame
<1>10. CASE SendPaperBack
  <2> DEFINE r == Answer(CMD_PAPER_BACK)
  <2>1. r \in Replies /\ r.regs = regs
    BY OpcodesInRange, RepliesToCommands, AnswersTrue
  <2> HIDE DEF r
  <2>2. (\E o \in Outcomes(r) : Exchange(o)) \/ UNCHANGED linkVars
    BY <1>10 DEF SendPaperBack, r
  <2>3. pc = "back" /\ UNCHANGED <<regs, after>>
    BY <1>10 DEF SendPaperBack
  <2> QED
    BY <2>1, <2>2, <2>3, ErrorExchanged, ErrorSame
<1>11. CASE SkipLabel
  <2> DEFINE r == Reply(CMD_PAPER_SKIP, "plain")
  <2>1. r \in Replies /\ r.regs = regs
    BY RepliesToCommands, AnswersTrue
  <2> HIDE DEF r
  <2>2. (\E o \in Outcomes(r) : Exchange(o)) \/ UNCHANGED linkVars
    BY <1>11 DEF SkipLabel, r
  <2>3. pc = "skip" /\ UNCHANGED <<regs, after>>
    BY <1>11 DEF SkipLabel, printerVars, probeVars
  <2> QED
    BY <2>1, <2>2, <2>3, ErrorExchanged, ErrorSame
<1>12. CASE Settle
  <2>1. UNCHANGED <<linkVars, regs, after, pc>>
    BY <1>12 DEF Settle, probeVars
  <2> QED
    BY <2>1, ErrorSame
<1>13. CASE Disturb
  <2>1. after' = 0 /\ UNCHANGED linkVars
    BY <1>13 DEF Disturb
  <2>2. Len(late) \in Nat /\ slips \in Nat /\ Len(late) <= slips
    BY LinkTypes DEF Unread
  <2>3. Len(late) \in 0..Len(late) /\ ShowsError(late, Len(late))
    BY <2>2 DEF ShowsError
  <2>4. 0 + Len(late) <= slips + (IF pc' \in {"inquire", "idle"} THEN 1 ELSE 0)
    BY <2>2
  <2> QED
    BY <2>1, <2>3, <2>4 DEF ErrorInv, linkVars
<1>14. CASE UNCHANGED vars
  <2>1. UNCHANGED <<linkVars, regs, after, pc>>
    BY <1>14 DEF vars, printerVars, probeVars
  <2> QED
    BY <2>1, ErrorSame
<1> QED
  BY <1>1, <1>2, <1>3, <1>4, <1>5, <1>6, <1>7, <1>8, <1>9, <1>10, <1>11, <1>12, <1>13, <1>14
     DEF Next, CommandStep

LEMMA BlindNext == TypeOK /\ AtCalibration /\ BlindBound /\ [Next]_vars => BlindBound'
<1> SUFFICES ASSUME TypeOK, AtCalibration, BlindBound, [Next]_vars
             PROVE  BlindBound'
  OBVIOUS
<1>0. blind \in Nat /\ blind <= 3
  BY DEF TypeOK, ProbeTypeOK, BlindBound
<1>1. CASE Command
  <2>1. PICK first : Begin(first)
    BY <1>1 DEF Command, Provision, HeatSweep, ProbeReads, PaperBack, Feed
  <2> QED
    BY <2>1 DEF Begin, BlindBound
<1>2. CASE Control
  <2>1. pc = "control" /\ pc' \in {"idle", "calibrate"} /\ blind' \in {blind, blind + 1}
    BY <1>2 DEF Control, Return, SentBlind
  <2>2. blind' <= 1
    BY <2>1 DEF BlindBound
  <2> QED
    BY <1>0, <2>1, <2>2 DEF BlindBound
<1>3. CASE Calibrate
  <2>1. pc = "calibrate" /\ blind' \in {blind, blind + 1} /\ blind <= 2
    BY <1>0, <1>3 DEF Calibrate, SentBlind, BlindBound
  <2>2. pc' # "calibrate" \/ (todo' = Tail(todo) /\ Head(Tail(todo)) \in {80, 81})
    BY <1>3, UnallocatedOps DEF Calibrate, Return
  <2>3. pc' # "control" /\ blind' <= 3
    BY <1>0, <1>3, <2>1 DEF Calibrate, Return
  <2>4. ASSUME pc' = "calibrate"
        PROVE  blind' <= 1 \/ (blind' = 2 /\ todo'[1] = 81)
    <3>1. todo' = Tail(todo) /\ todo[2] \in {80, 81} /\ Tail(todo)[1] = todo[2]
      <4>1. Head(Tail(todo)) = todo[2] /\ Tail(todo) \in Seq(Opcodes) /\ Len(Tail(todo)) >= 1
        BY <2>1, CalibrationStep
      <4> QED
        BY <2>2, <2>4, <4>1, FirstOp
    <3>2. todo[1] = 80 /\ todo[2] = 81
      BY <2>1, <3>1 DEF AtCalibration, CMD_PAPER_BACK
    <3>3. blind <= 1
      BY <1>0, <2>1, <3>2 DEF BlindBound
    <3>4. todo'[1] = 81
      BY <3>1, <3>2
    <3>5. blind' \in {0, 1, 2}
      BY <1>0, <2>1, <3>3
    <3> QED
      BY <3>4, <3>5
  <2> QED
    BY <2>3, <2>4 DEF BlindBound
<1>4. CASE Announce \/ Confirm \/ PrintStrip \/ Ask \/ Inquire \/ ShowStatus("before", "back")
           \/ SendPaperBack \/ ShowStatus("after", "idle") \/ SkipLabel
  <2>1. blind' = blind
    BY <1>4 DEF Announce, Confirm, PrintStrip, Ask, Inquire, ShowStatus, SendPaperBack, SkipLabel,
                probeVars
  <2>2. pc' \notin {"control", "calibrate"}
    BY <1>4 DEF Announce, Confirm, Provisioned, PrintStrip, Ask, Inquire, ShowStatus, SendPaperBack,
                SkipLabel, Return
  <2> QED
    BY <1>0, <2>1, <2>2 DEF BlindBound
<1>5. CASE Disturb
  <2>1. blind' = 0
    BY <1>5 DEF Disturb
  <2> QED
    BY <2>1 DEF BlindBound
<1>6. CASE Settle \/ UNCHANGED vars
  <2>1. UNCHANGED <<blind, pc, todo>>
    BY <1>6 DEF Settle, vars, probeVars
  <2> QED
    BY <2>1 DEF BlindBound
<1> QED
  BY <1>1, <1>2, <1>3, <1>4, <1>5, <1>6 DEF Next, CommandStep

LEMMA ErrorStops == TypeOK /\ ErrorInv /\ BlindBound => ProbeStopsAtError
<1> SUFFICES ASSUME TypeOK, ErrorInv
             PROVE  /\ slips = 0 => after <= 1
                    /\ kind # "usb" => after <= 1 + slips
  BY DEF ProbeStopsAtError, BlindBound
<1>1. slips \in Nat /\ after \in Nat /\ Len(late) \in Nat
  BY LinkTypes DEF TypeOK, ProbeTypeOK
<1>2. CASE ~HasError(regs)
  BY <1>1, <1>2 DEF ErrorInv
<1>3. CASE HasError(regs) /\ (kind # "usb" \/ slips = 0)
  <2>1. PICK z \in 0..Len(late) :
          after + z <= slips + (IF pc \in {"inquire", "idle"} THEN 1 ELSE 0)
    BY <1>3 DEF ErrorInv
  <2> QED
    BY <1>1, <2>1
<1>4. CASE kind = "usb" /\ slips # 0
  BY <1>4
<1> QED
  BY <1>2, <1>3, <1>4

-----------------------------------------------------------------------------
(* What is concluded from the answers *)

\* Within a command the replies astray are only ever more.
LEMMA SlipsGrow ==
  ASSUME TypeOK, AtCalibration, [Next]_vars, ~Command
  PROVE  kind' = kind /\ slips \in Nat /\ slips' \in {slips, slips + 1}
<1>1. slips \in Nat
  BY LinkTypes
<1>2. CASE UNCHANGED linkVars
  BY <1>1, <1>2 DEF linkVars
<1>3. CASE \E r \in Replies : Exchanged(r)
  <2>1. PICK r \in Replies : \E o \in Outcomes(r) : Exchange(o)
    BY <1>3 DEF Exchanged
  <2>2. PICK o \in Outcomes(r) : slips' = o.slips /\ kind' = kind
    BY <2>1 DEF Exchange
  <2> QED
    BY <1>1, <2>2, OutcomeTypes
<1> QED
  BY <1>2, <1>3, LinkStep

\* The steps that bear on what is concluded.
LEMMA QuietStep ==
  ASSUME [Next]_vars
  PROVE  /\ \/ Command \/ Calibrate \/ Ask \/ SendPaperBack \/ Disturb
            \/ UNCHANGED <<baseline, asked, listed, verdict, moved, regs, changed>>
         /\ known' = known /\ told' = told /\ kind' = kind
<1>1. CASE Command
  <2>1. PICK first : Begin(first)
    BY <1>1 DEF Command, Provision, HeatSweep, ProbeReads, PaperBack, Feed
  <2> QED
    BY <1>1, <2>1 DEF Begin
<1>2. CASE Calibrate \/ Ask \/ SendPaperBack \/ Disturb
  BY <1>2 DEF Calibrate, Ask, SendPaperBack, Disturb, printerVars, linkVars, Exchange
<1>3. CASE Announce \/ Settle
  BY <1>3 DEF Announce, Settle, probeVars, linkVars, Exchange
<1>4. CASE Confirm \/ PrintStrip \/ Control \/ ShowStatus("before", "back")
           \/ ShowStatus("after", "idle") \/ SkipLabel
  BY <1>4 DEF Confirm, PrintStrip, Control, ShowStatus, SkipLabel, printerVars, probeVars,
             linkVars, Exchange
<1>5. CASE Inquire
  BY <1>5 DEF Inquire, printerVars, linkVars, Exchange
<1>6. CASE UNCHANGED vars
  BY <1>6 DEF vars, printerVars, probeVars, linkVars
<1> QED
  BY <1>1, <1>2, <1>3, <1>4, <1>5, <1>6 DEF Next, CommandStep

LEMMA BaselineNext ==
  TypeOK /\ AtCalibration /\ Unread /\ BaselineTrue /\ [Next]_vars => BaselineTrue'
<1> SUFFICES ASSUME TypeOK, AtCalibration, Unread, BaselineTrue, [Next]_vars,
                    slips' = 0, baseline' # Nothing
             PROVE  baseline'.says = "plain" /\ (changed' \/ baseline'.regs = regs')
  BY QuietStep DEF BaselineTrue
<1>1. CASE Command
  <2>1. PICK first : Begin(first)
    BY <1>1 DEF Command, Provision, HeatSweep, ProbeReads, PaperBack, Feed
  <2> QED
    BY <2>1 DEF Begin
<1>2. ASSUME ~Command
      PROVE  slips = 0
  BY <1>2, SlipsGrow
<1>3. CASE Calibrate
  <2>1. pc = "calibrate" /\ ~Command
    BY <1>3 DEF Calibrate, Command, Provision, HeatSweep, ProbeReads, PaperBack, Feed, Begin
  <2>2. UNCHANGED <<regs, changed>>
    BY <1>3 DEF Calibrate, printerVars
  <2>3. CASE baseline' = baseline
    BY <1>2, <2>1, <2>2, <2>3 DEF BaselineTrue
  <2>4. CASE baseline' # baseline
    <3> DEFINE r == Answer(Head(todo))
    <3>1. r \in Replies /\ r.regs = regs /\ r.says = "plain"
      BY <2>1, CalibrationStep, OpcodesInRange, RepliesToCommands, AnswersTrue DEF BaselineTrue
    <3> HIDE DEF r
    <3>2. PICK o \in Outcomes(r) : Exchange(o) /\ baseline' = o.got
      BY <1>3, <2>4 DEF Calibrate, r
    <3>3. o.got = r
      BY <3>1, <3>2, OutcomeInTime DEF Exchange
    <3> QED
      BY <2>2, <3>1, <3>2, <3>3
  <2> QED
    BY <2>3, <2>4
<1>4. CASE Ask \/ SendPaperBack
  <2>1. ~Command /\ UNCHANGED <<baseline, regs, changed>>
    BY <1>4 DEF Ask, SendPaperBack, printerVars, Command, Provision, HeatSweep, ProbeReads,
                PaperBack, Feed, Begin
  <2> QED
    BY <1>2, <2>1 DEF BaselineTrue
<1>5. CASE Disturb
  <2>1. slips' = slips /\ baseline' = baseline /\ changed' = TRUE
    BY <1>5 DEF Disturb, linkVars
  <2> QED
    BY <2>1 DEF BaselineTrue
<1>6. CASE ~Command /\ UNCHANGED <<baseline, regs, changed>>
  BY <1>2, <1>6 DEF BaselineTrue
<1> QED
  BY <1>1, <1>3, <1>4, <1>5, <1>6, QuietStep

LEMMA ListedNext ==
  TypeOK /\ AtCalibration /\ Unread /\ BaselineTrue /\ ListedRight /\ [Next]_vars => ListedRight'
<1> SUFFICES ASSUME TypeOK, AtCalibration, Unread, BaselineTrue, ListedRight, [Next]_vars, slips' = 0
             PROVE  /\ asked' \intersect (IF kind' = "usb" THEN told' ELSE known') \subseteq listed'
                    /\ kind' = "usb" /\ ~changed' => listed' \subseteq known'
  BY DEF ListedRight
<1>1. known' = known /\ told' = told /\ kind' = kind
  BY QuietStep
<1>2. CASE Command
  <2>1. PICK first : Begin(first)
    BY <1>2 DEF Command, Provision, HeatSweep, ProbeReads, PaperBack, Feed
  <2> QED
    BY <2>1 DEF Begin
<1>3. ASSUME ~Command
      PROVE  slips = 0 /\ kind' = kind
  BY <1>3, SlipsGrow
<1>4. CASE Ask
  <2>1. pc = "ask" /\ ~Command
    BY <1>4 DEF Ask, Command, Provision, HeatSweep, ProbeReads, PaperBack, Feed, Begin
  <2>2. changed' = changed
    BY <1>4 DEF Ask, printerVars
  <2>3. CASE UNCHANGED <<asked, listed>>
    BY <1>1, <1>3, <2>1, <2>2, <2>3 DEF ListedRight
  <2>4. CASE ~UNCHANGED <<asked, listed>>
    <3> DEFINE r == Answer(Head(todo))
    <3>1. baseline # Nothing /\ Head(todo) \in Opcodes
      <4>1. todo \in Seq(Opcodes) /\ todo # <<>> /\ baseline # Nothing
        BY <2>1 DEF TypeOK, ProbeTypeOK
      <4> QED
        BY <4>1
    <3>2. /\ r \in Replies /\ r.regs = regs
          /\ r.says = IF Head(todo) \in told THEN "its own" ELSE "plain"
      BY <3>1, RepliesToCommands, AnswersTrue
    <3> HIDE DEF r
    <3>3. PICK o \in Outcomes(r) :
            /\ Exchange(o) /\ asked' = asked \union {Head(todo)}
            /\ listed' = IF o.got = Nothing \/ SameHead(o.got, baseline) THEN listed
                         ELSE listed \union {Head(todo)}
      BY <1>4, <2>4 DEF Ask, r
    <3>4. o.got = r /\ r # Nothing
      BY <3>2, <3>3, OutcomeInTime, AnswerIsSome DEF Exchange
    <3>5. baseline.says = "plain" /\ (changed \/ baseline.regs = regs)
      BY <1>3, <2>1, <3>1 DEF BaselineTrue
    <3>t. told \subseteq known /\ (kind # "usb" => told = known)
      BY DEF BaselineTrue
    <3>6. Head(todo) \in told => listed' = listed \union {Head(todo)}
      BY <3>2, <3>3, <3>4, <3>5 DEF SameHead
    <3>7. Head(todo) \notin known /\ kind = "usb" /\ ~changed => listed' = listed
      BY <3>2, <3>3, <3>4, <3>5, <3>t DEF SameHead
    <3>8. asked \intersect (IF kind = "usb" THEN told ELSE known) \subseteq listed
      BY <1>3, <2>1 DEF ListedRight
    <3>9. kind = "usb" /\ ~changed => listed \subseteq known
      BY <1>3, <2>1 DEF ListedRight
    <3>10. listed' \in {listed, listed \union {Head(todo)}}
      BY <3>3
    <3> QED
      BY <1>1, <1>3, <2>1, <2>2, <3>3, <3>6, <3>7, <3>8, <3>9, <3>10, <3>t
  <2> QED
    BY <2>3, <2>4
<1>5. CASE Calibrate \/ SendPaperBack
  <2>1. ~Command /\ UNCHANGED <<asked, listed, changed>>
    BY <1>5 DEF Calibrate, SendPaperBack, printerVars, Command, Provision, HeatSweep, ProbeReads,
                PaperBack, Feed, Begin
  <2> QED
    BY <1>1, <1>3, <2>1 DEF ListedRight
<1>6. CASE Disturb
  <2>1. slips' = slips /\ UNCHANGED <<asked, listed>> /\ changed' = TRUE
    BY <1>6 DEF Disturb, linkVars
  <2> QED
    BY <1>1, <2>1 DEF ListedRight
<1>7. CASE ~Command /\ UNCHANGED <<asked, listed, changed>>
  BY <1>1, <1>3, <1>7 DEF ListedRight
<1> QED
  BY <1>2, <1>4, <1>5, <1>6, <1>7, QuietStep

LEMMA UnmovedNext ==
  TypeOK /\ AtCalibration /\ Unread /\ BaselineTrue /\ UnmovedIsTrue /\ [Next]_vars => UnmovedIsTrue'
<1> SUFFICES ASSUME TypeOK, AtCalibration, Unread, BaselineTrue, UnmovedIsTrue, [Next]_vars
             PROVE  UnmovedIsTrue'
  OBVIOUS
<1>1. CASE Command
  <2>1. PICK first : Begin(first)
    BY <1>1 DEF Command, Provision, HeatSweep, ProbeReads, PaperBack, Feed
  <2>2. verdict' = "none"
    BY <2>1 DEF Begin
  <2> QED
    BY <2>2 DEF UnmovedIsTrue
<1>2. ASSUME ~Command, UNCHANGED <<verdict, moved>>
      PROVE  UnmovedIsTrue'
  <2>1. kind' = kind /\ slips \in Nat /\ slips' \in {slips, slips + 1}
    BY <1>2, SlipsGrow
  <2>2. slips > 0 => slips' > 0
    BY <2>1
  <2> QED
    BY <1>2, <2>1, <2>2, QuietStep DEF UnmovedIsTrue
<1>3. CASE SendPaperBack
  <2>1. pc = "back" /\ ~Command
    BY <1>3 DEF SendPaperBack, Command, Provision, HeatSweep, ProbeReads, PaperBack, Feed, Begin
  <2>2. CASE UNCHANGED <<moved, verdict>>
    BY <1>2, <2>1, <2>2
  <2>3. ASSUME ~UNCHANGED <<moved, verdict>>, verdict' = "nothing moved", CMD_PAPER_BACK \in known
        PROVE  kind' = "usb" /\ (CMD_PAPER_BACK \notin told \/ slips' > 0)
    <3> DEFINE r == Answer(CMD_PAPER_BACK)
    <3>1. r \in Replies /\ r.op = CMD_PAPER_BACK
          /\ (CMD_PAPER_BACK \in told => r.says = "its own")
      BY OpcodesInRange, RepliesToCommands, AnswersTrue
    <3> HIDE DEF r
    <3>2. PICK o \in Outcomes(r) :
            /\ Exchange(o)
            /\ verdict' = IF o.got = Nothing THEN "no response"
                          ELSE IF SameHead(o.got, baseline) THEN "nothing moved" ELSE "known"
      BY <1>3, <2>3 DEF SendPaperBack, r
    <3>3. o.got # Nothing /\ SameHead(o.got, baseline)
      BY <2>3, <3>2
    <3>4. slips' \in Nat /\ slips' = o.slips /\ kind' = kind
      <4>1. slips \in Nat /\ slips' \in {slips, slips + 1}
        BY <2>1, SlipsGrow
      <4>2. slips' \in Nat
        BY <4>1
      <4> QED
        BY <3>2, <4>2 DEF Exchange
    <3>5. CMD_PAPER_BACK \notin told \/ slips' > 0
      <4>1. SUFFICES ASSUME slips' = 0, CMD_PAPER_BACK \in told PROVE FALSE
        BY <3>4
      <4>2. o.got = r /\ slips = 0
        BY <3>1, <3>4, <4>1, OutcomeInTime
      <4>3. baseline # Nothing
        BY <2>1 DEF TypeOK, ProbeTypeOK
      <4>4. baseline.says = "plain"
        BY <4>2, <4>3 DEF BaselineTrue
      <4> QED
        BY <3>1, <3>3, <4>1, <4>2, <4>4 DEF SameHead
    <3>6. kind = "usb"
      <4>1. baseline.op = 80 /\ \A i \in 1..Len(late) : late[i].op = CMD_INQUIRY_STA
        BY <2>1 DEF AtCalibration
      <4>2. o.got = r \/ \E j \in 1..Len(late) : o.got = late[j]
        BY <3>1, <3>3, OutcomeEntries
      <4>3. o.got.op \in {CMD_PAPER_BACK, CMD_INQUIRY_STA}
        BY <3>1, <4>1, <4>2
      <4>4. 80 \notin {CMD_PAPER_BACK, CMD_INQUIRY_STA}
        BY DEF CMD_INQUIRY_STA, CMD_PAPER_BACK
      <4> QED
        BY <3>3, <4>1, <4>3, <4>4 DEF SameHead
    <3> QED
      BY <3>4, <3>5, <3>6
  <2>4. UNCHANGED <<moved, verdict>> \/ moved' = (CMD_PAPER_BACK \in known)
    BY <1>3 DEF SendPaperBack
  <2>5. CASE ~UNCHANGED <<moved, verdict>>
    BY <2>3, <2>4, <2>5, QuietStep DEF UnmovedIsTrue
  <2> QED
    BY <2>2, <2>5
<1>4. CASE Calibrate \/ Ask
  <2>1. ~Command /\ UNCHANGED <<verdict, moved>>
    BY <1>4 DEF Calibrate, Ask, printerVars, Command, Provision, HeatSweep, ProbeReads,
                PaperBack, Feed, Begin
  <2> QED
    BY <1>2, <2>1
<1>5. CASE Disturb
  <2>1. UNCHANGED <<slips, kind, verdict, moved>>
    BY <1>5 DEF Disturb, linkVars
  <2> QED
    BY <2>1, QuietStep DEF UnmovedIsTrue
<1> QED
  BY <1>1, <1>2, <1>3, <1>4, <1>5, QuietStep

LEMMA CalibrationNext == TypeOK /\ AtCalibration /\ [Next]_vars => AtCalibration'
<1> SUFFICES ASSUME TypeOK, AtCalibration, [Next]_vars
             PROVE  AtCalibration'
  OBVIOUS
<1>1. CASE Provision \/ HeatSweep \/ Feed
  <2>1. pc' \notin {"control", "calibrate", "before", "back"}
    BY <1>1 DEF Provision, HeatSweep, Feed, Begin
  <2> QED
    BY <2>1 DEF AtCalibration
<1>2. CASE ProbeReads
  <2>1. pc' \in {"control", "idle"}
    BY <1>2 DEF ProbeReads, Begin
  <2>2. PICK also \in Requested : todo' = UNALLOCATED \o READS \o also
    BY <1>2 DEF ProbeReads
  <2>3. also \in Seq(Opcodes)
    BY OpsAssumption
  <2>4. /\ Len(todo') >= 3 /\ todo'[1] = 80 /\ todo'[2] = 81
        /\ todo'[3] \notin {80, 81, CMD_PAPER_BACK}
    BY <2>2, <2>3, ProbeList
  <2> QED
    BY <2>1, <2>4 DEF AtCalibration
<1>3. CASE PaperBack
  <2>1. pc' \in {"calibrate", "idle"} /\ late' = <<>> /\ slips' = 0 /\ baseline' = Nothing
    BY <1>3 DEF PaperBack, Begin
  <2>2. todo' = <<80, CMD_PAPER_BACK>>
    BY <1>3, UnallocatedOps DEF PaperBack
  <2> QED
    BY <2>1, <2>2 DEF AtCalibration
<1>4. CASE Announce \/ Confirm \/ PrintStrip \/ Ask \/ Inquire \/ SendPaperBack
           \/ ShowStatus("after", "idle") \/ SkipLabel
  <2>1. pc' \notin {"control", "calibrate", "before", "back"}
    BY <1>4 DEF Announce, Confirm, Provisioned, PrintStrip, Ask, Inquire, SendPaperBack, ShowStatus,
                SkipLabel, Return
  <2> QED
    BY <2>1 DEF AtCalibration
<1>5. CASE Control
  <2>1. pc = "control" /\ pc' \in {"idle", "calibrate"} /\ UNCHANGED <<todo, baseline>>
    BY <1>5 DEF Control, Return
  <2>2. Len(todo) >= 3 /\ todo[1] = 80 /\ todo[2] = 81 /\ todo[3] \notin {80, 81, CMD_PAPER_BACK}
    BY <2>1 DEF AtCalibration
  <2> QED
    BY <2>1, <2>2 DEF AtCalibration
<1>6. CASE Calibrate
  <2>1. /\ pc = "calibrate" /\ todo \in Seq(Opcodes) /\ Len(todo) \in Nat
        /\ Head(todo) = todo[1] /\ todo[1] \in {80, 81}
        /\ Tail(todo) \in Seq(Opcodes) /\ Len(Tail(todo)) = Len(todo) - 1
        /\ Head(Tail(todo)) = todo[2]
        /\ \A i \in 1..(Len(todo) - 1) : Tail(todo)[i] = todo[i + 1]
    <3>1. pc = "calibrate"
      BY <1>6 DEF Calibrate
    <3> QED
      BY <3>1, CalibrationStep, LenProperties
  <2>2. CASE pc' = "idle"
    BY <2>2 DEF AtCalibration
  <2>3. ASSUME pc' # "idle"
        PROVE  /\ todo' = Tail(todo)
               /\ todo[2] \in {80, 81} => pc' = "calibrate"
               /\ todo[2] \notin {80, 81} =>
                    pc' = IF todo' = <<CMD_PAPER_BACK>> THEN "before" ELSE "ask"
    <3>1. /\ todo' = Tail(todo)
          /\ IF Head(todo') \in Range(UNALLOCATED) THEN pc' = pc
             ELSE \/ pc' = "idle"
                  \/ pc' = IF todo' = <<CMD_PAPER_BACK>> THEN "before" ELSE "ask"
      BY <1>6, <2>3 DEF Calibrate, Return
    <3>2. Head(todo') = todo[2]
      BY <2>1, <3>1
    <3> QED
      BY <2>1, <2>3, <3>1, <3>2, UnallocatedOps
  <2>4. CASE /\ pc' # "idle" /\ todo = <<80, CMD_PAPER_BACK>> /\ baseline = Nothing
             /\ late = <<>> /\ slips = 0
    <3>1. todo[1] = 80 /\ todo[2] = CMD_PAPER_BACK /\ todo[2] \notin {80, 81} /\ Tail(todo) = <<CMD_PAPER_BACK>>
      BY <2>4 DEF CMD_PAPER_BACK
    <3>2. todo' = <<CMD_PAPER_BACK>> /\ pc' = "before"
      BY <2>3, <2>4, <3>1
    <3> DEFINE r == Answer(80)
    <3>3. r \in Replies /\ r.op = 80
      BY OpcodesInRange, RepliesToCommands, AnswersTrue
    <3> HIDE DEF r
    <3>4. PICK o \in Outcomes(r) : Exchange(o) /\ baseline' = o.got /\ o.got # Nothing
      BY <1>6, <2>1, <2>4, <3>1, <3>2, UnallocatedOps DEF Calibrate, Calibrated, Return, r
    <3>5. o.got = r /\ o.late = <<>>
      <4>1. PICK left \in {late, <<>>} : InTime(o, r, left) \/ Astray(o, r, left)
        BY <3>3, OutcomeCases
      <4>2. left = <<>>
        BY <2>4, <4>1
      <4> QED
        BY <3>4, <4>1, <4>2 DEF InTime, Astray
    <3>6. baseline'.op = 80 /\ Len(late') = 0
      BY <3>3, <3>4, <3>5 DEF Exchange
    <3> QED
      BY <3>2, <3>6 DEF AtCalibration
  <2>5. CASE /\ pc' # "idle" /\ Len(todo) >= 3 /\ todo[1] = 80 /\ todo[2] = 81
             /\ todo[3] \notin {80, 81, CMD_PAPER_BACK}
    <3>1. todo' = Tail(todo) /\ pc' = "calibrate"
      BY <2>3, <2>5
    <3>2. 1 \in 1..(Len(todo) - 1) /\ 2 \in 1..(Len(todo) - 1) /\ 1 + 1 = 2 /\ 2 + 1 = 3
      BY <2>1, <2>5
    <3>3. Tail(todo)[1] = 81 /\ Tail(todo)[2] = todo[3] /\ Len(Tail(todo)) >= 2
      BY <2>1, <2>5, <3>2
    <3> QED
      BY <2>5, <3>1, <3>3 DEF AtCalibration
  <2>6. CASE pc' # "idle" /\ Len(todo) >= 2 /\ todo[1] = 81 /\ todo[2] \notin {80, 81, CMD_PAPER_BACK}
    <3>1. Tail(todo) # <<CMD_PAPER_BACK>>
      <4>1. Head(<<CMD_PAPER_BACK>>) = CMD_PAPER_BACK
        OBVIOUS
      <4> QED
        BY <2>1, <2>6, <4>1
    <3>2. pc' = "ask"
      BY <2>3, <2>6, <3>1
    <3> QED
      BY <3>2 DEF AtCalibration
  <2> QED
    BY <2>1, <2>2, <2>4, <2>5, <2>6 DEF AtCalibration
<1>7. CASE ShowStatus("before", "back")
  <2> DEFINE r == Reply(CMD_INQUIRY_STA, "plain")
  <2>1. r \in Replies /\ r.op = CMD_INQUIRY_STA
    BY RepliesToCommands, AnswersTrue
  <2> HIDE DEF r
  <2>2. pc = "before" /\ pc' \in {"idle", "back"} /\ UNCHANGED <<todo, baseline>>
    BY <1>7 DEF ShowStatus, Return, probeVars
  <2>3. (\E o \in Outcomes(r) : Exchange(o)) \/ UNCHANGED linkVars
    BY <1>7 DEF ShowStatus, r
  <2>4. /\ todo = <<CMD_PAPER_BACK>> /\ baseline.op = 80
        /\ \A i \in 1..Len(late) : late[i].op = CMD_INQUIRY_STA
    BY <2>2 DEF AtCalibration
  <2>5. \A i \in 1..Len(late') : late'[i].op = CMD_INQUIRY_STA
    <3>1. CASE UNCHANGED linkVars
      BY <2>4, <3>1 DEF linkVars
    <3>2. CASE \E o \in Outcomes(r) : Exchange(o)
      <4>1. PICK o \in Outcomes(r) : late' = o.late
        BY <3>2 DEF Exchange
      <4> QED
        BY <2>1, <2>4, <4>1, OutcomeEntries
    <3> QED
      BY <2>3, <3>1, <3>2
  <2> QED
    BY <2>2, <2>4, <2>5 DEF AtCalibration
<1>8. CASE Settle \/ Disturb \/ UNCHANGED vars
  <2>1. UNCHANGED <<pc, todo, baseline, late, slips>>
    BY <1>8 DEF Settle, Disturb, vars, linkVars, probeVars
  <2> QED
    BY <2>1 DEF AtCalibration
<1> QED
  BY <1>1, <1>2, <1>3, <1>4, <1>5, <1>6, <1>7, <1>8 DEF Next, Command, CommandStep

-----------------------------------------------------------------------------
(* The theorems *)

LEMMA InitHolds == Init => IInv
<1> SUFFICES ASSUME Init PROVE IInv
  OBVIOUS
<1>1. TypeOK
  BY TypeInit
<1>2. /\ late = <<>> /\ slips = 0 /\ pc = "idle" /\ strips = <<>> /\ regs = {} /\ blind = 0 /\ after = 0
      /\ baseline = Nothing /\ asked = {} /\ listed = {} /\ verdict = "none"
  BY DEF Init
<1>3. Len(<<>>) = 0
  OBVIOUS
<1>4. Unread /\ OursServed
  BY <1>2, <1>3 DEF Unread, OursServed
<1>5. AtWrite /\ TakenTrue /\ StripsExplained
  BY <1>2 DEF AtWrite, TakenTrue, StripsExplained
<1>6. ErrorInv
  <2>1. ShowsError(late, 0) /\ 0 \in 0..Len(late)
    BY <1>2, <1>3 DEF ShowsError
  <2>2. after + 0 <= slips + (IF pc \in {"inquire", "idle"} THEN 1 ELSE 0)
    BY <1>2
  <2> QED
    BY <1>2, <2>1, <2>2 DEF ErrorInv
<1>7. AtCalibration
  BY <1>2 DEF AtCalibration
<1>8. BaselineTrue
  <2>1. known \subseteq Range(READS) \union {CMD_PAPER_BACK}
    BY DEF Init
  <2>2. 80 \notin Range(READS) /\ 81 \notin Range(READS)
    BY OpsAssumption, UnallocatedOps DEF Range
  <2>3. 80 \notin known /\ 81 \notin known
    BY <2>1, <2>2 DEF CMD_PAPER_BACK
  <2>4. told \subseteq known /\ (kind # "usb" => told = known)
    BY DEF Init
  <2> QED
    BY <1>2, <2>3, <2>4 DEF BaselineTrue
<1>9. ListedRight /\ UnmovedIsTrue /\ BlindBound
  BY <1>2 DEF ListedRight, UnmovedIsTrue, BlindBound
<1> QED
  BY <1>1, <1>4, <1>5, <1>6, <1>7, <1>8, <1>9 DEF IInv, StripInv, ProbeInv

LEMMA NextHolds == IInv /\ [Next]_vars => IInv'
<1> SUFFICES ASSUME IInv, [Next]_vars PROVE IInv'
  OBVIOUS
<1>1. /\ TypeOK /\ Unread /\ StripInv /\ ErrorInv /\ BlindBound /\ AtCalibration
      /\ BaselineTrue /\ ListedRight /\ UnmovedIsTrue
  BY DEF IInv, ProbeInv
<1>2. TypeOK' /\ AtCalibration' /\ Unread'
  BY <1>1, TypeNext, CalibrationNext, UnreadNext
<1>3. StripInv'
  BY <1>1, StripsNext
<1>4. ErrorInv' /\ BlindBound' /\ BaselineTrue' /\ ListedRight' /\ UnmovedIsTrue'
  BY <1>1, ErrorNext, BlindNext, BaselineNext, ListedNext, UnmovedNext
<1> QED
  BY <1>2, <1>3, <1>4 DEF IInv, ProbeInv

\* The variables keep their types, and a command knows where it stands: it has an
\* opcode to ask and a baseline to compare with wherever it uses one
\* (cmd_probe_reads and cmd_paper_back return before they would not).
THEOREM TypeCorrect == Spec => []TypeOK
<1>1. IInv => TypeOK
  BY DEF IInv
<1> QED
  BY <1>1, InitHolds, NextHolds, PTL DEF Spec

\* Whatever the order of writes, commits and confirmation polls, and whatever is
\* lost, a strip burned under another profile than announced had a warning above
\* it, or was written over another record of ours (cmd_heat_sweep, provision).
THEOREM SweepExplained == Spec => []StripsExplained
<1>1. IInv => StripsExplained
  BY DEF IInv, StripInv
<1> QED
  BY <1>1, InitHolds, NextHolds, PTL DEF Spec

\* While an error is up, probe-reads sends at most the control and the two opcodes
\* that do not exist, before which it asks for no status, and one opcode more, and
\* one for each reply that went astray, however many errors came and went before;
\* over USB this is so as long as none has (the status inquiry after each opcode).
THEOREM ProbeStops == Spec => []ProbeStopsAtError
<1>1. IInv => ProbeStopsAtError
  BY ErrorStops DEF IInv, ProbeInv
<1> QED
  BY <1>1, InitHolds, NextHolds, PTL DEF Spec

\* With every reply in time, probe-reads misses no opcode whose answer differs from
\* that of one that does not exist, which where the opcode is echoed is every one;
\* over USB, with the registers as they were, it lists none that is not implemented,
\* whatever the firmware implements and however it answers.
THEOREM ListsRight == Spec => []ListedRight
<1>1. IInv => ListedRight
  BY DEF IInv, ProbeInv
<1> QED
  BY <1>1, InitHolds, NextHolds, PTL DEF Spec

\* paper-back says that nothing moved of paper that went back only over USB, and
\* only of a printer whose answer to PAPER_BACK is that to an opcode it does not
\* know, or after a reply went astray (the comparison with the baseline).
THEOREM UnmovedTrue == Spec => []UnmovedIsTrue
<1>1. IInv => UnmovedIsTrue
  BY DEF IInv, ProbeInv
<1> QED
  BY <1>1, InitHolds, NextHolds, PTL DEF Spec
=============================================================================
