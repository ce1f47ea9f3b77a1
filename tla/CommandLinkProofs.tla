------------------------- MODULE CommandLinkProofs --------------------------
(***************************************************************************)
(* CommandLink for every number of requests and every set of opcodes: how  *)
(* far a reply can be from the command it is taken for.  The induction     *)
(* follows the replies that are still out, at the printer or at the host.  *)
(***************************************************************************)
EXTENDS CommandLink, TLAPS

Of(s) == {s[i] : i \in 1..Len(s)}
Pending == Of(owed) \union Of(inbox)
Outstanding == Len(owed) + Len(inbox)

\* The request in hand is the last one sent, and no reply is ahead of it.
RequestIsLast ==
  /\ req.id = sent
  /\ \A m \in Pending : m.id <= sent

\* While no wait has timed out and no ack been left, nothing is out but the
\* reply being waited for.
InStep ==
  slips = 0 =>
    /\ Outstanding <= Waiting
    /\ \A m \in Pending : m.id = req.id

\* RFCOMM: what is out besides the reply waited for was owed at the write.
DrainedAtWrite ==
  kind = "rfcomm" => \A m \in Pending : m.id = req.id \/ m.id \in req.late

\* What was taken is explained; StaleExplained is a part of it.
TakenExplained ==
  result.how = "taken" =>
    /\ slips = 0 => result.reply.id = req.id
    /\ kind # "usb" /\ req.op \in Checked => result.reply.op = req.op
    /\ kind = "ble" => result.reply.op = req.op
    /\ kind = "rfcomm" => result.reply.id = req.id \/ result.reply.id \in req.late

IInv == TypeOK /\ UsbLag /\ RequestIsLast /\ InStep /\ DrainedAtWrite /\ TakenExplained

-----------------------------------------------------------------------------
(* Sequences of messages *)

LEMMA AppendSeq ==
  ASSUME NEW S, NEW s \in Seq(S), NEW e \in S
  PROVE  /\ Append(s, e) \in Seq(S)
         /\ Len(Append(s, e)) = Len(s) + 1
         /\ Of(Append(s, e)) = Of(s) \union {e}
<1>1. Append(s, e) \in Seq(S) /\ Len(Append(s, e)) = Len(s) + 1
  OBVIOUS
<1>2. \A i \in 1..Len(s) : Append(s, e)[i] = s[i]
  OBVIOUS
<1>3. Append(s, e)[Len(s) + 1] = e
  OBVIOUS
<1>4. Len(s) \in Nat
  OBVIOUS
<1>5. 1..(Len(s) + 1) = 1..Len(s) \union {Len(s) + 1}
  BY <1>4
<1>6. Of(Append(s, e)) = {Append(s, e)[i] : i \in 1..Len(s)} \union {e}
  BY <1>1, <1>3, <1>5 DEF Of
<1> QED
  BY <1>1, <1>2, <1>6 DEF Of

LEMMA TailSeq ==
  ASSUME NEW S, NEW s \in Seq(S), s # <<>>
  PROVE  /\ Head(s) \in S /\ Head(s) \in Of(s)
         /\ Tail(s) \in Seq(S)
         /\ Len(Tail(s)) = Len(s) - 1 /\ Len(s) > 0
         /\ Of(Tail(s)) \subseteq Of(s)
<1>1. Len(s) \in Nat /\ Len(s) > 0
  OBVIOUS
<1>2. Head(s) = s[1] /\ Head(s) \in S /\ Tail(s) \in Seq(S) /\ Len(Tail(s)) = Len(s) - 1
  BY <1>1
<1>3. \A i \in 1..Len(Tail(s)) : Tail(s)[i] = s[i + 1] /\ i + 1 \in 1..Len(s)
  BY <1>1, <1>2
<1> QED
  BY <1>1, <1>2, <1>3 DEF Of

-----------------------------------------------------------------------------
(* The induction *)

LEMMA InitInv == Init => IInv
<1> SUFFICES ASSUME Init PROVE IInv
  OBVIOUS
<1> USE DEF Init
<1>1. owed \in Seq(Message) /\ inbox \in Seq(Message)
  OBVIOUS
<1>2. TypeOK
  <2>1. 0 \in 0..MaxSent /\ 0 \in 0..MaxFrames /\ 0 \in 0..MaxOpens /\ 0 \in Nat
    BY LinkBoundsAssumption
  <2>2. req \in [id: 0..MaxSent, op: Ops \union {"frame", "none"}, late: SUBSET (1..MaxSent)]
    BY <2>1
  <2>3. bulk \in [left: 0..MaxFrames, final: BOOLEAN]
    BY <2>1 DEF NoBulk
  <2>4. result \in [how: {"none", "taken", "refused", "timeout", "io"},
                   reply: Message \union {NoMessage}]
    OBVIOUS
  <2>5. attempt \in 0..CONNECT_ATTEMPTS + 1
    BY DEF CONNECT_ATTEMPTS
  <2> QED
    BY <1>1, <2>1, <2>2, <2>3, <2>4, <2>5 DEF TypeOK
<1>3. Len(owed) = 0 /\ Len(inbox) = 0 /\ Pending = {}
  BY DEF Pending, Of
<1> QED
  BY <1>2, <1>3 DEF IInv, UsbLag, RequestIsLast, InStep, DrainedAtWrite,
                    TakenExplained, Waiting, Outstanding

\* Opening the link, and the head of a transfer, touch nothing that is out.
LEMMA QuietInv ==
  ASSUME IInv, TypeOK', UNCHANGED <<kind, wireVars, slips, result>>,
         phase # "await", phase' # "await"
  PROVE  IInv'
BY DEF IInv, UsbLag, RequestIsLast, InStep, DrainedAtWrite, TakenExplained,
       Waiting, Outstanding, Pending, Of, wireVars

\* A request goes out, and its reply is waited for or counted as left.
LEMMA WriteInv ==
  ASSUME IInv, TypeOK', NEW op, NEW answered \in BOOLEAN, Write(op, answered),
         phase # "await", UNCHANGED kind,
         \/ phase' = "await" /\ UNCHANGED slips
         \/ phase' # "await" /\ ~answered /\ UNCHANGED slips
         \/ phase' # "await" /\ kind # "usb" /\ slips' = slips + 1
  PROVE  IInv'
<1> USE DEF IInv, Write
<1>1. owed \in Seq(Message) /\ inbox \in Seq(Message) /\ owed' \in Seq(Message)
      /\ inbox' \in Seq(Message) /\ slips \in Nat /\ sent \in Nat
  BY DEF TypeOK
<1> DEFINE new == [id |-> sent + 1, op |-> op]
<1>2. answered => new \in Message
  <2>1. ASSUME answered PROVE new \in Message
    <3>1. owed' = Append(owed, new)
      BY <2>1
    <3>2. Len(owed) \in Nat /\ Len(owed') = Len(owed) + 1
      BY <1>1, <3>1
    <3>3. owed'[Len(owed) + 1] = new
      BY <1>1, <3>1
    <3> QED
      BY <1>1, <3>2, <3>3
  <2> QED
    BY <2>1
<1>3. /\ answered => Len(owed') = Len(owed) + 1 /\ Of(owed') = Of(owed) \union {new}
      /\ ~answered => Len(owed') = Len(owed) /\ Of(owed') = Of(owed)
  BY <1>1, <1>2, AppendSeq
<1>4. Len(inbox') <= Len(inbox) /\ Of(inbox') \subseteq Of(inbox)
      /\ (kind = "rfcomm" => Of(inbox') = {})
      /\ (kind # "rfcomm" => inbox' = inbox)
  BY <1>1 DEF LeftAtWrite, Of
<1>5. Len(owed) \in Nat /\ Len(inbox) \in Nat /\ Len(owed') \in Nat /\ Len(inbox') \in Nat
  BY <1>1
<1>6. UsbLag'
  BY <1>3, <1>4, <1>5, <1>1 DEF UsbLag, Waiting
<1>7. RequestIsLast'
  <2>1. \A m \in Pending' : m \in Pending \/ m = new
    BY <1>3, <1>4 DEF Pending
  <2>2. \A m \in Pending : m.id <= sent + 1
    <3>1. \A m \in Pending : m \in Message
      BY <1>1 DEF Pending, Of
    <3>2. \A m \in Pending : m.id \in Int
      BY <3>1 DEF Message
    <3>3. \A m \in Pending : m.id <= sent
      BY DEF RequestIsLast
    <3> QED
      BY <3>2, <3>3, <1>1
  <2> QED
    BY <2>1, <2>2, <1>1 DEF RequestIsLast
<1>8. InStep'
  <2> SUFFICES ASSUME slips' = 0
               PROVE  Outstanding' <= Waiting' /\ \A m \in Pending' : m.id = req'.id
    BY DEF InStep
  <2>1. slips = 0
    BY <1>1
  <2>2. Outstanding <= 0
    BY <2>1 DEF InStep, Waiting
  <2>3. Len(owed) = 0 /\ Len(inbox) = 0 /\ Of(owed) = {} /\ Of(inbox) = {}
    BY <2>2, <1>5 DEF Outstanding, Of
  <2>4. Len(inbox') = 0 /\ Of(inbox') = {}
    BY <2>3, <1>4, <1>5
  <2>5. answered => phase' = "await"
    BY <2>1, <1>1
  <2> QED
    BY <2>3, <2>4, <2>5, <1>3, <1>5 DEF Outstanding, Waiting, Pending
<1>9. DrainedAtWrite'
  <2> SUFFICES ASSUME kind = "rfcomm", NEW m \in Pending' PROVE m.id = req'.id \/ m.id \in req'.late
    BY DEF DrainedAtWrite
  <2>1. m \in Of(owed) \/ m = new
    BY <1>3, <1>4 DEF Pending
  <2>2. DOMAIN owed = 1..Len(owed)
    BY <1>1
  <2>3. req' = [id |-> sent + 1, op |-> op, late |-> {owed[i].id : i \in 1..Len(owed)}]
    BY <2>2 DEF Ids
  <2>4. CASE m = new
    BY <2>3, <2>4
  <2>5. CASE m \in Of(owed)
    <3>1. m.id \in {owed[i].id : i \in 1..Len(owed)}
      BY <2>5 DEF Of
    <3> QED
      BY <2>3, <3>1
  <2> QED
    BY <2>1, <2>4, <2>5
<1>10. TakenExplained'
  BY DEF TakenExplained
<1> QED
  BY <1>6, <1>7, <1>8, <1>9, <1>10

\* The oldest waiting reply is read, and perhaps all behind it.
LEMMA ReceiveInv == ASSUME IInv, TypeOK', Receive PROVE IInv'
<1> USE DEF IInv, Receive
<1>1. owed \in Seq(Message) /\ inbox \in Seq(Message) /\ inbox # <<>> /\ slips \in Nat
  BY DEF TypeOK
<1>2. Head(inbox) \in Message /\ Head(inbox) \in Pending
  BY <1>1, TailSeq DEF Pending
<1>3. /\ Len(inbox') < Len(inbox) /\ Of(inbox') \subseteq Of(inbox)
      /\ (kind # "rfcomm" => Len(inbox') = Len(inbox) - 1)
      /\ Len(inbox') \in Nat /\ Len(inbox) \in Nat /\ Len(owed) \in Nat
  BY <1>1, TailSeq DEF Of
<1>4. Waiting = 1 /\ Waiting' \in {0, 1}
  BY DEF Waiting
<1>5. UsbLag'
  BY <1>3, <1>4, <1>1 DEF UsbLag
<1>6. \A m \in Pending' : m \in Pending
  BY <1>3 DEF Pending
<1>7. RequestIsLast' /\ DrainedAtWrite'
  BY <1>6 DEF RequestIsLast, DrainedAtWrite
<1>8. InStep'
  BY <1>3, <1>4, <1>6 DEF InStep, Outstanding
<1>9. TakenExplained'
  <2>1. CASE UNCHANGED result
    BY <2>1 DEF TakenExplained
  <2>2. CASE /\ ~(kind = "ble" /\ ~Answers(Head(inbox)))
             /\ result' = [how |-> IF req.op \in Checked /\ ~Answers(Head(inbox))
                                   THEN "refused" ELSE "taken",
                           reply |-> Head(inbox)]
    <3>1. result'.reply = Head(inbox)
      BY <2>2
    <3>2. result'.how = "taken" => ~(req.op \in Checked /\ ~Answers(Head(inbox)))
      BY <2>2
    <3>3. slips' = 0 => Head(inbox).id = req.id
      BY <1>2 DEF InStep
    <3>4. kind = "rfcomm" => Head(inbox).id = req.id \/ Head(inbox).id \in req.late
      BY <1>2 DEF DrainedAtWrite
    <3> QED
      BY <2>2, <3>1, <3>2, <3>3, <3>4 DEF TakenExplained, Answers
  <2> QED
    BY <2>1, <2>2
<1> QED
  BY <1>5, <1>7, <1>8, <1>9

\* The printer answers or forgets what it owes first.
LEMMA PrinterInv == ASSUME IInv, TypeOK', Printer PROVE IInv'
<1> USE DEF IInv
<1>1. owed \in Seq(Message) /\ inbox \in Seq(Message) /\ owed # <<>>
  BY DEF TypeOK, Printer, Answer, Ignore
<1>2. /\ Head(owed) \in Message /\ Head(owed) \in Of(owed)
      /\ Len(Tail(owed)) = Len(owed) - 1 /\ Of(Tail(owed)) \subseteq Of(owed)
      /\ Len(owed) \in Nat /\ Len(inbox) \in Nat
  BY <1>1, TailSeq
<1>3. UNCHANGED <<kind, phase, sent, req, slips, result>> /\ Waiting' = Waiting
  BY DEF Printer, Answer, Ignore, Waiting
<1>4. Outstanding' <= Outstanding /\ Pending' \subseteq Pending
      /\ Outstanding \in Nat /\ Outstanding' \in Nat
  <2>1. CASE Answer
    BY <1>1, <1>2, <2>1, AppendSeq DEF Answer, Outstanding, Pending
  <2>2. CASE Ignore
    BY <1>1, <1>2, <2>2 DEF Ignore, Outstanding, Pending
  <2> QED
    BY <2>1, <2>2 DEF Printer
<1>5. UsbLag'
  <2>1. slips \in Nat /\ Waiting \in {0, 1}
    BY DEF TypeOK, Waiting
  <2> QED
    BY <1>3, <1>4, <2>1 DEF UsbLag, Outstanding
<1>6. RequestIsLast' /\ DrainedAtWrite' /\ TakenExplained'
  BY <1>3, <1>4 DEF RequestIsLast, DrainedAtWrite, TakenExplained
<1>7. InStep'
  <2>1. Waiting \in {0, 1}
    BY DEF Waiting
  <2> QED
    BY <1>3, <1>4, <2>1 DEF InStep
<1> QED
  BY <1>5, <1>6, <1>7

\* A wait that times out is the one slip that is counted for it.
LEMMA TimeOutInv == ASSUME IInv, TypeOK', TimeOut PROVE IInv'
<1> USE DEF IInv, TimeOut
<1>1. /\ UNCHANGED <<kind, sent, req, owed, inbox>> /\ slips' = slips + 1 /\ slips \in Nat
      /\ Len(owed) \in Nat /\ Len(inbox) \in Nat /\ Waiting = 1 /\ Waiting' \in {0, 1}
      /\ Pending' = Pending
  BY DEF wireVars, TypeOK, Waiting, Pending, Of
<1>2. UsbLag'
  BY <1>1 DEF UsbLag
<1>3. RequestIsLast' /\ DrainedAtWrite' /\ TakenExplained' /\ InStep'
  BY <1>1 DEF RequestIsLast, DrainedAtWrite, TakenExplained, InStep, wireVars
<1> QED
  BY <1>2, <1>3

\* A link that has failed has nothing left on it.
LEMMA FailInv == ASSUME IInv, TypeOK', LinkFails PROVE IInv'
<1> USE DEF IInv, LinkFails
<1>1. Len(owed') = 0 /\ Len(inbox') = 0 /\ Pending' = {}
  BY DEF Pending, Of
<1>2. UsbLag'
  <2>1. slips' \in Nat
    BY DEF TypeOK
  <2>2. Waiting' = 0
    BY DEF Waiting
  <2> QED
    BY <1>1, <2>1, <2>2 DEF UsbLag
<1>3. InStep' /\ DrainedAtWrite'
  BY <1>1 DEF InStep, Outstanding, DrainedAtWrite, Waiting
<1>4. RequestIsLast'
  BY <1>1 DEF RequestIsLast
<1>5. TakenExplained'
  BY DEF TakenExplained
<1> QED
  BY <1>2, <1>3, <1>4, <1>5

-----------------------------------------------------------------------------
(* Types *)

LEMMA MessageSent ==
  ASSUME TypeOK, NEW op \in Ops \union {"frame"}, NEW answered \in BOOLEAN,
         Write(op, answered)
  PROVE  /\ sent' \in 0..MaxSent
         /\ req' \in [id: 0..MaxSent, op: Ops \union {"frame", "none"}, late: SUBSET (1..MaxSent)]
         /\ owed' \in Seq(Message) /\ inbox' \in Seq(Message)
         /\ result' \in [how: {"none", "taken", "refused", "timeout", "io"},
                         reply: Message \union {NoMessage}]
<1> USE DEF Write, TypeOK
<1>1. sent \in Nat /\ sent < MaxSent /\ sent + 1 \in 1..MaxSent /\ sent + 1 \in 0..MaxSent
  BY LinkBoundsAssumption
<1>2. [id |-> sent + 1, op |-> op] \in Message
  BY <1>1 DEF Message
<1>3. owed' \in Seq(Message)
  BY <1>2, AppendSeq
<1>4. Ids(owed) \in SUBSET (1..MaxSent)
  <2>1. \A i \in DOMAIN owed : owed[i] \in Message
    OBVIOUS
  <2> QED
    BY <2>1 DEF Ids, Message
<1>5. req' \in [id: 0..MaxSent, op: Ops \union {"frame", "none"}, late: SUBSET (1..MaxSent)]
  BY <1>1, <1>4
<1>6. inbox' \in Seq(Message)
  BY DEF LeftAtWrite
<1> QED
  BY <1>1, <1>3, <1>5, <1>6

LEMMA TypeInv == TypeOK /\ [Next]_vars => TypeOK'
<1> SUFFICES ASSUME TypeOK, [Next]_vars PROVE TypeOK'
  OBVIOUS
<1>1. CASE Open \/ ScanEnds \/ Dial \/ Connected \/ ConnectErrors \/ ConnectTimesOut
          \/ FindChars
  <2>1. /\ opens' \in 0..MaxOpens /\ attempt' \in 0..CONNECT_ATTEMPTS + 1
        /\ phase' = "connecting" => attempt' <= CONNECT_ATTEMPTS
    BY <1>1, LinkBoundsAssumption
    DEF Open, OpenWire, OpenBle, ScanEnds, Dial, Connected, ConnectErrors, ConnectTimesOut,
        NextAttempt, FindChars, openVars, TypeOK, CONNECT_ATTEMPTS
  <2> QED
    BY <1>1, <2>1
    DEF Open, OpenWire, OpenBle, ScanEnds, Dial, Connected, ConnectErrors, ConnectTimesOut,
        NextAttempt, LeftToBluez, FindChars, openVars, wireVars, TypeOK, Opening
<1>2. ASSUME NEW op \in Ops, SendCommand(op) PROVE TypeOK'
  BY <1>2, MessageSent DEF SendCommand, TypeOK, openVars
<1>3. ASSUME NEW frames \in 1..MaxFrames, NEW final \in BOOLEAN, BeginBulk(frames, final)
      PROVE  TypeOK'
  BY <1>3 DEF BeginBulk, TypeOK, openVars, wireVars
<1>4. CASE SendFrame
  <2>1. FrameAnswered \in BOOLEAN
    BY DEF FrameAnswered, IsLast
  <2>2. /\ sent' \in 0..MaxSent
        /\ req' \in [id: 0..MaxSent, op: Ops \union {"frame", "none"}, late: SUBSET (1..MaxSent)]
        /\ owed' \in Seq(Message) /\ inbox' \in Seq(Message)
        /\ result' \in [how: {"none", "taken", "refused", "timeout", "io"},
                        reply: Message \union {NoMessage}]
    BY <1>4, <2>1, MessageSent DEF SendFrame
  <2>3. bulk' \in [left: 0..MaxFrames, final: BOOLEAN] /\ (phase' = "frames" => bulk'.left > 0)
    <3>1. bulk \in [left: 0..MaxFrames, final: BOOLEAN] /\ bulk.left > 0
      BY <1>4 DEF SendFrame, TypeOK
    <3>2. CASE IsLast
      BY <1>4, <3>2, LinkBoundsAssumption DEF SendFrame, NoBulk, WantReply, IsLast
    <3>3. CASE ~IsLast
      <4>1. bulk' = [bulk EXCEPT !.left = @ - 1] /\ bulk.left - 1 \in 0..MaxFrames /\ bulk.left > 1
        BY <1>4, <3>1, <3>3, LinkBoundsAssumption DEF SendFrame, IsLast
      <4> QED
        BY <3>1, <4>1
    <3> QED
      BY <3>2, <3>3
  <2>4. slips' \in Nat /\ phase' \in {"await", "idle", "frames"}
    BY <1>4 DEF SendFrame, TypeOK
  <2> QED
    BY <1>4, <2>2, <2>3, <2>4 DEF SendFrame, TypeOK, openVars
<1>5. CASE Receive
  <2>1. Head(inbox) \in Message /\ Tail(inbox) \in Seq(Message)
    BY <1>5, TailSeq DEF Receive, TypeOK
  <2> QED
    BY <1>5, <2>1 DEF Receive, TypeOK, openVars, After
<1>6. CASE TimeOut
  BY <1>6 DEF TimeOut, TypeOK, openVars, wireVars, After
<1>7. CASE LinkFails
  BY <1>7, LinkBoundsAssumption DEF LinkFails, TypeOK, NoBulk
<1>8. CASE Printer
  <2>1. owed # <<>>
    BY <1>8 DEF Printer, Answer, Ignore
  <2>2. Head(owed) \in Message /\ Tail(owed) \in Seq(Message)
    BY <2>1, TailSeq DEF TypeOK
  <2>3. Append(inbox, Head(owed)) \in Seq(Message)
    BY <2>2, AppendSeq DEF TypeOK
  <2> QED
    BY <1>8, <2>2, <2>3 DEF Printer, Answer, Ignore, TypeOK, openVars
<1>9. CASE BluezSettles \/ UNCHANGED vars
  BY <1>9 DEF BluezSettles, vars, openVars, wireVars, TypeOK
<1> QED
  BY <1>1, <1>2, <1>3, <1>4, <1>5, <1>6, <1>7, <1>8, <1>9 DEF Next, CallStep

\* Every step keeps the replies that are out explained.
LEMMA NextInv == IInv /\ [Next]_vars => IInv'
<1> SUFFICES ASSUME IInv, [Next]_vars PROVE IInv'
  OBVIOUS
<1>0. TypeOK /\ TypeOK'
  BY TypeInv DEF IInv
<1>1. CASE Open \/ ScanEnds \/ Dial \/ Connected \/ ConnectErrors \/ ConnectTimesOut
          \/ FindChars
  BY <1>0, <1>1, QuietInv
  DEF Open, OpenWire, OpenBle, ScanEnds, Dial, Connected, ConnectErrors, ConnectTimesOut,
      NextAttempt, FindChars
<1>2. ASSUME NEW op \in Ops, SendCommand(op) PROVE IInv'
  <2>1. Write(op, TRUE) /\ phase # "await" /\ phase' = "await" /\ UNCHANGED <<kind, slips>>
    BY <1>2 DEF SendCommand
  <2> QED
    BY <1>0, <2>1, WriteInv
<1>3. ASSUME NEW frames \in 1..MaxFrames, NEW final \in BOOLEAN, BeginBulk(frames, final)
      PROVE  IInv'
  BY <1>0, <1>3, QuietInv DEF BeginBulk
<1>4. CASE SendFrame
  <2>1. FrameAnswered \in BOOLEAN /\ Write("frame", FrameAnswered)
        /\ phase # "await" /\ UNCHANGED kind
    BY <1>4 DEF SendFrame, FrameAnswered, IsLast
  <2>2. CASE WantReply
    <3>1. phase' = "await" /\ UNCHANGED slips
      BY <1>4, <2>2 DEF SendFrame
    <3> QED
      BY <1>0, <2>1, <3>1, WriteInv
  <2>3. CASE ~WantReply /\ kind = "rfcomm"
    <3>1. phase' # "await" /\ slips' = slips + 1
      BY <1>4, <2>3 DEF SendFrame
    <3> QED
      BY <1>0, <2>1, <2>3, <3>1, WriteInv
  <2>4. CASE ~WantReply /\ kind # "rfcomm"
    <3>1. phase' # "await" /\ UNCHANGED slips
      BY <1>4, <2>4 DEF SendFrame
    <3>2. ~FrameAnswered
      BY <2>4 DEF FrameAnswered, WantReply
    <3> QED
      BY <1>0, <2>1, <3>1, <3>2, WriteInv
  <2> QED
    BY <2>2, <2>3, <2>4
<1>5. CASE Receive \/ TimeOut \/ LinkFails \/ Printer
  BY <1>0, <1>5, ReceiveInv, TimeOutInv, FailInv, PrinterInv
<1>6. CASE BluezSettles \/ UNCHANGED vars
  BY <1>6, <1>0 DEF BluezSettles, vars, openVars, wireVars, IInv, TypeOK, UsbLag, RequestIsLast, InStep,
              DrainedAtWrite, TakenExplained, Waiting, Outstanding, Pending, Of
<1> QED
  BY <1>1, <1>2, <1>3, <1>4, <1>5, <1>6 DEF Next, CallStep

\* The variables keep their types.
THEOREM TypeCorrect == Spec => []TypeOK
<1>1. IInv => TypeOK
  BY DEF IInv
<1> QED
  BY <1>1, InitInv, NextInv, PTL DEF Spec

\* Over USB the host is behind by at most one reply per wait that timed out,
\* whatever commands and transfers are sent.
THEOREM UsbKeepsUp == Spec => []UsbLag
<1>1. IInv => UsbLag
  BY DEF IInv
<1> QED
  BY <1>1, InitInv, NextInv, PTL DEF Spec

\* On each link, a reply passes for another's only for the reasons that
\* StaleExplained names.
THEOREM StaleRepliesExplained == Spec => []StaleExplained
<1>1. IInv => StaleExplained
  <2> SUFFICES ASSUME IInv, Stale PROVE StaleExplained
    BY DEF StaleExplained
  <2>1. slips \in Nat /\ req.id \in Int /\ TakenExplained
    BY DEF IInv, TypeOK
  <2>2. result.reply.id # req.id
    BY <2>1 DEF Stale, IInv, TypeOK, Message, NoMessage
  <2> QED
    BY <2>1, <2>2 DEF TakenExplained, StaleExplained, Stale
<1> QED
  BY <1>1, InitInv, NextInv, PTL DEF Spec

-----------------------------------------------------------------------------
(* Opening over BLE *)

\* A discovery session is open only in the scan, a Connect pending only while it
\* is waited for or left to BlueZ, and whatever uses the link has it connected;
\* ConnectClean is a part of it.
OpenClean ==
  /\ scanning => phase = "scan"
  /\ phase = "connecting" => bluez = "pending"
  /\ bluez = "pending" => phase = "connecting" \/ loose
  /\ phase \in {"scan", "dial", "connecting", "chars"} => kind = "ble"
  /\ kind = "ble" /\ phase \in {"chars", "idle", "await", "frames"} => bluez = "on"

LEMMA OpenCleanInit == Init => OpenClean
BY DEF Init, OpenClean

LEMMA OpenCleanNext == OpenClean /\ [Next]_vars => OpenClean'
<1> SUFFICES ASSUME OpenClean, [Next]_vars PROVE OpenClean'
  OBVIOUS
<1> USE DEF OpenClean
<1>1. CASE Open
  BY <1>1 DEF Open, OpenWire, OpenBle
<1>2. CASE ScanEnds \/ Dial \/ Connected \/ FindChars
  BY <1>2 DEF ScanEnds, Dial, Connected, FindChars, openVars
<1>3. CASE ConnectErrors \/ ConnectTimesOut
  BY <1>3 DEF ConnectErrors, ConnectTimesOut, NextAttempt, LeftToBluez
<1>4. CASE BluezSettles
  BY <1>4 DEF BluezSettles
<1>5. CASE Receive \/ TimeOut \/ SendFrame
  BY <1>5 DEF Receive, TimeOut, SendFrame, After, openVars
<1>6. ASSUME NEW op \in Ops, SendCommand(op) PROVE OpenClean'
  BY <1>6 DEF SendCommand, openVars
<1>7. ASSUME NEW frames \in 1..MaxFrames, NEW final \in BOOLEAN, BeginBulk(frames, final)
      PROVE  OpenClean'
  BY <1>7 DEF BeginBulk, openVars
<1>8. CASE LinkFails \/ Printer \/ UNCHANGED vars
  BY <1>8 DEF LinkFails, Printer, Answer, Ignore, vars, openVars
<1> QED
  BY <1>1, <1>2, <1>3, <1>4, <1>5, <1>6, <1>7, <1>8 DEF Next, CallStep

\* However often the link is opened and fails, no Connect is issued into an open
\* scan, none outlives its attempt but one that an error or a failed Disconnect has
\* left to BlueZ, and no link is used before its Connect is complete.
THEOREM OpensClean == Spec => []ConnectClean
<1>1. OpenClean => ConnectClean
  BY DEF OpenClean, ConnectClean
<1> QED
  BY <1>1, OpenCleanInit, OpenCleanNext, PTL DEF Spec

-----------------------------------------------------------------------------
(* Waiting *)

\* A request the printer answers is among those it owes once it is written.
LEMMA WriteOwes ==
  ASSUME TypeOK, NEW op \in Ops \union {"frame"}, Write(op, TRUE)
  PROVE  req'.id \in Ids(owed')
<1> DEFINE new == [id |-> sent + 1, op |-> op]
<1>1. owed \in Seq(Message) /\ sent \in Nat /\ new \in Message /\ owed' = Append(owed, new)
  BY LinkBoundsAssumption DEF Write, TypeOK, Message
<1>2. Len(owed) + 1 \in DOMAIN owed' /\ owed'[Len(owed) + 1] = new
  BY <1>1
<1>3. req'.id = new.id
  BY DEF Write
<1> QED
  BY <1>2, <1>3 DEF Ids

LEMMA WaitNext ==
  TypeOK /\ [Next]_vars => (phase' = "await" /\ phase # "await" => req'.id \in Ids(owed'))
<1> SUFFICES ASSUME TypeOK, [Next]_vars, phase' = "await", phase # "await"
             PROVE  req'.id \in Ids(owed')
  OBVIOUS
<1>1. ASSUME NEW op \in Ops, SendCommand(op) PROVE req'.id \in Ids(owed')
  BY <1>1, WriteOwes DEF SendCommand
<1>2. CASE SendFrame
  <2>1. WantReply
    BY <1>2 DEF SendFrame
  <2>2. FrameAnswered
    BY <2>1 DEF WantReply, FrameAnswered, AcksDataFrames
  <2>3. Write("frame", TRUE)
    BY <1>2, <2>2 DEF SendFrame, Write
  <2> QED
    BY <2>3, WriteOwes
<1>3. phase' # "await" \/ phase = "await"
      \/ (\E op \in Ops : SendCommand(op)) \/ SendFrame
  BY DEF Next, CallStep, Open, OpenWire, OpenBle, ScanEnds, Dial, Connected, ConnectErrors,
         ConnectTimesOut, NextAttempt, BluezSettles, FindChars, Receive, TimeOut, After,
         BeginBulk, LinkFails, Printer, Answer, Ignore, vars
<1> QED
  BY <1>1, <1>2, <1>3

\* No link waits a whole timeout for a reply that the printer never sends to what
\* was written, be it a command or a frame of a transfer.
THEOREM WaitsAreAnswered == Spec => WaitsForAnAnswer
<1>1. IInv => TypeOK
  BY DEF IInv
<1> QED
  BY <1>1, InitInv, NextInv, WaitNext, PTL DEF Spec, WaitsForAnAnswer

=============================================================================
