---------------------------- MODULE CommandLink -----------------------------
(***************************************************************************)
(* The command link under Printer: opening it (Printer::open_target), one  *)
(* command and its reply (Transport::send_cmd) and a bulk transfer         *)
(* (Transport::send_bulk_data), over each of the three links:              *)
(*                                                                         *)
(*   usb     hidraw reports; the oldest report waiting is the reply, no    *)
(*           opcode is echoed                                              *)
(*   rfcomm  a byte stream, drained before each write; all that is there   *)
(*           when the reply is read is one reply, judged by its first      *)
(*   ble     GATT notifications, taken one by one until one echoes         *)
(*                                                                         *)
(* A request is a number and an opcode, a reply carries those of the       *)
(* request it answers.  The printer is external: it answers in order, at   *)
(* any time after, or not at all.  A wait times out whenever no reply it   *)
(* would take is there.                                                    *)
(***************************************************************************)
EXTENDS Integers, Sequences, SequencesExt

CONSTANTS
  Kinds,     \* the links to try
  Ops,       \* opcodes sent as commands
  Checked,   \* those whose caller validates or parses the reply
  MaxSent,   \* bound: commands and data frames sent
  MaxFrames, \* bound: data frames of one transfer
  MaxOpens   \* bound: times the link is opened

CONNECT_ATTEMPTS == 3

ASSUME KindsAssumption == Kinds \subseteq {"usb", "rfcomm", "ble"}
ASSUME OpsAssumption == "frame" \notin Ops /\ "none" \notin Ops /\ Checked \subseteq Ops
ASSUME LinkBoundsAssumption ==
  MaxSent \in Nat \ {0} /\ MaxFrames \in Nat \ {0} /\ MaxOpens \in Nat \ {0}

VARIABLES
  kind,     \* which link
  phase,    \* where the call stands
  opens,    \* times the link was opened
  attempt,  \* connect_with_retry: the attempt in hand
  scanning, \* an LE discovery session is open
  bluez,    \* BlueZ's connection: off, pending or on
  loose,    \* history: the Connect pending is one no Disconnect has ended
  sent,     \* requests sent so far; the number of the last one
  req,      \* the request in hand, with the replies owed when it was sent
  bulk,     \* data frames still to send; the last one's reply is read
  owed,     \* requests the printer has yet to answer
  inbox,    \* replies waiting at the host
  slips,    \* waits that timed out, and acks nobody waited for
  result    \* how the last exchange ended, and the reply it took

openVars == <<opens, attempt, scanning, bluez, loose>>
wireVars == <<sent, req, owed, inbox>>
vars == <<kind, phase, openVars, wireVars, bulk, slips, result>>

Message == [id: 1..MaxSent, op: Ops \union {"frame"}]
NoMessage == [id |-> 0, op |-> "none"]
NoBulk == [left |-> 0, final |-> FALSE]
Opening == {"scan", "dial", "connecting", "chars"}

TypeOK ==
  /\ kind \in Kinds
  /\ phase \in Opening \union {"closed", "idle", "await", "frames"}
  /\ opens \in 0..MaxOpens
  /\ attempt \in 0..CONNECT_ATTEMPTS + 1
  /\ phase = "connecting" => attempt <= CONNECT_ATTEMPTS
  /\ scanning \in BOOLEAN
  /\ bluez \in {"off", "pending", "on"}
  /\ loose \in BOOLEAN
  /\ sent \in 0..MaxSent
  /\ req \in [id: 0..MaxSent, op: Ops \union {"frame", "none"}, late: SUBSET (1..MaxSent)]
  /\ bulk \in [left: 0..MaxFrames, final: BOOLEAN]
  /\ phase = "frames" => bulk.left > 0
  /\ owed \in Seq(Message)
  /\ inbox \in Seq(Message)
  /\ slips \in Nat
  /\ result \in [how: {"none", "taken", "refused", "timeout", "io"},
                 reply: Message \union {NoMessage}]

Init ==
  /\ kind \in Kinds
  /\ phase = "closed" /\ opens = 0 /\ attempt = 0
  /\ scanning = FALSE /\ bluez = "off" /\ loose = FALSE
  /\ sent = 0 /\ req = [id |-> 0, op |-> "none", late |-> {}]
  /\ bulk = NoBulk /\ owed = <<>> /\ inbox = <<>> /\ slips = 0
  /\ result = [how |-> "none", reply |-> NoMessage]

-----------------------------------------------------------------------------
(* Opening *)

\* open_usb, RfcommSocket::connect: a fresh descriptor, nothing in its way.
OpenWire ==
  /\ phase = "closed" /\ kind \in {"usb", "rfcomm"} /\ opens < MaxOpens
  /\ opens' = opens + 1
  /\ phase' \in {"idle", "closed"}
  /\ UNCHANGED <<kind, attempt, scanning, bluez, loose, wireVars, bulk, slips, result>>

\* BlePipe::connect: an address BlueZ knows is dialled, another scanned for.
OpenBle ==
  /\ phase = "closed" /\ kind = "ble" /\ opens < MaxOpens
  /\ opens' = opens + 1
  /\ \/ phase' = "dial" /\ attempt' = 1 /\ UNCHANGED scanning
     \/ bluez # "on" /\ phase' = "scan" /\ scanning' = TRUE /\ UNCHANGED attempt
     \/ phase' = "closed" /\ UNCHANGED <<attempt, scanning>>
  /\ UNCHANGED <<kind, bluez, loose, wireVars, bulk, slips, result>>

\* (faulty variant: dials with the discovery session open)
ScanEndsLeftOpen ==
  /\ phase = "scan"
  /\ \/ phase' = "dial" /\ attempt' = 1
     \/ phase' = "closed" /\ UNCHANGED attempt
  /\ UNCHANGED <<kind, opens, scanning, bluez, loose, wireVars, bulk, slips, result>>

\* scan_for: the session ends before its verdict is used.
ScanEnds ==
  /\ phase = "scan"
  /\ scanning' = FALSE
  /\ \/ phase' = "dial" /\ attempt' = 1
     \/ phase' = "closed" /\ UNCHANGED attempt
  /\ UNCHANGED <<kind, opens, bluez, loose, wireVars, bulk, slips, result>>

\* connect_with_retry: the head of its loop, where it gives up when the attempts
\* are used up or BlueZ cannot be asked.
Dial ==
  /\ phase = "dial"
  /\ \/ phase' = "closed" /\ UNCHANGED bluez
     \/ /\ attempt <= CONNECT_ATTEMPTS /\ bluez = "on"
        /\ phase' = "chars" /\ UNCHANGED bluez
     \/ /\ attempt <= CONNECT_ATTEMPTS /\ bluez # "on"
        /\ phase' = "connecting" /\ bluez' = "pending"
  /\ UNCHANGED <<kind, opens, attempt, scanning, loose, wireVars, bulk, slips, result>>

Connected ==
  /\ phase = "connecting"
  /\ phase' = "chars" /\ bluez' = "on" /\ loose' = FALSE
  /\ UNCHANGED <<kind, opens, attempt, scanning, wireVars, bulk, slips, result>>

\* The attempt in hand is over, and the loop turns.
NextAttempt ==
  /\ phase = "connecting"
  /\ phase' = "dial" /\ attempt' = attempt + 1
  /\ UNCHANGED <<kind, opens, scanning, wireVars, bulk, slips, result>>

\* BlueZ is left as it is: with the Connect over, or with one still pending.
LeftToBluez ==
  \/ bluez' = "off" /\ loose' = FALSE
  \/ bluez' = "pending" /\ loose' = TRUE

\* Connect returns an error: nothing is sent to end it.
ConnectErrors == NextAttempt /\ LeftToBluez

\* (faulty variant: a timed out Connect is not cancelled)
ConnectTimesOutUncancelled == NextAttempt /\ UNCHANGED <<bluez, loose>>

\* (faulty variant: the attempts are not counted)
ConnectTimesOutUncounted ==
  /\ phase = "connecting"
  /\ phase' = "dial" /\ LeftToBluez
  /\ UNCHANGED <<kind, opens, attempt, scanning, wireVars, bulk, slips, result>>

\* Connect does not return in time and Disconnect cancels it, unless that fails
\* too: its result is not looked at.
ConnectTimesOut == NextAttempt /\ LeftToBluez

\* A Connect nobody waits for any longer comes to its end inside BlueZ.
BluezSettles ==
  /\ bluez = "pending" /\ phase # "connecting"
  /\ bluez' \in {"off", "on"} /\ loose' = FALSE
  /\ UNCHANGED <<kind, phase, opens, attempt, scanning, wireVars, bulk, slips, result>>

\* find_chars and the subscription.
FindChars ==
  /\ phase = "chars"
  /\ phase' \in {"idle", "closed"}
  /\ UNCHANGED <<kind, openVars, wireVars, bulk, slips, result>>

-----------------------------------------------------------------------------
(* One request and its reply *)

\* (faulty variant: input left from before is not drained)
LeftAtWriteUndrained == inbox

\* What is still waiting once a write has begun: RFCOMM drains it first.
LeftAtWrite == IF kind = "rfcomm" THEN <<>> ELSE inbox

Ids(messages) == {messages[i].id : i \in DOMAIN messages}

\* The request goes out; `answered` when the printer replies to its like.
Write(op, answered) ==
  /\ sent < MaxSent
  /\ sent' = sent + 1
  /\ req' = [id |-> sent + 1, op |-> op, late |-> Ids(owed)]
  /\ owed' = IF answered THEN Append(owed, [id |-> sent + 1, op |-> op]) ELSE owed
  /\ inbox' = LeftAtWrite
  /\ result' = [how |-> "none", reply |-> NoMessage]

SendCommand(op) ==
  /\ phase = "idle"
  /\ Write(op, TRUE)
  /\ phase' = "await"
  /\ UNCHANGED <<kind, openVars, bulk, slips>>

\* (faulty variant: every reply is taken for that of a data frame)
AfterFrame == "frames"

\* The call, or the frame of a bulk transfer, is over.
After == IF bulk.left > 0 THEN "frames" ELSE "idle"

\* (faulty variant: any notification answers a BLE command)
AnswersAny(reply) == TRUE

\* The reply the caller is content with: opcode echoed, except over USB.
Answers(reply) == kind = "usb" \/ reply.op = req.op

\* send_and_recv, read_response and one turn of await_response.
Receive ==
  /\ phase = "await" /\ inbox # <<>>
  /\ inbox' = IF kind = "rfcomm" THEN <<>> ELSE Tail(inbox)
  /\ IF kind = "ble" /\ ~Answers(Head(inbox))
     THEN UNCHANGED <<phase, result>>
     ELSE /\ phase' = After
          /\ result' = [how |-> IF req.op \in Checked /\ ~Answers(Head(inbox))
                                THEN "refused" ELSE "taken",
                        reply |-> Head(inbox)]
  /\ UNCHANGED <<kind, openVars, sent, req, owed, bulk, slips>>

\* No reply in time: the caller is told so and goes on.
TimeOut ==
  /\ phase = "await" /\ inbox = <<>>
  /\ phase' = After
  /\ slips' = slips + 1
  /\ result' = [how |-> "timeout", reply |-> NoMessage]
  /\ UNCHANGED <<kind, openVars, wireVars, bulk>>

-----------------------------------------------------------------------------
(* A bulk transfer *)

BeginBulk(frames, final) ==
  /\ phase = "idle"
  /\ bulk' = [left |-> frames, final |-> final]
  /\ phase' = "frames"
  /\ UNCHANGED <<kind, openVars, wireVars, slips, result>>

IsLast == bulk.left = 1

\* (faulty variant: a BLE transfer waits for acks)
AcksDataFramesEverywhere == kind \in {"rfcomm", "ble"}

\* acks_data_frames: the classic link acks every frame, BLE none.
AcksDataFrames == kind = "rfcomm"

\* (faulty variant: the reply to a record's last report is never read)
WantReplyNever == AcksDataFrames /\ ~IsLast

\* Whether the frame's reply is waited for.
WantReply ==
  IF kind = "usb" THEN IsLast /\ bulk.final
  ELSE AcksDataFrames /\ (~IsLast \/ bulk.final)

\* The frames the printer replies to.
FrameAnswered ==
  \/ kind = "rfcomm"
  \/ kind = "usb" /\ IsLast /\ bulk.final

SendFrame ==
  /\ phase = "frames"
  /\ Write("frame", FrameAnswered)
  /\ bulk' = IF IsLast THEN NoBulk ELSE [bulk EXCEPT !.left = @ - 1]
  /\ IF WantReply
     THEN phase' = "await" /\ UNCHANGED slips
     ELSE /\ phase' = IF IsLast THEN "idle" ELSE "frames"
          /\ slips' = IF kind = "rfcomm" THEN slips + 1 ELSE slips
  /\ UNCHANGED <<kind, openVars>>

-----------------------------------------------------------------------------
(* The link and the printer *)

\* The link fails under a call or between calls; what was on it is gone, and
\* the caller drops the connection.
LinkFails ==
  /\ phase \in {"idle", "await", "frames"}
  /\ phase' = "closed" /\ bulk' = NoBulk /\ bluez' = "off"
  /\ owed' = <<>> /\ inbox' = <<>>
  /\ result' = [how |-> "io", reply |-> NoMessage]
  /\ UNCHANGED <<kind, opens, attempt, scanning, loose, sent, req, slips>>

Answer ==
  /\ owed # <<>>
  /\ inbox' = Append(inbox, Head(owed))
  /\ owed' = Tail(owed)
  /\ UNCHANGED <<kind, phase, openVars, sent, req, bulk, slips, result>>

Ignore ==
  /\ owed # <<>>
  /\ owed' = Tail(owed)
  /\ UNCHANGED <<kind, phase, openVars, sent, req, inbox, bulk, slips, result>>

Open == OpenWire \/ OpenBle
CallStep ==
  \/ ScanEnds \/ Dial \/ Connected \/ ConnectErrors \/ ConnectTimesOut \/ FindChars
  \/ Receive \/ TimeOut \/ SendFrame
Printer == Answer \/ Ignore

Next ==
  \/ Open
  \/ CallStep
  \/ \E op \in Ops : SendCommand(op)
  \/ \E frames \in 1..MaxFrames, final \in BOOLEAN : BeginBulk(frames, final)
  \/ LinkFails
  \/ BluezSettles
  \/ Printer

\* A call once made runs on: every wait in it is bounded by a timeout.
Spec == Init /\ [][Next]_vars /\ WF_vars(CallStep)

-----------------------------------------------------------------------------
(* Properties *)

Waiting == IF phase = "await" THEN 1 ELSE 0

\* Over USB, where a reply names no command, the host is never further
\* behind the printer than one reply for every wait that timed out: no path
\* through the commands and the transfers leaves a reply of its own unread.
UsbLag ==
  kind = "usb" => Len(owed) + Len(inbox) <= slips + Waiting

Stale == result.how = "taken" /\ result.reply.id < req.id

\* A reply to an earlier request passes for the present one's only when a
\* wait timed out or an ack went unread before; on the two SPP links only
\* under the same opcode, when the caller looks at it, and over RFCOMM only
\* if it was still on its way when the command was written.
StaleExplained ==
  Stale =>
    /\ slips > 0
    /\ kind # "usb" /\ req.op \in Checked => result.reply.op = req.op
    /\ kind = "ble" => result.reply.op = req.op
    /\ kind = "rfcomm" => result.reply.id \in req.late

\* A reply is waited for only when the printer owes one: no link stalls for
\* a whole timeout on a frame that is never acknowledged.
WaitsForAnAnswer ==
  [][phase' = "await" /\ phase # "await" => req'.id \in Ids(owed')]_vars

\* No scan is open when a Connect is issued, the known cause of one that does not
\* return, nor once the open is over.  A Connect that outlives its attempt, to
\* meet the next one, a later scan or the caller of a failed open, is one that
\* BlueZ kept after an error or after a Disconnect that failed: one that only
\* timed out is cancelled.  And no link is used whose Connect is not complete.
ConnectClean ==
  /\ phase # "scan" => ~scanning
  /\ bluez = "pending" /\ phase # "connecting" => loose
  /\ kind = "ble" /\ phase \in {"chars", "idle", "await", "frames"} => bluez = "on"

\* Every call on the link comes back, or the bound on requests is reached.
CallEnds ==
  (phase \notin {"idle", "closed"}) ~>
    (phase \in {"idle", "closed"} \/ sent = MaxSent)
=============================================================================
