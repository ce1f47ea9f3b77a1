----------------------------- MODULE ToolSession -----------------------------
(***************************************************************************)
(* supvan-cli at one printer (supvan-cli/src/main.rs): the commands that   *)
(* write its record or move its paper (provision, heat-sweep, feed,        *)
(* paper-back) and probe-reads, which asks opcodes one after the other     *)
(* what they answer and must stop when the printer reports an error.       *)
(* Every command opens a link of its own and is over before the next.      *)
(*                                                                         *)
(* The link is that of CommandLink, one exchange a step: a reply comes in  *)
(* time, late or not at all.  Printing a strip is a step too (PrintFlow).  *)
(* The printer is external: it commits a record some time after it was     *)
(* received, and raises an error when it likes.                            *)
(***************************************************************************)
EXTENDS StatusReport, Sequences, SequencesExt

CONSTANTS
  Heats,         \* the heat profiles an operator asks for
  Sweeps,        \* the lists of them a sweep is asked to walk
  READS,         \* the opcodes probe-reads asks about, in order
  Requested,     \* the lists of further opcodes asked for with --also
  Conditions,    \* the register contents an error can raise
  SETTLE_POLLS,
  MaxCommands,   \* bound: commands in a session
  MaxSlips,      \* bound: replies late or lost
  MaxFaults      \* bound: errors raised

ASSUME HeatsAssumption == "tag" \notin Heats /\ "none" \notin Heats
ASSUME SweepsAssumption == Sweeps \subseteq Seq(Heats) /\ <<>> \notin Sweeps
ASSUME ConditionsAssumption == Conditions \subseteq SUBSET Bits
ASSUME BoundsAssumption ==
  SETTLE_POLLS \in Nat \ {0} /\ {MaxCommands, MaxSlips, MaxFaults} \subseteq Nat

VARIABLES
  served,    \* the UID of the record RETURN_MAT reads
  heat,      \* the heat profile in force
  pending,   \* the profile of a record received and not committed, or "none"
  regs,      \* the status registers
  faults,    \* errors raised so far
  known,     \* the opcodes this firmware implements
  told,      \* those of them whose reply is not that of one it does not implement
  moved      \* whether paper went back under this command

VARIABLES
  kind,      \* usb, rfcomm or ble
  late,      \* replies the tool has not read
  slips      \* replies late or lost under this command

VARIABLES
  commands,  \* commands given so far
  pc,        \* where the tool stands
  walk,      \* the profiles still to go through, the present one first
  strip,     \* whether the present profile is to be printed
  polls,     \* confirmation polls made
  over,      \* the UID served when the record was written, ours if one was on its way
  said,      \* what provision said of it
  strips,    \* the strips burned: asked for, in force, UID before, what was said
  todo,      \* the opcodes still to ask, the present one first
  baseline,  \* what an opcode that does not exist answers
  asked,     \* the opcodes asked
  listed,    \* those found to be implemented
  verdict,   \* what paper-back says
  blind,     \* opcodes sent with the present error up before any status is asked for
  after,     \* opcodes sent with it up between one status and the next
  changed    \* whether the registers changed under this command

printerVars == <<served, heat, pending, regs, faults, known, told, moved, changed>>
linkVars == <<kind, late, slips>>
sweepVars == <<walk, strip, polls, over, said, strips>>
probeVars == <<todo, baseline, asked, listed, verdict, blind, after>>
vars == <<printerVars, linkVars, commands, pc, sweepVars, probeVars>>

CMD_INQUIRY_STA == 17
CMD_CHECK_DEVICE == 18
CMD_PAPER_SKIP == 46
CMD_RETURN_MAT == 48
UNALLOCATED == <<80, 81>>
CMD_SET_RFID_DATA == 93
CMD_PAPER_BACK == 186
Opcodes == 0..255

\* What is asked for exists, and paper is not moved by asking.
ASSUME OpsAssumption ==
  /\ READS \in Seq(Opcodes) /\ READS # <<>> /\ Requested \subseteq Seq(Opcodes)
  /\ \A i \in DOMAIN READS : READS[i] \notin {UNALLOCATED[1], UNALLOCATED[2], CMD_PAPER_BACK}

\* A reply: the opcode it answers, its content, and the registers, which each holds.
Records == {"blank", "half", "ours", "tag"}
Replies == [op : Opcodes, says : Records \union {"its own", "plain"}, regs : SUBSET Bits]
Reply(op, says) == [op |-> op, says |-> says, regs |-> regs]
Nothing == [op |-> 0, says |-> "nothing", regs |-> {}]

\* What an opcode answers when asked: one that does not exist answers as any other
\* that does not, and over USB, where all but RETURN_MAT answer with the eight bytes
\* of a status, so may one that does.
Answer(op) == Reply(op, IF op \in told THEN "its own" ELSE "plain")

Strip == [asked : Heats, heat : Heats \union {"tag"}, over : Records, said : {"taken", "warned"}]

PrinterTypeOK ==
  /\ served \in Records
  /\ heat \in Heats \union {"tag"} /\ pending \in Heats \union {"none"}
  /\ regs \subseteq Bits /\ faults \in 0..MaxFaults /\ changed \in BOOLEAN
  /\ known \subseteq Opcodes /\ told \subseteq known /\ moved \in BOOLEAN

LinkTypeOK ==
  kind \in {"usb", "rfcomm", "ble"} /\ late \in Seq(Replies) /\ slips \in 0..MaxSlips

SweepTypeOK ==
  /\ walk \in Seq(Heats) /\ strip \in BOOLEAN
  /\ pc \in {"announce", "confirm", "print"} => walk # <<>>
  /\ polls \in 0..(SETTLE_POLLS - 1) /\ over \in Records
  /\ said \in {"taken", "warned"} /\ strips \in Seq(Strip)

ProbeTypeOK ==
  /\ todo \in Seq(Opcodes) /\ baseline \in Replies \union {Nothing}
  /\ pc \in {"calibrate", "ask", "inquire", "before", "back"} => todo # <<>>
  /\ pc \in {"ask", "inquire", "before", "back", "after"} => baseline # Nothing
  /\ listed \subseteq asked /\ asked \subseteq Opcodes
  /\ verdict \in {"none", "no response", "nothing moved", "known"}
  /\ blind \in Nat /\ after \in Nat

TypeOK ==
  /\ PrinterTypeOK /\ LinkTypeOK /\ SweepTypeOK /\ ProbeTypeOK
  /\ commands \in 0..MaxCommands
  /\ pc \in {"idle", "announce", "confirm", "print", "control", "calibrate", "ask",
             "inquire", "before", "back", "after", "skip"}

Init ==
  /\ served \in {"blank", "tag"} /\ heat = "tag" /\ pending = "none"
  /\ regs = {} /\ faults = 0 /\ moved = FALSE /\ changed = FALSE
  /\ known \in SUBSET (Range(READS) \union {CMD_PAPER_BACK})
  /\ kind \in {"usb", "rfcomm", "ble"} /\ late = <<>> /\ slips = 0
  /\ told \in IF kind = "usb" THEN SUBSET known ELSE {known}
  /\ commands = 0 /\ pc = "idle"
  /\ walk = <<>> /\ strip = FALSE /\ polls = 0 /\ over = "blank" /\ said = "warned"
  /\ strips = <<>> /\ todo = <<>> /\ baseline = Nothing /\ asked = {} /\ listed = {}
  /\ verdict = "none" /\ blind = 0 /\ after = 0

-----------------------------------------------------------------------------
(* One exchange on the link *)

\* The replies to earlier commands a read may still meet: RFCOMM drains those
\* that are in before it writes, BLE skips those of another opcode, so that what
\* it has not read is of one.
Leftovers(op) ==
  CASE kind = "usb" -> {late}
    [] kind = "rfcomm" -> {late, <<>>}
    [] kind = "ble" -> {IF late # <<>> /\ Head(late).op = op THEN late ELSE <<>>}

\* A read takes one report or notification, over RFCOMM all that is in.
Read(queue) ==
  [got |-> IF queue = <<>> THEN Nothing ELSE Head(queue),
   late |-> IF queue = <<>> \/ kind = "rfcomm" THEN <<>> ELSE Tail(queue)]

\* What the tool gets when the printer answers r: in time, late, or lost.
Outcomes(r) ==
  UNION {
    LET found == Read(left)
        inTime == Read(left \o <<r>>)
    IN  {[got |-> inTime.got, late |-> inTime.late, slips |-> slips]}
          \union
        (IF slips = MaxSlips THEN {}
         ELSE [got: {found.got}, late: {found.late, Append(found.late, r)}, slips: {slips + 1}])
    : left \in Leftovers(r.op)}

Exchange(outcome) == late' = outcome.late /\ slips' = outcome.slips /\ UNCHANGED kind

\* validate_response: the opcode is echoed, but for USB, where any report will do.
Acks(got, op) == got # Nothing /\ (kind = "usb" \/ got.op = op)

\* parse_material_response: over USB another command's report is read as a record
\* whose UID is not ours.
UidIn(got) ==
  IF ~Acks(got, CMD_RETURN_MAT) THEN "none"
  ELSE IF got.op = CMD_RETURN_MAT THEN got.says ELSE "other"

\* parse_status_response, and whether an error is seen: over USB the registers are
\* where they are in every plain report, and anything is in one with other content.
ErrorsSeen(got) ==
  IF ~Acks(got, CMD_INQUIRY_STA) THEN {FALSE}
  ELSE IF got.op = CMD_INQUIRY_STA \/ got.says = "plain" THEN {HasError(got.regs)}
  ELSE BOOLEAN

\* (faulty variant: the length of the replies is compared)
SameHeadAny(a, b) == TRUE

\* Two replies begin alike: the registers are part of what is compared and, on the
\* links that echo it, the opcode.
SameHead(a, b) ==
  /\ a.regs = b.regs /\ a.says = b.says
  /\ (kind = "usb" /\ a.says = "plain") \/ a.op = b.op

\* The command returns, with success or an error.
Return == pc' = "idle"

-----------------------------------------------------------------------------
(* The commands *)

\* Firmware update territory and what writes or moves paper.
IsProbeSafe(op) ==
  /\ op \notin 192..239
  /\ op \notin {98, 97, 111, 104, 106, 93, 186, 46, 19, 176, 190, 37, 39, 56, 57, 55,
                66, 68, 51, 44}

\* A command opens its printer and begins; a link that cannot be opened ends it.
Begin(first) ==
  /\ pc = "idle" /\ commands < MaxCommands
  /\ commands' = commands + 1
  /\ pc' \in {first, "idle"}
  /\ late' = <<>> /\ slips' = 0 /\ strips' = <<>> /\ moved' = FALSE /\ changed' = FALSE
  /\ baseline' = Nothing /\ asked' = {} /\ listed' = {} /\ verdict' = "none"
  /\ blind' = 0 /\ after' = 0 /\ polls' = 0
  /\ UNCHANGED <<served, heat, pending, regs, faults, known, told, kind, over, said>>

Provision ==
  /\ Begin("announce")
  /\ \E h \in Heats : walk' = <<h>>
  /\ strip' = FALSE /\ todo' = <<>>

HeatSweep ==
  /\ Begin("announce")
  /\ walk' \in Sweeps
  /\ strip' = TRUE /\ todo' = <<>>

\* parse_opcode turns an unsafe opcode down before anything is sent.
ProbeReads ==
  /\ Begin("control")
  /\ \E also \in Requested :
       /\ \A i \in DOMAIN also : IsProbeSafe(also[i])
       /\ todo' = UNALLOCATED \o READS \o also
  /\ walk' = <<>> /\ strip' = FALSE

PaperBack ==
  /\ Begin("calibrate")
  /\ todo' = <<UNALLOCATED[1], CMD_PAPER_BACK>>
  /\ walk' = <<>> /\ strip' = FALSE

Feed ==
  /\ Begin("skip")
  /\ todo' = <<>> /\ walk' = <<>> /\ strip' = FALSE

-----------------------------------------------------------------------------
(* provision, and the strips of a sweep *)

\* provision says whether the record was taken; its strip follows all the same, or
\* the command ends.
Provisioned(verdictOnIt) ==
  /\ said' = verdictOnIt /\ polls' = 0
  /\ IF strip THEN pc' = "print" ELSE Return

\* set_rfid_data: announced and acknowledged, the record goes out, and arrives or not.
Announce ==
  /\ pc = "announce"
  /\ over' = IF pending = "none" THEN served ELSE "ours"
  /\ \/ \E o \in Outcomes(Reply(CMD_SET_RFID_DATA, "plain")) :
          /\ Exchange(o)
          /\ IF Acks(o.got, CMD_SET_RFID_DATA)
             THEN pc' = "confirm" /\ pending' \in {Head(walk), pending}
                  /\ UNCHANGED <<said, polls>>
             ELSE Provisioned("warned") /\ UNCHANGED pending
     \/ Provisioned("warned") /\ UNCHANGED <<pending, linkVars>>
  /\ UNCHANGED <<served, heat, regs, faults, known, told, moved, changed, commands, walk,
                 strip, strips, probeVars>>

\* (faulty variant: any record read back will do)
ConfirmsAny(uid) == uid # "none"

\* The UID of a record made for the placeholder code 30000.
Confirms(uid) == uid = "ours"

\* provision_material polls until the UID it wrote is read, so many times.
Confirm ==
  /\ pc = "confirm"
  /\ \/ \E o \in Outcomes(Reply(CMD_RETURN_MAT, served)) :
          /\ Exchange(o)
          /\ IF Confirms(UidIn(o.got)) THEN Provisioned("taken")
             ELSE IF polls = SETTLE_POLLS - 1 THEN Provisioned("warned")
             ELSE polls' = polls + 1 /\ UNCHANGED <<pc, said>>
     \/ Provisioned("warned") /\ UNCHANGED linkVars
  /\ UNCHANGED <<printerVars, commands, walk, strip, over, strips, probeVars>>

Burned == [asked |-> Head(walk), heat |-> heat, over |-> over, said |-> said]

\* print_swatch_ladder: a strip that failed, burned or not, ends the sweep.
PrintStrip ==
  /\ pc = "print"
  /\ \/ /\ ~HasError(regs)
        /\ strips' = Append(strips, Burned)
        /\ walk' = Tail(walk)
        /\ IF Len(walk) > 1 THEN pc' = "announce" ELSE Return
     \/ /\ strips' \in {strips, Append(strips, Burned)}
        /\ Return /\ UNCHANGED walk
  /\ UNCHANGED <<printerVars, linkVars, commands, strip, polls, over, said, probeVars>>

-----------------------------------------------------------------------------
(* probe-reads and paper-back *)

\* An opcode goes out while an error is up: before the first status is asked for, or
\* later.  A failed exchange may have sent it or not.
SentBlind == blind' = IF HasError(regs) THEN blind + 1 ELSE blind
SentWithErrorUp == after' = IF HasError(regs) THEN after + 1 ELSE after

\* The control: CHECK_DEVICE answers something.
Control ==
  /\ pc = "control"
  /\ \/ \E o \in Outcomes(Reply(CMD_CHECK_DEVICE, "plain")) :
          /\ Exchange(o)
          /\ SentBlind
          /\ IF o.got = Nothing THEN Return ELSE pc' = "calibrate"
     \/ Return /\ UNCHANGED linkVars /\ (SentBlind \/ UNCHANGED blind)
  /\ UNCHANGED <<printerVars, commands, sweepVars, todo, baseline, asked, listed, verdict,
                 after>>

\* (faulty variant: goes on without a baseline)
CalibratedAnyway(reply) == TRUE

\* Without a baseline nothing can be told apart.
Calibrated(reply) == reply # Nothing

\* The baseline is the first answer of an unallocated opcode.  A second that
\* disagrees is noted and no more.
Calibrate ==
  /\ pc = "calibrate"
  /\ \/ \E o \in Outcomes(Answer(Head(todo))) :
          /\ Exchange(o)
          /\ SentBlind
          /\ baseline' = IF baseline = Nothing THEN o.got ELSE baseline
          /\ todo' = Tail(todo)
          /\ IF Head(todo') \in Range(UNALLOCATED) THEN UNCHANGED pc
             ELSE IF ~Calibrated(baseline') THEN Return
             ELSE pc' = IF todo' = <<CMD_PAPER_BACK>> THEN "before" ELSE "ask"
     \/ Return /\ UNCHANGED <<baseline, todo, linkVars>> /\ (SentBlind \/ UNCHANGED blind)
  /\ UNCHANGED <<printerVars, commands, sweepVars, asked, listed, verdict, after>>

\* An opcode whose answer is not that of one that does not exist is implemented.
Ask ==
  /\ pc = "ask"
  /\ \/ \E o \in Outcomes(Answer(Head(todo))) :
          /\ Exchange(o)
          /\ SentWithErrorUp
          /\ asked' = asked \union {Head(todo)}
          /\ listed' = IF o.got = Nothing \/ SameHead(o.got, baseline) THEN listed
                       ELSE listed \union {Head(todo)}
          /\ pc' = "inquire"
     \/ Return /\ UNCHANGED <<asked, listed, linkVars>> /\ (SentWithErrorUp \/ UNCHANGED after)
  /\ UNCHANGED <<printerVars, commands, sweepVars, todo, baseline, verdict, blind>>

\* (faulty variant: the status is looked at only after a new opcode was found)
AbortsWhenListed(error) == error /\ listed # {}

\* An error ends the command; a status that is not read does not.
Aborts(error) == error

\* (faulty variant: the present opcode is not taken off the list)
OnwardStuck == todo

\* The opcodes that are left.
Onward == Tail(todo)

Inquire ==
  /\ pc = "inquire"
  /\ \/ \E o \in Outcomes(Reply(CMD_INQUIRY_STA, "plain")) :
          /\ Exchange(o)
          /\ \E error \in ErrorsSeen(o.got) :
               IF Aborts(error) THEN Return /\ UNCHANGED todo
               ELSE /\ todo' = Onward
                    /\ IF todo' # <<>> THEN pc' = "ask" ELSE Return
     \/ Return /\ UNCHANGED <<todo, linkVars>>
  /\ UNCHANGED <<printerVars, commands, sweepVars, baseline, asked, listed, verdict, blind,
                 after>>

\* The status before and after is only shown; a failure to ask for it is one of
\* the command.
ShowStatus(here, there) ==
  /\ pc = here
  /\ \/ \E o \in Outcomes(Reply(CMD_INQUIRY_STA, "plain")) : Exchange(o) /\ pc' = there
     \/ Return /\ UNCHANGED linkVars
  /\ UNCHANGED <<printerVars, commands, sweepVars, probeVars>>

\* PAPER_BACK is sent whatever came before; its answer is compared afterwards.
SendPaperBack ==
  /\ pc = "back"
  /\ \/ \E o \in Outcomes(Answer(CMD_PAPER_BACK)) :
          /\ Exchange(o)
          /\ moved' = (CMD_PAPER_BACK \in known)
          /\ verdict' = IF o.got = Nothing THEN "no response"
                        ELSE IF SameHead(o.got, baseline) THEN "nothing moved" ELSE "known"
          /\ pc' = "after"
     \/ Return /\ UNCHANGED <<moved, verdict, linkVars>>
  /\ UNCHANGED <<served, heat, pending, regs, faults, known, told, changed, commands,
                 sweepVars, todo, baseline, asked, listed, blind, after>>

\* feed: PAPER_SKIP has to be acknowledged.
SkipLabel ==
  /\ pc = "skip"
  /\ \/ \E o \in Outcomes(Reply(CMD_PAPER_SKIP, "plain")) : Exchange(o)
     \/ UNCHANGED linkVars
  /\ Return
  /\ UNCHANGED <<printerVars, commands, sweepVars, probeVars>>

-----------------------------------------------------------------------------
(* The printer *)

\* A record is committed; before, one that replaces another UID may be half there.
Settle ==
  /\ pending # "none"
  /\ \/ served' = "ours" /\ heat' = pending /\ pending' = "none"
     \/ served \notin {"ours", "half"} /\ served' = "half" /\ UNCHANGED <<heat, pending>>
  /\ UNCHANGED <<regs, faults, known, told, moved, changed, linkVars, commands, pc,
                 sweepVars, probeVars>>

\* Something happens to it: an error, a low battery, or an end of them.  The
\* opcodes sent with an error up are counted from here.
Disturb ==
  /\ faults < MaxFaults
  /\ faults' = faults + 1
  /\ regs' \in (Conditions \union {{}}) \ {regs}
  /\ changed' = TRUE /\ blind' = 0 /\ after' = 0
  /\ UNCHANGED <<served, heat, pending, known, told, moved, linkVars, commands, pc,
                 sweepVars, todo, baseline, asked, listed, verdict>>

Command == Provision \/ HeatSweep \/ ProbeReads \/ PaperBack \/ Feed
CommandStep ==
  \/ Announce \/ Confirm \/ PrintStrip
  \/ Control \/ Calibrate \/ Ask \/ Inquire
  \/ ShowStatus("before", "back") \/ SendPaperBack \/ ShowStatus("after", "idle")
  \/ SkipLabel

Next == Command \/ CommandStep \/ Settle \/ Disturb

\* A command once given runs on: every exchange is bounded by a timeout.
Spec == Init /\ [][Next]_vars /\ WF_vars(CommandStep)

-----------------------------------------------------------------------------
(* Properties *)

\* A strip of a sweep that was burned under another heat profile than the one
\* announced above it came after a warning that its record was not taken, or
\* after another record of ours, whose UID confirms nothing.
StripsExplained ==
  \A i \in DOMAIN strips :
    strips[i].heat # strips[i].asked => strips[i].said = "warned" \/ strips[i].over = "ours"

\* While an error of the printer is up, probe-reads sends the control and the two
\* opcodes that do not exist, for which it asks no status, and then one opcode more,
\* however many are left to ask: with every reply in time four at most.  Each reply
\* that came late or not at all lets one more through, over USB any number.
ProbeStopsAtError ==
  /\ blind <= 3
  /\ slips = 0 => after <= 1
  /\ kind # "usb" => after <= 1 + slips

\* With every reply in time, probe-reads finds the opcodes whose answer differs from
\* that of one that does not exist: over RFCOMM and BLE, which echo the opcode, all
\* that are implemented.  Over USB, with the registers as they were when the baseline
\* was taken, it finds none that is not implemented.
ListedRight ==
  slips = 0 =>
    /\ asked \intersect (IF kind = "usb" THEN told ELSE known) \subseteq listed
    /\ kind = "usb" /\ ~changed => listed \subseteq known

\* paper-back says that nothing moved when the paper went back only over USB, and
\* there only of a printer that acknowledges PAPER_BACK as it does an opcode it does
\* not know, or when a reply went astray and an earlier one passed for the answer.
UnmovedIsTrue ==
  verdict = "nothing moved" /\ moved =>
    kind = "usb" /\ (CMD_PAPER_BACK \notin told \/ slips > 0)

\* Each command ends.
CommandEnds == pc # "idle" ~> pc = "idle"
=============================================================================
