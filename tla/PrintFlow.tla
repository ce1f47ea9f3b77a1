----------------------------- MODULE PrintFlow ------------------------------
(***************************************************************************)
(* Printer::print_compressed (supvan-proto/src/printer.rs): one page,      *)
(* already cut into compressed blocks, driven to completion over a link by *)
(* polling the printer's status registers.  The calls run one after the    *)
(* other, as transfer_page makes them for the pages and copies of a job    *)
(* and for a job that is tried again.                                      *)
(*                                                                         *)
(* The printer's firmware is external: what is known of it is what the     *)
(* comments of print_compressed and transfer_compressed say of it.  It has *)
(* one page buffer; a block handed over by BUF_FULL is taken in a little   *)
(* later, and only then does buf_full rise.                                *)
(*                                                                         *)
(* A reply that comes after its wait has timed out stays unread, and is    *)
(* taken for the reply to a later command: over USB to any, over BLE to    *)
(* one of the same opcode, over RFCOMM to any whose caller does not look.  *)
(* The registers it carries are those of the moment it was written.        *)
(*                                                                         *)
(* Time is left out but for three assumptions, each in one guard: both     *)
(* BLOCK_SETTLE pauses outlast what they wait for (SettleData,             *)
(* SettleBlock), and a new page is begun only once the head moves again    *)
(* (RetryAfterPause).  A fault flag is cleared by an operator, who is      *)
(* slower than a poll (ClearFault).                                        *)
(***************************************************************************)
EXTENDS Integers, Sequences

CONSTANTS
  MaxBlocks,              \* bound: blocks of one page
  MaxPages,               \* bound: pages begun
  MaxUnread,              \* bound: replies a link keeps unread
  Averages,               \* mean compressed sizes per print buffer to try
  READY_ATTEMPTS,
  PRINTING_ATTEMPTS,
  BUFFER_READY_ATTEMPTS,
  COMPLETION_POLLS,
  SafeSplitSpeed          \* the head does not outrun the transfers up to here

MULTI_BLOCK_SPEED == 20

ASSUME BoundsAssumption ==
  /\ MaxBlocks \in Nat \ {0}
  /\ MaxPages \in Nat \ {0}
  /\ MaxUnread \in Nat
  /\ Averages \subseteq Nat

ASSUME AttemptsAssumption ==
  /\ READY_ATTEMPTS \in Nat \ {0}
  /\ PRINTING_ATTEMPTS \in Nat \ {0}
  /\ BUFFER_READY_ATTEMPTS \in Nat \ {0}
  /\ COMPLETION_POLLS \in Nat \ {0}

ASSUME SpeedAssumption ==
  SafeSplitSpeed \in Nat /\ MULTI_BLOCK_SPEED <= SafeSplitSpeed

VARIABLES
  pc,        \* where print_compressed stands
  page,      \* pages begun so far; the number of the one in hand
  nblocks,   \* its blocks
  asked,     \* the speed its caller asked for
  next,      \* the block the loop is at
  tries,     \* attempts used up in the present wait loop
  outcome,   \* what the last call returned
  astray     \* history: since the printer was last at rest, a poll was answered
             \* by a reply two or more requests old, or a block that was not the
             \* last of its page went missing while the link was up

VARIABLES
  kind,      \* the link: usb, rfcomm or ble
  late       \* late[k]: the unread reply to the k-th request before the next

VARIABLES
  link,      \* the connection carries commands and replies
  phase,     \* the firmware's page: idle, starting, printing, finishing
  moving,    \* the head moves
  rate,      \* the speed given with the last BUF_FULL
  draining,  \* data packets received and not yet stored
  incoming,  \* block handed over and not yet in the page buffer
  held,      \* block in the page buffer
  fault,     \* an error flag is raised
  label,     \* the page the label under the head belongs to
  laid,      \* how many of its blocks are on it, in order
  garbled    \* some label was spoiled

hostVars == <<kind, page, nblocks, asked, next>>
callVars == <<pc, tries, outcome>>
pageBuffer == <<draining, incoming, held, rate>>
paper == <<label, laid, garbled>>
printerVars == <<link, phase, moving, fault, pageBuffer, paper>>
vars == <<hostVars, callVars, late, astray, printerVars>>

NoBlock == [page |-> 0, idx |-> 0, last |-> FALSE]
Block == [page: 0..MaxPages, idx: 0..MaxBlocks, last: BOOLEAN]

Ended == {"idle", "done"}
Before == {"check", "ready", "start"}
Sending == {"room", "header", "data", "drain", "buffull", "settle", "after"}
Finishing == {"completion", "verdict"}
Outcomes == {"none", "ok", "invalid", "io", "timeout"}

\* The commands of a page, and those whose reply is not looked at.
Unchecked == {"START_PRINT", "NEXT_ZIPPEDBULK", "BUF_FULL"}
Ops == {"CHECK_DEVICE", "INQUIRY_STA"} \union Unchecked

Replies == [op: Ops, printing: BOOLEAN, busy: BOOLEAN, full: BOOLEAN, fault: BOOLEAN]

\* calc_speed: the more bytes a buffer compresses to, the slower the head.
CalcSpeed(avg) ==
  CASE avg > 3000 -> 10
    [] avg > 2800 /\ avg <= 3000 -> 15
    [] avg > 2500 /\ avg <= 2800 -> 20
    [] avg > 2000 /\ avg <= 2500 -> 25
    [] avg > 1500 /\ avg <= 2000 -> 40
    [] avg > 1000 /\ avg <= 1500 -> 45
    [] avg > 500 /\ avg <= 1000 -> 55
    [] avg <= 500 -> 60

\* (faulty variant: no slowing down for a split page)
PrintSpeedAsAsked == asked

\* A split page goes out at the vendor's fixed speed, whatever was asked for.
PrintSpeed == IF nblocks > 1 THEN MULTI_BLOCK_SPEED ELSE asked

\* The status registers.
Printing == phase = "printing" /\ moving
Busy == phase = "finishing"
BufFull == held # NoBlock

\* What the printer answers a command with, whenever that is read.
Reply(op) ==
  [op |-> op, printing |-> Printing, busy |-> Busy, full |-> BufFull, fault |-> fault]

Budget ==
  CASE pc = "ready" -> READY_ATTEMPTS
    [] pc = "station" -> PRINTING_ATTEMPTS
    [] pc = "room" -> BUFFER_READY_ATTEMPTS
    [] pc = "completion" -> COMPLETION_POLLS
    [] OTHER -> 1

TypeOK ==
  /\ pc \in Ended \union Before \union {"station"} \union Sending \union Finishing
  /\ page \in 0..MaxPages
  /\ nblocks \in 0..MaxBlocks
  /\ asked \in Nat
  /\ next \in 0..MaxBlocks
  /\ tries \in Nat
  /\ tries < Budget
  /\ outcome \in Outcomes
  /\ astray \in BOOLEAN
  /\ kind \in {"usb", "rfcomm", "ble"}
  /\ late \in Seq(Replies)
  /\ Len(late) <= MaxUnread
  /\ link \in BOOLEAN
  /\ phase \in {"idle", "starting", "printing", "finishing"}
  /\ moving \in BOOLEAN
  /\ rate \in Nat
  /\ draining \in BOOLEAN
  /\ incoming \in Block
  /\ held \in Block
  /\ fault \in BOOLEAN
  /\ label \in 0..MaxPages
  /\ laid \in 0..MaxBlocks
  /\ garbled \in BOOLEAN

Init ==
  /\ pc = "idle" /\ tries = 0 /\ outcome = "none"
  /\ kind \in {"usb", "rfcomm", "ble"} /\ late = <<>> /\ astray = FALSE
  /\ page = 0 /\ nblocks = 0 /\ asked = 0 /\ next = 0
  /\ link = TRUE /\ phase = "idle" /\ moving = FALSE /\ fault = FALSE
  /\ draining = FALSE /\ incoming = NoBlock /\ held = NoBlock /\ rate = 0
  /\ label = 0 /\ laid = 0 /\ garbled = FALSE

-----------------------------------------------------------------------------
(* One command and its reply *)

\* The newest n replies unread once `op` is out.
Unread(op, n) == [i \in 1..n |-> IF i = 1 THEN Reply(op) ELSE late[i - 1]]

\* The reply to the request `age` before `op`: 0 is its own.
Nth(op, age) == IF age = 0 THEN Reply(op) ELSE late[age]

\* A reply the link hands to the caller of `op`: no opcode is echoed over USB, BLE
\* waits for its own, RFCOMM leaves the check to callers that look.
Passes(op, r) ==
  kind = "usb" \/ r.op = op \/ (kind = "rfcomm" /\ op \in Unchecked)

\* The caller of `op` reads the reply that is `age` requests old; older ones are
\* gone with it, younger ones are still to be read.
Hears(op, age) ==
  /\ link
  /\ age \in 0..Len(late)
  /\ Passes(op, Nth(op, age))
  /\ late' = Unread(op, age)

Answered(op) == \E age \in 0..MaxUnread : Hears(op, age)

\* No reply in time: the command or its reply was lost, or the reply is late.  Over
\* a link that is gone there is none to come.
Unanswered(op) ==
  late' = IF ~link THEN <<>>
          ELSE Unread(op, IF Len(late) < MaxUnread THEN Len(late) + 1 ELSE MaxUnread)

\* The call goes on by what a reply of this age says.
Heeds(age) == astray' = (astray \/ age >= 2)

-----------------------------------------------------------------------------
(* Steps of the call *)

Goto(there) == pc' = there /\ tries' = 0 /\ UNCHANGED outcome

Return(result) == pc' = "done" /\ tries' = 0 /\ outcome' = result

\* (faulty variant: a wait loop without a budget)
PollUncounted(exhausted) == UNCHANGED callVars

\* (faulty variant: a budget one attempt too large)
PollOnceTooOften(exhausted) ==
  IF tries < Budget
  THEN tries' = tries + 1 /\ UNCHANGED <<pc, outcome>>
  ELSE exhausted

\* One more poll of a wait loop, or what follows when its attempts are used up.
PollAgain(exhausted) ==
  IF tries + 1 < Budget
  THEN tries' = tries + 1 /\ UNCHANGED <<pc, outcome>>
  ELSE exhausted

\* A retry comes seconds after the call it repeats: what that call left in the
\* printer has been taken in and is being printed.
RetryAfterPause ==
  incoming = NoBlock /\ (phase = "printing" => held = NoBlock \/ moving)

AtRest == phase = "idle" /\ held = NoBlock /\ incoming = NoBlock

\* transfer_page calls print_compressed with freshly compressed blocks and the
\* speed of their mean size; the device was opened, so the link is up, and what was
\* unread on it is still there if it is the link of before.
BeginPage ==
  /\ pc \in Ended
  /\ page < MaxPages
  /\ RetryAfterPause
  /\ page' = page + 1
  /\ nblocks' \in 1..MaxBlocks
  /\ \E avg \in Averages : asked' = CalcSpeed(avg)
  /\ next' = 1
  /\ link' = TRUE
  /\ late' \in {late, <<>>}
  /\ astray' = (astray /\ ~AtRest)
  /\ garbled' = (garbled /\ ~AtRest)
  /\ pc' = "check" /\ tries' = 0 /\ outcome' = "none"
  /\ UNCHANGED <<kind, phase, moving, fault, pageBuffer, label, laid>>

\* The transport reported an error: every `?` on the way returns it.  A link that is
\* gone need not show so, for the socket takes data a while longer and what fails in
\* reading counts as no reply: below, whatever goes on without a reply may do so
\* without a link.
LinkError(here) == pc = here /\ ~link /\ Return("io") /\ UNCHANGED late

CheckDevice ==
  /\ \/ pc = "check" /\ Answered("CHECK_DEVICE") /\ Goto("ready")
     \/ pc = "check" /\ Unanswered("CHECK_DEVICE") /\ Return("invalid")
     \/ LinkError("check")
  /\ UNCHANGED <<hostVars, astray, printerVars>>

\* (faulty variant: wait_ready not looking at the printing flag)
WaitReadyIgnoringPrinting ==
  /\ \/ /\ pc = "ready"
        /\ \E age \in 0..MaxUnread :
             /\ Hears("INQUIRY_STA", age)
             /\ LET r == Nth("INQUIRY_STA", age) IN
                  \/ r.busy /\ PollAgain(Return("invalid")) /\ UNCHANGED astray
                  \/ /\ ~r.busy /\ Heeds(age)
                     /\ IF r.fault THEN Return("invalid") ELSE Goto("start")
     \/ /\ pc = "ready" /\ Unanswered("INQUIRY_STA")
        /\ PollAgain(Return("invalid")) /\ UNCHANGED astray
     \/ LinkError("ready") /\ UNCHANGED astray
  /\ UNCHANGED <<hostVars, printerVars>>

\* wait_ready looks at the error flags only once the printer is idle.
WaitReady ==
  /\ \/ /\ pc = "ready"
        /\ \E age \in 0..MaxUnread :
             /\ Hears("INQUIRY_STA", age)
             /\ LET r == Nth("INQUIRY_STA", age) IN
                  \/ /\ r.printing \/ r.busy
                     /\ PollAgain(Return("invalid")) /\ UNCHANGED astray
                  \/ /\ ~r.printing /\ ~r.busy /\ Heeds(age)
                     /\ IF r.fault THEN Return("invalid") ELSE Goto("start")
     \/ /\ pc = "ready" /\ Unanswered("INQUIRY_STA")
        /\ PollAgain(Return("invalid")) /\ UNCHANGED astray
     \/ LinkError("ready") /\ UNCHANGED astray
  /\ UNCHANGED <<hostVars, printerVars>>

\* START_PRINT: its reply is not looked at, so the command may be lost or refused
\* unnoticed.  The label under the head is from now on this page's.
StartPrint ==
  /\ \/ /\ pc = "start" /\ Goto("station")
        /\ Answered("START_PRINT") \/ Unanswered("START_PRINT")
        /\ label' = page /\ laid' = 0
        /\ \/ link /\ phase = "idle" /\ ~fault /\ phase' = "starting"
           \/ UNCHANGED phase
     \/ LinkError("start") /\ UNCHANGED <<label, laid, phase>>
  /\ UNCHANGED <<hostVars, astray, link, moving, fault, pageBuffer, garbled>>

WaitPrinting ==
  /\ \/ /\ pc = "station"
        /\ \E age \in 0..MaxUnread :
             /\ Hears("INQUIRY_STA", age)
             /\ LET r == Nth("INQUIRY_STA", age) IN
                  \/ r.fault /\ Return("invalid") /\ UNCHANGED astray
                  \/ ~r.fault /\ r.printing /\ Goto("room") /\ Heeds(age)
                  \/ /\ ~r.fault /\ ~r.printing
                     /\ PollAgain(Return("invalid")) /\ UNCHANGED astray
     \/ /\ pc = "station" /\ Unanswered("INQUIRY_STA")
        /\ PollAgain(Return("invalid")) /\ UNCHANGED astray
     \/ LinkError("station") /\ UNCHANGED astray
  /\ UNCHANGED <<hostVars, printerVars>>

\* wait_buffer_ready already returns an error flag as an error, so the call of
\* stop_print that follows it in the loop is never made.
WaitBufferReady ==
  /\ \/ /\ pc = "room"
        /\ \E age \in 0..MaxUnread :
             /\ Hears("INQUIRY_STA", age)
             /\ LET r == Nth("INQUIRY_STA", age) IN
                  \/ r.fault /\ Return("invalid") /\ UNCHANGED astray
                  \/ ~r.fault /\ ~r.full /\ Goto("header") /\ Heeds(age)
                  \/ /\ ~r.fault /\ r.full
                     /\ PollAgain(Return("invalid")) /\ UNCHANGED astray
     \/ /\ pc = "room" /\ Unanswered("INQUIRY_STA")
        /\ PollAgain(Return("invalid")) /\ UNCHANGED astray
     \/ LinkError("room") /\ UNCHANGED astray
  /\ UNCHANGED <<hostVars, printerVars>>

\* transfer_compressed, up to BUF_FULL: header, data packets, pause.
SendHeader ==
  /\ \/ pc = "header" /\ Answered("NEXT_ZIPPEDBULK") /\ Goto("data")
     \/ pc = "header" /\ Unanswered("NEXT_ZIPPEDBULK") /\ Return("invalid")
     \/ LinkError("header")
  /\ UNCHANGED <<hostVars, astray, printerVars>>

\* The data packets' own acks are no replies to a command: CommandLink has them.
SendData ==
  /\ \/ /\ pc = "data" /\ Goto("drain") /\ UNCHANGED late
        /\ \/ draining' = TRUE
           \/ ~link /\ UNCHANGED draining
     \/ LinkError("data") /\ UNCHANGED draining
  /\ UNCHANGED <<hostVars, astray, link, phase, moving, fault, incoming, held, rate, paper>>

SettleData ==
  /\ pc = "drain"
  /\ ~draining
  /\ Goto("buffull")
  /\ UNCHANGED <<hostVars, late, astray, printerVars>>

\* What the printer does with BUF_FULL: outside a page it drops the block; on
\* undrained packets or an occupied buffer the label is lost.
HandOver(block) ==
  IF phase = "printing"
  THEN /\ incoming' = block
       /\ garbled' = (garbled \/ draining \/ incoming # NoBlock \/ held # NoBlock)
  ELSE UNCHANGED <<incoming, garbled>>

\* BUF_FULL: its reply is not looked at, so the command may be lost or refused
\* unnoticed, and the printer may have got it although the transport failed.
SendBufFull ==
  /\ pc = "buffull"
  /\ \/ Goto("settle") /\ (Answered("BUF_FULL") \/ Unanswered("BUF_FULL"))
     \/ LinkError("buffull")
  /\ \/ /\ HandOver([page |-> page, idx |-> next, last |-> next = nblocks])
        /\ rate' = PrintSpeed
        /\ UNCHANGED astray
     \/ /\ UNCHANGED <<incoming, garbled, rate>>
        /\ astray' = (astray \/ (link /\ next < nblocks))
  /\ UNCHANGED <<hostVars, link, phase, moving, fault, draining, held, label, laid>>

SettleBlock ==
  /\ pc = "settle"
  /\ incoming = NoBlock
  /\ Goto("after")
  /\ UNCHANGED <<hostVars, late, astray, printerVars>>

\* (faulty variant: the query after a block, which is for the log only, left out)
QueryAfterSkipped ==
  /\ pc = "after"
  /\ IF next < nblocks
     THEN next' = next + 1 /\ Goto("room")
     ELSE UNCHANGED next /\ Goto("completion")
  /\ UNCHANGED <<kind, page, nblocks, asked, late, astray, printerVars>>

\* The status query after each block is for the log: only a transport error
\* matters.
QueryAfter ==
  /\ \/ /\ pc = "after"
        /\ Answered("INQUIRY_STA") \/ Unanswered("INQUIRY_STA")
        /\ IF next < nblocks
           THEN next' = next + 1 /\ Goto("room")
           ELSE UNCHANGED next /\ Goto("completion")
     \/ LinkError("after") /\ UNCHANGED next
  /\ UNCHANGED <<kind, page, nblocks, asked, astray, printerVars>>

\* (faulty variant: completion not waiting for the buffer)
WaitCompletionIgnoringBuffer ==
  /\ \/ /\ pc = "completion"
        /\ \E age \in 0..MaxUnread :
             /\ Hears("INQUIRY_STA", age)
             /\ LET r == Nth("INQUIRY_STA", age) IN
                  \/ r.fault /\ Return("invalid") /\ UNCHANGED astray
                  \/ /\ ~r.fault /\ ~r.printing /\ ~r.busy
                     /\ Return("ok") /\ Heeds(age)
                  \/ /\ ~r.fault /\ (r.printing \/ r.busy)
                     /\ PollAgain(Goto("verdict")) /\ UNCHANGED astray
     \/ /\ pc = "completion" /\ Unanswered("INQUIRY_STA")
        /\ PollAgain(Goto("verdict")) /\ UNCHANGED astray
     \/ LinkError("completion") /\ UNCHANGED astray
  /\ UNCHANGED <<hostVars, printerVars>>

WaitCompletion ==
  /\ \/ /\ pc = "completion"
        /\ \E age \in 0..MaxUnread :
             /\ Hears("INQUIRY_STA", age)
             /\ LET r == Nth("INQUIRY_STA", age) IN
                  \/ r.fault /\ Return("invalid") /\ UNCHANGED astray
                  \/ /\ ~r.fault /\ ~r.printing /\ ~r.busy /\ ~r.full
                     /\ Return("ok") /\ Heeds(age)
                  \/ /\ ~r.fault /\ (r.printing \/ r.busy \/ r.full)
                     /\ PollAgain(Goto("verdict")) /\ UNCHANGED astray
     \/ /\ pc = "completion" /\ Unanswered("INQUIRY_STA")
        /\ PollAgain(Goto("verdict")) /\ UNCHANGED astray
     \/ LinkError("completion") /\ UNCHANGED astray
  /\ UNCHANGED <<hostVars, printerVars>>

\* One last query tells a full buffer from a printer that is merely slow.
Verdict ==
  /\ \/ /\ pc = "verdict"
        /\ \E age \in 0..MaxUnread :
             /\ Hears("INQUIRY_STA", age)
             /\ Return(IF Nth("INQUIRY_STA", age).full THEN "invalid" ELSE "timeout")
     \/ pc = "verdict" /\ Unanswered("INQUIRY_STA") /\ Return("timeout")
     \/ LinkError("verdict")
  /\ UNCHANGED <<hostVars, astray, printerVars>>

HostStep ==
  \/ CheckDevice \/ WaitReady \/ StartPrint \/ WaitPrinting
  \/ WaitBufferReady \/ SendHeader \/ SendData \/ SettleData
  \/ SendBufFull \/ SettleBlock \/ QueryAfter
  \/ WaitCompletion \/ Verdict

-----------------------------------------------------------------------------
(* The printer and its surroundings *)

FwStart ==
  /\ phase = "starting" /\ ~fault
  /\ phase' = "printing" /\ moving' = TRUE
  /\ UNCHANGED <<hostVars, callVars, late, astray, link, fault, pageBuffer, paper>>

FwDrain ==
  /\ draining
  /\ draining' = FALSE
  /\ UNCHANGED <<hostVars, callVars, late, astray, link, phase, moving, fault, incoming, held, rate, paper>>

\* The block enters the page buffer and is decompressed; meanwhile the head may
\* stand still, with printing and device_busy both down.
FwTakeIn ==
  /\ incoming # NoBlock
  /\ held' = incoming
  /\ incoming' = NoBlock
  /\ moving' \in BOOLEAN
  /\ UNCHANGED <<hostVars, callVars, late, astray, link, phase, fault, draining, rate, paper>>

FwMove ==
  /\ phase = "printing" /\ ~moving
  /\ moving' = TRUE
  /\ UNCHANGED <<hostVars, callVars, late, astray, link, phase, fault, pageBuffer, paper>>

\* What the head does at the end of a block: the last one ends the page.  A head
\* driven too fast is there before the next block has been decompressed and the
\* printer stops: no error flag, half a label.
AfterBlock(block) ==
  IF block.last THEN {"finishing"}
  ELSE IF rate > SafeSplitSpeed THEN {"printing", "idle"} ELSE {"printing"}

\* The block in the buffer goes onto the label.
FwLay ==
  /\ phase = "printing" /\ moving /\ held # NoBlock
  /\ held' = NoBlock
  /\ IF held.page = label /\ held.idx = laid + 1
     THEN laid' = laid + 1 /\ UNCHANGED garbled
     ELSE garbled' = TRUE /\ UNCHANGED laid
  /\ phase' \in AfterBlock(held)
  /\ moving' = (phase' = "printing")
  /\ UNCHANGED <<hostVars, callVars, late, astray, link, fault, draining, incoming, rate, label>>

FwFinish ==
  /\ phase = "finishing"
  /\ phase' = "idle"
  /\ UNCHANGED <<hostVars, callVars, late, astray, link, moving, fault, pageBuffer, paper>>

\* Label end, open cover, starved page...: the page is given up with an error
\* flag, and the firmware may drop the link.
FwFault ==
  /\ ~fault
  /\ fault' = TRUE
  /\ phase' = "idle" /\ moving' = FALSE
  /\ incoming' = NoBlock /\ held' = NoBlock
  /\ link' \in {link, FALSE}
  /\ late' = IF link' THEN late ELSE <<>>
  /\ UNCHANGED <<hostVars, callVars, astray, draining, rate, paper>>

\* An operator closes the cover or loads labels: not between two polls of a page
\* that is being printed.
ClearFault ==
  /\ fault
  /\ pc \in Ended \union Before
  /\ fault' = FALSE
  /\ UNCHANGED <<hostVars, callVars, late, astray, link, phase, moving, pageBuffer, paper>>

LinkDrop ==
  /\ link
  /\ link' = FALSE
  /\ late' = <<>>
  /\ UNCHANGED <<hostVars, callVars, astray, phase, moving, fault, pageBuffer, paper>>

PrinterStep ==
  \/ FwStart \/ FwDrain \/ FwTakeIn \/ FwMove \/ FwLay \/ FwFinish
  \/ FwFault \/ ClearFault \/ LinkDrop

Next == BeginPage \/ HostStep \/ PrinterStep

\* The runtime keeps running the task, each await of which has a time limit; the
\* firmware stores packets and takes blocks in (the settle assumption).
Fairness == WF_vars(HostStep) /\ WF_vars(FwDrain) /\ WF_vars(FwTakeIn)

Spec == Init /\ [][Next]_vars /\ Fairness

-----------------------------------------------------------------------------
(* Properties *)

\* As long as every poll that was heeded was answered by its own reply or by that of
\* the command before it, and no block but a page's last went missing, no block is
\* handed to a printer whose buffer is occupied or whose packets are still coming
\* in, and none lands on the wrong label or out of order: the buf_full flow control
\* of the block loop stands one late reply on any link, though not two.
NeverGarbled == garbled => astray

\* With the same reservation print_compressed returns Ok only for a page all of whose
\* blocks are on its label: the completion poll cannot mistake a printer that has not
\* started yet, stopped early or never took the last block in, for one that has
\* finished, be its answer one request old.
OkMeansPrinted ==
  outcome = "ok" /\ ~astray => /\ label = page /\ laid = nblocks
                               /\ held = NoBlock /\ incoming = NoBlock

\* START_PRINT never reaches a printer that still has, or is still printing, part
\* of an earlier page, which a failed call leaves running, unless that was read off
\* a reply older than CHECK_DEVICE's.
StartsOnBlankLabel ==
  [][pc = "start" /\ pc' = "station" /\ ~astray =>
       /\ held = NoBlock /\ incoming = NoBlock
       /\ phase # "finishing" /\ (phase = "printing" => laid = 0)]_vars

\* Every call returns: no reply, lost reply or printer that never gets ready keeps
\* it polling beyond its attempt budgets.
CallReturns == pc \notin Ended ~> pc \in Ended

\* The page as its caller sees it; one whose call went astray is promised nothing.
Contract == INSTANCE PageContract WITH
  status <- IF astray THEN "void"
            ELSE IF pc = "idle" THEN "none"
            ELSE IF pc # "done" THEN "running"
            ELSE IF outcome = "ok" THEN "ok" ELSE "failed",
  size <- IF astray THEN 0 ELSE nblocks,
  laid <- IF astray \/ label # page THEN 0 ELSE laid

\* print_compressed, with its printer, implements the contract of a page.
ImplementsContract == Contract!Spec

=============================================================================
