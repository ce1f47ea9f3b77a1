-------------------------- MODULE PrintFlowProofs ---------------------------
(* Proofs about PrintFlow, for all bounds, budgets, compressed sizes and       *)
(* numbers of unread replies, over each of the three links.                    *)
EXTENDS PrintFlow, TLAPS

Running == {"station"} \union Sending \union Finishing
Points == Ended \union Before \union {"station"} \union Sending \union Finishing

\* What is in the printer belongs to the label under the head and comes next on
\* it; a block that is not the last of its page was sent slowly enough.
Fits(block) ==
  block # NoBlock =>
    /\ block.page = label
    /\ block.idx = laid + 1
    /\ block.last \/ rate <= SafeSplitSpeed
    /\ label = page => block.idx <= nblocks /\ block.last = (block.idx = nblocks)

\* Blocks are in the printer only while it prints a page, one at a time; one is
\* on its way only from BUF_FULL to the end of the pause, or left by a failed call.
OneBlock ==
  /\ Fits(held) /\ Fits(incoming)
  /\ held # NoBlock \/ incoming # NoBlock => phase = "printing"
  /\ incoming # NoBlock => held = NoBlock /\ pc \in {"settle", "done"}
  /\ phase = "printing" /\ ~moving => held # NoBlock
  /\ fault => phase = "idle"

\* Nothing of an earlier page is in the printer, nor is it printing one.
Clear ==
  /\ held = NoBlock /\ incoming = NoBlock
  /\ phase # "finishing" /\ (phase = "printing" => laid = 0)

\* The firmware cannot be printing anything when START_PRINT goes out.
CleanStart ==
  /\ phase = "starting" => laid = 0
  /\ pc \in {"check", "ready"} => held = NoBlock \/ moving
  /\ pc = "start" => Clear
  /\ pc \in Before => label < page /\ next = 1 /\ nblocks >= 1
  /\ pc = "idle" => page = 0 /\ held = NoBlock /\ laid = 0

\* The buffer is known to be empty from the poll that said so to BUF_FULL.
RoomStays ==
  /\ pc \in {"header", "data", "drain", "buffull"} => held = NoBlock
  /\ pc = "buffull" => ~draining

\* Blocks the call has handed over so far.
Sent == IF pc \in {"station", "room", "header", "data", "drain", "buffull"}
        THEN next - 1 ELSE next

InFlight == IF held = NoBlock /\ incoming = NoBlock THEN 0 ELSE 1

\* The page's last block has been sent and may have been refused.
LastSent == next = nblocks /\ pc \in {"settle", "after"} \union Finishing

\* While a call runs and no error flag is up, every block handed over is on the
\* label or in the printer, but for a last one that was refused, and the printer
\* goes on until the last is laid.  A block may be lost with the link, but then no
\* other is handed over.
OnTrack ==
  pc \in Running =>
    /\ label = page
    /\ next \in 1..nblocks
    /\ pc \in Finishing => next = nblocks
    /\ pc = "station" => next = 1
    /\ ~fault /\ (link \/ pc \in {"header", "data", "drain", "buffull"}) =>
         /\ laid + InFlight = Sent \/ (LastSent /\ laid + InFlight = Sent - 1)
         /\ pc # "station" /\ laid < nblocks => phase = "printing"
         /\ laid = nblocks => phase \in {"finishing", "idle"}

\* All of the page is on its label.
Printed == label = page /\ laid = nblocks /\ held = NoBlock /\ incoming = NoBlock

\* A poll may act on this reply: what it says that the poll waits for is so, or has
\* been so, and then it still is.
Vouched(r) ==
  /\ pc = "ready" /\ ~r.printing /\ ~r.busy => Clear
  /\ pc = "station" /\ r.printing => fault \/ phase = "printing"
  /\ pc = "room" /\ ~r.full => held = NoBlock
  /\ pc = "completion" /\ ~r.fault /\ ~r.printing /\ ~r.busy /\ ~r.full => Printed

\* The reply to the command before the next may be acted on if it comes late.
LateVouched == late # <<>> => Vouched(late[1])

OkIsFinal == outcome = "ok" => pc = "done"

Base ==
  /\ label <= page
  /\ OkIsFinal
  /\ ~link => late = <<>>

\* What holds unless a call went astray.
OnCourse ==
  /\ OneBlock
  /\ CleanStart
  /\ RoomStays
  /\ OnTrack
  /\ LateVouched
  /\ ~garbled
  /\ outcome = "ok" => Printed

IInv == TypeOK /\ Base /\ (astray \/ OnCourse)

-----------------------------------------------------------------------------
(* The vocabulary of the invariant is expanded everywhere below. *)

USE DEF Ended, Before, Sending, Finishing, Running, Points, NoBlock, Block
USE DEF hostVars, callVars, printerVars, pageBuffer, paper

\* A call is asked for a speed that is a number.
LEMMA CalcSpeedNat == \A avg \in Nat : CalcSpeed(avg) \in Nat
BY DEF CalcSpeed

\* Init: the printer is idle and has nothing in its buffer.
LEMMA InitInv == Init => IInv
<1> SUFFICES ASSUME Init PROVE IInv
  OBVIOUS
<1>1. TypeOK
  <2>1. /\ link \in BOOLEAN /\ moving \in BOOLEAN /\ draining \in BOOLEAN
        /\ fault \in BOOLEAN /\ garbled \in BOOLEAN /\ astray \in BOOLEAN
    BY DEF Init
  <2>2. incoming \in Block /\ held \in Block
    BY BoundsAssumption DEF Init
  <2>3. late \in Seq(Replies) /\ Len(late) <= MaxUnread
    BY BoundsAssumption DEF Init
  <2> QED
    BY <2>1, <2>2, <2>3, BoundsAssumption DEF Init, TypeOK, Outcomes, Budget
<1>2. Base /\ RoomStays /\ LateVouched /\ ~garbled /\ outcome # "ok"
  BY DEF Init, RoomStays, OkIsFinal, Base, LateVouched
<1>3. OneBlock /\ CleanStart /\ OnTrack
  BY DEF Init, OneBlock, CleanStart, OnTrack, Fits, Clear
<1> QED
  BY <1>1, <1>2, <1>3 DEF IInv, OnCourse

-----------------------------------------------------------------------------
(* Replies *)

\* What stays unread after a command: its own reply first.
LEMMA UnreadType ==
  ASSUME TypeOK, NEW op \in Ops, NEW n \in Nat, n <= Len(late) + 1
  PROVE  /\ Unread(op, n) \in Seq(Replies)
         /\ Len(Unread(op, n)) = n
         /\ n > 0 => Unread(op, n)[1] = Reply(op)
<1>1. Reply(op) \in Replies
  BY DEF Reply, Replies, Printing, Busy, BufFull, TypeOK
<1>2. late \in Seq(Replies) /\ Len(late) \in Nat
  BY DEF TypeOK
<1>3. \A i \in 1..n : (IF i = 1 THEN Reply(op) ELSE late[i - 1]) \in Replies
  <2> SUFFICES ASSUME NEW i \in 1..n, i # 1 PROVE late[i - 1] \in Replies
    BY <1>1
  <2>1. i - 1 \in 1..Len(late)
    BY <1>2
  <2> QED
    BY <1>2, <2>1
<1>4. Unread(op, n) \in [1..n -> Replies]
  BY <1>3 DEF Unread
<1> QED
  BY <1>4 DEF Unread

\* A command and its wait leave its own reply first among those unread, if any.
LEMMA Exchange ==
  ASSUME TypeOK, Base, NEW op \in Ops, Answered(op) \/ Unanswered(op)
  PROVE  /\ late' \in Seq(Replies) /\ Len(late') <= MaxUnread
         /\ ~link => late' = <<>>
         /\ late' # <<>> => late'[1] = Reply(op)
<1>0. MaxUnread \in Nat /\ Len(late) \in Nat /\ Len(late) <= MaxUnread
  BY BoundsAssumption DEF TypeOK
<1>1. CASE \E n \in Nat : n <= MaxUnread /\ n <= Len(late) + 1
                           /\ late' = Unread(op, n) /\ link
  <2>1. PICK n \in Nat : n <= MaxUnread /\ n <= Len(late) + 1
                          /\ late' = Unread(op, n) /\ link
    BY <1>1
  <2>2. late' \in Seq(Replies) /\ Len(late') = n /\ (n > 0 => late'[1] = Reply(op))
    BY <2>1, UnreadType
  <2> QED
    BY <2>1, <2>2
<1>2. CASE ~link /\ late' = <<>>
  BY <1>0, <1>2
<1>3. CASE Answered(op)
  <2>1. PICK age \in 0..MaxUnread : Hears(op, age)
    BY <1>3 DEF Answered
  <2> QED
    BY <1>0, <1>1, <2>1 DEF Hears
<1>4. CASE Unanswered(op) /\ link
  <2>1. late' = Unread(op, IF Len(late) < MaxUnread THEN Len(late) + 1 ELSE MaxUnread)
    BY <1>4 DEF Unanswered
  <2>2. CASE Len(late) < MaxUnread
    BY <2>1, <2>2, <1>0, <1>1, <1>4
  <2>3. CASE ~(Len(late) < MaxUnread)
    BY <2>1, <2>3, <1>0, <1>1, <1>4
  <2> QED
    BY <2>2, <2>3
<1> QED
  BY <1>2, <1>3, <1>4 DEF Unanswered

\* The registers of now may be acted on.
LEMMA OwnVouched ==
  ASSUME TypeOK, OnCourse, link, NEW op \in Ops
  PROVE  Vouched(Reply(op))
<1>1. pc = "ready" /\ ~Printing /\ ~Busy => Clear
  BY DEF OnCourse, OneBlock, CleanStart, Clear, Printing, Busy, TypeOK
<1>2. pc = "completion" /\ ~fault /\ ~Printing /\ ~Busy /\ ~BufFull => Printed
  BY DEF OnCourse, OneBlock, OnTrack, Printed, Printing, Busy, BufFull, TypeOK,
     Sent, InFlight, LastSent
<1> QED
  BY <1>1, <1>2 DEF Vouched, Reply, Printing, BufFull

\* A reply no more than one request old may be acted on.
LEMMA HeardVouched ==
  ASSUME TypeOK, OnCourse, NEW op \in Ops,
         NEW age \in 0..MaxUnread, Hears(op, age), ~(age >= 2)
  PROVE  Vouched(Nth(op, age))
<1>1. CASE age = 0
  BY <1>1, OwnVouched DEF Hears, Nth
<1>2. CASE age = 1
  <2>1. late # <<>>
    BY <1>2 DEF Hears, TypeOK
  <2> QED
    BY <1>2, <2>1 DEF OnCourse, LateVouched, Nth
<1> QED
  BY <1>1, <1>2, BoundsAssumption

-----------------------------------------------------------------------------
(* Steps of the call that leave the printer as it is.  Each moves pc, and what *)
(* has to be shown is that the guard it passed establishes the part of the     *)
(* invariant about the new pc.                                                 *)

\* Their types, and what holds even of a call that went astray.
LEMMA QuietTypes ==
  ASSUME TypeOK, Base, UNCHANGED <<kind, page, nblocks, asked, printerVars>>,
         next' \in 0..MaxBlocks, astray' \in BOOLEAN,
         late' \in Seq(Replies), Len(late') <= MaxUnread, ~link => late' = <<>>,
         pc' \in Points, tries' \in Nat, tries' < Budget', outcome' \in Outcomes,
         outcome' = "ok" => pc' = "done"
  PROVE  TypeOK' /\ Base'
BY DEF TypeOK, Base, OkIsFinal

\* Polling once more changes nothing the invariant speaks of but the attempts.
LEMMA PollAgainInv ==
  ASSUME IInv, UNCHANGED <<hostVars, printerVars, astray, pc, outcome>>,
         tries' = tries + 1, tries + 1 < Budget,
         Answered("INQUIRY_STA") \/ Unanswered("INQUIRY_STA")
  PROVE  IInv'
<1>1. /\ late' \in Seq(Replies) /\ Len(late') <= MaxUnread
      /\ ~link => late' = <<>>
      /\ late' # <<>> => late'[1] = Reply("INQUIRY_STA")
  BY Exchange DEF IInv, Ops
<1>2. TypeOK' /\ Base'
  BY <1>1, QuietTypes DEF IInv, TypeOK, Base, OkIsFinal, Budget
<1>3. ASSUME ~astray PROVE OnCourse'
  <2>1. OnCourse /\ TypeOK
    BY <1>3 DEF IInv
  <2>2. OneBlock' /\ CleanStart' /\ RoomStays' /\ OnTrack'
    BY <2>1 DEF OnCourse, OneBlock, CleanStart, RoomStays, OnTrack, Fits, Sent,
       InFlight, LastSent, Clear
  <2>3. LateVouched'
    <3>1. late' # <<>> => Vouched(Reply("INQUIRY_STA"))
      BY <1>1, <2>1, OwnVouched DEF Ops
    <3> QED
      BY <1>1, <3>1 DEF LateVouched, Vouched, Clear, Printed
  <2> QED
    BY <2>1, <2>2, <2>3 DEF OnCourse, Printed
<1> QED
  BY <1>2, <1>3 DEF IInv, TypeOK

\* A call may give up anywhere: what it leaves in the printer is still in order.
LEMMA ReturnInv ==
  ASSUME IInv, pc \notin Ended, UNCHANGED <<hostVars, printerVars>>,
         astray' \in {astray, TRUE},
         late' \in Seq(Replies), Len(late') <= MaxUnread, ~link => late' = <<>>,
         NEW result \in Outcomes \ {"ok"}, Return(result)
  PROVE  IInv'
<1>1. pc' = "done" /\ tries' = 0 /\ outcome' \in Outcomes /\ outcome' # "ok"
  BY DEF Return
<1>2. TypeOK' /\ Base'
  <2>1. /\ TypeOK /\ Base /\ astray' \in BOOLEAN /\ next' \in 0..MaxBlocks
        /\ UNCHANGED <<kind, page, nblocks, asked, printerVars>>
    BY DEF IInv, TypeOK
  <2>2. pc' \in Points /\ tries' \in Nat /\ tries' < Budget'
    BY <1>1 DEF Budget
  <2> QED
    BY <1>1, <2>1, <2>2, QuietTypes
<1>3. ASSUME ~astray' PROVE OnCourse'
  <2>1. OnCourse
    BY <1>3 DEF IInv, TypeOK
  <2>2. OneBlock' /\ CleanStart' /\ RoomStays' /\ OnTrack' /\ LateVouched'
    BY <1>1, <2>1
    DEF OnCourse, OneBlock, CleanStart, RoomStays, OnTrack, Fits, Clear,
        LateVouched, Vouched
  <2> QED
    BY <1>1, <2>1, <2>2 DEF OnCourse
<1> QED
  BY <1>2, <1>3 DEF IInv

\* A transport error ends the call with the replies as they were.
LEMMA LinkErrorInv ==
  ASSUME IInv, NEW here \in Points \ Ended, LinkError(here),
         UNCHANGED <<hostVars, printerVars>>, astray' \in {astray, TRUE}
  PROVE  IInv'
BY ReturnInv DEF LinkError, IInv, TypeOK, Base, Outcomes

\* CHECK_DEVICE: what the call goes on to is known, the printer is as it was.
LEMMA CheckDeviceInv == IInv /\ CheckDevice => IInv'
<1> SUFFICES ASSUME IInv, CheckDevice PROVE IInv'
  OBVIOUS
<1>1. pc = "check" /\ UNCHANGED <<hostVars, astray, printerVars>>
  BY DEF CheckDevice, LinkError
<1>2. CASE LinkError("check")
  BY <1>1, <1>2, LinkErrorInv
<1>3. CASE ~LinkError("check")
  <2>1. /\ late' \in Seq(Replies) /\ Len(late') <= MaxUnread
        /\ ~link => late' = <<>>
        /\ late' # <<>> => late'[1] = Reply("CHECK_DEVICE")
    BY <1>3, Exchange DEF CheckDevice, IInv, Ops
  <2>2. CASE Return("invalid")
    BY <1>1, <2>1, <2>2, ReturnInv DEF Outcomes
  <2>3. CASE Goto("ready")
    <3>1. pc' = "ready" /\ tries' = 0 /\ outcome' = outcome
      BY <2>3 DEF Goto
    <3>2. TypeOK' /\ Base'
      BY <1>1, <2>1, <3>1, QuietTypes, AttemptsAssumption
      DEF IInv, TypeOK, Base, OkIsFinal, Budget
    <3>3. ASSUME ~astray PROVE OnCourse'
      <4>1. OnCourse /\ TypeOK
        BY <3>3 DEF IInv
      <4>2. OneBlock' /\ CleanStart' /\ RoomStays' /\ OnTrack'
        BY <1>1, <3>1, <4>1
        DEF OnCourse, OneBlock, CleanStart, RoomStays, OnTrack, Fits, Clear
      <4>3. LateVouched'
        <5>1. ~Printing /\ ~Busy => Clear
          BY <1>1, <4>1
          DEF OnCourse, OneBlock, CleanStart, Clear, Printing, Busy, TypeOK
        <5> QED
          BY <1>1, <2>1, <3>1, <5>1 DEF LateVouched, Vouched, Reply, Clear
      <4> QED
        BY <1>1, <3>1, <4>1, <4>2, <4>3 DEF OnCourse, Printed
    <3> QED
      BY <1>1, <3>2, <3>3 DEF IInv
  <2> QED
    BY <1>3, <2>2, <2>3 DEF CheckDevice
<1> QED
  BY <1>2, <1>3

\* An idle printer without an error flag holds no block: a block in the buffer
\* means a moving head by now.
LEMMA WaitReadyInv == IInv /\ WaitReady => IInv'
<1> SUFFICES ASSUME IInv, WaitReady PROVE IInv'
  OBVIOUS
<1>1. pc = "ready" /\ UNCHANGED <<hostVars, printerVars>>
  BY DEF WaitReady, LinkError
<1>2. CASE LinkError("ready") /\ UNCHANGED astray
  BY <1>1, <1>2, LinkErrorInv
<1>3. ASSUME Answered("INQUIRY_STA") \/ Unanswered("INQUIRY_STA")
      PROVE  /\ late' \in Seq(Replies) /\ Len(late') <= MaxUnread
             /\ ~link => late' = <<>>
             /\ late' # <<>> => late'[1] = Reply("INQUIRY_STA")
  BY <1>3, Exchange DEF IInv, Ops
<1>4. ASSUME Answered("INQUIRY_STA") \/ Unanswered("INQUIRY_STA"),
             PollAgain(Return("invalid")), UNCHANGED astray
      PROVE  IInv'
  <2>1. CASE Return("invalid")
    BY <1>1, <1>3, <1>4, <2>1, ReturnInv DEF Outcomes
  <2>2. CASE tries' = tries + 1 /\ tries + 1 < Budget /\ UNCHANGED <<pc, outcome>>
    BY <1>1, <1>4, <2>2, PollAgainInv
  <2> QED
    BY <1>4, <2>1, <2>2 DEF PollAgain
<1>5. ASSUME NEW age \in 0..MaxUnread, Hears("INQUIRY_STA", age),
             ~Nth("INQUIRY_STA", age).printing, ~Nth("INQUIRY_STA", age).busy,
             Heeds(age), Return("invalid") \/ Goto("start")
      PROVE  IInv'
  <2>1. Answered("INQUIRY_STA")
    BY <1>5 DEF Answered
  <2>2. astray' \in {astray, TRUE} /\ astray' \in BOOLEAN
        /\ (~astray' => ~astray /\ ~(age >= 2))
    BY <1>5 DEF Heeds, IInv, TypeOK
  <2>3. CASE Return("invalid")
    BY <1>1, <1>3, <2>1, <2>2, <2>3, ReturnInv DEF Outcomes
  <2>4. CASE Goto("start")
    <3>1. pc' = "start" /\ tries' = 0 /\ outcome' = outcome
      BY <2>4 DEF Goto
    <3>2. TypeOK' /\ Base'
      BY <1>1, <1>3, <2>1, <2>2, <3>1, QuietTypes
      DEF IInv, TypeOK, Base, OkIsFinal, Budget
    <3>3. ASSUME ~astray' PROVE OnCourse'
      <4>1. OnCourse /\ TypeOK
        BY <2>2, <3>3 DEF IInv
      <4>2. Clear
        BY <1>1, <1>5, <2>2, <3>3, <4>1, HeardVouched DEF Vouched, Ops
      <4> QED
        BY <1>1, <3>1, <4>1, <4>2
        DEF OnCourse, OneBlock, CleanStart, RoomStays, OnTrack, Fits, Clear,
            LateVouched, Vouched, Printed
    <3> QED
      BY <3>2, <3>3 DEF IInv
  <2> QED
    BY <1>5, <2>3, <2>4
<1>6. CASE /\ Unanswered("INQUIRY_STA")
           /\ PollAgain(Return("invalid")) /\ UNCHANGED astray
  BY <1>4, <1>6
<1>7. ASSUME NEW age \in 0..MaxUnread, Hears("INQUIRY_STA", age),
             PollAgain(Return("invalid")), UNCHANGED astray
      PROVE  IInv'
  BY <1>4, <1>7 DEF Answered
<1> QED
  BY <1>2, <1>5, <1>6, <1>7 DEF WaitReady

\* The page is open and nothing was sent yet.
LEMMA WaitPrintingInv == IInv /\ WaitPrinting => IInv'
<1> SUFFICES ASSUME IInv, WaitPrinting PROVE IInv'
  OBVIOUS
<1>1. pc = "station" /\ UNCHANGED <<hostVars, printerVars>>
  BY DEF WaitPrinting, LinkError
<1>2. CASE LinkError("station") /\ UNCHANGED astray
  BY <1>1, <1>2, LinkErrorInv
<1>3. ASSUME Answered("INQUIRY_STA") \/ Unanswered("INQUIRY_STA")
      PROVE  /\ late' \in Seq(Replies) /\ Len(late') <= MaxUnread
             /\ ~link => late' = <<>>
             /\ late' # <<>> => late'[1] = Reply("INQUIRY_STA")
  BY <1>3, Exchange DEF IInv, Ops
<1>4. ASSUME Answered("INQUIRY_STA") \/ Unanswered("INQUIRY_STA"),
             PollAgain(Return("invalid")) \/ Return("invalid"), UNCHANGED astray
      PROVE  IInv'
  <2>1. CASE Return("invalid")
    BY <1>1, <1>3, <1>4, <2>1, ReturnInv DEF Outcomes
  <2>2. CASE tries' = tries + 1 /\ tries + 1 < Budget /\ UNCHANGED <<pc, outcome>>
    BY <1>1, <1>4, <2>2, PollAgainInv
  <2> QED
    BY <1>4, <2>1, <2>2 DEF PollAgain
<1>5. ASSUME NEW age \in 0..MaxUnread, Hears("INQUIRY_STA", age),
             Nth("INQUIRY_STA", age).printing, Heeds(age), Goto("room")
      PROVE  IInv'
  <2>1. Answered("INQUIRY_STA") /\ link
    BY <1>5 DEF Answered, Hears
  <2>2. astray' \in BOOLEAN /\ (~astray' => ~astray /\ ~(age >= 2))
    BY <1>5 DEF Heeds, IInv, TypeOK
  <2>3. pc' = "room" /\ tries' = 0 /\ outcome' = outcome
    BY <1>5 DEF Goto
  <2>4. TypeOK' /\ Base'
    BY <1>1, <1>3, <2>1, <2>2, <2>3, QuietTypes, AttemptsAssumption
    DEF IInv, TypeOK, Base, OkIsFinal, Budget
  <2>5. ASSUME ~astray' PROVE OnCourse'
    <3>1. OnCourse /\ TypeOK
      BY <2>2, <2>5 DEF IInv
    <3>2. fault \/ phase = "printing"
      BY <1>1, <1>5, <2>2, <2>5, <3>1, HeardVouched DEF Vouched, Ops
    <3>3. OneBlock' /\ CleanStart' /\ RoomStays' /\ OnTrack'
      BY <1>1, <2>1, <2>3, <3>1, <3>2
      DEF TypeOK, OnCourse, OneBlock, CleanStart, RoomStays, OnTrack, Fits, Clear,
          Sent, InFlight, LastSent
    <3>4. LateVouched'
      <4>1. ~Reply("INQUIRY_STA").full => held = NoBlock
        BY DEF Reply, BufFull
      <4> QED
        BY <1>1, <1>3, <2>1, <2>3, <4>1 DEF LateVouched, Vouched
    <3> QED
      BY <1>1, <2>3, <3>1, <3>3, <3>4 DEF OnCourse, Printed
  <2> QED
    BY <2>4, <2>5 DEF IInv
<1>6. CASE /\ Unanswered("INQUIRY_STA")
           /\ PollAgain(Return("invalid")) /\ UNCHANGED astray
  BY <1>4, <1>6
<1>7. ASSUME NEW age \in 0..MaxUnread, Hears("INQUIRY_STA", age),
             PollAgain(Return("invalid")) \/ Return("invalid"), UNCHANGED astray
      PROVE  IInv'
  BY <1>4, <1>7 DEF Answered
<1> QED
  BY <1>2, <1>5, <1>6, <1>7 DEF WaitPrinting

\* The buffer is empty, and only the call can fill it.
LEMMA WaitBufferReadyInv == IInv /\ WaitBufferReady => IInv'
<1> SUFFICES ASSUME IInv, WaitBufferReady PROVE IInv'
  OBVIOUS
<1>1. pc = "room" /\ UNCHANGED <<hostVars, printerVars>>
  BY DEF WaitBufferReady, LinkError
<1>2. CASE LinkError("room") /\ UNCHANGED astray
  BY <1>1, <1>2, LinkErrorInv
<1>3. ASSUME Answered("INQUIRY_STA") \/ Unanswered("INQUIRY_STA")
      PROVE  /\ late' \in Seq(Replies) /\ Len(late') <= MaxUnread
             /\ ~link => late' = <<>>
  BY <1>3, Exchange DEF IInv, Ops
<1>4. ASSUME Answered("INQUIRY_STA") \/ Unanswered("INQUIRY_STA"),
             PollAgain(Return("invalid")) \/ Return("invalid"), UNCHANGED astray
      PROVE  IInv'
  <2>1. CASE Return("invalid")
    BY <1>1, <1>3, <1>4, <2>1, ReturnInv DEF Outcomes
  <2>2. CASE tries' = tries + 1 /\ tries + 1 < Budget /\ UNCHANGED <<pc, outcome>>
    BY <1>1, <1>4, <2>2, PollAgainInv
  <2> QED
    BY <1>4, <2>1, <2>2 DEF PollAgain
<1>5. ASSUME NEW age \in 0..MaxUnread, Hears("INQUIRY_STA", age),
             ~Nth("INQUIRY_STA", age).full, Heeds(age), Goto("header")
      PROVE  IInv'
  <2>1. Answered("INQUIRY_STA") /\ link
    BY <1>5 DEF Answered, Hears
  <2>2. astray' \in BOOLEAN /\ (~astray' => ~astray /\ ~(age >= 2))
    BY <1>5 DEF Heeds, IInv, TypeOK
  <2>3. pc' = "header" /\ tries' = 0 /\ outcome' = outcome
    BY <1>5 DEF Goto
  <2>4. TypeOK' /\ Base'
    BY <1>1, <1>3, <2>1, <2>2, <2>3, QuietTypes
    DEF IInv, TypeOK, Base, OkIsFinal, Budget
  <2>5. ASSUME ~astray' PROVE OnCourse'
    <3>1. OnCourse /\ TypeOK
      BY <2>2, <2>5 DEF IInv
    <3>2. held = NoBlock
      BY <1>1, <1>5, <2>2, <2>5, <3>1, HeardVouched DEF Vouched, Ops
    <3> QED
      BY <1>1, <2>1, <2>3, <3>1, <3>2
      DEF OnCourse, OneBlock, CleanStart, RoomStays, OnTrack, Fits, Clear,
          Sent, InFlight, LastSent, LateVouched, Vouched, Printed
  <2> QED
    BY <2>4, <2>5 DEF IInv
<1>6. CASE /\ Unanswered("INQUIRY_STA")
           /\ PollAgain(Return("invalid")) /\ UNCHANGED astray
  BY <1>4, <1>6
<1>7. ASSUME NEW age \in 0..MaxUnread, Hears("INQUIRY_STA", age),
             PollAgain(Return("invalid")) \/ Return("invalid"), UNCHANGED astray
      PROVE  IInv'
  BY <1>4, <1>7 DEF Answered
<1> QED
  BY <1>2, <1>5, <1>6, <1>7 DEF WaitBufferReady

\* The transfer header leaves the page buffer alone.
LEMMA SendHeaderInv == IInv /\ SendHeader => IInv'
<1> SUFFICES ASSUME IInv, SendHeader PROVE IInv'
  OBVIOUS
<1>1. pc = "header" /\ UNCHANGED <<hostVars, astray, printerVars>>
  BY DEF SendHeader, LinkError
<1>2. CASE LinkError("header")
  BY <1>1, <1>2, LinkErrorInv
<1>3. CASE ~LinkError("header")
  <2>1. late' \in Seq(Replies) /\ Len(late') <= MaxUnread /\ (~link => late' = <<>>)
    BY <1>3, Exchange DEF SendHeader, IInv, Ops, Unchecked
  <2>2. CASE Return("invalid")
    BY <1>1, <2>1, <2>2, ReturnInv DEF Outcomes
  <2>3. CASE Goto("data")
    <3>1. pc' = "data" /\ tries' = 0 /\ outcome' = outcome
      BY <2>3 DEF Goto
    <3>2. TypeOK' /\ Base'
      BY <1>1, <2>1, <3>1, QuietTypes DEF IInv, TypeOK, Base, OkIsFinal, Budget
    <3>3. OnCourse => OnCourse'
      BY <1>1, <3>1
      DEF OnCourse, OneBlock, CleanStart, RoomStays, OnTrack, Fits, Clear,
          Sent, InFlight, LastSent, LateVouched, Vouched, Printed
    <3> QED
      BY <1>1, <3>2, <3>3 DEF IInv
  <2> QED
    BY <1>3, <2>2, <2>3 DEF SendHeader
<1> QED
  BY <1>2, <1>3

\* The packets are stored before BUF_FULL goes out.
LEMMA SettleDataInv == IInv /\ SettleData => IInv'
<1> SUFFICES ASSUME IInv, SettleData PROVE IInv'
  OBVIOUS
<1>1. /\ pc = "drain" /\ ~draining /\ UNCHANGED <<hostVars, late, astray, printerVars>>
      /\ pc' = "buffull" /\ tries' = 0 /\ outcome' = outcome
  BY DEF SettleData, Goto
<1>2. TypeOK' /\ Base'
  BY <1>1, QuietTypes DEF IInv, TypeOK, Base, OkIsFinal, Budget
<1>3. OnCourse => OnCourse'
  BY <1>1
  DEF OnCourse, OneBlock, CleanStart, RoomStays, OnTrack, Fits, Clear,
      Sent, InFlight, LastSent, LateVouched, Vouched, Printed
<1> QED
  BY <1>1, <1>2, <1>3 DEF IInv

\* The block is out of the way, in the buffer or already laid.
LEMMA SettleBlockInv == IInv /\ SettleBlock => IInv'
<1> SUFFICES ASSUME IInv, SettleBlock PROVE IInv'
  OBVIOUS
<1>1. /\ pc = "settle" /\ incoming = NoBlock
      /\ UNCHANGED <<hostVars, late, astray, printerVars>>
      /\ pc' = "after" /\ tries' = 0 /\ outcome' = outcome
  BY DEF SettleBlock, Goto
<1>2. TypeOK' /\ Base'
  BY <1>1, QuietTypes DEF IInv, TypeOK, Base, OkIsFinal, Budget
<1>3. OnCourse => OnCourse'
  BY <1>1
  DEF OnCourse, OneBlock, CleanStart, RoomStays, OnTrack, Fits, Clear,
      Sent, InFlight, LastSent, LateVouched, Vouched, Printed
<1> QED
  BY <1>1, <1>2, <1>3 DEF IInv

\* The next block is the one after those handed over; what the query is answered
\* tells the poll that follows no less than that poll's own reply.
LEMMA QueryAfterInv == IInv /\ QueryAfter => IInv'
<1> SUFFICES ASSUME IInv, QueryAfter PROVE IInv'
  OBVIOUS
<1>1. pc = "after" /\ UNCHANGED <<kind, page, nblocks, asked, astray, printerVars>>
  BY DEF QueryAfter, LinkError
<1>2. CASE LinkError("after") /\ next' = next
  BY <1>1, <1>2, LinkErrorInv
<1>3. ASSUME Answered("INQUIRY_STA") \/ Unanswered("INQUIRY_STA")
      PROVE  /\ late' \in Seq(Replies) /\ Len(late') <= MaxUnread
             /\ ~link => late' = <<>>
             /\ late' # <<>> => late'[1] = Reply("INQUIRY_STA") /\ link
  BY <1>3, Exchange DEF IInv, Ops
<1>4. ASSUME Answered("INQUIRY_STA") \/ Unanswered("INQUIRY_STA"),
             next < nblocks, next' = next + 1, Goto("room")
      PROVE  IInv'
  <2>1. pc' = "room" /\ tries' = 0 /\ outcome' = outcome
    BY <1>4 DEF Goto
  <2>2. next' \in 0..MaxBlocks
    BY <1>4, BoundsAssumption DEF IInv, TypeOK
  <2>3. TypeOK' /\ Base'
    BY <1>1, <1>3, <1>4, <2>1, <2>2, QuietTypes, AttemptsAssumption
    DEF IInv, TypeOK, Base, OkIsFinal, Budget
  <2>4. ASSUME ~astray PROVE OnCourse'
    <3>1. OnCourse /\ TypeOK
      BY <2>4 DEF IInv
    <3>2. OneBlock' /\ CleanStart' /\ RoomStays'
      BY <1>1, <1>4, <2>1, <3>1
      DEF OnCourse, OneBlock, CleanStart, RoomStays, Fits, Clear
    <3>3. OnTrack'
      BY <1>1, <1>4, <2>1, <3>1 DEF TypeOK, OnCourse, OnTrack, Sent, InFlight, LastSent
    <3>4. LateVouched'
      <4>1. ~Reply("INQUIRY_STA").full => held = NoBlock
        BY DEF Reply, BufFull
      <4> QED
        BY <1>1, <1>3, <1>4, <2>1, <4>1 DEF LateVouched, Vouched
    <3> QED
      BY <1>1, <2>1, <3>1, <3>2, <3>3, <3>4 DEF OnCourse, Base, OkIsFinal, IInv
  <2> QED
    BY <1>1, <2>3, <2>4 DEF IInv
<1>5. ASSUME Answered("INQUIRY_STA") \/ Unanswered("INQUIRY_STA"),
             ~(next < nblocks), next' = next, Goto("completion")
      PROVE  IInv'
  <2>1. pc' = "completion" /\ tries' = 0 /\ outcome' = outcome
    BY <1>5 DEF Goto
  <2>2. TypeOK' /\ Base'
    BY <1>1, <1>3, <1>5, <2>1, QuietTypes, AttemptsAssumption
    DEF IInv, TypeOK, Base, OkIsFinal, Budget
  <2>3. ASSUME ~astray PROVE OnCourse'
    <3>1. OnCourse /\ TypeOK
      BY <2>3 DEF IInv
    <3>2. next = nblocks
      BY <1>1, <1>5, <3>1 DEF TypeOK, OnCourse, OnTrack
    <3>3. OneBlock' /\ CleanStart' /\ RoomStays' /\ OnTrack'
      BY <1>1, <1>5, <2>1, <3>1, <3>2
      DEF OnCourse, OneBlock, CleanStart, RoomStays, OnTrack, Fits, Clear,
          Sent, InFlight, LastSent
    <3>4. LateVouched'
      <4>1. link /\ ~fault /\ ~Printing /\ ~Busy /\ ~BufFull => Printed
        BY <1>1, <3>1, <3>2
        DEF OnCourse, OneBlock, OnTrack, Printed, Printing, Busy, BufFull, TypeOK,
            Sent, InFlight, LastSent
      <4>2. LET r == Reply("INQUIRY_STA")
            IN  link /\ ~r.fault /\ ~r.printing /\ ~r.busy /\ ~r.full => Printed
        BY <4>1 DEF Reply
      <4> QED
        BY <1>1, <1>3, <1>5, <2>1, <4>2 DEF LateVouched, Vouched, Printed
    <3> QED
      BY <1>1, <2>1, <3>1, <3>3, <3>4 DEF OnCourse, Base, OkIsFinal, IInv
  <2> QED
    BY <1>1, <2>2, <2>3 DEF IInv
<1> QED
  BY <1>2, <1>4, <1>5 DEF QueryAfter

\* Nothing in the printer and nothing printing: all the blocks are laid.
LEMMA WaitCompletionInv == IInv /\ WaitCompletion => IInv'
<1> SUFFICES ASSUME IInv, WaitCompletion PROVE IInv'
  OBVIOUS
<1>1. pc = "completion" /\ UNCHANGED <<hostVars, printerVars>>
  BY DEF WaitCompletion, LinkError
<1>2. CASE LinkError("completion") /\ UNCHANGED astray
  BY <1>1, <1>2, LinkErrorInv
<1>3. ASSUME Answered("INQUIRY_STA") \/ Unanswered("INQUIRY_STA")
      PROVE  /\ late' \in Seq(Replies) /\ Len(late') <= MaxUnread
             /\ ~link => late' = <<>>
  BY <1>3, Exchange DEF IInv, Ops
<1>4. ASSUME Answered("INQUIRY_STA") \/ Unanswered("INQUIRY_STA"),
             PollAgain(Goto("verdict")) \/ Return("invalid"), UNCHANGED astray
      PROVE  IInv'
  <2>1. CASE Return("invalid")
    BY <1>1, <1>3, <1>4, <2>1, ReturnInv DEF Outcomes
  <2>2. CASE tries' = tries + 1 /\ tries + 1 < Budget /\ UNCHANGED <<pc, outcome>>
    BY <1>1, <1>4, <2>2, PollAgainInv
  <2>3. CASE Goto("verdict")
    <3>1. pc' = "verdict" /\ tries' = 0 /\ outcome' = outcome
      BY <2>3 DEF Goto
    <3>2. TypeOK' /\ Base'
      BY <1>1, <1>3, <1>4, <3>1, QuietTypes DEF IInv, TypeOK, Base, OkIsFinal, Budget
    <3>3. OnCourse => OnCourse'
      BY <1>1, <3>1
      DEF OnCourse, OneBlock, CleanStart, RoomStays, OnTrack, Fits, Clear,
          Sent, InFlight, LastSent, LateVouched, Vouched, Printed
    <3> QED
      BY <1>4, <3>2, <3>3 DEF IInv
  <2> QED
    BY <1>4, <2>1, <2>2, <2>3 DEF PollAgain
<1>5. ASSUME NEW age \in 0..MaxUnread, Hears("INQUIRY_STA", age),
             ~Nth("INQUIRY_STA", age).fault, ~Nth("INQUIRY_STA", age).printing,
             ~Nth("INQUIRY_STA", age).busy, ~Nth("INQUIRY_STA", age).full,
             Heeds(age), Return("ok")
      PROVE  IInv'
  <2>1. Answered("INQUIRY_STA")
    BY <1>5 DEF Answered
  <2>2. astray' \in BOOLEAN /\ (~astray' => ~astray /\ ~(age >= 2))
    BY <1>5 DEF Heeds, IInv, TypeOK
  <2>3. pc' = "done" /\ tries' = 0 /\ outcome' = "ok"
    BY <1>5 DEF Return
  <2>4. TypeOK' /\ Base'
    BY <1>1, <1>3, <2>1, <2>2, <2>3, QuietTypes
    DEF IInv, TypeOK, Budget, Outcomes
  <2>5. ASSUME ~astray' PROVE OnCourse'
    <3>1. OnCourse /\ TypeOK
      BY <2>2, <2>5 DEF IInv
    <3>2. Printed
      BY <1>1, <1>5, <2>2, <2>5, <3>1, HeardVouched DEF Vouched, Ops
    <3> QED
      BY <1>1, <2>3, <3>1, <3>2
      DEF OnCourse, OneBlock, CleanStart, RoomStays, OnTrack, Fits, Clear,
          Sent, InFlight, LastSent, LateVouched, Vouched, Printed
  <2> QED
    BY <2>4, <2>5 DEF IInv
<1>6. CASE /\ Unanswered("INQUIRY_STA")
           /\ PollAgain(Goto("verdict")) /\ UNCHANGED astray
  BY <1>4, <1>6
<1>7. ASSUME NEW age \in 0..MaxUnread, Hears("INQUIRY_STA", age),
             PollAgain(Goto("verdict")) \/ Return("invalid"), UNCHANGED astray
      PROVE  IInv'
  BY <1>4, <1>7 DEF Answered
<1> QED
  BY <1>2, <1>5, <1>6, <1>7 DEF WaitCompletion

\* The last query only names the failure.
LEMMA VerdictInv == IInv /\ Verdict => IInv'
<1> SUFFICES ASSUME IInv, Verdict PROVE IInv'
  OBVIOUS
<1>1. pc = "verdict" /\ UNCHANGED <<hostVars, astray, printerVars>>
  BY DEF Verdict, LinkError
<1>2. CASE LinkError("verdict")
  BY <1>1, <1>2, LinkErrorInv
<1>3. ASSUME Answered("INQUIRY_STA") \/ Unanswered("INQUIRY_STA"),
             NEW result \in {"invalid", "timeout"}, Return(result)
      PROVE  IInv'
  <2>1. late' \in Seq(Replies) /\ Len(late') <= MaxUnread /\ (~link => late' = <<>>)
    BY <1>3, Exchange DEF IInv, Ops
  <2> QED
    BY <1>1, <1>3, <2>1, ReturnInv DEF Outcomes
<1>4. CASE Unanswered("INQUIRY_STA") /\ Return("timeout")
  BY <1>3, <1>4
<1>5. ASSUME NEW age \in 0..MaxUnread, Hears("INQUIRY_STA", age),
             Return(IF Nth("INQUIRY_STA", age).full THEN "invalid" ELSE "timeout")
      PROVE  IInv'
  <2>1. Answered("INQUIRY_STA")
    BY <1>5 DEF Answered
  <2> QED
    BY <1>3, <1>5, <2>1
<1> QED
  BY <1>2, <1>4, <1>5 DEF Verdict

-----------------------------------------------------------------------------
(* Steps of the call that reach the printer *)

\* A page begins over whatever the calls before it left in the printer; on a printer
\* at rest it begins with a clean slate.
LEMMA BeginPageInv == IInv /\ BeginPage => IInv'
<1> SUFFICES ASSUME IInv, BeginPage PROVE IInv'
  OBVIOUS
<1>1. asked' \in Nat
  BY CalcSpeedNat, BoundsAssumption DEF BeginPage
<1>2. /\ link' \in BOOLEAN /\ link' /\ late' \in {late, <<>>}
      /\ astray' \in BOOLEAN /\ (~astray' => ~astray \/ AtRest)
      /\ garbled' \in BOOLEAN /\ (~garbled => ~garbled') /\ (AtRest => ~garbled')
  BY DEF BeginPage, IInv, TypeOK
<1>3. /\ pc' = "check" /\ tries' = 0 /\ outcome' = "none" /\ next' = 1
      /\ pc \in Ended /\ page' = page + 1 /\ page < MaxPages
      /\ nblocks' \in 1..MaxBlocks
      /\ UNCHANGED <<kind, phase, moving, fault, pageBuffer, label, laid>>
      /\ incoming = NoBlock /\ (phase = "printing" => held = NoBlock \/ moving)
  BY DEF BeginPage, RetryAfterPause
<1>4. TypeOK'
  <2>1. late \in Seq(Replies) /\ Len(late) <= MaxUnread /\ MaxUnread \in Nat
    BY BoundsAssumption DEF IInv, TypeOK
  <2>2. late' \in Seq(Replies) /\ Len(late') <= MaxUnread
    <3>1. CASE late' = late
      BY <2>1, <3>1
    <3>2. CASE late' = <<>>
      BY <2>1, <3>2
    <3> QED
      BY <1>2, <3>1, <3>2
  <2>3. /\ page' \in 0..MaxPages /\ next' \in 0..MaxBlocks /\ nblocks' \in 0..MaxBlocks
        /\ tries' \in Nat /\ tries' < Budget'
        /\ pc' \in Points /\ outcome' \in Outcomes
    BY <1>3, BoundsAssumption DEF IInv, TypeOK, Budget, Outcomes
  <2> QED
    BY <1>1, <1>2, <1>3, <2>2, <2>3 DEF IInv, TypeOK
<1>5. Base' /\ label' < page'
  BY <1>2, <1>3 DEF IInv, TypeOK, Base, OkIsFinal
<1>6. ASSUME ~astray' PROVE OnCourse'
  <2>1. CASE OnCourse
    BY <1>2, <1>3, <1>4, <1>5, <2>1
    DEF OnCourse, TypeOK, OneBlock, CleanStart, RoomStays, OnTrack, Fits, Clear,
        LateVouched, Vouched
  <2>2. CASE AtRest
    BY <1>2, <1>3, <1>4, <1>5, <2>2
    DEF AtRest, OnCourse, TypeOK, OneBlock, CleanStart, RoomStays, OnTrack, Fits,
        Clear, LateVouched, Vouched
  <2> QED
    BY <1>2, <1>6, <2>1, <2>2 DEF IInv
<1> QED
  BY <1>4, <1>5, <1>6 DEF IInv

\* The label is blank, so that calling it this page's disturbs nothing.
LEMMA StartPrintInv == IInv /\ StartPrint => IInv'
<1> SUFFICES ASSUME IInv, StartPrint PROVE IInv'
  OBVIOUS
<1>1. CASE LinkError("start") /\ UNCHANGED <<label, laid, phase>>
  <2>1. UNCHANGED <<hostVars, printerVars, astray>>
    BY <1>1 DEF StartPrint
  <2> QED
    BY <1>1, <2>1, LinkErrorInv
<1>2. CASE /\ pc = "start" /\ Goto("station")
           /\ Answered("START_PRINT") \/ Unanswered("START_PRINT")
           /\ label' = page /\ laid' = 0
           /\ \/ link /\ phase = "idle" /\ ~fault /\ phase' = "starting"
              \/ UNCHANGED phase
  <2>1. UNCHANGED <<hostVars, astray, link, moving, fault, pageBuffer, garbled>>
    BY DEF StartPrint
  <2>2. /\ late' \in Seq(Replies) /\ Len(late') <= MaxUnread
        /\ ~link => late' = <<>>
        /\ late' # <<>> => late'[1] = Reply("START_PRINT")
    BY <1>2, Exchange DEF IInv, Ops, Unchecked
  <2>3. TypeOK'
    <3>1. /\ phase' \in {"idle", "starting", "printing", "finishing"}
          /\ laid' \in 0..MaxBlocks /\ label' \in 0..MaxPages
      BY <1>2, BoundsAssumption DEF IInv, TypeOK
    <3>2. tries' \in Nat /\ tries' < Budget' /\ pc' = "station" /\ outcome' = outcome
      BY <1>2, AttemptsAssumption DEF Goto, Budget
    <3> QED
      BY <2>1, <2>2, <3>1, <3>2 DEF IInv, TypeOK
  <2>4. Base'
    BY <1>2, <2>1, <2>2 DEF IInv, TypeOK, Base, OkIsFinal, Goto
  <2>5. ASSUME ~astray PROVE OnCourse'
    <3>0. OnCourse /\ TypeOK /\ pc' = "station" /\ outcome' = outcome
      BY <1>2, <2>5 DEF IInv, Goto
    <3>1. Clear
      BY <1>2, <3>0 DEF OnCourse, CleanStart
    <3>2. OneBlock'
      BY <1>2, <2>1, <3>0, <3>1 DEF OnCourse, OneBlock, Fits, Clear
    <3>3. CleanStart' /\ RoomStays'
      BY <1>2, <2>1, <3>0, <3>1 DEF OnCourse, TypeOK, CleanStart, RoomStays, Clear
    <3>4. OnTrack'
      BY <1>2, <2>1, <3>0, <3>1
      DEF OnCourse, TypeOK, CleanStart, OneBlock, OnTrack, Sent, InFlight, LastSent, Clear
    <3>5. LateVouched'
      <4>1. Reply("START_PRINT").printing => phase' = "printing"
        BY <1>2 DEF Reply, Printing
      <4> QED
        BY <2>2, <3>0, <4>1 DEF LateVouched, Vouched
    <3> QED
      BY <1>2, <2>1, <3>0, <3>2, <3>3, <3>4, <3>5 DEF OnCourse, Base, OkIsFinal, IInv
  <2> QED
    BY <2>1, <2>3, <2>4, <2>5 DEF IInv
<1> QED
  BY <1>1, <1>2 DEF StartPrint

\* Data packets do not touch the block in the buffer.
LEMMA SendDataInv == IInv /\ SendData => IInv'
<1> SUFFICES ASSUME IInv, SendData PROVE IInv'
  OBVIOUS
<1>1. CASE LinkError("data") /\ UNCHANGED draining
  <2>1. UNCHANGED <<hostVars, printerVars, astray>>
    BY <1>1 DEF SendData
  <2> QED
    BY <1>1, <2>1, LinkErrorInv
<1>2. CASE /\ pc = "data" /\ Goto("drain") /\ UNCHANGED late
           /\ draining' = TRUE \/ (~link /\ UNCHANGED draining)
  <2>1. UNCHANGED <<hostVars, astray, link, phase, moving, fault, incoming, held, rate, paper>>
    BY DEF SendData
  <2>2. draining' \in BOOLEAN
    BY <1>2 DEF IInv, TypeOK
  <2>3. pc = "data" /\ pc' = "drain" /\ tries' = 0 /\ outcome' = outcome
    BY <1>2 DEF Goto
  <2>4. TypeOK' /\ Base'
    BY <1>2, <2>1, <2>2, <2>3 DEF IInv, TypeOK, Base, OkIsFinal, Budget
  <2>5. OnCourse => OnCourse'
    BY <1>2, <2>1, <2>3
    DEF OnCourse, OneBlock, CleanStart, RoomStays, OnTrack, Fits, Clear,
        Sent, InFlight, LastSent, LateVouched, Vouched, Printed
  <2> QED
    BY <2>1, <2>4, <2>5 DEF IInv
<1> QED
  BY <1>1, <1>2 DEF SendData

\* BUF_FULL finds the packets stored and the buffer empty: the label is not
\* spoiled, and the block is the next one of the page, at a safe speed if split.
LEMMA HandOverCourse ==
  ASSUME TypeOK, Base, OnCourse, SendBufFull, TypeOK', ~astray'
  PROVE  OnCourse'
<1> DEFINE b == [page |-> page, idx |-> next, last |-> next = nblocks]
<1>1. /\ pc = "buffull" /\ ~draining /\ held = NoBlock /\ incoming = NoBlock
      /\ label = page /\ next \in 1..nblocks
  BY DEF SendBufFull, OnCourse, RoomStays, OneBlock, OnTrack
<1>2. /\ UNCHANGED <<hostVars, link, phase, moving, fault, draining, held, label, laid>>
      /\ \/ pc' = "settle" /\ outcome' = outcome
         \/ pc' = "done" /\ outcome' = "io"
  BY DEF SendBufFull, LinkError, Goto, Return
<1>3. b # NoBlock /\ next \in Nat /\ nblocks \in Nat
  <2>1. next \in Nat /\ nblocks \in Nat /\ next # 0
    BY <1>1 DEF TypeOK
  <2>2. b.idx # NoBlock.idx
    BY <2>1
  <2> QED
    BY <2>1, <2>2
<1>4. /\ \/ /\ incoming' = NoBlock
            /\ phase = "printing" => pc' = "done" \/ ~link \/ next = nblocks
         \/ incoming' = b /\ phase = "printing" /\ rate' = PrintSpeed
      /\ rate' = PrintSpeed \/ (incoming' = NoBlock /\ rate' = rate)
  BY <1>1 DEF SendBufFull, LinkError, HandOver, Goto, Return, TypeOK
<1>5. ~garbled'
  BY <1>1 DEF SendBufFull, HandOver, OnCourse
<1>6. nblocks > 1 => PrintSpeed <= SafeSplitSpeed
  BY SpeedAssumption DEF PrintSpeed, MULTI_BLOCK_SPEED
<1>8. ~fault => laid + 1 = next /\ phase = "printing"
  BY <1>1 DEF TypeOK, OnCourse, OnTrack, Sent, InFlight, LastSent
<1>9. fault => phase # "printing"
  BY DEF OnCourse, OneBlock
<1>10. incoming' = b => /\ ~fault /\ laid + 1 = next
                        /\ nblocks > 1 => rate' <= SafeSplitSpeed
  BY <1>1, <1>3, <1>4, <1>6, <1>8, <1>9
<1>11. OneBlock'
  <2>1. Fits(held)'
    BY <1>1, <1>2 DEF Fits
  <2>2. ASSUME incoming' = b PROVE Fits(incoming)'
    <3>1. /\ incoming'.page = page /\ incoming'.idx = next
          /\ incoming'.last = (next = nblocks)
      BY <2>2
    <3>3. incoming'.last \/ rate' <= SafeSplitSpeed
      <4>1. nblocks > 1 \/ next = nblocks
        BY <1>1, <1>3
      <4>2. nblocks > 1 => rate' <= SafeSplitSpeed
        BY <1>10, <2>2
      <4> QED
        BY <3>1, <4>1, <4>2
    <3> QED
      BY <1>1, <1>2, <1>3, <1>10, <2>2, <3>1, <3>3 DEF Fits
  <2>3. incoming' = NoBlock => Fits(incoming)'
    BY DEF Fits
  <2> QED
    BY <1>1, <1>2, <1>4, <2>1, <2>2, <2>3 DEF OnCourse, OneBlock
<1>12. CleanStart' /\ RoomStays' /\ LateVouched'
  BY <1>2 DEF OnCourse, CleanStart, RoomStays, LateVouched, Vouched
<1>13. OnTrack'
  BY <1>1, <1>2, <1>3, <1>4, <1>8
  DEF OnCourse, TypeOK, OnTrack, Sent, InFlight, LastSent
<1>14. outcome' # "ok"
  BY <1>1, <1>2 DEF Base, OkIsFinal
<1> QED
  BY <1>5, <1>11, <1>12, <1>13, <1>14 DEF OnCourse

\* BUF_FULL taken, lost or refused: a block that is missed later is no surprise.
LEMMA SendBufFullInv == IInv /\ SendBufFull => IInv'
<1> SUFFICES ASSUME IInv, SendBufFull PROVE IInv'
  OBVIOUS
<1> DEFINE b == [page |-> page, idx |-> next, last |-> next = nblocks]
<1>1. /\ UNCHANGED <<hostVars, link, phase, moving, fault, draining, held, label, laid>>
      /\ tries' = 0 /\ pc = "buffull"
      /\ \/ pc' = "settle" /\ outcome' = outcome
         \/ pc' = "done" /\ outcome' = "io"
  BY DEF SendBufFull, LinkError, Goto, Return
<1>2. late' \in Seq(Replies) /\ Len(late') <= MaxUnread /\ (~link => late' = <<>>)
  <2>1. CASE UNCHANGED late
    BY <2>1 DEF IInv, TypeOK, Base
  <2>2. CASE Answered("BUF_FULL") \/ Unanswered("BUF_FULL")
    BY <2>2, Exchange DEF IInv, Ops, Unchecked
  <2> QED
    BY <2>1, <2>2 DEF SendBufFull, LinkError
<1>3. /\ incoming' \in {incoming, b} /\ rate' \in {rate, PrintSpeed}
      /\ garbled' \in BOOLEAN /\ astray' \in BOOLEAN /\ (astray => astray')
  <2>1. garbled \in BOOLEAN /\ astray \in BOOLEAN
    BY DEF IInv, TypeOK
  <2>2. CASE /\ HandOver(b) /\ rate' = PrintSpeed /\ UNCHANGED astray
    BY <2>1, <2>2 DEF HandOver
  <2>3. CASE /\ UNCHANGED <<incoming, garbled, rate>>
             /\ astray' = (astray \/ (link /\ next < nblocks))
    BY <2>1, <2>3
  <2> QED
    BY <2>2, <2>3 DEF SendBufFull
<1>4. b \in Block /\ PrintSpeed \in Nat
  BY DEF PrintSpeed, MULTI_BLOCK_SPEED, IInv, TypeOK
<1>5. TypeOK' /\ Base'
  <2>1. rate' \in Nat /\ incoming' \in Block
    BY <1>3, <1>4 DEF IInv, TypeOK
  <2>2. tries' \in Nat /\ tries' < Budget' /\ pc' \in Points /\ outcome' \in Outcomes
    BY <1>1 DEF Budget, IInv, TypeOK, Outcomes
  <2>3. TypeOK'
    BY <1>1, <1>2, <1>3, <2>1, <2>2 DEF IInv, TypeOK
  <2> QED
    BY <1>1, <1>2, <2>3 DEF IInv, Base, OkIsFinal
<1>6. ASSUME ~astray' PROVE OnCourse'
  BY <1>3, <1>5, <1>6, HandOverCourse DEF IInv
<1> QED
  BY <1>5, <1>6 DEF IInv

-----------------------------------------------------------------------------
(* Steps of the printer, which may come at any point of the call *)

\* The head starts to move over the label of the page in hand.
LEMMA FwStartInv == IInv /\ FwStart => IInv'
<1> SUFFICES ASSUME IInv, FwStart PROVE IInv'
  OBVIOUS
<1>1. /\ phase = "starting" /\ phase' = "printing" /\ ~fault
      /\ moving' \in BOOLEAN /\ moving'
      /\ UNCHANGED <<hostVars, callVars, late, astray, link, fault, pageBuffer, paper>>
  BY DEF FwStart
<1>2. TypeOK' /\ Base'
  BY <1>1 DEF IInv, TypeOK, Base, OkIsFinal, Budget
<1>3. ASSUME OnCourse PROVE OnCourse'
  <2>1. OneBlock' /\ CleanStart' /\ RoomStays' /\ OnTrack'
    BY <1>1, <1>3
    DEF IInv, TypeOK, OnCourse, OneBlock, CleanStart, RoomStays, OnTrack, Fits,
        Sent, InFlight, LastSent, Clear
  <2>2. LateVouched'
    BY <1>1, <1>3
    DEF OnCourse, OneBlock, CleanStart, LateVouched, Vouched, Clear, Printed
  <2> QED
    BY <1>1, <1>3, <2>1, <2>2 DEF OnCourse, Printed
<1> QED
  BY <1>1, <1>2, <1>3 DEF IInv

\* Storing the data packets leaves the blocks alone.
LEMMA FwDrainInv == IInv /\ FwDrain => IInv'
<1> SUFFICES ASSUME IInv, FwDrain PROVE IInv'
  OBVIOUS
<1>1. /\ draining' \in BOOLEAN /\ ~draining'
      /\ UNCHANGED <<hostVars, callVars, late, astray, link, phase, moving, fault,
                     incoming, held, rate, paper>>
  BY DEF FwDrain
<1>2. TypeOK' /\ Base'
  BY <1>1 DEF IInv, TypeOK, Base, OkIsFinal, Budget
<1>3. ASSUME OnCourse PROVE OnCourse'
  BY <1>1, <1>3
  DEF OnCourse, OneBlock, CleanStart, RoomStays, OnTrack, Fits, Sent, InFlight,
      LastSent, Clear, LateVouched, Vouched, Printed
<1> QED
  BY <1>1, <1>2, <1>3 DEF IInv

\* The block leaves for an empty buffer.
LEMMA FwTakeInInv == IInv /\ FwTakeIn => IInv'
<1> SUFFICES ASSUME IInv, FwTakeIn PROVE IInv'
  OBVIOUS
<1>1. /\ incoming # NoBlock /\ held' = incoming /\ incoming' = NoBlock
      /\ moving' \in BOOLEAN
      /\ UNCHANGED <<hostVars, callVars, late, astray, link, phase, fault, draining,
                     rate, paper>>
  BY DEF FwTakeIn
<1>2. TypeOK' /\ Base'
  BY <1>1, BoundsAssumption DEF IInv, TypeOK, Base, OkIsFinal, Budget
<1>3. ASSUME OnCourse PROVE OnCourse'
  <2>1. pc \in {"settle", "done"}
    BY <1>1, <1>3 DEF OnCourse, OneBlock
  <2>2. OneBlock' /\ CleanStart' /\ RoomStays' /\ OnTrack' /\ LateVouched'
    BY <1>1, <1>3, <2>1
    DEF IInv, TypeOK, OnCourse, OneBlock, CleanStart, RoomStays, OnTrack, Fits,
        Sent, InFlight, LastSent, Clear, LateVouched, Vouched
  <2>3. outcome # "ok"
    BY <1>1, <1>3 DEF OnCourse, Printed
  <2> QED
    BY <1>1, <1>3, <2>2, <2>3 DEF OnCourse
<1> QED
  BY <1>1, <1>2, <1>3 DEF IInv

\* The head moves again.
LEMMA FwMoveInv == IInv /\ FwMove => IInv'
<1> SUFFICES ASSUME IInv, FwMove PROVE IInv'
  OBVIOUS
<1>1. /\ phase = "printing" /\ moving' \in BOOLEAN /\ moving'
      /\ UNCHANGED <<hostVars, callVars, late, astray, link, phase, fault, pageBuffer,
                     paper>>
  BY DEF FwMove
<1>2. TypeOK' /\ Base'
  BY <1>1 DEF IInv, TypeOK, Base, OkIsFinal, Budget
<1>3. ASSUME OnCourse PROVE OnCourse'
  BY <1>1, <1>3
  DEF OnCourse, OneBlock, CleanStart, RoomStays, OnTrack, Fits, Sent, InFlight,
      LastSent, Clear, LateVouched, Vouched, Printed
<1> QED
  BY <1>1, <1>2, <1>3 DEF IInv

\* The block in the buffer is the next one of the label; the printer goes on
\* printing unless it was the last.
LEMMA LayCourse ==
  ASSUME TypeOK, Base, OnCourse, FwLay
  PROVE  /\ held.page = label /\ held.idx = laid + 1
         /\ label = page => held.idx <= nblocks
         /\ laid' = laid + 1 /\ OnCourse'
<1>1. /\ phase = "printing" /\ moving /\ held # NoBlock /\ held' = NoBlock
      /\ phase' \in AfterBlock(held)
      /\ moving' \in BOOLEAN /\ (phase' = "printing" => moving')
      /\ UNCHANGED <<hostVars, callVars, late, astray, link, fault, draining, incoming,
                     rate, label>>
  BY DEF FwLay
<1>2. /\ held.page = label /\ held.idx = laid + 1
      /\ held.last \/ rate <= SafeSplitSpeed
      /\ label = page => held.idx <= nblocks /\ held.last = (held.idx = nblocks)
      /\ incoming = NoBlock /\ ~fault
  BY <1>1 DEF OnCourse, OneBlock, Fits
<1>3. laid' = laid + 1 /\ ~garbled'
  BY <1>2 DEF FwLay, OnCourse
<1>4. /\ phase' = "finishing" \/ phase' = "printing"
      /\ held.last => phase' = "finishing"
      /\ ~held.last => phase' = "printing"
  <2>1. rate \in Nat /\ SafeSplitSpeed \in Nat
    BY SpeedAssumption DEF TypeOK
  <2>2. ~held.last => ~(rate > SafeSplitSpeed)
    BY <1>2, <2>1
  <2> QED
    BY <1>1, <2>2 DEF AfterBlock
<1>5. OneBlock' /\ CleanStart' /\ RoomStays'
  BY <1>1, <1>2, <1>3, <1>4 DEF OnCourse, OneBlock, CleanStart, RoomStays, Fits, Clear
<1>6. OnTrack'
  <2> DEFINE Known == link \/ pc \in {"header", "data", "drain", "buffull"}
  <2>1. SUFFICES ASSUME pc \in Running PROVE OnTrack'
    BY <1>1 DEF OnTrack
  <2>2. /\ label = page /\ next \in 1..nblocks
        /\ pc \in Finishing => next = nblocks
        /\ pc = "station" => next = 1
        /\ Known => laid + 1 = Sent \/ (LastSent /\ laid + 1 = Sent - 1)
    BY <1>1, <1>2, <2>1 DEF OnCourse, OnTrack, InFlight
  <2>3. Sent' = Sent /\ InFlight' = 0 /\ LastSent' = LastSent
    BY <1>1, <1>2 DEF Sent, InFlight, LastSent
  <2>4. (laid' < nblocks => phase' = "printing") /\ (laid' = nblocks => phase' = "finishing")
    BY <1>2, <1>3, <1>4, <2>2 DEF TypeOK
  <2> QED
    BY <1>1, <1>3, <2>2, <2>3, <2>4 DEF OnTrack, TypeOK
<1>7. LateVouched'
  <2>1. pc = "station" => late = <<>>
    BY <1>1, <1>2 DEF Base, OnCourse, OnTrack, TypeOK, Sent, InFlight, LastSent
  <2> QED
    BY <1>1, <2>1 DEF OnCourse, LateVouched, Vouched, Clear, Printed
<1>8. outcome' # "ok"
  BY <1>1 DEF OnCourse, Printed
<1> QED
  BY <1>2, <1>3, <1>5, <1>6, <1>7, <1>8 DEF OnCourse

\* A block laid, in its place or not.
LEMMA FwLayInv == IInv /\ FwLay => IInv'
<1> SUFFICES ASSUME IInv, FwLay PROVE IInv'
  OBVIOUS
<1>1. /\ held # NoBlock /\ held' = NoBlock
      /\ phase' \in {"printing", "finishing", "idle"} /\ moving' \in BOOLEAN
      /\ UNCHANGED <<hostVars, callVars, late, astray, link, fault, draining, incoming,
                     rate, label>>
  BY DEF FwLay, AfterBlock
<1>2. laid' \in 0..MaxBlocks /\ garbled' \in BOOLEAN
  BY DEF FwLay, IInv, TypeOK
<1>3. held' \in Block
  BY <1>1, BoundsAssumption
<1>4. TypeOK' /\ Base'
  BY <1>1, <1>2, <1>3 DEF IInv, TypeOK, Base, OkIsFinal, Budget
<1> QED
  BY <1>1, <1>4, LayCourse DEF IInv

\* The page is finished: the buffer has been empty since its last block.
LEMMA FwFinishInv == IInv /\ FwFinish => IInv'
<1> SUFFICES ASSUME IInv, FwFinish PROVE IInv'
  OBVIOUS
<1>1. /\ phase = "finishing" /\ phase' = "idle"
      /\ UNCHANGED <<hostVars, callVars, late, astray, link, moving, fault, pageBuffer,
                     paper>>
  BY DEF FwFinish
<1>2. TypeOK' /\ Base'
  BY <1>1 DEF IInv, TypeOK, Base, OkIsFinal, Budget
<1>3. ASSUME OnCourse PROVE OnCourse'
  BY <1>1, <1>3
  DEF OnCourse, OneBlock, CleanStart, RoomStays, OnTrack, Fits, Sent, InFlight,
      LastSent, Clear, LateVouched, Vouched, Printed
<1> QED
  BY <1>1, <1>2, <1>3 DEF IInv

\* A page given up leaves nothing in the printer, and the error flag tells.
LEMMA FwFaultInv == IInv /\ FwFault => IInv'
<1> SUFFICES ASSUME IInv, FwFault PROVE IInv'
  OBVIOUS
<1>1. /\ fault' \in BOOLEAN /\ fault' /\ moving' \in BOOLEAN
      /\ phase' = "idle" /\ incoming' = NoBlock /\ held' = NoBlock
      /\ link' \in BOOLEAN /\ (link' => link)
      /\ late' = (IF link' THEN late ELSE <<>>)
      /\ UNCHANGED <<hostVars, callVars, astray, draining, rate, paper>>
  <2>1. link \in BOOLEAN /\ link' \in {link, FALSE}
    BY DEF FwFault, IInv, TypeOK
  <2>2. link' \in BOOLEAN /\ (link' => link)
    <3>1. CASE link' = link
      BY <2>1, <3>1
    <3>2. CASE link' = FALSE
      BY <3>2
    <3> QED
      BY <2>1, <3>1, <3>2
  <2>3. fault' \in BOOLEAN /\ fault' /\ moving' \in BOOLEAN
    BY DEF FwFault
  <2>4. /\ phase' = "idle" /\ incoming' = NoBlock /\ held' = NoBlock
        /\ UNCHANGED <<hostVars, callVars, astray, draining, rate, paper>>
    BY DEF FwFault
  <2>5. late' = (IF link' THEN late ELSE <<>>)
    BY DEF FwFault
  <2> QED
    BY <2>2, <2>3, <2>4, <2>5
<1>2. late' \in Seq(Replies) /\ Len(late') <= MaxUnread
  <2>1. CASE link'
    BY <1>1, <2>1 DEF IInv, TypeOK
  <2>2. CASE ~link'
    BY <1>1, <2>2, BoundsAssumption
  <2> QED
    BY <2>1, <2>2
<1>3. TypeOK'
  BY <1>1, <1>2, BoundsAssumption DEF IInv, TypeOK, Budget
<1>4. Base'
  BY <1>1 DEF IInv, TypeOK, Base, OkIsFinal
<1>5. ASSUME OnCourse PROVE OnCourse'
  <2>1. OneBlock' /\ CleanStart' /\ RoomStays' /\ OnTrack'
    BY <1>1, <1>5
    DEF IInv, TypeOK, OnCourse, OneBlock, CleanStart, RoomStays, OnTrack, Fits,
        Sent, InFlight, LastSent, Clear
  <2>2. LateVouched'
    BY <1>1, <1>5 DEF OnCourse, LateVouched, Vouched, Clear, Printed
  <2> QED
    BY <1>1, <1>5, <2>1, <2>2 DEF OnCourse, Printed
<1> QED
  BY <1>1, <1>3, <1>4, <1>5 DEF IInv

\* An operator clears a flag only while no block is being sent.
LEMMA ClearFaultInv == IInv /\ ClearFault => IInv'
<1> SUFFICES ASSUME IInv, ClearFault PROVE IInv'
  OBVIOUS
<1>1. /\ fault' \in BOOLEAN /\ ~fault' /\ pc \in Ended \union Before
      /\ UNCHANGED <<hostVars, callVars, late, astray, link, phase, moving, pageBuffer,
                     paper>>
  BY DEF ClearFault
<1>2. TypeOK' /\ Base'
  BY <1>1 DEF IInv, TypeOK, Base, OkIsFinal, Budget
<1>3. ASSUME OnCourse PROVE OnCourse'
  BY <1>1, <1>3
  DEF OnCourse, OneBlock, CleanStart, RoomStays, OnTrack, Fits, Sent, InFlight,
      LastSent, Clear, LateVouched, Vouched, Printed
<1> QED
  BY <1>1, <1>2, <1>3 DEF IInv

\* The link going down changes nothing on paper.
LEMMA LinkDropInv == IInv /\ LinkDrop => IInv'
<1> SUFFICES ASSUME IInv, LinkDrop PROVE IInv'
  OBVIOUS
<1>1. /\ link' \in BOOLEAN /\ ~link' /\ late' = <<>>
      /\ UNCHANGED <<hostVars, callVars, astray, phase, moving, fault, pageBuffer, paper>>
  BY DEF LinkDrop
<1>2. TypeOK' /\ Base'
  BY <1>1, BoundsAssumption DEF IInv, TypeOK, Base, OkIsFinal, Budget
<1>3. ASSUME OnCourse PROVE OnCourse'
  BY <1>1, <1>3
  DEF OnCourse, OneBlock, CleanStart, RoomStays, OnTrack, Fits, Sent, InFlight,
      LastSent, Clear, LateVouched, Printed
<1> QED
  BY <1>1, <1>2, <1>3 DEF IInv

\* No step of the specification breaks the invariant.
LEMMA NextInv == IInv /\ [Next]_vars => IInv'
<1> SUFFICES ASSUME IInv, [Next]_vars PROVE IInv'
  OBVIOUS
<1>1. CASE BeginPage
  BY <1>1, BeginPageInv
<1>2. CASE HostStep
  BY <1>2, CheckDeviceInv, WaitReadyInv, StartPrintInv, WaitPrintingInv,
     WaitBufferReadyInv, SendHeaderInv, SendDataInv, SettleDataInv,
     SendBufFullInv, SettleBlockInv, QueryAfterInv, WaitCompletionInv,
     VerdictInv
  DEF HostStep
<1>3. CASE PrinterStep
  BY <1>3, FwStartInv, FwDrainInv, FwTakeInInv, FwMoveInv, FwLayInv,
     FwFinishInv, FwFaultInv, ClearFaultInv, LinkDropInv
  DEF PrinterStep
<1>4. CASE UNCHANGED vars
  <2>1. TypeOK' /\ Base'
    BY <1>4 DEF vars, IInv, TypeOK, Base, OkIsFinal, Budget
  <2>2. OnCourse => OnCourse'
    BY <1>4
    DEF vars, OnCourse, OneBlock, CleanStart, RoomStays, OnTrack, Fits, Sent,
        InFlight, LastSent, Clear, LateVouched, Vouched, Printed
  <2> QED
    BY <1>4, <2>1, <2>2 DEF vars, IInv
<1> QED
  BY <1>1, <1>2, <1>3, <1>4 DEF Next

-----------------------------------------------------------------------------
(* Theorems *)

\* The inductive invariant of print_compressed and its printer holds throughout.
THEOREM Invariance == Spec => []IInv
<1>1. Init => IInv
  BY InitInv
<1>2. IInv /\ [Next]_vars => IInv'
  BY NextInv
<1> QED
  BY <1>1, <1>2, PTL DEF Spec

\* Every variable keeps its type and every wait loop its attempt budget, for all
\* budgets and page sizes.
THEOREM TypeCorrect == Spec => []TypeOK
BY Invariance, PTL DEF IInv

\* Unless a poll went by a reply two requests old or a block went missing unnoticed,
\* the block loop never spoils a label: flow control by buf_full works over each
\* link with one late reply always unread, for pages of any number of blocks,
\* through any sequence of failed and repeated calls.
THEOREM FlowControl == Spec => []NeverGarbled
<1>1. IInv => NeverGarbled
  BY DEF IInv, TypeOK, OnCourse, NeverGarbled
<1> QED
  BY <1>1, Invariance, PTL

\* With the same reservation an Ok of print_compressed is true: all the blocks of the
\* page are on its label, the last of them included, whatever became of BUF_FULL.
THEOREM CompletionIsTrue == Spec => []OkMeansPrinted
<1>1. IInv => OkMeansPrinted
  BY DEF IInv, OnCourse, OkMeansPrinted, Printed
<1> QED
  BY <1>1, Invariance, PTL

\* START_PRINT finds a printer that is not printing, whatever an earlier call left
\* behind, unless that was read off a reply older than CHECK_DEVICE's.
THEOREM StartIsClean == Spec => StartsOnBlankLabel
<1>1. IInv /\ [Next]_vars =>
        [pc = "start" /\ pc' = "station" /\ ~astray =>
           /\ held = NoBlock /\ incoming = NoBlock
           /\ phase # "finishing" /\ (phase = "printing" => laid = 0)]_vars
  BY DEF IInv, OnCourse, CleanStart, Clear
<1> QED
  BY <1>1, Invariance, PTL DEF Spec, StartsOnBlankLabel

-----------------------------------------------------------------------------
(* print_compressed with its printer implements the contract of a page *)

\* A step of the call is invisible to the caller, or it is the call's return, or the
\* call goes astray and its page lapses.
LEMMA HostRefines ==
  ASSUME IInv, IInv', HostStep
  PROVE  Contract!Next \/ UNCHANGED Contract!vars
<1>1. /\ pc \notin Ended /\ pc' # "idle" /\ UNCHANGED <<page, nblocks>>
      /\ \/ pc \in Before /\ label' = page /\ laid' = 0
         \/ UNCHANGED <<label, laid>>
  BY DEF HostStep, CheckDevice, WaitReady, StartPrint, WaitPrinting,
     WaitBufferReady, SendHeader, SendData, SettleData, SendBufFull, SettleBlock,
     QueryAfter, WaitCompletion, Verdict, Goto, Return, PollAgain, LinkError
<1>0. astray => astray'
  BY DEF HostStep, CheckDevice, WaitReady, StartPrint, WaitPrinting,
     WaitBufferReady, SendHeader, SendData, SettleData, SendBufFull, SettleBlock,
     QueryAfter, WaitCompletion, Verdict, Heeds
<1>2. CASE astray
  BY <1>0, <1>1, <1>2 DEF Contract!vars
<1>3. CASE ~astray /\ astray'
  BY <1>1, <1>3 DEF Contract!Next, Contract!Lapse
<1>4. CASE ~astray'
  <2>0. ~astray /\ OnCourse /\ OnCourse'
    BY <1>0, <1>4 DEF IInv
  <2> DEFINE Laid == IF label = page THEN laid ELSE 0
  <2>1. Laid' = Laid
    <3>1. pc \in Before => label # page
      BY <2>0 DEF IInv, TypeOK, OnCourse, CleanStart
    <3> QED
      BY <1>1, <3>1
  <2>2. CASE pc' \notin Ended
    BY <1>1, <1>4, <2>0, <2>1, <2>2 DEF Contract!vars
  <2>3. CASE pc' = "done" /\ outcome' = "ok"
    <3>1. Laid' = nblocks
      BY <1>1, <2>0, <2>3 DEF OnCourse, Printed
    <3> QED
      BY <1>1, <1>4, <2>0, <2>1, <2>3, <3>1 DEF Contract!Next, Contract!ReportOk
  <2>4. CASE pc' = "done" /\ outcome' # "ok"
    BY <1>1, <1>4, <2>0, <2>1, <2>4 DEF Contract!Next, Contract!ReportFailed
  <2> QED
    BY <1>1, <2>2, <2>3, <2>4
<1> QED
  BY <1>2, <1>3, <1>4

\* A block laid is the next one of the page in hand, or belongs to a page that was
\* given up before.
LEMMA LayRefines ==
  ASSUME IInv, FwLay
  PROVE  Contract!Next \/ UNCHANGED Contract!vars
<1>1. held # NoBlock /\ UNCHANGED <<pc, outcome, page, nblocks, label, astray>>
  BY DEF FwLay
<1>2. CASE astray
  BY <1>1, <1>2 DEF Contract!vars
<1>3. CASE ~astray
  <2>0. TypeOK /\ Base /\ OnCourse
    BY <1>3 DEF IInv
  <2>1. /\ held.page = label /\ held.idx = laid + 1
        /\ label = page => held.idx <= nblocks
        /\ laid' = laid + 1
    BY <2>0, LayCourse
  <2>2. CASE label = page
    <3>1. pc # "idle" /\ ~(pc = "done" /\ outcome = "ok") /\ laid < nblocks
      BY <1>1, <2>0, <2>1, <2>2 DEF TypeOK, OnCourse, CleanStart, Printed
    <3> QED
      BY <1>1, <1>3, <2>1, <2>2, <3>1 DEF Contract!Next, Contract!LayBlock
  <2>3. CASE label # page
    BY <1>1, <1>3, <2>1, <2>3 DEF Contract!vars
  <2> QED
    BY <2>2, <2>3
<1> QED
  BY <1>2, <1>3

\* Nothing else the printer does is visible.
LEMMA PrinterRefines ==
  ASSUME IInv, PrinterStep
  PROVE  Contract!Next \/ UNCHANGED Contract!vars
<1>1. CASE FwLay
  BY <1>1, LayRefines
<1>2. CASE UNCHANGED <<pc, outcome, page, nblocks, label, laid, astray>>
  BY <1>2 DEF Contract!vars
<1> QED
  BY <1>1, <1>2 DEF PrinterStep, FwStart, FwDrain, FwTakeIn, FwMove, FwFinish,
     FwFault, ClearFault, LinkDrop

\* The caller of print_compressed gets what PageContract promises, for every
\* number of blocks, pages and attempts; a page lapses only when its call goes by a
\* reply two requests old or loses a block that is not the last.
THEOREM PageRefinement == Spec => ImplementsContract
<1>1. Init => Contract!Init
  BY DEF Init, Contract!Init
<1>2. IInv /\ IInv' /\ [Next]_vars => [Contract!Next]_(Contract!vars)
  <2> SUFFICES ASSUME IInv, IInv', [Next]_vars
               PROVE  Contract!Next \/ UNCHANGED Contract!vars
    OBVIOUS
  <2>1. CASE BeginPage
    <3>1. /\ pc \in Ended /\ pc' = "check" /\ nblocks' \in 1..MaxBlocks
          /\ label' = label /\ page' = page + 1 /\ label <= page
          /\ label \in Nat /\ page \in Nat
          /\ astray' => astray
      BY <2>1 DEF BeginPage, IInv, TypeOK, Base
    <3>2. label' # page'
      BY <3>1
    <3>3. CASE astray'
      BY <3>1, <3>3 DEF Contract!vars
    <3>4. CASE ~astray'
      BY <3>1, <3>2, <3>4 DEF Contract!Next, Contract!Begin
    <3> QED
      BY <3>3, <3>4
  <2>2. CASE HostStep
    BY <2>2, HostRefines
  <2>3. CASE PrinterStep
    BY <2>3, PrinterRefines
  <2>4. CASE UNCHANGED vars
    BY <2>4 DEF vars, Contract!vars
  <2> QED
    BY <2>1, <2>2, <2>3, <2>4 DEF Next
<1> QED
  BY <1>1, <1>2, Invariance, PTL DEF Spec, ImplementsContract, Contract!Spec

=============================================================================
