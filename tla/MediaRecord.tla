---------------------------- MODULE MediaRecord -----------------------------
(***************************************************************************)
(* The material record of the loaded roll and the tasks that deal with it  *)
(* (supvan-app/src/ipp_server.rs, supvan-proto/src/printer.rs):            *)
(* apply_media writes a synthetic record for stock without a tag, in       *)
(* provision_material waits until the printer serves it, and enters its    *)
(* fingerprint in roll_cache; poll_status reads the record, compares it    *)
(* with the cache, logs a roll swap when they differ, and enters it.       *)
(*                                                                         *)
(* The printer is external: a record written is committed a little later   *)
(* ("a short window", in which it may serve a half-updated one), and not   *)
(* at all when the bulk write got lost.  Replies to RETURN_MAT may be lost *)
(* too.  An operator exchanges rolls and sets sizes, but not twice within  *)
(* that window.                                                            *)
(***************************************************************************)
EXTENDS Naturals

CONSTANTS
  Sizes,          \* label sizes an operator may set, all within the advertised bounds
  Genuine,        \* the UIDs of tagged rolls
  FullRoll,       \* labels on a full roll: 480
  SETTLE_POLLS,
  SharedPrinter,  \* the tasks share a locked socket (Bluetooth), or not (USB)
  MaxRequests,    \* bound: media changes asked for
  MaxSwaps        \* bound: rolls exchanged

ASSUME SizesAssumption == Sizes \subseteq Nat \ {0}
ASSUME RollAssumption == FullRoll \in Nat \ {0} /\ SETTLE_POLLS \in Nat \ {0}
ASSUME BoundsAssumption == MaxRequests \in Nat /\ MaxSwaps \in Nat
ASSUME TagsAssumption == Genuine \intersect {"blank", "half", "ours"} = {}
ASSUME SharedAssumption == SharedPrinter \in BOOLEAN

VARIABLES
  served,     \* the record RETURN_MAT reads
  pending,    \* a record received and not committed
  swaps       \* rolls exchanged so far

VARIABLES
  setter,     \* where apply_media stands
  requests,   \* media changes asked for so far
  wanted,     \* the size asked for
  current,    \* what its first query returned
  over,       \* the record the printer served when the write went out
  polls,      \* confirmation polls made
  confirmed   \* the record provision_material returned

VARIABLES
  poller,     \* where poll_status stands
  seen,       \* the record it read
  cache       \* roll_cache: the last fingerprint

printerVars == <<served, pending, swaps>>
setterVars == <<setter, requests, wanted, current, over, polls, confirmed>>
pollerVars == <<poller, seen, cache>>
vars == <<printerVars, setterVars, pollerVars>>

Uids == Genuine \union {"blank", "half", "ours"}
Record == [uid: Uids, size: Sizes \union {0}, left: 0..FullRoll]
Fingerprint == [uid: Uids, size: Sizes \union {0}]

NoRecord == [uid |-> "none", size |-> 0, left |-> 0]
NoFingerprint == [uid |-> "none", size |-> 0]
Blank == [uid |-> "blank", size |-> 0, left |-> 0]
Rolls == {Blank} \union [uid: Genuine, size: Sizes, left: {FullRoll}]

FingerprintOf(r) == [uid |-> r.uid, size |-> r.size]

\* Blank stock, a record of ours, and what is half written all lack the signature
\* of a tag.
RecordIsOurs(r) == r.uid \notin Genuine

\* The synthetic UUID is the catalogue code, always 30000, whatever the size.
Expected == "ours"

\* The record apply_media builds: gap and label type are carried over from the
\* one it read, the labels left on the roll are not.
NewRecord == [uid |-> Expected, size |-> wanted, left |-> FullRoll]

Locked == SharedPrinter /\ setter = "confirm"

TypeOK ==
  /\ served \in Record
  /\ pending \in Record \union {NoRecord}
  /\ swaps \in 0..MaxSwaps
  /\ setter \in {"idle", "query", "send", "confirm", "record"}
  /\ requests \in 0..MaxRequests
  /\ wanted \in Sizes \union {0}
  /\ current \in Record \union {NoRecord}
  /\ over \in Record \union {NoRecord}
  /\ polls \in 0..(SETTLE_POLLS - 1)
  /\ confirmed \in Record \union {NoRecord}
  /\ poller \in {"idle", "compare"}
  /\ seen \in Record \union {NoRecord}
  /\ cache \in Fingerprint \union {NoFingerprint}

Init ==
  /\ served \in Rolls /\ pending = NoRecord /\ swaps = 0
  /\ setter = "idle" /\ requests = 0 /\ wanted = 0 /\ polls = 0
  /\ current = NoRecord /\ over = NoRecord /\ confirmed = NoRecord
  /\ poller = "idle" /\ seen = NoRecord /\ cache = NoFingerprint

-----------------------------------------------------------------------------
(* apply_media *)

\* apply_media returns, with success or an error.
Answer ==
  /\ setter' = "idle" /\ polls' = 0
  /\ current' = NoRecord /\ over' = NoRecord /\ confirmed' = NoRecord
  /\ UNCHANGED <<requests, wanted>>

Request ==
  /\ setter = "idle" /\ requests < MaxRequests /\ pending = NoRecord
  /\ setter' = "query"
  /\ requests' = requests + 1
  /\ wanted' \in Sizes
  /\ UNCHANGED <<current, over, polls, confirmed, printerVars, pollerVars>>

\* The loaded record is read and looked at; a reply that is missing or cannot be
\* parsed counts as no record at all.
QueryCurrent ==
  /\ setter = "query" /\ ~Locked
  /\ \/ Answer
     \/ \E m \in {served, NoRecord} :
          IF m # NoRecord /\ (~RecordIsOurs(m) \/ m.size = wanted)
          THEN Answer
          ELSE /\ current' = m /\ setter' = "send"
               /\ UNCHANGED <<requests, wanted, over, polls, confirmed>>
  /\ UNCHANGED <<printerVars, pollerVars>>

\* set_rfid_data: the announcement has to be acknowledged; what becomes of the
\* bulk write is not known but from the polls that follow.
SendRecord ==
  /\ setter = "send"
  /\ \/ Answer /\ UNCHANGED pending
     \/ /\ pending' \in {NewRecord, pending}
        /\ \/ setter' = "confirm" /\ over' = served
              /\ UNCHANGED <<requests, wanted, current, polls, confirmed>>
           \/ Answer
  /\ UNCHANGED <<served, swaps, pollerVars>>

\* (faulty variant: any record read back counts)
ConfirmAnyReply ==
  /\ setter = "confirm"
  /\ confirmed' = served /\ setter' = "record"
  /\ UNCHANGED <<requests, wanted, current, over, polls>>
  /\ UNCHANGED <<printerVars, pollerVars>>

\* (faulty variant: one poll too many)
ConfirmPollsOff ==
  /\ setter = "confirm"
  /\ polls' = polls + 1
  /\ UNCHANGED <<setter, requests, wanted, current, over, confirmed>>
  /\ UNCHANGED <<printerVars, pollerVars>>

\* provision_material polls until the synthetic UUID echoes back.
Confirm ==
  /\ setter = "confirm"
  /\ \/ /\ served.uid = Expected
        /\ confirmed' = served /\ setter' = "record"
        /\ UNCHANGED <<requests, wanted, current, over, polls>>
     \/ /\ IF polls + 1 < SETTLE_POLLS
           THEN /\ polls' = polls + 1
                /\ UNCHANGED <<setter, requests, wanted, current, over, confirmed>>
           ELSE Answer
     \/ Answer
  /\ UNCHANGED <<printerVars, pollerVars>>

RecordFingerprint ==
  /\ setter = "record"
  /\ cache' = FingerprintOf(confirmed)
  /\ Answer
  /\ UNCHANGED <<printerVars, poller, seen>>

-----------------------------------------------------------------------------
(* poll_status *)

ReadMaterial ==
  /\ poller = "idle" /\ ~Locked
  /\ seen' = served
  /\ poller' = "compare"
  /\ UNCHANGED <<cache, printerVars, setterVars>>

\* (faulty variant: only the first roll is registered)
CompareRegisteringOnce ==
  /\ poller = "compare"
  /\ poller' = "idle" /\ seen' = NoRecord
  /\ cache' = IF cache = NoFingerprint THEN FingerprintOf(seen) ELSE cache
  /\ UNCHANGED <<printerVars, setterVars>>

Compare ==
  /\ poller = "compare"
  /\ poller' = "idle" /\ seen' = NoRecord
  /\ cache' = FingerprintOf(seen)
  /\ UNCHANGED <<printerVars, setterVars>>

-----------------------------------------------------------------------------
(* The printer and its operator *)

\* Half-updated records were seen on stock that had none before.
HalfCommit ==
  /\ pending # NoRecord /\ served.uid = "blank"
  /\ served' = [served EXCEPT !.uid = "half"]
  /\ UNCHANGED <<pending, swaps, setterVars, pollerVars>>

Commit ==
  /\ pending # NoRecord
  /\ served' = pending /\ pending' = NoRecord
  /\ UNCHANGED <<swaps, setterVars, pollerVars>>

PrintLabel ==
  /\ served.left > 0 /\ ~Locked
  /\ served' = [served EXCEPT !.left = @ - 1]
  /\ UNCHANGED <<pending, swaps, setterVars, pollerVars>>

SwapRoll ==
  /\ swaps < MaxSwaps /\ pending = NoRecord
  /\ swaps' = swaps + 1
  /\ served' \in Rolls
  /\ UNCHANGED <<pending, setterVars, pollerVars>>

SetterStep == QueryCurrent \/ SendRecord \/ Confirm \/ RecordFingerprint
PollerStep == ReadMaterial \/ Compare

Next ==
  \/ Request \/ SetterStep \/ PollerStep
  \/ HalfCommit \/ Commit \/ PrintLabel \/ SwapRoll

\* The framework polls for ever, the runtime goes on with the tasks, and the
\* printer commits what it received.
Fairness == WF_vars(SetterStep) /\ WF_vars(PollerStep) /\ WF_vars(Commit)

Spec == Init /\ [][Next]_vars /\ Fairness

-----------------------------------------------------------------------------
(* Properties *)

\* On stock that had no record of ours, provision_material returns only once the
\* printer serves the record just written, never a half-updated one.
FirstWriteConfirmed ==
  setter = "record" /\ over.uid # Expected => FingerprintOf(confirmed) = FingerprintOf(NewRecord)

\* In the end the cache knows the loaded roll, in whatever order the poller and
\* apply_media wrote to it.
CacheConverges ==
  \A f \in Fingerprint :
    <>[](FingerprintOf(served) = f) => <>[](cache = f)

\* apply_media "refuses when a genuine RFID tag is present": the record of a tagged
\* roll is never written over.
GenuineKept ==
  [][SendRecord /\ pending' # pending => served.uid \notin Genuine]_vars

=============================================================================
