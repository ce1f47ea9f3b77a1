-------------------------- MODULE MediaRecordProofs --------------------------
(* Proofs about MediaRecord, for any sizes, tags, poll budget and bounds.     *)
EXTENDS MediaRecord, TLAPS

\* A variable that stands for a record read holds one when it is used.
InHand ==
  /\ poller = "compare" => seen \in Record
  /\ setter = "record" => confirmed \in Record

\* What the printer has received and not committed is the record last asked for.
PendingIsWanted == pending # NoRecord => pending = NewRecord

\* While it is waited for, a record of ours that the printer serves in place of one
\* that was not is the record asked for.
OursIsNew ==
  setter = "confirm" /\ over.uid # Expected /\ served.uid = Expected
    => served.size = wanted

IInv ==
  /\ TypeOK
  /\ InHand
  /\ PendingIsWanted
  /\ setter \in {"confirm", "record"} => over \in Record
  /\ setter \in {"query", "send"} => wanted \in Sizes
  /\ OursIsNew
  /\ FirstWriteConfirmed

USE DEF printerVars, setterVars, pollerVars

\* Init: a roll is loaded and nothing is under way.
LEMMA InitInv == Init => IInv
BY SizesAssumption, RollAssumption, BoundsAssumption
DEF Init, IInv, TypeOK, InHand, PendingIsWanted, OursIsNew, FirstWriteConfirmed,
    Record, Rolls, Blank, Uids

\* apply_media may return at any point.
LEMMA AnswerInv ==
  ASSUME IInv, Answer, UNCHANGED <<served, swaps, pollerVars>>,
         pending' = pending \/ (pending' = NewRecord /\ wanted \in Sizes)
  PROVE  IInv'
<1>1. NewRecord \in Record \/ wanted \notin Sizes
  BY RollAssumption DEF NewRecord, Record, Uids, Expected
<1>2. TypeOK'
  BY <1>1, RollAssumption DEF Answer, IInv, TypeOK
<1>3. PendingIsWanted'
  BY DEF Answer, IInv, PendingIsWanted, NewRecord
<1> QED
  BY <1>2, <1>3 DEF Answer, IInv, InHand, OursIsNew, FirstWriteConfirmed

\* A new request finds nothing pending, so no other record is waited for.
LEMMA RequestInv == IInv /\ Request => IInv'
<1> SUFFICES ASSUME IInv, Request PROVE IInv'
  OBVIOUS
<1>1. TypeOK'
  BY BoundsAssumption DEF Request, IInv, TypeOK
<1>2. PendingIsWanted'
  BY DEF Request, PendingIsWanted
<1>3. setter' = "query" /\ wanted' \in Sizes /\ UNCHANGED <<poller, seen>>
  BY DEF Request
<1> QED
  BY <1>1, <1>2, <1>3 DEF IInv, InHand, OursIsNew, FirstWriteConfirmed

\* What the query returned decides whether the record is written; none is, yet.
LEMMA QueryCurrentInv == IInv /\ QueryCurrent => IInv'
<1> SUFFICES ASSUME IInv, QueryCurrent PROVE IInv'
  OBVIOUS
<1>1. CASE Answer
  <2>1. UNCHANGED <<served, swaps, pollerVars>> /\ pending' = pending
    BY DEF QueryCurrent
  <2> QED
    BY <1>1, <2>1, AnswerInv
<1>2. CASE /\ current' \in {served, NoRecord} /\ setter' = "send"
           /\ UNCHANGED <<requests, wanted, over, polls, confirmed>>
  <2>1. wanted \in Sizes
    BY DEF QueryCurrent, IInv
  <2>2. TypeOK'
    BY <1>2 DEF QueryCurrent, IInv, TypeOK
  <2> QED
    BY <1>2, <2>1, <2>2
    DEF QueryCurrent, IInv, InHand, PendingIsWanted, NewRecord, OursIsNew, FirstWriteConfirmed
<1> QED
  BY <1>1, <1>2 DEF QueryCurrent

\* The record sent is the one asked for; what was served till now is remembered.
LEMMA SendRecordInv == IInv /\ SendRecord => IInv'
<1> SUFFICES ASSUME IInv, SendRecord PROVE IInv'
  OBVIOUS
<1>1. wanted \in Sizes
  BY DEF SendRecord, IInv
<1>2. CASE Answer
  BY <1>1, <1>2, AnswerInv DEF SendRecord
<1>3. CASE /\ setter' = "confirm" /\ over' = served
           /\ pending' \in {NewRecord, pending}
           /\ UNCHANGED <<requests, wanted, current, polls, confirmed>>
  <2>1. NewRecord \in Record
    BY <1>1, RollAssumption DEF NewRecord, Record, Uids, Expected
  <2>2. TypeOK'
    BY <1>3, <2>1 DEF SendRecord, IInv, TypeOK
  <2>3. PendingIsWanted'
    BY <1>3 DEF IInv, PendingIsWanted, NewRecord
  <2> QED
    BY <1>1, <1>3, <2>2, <2>3
    DEF SendRecord, IInv, TypeOK, InHand, OursIsNew, FirstWriteConfirmed
<1> QED
  BY <1>2, <1>3 DEF SendRecord

\* The poll that sees the synthetic UUID sees the record asked for.
LEMMA ConfirmInv == IInv /\ Confirm => IInv'
<1> SUFFICES ASSUME IInv, Confirm PROVE IInv'
  OBVIOUS
<1>1. CASE Answer
  <2>1. UNCHANGED <<served, swaps, pollerVars>> /\ pending' = pending
    BY DEF Confirm
  <2> QED
    BY <1>1, <2>1, AnswerInv
<1>2. CASE /\ served.uid = Expected
           /\ confirmed' = served /\ setter' = "record"
           /\ UNCHANGED <<requests, wanted, current, over, polls>>
  <2>1. TypeOK'
    BY <1>2 DEF Confirm, IInv, TypeOK
  <2>2. over.uid # Expected => served.size = wanted
    BY <1>2 DEF Confirm, IInv, OursIsNew
  <2>3. FirstWriteConfirmed'
    BY <1>2, <2>2 DEF FirstWriteConfirmed, FingerprintOf, NewRecord
  <2> QED
    BY <1>2, <2>1, <2>3
    DEF Confirm, IInv, TypeOK, InHand, PendingIsWanted, NewRecord, OursIsNew
<1>3. CASE /\ polls + 1 < SETTLE_POLLS /\ polls' = polls + 1
           /\ UNCHANGED <<setter, requests, wanted, current, over, confirmed>>
  <2>1. TypeOK'
    BY <1>3, RollAssumption DEF Confirm, IInv, TypeOK
  <2> QED
    BY <1>3, <2>1
    DEF Confirm, IInv, InHand, PendingIsWanted, NewRecord, OursIsNew, FirstWriteConfirmed
<1> QED
  BY <1>1, <1>2, <1>3 DEF Confirm

\* Only records go into the cache.
LEMMA RecordFingerprintInv == IInv /\ RecordFingerprint => IInv'
<1> SUFFICES ASSUME IInv, RecordFingerprint PROVE IInv'
  OBVIOUS
<1>1. FingerprintOf(confirmed) \in Fingerprint
  BY DEF RecordFingerprint, IInv, InHand, FingerprintOf, Fingerprint, Record
<1>2. TypeOK'
  BY <1>1, RollAssumption DEF RecordFingerprint, Answer, IInv, TypeOK
<1> QED
  BY <1>2 DEF RecordFingerprint, Answer, IInv, InHand, PendingIsWanted, NewRecord,
              OursIsNew, FirstWriteConfirmed

\* poll_status reads a record and enters it; the rest is not its concern.
LEMMA PollerInv == IInv /\ PollerStep => IInv'
<1> SUFFICES ASSUME IInv, PollerStep PROVE IInv'
  OBVIOUS
<1>1. UNCHANGED <<printerVars, setterVars>>
  BY DEF PollerStep, ReadMaterial, Compare
<1>2. PendingIsWanted' /\ OursIsNew' /\ FirstWriteConfirmed'
  BY <1>1 DEF IInv, PendingIsWanted, NewRecord, OursIsNew, FirstWriteConfirmed
<1>3. CASE ReadMaterial
  <2>1. TypeOK' /\ InHand'
    BY <1>3 DEF ReadMaterial, IInv, TypeOK, InHand
  <2> QED
    BY <1>1, <1>2, <2>1 DEF IInv
<1>4. CASE Compare
  <2>1. FingerprintOf(seen) \in Fingerprint
    BY <1>4 DEF Compare, IInv, InHand, FingerprintOf, Fingerprint, Record
  <2>2. TypeOK' /\ InHand'
    BY <1>4, <2>1 DEF Compare, IInv, TypeOK, InHand
  <2> QED
    BY <1>1, <1>2, <2>2 DEF IInv
<1> QED
  BY <1>3, <1>4 DEF PollerStep

\* A commit makes the printer serve what was pending, which is the record asked for;
\* nothing else the printer does brings up a record of ours.
LEMMA PrinterInv ==
  IInv /\ (HalfCommit \/ Commit \/ PrintLabel \/ SwapRoll) => IInv'
<1> SUFFICES ASSUME IInv, HalfCommit \/ Commit \/ PrintLabel \/ SwapRoll PROVE IInv'
  OBVIOUS
<1>1. UNCHANGED <<setterVars, pollerVars>>
  BY DEF HalfCommit, Commit, PrintLabel, SwapRoll
<1>2. InHand' /\ FirstWriteConfirmed'
  BY <1>1 DEF IInv, InHand, FirstWriteConfirmed, NewRecord
<1>3. /\ served' \in Record /\ pending' \in {pending, NoRecord}
      /\ swaps' \in 0..MaxSwaps
      /\ \/ served'.uid # Expected
         \/ served'.uid = served.uid /\ served'.size = served.size
         \/ served' = NewRecord
  <2>1. CASE HalfCommit
    BY <2>1 DEF HalfCommit, IInv, TypeOK, Record, Uids, Expected
  <2>2. CASE Commit
    BY <2>2 DEF Commit, IInv, TypeOK, PendingIsWanted
  <2>3. CASE PrintLabel
    <3>1. served.left - 1 \in 0..FullRoll
      BY <2>3, RollAssumption DEF PrintLabel, IInv, TypeOK, Record
    <3> QED
      BY <2>3, <3>1 DEF PrintLabel, IInv, TypeOK, Record
  <2>4. CASE SwapRoll
    <3>1. served' \in Record /\ served'.uid # Expected
      BY <2>4, TagsAssumption, RollAssumption
      DEF SwapRoll, Rolls, Blank, Record, Uids, Expected
    <3> QED
      BY <2>4, <3>1, BoundsAssumption DEF SwapRoll, IInv, TypeOK
  <2> QED
    BY <2>1, <2>2, <2>3, <2>4
<1>4. TypeOK'
  BY <1>1, <1>3 DEF IInv, TypeOK
<1>5. PendingIsWanted'
  BY <1>1, <1>3 DEF IInv, PendingIsWanted, NewRecord
<1>6. OursIsNew'
  BY <1>1, <1>3 DEF IInv, OursIsNew, NewRecord
<1> QED
  BY <1>1, <1>2, <1>4, <1>5, <1>6 DEF IInv

\* The inductive invariant holds throughout.
THEOREM Invariance == Spec => []IInv
<1>1. IInv /\ [Next]_vars => IInv'
  <2> SUFFICES ASSUME IInv, [Next]_vars PROVE IInv'
    OBVIOUS
  <2>1. CASE UNCHANGED vars
    BY <2>1 DEF vars, IInv, TypeOK, InHand, PendingIsWanted, NewRecord, OursIsNew,
                FirstWriteConfirmed
  <2> QED
    BY <2>1, RequestInv, QueryCurrentInv, SendRecordInv, ConfirmInv,
       RecordFingerprintInv, PollerInv, PrinterInv
    DEF Next, SetterStep
<1> QED
  BY <1>1, InitInv, PTL DEF Spec

\* The variables keep their types: the budget of confirmation polls is never
\* exceeded, and only records that were read get into the cache.
THEOREM TypeCorrect == Spec => []TypeOK
<1>1. IInv => TypeOK
  BY DEF IInv
<1> QED
  BY <1>1, Invariance, PTL

\* On stock without a record of ours, what provision_material confirms is the record
\* just written, for any interleaving of commits, half-updates, polls and swaps.
THEOREM FirstWriteIsConfirmed == Spec => []FirstWriteConfirmed
<1>1. IInv => FirstWriteConfirmed
  BY DEF IInv
<1> QED
  BY <1>1, Invariance, PTL

=============================================================================
