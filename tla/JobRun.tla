------------------------------- MODULE JobRun --------------------------------
(***************************************************************************)
(* A print job from the framework's worker to the printer and back         *)
(* (supvan-app/src/ipp_server.rs print_job, ipp_job.rs, job.rs): the       *)
(* document is read page by page into one page buffer, dithered, and       *)
(* transferred once for each copy; the error a page ends with decides      *)
(* whether the job has failed or is held and tried again.                  *)
(*                                                                         *)
(* External: the framework, which runs one job at a time and retries a     *)
(* held one; print_compressed and open_uri, of which only the outcome is   *)
(* kept (modules PrintFlow and DeviceAccess have them in full); the        *)
(* printer, with the condition its flags report and its link.              *)
(***************************************************************************)
EXTENDS Naturals, Sequences

CONSTANTS
  Pages,        \* raster pages to make documents of
  MaxPages,     \* bound: pages of a document
  MaxCopies,    \* bound: copies asked for with the job
  Conditions,   \* the error flags that may come up
  LinkErrors    \* what a lost link is reported as: "io", "ble"

Flags == {"cover_open", "label_end", "label_not_installed", "label_rw_error",
          "label_mode_error", "ribbon_rw_error", "ribbon_end", "head_temp_high"}

ASSUME DocumentsAssumption ==
  /\ Pages \subseteq [height: Nat \ {0}, width: Nat \ {0}, copies: Nat,
                      depth: {"contone", "mono", "other"}, readable: BOOLEAN]
  /\ MaxPages \in Nat \ {0} /\ MaxCopies \in Nat

ASSUME PrinterAssumption ==
  Conditions \subseteq Flags /\ LinkErrors \subseteq {"io", "ble"} /\ LinkErrors # {}

VARIABLES
  doc,       \* the document and the copies asked for: fixed
  job,       \* the job, as the framework sees it
  pc,        \* where its run stands
  page,      \* the page in hand, or the last one done
  copy,      \* copies of it transferred
  rows,      \* KsJob's buffer: the page each row comes from, 0 for a blank row
  ditherer,  \* the width the ditherer of a KsJob was made for, 0 without one
  cause,     \* what was wrong when the last page failed
  labels     \* printed in this run: page and copy in turn, and the rows of each

VARIABLES
  flag,      \* the printer's error flag, or "none"
  link       \* the printer is in reach

bufferVars == <<rows, ditherer>>
runVars == <<page, copy, bufferVars, labels>>
printerVars == <<flag, link>>
vars == <<doc, job, pc, runVars, cause, printerVars>>

Heights == {p.height : p \in Pages}
Widths == {p.width : p \in Pages}
Rows == (UNION {[1..h -> 0..MaxPages] : h \in Heights}) \union {<<>>}

Ended == {"completed", "failed"}

\* The copies asked for with the job win over those of the page header.
CopiesOf(p) ==
  CASE doc.copies > 0 -> doc.copies
    [] doc.copies = 0 /\ p.copies < 1 -> 1
    [] OTHER -> p.copies

TypeOK ==
  /\ doc.format \in {"raster", "jpeg"} /\ doc.pages \in Seq(Pages)
  /\ job \in {"queued", "running", "held"} \union Ended
  /\ pc \in {"idle", "decode", "open", "page", "copy", "requery", "end", "panicked"}
  /\ page \in 0..Len(doc.pages)
  /\ copy \in Nat /\ (pc = "copy" => copy < CopiesOf(doc.pages[page]))
  /\ rows \in Rows
  /\ ditherer \in Widths \union {0}
  /\ cause \in Conditions \union {"none", "offline"}
  /\ labels \in Seq([page: Nat, copy: Nat, rows: Rows])
  /\ flag \in Conditions \union {"none"}
  /\ link \in BOOLEAN

\* A jpeg is a page of its own, dithered; no size or copies come with it.
Documents ==
  {[format |-> "raster", pages |-> s, copies |-> c] :
     s \in UNION {[1..n -> Pages] : n \in 0..MaxPages}, c \in 0..MaxCopies}
  \union
  {[format |-> "jpeg", pages |-> <<p>>, copies |-> c] :
     p \in {q \in Pages : q.depth = "contone" /\ q.copies = 0}, c \in 0..MaxCopies}

Init ==
  /\ doc \in Documents
  /\ job = "queued" /\ pc = "idle" /\ cause = "none"
  /\ page = 0 /\ copy = 0 /\ labels = <<>>
  /\ rows = <<>> /\ ditherer = 0
  /\ flag = "none" /\ link \in BOOLEAN

-----------------------------------------------------------------------------
(* Which error holds a job *)

\* reasons_from_status
ReasonOf(f) ==
  CASE f = "cover_open" -> "COVER_OPEN"
    [] f \in {"label_end", "label_not_installed"} -> "MEDIA_EMPTY"
    [] f \in {"label_rw_error", "label_mode_error", "ribbon_rw_error"} -> "MEDIA_JAM"
    [] f = "ribbon_end" -> "MEDIA_NEEDED"
    [] f = "head_temp_high" -> "OTHER"

\* The framework's is_recoverable, as print_job and the tests of it take it.
IsRecoverable(reason) ==
  reason \in {"OFFLINE", "COVER_OPEN", "MEDIA_EMPTY", "MEDIA_JAM", "MEDIA_NEEDED"}

\* (faulty variant: every failure is worth another try)
OutcomeAlwaysHeld(reason) == "held"

\* print_job: a failure with a recoverable reason is DeviceUnavailable.
Outcome(reason) == IF IsRecoverable(reason) THEN "held" ELSE "failed"

\* What is wrong with the printer, for an onlooker.
Trouble == IF ~link THEN "offline" ELSE flag

\* The run is over; its KsJob and its device are dropped.
Finish(result) ==
  /\ job' = result /\ pc' = "idle"
  /\ page' = 0 /\ copy' = 0
  /\ rows' = <<>> /\ ditherer' = 0

Goto(there) == pc' = there /\ UNCHANGED job

-----------------------------------------------------------------------------
(* A run *)

\* The worker takes the job up, or up again; the printer's record may have been
\* deleted meanwhile.
Start ==
  /\ job \in {"queued", "held"}
  /\ \/ job' = "running" /\ pc' = (IF doc.format = "jpeg" THEN "decode" ELSE "open")
     \/ job' = "failed" /\ UNCHANGED pc
  /\ labels' = <<>> /\ cause' = "none"
  /\ UNCHANGED <<doc, page, copy, bufferVars, printerVars>>

\* A jpeg is decoded and fitted onto the label before the printer is opened.
Decode ==
  /\ pc = "decode"
  /\ IF doc.pages[1].readable
     THEN Goto("open") /\ UNCHANGED <<page, copy, bufferVars>>
     ELSE Finish(Outcome("OTHER"))
  /\ UNCHANGED <<doc, labels, cause, printerVars>>

OpenDevice ==
  /\ pc = "open"
  /\ IF link THEN Goto("page") /\ UNCHANGED <<page, copy, bufferVars>>
             ELSE Finish(Outcome("OFFLINE"))
  /\ UNCHANGED <<doc, labels, cause, printerVars>>

\* KsJob::start allocates the buffer and the ditherer for the first page; every
\* later page is read into them as they are.
DithererWidth(p) == IF page = 0 THEN p.width ELSE ditherer

Buffer(p) == IF page = 0 THEN [y \in 1..p.height |-> 0] ELSE rows

\* Ink at the left of a line narrower than the ditherer is placed beyond mono.
MonoTooShort(p) == p.depth = "contone" /\ p.width < DithererWidth(p)

\* The lines of the next page, dithered when they are contone.  It fails on a line
\* that cannot be read, of a depth not known, or below the buffer.
ReadPage ==
  /\ pc = "page" /\ page < Len(doc.pages)
  /\ LET p == doc.pages[page + 1]
         b == Buffer(p)
     IN  \/ /\ p.readable /\ p.depth # "other" /\ p.height <= Len(b)
            /\ page' = page + 1
            /\ rows' = [y \in 1..Len(b) |-> IF y <= p.height THEN page + 1 ELSE b[y]]
            /\ ditherer' = DithererWidth(p)
            /\ copy' = 0
            /\ Goto("copy")
         \/ /\ ~p.readable \/ p.depth = "other" \/ p.height > Len(b)
            /\ Finish(Outcome("OTHER"))
         \/ /\ MonoTooShort(p)
            /\ Goto("panicked") /\ UNCHANGED <<page, copy, bufferVars>>
  /\ UNCHANGED <<doc, labels, cause, printerVars>>

\* (faulty variant: the buffer is left as it was)
EndPageNotCleared ==
  /\ Goto("page")
  /\ copy' = 0 /\ UNCHANGED <<page, bufferVars>>

\* end_page, after its last copy: clear_page, which leaves the ditherer alone.
EndPage ==
  /\ Goto("page")
  /\ copy' = 0 /\ UNCHANGED <<page, ditherer>>
  /\ rows' = [y \in 1..Len(rows) |-> 0]

\* (faulty variant: the copies counted from one)
CopyDoneOneEarly ==
  IF copy + 2 < CopiesOf(doc.pages[page])
  THEN copy' = copy + 1 /\ Goto("copy") /\ UNCHANGED <<page, bufferVars>>
  ELSE EndPage

\* (faulty variant: one copy too many)
CopyDoneOneLate ==
  IF copy < CopiesOf(doc.pages[page])
  THEN copy' = copy + 1 /\ Goto("copy") /\ UNCHANGED <<page, bufferVars>>
  ELSE EndPage

CopyDone ==
  IF copy + 1 < CopiesOf(doc.pages[page])
  THEN copy' = copy + 1 /\ Goto("copy") /\ UNCHANGED <<page, bufferVars>>
  ELSE EndPage

\* The label that comes out, and its turn.
Label == [page |-> page, copy |-> copy, rows |-> rows]

\* transfer_page, with what print_compressed returns: Ok; InvalidResponse, which
\* asks the printer once more, and which a printer fallen silent gets too; an error
\* of the link; the completion timeout, or an error of the compression.  The label
\* of a page that failed may come out whole nevertheless.
TransferPage ==
  /\ pc = "copy"
  /\ \/ /\ link /\ flag = "none"
        /\ CopyDone
        /\ labels' = Append(labels, Label) /\ UNCHANGED cause
     \/ /\ cause' = Trouble
        /\ labels' \in {labels, Append(labels, Label)}
        /\ \/ Goto("requery") /\ UNCHANGED <<page, copy, bufferVars>>
           \/ ~link /\ "io" \in LinkErrors /\ Finish(Outcome("OFFLINE"))
           \/ ~link /\ "ble" \in LinkErrors /\ Finish(Outcome("OTHER"))
           \/ link /\ Finish(Outcome("OTHER"))
  /\ UNCHANGED <<doc, printerVars>>

\* The status query after InvalidResponse finds the reason, unless the flag has
\* gone meanwhile, or the link, or the reply is lost.
Requery ==
  /\ pc = "requery"
  /\ \/ link /\ flag # "none" /\ Finish(Outcome(ReasonOf(flag)))
     \/ Finish(Outcome("OTHER"))
  /\ UNCHANGED <<doc, labels, cause, printerVars>>

\* KsJob::end waits until the printer is idle, for at most COMPLETION_POLLS polls;
\* whatever it sees, the job is completed.  A document without a page has no KsJob.
EndJob ==
  \/ /\ pc = "page" /\ page = Len(doc.pages)
     /\ IF page = 0 THEN Finish("completed")
        ELSE Goto("end") /\ UNCHANGED <<page, copy, bufferVars>>
     /\ UNCHANGED <<doc, labels, cause, printerVars>>
  \/ /\ pc = "end"
     /\ Finish("completed")
     /\ UNCHANGED <<doc, labels, cause, printerVars>>

RunStep == Start \/ Decode \/ OpenDevice \/ ReadPage \/ TransferPage \/ Requery \/ EndJob

-----------------------------------------------------------------------------
(* The printer *)

\* The printer matters until the job has ended.  The firmware may drop the link
\* with the flag.
RaiseFlag ==
  /\ job \notin Ended
  /\ flag = "none" /\ flag' \in Conditions
  /\ link' \in {link, FALSE}
  /\ UNCHANGED <<doc, job, pc, runVars, cause>>

ClearFlag ==
  /\ job \notin Ended
  /\ flag # "none" /\ flag' = "none"
  /\ UNCHANGED <<doc, job, pc, runVars, cause, link>>

LinkChange ==
  /\ job \notin Ended
  /\ link' = ~link
  /\ UNCHANGED <<doc, job, pc, runVars, cause, flag>>

Next == RunStep \/ RaiseFlag \/ ClearFlag \/ LinkChange

\* The framework runs its worker and retries what it holds.
Fairness == WF_vars(RunStep)

Spec == Init /\ [][Next]_vars /\ Fairness

-----------------------------------------------------------------------------
(* Properties *)

\* The copy after a label: the next of its page, or the first of the next page.
Follows(b, a) ==
  IF a.copy + 1 < CopiesOf(doc.pages[a.page])
  THEN b.page = a.page /\ b.copy = a.copy + 1
  ELSE b.page = a.page + 1 /\ b.copy = 0

\* What a run puts on labels is the document from its beginning: no page is skipped
\* or out of turn, a label shows its own page, and below the last row of a shorter
\* page nothing of the page before it.
LabelsInOrder ==
  \A i \in DOMAIN labels :
    /\ labels[i].page \in DOMAIN doc.pages
    /\ IF i = 1 THEN labels[i].page = 1 /\ labels[i].copy = 0
                ELSE Follows(labels[i], labels[i - 1])
    /\ \A y \in DOMAIN labels[i].rows :
         labels[i].rows[y] = IF y <= doc.pages[labels[i].page].height
                             THEN labels[i].page ELSE 0

\* A job reported completed has had the last copy of its last page on a label of its
\* last run, however often it was held before.
CompletedMeansAll ==
  job = "completed" /\ doc.pages # <<>> =>
    /\ labels # <<>>
    /\ labels[Len(labels)].page = Len(doc.pages)
    /\ labels[Len(labels)].copy + 1 = CopiesOf(doc.pages[Len(doc.pages)])

\* A job ends once nothing is wrong with the printer any more: a document that cannot
\* be printed is not tried again for ever, and a held one is not forgotten.
JobEnds == <>[](link /\ flag = "none") => <>(job \in Ended \/ pc = "panicked")

\* docs/DEPLOY.md: a job submitted while the printer is offline is held, it is "not
\* dropped.  The same applies to a media jam or an out-of-paper condition."
ClearableHolds ==
  [][cause = "offline" \/ (cause \in Flags /\ IsRecoverable(ReasonOf(cause)))
       => job' # "failed"]_vars

\* Ditherer::line: "`mono` must be at least `(width + 7) / 8` bytes".
MonoFits == pc # "panicked"

=============================================================================
