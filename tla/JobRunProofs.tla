---------------------------- MODULE JobRunProofs ----------------------------
(***************************************************************************)
(* Proofs about JobRun for any pages, documents, copies and printers: type *)
(* correctness, the order of labels and what "completed" stands for.       *)
(***************************************************************************)
EXTENDS JobRun, SequenceTheorems, TLAPS

\* The document is what the client sent, throughout.
DocOK == doc \in [format: {"raster", "jpeg"}, pages: Seq(Pages), copies: Nat]
         /\ Len(doc.pages) <= MaxPages

\* A run is on exactly while the framework has the job running.
RunIsJob == pc = "idle" <=> job # "running"

\* The last label printed is the last copy of page p.
PageOut(p) ==
  IF p = 0 THEN labels = <<>>
  ELSE /\ labels # <<>>
       /\ labels[Len(labels)].page = p
       /\ labels[Len(labels)].copy + 1 = CopiesOf(doc.pages[p])

\* Where the labels stand when a copy is about to be transferred.
CopyDue ==
  IF copy = 0 THEN PageOut(page - 1)
  ELSE /\ labels # <<>>
       /\ labels[Len(labels)].page = page
       /\ labels[Len(labels)].copy + 1 = copy

\* The buffer holds the page in hand, and nothing below it.
BufferShows ==
  \A y \in DOMAIN rows : rows[y] = IF y <= doc.pages[page].height THEN page ELSE 0

\* How far the labels are at each point of a run.
Progress ==
  /\ pc \in {"idle", "decode", "open"} => page = 0
  /\ pc \in {"decode", "open"} => labels = <<>>
  /\ pc \in {"page", "end"} =>
       PageOut(page) /\ (page > 0 => \A y \in DOMAIN rows : rows[y] = 0)
  /\ pc = "copy" => page > 0 /\ CopyDue /\ BufferShows
  /\ pc = "end" => page = Len(doc.pages)

IInv ==
  TypeOK /\ DocOK /\ RunIsJob /\ Progress /\ LabelsInOrder /\ CompletedMeansAll

-----------------------------------------------------------------------------
(* Facts about pages, copies and rows *)

LEMMA CopiesPositive ==
  ASSUME DocOK, NEW p \in Pages
  PROVE  CopiesOf(p) \in Nat /\ CopiesOf(p) > 0
<1>1. p.copies \in Nat /\ doc.copies \in Nat
  BY DocumentsAssumption DEF DocOK
<1> QED BY <1>1 DEF CopiesOf

LEMMA PageKnown ==
  ASSUME DocOK, NEW n \in 1..Len(doc.pages)
  PROVE  /\ doc.pages[n] \in Pages
         /\ doc.pages[n].height \in Nat \ {0}
         /\ doc.pages[n].width \in Nat \ {0}
<1>1. doc.pages \in Seq(Pages)  BY DEF DocOK
<1>2. doc.pages[n] \in Pages  BY <1>1, ElementOfSeq
<1> QED BY <1>2, DocumentsAssumption

LEMMA RowsAreSeqs ==
  ASSUME NEW r \in Rows
  PROVE  /\ r \in Seq(0..MaxPages) /\ DOMAIN r = 1..Len(r) /\ Len(r) \in Nat
         /\ \A f : (f \in [1..Len(r) -> 0..MaxPages]) => (f \in Rows)
<1>1. CASE r = <<>>
  <2>1. r \in Seq(0..MaxPages) /\ Len(r) = 0 /\ DOMAIN r = 1..Len(r)
    BY <1>1, EmptySeq
  <2>2. ASSUME NEW f \in [1..Len(r) -> 0..MaxPages] PROVE f = <<>>
    <3>1. f \in Seq(0..MaxPages) /\ DOMAIN f = 1..0  BY <2>1, SeqDef
    <3>2. Len(f) \in Nat /\ DOMAIN f = 1..Len(f)  BY <3>1, LenProperties
    <3>3. Len(f) = 0  BY <3>1, <3>2
    <3> QED BY <3>1, <3>3, EmptySeq
  <2> QED BY <2>1, <2>2 DEF Rows
<1>2. ASSUME NEW h \in Heights, r \in [1..h -> 0..MaxPages]
      PROVE  /\ r \in Seq(0..MaxPages) /\ DOMAIN r = 1..Len(r) /\ Len(r) \in Nat
             /\ \A f : (f \in [1..Len(r) -> 0..MaxPages]) => (f \in Rows)
  <2>1. h \in Nat  BY DocumentsAssumption DEF Heights
  <2>2. r \in Seq(0..MaxPages)  BY <1>2, <2>1, SeqDef
  <2>3. DOMAIN r = 1..Len(r) /\ Len(r) \in Nat  BY <2>2, LenProperties
  <2>4. 1..Len(r) = 1..h  BY <1>2, <2>3
  <2> QED BY <2>2, <2>3, <2>4 DEF Rows
<1> QED BY <1>1, <1>2 DEF Rows

\* The labels are in order after a step that adds none.
LEMMA SameLabels ==
  ASSUME LabelsInOrder, UNCHANGED <<doc, labels>>
  PROVE  LabelsInOrder'
BY DEF LabelsInOrder, Follows, CopiesOf

-----------------------------------------------------------------------------
(* Initial states, and the end of a run *)

LEMMA DocumentsAreDocs ==
  ASSUME NEW d \in Documents
  PROVE  /\ d \in [format: {"raster", "jpeg"}, pages: Seq(Pages), copies: Nat]
         /\ Len(d.pages) <= MaxPages
<1>1. CASE d \in {[format |-> "raster", pages |-> s, copies |-> c] :
                    s \in UNION {[1..n -> Pages] : n \in 0..MaxPages}, c \in 0..MaxCopies}
  <2>1. PICK s \in UNION {[1..n -> Pages] : n \in 0..MaxPages}, c \in 0..MaxCopies :
               d = [format |-> "raster", pages |-> s, copies |-> c]
    BY <1>1
  <2>2. PICK n \in 0..MaxPages : s \in [1..n -> Pages]  BY <2>1
  <2>3. n \in Nat /\ n <= MaxPages /\ c \in Nat  BY <2>1, <2>2, DocumentsAssumption
  <2>4. s \in Seq(Pages) /\ Len(s) = n  BY <2>2, <2>3, SeqDef, LenProperties
  <2> QED BY <2>1, <2>3, <2>4
<1>2. CASE d \in {[format |-> "jpeg", pages |-> <<p>>, copies |-> c] :
                    p \in {q \in Pages : q.depth = "contone" /\ q.copies = 0},
                    c \in 0..MaxCopies}
  <2>1. PICK p \in Pages, c \in 0..MaxCopies :
               d = [format |-> "jpeg", pages |-> <<p>>, copies |-> c]
    BY <1>2
  <2>2. <<p>> \in Seq(Pages) /\ Len(<<p>>) = 1 /\ c \in Nat
    BY <2>1, DocumentsAssumption
  <2>3. 1 <= MaxPages  BY DocumentsAssumption
  <2> QED BY <2>1, <2>2, <2>3
<1> QED BY <1>1, <1>2 DEF Documents

LEMMA InitEstablishes == Init => IInv
<1> SUFFICES ASSUME Init PROVE IInv
  OBVIOUS
<1>1. DocOK  BY DocumentsAreDocs DEF Init, DocOK
<1>2. <<>> \in Rows /\ <<>> \in Seq([page: Nat, copy: Nat, rows: Rows])
  BY EmptySeq DEF Rows
<1>3. Len(doc.pages) \in Nat  BY <1>1, LenProperties DEF DocOK
<1>4. TypeOK  BY <1>1, <1>2, <1>3 DEF Init, TypeOK, DocOK
<1>5. LabelsInOrder  BY DEF Init, LabelsInOrder
<1> QED BY <1>1, <1>4, <1>5 DEF Init, IInv, RunIsJob, Progress, CompletedMeansAll

\* A run that is over leaves nothing but its labels.
LEMMA FinishKeeps ==
  ASSUME IInv, NEW result \in {"held", "failed", "completed"}, Finish(result),
         UNCHANGED <<doc, printerVars>>,
         cause' \in Conditions \union {"none", "offline"},
         labels' \in Seq([page: Nat, copy: Nat, rows: Rows]), LabelsInOrder',
         result = "completed" => CompletedMeansAll'
  PROVE  IInv'
<1>1. <<>> \in Rows  BY DEF Rows
<1>2. Len(doc.pages) \in Nat  BY LenProperties DEF IInv, DocOK
<1>3. TypeOK'  BY <1>1, <1>2 DEF IInv, TypeOK, Finish, Ended, printerVars
<1>4. DocOK' /\ RunIsJob'  BY DEF IInv, DocOK, RunIsJob, Finish
<1>5. Progress'  BY DEF Progress, Finish
<1>6. CompletedMeansAll'  BY DEF CompletedMeansAll, Finish
<1> QED BY <1>3, <1>4, <1>5, <1>6 DEF IInv

-----------------------------------------------------------------------------
(* One lemma for each step of a run *)

LEMMA StartKeeps == IInv /\ Start => IInv'
<1> SUFFICES ASSUME IInv, Start PROVE IInv'
  OBVIOUS
<1>1. pc = "idle" /\ page = 0  BY DEF Start, IInv, RunIsJob, Progress
<1>2. <<>> \in Seq([page: Nat, copy: Nat, rows: Rows])  BY EmptySeq
<1>3. TypeOK'
  BY <1>1, <1>2 DEF IInv, TypeOK, Start, Ended, bufferVars, printerVars
<1>4. DocOK' /\ RunIsJob'  BY <1>1 DEF IInv, DocOK, RunIsJob, Start
<1>5. Progress'  BY <1>1 DEF Progress, Start
<1>6. LabelsInOrder'  BY DEF LabelsInOrder, Start
<1>7. CompletedMeansAll'  BY DEF CompletedMeansAll, Start
<1> QED BY <1>3, <1>4, <1>5, <1>6, <1>7 DEF IInv

\* On to another point of the run without a label.
LEMMA GotoKeeps ==
  ASSUME IInv, NEW there \in {"open", "page", "panicked", "requery", "end"},
         job = "running", Goto(there), Progress',
         UNCHANGED <<doc, page, copy, bufferVars, printerVars>>,
         cause' \in Conditions \union {"none", "offline"},
         labels' \in Seq([page: Nat, copy: Nat, rows: Rows]), LabelsInOrder'
  PROVE  IInv'
<1>1. TypeOK'  BY DEF IInv, TypeOK, Goto, bufferVars, printerVars
<1>2. DocOK' /\ RunIsJob'  BY DEF IInv, DocOK, RunIsJob, Goto
<1>3. CompletedMeansAll'  BY DEF CompletedMeansAll, Goto
<1> QED BY <1>1, <1>2, <1>3 DEF IInv

LEMMA DecodeKeeps == IInv /\ Decode => IInv'
<1> SUFFICES ASSUME IInv, Decode PROVE IInv'
  OBVIOUS
<1>1. LabelsInOrder'  BY SameLabels DEF IInv, Decode
<1>2. labels' \in Seq([page: Nat, copy: Nat, rows: Rows])
      /\ cause' \in Conditions \union {"none", "offline"}
  BY DEF IInv, TypeOK, Decode
<1>3. CASE Goto("open") /\ UNCHANGED <<page, copy, bufferVars>>
  <2>1. job = "running"  BY DEF IInv, RunIsJob, Decode
  <2>2. Progress'  BY <1>3 DEF IInv, Progress, Decode, Goto
  <2> QED BY <1>1, <1>2, <1>3, <2>1, <2>2, GotoKeeps DEF Decode
<1>4. CASE Finish(Outcome("OTHER"))
  <2>1. Outcome("OTHER") \in {"held", "failed"}  BY DEF Outcome
  <2> QED BY <1>1, <1>2, <1>4, <2>1, FinishKeeps DEF Decode
<1> QED BY <1>3, <1>4 DEF Decode

LEMMA OpenDeviceKeeps == IInv /\ OpenDevice => IInv'
<1> SUFFICES ASSUME IInv, OpenDevice PROVE IInv'
  OBVIOUS
<1>1. LabelsInOrder'  BY SameLabels DEF IInv, OpenDevice
<1>2. labels' \in Seq([page: Nat, copy: Nat, rows: Rows])
      /\ cause' \in Conditions \union {"none", "offline"}
  BY DEF IInv, TypeOK, OpenDevice
<1>3. CASE Goto("page") /\ UNCHANGED <<page, copy, bufferVars>>
  <2>1. job = "running"  BY DEF IInv, RunIsJob, OpenDevice
  <2>2. Progress'
    BY <1>3 DEF IInv, Progress, PageOut, OpenDevice, Goto
  <2> QED BY <1>1, <1>2, <1>3, <2>1, <2>2, GotoKeeps DEF OpenDevice
<1>4. CASE Finish(Outcome("OFFLINE"))
  <2>1. Outcome("OFFLINE") \in {"held", "failed"}  BY DEF Outcome
  <2> QED BY <1>1, <1>2, <1>4, <2>1, FinishKeeps DEF OpenDevice
<1> QED BY <1>3, <1>4 DEF OpenDevice

\* The page read is in the buffer, the rest of it blank; its first copy is due.
LEMMA PageReadKeeps ==
  ASSUME IInv, pc = "page", page < Len(doc.pages),
         NEW p, p = doc.pages[page + 1], NEW b, b = Buffer(p), p.height <= Len(b),
         page' = page + 1,
         rows' = [y \in 1..Len(b) |-> IF y <= p.height THEN page + 1 ELSE b[y]],
         ditherer' = DithererWidth(p), copy' = 0, Goto("copy"),
         UNCHANGED <<doc, labels, cause, printerVars>>
  PROVE  IInv'
<1>1. page \in Nat /\ Len(doc.pages) \in Nat /\ page + 1 \in 1..Len(doc.pages)
      /\ page + 1 <= MaxPages /\ MaxPages \in Nat
  BY DocumentsAssumption, LenProperties DEF IInv, TypeOK, DocOK
<1>2. p \in Pages /\ p.height \in Nat \ {0} /\ p.width \in Nat \ {0}
  BY <1>1, PageKnown DEF IInv
<1>3. b \in Rows /\ \A y \in 1..Len(b) : b[y] = 0
  <2>1. CASE page = 0
    <3>1. b = [y \in 1..p.height |-> 0]  BY <2>1 DEF Buffer
    <3>2. b \in [1..p.height -> 0..MaxPages] /\ p.height \in Heights
      BY <1>1, <1>2, <3>1 DEF Heights
    <3>3. b \in Rows  BY <3>2 DEF Rows
    <3>4. DOMAIN b = 1..Len(b)  BY <3>3, RowsAreSeqs
    <3>5. \A y \in DOMAIN b : b[y] = 0  BY <3>1
    <3> QED BY <3>3, <3>4, <3>5
  <2>2. CASE page # 0
    <3>1. b = rows  BY <2>2 DEF Buffer
    <3>2. b \in Rows  BY <3>1 DEF IInv, TypeOK
    <3>3. DOMAIN b = 1..Len(b)  BY <3>2, RowsAreSeqs
    <3>4. \A y \in DOMAIN b : b[y] = 0  BY <1>1, <2>2, <3>1 DEF IInv, Progress
    <3> QED BY <3>2, <3>3, <3>4
  <2> QED BY <2>1, <2>2
<1>4. Len(b) \in Nat /\ \A f \in [1..Len(b) -> 0..MaxPages] : f \in Rows
  BY <1>3, RowsAreSeqs
<1>5. rows' \in [1..Len(b) -> 0..MaxPages]  BY <1>1, <1>3
<1>6. rows' \in Rows  BY <1>4, <1>5
<1>7. \A y \in DOMAIN rows' : rows'[y] = IF y <= p.height THEN page + 1 ELSE 0
  BY <1>3
<1>8. CopiesOf(p) \in Nat /\ CopiesOf(p) > 0  BY <1>2, CopiesPositive DEF IInv
<1>9. ditherer' \in Widths \union {0}
  BY <1>2 DEF IInv, TypeOK, DithererWidth, Widths
<1>10. (CopiesOf(doc.pages[page]))' = CopiesOf(p)  BY DEF CopiesOf
<1>11. TypeOK'
  BY <1>1, <1>6, <1>8, <1>9, <1>10 DEF IInv, TypeOK, Goto, printerVars
<1>12. DocOK' /\ RunIsJob'  BY DEF IInv, DocOK, RunIsJob, Goto
<1>13. Progress'
  <2>1. PageOut(page)  BY DEF IInv, Progress
  <2>2. page' - 1 = page /\ page' > 0  BY <1>1
  <2>3. CopyDue'  BY <2>1, <2>2 DEF CopyDue, PageOut, CopiesOf
  <2>4. BufferShows'  BY <1>7 DEF BufferShows
  <2> QED BY <2>2, <2>3, <2>4 DEF Progress, Goto
<1>14. LabelsInOrder'  BY SameLabels DEF IInv
<1>15. CompletedMeansAll'  BY DEF IInv, RunIsJob, CompletedMeansAll, Goto
<1> QED BY <1>11, <1>12, <1>13, <1>14, <1>15 DEF IInv

LEMMA ReadPageKeeps == IInv /\ ReadPage => IInv'
<1> SUFFICES ASSUME IInv, ReadPage PROVE IInv'
  OBVIOUS
<1> DEFINE p == doc.pages[page + 1]
           b == Buffer(p)
<1>1. LabelsInOrder'  BY SameLabels DEF IInv, ReadPage
<1>2. labels' \in Seq([page: Nat, copy: Nat, rows: Rows])
      /\ cause' \in Conditions \union {"none", "offline"}
  BY DEF IInv, TypeOK, ReadPage
<1>3. CASE /\ p.height <= Len(b)
           /\ page' = page + 1
           /\ rows' = [y \in 1..Len(b) |-> IF y <= p.height THEN page + 1 ELSE b[y]]
           /\ ditherer' = DithererWidth(p) /\ copy' = 0 /\ Goto("copy")
  BY <1>3, PageReadKeeps DEF ReadPage
<1>4. CASE Finish(Outcome("OTHER"))
  <2>1. Outcome("OTHER") \in {"held", "failed"}  BY DEF Outcome
  <2> QED BY <1>1, <1>2, <1>4, <2>1, FinishKeeps DEF ReadPage
<1>5. CASE Goto("panicked") /\ UNCHANGED <<page, copy, bufferVars>>
  <2>1. job = "running"  BY DEF IInv, RunIsJob, ReadPage
  <2>2. Progress'  BY <1>5 DEF Progress, Goto
  <2> QED BY <1>1, <1>2, <1>5, <2>1, <2>2, GotoKeeps DEF ReadPage
<1> QED BY <1>3, <1>4, <1>5 DEF ReadPage

\* The copy about to be transferred is the one after the last label.
LEMMA LabelIsNext ==
  ASSUME IInv, pc = "copy", UNCHANGED doc, labels' = Append(labels, Label)
  PROVE  /\ labels' \in Seq([page: Nat, copy: Nat, rows: Rows])
         /\ LabelsInOrder'
         /\ Len(labels') \in Nat \ {0} /\ labels'[Len(labels')] = Label
<1> DEFINE R == [page: Nat, copy: Nat, rows: Rows]
           n == Len(labels)
<1>1. page \in 1..Len(doc.pages) /\ page \in Nat /\ copy \in Nat /\ rows \in Rows
      /\ labels \in Seq(R)
  BY LenProperties DEF IInv, TypeOK, DocOK, Progress
<1>2. Label \in R /\ Label.page = page /\ Label.copy = copy /\ Label.rows = rows
  BY <1>1 DEF Label
<1>3. /\ labels' \in Seq(R) /\ Len(labels') = n + 1 /\ n \in Nat
      /\ labels'[n + 1] = Label /\ \A i \in 1..n : labels'[i] = labels[i]
  BY <1>1, <1>2, AppendProperties, LenProperties
<1>4. DOMAIN labels = 1..n /\ DOMAIN labels' = 1..(n + 1)
  BY <1>1, <1>3, LenProperties
<1>5. DOMAIN doc.pages = 1..Len(doc.pages)  BY LenProperties DEF IInv, DocOK
<1>6. copy < CopiesOf(doc.pages[page]) /\ CopyDue /\ BufferShows
  BY DEF IInv, TypeOK, Progress
<1>7. doc.pages[page] \in Pages  BY <1>1, PageKnown DEF IInv
<1>8. CopiesOf(doc.pages[page]) \in Nat  BY <1>7, CopiesPositive DEF IInv
<1>9. IF n + 1 = 1 THEN Label.page = 1 /\ Label.copy = 0 ELSE Follows(Label, labels[n])
  <2>1. CASE n = 0
    <3>1. labels = <<>>  BY <2>1, <1>1, EmptySeq
    <3>2. copy = 0 /\ PageOut(page - 1)  BY <1>6, <3>1 DEF CopyDue
    <3>3. page - 1 = 0  BY <3>1, <3>2 DEF PageOut
    <3> QED BY <1>1, <1>2, <2>1, <3>2, <3>3
  <2>2. CASE n # 0 /\ copy = 0
    <3>1. labels # <<>>  BY <2>2, EmptySeq
    <3>2. PageOut(page - 1)  BY <1>6, <2>2 DEF CopyDue
    <3>3. page - 1 # 0  BY <3>1, <3>2 DEF PageOut
    <3>4. labels[n].page = page - 1
          /\ labels[n].copy + 1 = CopiesOf(doc.pages[page - 1])
      BY <3>2, <3>3 DEF PageOut
    <3>5. page - 1 \in 1..Len(doc.pages) /\ page = (page - 1) + 1
      BY <1>1, <3>3
    <3>6. CopiesOf(doc.pages[page - 1]) \in Nat
      BY <3>5, PageKnown, CopiesPositive DEF IInv
    <3>7. ~ (labels[n].copy + 1 < CopiesOf(doc.pages[labels[n].page]))
      BY <3>4, <3>6
    <3>8. Follows(Label, labels[n])  BY <1>2, <2>2, <3>4, <3>5, <3>7 DEF Follows
    <3> QED BY <2>2, <1>3, <3>8
  <2>3. CASE n # 0 /\ copy # 0
    <3>1. labels[n].page = page /\ labels[n].copy + 1 = copy
      BY <1>6, <2>3 DEF CopyDue
    <3>2. Follows(Label, labels[n])  BY <1>2, <1>6, <3>1 DEF Follows
    <3> QED BY <2>3, <1>3, <3>2
  <2> QED BY <2>1, <2>2, <2>3
<1>10. \A y \in DOMAIN Label.rows :
         Label.rows[y] = IF y <= doc.pages[Label.page].height THEN Label.page ELSE 0
  BY <1>2, <1>6 DEF BufferShows
<1>11. LabelsInOrder'
  <2> DEFINE L == labels'
  <2>1. ASSUME NEW i \in 1..(n + 1)
        PROVE  /\ L[i].page \in DOMAIN doc.pages
               /\ IF i = 1 THEN L[i].page = 1 /\ L[i].copy = 0
                           ELSE Follows(L[i], L[i - 1])
               /\ \A y \in DOMAIN L[i].rows :
                    L[i].rows[y] = IF y <= doc.pages[L[i].page].height
                                   THEN L[i].page ELSE 0
    <3>1. CASE i = n + 1
      <4>1. L[i] = Label  BY <1>3, <3>1
      <4>2. i # 1 => L[i - 1] = labels[n]
        <5>1. i # 1 => i - 1 = n /\ n \in 1..n  BY <1>3, <3>1
        <5> QED BY <1>3, <5>1
      <4> QED BY <1>1, <1>2, <1>5, <1>9, <1>10, <3>1, <4>1, <4>2
    <3>2. CASE i # n + 1
      <4>1. i \in 1..n /\ (i # 1 => i - 1 \in 1..n)  BY <1>3, <3>2
      <4>2. L[i] = labels[i] /\ (i # 1 => L[i - 1] = labels[i - 1])  BY <1>3, <4>1
      <4>3. i \in DOMAIN labels  BY <1>4, <4>1
      <4> QED BY <4>2, <4>3 DEF IInv, LabelsInOrder
    <3> QED BY <3>1, <3>2
  <2>2. \A a, c : Follows(a, c) <=>
          IF c.copy + 1 < (CopiesOf(doc.pages[c.page]))'
          THEN a.page = c.page /\ a.copy = c.copy + 1
          ELSE a.page = c.page + 1 /\ a.copy = 0
    BY DEF Follows, CopiesOf
  <2> QED BY <1>4, <2>1, <2>2 DEF LabelsInOrder, Follows
<1> QED BY <1>3, <1>11

\* A copy is on its label: the next one is due, or the page is done.
LEMMA CopyDoneKeeps ==
  ASSUME IInv, pc = "copy", CopyDone, labels' = Append(labels, Label),
         UNCHANGED <<doc, cause, printerVars>>
  PROVE  IInv'
<1>1. /\ labels' \in Seq([page: Nat, copy: Nat, rows: Rows]) /\ LabelsInOrder'
      /\ Len(labels') \in Nat \ {0} /\ labels'[Len(labels')] = Label
      /\ Label.page = page /\ Label.copy = copy
  BY LabelIsNext DEF Label
<1>2. labels' # <<>>  BY <1>1, EmptySeq
<1>3. /\ page \in 1..Len(doc.pages) /\ page \in Nat /\ copy \in Nat
      /\ copy < CopiesOf(doc.pages[page])
      /\ cause' \in Conditions \union {"none", "offline"}
  BY LenProperties DEF IInv, TypeOK, DocOK, Progress
<1>4. CopiesOf(doc.pages[page]) \in Nat  BY <1>3, PageKnown, CopiesPositive DEF IInv
<1>5. job = "running"  BY DEF IInv, RunIsJob
<1>6. CASE /\ copy + 1 < CopiesOf(doc.pages[page])
           /\ copy' = copy + 1 /\ Goto("copy") /\ UNCHANGED <<page, bufferVars>>
  <2>1. (CopiesOf(doc.pages[page]))' = CopiesOf(doc.pages[page])
    BY <1>6 DEF CopiesOf
  <2>2. TypeOK'
    BY <1>1, <1>3, <1>6, <2>1 DEF IInv, TypeOK, Goto, bufferVars, printerVars
  <2>3. DocOK' /\ RunIsJob'  BY <1>5, <1>6 DEF IInv, DocOK, RunIsJob, Goto
  <2>4. copy' # 0  BY <1>3, <1>6
  <2>5. CopyDue'  BY <1>1, <1>2, <1>6, <2>4 DEF CopyDue
  <2>6. BufferShows'  BY <1>6 DEF IInv, Progress, BufferShows, bufferVars
  <2>7. Progress'  BY <1>3, <1>6, <2>5, <2>6 DEF Progress, Goto
  <2>8. CompletedMeansAll'  BY <1>5, <1>6 DEF CompletedMeansAll, Goto
  <2> QED BY <1>1, <2>2, <2>3, <2>7, <2>8 DEF IInv
<1>7. CASE ~ (copy + 1 < CopiesOf(doc.pages[page])) /\ EndPage
  <2>1. copy + 1 = CopiesOf(doc.pages[page])  BY <1>3, <1>4, <1>7
  <2>2. /\ pc' = "page" /\ job' = job /\ copy' = 0
        /\ page' = page /\ ditherer' = ditherer
        /\ rows' = [y \in 1..Len(rows) |-> 0]
    BY <1>7 DEF EndPage, Goto
  <2>3. rows \in Rows  BY DEF IInv, TypeOK
  <2>4. [y \in 1..Len(rows) |-> 0] \in [1..Len(rows) -> 0..MaxPages]
    BY DocumentsAssumption
  <2>5. rows' \in Rows  BY <2>2, <2>3, <2>4, RowsAreSeqs
  <2>6. TypeOK'  BY <1>1, <1>3, <2>2, <2>5 DEF IInv, TypeOK, printerVars
  <2>7. DocOK' /\ RunIsJob'  BY <1>5, <2>2 DEF IInv, DocOK, RunIsJob
  <2>8. (PageOut(page))'  BY <1>1, <1>2, <1>3, <2>1, <2>2 DEF PageOut, CopiesOf
  <2>9. \A y \in DOMAIN rows' : rows'[y] = 0  BY <2>2
  <2>10. Progress'  BY <2>2, <2>8, <2>9 DEF Progress
  <2>11. CompletedMeansAll'  BY <1>5, <2>2 DEF CompletedMeansAll
  <2> QED BY <1>1, <2>6, <2>7, <2>10, <2>11 DEF IInv
<1> QED BY <1>6, <1>7 DEF CopyDone

LEMMA TransferPageKeeps == IInv /\ TransferPage => IInv'
<1> SUFFICES ASSUME IInv, TransferPage PROVE IInv'
  OBVIOUS
<1>1. pc = "copy" /\ UNCHANGED <<doc, printerVars>>  BY DEF TransferPage
<1>2. CASE CopyDone /\ labels' = Append(labels, Label) /\ UNCHANGED cause
  BY <1>1, <1>2, CopyDoneKeeps
<1>3. CASE cause' = Trouble /\ labels' \in {labels, Append(labels, Label)}
  <2>1. LabelsInOrder' /\ labels' \in Seq([page: Nat, copy: Nat, rows: Rows])
    BY <1>1, <1>3, SameLabels, LabelIsNext DEF IInv, TypeOK
  <2>2. cause' \in Conditions \union {"none", "offline"}
    BY <1>3 DEF IInv, TypeOK, Trouble
  <2>3. CASE Goto("requery") /\ UNCHANGED <<page, copy, bufferVars>>
    <3>1. job = "running"  BY <1>1 DEF IInv, RunIsJob
    <3>2. Progress'  BY <2>3 DEF Progress, Goto
    <3> QED BY <1>1, <2>1, <2>2, <2>3, <3>1, <3>2, GotoKeeps
  <2>4. CASE Finish(Outcome("OFFLINE")) \/ Finish(Outcome("OTHER"))
    <3>1. Outcome("OFFLINE") \in {"held", "failed"}
          /\ Outcome("OTHER") \in {"held", "failed"}
      BY DEF Outcome
    <3> QED BY <1>1, <2>1, <2>2, <2>4, <3>1, FinishKeeps
  <2> QED BY <1>2, <1>3, <2>3, <2>4 DEF TransferPage
<1> QED BY <1>2, <1>3 DEF TransferPage

LEMMA RequeryKeeps == IInv /\ Requery => IInv'
<1> SUFFICES ASSUME IInv, Requery PROVE IInv'
  OBVIOUS
<1>1. LabelsInOrder'  BY SameLabels DEF IInv, Requery
<1>2. labels' \in Seq([page: Nat, copy: Nat, rows: Rows])
      /\ cause' \in Conditions \union {"none", "offline"}
  BY DEF IInv, TypeOK, Requery
<1>3. PICK reason : Finish(Outcome(reason))  BY DEF Requery
<1>4. Outcome(reason) \in {"held", "failed"}  BY DEF Outcome
<1> QED BY <1>1, <1>2, <1>3, <1>4, FinishKeeps DEF Requery

LEMMA EndJobKeeps == IInv /\ EndJob => IInv'
<1> SUFFICES ASSUME IInv, EndJob PROVE IInv'
  OBVIOUS
<1>1. LabelsInOrder'  BY SameLabels DEF IInv, EndJob
<1>2. labels' \in Seq([page: Nat, copy: Nat, rows: Rows])
      /\ cause' \in Conditions \union {"none", "offline"}
  BY DEF IInv, TypeOK, EndJob
<1>3. page = Len(doc.pages) /\ PageOut(page)  BY DEF EndJob, IInv, Progress
<1>4. CASE Finish("completed")
  <2>1. CompletedMeansAll'
    <3>1. doc.pages # <<>> => Len(doc.pages) # 0  BY EmptySeq DEF IInv, DocOK
    <3>2. UNCHANGED <<doc, labels>>  BY DEF EndJob
    <3> QED BY <1>3, <3>1, <3>2 DEF CompletedMeansAll, PageOut, CopiesOf
  <2> QED BY <1>1, <1>2, <1>4, <2>1, FinishKeeps DEF EndJob
<1>5. CASE pc = "page" /\ Goto("end") /\ UNCHANGED <<page, copy, bufferVars>>
  <2>1. job = "running"  BY <1>5 DEF IInv, RunIsJob
  <2>2. UNCHANGED <<doc, labels>>  BY DEF EndJob
  <2>3. Progress'
    BY <1>3, <1>5, <2>2 DEF IInv, Progress, PageOut, CopiesOf, Goto, bufferVars
  <2> QED BY <1>1, <1>2, <1>5, <2>1, <2>3, GotoKeeps DEF EndJob
<1> QED BY <1>4, <1>5 DEF EndJob

\* The printer touches nothing of the job.
LEMMA PrinterKeeps ==
  ASSUME IInv, UNCHANGED <<doc, job, pc, runVars, cause>>,
         flag' \in Conditions \union {"none"}, link' \in BOOLEAN
  PROVE  IInv'
BY DEF IInv, TypeOK, DocOK, RunIsJob, Progress, PageOut, CopyDue, BufferShows,
       LabelsInOrder, Follows, CompletedMeansAll, CopiesOf, runVars, bufferVars

LEMMA NextKeeps == IInv /\ [Next]_vars => IInv'
<1> SUFFICES ASSUME IInv, [Next]_vars PROVE IInv'
  OBVIOUS
<1>1. flag \in Conditions \union {"none"} /\ link \in BOOLEAN  BY DEF IInv, TypeOK
<1>2. CASE RunStep
  BY <1>2, StartKeeps, DecodeKeeps, OpenDeviceKeeps, ReadPageKeeps,
     TransferPageKeeps, RequeryKeeps, EndJobKeeps DEF RunStep
<1>3. CASE RaiseFlag  BY <1>1, <1>3, PrinterKeeps DEF RaiseFlag
<1>4. CASE ClearFlag  BY <1>1, <1>4, PrinterKeeps DEF ClearFlag
<1>5. CASE LinkChange  BY <1>1, <1>5, PrinterKeeps DEF LinkChange
<1>6. CASE UNCHANGED vars  BY <1>1, <1>6, PrinterKeeps DEF vars, printerVars
<1> QED BY <1>2, <1>3, <1>4, <1>5, <1>6 DEF Next

-----------------------------------------------------------------------------
(* Theorems *)

LEMMA Invariance == Spec => []IInv
BY InitEstablishes, NextKeeps, PTL DEF Spec

\* Buffers, counts and labels keep their types.
THEOREM TypeCorrect == Spec => []TypeOK
<1>1. IInv => TypeOK  BY DEF IInv
<1> QED BY <1>1, Invariance, PTL

\* Whatever the document, its copies and the troubles of the printer, a run of the
\* job puts the pages on labels in order, each as often as wanted, and each label
\* shows its page with nothing of an earlier one below it.
THEOREM LabelsAreInOrder == Spec => []LabelsInOrder
<1>1. IInv => LabelsInOrder  BY DEF IInv
<1> QED BY <1>1, Invariance, PTL

\* A job is reported completed only when its last run has printed the last copy of
\* its last page.
THEOREM CompletedIsAll == Spec => []CompletedMeansAll
<1>1. IInv => CompletedMeansAll  BY DEF IInv
<1> QED BY <1>1, Invariance, PTL


=============================================================================
