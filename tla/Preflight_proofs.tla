-------------------------- MODULE Preflight_proofs --------------------------
(***************************************************************************)
(* The preflight of documents is type correct, for any documents, tasks    *)
(* and bounds; and with one task (JOB_CONCURRENCY = 1, the default) its    *)
(* safety properties hold.                                                 *)
(***************************************************************************)
EXTENDS Preflight, JobRows_proofs, SequenceTheorems

----------------------------------------------------------------------------
(* Columns and rows.                                                       *)

LEMMA ColumnNames ==
  Columns = {"exists", "inbox", "is_trashed", "processing_status",
             "extracted_text", "ocr_completed", "document_indexed"}
  BY DEF Columns, NoDocument, NewDoc

StepTypes == {"text_extraction", "ocr", "thumbnail", "metadata_suggestion",
              "indexing"}

LEMMA StepNames == DOMAIN FirstStep = StepTypes
  BY DEF FirstStep, StepTypes

\* Writing some columns of a row gives a row.
LEMMA WriteIsRow ==
  ASSUME NEW row \in DocRows, NEW new \in DocRows, NEW columns
  PROVE  Write(row, columns, new) \in DocRows
<1> DEFINE w == Write(row, columns, new)
<1>1. /\ w.exists \in BOOLEAN /\ w.inbox \in BOOLEAN
      /\ w.is_trashed \in BOOLEAN /\ w.ocr_completed \in BOOLEAN
      /\ w.processing_status \in ProcessingStatus
      /\ w.extracted_text \in {"none", "native", "ocr"}
      /\ w.document_indexed \in BOOLEAN
  BY ColumnNames DEF Write, DocRows
<1>2. w = [exists |-> w.exists, inbox |-> w.inbox,
           is_trashed |-> w.is_trashed,
           processing_status |-> w.processing_status,
           extracted_text |-> w.extracted_text,
           ocr_completed |-> w.ocr_completed,
           document_indexed |-> w.document_indexed]
  BY ColumnNames DEF Write
<1> QED
  BY <1>1, <1>2 DEF DocRows

LEMMA DocumentRows ==
  /\ NoDocument \in DocRows
  /\ \A inbox \in BOOLEAN : NewDoc(inbox) \in DocRows
  BY DEF NoDocument, NewDoc, DocRows, ProcessingStatus

\* A job of the preflight: its document is one, and it has a handler.  The
\* priority of a suggestion is high enough for the OCR that it may ask for.
JobRow ==
  {row \in Row(Docs) :
     /\ row.doc \in Docs /\ row.type \in StepTypes
     /\ row.type = "metadata_suggestion" => row.priority >= 20}

\* A job that a handler adds for d.
JobFor(d) == {row \in JobRow : row.doc = d /\ row.status = "queued"}

LEMMA JobRowIsRow ==
  JobRow \subseteq Row(Docs) /\ (\A d \in Docs : JobFor(d) \subseteq JobRow)
  BY DEF JobRow, JobFor

LEMMA NewJob ==
  ASSUME NEW type \in StepTypes, NEW d \in Docs, NEW priority \in Nat,
         type = "metadata_suggestion" => priority >= 20
  PROVE  /\ New(type, d, priority) \in JobFor(d)
         /\ New(type, d, priority).type = type
  BY BoundsAssumption
  DEF New, NewRow, JobFor, JobRow, Row, StepTypes, JobTypes, JobStatus

\* complete_job of a handler, which has loaded its row as running.
Completed(row) == CompleteRow([row EXCEPT !.status = "running"])

\* The row operators keep the document and the type, and give jobs again.
LEMMA RowsStayJobs ==
  ASSUME NEW row \in JobRow,
         NEW new \in {ClaimRow(row), FailRow(row, FALSE), CancelRow(row),
                      Completed(row), RequeueRow(row), CancelTrashedRow(row),
                      CancelTrashedRow(RequeueRow(row))}
  PROVE  /\ new \in JobRow
         /\ new.doc = row.doc /\ new.type = row.type
<1> DEFINE running == [row EXCEPT !.status = "running"]
<1>1. /\ row \in Row(Docs) /\ running \in Row(Docs)
      /\ RequeueRow(row) \in Row(Docs)
  BY RowTypes DEF JobRow, Row, JobStatus
<1>2. new \in Row(Docs)
  BY <1>1, RowTypes DEF Completed
<1>3. new.doc = row.doc /\ new.type = row.type
  <2> DEFINE Stays(r) == r.doc = row.doc /\ r.type = row.type
  <2>1. Stays(ClaimRow(row))
    BY <1>1 DEF Row, ClaimRow
  <2>2. Stays(FailRow(row, FALSE))
    BY <1>1 DEF Row, FailRow
  <2>3. Stays(CancelRow(row))
    BY <1>1 DEF Row, CancelRow
  <2>4. Stays(Completed(row))
    BY <1>1 DEF Row, Completed, CompleteRow
  <2>5. Stays(RequeueRow(row))
    BY <1>1 DEF Row, RequeueRow
  <2>6. Stays(CancelTrashedRow(row))
    BY <1>1 DEF Row, CancelTrashedRow
  <2>7. Stays(CancelTrashedRow(RequeueRow(row)))
    <3>1. PICK again : again = RequeueRow(row)
      OBVIOUS
    <3>2. again \in Row(Docs) /\ Stays(again)
      BY <1>1, <2>5, <3>1
    <3>3. Stays(CancelTrashedRow(again))
      BY <3>2 DEF Row, CancelTrashedRow
    <3> QED
      BY <3>1, <3>3
  <2> HIDE DEF Stays
  <2>8. Stays(new)
    BY <2>1, <2>2, <2>3, <2>4, <2>5, <2>6, <2>7
  <2> QED
    BY <2>8 DEF Stays
<1>4. new.priority \in {row.priority, AddPriority(row.priority)}
  BY <1>1 DEF Row, ClaimRow, FailRow, CancelRow, Completed, CompleteRow,
              RequeueRow, CancelTrashedRow
<1>5. row.priority >= 20 => AddPriority(row.priority) >= 20
  BY <1>1 DEF Row, AddPriority, MaxPriority
<1> QED
  BY <1>2, <1>3, <1>4, <1>5 DEF JobRow

LEMMA RowStatuses ==
  ASSUME NEW row \in JobRow
  PROVE  /\ ClaimRow(row).status = "running"
         /\ FailRow(row, FALSE).status \in {"queued", "failed"}
         /\ RequeueRow(row).status = "queued"
         /\ FailRow(row, FALSE).status # "failed" =>
              FailRow(row, FALSE).status \in OpenStatuses
  BY DEF JobRow, Row, ClaimRow, FailRow, RequeueRow, OpenStatuses

----------------------------------------------------------------------------
(* The jobs table only grows, and its rows keep document and type.         *)

Grows(rows, rows2) ==
  /\ rows2 \in Seq(JobRow)
  /\ DOMAIN rows \subseteq DOMAIN rows2
  /\ \A j \in DOMAIN rows :
       rows2[j].doc = rows[j].doc /\ rows2[j].type = rows[j].type

\* A table of jobs, written row by row and appended to, is a table of jobs.
AppendsTo(rows, mid, new, all) ==
  /\ \A j \in DOMAIN rows : all[j] = mid[j]
  /\ \A i \in DOMAIN new : \E j \in DOMAIN all :
       j \notin DOMAIN rows /\ all[j] = new[i]
  /\ \A j \in DOMAIN all \ DOMAIN rows : \E i \in DOMAIN new : all[j] = new[i]

LEMMA Appended ==
  ASSUME NEW rows \in Seq(JobRow), NEW mid \in [DOMAIN rows -> JobRow],
         NEW new \in Seq(JobRow), NEW all, all = mid \o new
  PROVE  /\ mid \in Seq(JobRow) /\ all \in Seq(JobRow)
         /\ DOMAIN rows \subseteq DOMAIN all
         /\ AppendsTo(rows, mid, new, all)
<1>1. /\ Len(rows) \in Nat /\ DOMAIN rows = 1 .. Len(rows)
      /\ Len(new) \in Nat /\ DOMAIN new = 1 .. Len(new)
  BY LenProperties
<1>2. mid \in Seq(JobRow)
  BY <1>1, SeqDef
<1>3. Len(mid) = Len(rows) /\ DOMAIN mid = DOMAIN rows
  <2>1. Len(mid) \in Nat /\ DOMAIN mid = 1 .. Len(mid)
    BY <1>2, LenProperties
  <2>2. DOMAIN mid = 1 .. Len(rows)
    BY <1>1
  <2> QED
    BY <2>1, <2>2, <1>1
<1>4. /\ mid \o new \in Seq(JobRow)
      /\ Len(mid \o new) = Len(rows) + Len(new)
      /\ \A i \in 1 .. Len(rows) + Len(new) : (mid \o new)[i] =
           IF i <= Len(rows) THEN mid[i] ELSE new[i - Len(rows)]
  <2>1. /\ mid \o new \in Seq(JobRow)
        /\ Len(mid \o new) = Len(mid) + Len(new)
        /\ \A i \in 1 .. Len(mid) + Len(new) : (mid \o new)[i] =
             IF i <= Len(mid) THEN mid[i] ELSE new[i - Len(mid)]
    BY <1>2, ConcatProperties, Zenon
  <2> QED
    BY <2>1, <1>3, Zenon
<1>5. DOMAIN (mid \o new) = 1 .. Len(rows) + Len(new)
  BY <1>4, LenProperties
<1>6. ASSUME NEW i \in DOMAIN new
      PROVE  \E j \in DOMAIN (mid \o new) :
               j \notin DOMAIN rows /\ (mid \o new)[j] = new[i]
  <2>1. Len(rows) + i \in 1 .. Len(rows) + Len(new)
    BY <1>1
  <2>2. (mid \o new)[Len(rows) + i] = new[i]
    BY <1>1, <1>4, <2>1
  <2> QED
    BY <1>1, <1>5, <2>1, <2>2
<1>7. ASSUME NEW j \in DOMAIN (mid \o new) \ DOMAIN rows
      PROVE  \E i \in DOMAIN new : (mid \o new)[j] = new[i]
  <2>1. j - Len(rows) \in DOMAIN new /\ (mid \o new)[j] = new[j - Len(rows)]
    BY <1>1, <1>4, <1>5
  <2> QED
    BY <2>1
<1>8. DOMAIN rows \subseteq DOMAIN (mid \o new)
  BY <1>1, <1>5
<1>9. ASSUME NEW j \in DOMAIN rows
      PROVE  (mid \o new)[j] = mid[j]
  BY <1>1, <1>4
<1>10. AppendsTo(rows, mid, new, mid \o new)
  BY <1>6, <1>7, <1>9, Zenon DEF AppendsTo
<1> QED
  BY <1>2, <1>4, <1>8, <1>10, Zenon

\* The same as a fact about documents and types.
LEMMA AppendedGrows ==
  ASSUME NEW rows \in Seq(JobRow), NEW mid \in [DOMAIN rows -> JobRow],
         NEW new \in Seq(JobRow),
         \A j \in DOMAIN rows :
           mid[j].doc = rows[j].doc /\ mid[j].type = rows[j].type
  PROVE  Grows(rows, mid \o new) /\ Grows(rows, mid)
<1>1. ASSUME NEW all, all = mid \o new
      PROVE  Grows(rows, all)
  <2>1. \A j \in DOMAIN rows : all[j] = mid[j]
    BY <1>1, Appended DEF AppendsTo
  <2> QED
    BY <1>1, <2>1, Appended DEF Grows
<1>2. Grows(rows, mid \o new)
  BY <1>1
<1>3. Grows(rows, mid)
  BY Appended DEF Grows
<1> QED
  BY <1>2, <1>3

\* One row is written, in place.
LEMMA RowWritten ==
  ASSUME NEW rows \in Seq(JobRow), NEW j \in DOMAIN rows, NEW row \in JobRow,
         row.doc = rows[j].doc, row.type = rows[j].type
  PROVE  /\ [rows EXCEPT ![j] = row] \in [DOMAIN rows -> JobRow]
         /\ \A k \in DOMAIN rows :
              /\ [rows EXCEPT ![j] = row][k].doc = rows[k].doc
              /\ [rows EXCEPT ![j] = row][k].type = rows[k].type
<1>1. rows \in [DOMAIN rows -> JobRow]
  BY LenProperties
<1> QED
  BY <1>1

----------------------------------------------------------------------------
(* What the handlers share, on drafts: the document as a session sees it   *)
(* and jobs for it.                                                        *)

DraftFor(d) == [doc : DocRows, new : Seq(JobFor(d))]

HasOpen(rows, d, types, me) == OpenJobs(rows, d, types, me) # {}

MadeReady(row) == [row EXCEPT !.processing_status = "ready"]

LEMMA LibraryIndexingDraft ==
  ASSUME NEW d \in Docs, NEW draft \in DraftFor(d), NEW rows,
         NEW priority \in Nat
  PROVE  LET end == LibraryIndexing(draft, rows, d, priority) IN
         /\ end \in DraftFor(d)
         /\ end.doc = draft.doc
         /\ \A i \in DOMAIN draft.new :
              i \in DOMAIN end.new /\ end.new[i] = draft.new[i]
<1> DEFINE indexing == New("indexing", d, priority)
<1>1. indexing \in JobFor(d)
  BY NewJob DEF StepTypes
<1>2. /\ draft.doc \in DocRows /\ draft.new \in Seq(JobFor(d))
      /\ draft = [doc |-> draft.doc, new |-> draft.new]
  BY DEF DraftFor
<1>3. /\ Append(draft.new, indexing) \in Seq(JobFor(d))
      /\ \A i \in DOMAIN draft.new :
           /\ i \in DOMAIN Append(draft.new, indexing)
           /\ Append(draft.new, indexing)[i] = draft.new[i]
  BY <1>1, <1>2, AppendProperties, LenProperties
<1> HIDE DEF indexing
<1>4. LibraryIndexing(draft, rows, d, priority) = draft \/
      LibraryIndexing(draft, rows, d, priority) =
        [doc |-> draft.doc, new |-> Append(draft.new, indexing)]
  BY <1>2 DEF LibraryIndexing, indexing
<1> QED
  BY <1>2, <1>3, <1>4 DEF DraftFor

LEMMA MarkReadyDraft ==
  ASSUME NEW d \in Docs, NEW draft \in DraftFor(d), NEW rows, NEW me
  PROVE  LET end == MarkReady(draft, rows, d, me)
             busy == HasOpen(rows \o draft.new, d, PreflightTypes, me)
             failed == draft.doc.processing_status = "failed"
         IN /\ end \in DraftFor(d)
            /\ busy \/ failed => end = draft
            /\ ~busy /\ ~failed => end.doc = MadeReady(draft.doc)
<1> DEFINE made == [draft EXCEPT !.doc.processing_status = "ready"]
<1>1. /\ made \in DraftFor(d) /\ made.doc = MadeReady(draft.doc)
  BY DEF DraftFor, DocRows, ProcessingStatus, MadeReady
<1> HIDE DEF made
<1>2. /\ LibraryIndexing(made, rows, d, 100) \in DraftFor(d)
      /\ LibraryIndexing(made, rows, d, 100).doc = made.doc
  BY <1>1, LibraryIndexingDraft
<1> QED
  BY <1>1, <1>2 DEF MarkReady, HasOpen, made

\* The draft of a handler that has added no job yet.
Plain(row) == [doc |-> row, new |-> <<>>]

LEMMA PlainDraft ==
  ASSUME NEW d \in Docs, NEW row \in DocRows
  PROVE  Plain(row) \in DraftFor(d) /\ Plain(row).doc = row
         /\ Plain(row).new = <<>>
  BY EmptySeq DEF Plain, DraftFor

\* A draft that adds one job.
Adding(row, new) == [doc |-> row, new |-> <<new>>]

LEMMA AddingDraft ==
  ASSUME NEW d \in Docs, NEW row \in DocRows, NEW new \in JobFor(d)
  PROVE  /\ Adding(row, new) \in DraftFor(d)
         /\ Adding(row, new).doc = row
         /\ \E i \in DOMAIN Adding(row, new).new :
              Adding(row, new).new[i].type = new.type
<1> DEFINE added == <<new>>
<1>1. added \in Seq(JobFor(d)) /\ 1 \in DOMAIN added /\ added[1] = new
  OBVIOUS
<1> HIDE DEF added
<1>2. Adding(row, new) = [doc |-> row, new |-> added]
  BY DEF Adding, added
<1>3. /\ Adding(row, new) \in DraftFor(d)
      /\ Adding(row, new).doc = row /\ Adding(row, new).new = added
  BY <1>1, <1>2 DEF DraftFor
<1> QED
  BY <1>1, <1>3

\* What a handler decides of the preflight that it has finished its part of:
\* it leaves the status alone only if there is other work, it adds some, or
\* the preparation had failed.
PartDone(end, row, rows, d, me) ==
  \/ /\ end.doc = row
     /\ \/ HasOpen(rows, d, PreflightTypes, me)
        \/ \E i \in DOMAIN end.new : end.new[i].type \in PreflightTypes
        \/ row.processing_status = "failed"
  \/ row.processing_status # "failed" /\ end.doc = MadeReady(row)

NewWork(out) == \E i \in DOMAIN out.new : out.new[i].type \in PreflightTypes

Waits(row) == row.processing_status \in PreparingStatuses

\* The columns that handlers do not write are kept.
Keeps(new, seen) ==
  /\ new.exists = seen.exists /\ new.inbox = seen.inbox
  /\ new.is_trashed = seen.is_trashed

LEMMA PartDoneFacts ==
  ASSUME NEW end, NEW row \in DocRows, NEW rows, NEW d, NEW me,
         PartDone(end, row, rows, d, me)
  PROVE  /\ Keeps(end.doc, row)
         /\ end.doc.extracted_text = row.extracted_text
         /\ end.doc.ocr_completed = row.ocr_completed
         /\ row.processing_status = "failed"
              => end.doc.processing_status = "failed"
         /\ Waits(end.doc) =>
              HasOpen(rows, d, PreflightTypes, me) \/ NewWork(end)
  BY DEF PartDone, MadeReady, DocRows, Keeps, Waits, PreparingStatuses,
         NewWork

LEMMA MarkReadyPlain ==
  ASSUME NEW d \in Docs, NEW row \in DocRows, NEW rows \in Seq(JobRow), NEW me
  PROVE  /\ MarkReady(Plain(row), rows, d, me) \in DraftFor(d)
         /\ PartDone(MarkReady(Plain(row), rows, d, me), row, rows, d, me)
<1> DEFINE draft == Plain(row)
           m == MarkReady(draft, rows, d, me)
           busy == HasOpen(rows \o draft.new, d, PreflightTypes, me)
           failed == draft.doc.processing_status = "failed"
<1>1. draft \in DraftFor(d) /\ draft.doc = row /\ rows \o draft.new = rows
  BY PlainDraft, ConcatEmptySeq
<1>2. /\ m \in DraftFor(d)
      /\ busy \/ failed => m = draft
      /\ ~busy /\ ~failed => m.doc = MadeReady(draft.doc)
  BY <1>1, MarkReadyDraft, Zenon
<1>3. /\ busy <=> HasOpen(rows, d, PreflightTypes, me)
      /\ failed <=> row.processing_status = "failed"
  BY <1>1
<1> HIDE DEF busy, failed, m, draft
<1> QED
  BY <1>1, <1>2, <1>3 DEF m, draft, PartDone

LEMMA SuggestOrFinishPlain ==
  ASSUME NEW d \in Docs, NEW row \in DocRows, NEW rows \in Seq(JobRow),
         NEW me, NEW priority \in Nat, NEW c \in BOOLEAN
  PROVE  LET end == SuggestOrFinish(Plain(row), rows, d, me, priority, c) IN
         end \in DraftFor(d) /\ PartDone(end, row, rows, d, me)
<1> DEFINE suggestion == New("metadata_suggestion", d, priority + 20)
           end == SuggestOrFinish(Plain(row), rows, d, me, priority, c)
<1>1. suggestion \in JobFor(d) /\ suggestion.type = "metadata_suggestion"
  BY NewJob DEF StepTypes
<1>5. rows \o Plain(row).new = rows /\ Plain(row).doc = row
  BY PlainDraft, ConcatEmptySeq
<1>2. CASE OpenJobs(rows, d, {"ocr"}, me) # {}
  <2>1. HasOpen(rows, d, PreflightTypes, me)
    BY <1>2 DEF HasOpen, OpenJobs, PreflightTypes
  <2>2. end = Plain(row)
    BY <1>2, <1>5 DEF SuggestOrFinish
  <2> QED
    BY <2>1, <2>2, PlainDraft DEF PartDone
<1>3. CASE /\ OpenJobs(rows, d, {"ocr"}, me) = {}
           /\ c /\ row.extracted_text # "none"
  <2>1. end = [Plain(row) EXCEPT !.new = Append(@, suggestion)]
    BY <1>3, <1>5 DEF SuggestOrFinish
  <2> HIDE DEF suggestion
  <2>2. end = Adding(row, suggestion)
    BY <2>1 DEF Plain, Adding
  <2> QED
    BY <2>2, <1>1, AddingDraft DEF PartDone, PreflightTypes
<1>4. CASE /\ OpenJobs(rows, d, {"ocr"}, me) = {}
           /\ ~(c /\ row.extracted_text # "none")
  <2>1. end = MarkReady(Plain(row), rows, d, me)
    BY <1>4, <1>5 DEF SuggestOrFinish
  <2> QED
    BY <2>1, MarkReadyPlain
<1> QED
  BY <1>2, <1>3, <1>4

----------------------------------------------------------------------------
(* The indexing that drafts ask for.                                       *)

AddsIndexing(out) == \E i \in DOMAIN out.new : out.new[i].type = "indexing"

\* A draft of a session that keeps the mark of the index that row has, and
\* asks for indexing only if row is not in the Inbox.
KeepsIndex(draft, row) ==
  /\ draft.doc.document_indexed = row.document_indexed
  /\ AddsIndexing(draft) => ~row.inbox

LEMMA LibraryIndexingAsks ==
  ASSUME NEW d \in Docs, NEW draft \in DraftFor(d), NEW rows \in Seq(JobRow),
         NEW priority \in Nat, NEW end,
         end = LibraryIndexing(draft, rows, d, priority)
  PROVE  /\ end.doc = draft.doc
         /\ AddsIndexing(end) => AddsIndexing(draft) \/ ~draft.doc.inbox
         /\ ~draft.doc.inbox /\ ~draft.doc.document_indexed =>
              AddsIndexing(end) \/ HasOpen(rows, d, {"indexing"}, 0)
<1> DEFINE indexing == New("indexing", d, priority)
           all == rows \o draft.new
           open == OpenJobs(all, d, {"indexing"}, 0)
<1>1. indexing \in JobFor(d) /\ indexing.type = "indexing"
  BY NewJob DEF StepTypes
<1>2. /\ draft.new \in Seq(JobFor(d)) /\ draft.new \in Seq(JobRow)
      /\ draft = [doc |-> draft.doc, new |-> draft.new]
  BY JobRowIsRow, SeqMonotonic DEF DraftFor
<1>3. CASE draft.doc.inbox \/ draft.doc.document_indexed \/ open # {}
  <2>1. end = draft
    BY <1>3 DEF LibraryIndexing
  <2>2. ASSUME NEW j \in open
        PROVE  AddsIndexing(draft) \/ HasOpen(rows, d, {"indexing"}, 0)
    <3>1. /\ j \in DOMAIN all /\ all[j].doc = d /\ all[j].type = "indexing"
          /\ all[j].status \in OpenStatuses
      BY <2>2 DEF OpenJobs
    <3>2. /\ Len(rows) \in Nat /\ DOMAIN rows = 1 .. Len(rows)
          /\ Len(draft.new) \in Nat /\ DOMAIN draft.new = 1 .. Len(draft.new)
      BY <1>2, LenProperties
    <3>3. /\ all \in Seq(JobRow) /\ Len(all) = Len(rows) + Len(draft.new)
          /\ \A i \in 1 .. Len(rows) + Len(draft.new) : all[i] =
               IF i <= Len(rows) THEN rows[i] ELSE draft.new[i - Len(rows)]
      BY <1>2, ConcatProperties, Zenon
    <3>4. j \in 1 .. Len(rows) + Len(draft.new)
      BY <3>1, <3>3, LenProperties
    <3> HIDE DEF all
    <3>5. CASE j <= Len(rows)
      <4>1. j \in DOMAIN rows /\ j # 0 /\ all[j] = rows[j]
        BY <3>2, <3>3, <3>4, <3>5
      <4> QED
        BY <3>1, <4>1 DEF HasOpen, OpenJobs
    <3>6. CASE ~(j <= Len(rows))
      <4>1. /\ j - Len(rows) \in DOMAIN draft.new
            /\ all[j] = draft.new[j - Len(rows)]
        BY <3>2, <3>3, <3>4, <3>6
      <4> QED
        BY <3>1, <4>1 DEF AddsIndexing
    <3> QED
      BY <3>5, <3>6
  <2> HIDE DEF open
  <2> QED
    BY <1>3, <2>1, <2>2
<1>4. CASE ~(draft.doc.inbox \/ draft.doc.document_indexed \/ open # {})
  <2>1. end = [draft EXCEPT !.new = Append(draft.new, indexing)]
    BY <1>4 DEF LibraryIndexing
  <2> HIDE DEF indexing
  <2>2. /\ Len(draft.new) + 1 \in DOMAIN Append(draft.new, indexing)
        /\ Append(draft.new, indexing)[Len(draft.new) + 1] = indexing
    BY <1>1, <1>2, AppendProperties, LenProperties
  <2>3. end.doc = draft.doc /\ end.new = Append(draft.new, indexing)
    BY <1>2, <2>1
  <2> QED
    BY <1>1, <1>4, <2>2, <2>3 DEF AddsIndexing
<1> QED
  BY <1>3, <1>4

LEMMA PlainKeepsIndex ==
  ASSUME NEW row
  PROVE  KeepsIndex(Plain(row), row)
  BY DEF KeepsIndex, AddsIndexing, Plain

LEMMA AddingKeepsIndex ==
  ASSUME NEW row, NEW new, new.type # "indexing"
  PROVE  KeepsIndex(Adding(row, new), row)
<1> DEFINE added == <<new>>
<1>1. \A i \in DOMAIN added : added[i] = new
  OBVIOUS
<1>2. Adding(row, new).new = added /\ Adding(row, new).doc = row
  BY DEF Adding
<1> HIDE DEF added
<1> QED
  BY <1>1, <1>2 DEF KeepsIndex, AddsIndexing

LEMMA MarkReadyKeepsIndex ==
  ASSUME NEW d \in Docs, NEW row \in DocRows, NEW rows \in Seq(JobRow), NEW me
  PROVE  KeepsIndex(MarkReady(Plain(row), rows, d, me), row)
<1> DEFINE made == [Plain(row) EXCEPT !.doc.processing_status = "ready"]
           end == LibraryIndexing(made, rows, d, 100)
<1>1. /\ made = Plain(MadeReady(row)) /\ MadeReady(row) \in DocRows
      /\ MadeReady(row).document_indexed = row.document_indexed
      /\ MadeReady(row).inbox = row.inbox
  BY DEF Plain, MadeReady, DocRows, ProcessingStatus
<1>2. /\ made \in DraftFor(d) /\ made.doc = MadeReady(row)
      /\ KeepsIndex(made, MadeReady(row))
  BY <1>1, PlainDraft, PlainKeepsIndex
<1> HIDE DEF made
<1>3. /\ end.doc = made.doc
      /\ AddsIndexing(end) => AddsIndexing(made) \/ ~made.doc.inbox
  BY <1>2, LibraryIndexingAsks
<1>4. KeepsIndex(end, row)
  BY <1>1, <1>2, <1>3 DEF KeepsIndex
<1>5. MarkReady(Plain(row), rows, d, me) \in {Plain(row), end}
  BY DEF MarkReady, made
<1> QED
  BY <1>4, <1>5, PlainKeepsIndex

LEMMA SuggestOrFinishKeepsIndex ==
  ASSUME NEW d \in Docs, NEW row \in DocRows, NEW rows \in Seq(JobRow),
         NEW me, NEW priority \in Nat, NEW c \in BOOLEAN
  PROVE  KeepsIndex(SuggestOrFinish(Plain(row), rows, d, me, priority, c), row)
<1> DEFINE suggestion == New("metadata_suggestion", d, priority + 20)
           end == SuggestOrFinish(Plain(row), rows, d, me, priority, c)
<1>1. suggestion.type = "metadata_suggestion"
  BY DEF New, NewRow
<1> HIDE DEF suggestion
<1>2. [Plain(row) EXCEPT !.new = Append(@, suggestion)] =
      Adding(row, suggestion)
  BY DEF Plain, Adding
<1>3. end \in {Plain(row), [Plain(row) EXCEPT !.new = Append(@, suggestion)],
               MarkReady(Plain(row), rows, d, me)}
  BY Zenon DEF SuggestOrFinish, suggestion
<1> QED
  BY <1>1, <1>2, <1>3, PlainKeepsIndex, AddingKeepsIndex, MarkReadyKeepsIndex

----------------------------------------------------------------------------
(* How a handler ends.                                                     *)

Readers == {"text_extraction", "ocr"}

\* The pages of this run's document are read by OCR.
ByOcr(r) == TypeOf(r) = "ocr" \/ DocOf(r) \in Images

\* The columns that handlers write, and what they may want to commit.
Written == {"processing_status", "extracted_text", "ocr_completed",
            "document_indexed"}

OutcomeFor(d) ==
  [doc : DocRows, columns : SUBSET Written, new : Seq(JobFor(d)),
   pages : Texts \cup {"keep"}, chunks : Texts \cup {"keep"}]

Decided(r) == run[r].pc \in {"flush", "commit"}
Loaded(r) == run[r].pc \notin {"idle", "load", "failed"}

\* A task fits the row of its job.
TaskFits(t, rows) ==
  LET d == rows[t.job].doc
      type == rows[t.job].type
  IN t.pc # "idle" =>
       /\ t.job \in DOMAIN rows
       /\ t.pc \in {"flush", "commit"} => t.out \in OutcomeFor(d)
       /\ t.pc \in {"clear", "enter", "ocr"} => type \in Readers
       /\ t.pc \in {"enter", "ocr"} => type = "ocr" \/ d \in Images
       /\ t.pc = "finish" => type # "metadata_suggestion"
       /\ t.pc \in {"check", "ask"} => type = "metadata_suggestion"

\* The typing of everything but jobs and tasks.
RestTyped ==
  /\ doc \in [Docs -> DocRows]
  /\ pages \in [Docs -> Texts] /\ chunks \in [Docs -> Texts]
  /\ ocr_gate \in Runs \cup {NoRun}
  /\ api \in [op : Operations \cup {"none"}, doc : Docs \cup {NoDoc},
              seen : DocRows]
  /\ api.op # "none" => api.doc \in Docs
  /\ left \in [Requests \cup {"crash"} -> Nat]

\* The typing that is inductive.
Shape ==
  /\ job \in Seq(JobRow)
  /\ run \in [Runs -> Tasks]
  /\ \A r \in Runs : TaskFits(run[r], job)
  /\ RestTyped

LEMMA ShapeIsTyped == Shape => TypeOK
<1> SUFFICES ASSUME Shape PROVE TypeOK
  OBVIOUS
<1>1. job \in Seq(Row(Docs))
  BY JobRowIsRow, SeqMonotonic DEF Shape
<1>2. ASSUME NEW j \in DOMAIN job
      PROVE  job[j].doc \in Docs /\ job[j].type \in DOMAIN FirstStep
  <2>1. job[j] \in JobRow
    BY LenProperties, ElementOfSeq DEF Shape
  <2> QED
    BY <2>1, StepNames DEF JobRow
<1>3. ASSUME NEW r \in Runs, run[r].pc # "idle"
      PROVE  run[r].job \in DOMAIN job
  BY <1>3 DEF Shape, TaskFits
<1> QED
  BY <1>1, <1>2, <1>3 DEF Shape, RestTyped, TypeOK

LEMMA OutcomesFor ==
  ASSUME NEW d \in Docs
  PROVE  OutcomeFor(d) \subseteq Outcomes /\ NoOutcome \in OutcomeFor(d)
<1>1. Seq(JobFor(d)) \subseteq Seq(Row(Docs))
  BY JobRowIsRow, SeqMonotonic
<1>2. SUBSET Written \subseteq SUBSET Columns
  BY ColumnNames DEF Written
<1>3. <<>> \in Seq(JobFor(d))
  BY EmptySeq
<1> QED
  BY <1>1, <1>2, <1>3, DocumentRows DEF OutcomeFor, Outcomes, NoOutcome, Texts

\* The job of a task that is not idle.
LEMMA TaskJob ==
  ASSUME Shape, NEW r \in Runs, run[r].pc # "idle"
  PROVE  /\ run[r].job \in DOMAIN job /\ job[run[r].job] \in JobRow
         /\ DocOf(r) \in Docs /\ TypeOf(r) \in StepTypes
         /\ job[run[r].job].priority \in Nat
         /\ run[r] \in Tasks /\ run[r].seen \in DocRows
         /\ run[r].read \in Texts
         /\ Decided(r) => run[r].out \in OutcomeFor(DocOf(r))
         /\ run[r].pc \in {"clear", "enter", "ocr"} => TypeOf(r) \in Readers
         /\ run[r].pc \in {"enter", "ocr"} => ByOcr(r)
         /\ run[r].pc = "finish" => TypeOf(r) # "metadata_suggestion"
         /\ run[r].pc \in {"check", "ask"} =>
              TypeOf(r) = "metadata_suggestion"
<1>1. TaskFits(run[r], job) /\ run[r] \in Tasks
  BY DEF Shape
<1>2. job[run[r].job] \in JobRow
  BY <1>1, LenProperties, ElementOfSeq DEF Shape, TaskFits
<1>3. run[r].seen \in DocRows /\ run[r].read \in Texts
  BY <1>1 DEF Tasks
<1>4. /\ DocOf(r) \in Docs /\ TypeOf(r) \in StepTypes
      /\ job[run[r].job].priority \in Nat
  BY <1>2 DEF JobRow, DocOf, TypeOf, Row
<1> QED
  BY <1>1, <1>2, <1>3, <1>4 DEF TaskFits, DocOf, TypeOf, Decided, ByOcr

\* The outcome of a draft.
Drafted(draft, columns, new_pages, new_chunks) ==
  [doc |-> draft.doc, columns |-> columns, new |-> draft.new,
   pages |-> new_pages, chunks |-> new_chunks]

TextOutcome(draft, seen, flushed, new_pages) ==
  [Outcome(draft, seen) EXCEPT !.columns = @ \cup flushed,
                               !.pages = new_pages]

ChunksOutcome(draft, seen, new_chunks) ==
  [Outcome(draft, seen) EXCEPT !.chunks = new_chunks]

LEMMA OutcomeIsDrafted ==
  ASSUME NEW draft, NEW seen, NEW columns, NEW new_pages, NEW new_chunks
  PROVE  /\ Outcome(draft, seen) =
              Drafted(draft, Changed(seen, draft.doc), "keep", "keep")
         /\ ChunksOutcome(draft, seen, new_chunks) =
              Drafted(draft, Changed(seen, draft.doc), "keep", new_chunks)
         /\ TextOutcome(draft, seen, columns, new_pages) =
              Drafted(draft, Changed(seen, draft.doc) \cup columns,
                      new_pages, "keep")
<1>1. ASSUME NEW out, out = Outcome(draft, seen)
      PROVE  out = Drafted(draft, Changed(seen, draft.doc), "keep", "keep")
  <2>1. /\ out.doc = draft.doc /\ out.columns = Changed(seen, draft.doc)
        /\ out.new = draft.new /\ out.pages = "keep" /\ out.chunks = "keep"
    BY <1>1 DEF Outcome, NoOutcome
  <2>2. out = [doc |-> out.doc, columns |-> out.columns, new |-> out.new,
               pages |-> out.pages, chunks |-> out.chunks]
    BY <1>1 DEF Outcome, NoOutcome
  <2> QED
    BY <2>1, <2>2, Zenon DEF Drafted
<1>2. Outcome(draft, seen) =
        Drafted(draft, Changed(seen, draft.doc), "keep", "keep")
  BY <1>1, Zenon
<1>3. [Outcome(draft, seen) EXCEPT !.chunks = new_chunks] =
        Drafted(draft, Changed(seen, draft.doc), "keep", new_chunks)
  BY <1>2 DEF Drafted
<1>4. ASSUME NEW out,
             out = [Drafted(draft, Changed(seen, draft.doc), "keep", "keep")
                    EXCEPT !.columns = @ \cup columns, !.pages = new_pages]
      PROVE  out = Drafted(draft, Changed(seen, draft.doc) \cup columns,
                           new_pages, "keep")
  <2>1. /\ out.doc = draft.doc /\ out.new = draft.new
        /\ out.columns = Changed(seen, draft.doc) \cup columns
        /\ out.pages = new_pages /\ out.chunks = "keep"
    BY <1>4 DEF Drafted
  <2>2. out = [doc |-> out.doc, columns |-> out.columns, new |-> out.new,
               pages |-> out.pages, chunks |-> out.chunks]
    BY <1>4 DEF Drafted
  <2> QED
    BY <2>1, <2>2, Zenon DEF Drafted
<1> QED
  BY <1>2, <1>3, <1>4, Zenon DEF ChunksOutcome, TextOutcome

\* A draft that keeps the columns handlers do not write: its outcome, and the
\* row as the session that drafted it sees it.
LEMMA OutcomeOfDraft ==
  ASSUME NEW d \in Docs, NEW draft \in DraftFor(d), NEW seen \in DocRows,
         Keeps(draft.doc, seen), NEW flushed \in SUBSET {"processing_status"},
         NEW new_pages \in Texts \cup {"keep"},
         NEW new_chunks \in Texts \cup {"keep"}
  PROVE  LET columns == Changed(seen, draft.doc) \cup flushed IN
         /\ Drafted(draft, columns, new_pages, new_chunks) \in OutcomeFor(d)
         /\ Write(seen, columns, draft.doc) = draft.doc
<1> DEFINE columns == Changed(seen, draft.doc) \cup flushed
<1>1. draft.doc \in DocRows /\ draft.new \in Seq(JobFor(d))
  BY DEF DraftFor
<1>2. columns \in SUBSET Written
  BY ColumnNames DEF Changed, Written, Keeps
<1>3. \A c \in Columns : c \notin columns => seen[c] = draft.doc[c]
  BY DEF Changed
<1>4. Write(seen, columns, draft.doc) = [c \in Columns |-> draft.doc[c]]
  BY <1>3 DEF Write
<1>5. draft.doc = [c \in Columns |-> draft.doc[c]]
  BY <1>1, ColumnNames DEF DocRows
<1> HIDE DEF columns
<1>6. Drafted(draft, columns, new_pages, new_chunks) \in OutcomeFor(d)
  BY <1>1, <1>2 DEF OutcomeFor, Drafted
<1> QED
  BY <1>4, <1>5, <1>6 DEF columns

\* A scanned document that counts as read by OCR has the text of OCR.
Gated(d, row) ==
  d \in Scanned /\ row.ocr_completed => row.extracted_text = "ocr"

\* Other work that will end the preparation of r's document.
Others(r) == HasOpen(job, DocOf(r), PreflightTypes, run[r].job)

TextBy(r) == IF ByOcr(r) THEN "ocr" ELSE "native"

\* What the outcome of a handler promises, of the row as its session sees it.
Sound(r, out) ==
  LET seen == run[r].seen
      end == Write(seen, out.columns, out.doc)
  IN /\ out \in OutcomeFor(DocOf(r))
     /\ end.extracted_text =
          IF TypeOf(r) \in Readers THEN TextBy(r) ELSE seen.extracted_text
     /\ out.pages = IF TypeOf(r) \in Readers /\ ~ByOcr(r) THEN "native"
                                                        ELSE "keep"
     /\ Gated(DocOf(r), seen) => Gated(DocOf(r), end)
     /\ TypeOf(r) # "text_extraction" /\ seen.processing_status = "failed"
          => end.processing_status = "failed"
     /\ TypeOf(r) \in PreflightTypes /\ Waits(end)
          => Others(r) \/ NewWork(out)
     /\ TypeOf(r) \notin PreflightTypes /\ Waits(end)
          => "processing_status" \notin out.columns

\* The handler has decided: only the task changes.
Settles(r, out) ==
  /\ \E pc \in {"flush", "commit"} :
       run' = [run EXCEPT ![r].pc = pc, ![r].out = out]
  /\ UNCHANGED <<job, doc, pages, chunks, ocr_gate, api, left>>

LEMMA DecidingSettles ==
  ASSUME NEW r, NEW out, Prepare(r, out) \/ Decide(r, out)
  PROVE  Settles(r, out)
  BY DEF Prepare, Decide, Settles

\* What is left to show of a handler whose outcome is that of a draft.
LEMMA SoundDraft ==
  ASSUME Shape, NEW r \in Runs, run[r].pc # "idle",
         NEW draft \in DraftFor(DocOf(r)),
         NEW flushed \in SUBSET {"processing_status"},
         NEW new_pages \in Texts \cup {"keep"},
         NEW new_chunks \in Texts \cup {"keep"},
         Keeps(draft.doc, run[r].seen),
         draft.doc.extracted_text =
           IF TypeOf(r) \in Readers THEN TextBy(r)
                                    ELSE run[r].seen.extracted_text,
         new_pages = IF TypeOf(r) \in Readers /\ ~ByOcr(r) THEN "native"
                                                           ELSE "keep",
         Gated(DocOf(r), run[r].seen) => Gated(DocOf(r), draft.doc),
         TypeOf(r) # "text_extraction"
           /\ run[r].seen.processing_status = "failed"
           => draft.doc.processing_status = "failed",
         TypeOf(r) \in PreflightTypes /\ Waits(draft.doc) =>
           Others(r) \/ NewWork(draft),
         TypeOf(r) \notin PreflightTypes => ~Waits(draft.doc)
  PROVE  Sound(r, Drafted(draft, Changed(run[r].seen, draft.doc) \cup flushed,
                          new_pages, new_chunks))
<1> DEFINE columns == Changed(run[r].seen, draft.doc) \cup flushed
           out == Drafted(draft, columns, new_pages, new_chunks)
<1>1. DocOf(r) \in Docs /\ run[r].seen \in DocRows
  BY TaskJob
<1>2. /\ out \in OutcomeFor(DocOf(r))
      /\ Write(run[r].seen, columns, draft.doc) = draft.doc
  BY <1>1, OutcomeOfDraft
<1>3. /\ out.new = draft.new /\ out.pages = new_pages
      /\ out.columns = columns /\ out.doc = draft.doc
  BY DEF Drafted
<1> HIDE DEF columns, out
<1>4. NewWork(draft) => NewWork(out)
  BY <1>3 DEF NewWork
<1>5. Sound(r, out)
  BY <1>2, <1>3, <1>4 DEF Sound
<1> QED
  BY <1>5 DEF out, columns

\* What the outcome of a handler does about the index of the document.
Indexes(r, out) ==
  LET seen == run[r].seen
      end == Write(seen, out.columns, out.doc)
  IN /\ AddsIndexing(out) => ~seen.inbox
     /\ TypeOf(r) \notin {"ocr", "indexing"} =>
          out.chunks = "keep" /\ "document_indexed" \notin out.columns
     /\ TypeOf(r) = "indexing" =>
          out.chunks = run[r].read /\ end.document_indexed
     /\ TypeOf(r) = "ocr" =>
          /\ ~end.document_indexed
          /\ ~seen.inbox => \/ AddsIndexing(out)
                            \/ HasOpen(job, DocOf(r), {"indexing"}, 0)
     /\ TypeOf(r) = "text_extraction" /\ DocOf(r) \in Scanned =>
          \E i \in DOMAIN out.new : out.new[i].type = "ocr"

LEMMA IndexesDraft ==
  ASSUME Shape, NEW r \in Runs, run[r].pc # "idle",
         NEW draft \in DraftFor(DocOf(r)),
         NEW flushed \in SUBSET {"processing_status"},
         NEW new_pages \in Texts \cup {"keep"},
         NEW new_chunks \in Texts \cup {"keep"},
         Keeps(draft.doc, run[r].seen),
         AddsIndexing(draft) => ~run[r].seen.inbox,
         TypeOf(r) \notin {"ocr", "indexing"} =>
           /\ new_chunks = "keep"
           /\ draft.doc.document_indexed = run[r].seen.document_indexed,
         TypeOf(r) = "indexing" =>
           new_chunks = run[r].read /\ draft.doc.document_indexed,
         TypeOf(r) = "ocr" =>
           /\ ~draft.doc.document_indexed
           /\ ~run[r].seen.inbox =>
                \/ AddsIndexing(draft)
                \/ HasOpen(job, DocOf(r), {"indexing"}, 0),
         TypeOf(r) = "text_extraction" /\ DocOf(r) \in Scanned =>
           \E i \in DOMAIN draft.new : draft.new[i].type = "ocr"
  PROVE  Indexes(r, Drafted(draft, Changed(run[r].seen, draft.doc) \cup flushed,
                            new_pages, new_chunks))
<1> DEFINE columns == Changed(run[r].seen, draft.doc) \cup flushed
           out == Drafted(draft, columns, new_pages, new_chunks)
<1>1. DocOf(r) \in Docs /\ run[r].seen \in DocRows
  BY TaskJob
<1>2. Write(run[r].seen, columns, draft.doc) = draft.doc
  BY <1>1, OutcomeOfDraft
<1>3. draft.doc.document_indexed = run[r].seen.document_indexed
        => "document_indexed" \notin columns
  BY DEF Changed
<1>4. /\ out.new = draft.new /\ out.chunks = new_chunks
      /\ out.columns = columns /\ out.doc = draft.doc
  BY DEF Drafted
<1> HIDE DEF columns, out
<1>5. AddsIndexing(out) <=> AddsIndexing(draft)
  BY <1>4 DEF AddsIndexing
<1>6. Indexes(r, out)
  BY <1>2, <1>3, <1>4, <1>5 DEF Indexes
<1> QED
  BY <1>6 DEF out, columns

\* The draft of process_text_extraction, once it has the text.
ExtractedRow(seen, text, by_ocr) ==
  [seen EXCEPT !.extracted_text = text, !.ocr_completed = by_ocr,
               !.processing_status = "processing"]

ExtractionDraft(row, rows, d, me, priority, c) ==
  IF d \in Scanned THEN Adding(row, New("ocr", d, OcrPriority(priority)))
  ELSE SuggestOrFinish(Plain(row), rows, d, me, priority, c)

LEMMA ExtractedRowFacts ==
  ASSUME NEW seen \in DocRows, NEW text \in {"native", "ocr"},
         NEW by_ocr \in BOOLEAN, NEW row,
         row = ExtractedRow(seen, text, by_ocr)
  PROVE  /\ row \in DocRows /\ Keeps(row, seen)
         /\ row.extracted_text = text /\ row.ocr_completed = by_ocr
         /\ row.document_indexed = seen.document_indexed
  BY DEF ExtractedRow, DocRows, Keeps, ProcessingStatus

LEMMA ExtractionDraftFacts ==
  ASSUME NEW d \in Docs, NEW rows \in Seq(JobRow), NEW me,
         NEW priority \in Nat, NEW c \in BOOLEAN, NEW row \in DocRows,
         NEW end, end = ExtractionDraft(row, rows, d, me, priority, c)
  PROVE  /\ end \in DraftFor(d) /\ PartDone(end, row, rows, d, me)
         /\ KeepsIndex(end, row)
         /\ d \in Scanned =>
              \E i \in DOMAIN end.new : end.new[i].type = "ocr"
<1> DEFINE ocr == New("ocr", d, OcrPriority(priority))
<1>1. CASE d \in Scanned
  <2>1. OcrPriority(priority) \in Nat
    BY DEF OcrPriority
  <2>2. ocr \in JobFor(d) /\ ocr.type = "ocr"
    BY <2>1, NewJob DEF StepTypes
  <2> HIDE DEF ocr
  <2>3. end = Adding(row, ocr)
    BY <1>1 DEF ExtractionDraft, ocr
  <2>4. KeepsIndex(end, row)
    BY <2>2, <2>3, AddingKeepsIndex
  <2> QED
    BY <2>2, <2>3, <2>4, AddingDraft DEF PartDone, PreflightTypes
<1>2. CASE d \notin Scanned
  <2>1. end = SuggestOrFinish(Plain(row), rows, d, me, priority, c)
    BY <1>2 DEF ExtractionDraft
  <2> QED
    BY <1>2, <2>1, SuggestOrFinishPlain, SuggestOrFinishKeepsIndex
<1> QED
  BY <1>1, <1>2

LEMMA TextExtractionSettles ==
  ASSUME Shape, NEW r \in Runs, FinishTextExtraction(r)
  PROVE  \E out : Settles(r, out) /\ Sound(r, out) /\ Indexes(r, out)
<1> DEFINE d == DocOf(r)
           me == run[r].job
           seen == run[r].seen
           by_ocr == d \in Images
           text == IF d \in Images THEN "ocr" ELSE "native"
           row == ExtractedRow(seen, text, by_ocr)
           flushed == IF seen.processing_status # "processing"
                      THEN {"processing_status"} ELSE {}
           kept == IF d \in Images THEN "keep" ELSE "native"
           Draft(c) == ExtractionDraft(row, job, d, me, job[me].priority, c)
<1>1. /\ run[r].pc = "finish" /\ TypeOf(r) = "text_extraction"
      /\ d \in Docs /\ seen \in DocRows
      /\ job[me].priority \in Nat /\ job \in Seq(JobRow)
  BY TaskJob DEF FinishTextExtraction, Shape
<1>2. /\ text \in {"native", "ocr"} /\ by_ocr \in BOOLEAN
      /\ flushed \in SUBSET {"processing_status"}
      /\ kept \in Texts \cup {"keep"} /\ "keep" \in Texts \cup {"keep"}
  BY DEF Texts
<1>3. PICK c \in BOOLEAN :
        Prepare(r, TextOutcome(Draft(c), seen, flushed, kept))
  <2>1. [Plain(row) EXCEPT !.new =
           <<New("ocr", d, OcrPriority(job[me].priority))>>] =
        Adding(row, New("ocr", d, OcrPriority(job[me].priority)))
    BY DEF Plain, Adding
  <2> QED
    BY <2>1, ZenonT(40)
    DEF FinishTextExtraction, ExtractionDraft, ExtractedRow, Plain,
        TextOutcome
<1>4. Settles(r, Drafted(Draft(c), Changed(seen, Draft(c).doc) \cup flushed,
                         kept, "keep"))
  <2> HIDE DEF Draft, flushed, kept, seen
  <2>1. TextOutcome(Draft(c), seen, flushed, kept) =
        Drafted(Draft(c), Changed(seen, Draft(c).doc) \cup flushed, kept,
                "keep")
    BY OutcomeIsDrafted
  <2> QED
    BY <1>3, <2>1, DecidingSettles, Zenon
<1> HIDE DEF text, by_ocr, flushed, kept
<1>5. /\ row \in DocRows /\ Keeps(row, seen)
      /\ row.extracted_text = text /\ row.ocr_completed = by_ocr
      /\ row.document_indexed = seen.document_indexed
  <2> HIDE DEF seen
  <2>1. PICK end : end = ExtractedRow(seen, text, by_ocr)
    OBVIOUS
  <2>2. seen \in DocRows /\ text \in {"native", "ocr"} /\ by_ocr \in BOOLEAN
    BY <1>1, <1>2
  <2>3. /\ end \in DocRows /\ Keeps(end, seen)
        /\ end.extracted_text = text /\ end.ocr_completed = by_ocr
        /\ end.document_indexed = seen.document_indexed
    BY <2>1, <2>2, ExtractedRowFacts, Z3
  <2> QED
    BY <2>1, <2>3, Zenon
<1> HIDE DEF row
<1>6. /\ Draft(c) \in DraftFor(d) /\ PartDone(Draft(c), row, job, d, me)
      /\ KeepsIndex(Draft(c), row)
      /\ d \in Scanned =>
           \E i \in DOMAIN Draft(c).new : Draft(c).new[i].type = "ocr"
  <2>1. PICK end : end = Draft(c)
    OBVIOUS
  <2>2. PICK priority : priority = job[me].priority
    OBVIOUS
  <2>3. /\ d \in Docs /\ row \in DocRows /\ job \in Seq(JobRow)
        /\ priority \in Nat
    BY <1>1, <1>5, <2>2
  <2>4. end = ExtractionDraft(row, job, d, me, priority, c)
    BY <2>1, <2>2, Zenon
  <2> HIDE DEF d, me
  <2>5. /\ end \in DraftFor(d) /\ PartDone(end, row, job, d, me)
        /\ KeepsIndex(end, row)
        /\ d \in Scanned =>
             \E i \in DOMAIN end.new : end.new[i].type = "ocr"
    BY <2>3, <2>4, ExtractionDraftFacts
  <2> HIDE DEF Draft
  <2> QED
    BY <2>1, <2>5, Zenon
<1>7. /\ Keeps(Draft(c).doc, row)
      /\ Draft(c).doc.extracted_text = text
      /\ Draft(c).doc.ocr_completed = by_ocr
      /\ Waits(Draft(c).doc) => Others(r) \/ NewWork(Draft(c))
  BY <1>5, <1>6, PartDoneFacts DEF Others
<1>8. Keeps(Draft(c).doc, seen)
  BY <1>5, <1>7 DEF Keeps
<1>9. /\ text = TextBy(r) /\ TypeOf(r) \in Readers
      /\ kept = IF TypeOf(r) \in Readers /\ ~ByOcr(r) THEN "native"
                                                      ELSE "keep"
      /\ TypeOf(r) \in PreflightTypes
  BY <1>1 DEF TextBy, ByOcr, Readers, PreflightTypes, text, kept
<1>10. Gated(d, Draft(c).doc)
  BY <1>7, KindsAssumption DEF Gated, by_ocr
<1> HIDE DEF Draft
<1>11. Sound(r, Drafted(Draft(c), Changed(seen, Draft(c).doc) \cup flushed,
                        kept, "keep"))
  BY <1>1, <1>2, <1>6, <1>7, <1>8, <1>9, <1>10, SoundDraft
<1>12. /\ AddsIndexing(Draft(c)) => ~seen.inbox
       /\ Draft(c).doc.document_indexed = seen.document_indexed
  BY <1>5, <1>6 DEF KeepsIndex, Keeps
<1>13. Indexes(r, Drafted(Draft(c), Changed(seen, Draft(c).doc) \cup flushed,
                          kept, "keep"))
  BY <1>1, <1>2, <1>6, <1>8, <1>12, IndexesDraft
<1> QED
  BY <1>4, <1>11, <1>13

LEMMA ReadByOcrFacts ==
  ASSUME NEW seen \in DocRows
  PROVE  /\ ReadByOcr(seen) \in DocRows /\ Keeps(ReadByOcr(seen), seen)
         /\ ReadByOcr(seen).extracted_text = "ocr"
         /\ ReadByOcr(seen).processing_status = seen.processing_status
         /\ ~ReadByOcr(seen).document_indexed
  BY DEF ReadByOcr, DocRows, Keeps

LEMMA OcrSettles ==
  ASSUME Shape, NEW r \in Runs, FinishOcr(r)
  PROVE  \E out : Settles(r, out) /\ Sound(r, out) /\ Indexes(r, out)
<1> DEFINE d == DocOf(r)
           me == run[r].job
           seen == run[r].seen
           row == ReadByOcr(seen)
           priority == job[me].priority
           Part(c) == SuggestOrFinish(Plain(row), job, d, me, priority, c)
           Draft(c) == LibraryIndexing(Part(c), job, d, priority + 5)
<1>1. /\ run[r].pc = "finish" /\ TypeOf(r) = "ocr"
      /\ d \in Docs /\ seen \in DocRows
      /\ priority \in Nat /\ job \in Seq(JobRow)
  BY TaskJob DEF FinishOcr, Shape
<1>2. PICK c \in BOOLEAN : Prepare(r, ChunksOutcome(Draft(c), seen, "none"))
  BY Zenon DEF FinishOcr, ChunksOutcome, Plain
<1>3. row \in DocRows /\ Keeps(row, seen) /\ row.extracted_text = "ocr"
      /\ row.processing_status = seen.processing_status
      /\ ~row.document_indexed
  BY <1>1, ReadByOcrFacts
<1> HIDE DEF row
<1>4. /\ Part(c) \in DraftFor(d) /\ PartDone(Part(c), row, job, d, me)
      /\ KeepsIndex(Part(c), row)
  BY <1>1, <1>3, SuggestOrFinishPlain, SuggestOrFinishKeepsIndex
<1>5. /\ Draft(c) \in DraftFor(d) /\ Draft(c).doc = Part(c).doc
      /\ \A i \in DOMAIN Part(c).new :
           i \in DOMAIN Draft(c).new /\ Draft(c).new[i] = Part(c).new[i]
      /\ AddsIndexing(Draft(c)) => AddsIndexing(Part(c)) \/ ~Part(c).doc.inbox
      /\ ~Part(c).doc.inbox /\ ~Part(c).doc.document_indexed =>
           AddsIndexing(Draft(c)) \/ HasOpen(job, d, {"indexing"}, 0)
  <2>1. priority + 5 \in Nat
    BY <1>1
  <2> HIDE DEF Part
  <2>2. /\ Draft(c).doc = Part(c).doc
        /\ AddsIndexing(Draft(c)) => AddsIndexing(Part(c)) \/ ~Part(c).doc.inbox
        /\ ~Part(c).doc.inbox /\ ~Part(c).doc.document_indexed =>
             AddsIndexing(Draft(c)) \/ HasOpen(job, d, {"indexing"}, 0)
    BY <1>1, <1>4, <2>1, LibraryIndexingAsks
  <2>3. /\ Draft(c) \in DraftFor(d)
        /\ \A i \in DOMAIN Part(c).new :
             i \in DOMAIN Draft(c).new /\ Draft(c).new[i] = Part(c).new[i]
    BY <1>1, <1>4, <2>1, LibraryIndexingDraft
  <2> HIDE DEF Draft
  <2> QED
    BY <2>2, <2>3
<1> HIDE DEF Draft
<1>6. Settles(r, Drafted(Draft(c), Changed(seen, Draft(c).doc) \cup {},
                         "keep", "none"))
  <2> HIDE DEF seen
  <2>1. ChunksOutcome(Draft(c), seen, "none") =
          Drafted(Draft(c), Changed(seen, Draft(c).doc), "keep", "none")
    BY OutcomeIsDrafted
  <2>2. Changed(seen, Draft(c).doc) \cup {} = Changed(seen, Draft(c).doc)
    OBVIOUS
  <2> QED
    BY <1>2, <2>1, <2>2, DecidingSettles, Zenon
<1>7. /\ Keeps(Draft(c).doc, row)
      /\ Draft(c).doc.extracted_text = "ocr"
      /\ seen.processing_status = "failed" =>
           Draft(c).doc.processing_status = "failed"
      /\ Waits(Draft(c).doc) => Others(r) \/ NewWork(Part(c))
  <2> HIDE DEF Part
  <2> QED
    BY <1>3, <1>4, <1>5, PartDoneFacts DEF Others
<1>8. NewWork(Part(c)) => NewWork(Draft(c))
  BY <1>5 DEF NewWork
<1>9. Keeps(Draft(c).doc, seen)
  BY <1>3, <1>7 DEF Keeps
<1>10. /\ TypeOf(r) \in Readers /\ TypeOf(r) \in PreflightTypes /\ ByOcr(r)
       /\ TextBy(r) = "ocr"
       /\ "none" \in Texts \cup {"keep"} /\ "keep" \in Texts \cup {"keep"}
  BY <1>1 DEF TextBy, ByOcr, Readers, PreflightTypes, Texts
<1>11. Gated(d, Draft(c).doc)
  BY <1>7 DEF Gated
<1>12. Sound(r, Drafted(Draft(c), Changed(seen, Draft(c).doc) \cup {},
                        "keep", "none"))
  BY <1>1, <1>5, <1>7, <1>8, <1>9, <1>10, <1>11, SoundDraft
<1>13. /\ ~Draft(c).doc.document_indexed
       /\ AddsIndexing(Draft(c)) => ~seen.inbox
       /\ ~seen.inbox => \/ AddsIndexing(Draft(c))
                         \/ HasOpen(job, d, {"indexing"}, 0)
  <2> HIDE DEF Part
  <2>1. row.inbox = seen.inbox /\ Part(c).doc.inbox = row.inbox
    BY <1>3, <1>5, <1>7 DEF Keeps
  <2> QED
    BY <1>3, <1>4, <1>5, <2>1 DEF KeepsIndex
<1>14. Indexes(r, Drafted(Draft(c), Changed(seen, Draft(c).doc) \cup {},
                          "keep", "none"))
  BY <1>1, <1>5, <1>9, <1>10, <1>13, IndexesDraft
<1> QED
  BY <1>6, <1>12, <1>14

LEMMA NothingIndexes ==
  ASSUME NEW r, TypeOf(r) \in {"thumbnail", "metadata_suggestion"}
  PROVE  Indexes(r, NoOutcome)
<1>1. DOMAIN NoOutcome.new = {} /\ NoOutcome.columns = {}
      /\ NoOutcome.chunks = "keep"
  BY DEF NoOutcome
<1> QED
  BY <1>1 DEF Indexes, AddsIndexing

\* A handler that writes nothing.
LEMMA NothingIsSound ==
  ASSUME Shape, NEW r \in Runs, run[r].pc # "idle", TypeOf(r) \notin Readers,
         TypeOf(r) \in PreflightTypes => Others(r)
  PROVE  Sound(r, NoOutcome)
<1>1. DocOf(r) \in Docs /\ run[r].seen \in DocRows
  BY TaskJob
<1>2. /\ NoOutcome \in OutcomeFor(DocOf(r))
      /\ NoOutcome.columns = {} /\ NoOutcome.pages = "keep"
  BY <1>1, OutcomesFor DEF NoOutcome
<1>3. Write(run[r].seen, {}, NoOutcome.doc) = run[r].seen
  <2>1. Write(run[r].seen, {}, NoOutcome.doc) =
          [c \in Columns |-> run[r].seen[c]]
    BY DEF Write
  <2> QED
    BY <1>1, <2>1, ColumnNames DEF DocRows
<1> QED
  BY <1>2, <1>3 DEF Sound

LEMMA ThumbnailSettles ==
  ASSUME Shape, NEW r \in Runs, FinishThumbnail(r)
  PROVE  \E out : Settles(r, out) /\ Sound(r, out) /\ Indexes(r, out)
<1>1. /\ run[r].pc = "finish" /\ TypeOf(r) = "thumbnail"
      /\ Prepare(r, NoOutcome)
  BY DEF FinishThumbnail
<1>2. Settles(r, NoOutcome)
  BY <1>1, DecidingSettles
<1>3. Sound(r, NoOutcome)
  BY <1>1, NothingIsSound DEF Readers, PreflightTypes
<1> QED
  BY <1>1, <1>2, <1>3, NothingIndexes

IndexedRow(seen) ==
  [seen EXCEPT !.document_indexed = TRUE,
               !.processing_status =
                 IF seen.processing_status = "failed" THEN "failed"
                                                      ELSE "ready"]

LEMMA IndexedRowFacts ==
  ASSUME NEW seen \in DocRows
  PROVE  /\ IndexedRow(seen) \in DocRows /\ Keeps(IndexedRow(seen), seen)
         /\ IndexedRow(seen).extracted_text = seen.extracted_text
         /\ IndexedRow(seen).ocr_completed = seen.ocr_completed
         /\ seen.processing_status = "failed" =>
              IndexedRow(seen).processing_status = "failed"
         /\ ~Waits(IndexedRow(seen)) /\ IndexedRow(seen).document_indexed
<1> DEFINE status == IF seen.processing_status = "failed" THEN "failed"
                                                          ELSE "ready"
<1>1. /\ status \in ProcessingStatus \ PreparingStatuses
      /\ seen.processing_status = "failed" => status = "failed"
  BY DEF ProcessingStatus, PreparingStatuses
<1> HIDE DEF status
<1>2. IndexedRow(seen) = [seen EXCEPT !.document_indexed = TRUE,
                                      !.processing_status = status]
  BY DEF IndexedRow, status
<1> QED
  BY <1>1, <1>2 DEF DocRows, Keeps, Waits

LEMMA IndexingSettles ==
  ASSUME Shape, NEW r \in Runs, FinishIndexing(r)
  PROVE  \E out : Settles(r, out) /\ Sound(r, out) /\ Indexes(r, out)
<1> DEFINE seen == run[r].seen
           draft == Plain(IndexedRow(seen))
           read == run[r].read
<1>1. /\ run[r].pc = "finish" /\ TypeOf(r) = "indexing"
      /\ DocOf(r) \in Docs /\ seen \in DocRows /\ read \in Texts
  BY TaskJob DEF FinishIndexing
<1>2. Prepare(r, ChunksOutcome(draft, seen, read))
  BY Zenon DEF FinishIndexing, ChunksOutcome, Plain, IndexedRow
<1>3. /\ draft \in DraftFor(DocOf(r)) /\ draft.doc = IndexedRow(seen)
  BY <1>1, IndexedRowFacts, PlainDraft
<1>4. /\ Keeps(draft.doc, seen)
      /\ draft.doc.extracted_text = seen.extracted_text
      /\ draft.doc.ocr_completed = seen.ocr_completed
      /\ seen.processing_status = "failed" =>
           draft.doc.processing_status = "failed"
      /\ ~Waits(draft.doc) /\ draft.doc.document_indexed
  BY <1>1, <1>3, IndexedRowFacts
<1>9. ~AddsIndexing(draft)
  BY DEF AddsIndexing, Plain
<1> HIDE DEF draft
<1>5. Settles(r, Drafted(draft, Changed(seen, draft.doc) \cup {}, "keep",
                         read))
  <2> HIDE DEF seen, read
  <2>1. ChunksOutcome(draft, seen, read) =
          Drafted(draft, Changed(seen, draft.doc), "keep", read)
    BY OutcomeIsDrafted
  <2>2. Changed(seen, draft.doc) \cup {} = Changed(seen, draft.doc)
    OBVIOUS
  <2> QED
    BY <1>2, <2>1, <2>2, DecidingSettles, Zenon
<1>6. /\ TypeOf(r) \notin Readers /\ TypeOf(r) \notin PreflightTypes
      /\ read \in Texts \cup {"keep"} /\ "keep" \in Texts \cup {"keep"}
  BY <1>1 DEF Readers, PreflightTypes
<1>7. Gated(DocOf(r), seen) => Gated(DocOf(r), draft.doc)
  BY <1>4 DEF Gated
<1>8. Sound(r, Drafted(draft, Changed(seen, draft.doc) \cup {}, "keep", read))
  BY <1>1, <1>3, <1>4, <1>6, <1>7, SoundDraft
<1>10. Indexes(r, Drafted(draft, Changed(seen, draft.doc) \cup {}, "keep",
                          read))
  BY <1>1, <1>3, <1>4, <1>6, <1>9, IndexesDraft
<1> QED
  BY <1>5, <1>8, <1>10

\* A suggestion handler that has nothing left to do but mark the document.
LEMMA MarkingIsSound ==
  ASSUME Shape, NEW r \in Runs, run[r].pc # "idle",
         TypeOf(r) = "metadata_suggestion",
         NEW draft \in DraftFor(DocOf(r)),
         PartDone(draft, run[r].seen, job, DocOf(r), run[r].job),
         KeepsIndex(draft, run[r].seen)
  PROVE  /\ Sound(r, Outcome(draft, run[r].seen))
         /\ Indexes(r, Outcome(draft, run[r].seen))
<1>1. run[r].seen \in DocRows
  BY TaskJob
<1>2. /\ Keeps(draft.doc, run[r].seen)
      /\ draft.doc.extracted_text = run[r].seen.extracted_text
      /\ draft.doc.ocr_completed = run[r].seen.ocr_completed
      /\ run[r].seen.processing_status = "failed" =>
           draft.doc.processing_status = "failed"
      /\ Waits(draft.doc) => Others(r) \/ NewWork(draft)
  BY <1>1, PartDoneFacts DEF Others
<1>3. /\ TypeOf(r) \notin Readers /\ TypeOf(r) \in PreflightTypes
      /\ "keep" \in Texts \cup {"keep"}
  BY DEF Readers, PreflightTypes
<1>4. Gated(DocOf(r), run[r].seen) => Gated(DocOf(r), draft.doc)
  BY <1>2 DEF Gated
<1>5. Sound(r, Drafted(draft, Changed(run[r].seen, draft.doc) \cup {},
                       "keep", "keep"))
  BY <1>2, <1>3, <1>4, SoundDraft
<1>6. Changed(run[r].seen, draft.doc) \cup {} = Changed(run[r].seen, draft.doc)
  OBVIOUS
<1>7. Outcome(draft, run[r].seen) =
        Drafted(draft, Changed(run[r].seen, draft.doc), "keep", "keep")
  BY OutcomeIsDrafted
<1>8. Indexes(r, Drafted(draft, Changed(run[r].seen, draft.doc) \cup {},
                         "keep", "keep"))
  BY <1>2, <1>3, IndexesDraft DEF KeepsIndex
<1> QED
  BY <1>5, <1>6, <1>7, <1>8, Zenon

LEMMA MarkReadySettles ==
  ASSUME Shape, NEW r \in Runs, run[r].pc # "idle",
         TypeOf(r) = "metadata_suggestion",
         Decide(r, Outcome(MarkReady(Plain(run[r].seen), job, DocOf(r),
                                     run[r].job), run[r].seen))
  PROVE  \E out : Settles(r, out) /\ Sound(r, out) /\ Indexes(r, out)
<1> DEFINE draft == MarkReady(Plain(run[r].seen), job, DocOf(r), run[r].job)
<1>1. DocOf(r) \in Docs /\ run[r].seen \in DocRows /\ job \in Seq(JobRow)
  BY TaskJob DEF Shape
<1>2. /\ draft \in DraftFor(DocOf(r))
      /\ PartDone(draft, run[r].seen, job, DocOf(r), run[r].job)
      /\ KeepsIndex(draft, run[r].seen)
  BY <1>1, MarkReadyPlain, MarkReadyKeepsIndex
<1> HIDE DEF draft
<1>3. /\ Sound(r, Outcome(draft, run[r].seen))
      /\ Indexes(r, Outcome(draft, run[r].seen))
  BY <1>2, MarkingIsSound
<1>4. Settles(r, Outcome(draft, run[r].seen))
  BY DecidingSettles DEF draft
<1> QED
  BY <1>3, <1>4

\* The model is asked.
Asks(r) ==
  /\ run[r].pc = "check" /\ ~NeedsOcrFirst(DocOf(r), run[r].seen)
  /\ run' = [run EXCEPT ![r].pc = "ask"]
  /\ UNCHANGED <<job, doc, pages, chunks, ocr_gate, api, left>>

LEMMA CheckSettles ==
  ASSUME Shape, NEW r \in Runs, CheckSuggestion(r)
  PROVE  \/ \E out : Settles(r, out) /\ Sound(r, out) /\ Indexes(r, out)
         \/ Asks(r)
<1> DEFINE d == DocOf(r)
           me == run[r].job
           seen == run[r].seen
           ocr == New("ocr", d, job[me].priority - 5)
<1>1. /\ run[r].pc = "check" /\ TypeOf(r) = "metadata_suggestion"
      /\ d \in Docs /\ seen \in DocRows /\ job[me] \in JobRow
  BY TaskJob DEF CheckSuggestion
<1>2. CASE OpenJobs(job, d, {"ocr"}, me) # {}
  <2>1. Settles(r, NoOutcome)
    BY <1>2, DecidingSettles, Zenon DEF CheckSuggestion
  <2>2. Others(r)
    BY <1>2 DEF Others, HasOpen, OpenJobs, PreflightTypes
  <2>3. Sound(r, NoOutcome)
    BY <1>1, <2>2, NothingIsSound DEF Readers
  <2> QED
    BY <1>1, <2>1, <2>3, NothingIndexes
<1>3. CASE OpenJobs(job, d, {"ocr"}, me) = {} /\ NeedsOcrFirst(d, seen)
  <2>1. job[me].priority - 5 \in Nat
    BY <1>1 DEF JobRow, Row, TypeOf
  <2>2. ocr \in JobFor(d) /\ ocr.type = "ocr"
    BY <1>1, <2>1, NewJob DEF StepTypes
  <2>3. [Plain(seen) EXCEPT !.new = <<ocr>>] = Adding(seen, ocr)
    BY DEF Plain, Adding
  <2>4. Prepare(r, Outcome([Plain(seen) EXCEPT !.new = <<ocr>>], seen))
    BY <1>3, Zenon DEF CheckSuggestion, Plain
  <2> HIDE DEF ocr
  <2>5. Settles(r, Outcome(Adding(seen, ocr), seen))
    BY <2>3, <2>4, DecidingSettles, Zenon
  <2>6. /\ Adding(seen, ocr) \in DraftFor(d)
        /\ PartDone(Adding(seen, ocr), seen, job, d, me)
        /\ KeepsIndex(Adding(seen, ocr), seen)
    BY <1>1, <2>2, AddingDraft, AddingKeepsIndex DEF PartDone, PreflightTypes
  <2>7. /\ Sound(r, Outcome(Adding(seen, ocr), seen))
        /\ Indexes(r, Outcome(Adding(seen, ocr), seen))
    BY <1>1, <2>6, MarkingIsSound
  <2> QED
    BY <2>5, <2>7
<1>4. CASE OpenJobs(job, d, {"ocr"}, me) = {} /\ ~NeedsOcrFirst(d, seen)
  <2>1. \/ Decide(r, Outcome(MarkReady(Plain(seen), job, d, me), seen))
        \/ /\ run' = [run EXCEPT ![r].pc = "ask"]
           /\ UNCHANGED <<job, doc, pages, chunks, ocr_gate, api, left>>
    BY <1>4, Zenon DEF CheckSuggestion, Plain
  <2> QED
    BY <1>1, <1>4, <2>1, MarkReadySettles DEF Asks
<1> QED
  BY <1>2, <1>3, <1>4

\* A handler ends by asking the model, or by an outcome that is sound.
LEMMA FinishSettles ==
  ASSUME Shape, NEW r \in Runs, Finish(r)
  PROVE  /\ run[r].pc \in {"finish", "check", "ask"}
         /\ \/ \E out : Settles(r, out) /\ Sound(r, out) /\ Indexes(r, out)
            \/ Asks(r)
<1>1. run[r].pc \in {"finish", "check", "ask"}
  BY DEF Finish, FinishTextExtraction, FinishOcr, FinishThumbnail,
         FinishIndexing, CheckSuggestion, FinishSuggestion
<1>2. CASE FinishSuggestion(r)
  <2>1. /\ run[r].pc = "ask" /\ TypeOf(r) = "metadata_suggestion"
        /\ Decide(r, Outcome(MarkReady(Plain(run[r].seen), job, DocOf(r),
                                       run[r].job), run[r].seen))
    BY <1>2, TaskJob DEF FinishSuggestion, Plain
  <2> QED
    BY <1>1, <2>1, MarkReadySettles
<1> QED
  BY <1>1, <1>2, TextExtractionSettles, OcrSettles, ThumbnailSettles,
     IndexingSettles, CheckSettles DEF Finish

----------------------------------------------------------------------------
(* Type correctness.                                                       *)

LEMMA IdleTask ==
  /\ Idle \in Tasks /\ NoOutcome \in Outcomes /\ Idle.pc = "idle"
  /\ \A rows : TaskFits(Idle, rows)
<1>1. <<>> \in Seq(Row(Docs)) /\ {} \in SUBSET Columns
  BY EmptySeq
<1>2. NoOutcome \in Outcomes
  BY <1>1, DocumentRows DEF NoOutcome, Outcomes
<1> QED
  BY <1>2, DocumentRows DEF Idle, Tasks, Texts, TaskFits

\* Rows that are added or written keep a task's fit.
LEMMA FitsGrown ==
  ASSUME NEW t, NEW rows, NEW rows2, TaskFits(t, rows), Grows(rows, rows2)
  PROVE  TaskFits(t, rows2)
  BY DEF TaskFits, Grows

LEMMA GrowsSame ==
  ASSUME NEW rows \in Seq(JobRow)
  PROVE  Grows(rows, rows)
  BY DEF Grows

\* A step keeps the shape if it keeps each part of it.
LEMMA ShapeStep ==
  ASSUME Shape, Grows(job, job'), RestTyped', run' \in [Runs -> Tasks],
         \A r \in Runs : run'[r] = run[r] \/ TaskFits(run'[r], job')
  PROVE  Shape'
<1>1. ASSUME NEW r \in Runs
      PROVE  TaskFits(run'[r], job')
  <2>1. TaskFits(run[r], job')
    BY FitsGrown DEF Shape
  <2> QED
    BY <2>1
<1>2. job' \in Seq(JobRow)
  BY DEF Grows
<1> QED
  BY <1>1, <1>2 DEF Shape

\* A step of a task on the way, which leaves the tables of jobs alone.
LEMMA TaskMoves ==
  ASSUME Shape, NEW r \in Runs, NEW t \in Tasks,
         run' = [run EXCEPT ![r] = t], TaskFits(t, job), job' = job,
         RestTyped'
  PROVE  Shape'
<1>1. /\ run' \in [Runs -> Tasks]
      /\ \A q \in Runs : run'[q] = run[q] \/ TaskFits(run'[q], job')
  BY DEF Shape
<1>2. Grows(job, job')
  BY GrowsSame DEF Shape
<1> QED
  BY <1>1, <1>2, ShapeStep

LEMMA LoadShape ==
  ASSUME Shape, NEW r \in Runs, LoadDocument(r)
  PROVE  Shape'
<1> DEFINE t == [run[r] EXCEPT !.pc = FirstStep[TypeOf(r)],
                               !.seen = doc[DocOf(r)],
                               !.read = pages[DocOf(r)]]
<1>1. run[r].pc = "load" /\ run' = [run EXCEPT ![r] = t]
  BY DEF LoadDocument, Shape
<1>2. /\ run[r] \in Tasks /\ run[r].job \in DOMAIN job
      /\ TypeOf(r) \in StepTypes /\ DocOf(r) \in Docs
  BY <1>1, TaskJob
<1>3. /\ FirstStep[TypeOf(r)] \in {"clear", "finish", "check"}
      /\ FirstStep[TypeOf(r)] = "clear" <=> TypeOf(r) \in Readers
      /\ FirstStep[TypeOf(r)] = "check" <=> TypeOf(r) = "metadata_suggestion"
  BY <1>2 DEF FirstStep, StepTypes, Readers
<1>4. doc[DocOf(r)] \in DocRows /\ pages[DocOf(r)] \in Texts
  BY <1>2 DEF Shape, RestTyped
<1>5. t \in Tasks /\ t.job = run[r].job /\ t.pc = FirstStep[TypeOf(r)]
  BY <1>2, <1>3, <1>4 DEF Tasks
<1>6. TaskFits(t, job)
  <2> HIDE DEF t
  <2> QED
    BY <1>2, <1>3, <1>5 DEF TaskFits, TypeOf
<1>7. job' = job /\ RestTyped'
  BY DEF LoadDocument, Shape, RestTyped
<1> QED
  BY <1>1, <1>5, <1>6, <1>7, TaskMoves

\* The steps of a handler under way.
LEMMA HandlingShape ==
  ASSUME Shape, NEW r \in Runs,
         \/ ClearPages(r) \/ EnterOcr(r) \/ FirstPages(r) \/ LastPages(r)
         \/ FlushStatus(r) \/ HandlerRaises(r)
  PROVE  Shape'
<1>1. run[r].pc # "idle" /\ run[r] \in Tasks
  BY DEF Shape, ClearPages, EnterOcr, FirstPages, LastPages, FlushStatus,
         HandlerRaises
<1>2. DocOf(r) \in Docs /\ run[r].job \in DOMAIN job
  BY <1>1, TaskJob
<1>3. RestTyped'
  BY <1>1, <1>2 DEF Shape, RestTyped, ClearPages, EnterOcr, FirstPages,
     LastPages, FlushStatus, HandlerRaises, Texts
<1>4. job' = job
  BY DEF ClearPages, EnterOcr, FirstPages, LastPages, FlushStatus,
         HandlerRaises
<1>5. ASSUME FirstPages(r)
      PROVE  Shape'
  <2>1. run' = run /\ Grows(job, job')
    BY <1>4, <1>5, GrowsSame DEF FirstPages, Shape
  <2> QED
    BY <1>3, <2>1, ShapeStep DEF Shape
<1>6. ASSUME NEW pc \in {"enter", "ocr", "finish", "commit"},
             run' = [run EXCEPT ![r].pc = pc],
             pc \in {"enter", "ocr"} => TypeOf(r) \in Readers /\ ByOcr(r),
             pc = "finish" => TypeOf(r) # "metadata_suggestion",
             pc = "commit" => Decided(r)
      PROVE  Shape'
  <2> DEFINE t == [run[r] EXCEPT !.pc = pc]
  <2>1. run' = [run EXCEPT ![r] = t]
    BY <1>6
  <2>2. /\ t \in Tasks /\ t.pc = pc /\ t.job = run[r].job
        /\ t.out = run[r].out
    BY <1>1, <1>6 DEF Tasks
  <2> HIDE DEF t
  <2>3. TaskFits(t, job)
    BY <1>1, <1>2, <1>6, <2>2, TaskJob
    DEF TaskFits, TypeOf, DocOf, Decided, ByOcr
  <2> QED
    BY <1>3, <1>4, <2>1, <2>2, <2>3, TaskMoves
<1>7. CASE ClearPages(r)
  <2> DEFINE pc == IF TypeOf(r) = "ocr" \/ DocOf(r) \in Images
                   THEN "enter" ELSE "finish"
  <2>1. TypeOf(r) \in Readers
    BY <1>7, TaskJob DEF ClearPages
  <2>2. /\ pc \in {"enter", "finish"}
        /\ pc = "enter" => ByOcr(r)
        /\ TypeOf(r) # "metadata_suggestion"
    BY <2>1 DEF ByOcr, Readers
  <2>3. run' = [run EXCEPT ![r].pc = pc]
    BY <1>7 DEF ClearPages
  <2> HIDE DEF pc
  <2> QED
    BY <2>1, <2>2, <2>3, <1>6
<1>8. CASE EnterOcr(r) \/ LastPages(r)
  <2>1. /\ run[r].pc \in {"enter", "ocr"}
        /\ \E pc \in {"ocr", "finish"} : run' = [run EXCEPT ![r].pc = pc]
    BY <1>8 DEF EnterOcr, LastPages
  <2>2. TypeOf(r) \in Readers /\ ByOcr(r)
    BY <2>1, TaskJob
  <2>3. TypeOf(r) # "metadata_suggestion"
    BY <2>2 DEF Readers
  <2> QED
    BY <2>1, <2>2, <2>3, <1>6
<1>9. CASE FlushStatus(r)
  <2>1. run' = [run EXCEPT ![r].pc = "commit"] /\ Decided(r)
    BY <1>9 DEF FlushStatus, Decided
  <2> QED
    BY <2>1, <1>6
<1>10. CASE HandlerRaises(r)
  <2> DEFINE t == [Idle EXCEPT !.pc = "failed", !.job = run[r].job]
  <2>1. run' = [run EXCEPT ![r] = t]
    BY <1>10 DEF HandlerRaises
  <2>2. t \in Tasks /\ t.pc = "failed" /\ t.job = run[r].job
    BY <1>1, IdleTask DEF Tasks, Idle
  <2> HIDE DEF t
  <2>3. TaskFits(t, job)
    BY <1>2, <2>2 DEF TaskFits
  <2> QED
    BY <1>3, <1>4, <2>1, <2>2, <2>3, TaskMoves
<1> QED
  BY <1>5, <1>7, <1>8, <1>9, <1>10

LEMMA FinishShape ==
  ASSUME Shape, NEW r \in Runs, Finish(r)
  PROVE  Shape'
<1>1. run[r].pc # "idle"
  BY FinishSettles
<1>2. run[r] \in Tasks /\ run[r].job \in DOMAIN job /\ DocOf(r) \in Docs
  BY <1>1, TaskJob
<1>3. ASSUME NEW out, Settles(r, out), Sound(r, out)
      PROVE  Shape'
  <2>1. out \in OutcomeFor(DocOf(r)) /\ out \in Outcomes
    BY <1>2, <1>3, OutcomesFor DEF Sound
  <2>2. PICK pc \in {"flush", "commit"} :
          run' = [run EXCEPT ![r].pc = pc, ![r].out = out]
    BY <1>3 DEF Settles
  <2> DEFINE t == [run[r] EXCEPT !.pc = pc, !.out = out]
  <2>3. run' = [run EXCEPT ![r] = t]
    BY <2>2
  <2>4. t \in Tasks /\ t.pc = pc /\ t.out = out /\ t.job = run[r].job
    BY <1>2, <2>1 DEF Tasks
  <2> HIDE DEF t
  <2>5. TaskFits(t, job)
    BY <1>2, <2>1, <2>4 DEF TaskFits, DocOf
  <2>6. job' = job /\ RestTyped'
    BY <1>3 DEF Settles, Shape, RestTyped
  <2> QED
    BY <2>3, <2>4, <2>5, <2>6, TaskMoves
<1>4. CASE Asks(r)
  <2> DEFINE t == [run[r] EXCEPT !.pc = "ask"]
  <2>1. run' = [run EXCEPT ![r] = t] /\ run[r].pc = "check"
    BY <1>4 DEF Asks
  <2>2. t \in Tasks /\ t.pc = "ask" /\ t.job = run[r].job
    BY <1>2 DEF Tasks
  <2>3. TypeOf(r) = "metadata_suggestion"
    BY <2>1, TaskJob
  <2> HIDE DEF t
  <2>4. TaskFits(t, job)
    BY <1>2, <2>2, <2>3 DEF TaskFits, TypeOf
  <2>5. job' = job /\ RestTyped'
    BY <1>4 DEF Asks, Shape, RestTyped
  <2> QED
    BY <2>1, <2>2, <2>4, <2>5, TaskMoves
<1> QED
  BY <1>3, <1>4, FinishSettles

LEMMA ClaimShape ==
  ASSUME Shape, NEW r \in Runs, Claim(r)
  PROVE  Shape' /\ Grows(job, job')
<1>1. PICK j \in NextJob(job, doc, ActivePreflightDoc(job, doc)) :
        /\ job' = [job EXCEPT ![j] = ClaimRow(job[j])]
        /\ run' = [run EXCEPT ![r].pc = "load", ![r].job = j]
  BY DEF Claim
<1>2. j \in DOMAIN job
  BY DEF NextJob
<1>3. job[j] \in JobRow
  BY <1>2, LenProperties, ElementOfSeq DEF Shape
<1>4. Grows(job, job')
  <2>1. /\ ClaimRow(job[j]) \in JobRow
        /\ ClaimRow(job[j]).doc = job[j].doc
        /\ ClaimRow(job[j]).type = job[j].type
    BY <1>3, RowsStayJobs
  <2>2. <<>> \in Seq(JobRow)
    BY EmptySeq
  <2> QED
    BY <1>1, <1>2, <2>1, <2>2, RowWritten, AppendedGrows DEF Shape
<1> DEFINE t == [run[r] EXCEPT !.pc = "load", !.job = j]
<1>5. run' = [run EXCEPT ![r] = t]
  BY <1>1
<1>6. t \in Tasks /\ t.pc = "load" /\ t.job = j
  <2>1. j \in Nat
    BY <1>2, LenProperties DEF Shape
  <2> QED
    BY <2>1 DEF Tasks, Shape
<1> HIDE DEF t
<1>7. TaskFits(t, job')
  BY <1>2, <1>4, <1>6 DEF TaskFits, Grows
<1>8. /\ run' \in [Runs -> Tasks]
      /\ \A q \in Runs : run'[q] = run[q] \/ TaskFits(run'[q], job')
  BY <1>5, <1>6, <1>7 DEF Shape
<1>9. RestTyped'
  BY DEF Claim, Shape, RestTyped
<1> QED
  BY <1>4, <1>8, <1>9, ShapeStep

\* A task ends, with its row written and new ones added.
LEMMA EndShape ==
  ASSUME Shape, NEW r \in Runs, run[r].pc # "idle", RestTyped',
         NEW row \in {FailRow(job[run[r].job], FALSE),
                      Completed(job[run[r].job])},
         NEW new \in Seq(JobFor(DocOf(r))),
         job' = [job EXCEPT ![run[r].job] = row] \o new,
         run' = [run EXCEPT ![r] = Idle]
  PROVE  Shape' /\ Grows(job, job')
<1>1. /\ run[r].job \in DOMAIN job /\ job[run[r].job] \in JobRow
      /\ DocOf(r) \in Docs
  BY TaskJob
<1>2. /\ row \in JobRow /\ row.doc = job[run[r].job].doc
      /\ row.type = job[run[r].job].type
  <2> DEFINE old == job[run[r].job]
  <2>1. old \in JobRow
    BY <1>1
  <2> HIDE DEF old
  <2>2. /\ FailRow(old, FALSE) \in JobRow /\ Completed(old) \in JobRow
        /\ FailRow(old, FALSE).doc = old.doc /\ Completed(old).doc = old.doc
        /\ FailRow(old, FALSE).type = old.type
        /\ Completed(old).type = old.type
    BY <2>1, RowsStayJobs
  <2> QED
    BY <2>2 DEF old
<1>3. new \in Seq(JobRow)
  BY <1>1, JobRowIsRow, SeqMonotonic
<1>4. Grows(job, job')
  BY <1>1, <1>2, <1>3, RowWritten, AppendedGrows DEF Shape
<1>5. /\ run' \in [Runs -> Tasks]
      /\ \A q \in Runs : run'[q] = run[q] \/ TaskFits(run'[q], job')
  BY IdleTask DEF Shape
<1> QED
  BY <1>4, <1>5, ShapeStep

LEMMA CommitShape ==
  ASSUME Shape, NEW r \in Runs, Commit(r)
  PROVE  Shape' /\ Grows(job, job')
<1> DEFINE out == run[r].out
           d == DocOf(r)
<1>1. run[r].pc = "commit" /\ d \in Docs /\ out \in OutcomeFor(d)
  BY TaskJob DEF Commit, Decided
<1>2. /\ out.doc \in DocRows /\ out.new \in Seq(JobFor(d))
      /\ out.pages \in Texts \cup {"keep"}
      /\ out.chunks \in Texts \cup {"keep"}
  BY <1>1 DEF OutcomeFor
<1>3. Write(doc[d], out.columns, out.doc) \in DocRows
  BY <1>1, <1>2, WriteIsRow DEF Shape, RestTyped
<1>4. RestTyped'
  <2>1. doc' = [doc EXCEPT ![d] = Write(doc[d], out.columns, out.doc)]
    BY DEF Commit
  <2>2. pages' \in [Docs -> Texts] /\ chunks' \in [Docs -> Texts]
    <3>1. /\ pages' = IF out.pages = "keep" THEN pages
                      ELSE [pages EXCEPT ![d] = out.pages]
          /\ chunks' = IF out.chunks = "keep" THEN chunks
                       ELSE [chunks EXCEPT ![d] = out.chunks]
      BY DEF Commit
    <3> HIDE DEF out
    <3>2. pages' \in [Docs -> Texts]
      BY <1>2, <3>1 DEF Shape, RestTyped
    <3>3. chunks' \in [Docs -> Texts]
      BY <1>2, <3>1 DEF Shape, RestTyped
    <3> QED
      BY <3>2, <3>3
  <2> HIDE DEF out
  <2> QED
    BY <1>1, <1>3, <2>1, <2>2 DEF Shape, RestTyped, Commit
<1>5. /\ job' = [job EXCEPT ![run[r].job] = Completed(job[run[r].job])]
                  \o out.new
      /\ run' = [run EXCEPT ![r] = Idle]
  BY DEF Commit, Completed
<1> QED
  BY <1>1, <1>2, <1>4, <1>5, EndShape

Failed(row) == [row EXCEPT !.processing_status = "failed"]

\* What becomes of the document when a job has failed for good.
LEMMA FateFacts ==
  ASSUME NEW d \in Docs, NEW row \in DocRows, NEW rows \in Seq(JobRow),
         NEW type \in StepTypes
  PROVE  LET end == Fate(Plain(row), rows, d, type) IN
         /\ end \in DraftFor(d)
         /\ type = "metadata_suggestion" => PartDone(end, row, rows, d, 0)
         /\ type \in Readers => end.doc = Failed(row)
         /\ type \in {"thumbnail", "indexing"} => end.doc = row
<1> DEFINE end == Fate(Plain(row), rows, d, type)
<1>1. CASE type = "metadata_suggestion"
  <2>1. end = MarkReady(Plain(row), rows, d, 0)
    BY <1>1 DEF Fate, SoftFailTypes
  <2> QED
    BY <1>1, <2>1, MarkReadyPlain DEF Readers
<1>2. CASE type \in Readers
  <2>1. end = Plain(Failed(row))
    BY <1>2 DEF Fate, SoftFailTypes, PreflightTypes, Readers, Plain, Failed
  <2>2. Failed(row) \in DocRows
    BY DEF Failed, DocRows, ProcessingStatus
  <2> QED
    BY <1>2, <2>1, <2>2, PlainDraft DEF Readers
<1>3. CASE type \in {"thumbnail", "indexing"}
  <2>1. end = Plain(row)
    BY <1>3 DEF Fate, SoftFailTypes, PreflightTypes
  <2> QED
    BY <1>3, <2>1, PlainDraft DEF Readers
<1> QED
  BY <1>1, <1>2, <1>3 DEF StepTypes, Readers

\* The end of a failed job: its row, and the draft of the document's fate.
FailedRows(r) == [job EXCEPT ![run[r].job] = FailRow(job[run[r].job], FALSE)]

Ending(r) ==
  IF FailedRows(r)[run[r].job].status = "failed"
  THEN Fate(Plain(doc[DocOf(r)]), FailedRows(r), DocOf(r), TypeOf(r))
  ELSE Plain(doc[DocOf(r)])

LEMMA FailJobEnds ==
  ASSUME Shape, NEW r \in Runs, FailJob(r)
  PROVE  /\ run[r].pc = "failed" /\ Ending(r) \in DraftFor(DocOf(r))
         /\ doc' = [doc EXCEPT ![DocOf(r)] = Ending(r).doc]
         /\ job' = FailedRows(r) \o Ending(r).new
         /\ run' = [run EXCEPT ![r] = Idle]
         /\ UNCHANGED <<pages, chunks, ocr_gate, api, left>>
         /\ FailedRows(r) \in Seq(JobRow)
         /\ FailedRows(r)[run[r].job] = FailRow(job[run[r].job], FALSE)
         /\ doc[DocOf(r)] \in DocRows
<1>1. /\ run[r].pc = "failed"
      /\ doc' = [doc EXCEPT ![DocOf(r)] = Ending(r).doc]
      /\ job' = FailedRows(r) \o Ending(r).new
      /\ run' = [run EXCEPT ![r] = Idle]
      /\ UNCHANGED <<pages, chunks, ocr_gate, api, left>>
  BY DEF FailJob, Ending, FailedRows, Plain
<1>2. /\ run[r].job \in DOMAIN job /\ job[run[r].job] \in JobRow
      /\ DocOf(r) \in Docs /\ TypeOf(r) \in StepTypes
  BY <1>1, TaskJob
<1>3. doc[DocOf(r)] \in DocRows
  BY <1>2 DEF Shape, RestTyped
<1>4. /\ FailRow(job[run[r].job], FALSE) \in JobRow
      /\ FailRow(job[run[r].job], FALSE).doc = job[run[r].job].doc
      /\ FailRow(job[run[r].job], FALSE).type = job[run[r].job].type
  BY <1>2, RowsStayJobs
<1>5. FailedRows(r) \in Seq(JobRow)
  <2>1. /\ FailedRows(r) \in [DOMAIN job -> JobRow]
        /\ \A k \in DOMAIN job : FailedRows(r)[k].doc = job[k].doc
                                 /\ FailedRows(r)[k].type = job[k].type
    BY <1>2, <1>4, RowWritten DEF Shape, FailedRows
  <2>2. <<>> \in Seq(JobRow)
    BY EmptySeq
  <2>3. Grows(job, FailedRows(r))
    BY <2>1, <2>2, AppendedGrows DEF Shape
  <2> QED
    BY <2>3 DEF Grows
<1>6. FailedRows(r)[run[r].job] = FailRow(job[run[r].job], FALSE)
  BY <1>2 DEF FailedRows
<1>7. Ending(r) \in DraftFor(DocOf(r))
  <2>1. Plain(doc[DocOf(r)]) \in DraftFor(DocOf(r))
    BY <1>2, <1>3, PlainDraft
  <2>2. Fate(Plain(doc[DocOf(r)]), FailedRows(r), DocOf(r), TypeOf(r))
          \in DraftFor(DocOf(r))
    BY <1>2, <1>3, <1>5, FateFacts
  <2> QED
    BY <2>1, <2>2 DEF Ending
<1> QED
  BY <1>1, <1>3, <1>5, <1>6, <1>7

LEMMA FailJobShape ==
  ASSUME Shape, NEW r \in Runs, FailJob(r)
  PROVE  Shape' /\ Grows(job, job')
<1>1. /\ run[r].pc = "failed" /\ Ending(r) \in DraftFor(DocOf(r))
      /\ doc' = [doc EXCEPT ![DocOf(r)] = Ending(r).doc]
      /\ job' = FailedRows(r) \o Ending(r).new
      /\ run' = [run EXCEPT ![r] = Idle]
      /\ UNCHANGED <<pages, chunks, ocr_gate, api, left>>
  BY FailJobEnds
<1>2. DocOf(r) \in Docs
  BY <1>1, TaskJob
<1>3. Ending(r).doc \in DocRows /\ Ending(r).new \in Seq(JobFor(DocOf(r)))
  BY <1>1 DEF DraftFor
<1>4. RestTyped'
  BY <1>1, <1>2, <1>3 DEF Shape, RestTyped
<1> QED
  BY <1>1, <1>3, <1>4, EndShape DEF FailedRows

LEMMA RestartShape ==
  ASSUME Shape, Restart
  PROVE  Shape' /\ Grows(job, job')
<1> DEFINE mid == [j \in DOMAIN job |-> StartRow(job[j])]
<1>1. ASSUME NEW j \in DOMAIN job
      PROVE  /\ StartRow(job[j]) \in JobRow
             /\ StartRow(job[j]).doc = job[j].doc
             /\ StartRow(job[j]).type = job[j].type
  <2> DEFINE row == job[j]
  <2>1. row \in JobRow
    BY LenProperties, ElementOfSeq DEF Shape
  <2>2. StartRow(row) \in {row, RequeueRow(row), CancelTrashedRow(row),
                           CancelTrashedRow(RequeueRow(row))}
    BY DEF StartRow
  <2> HIDE DEF row
  <2>3. /\ StartRow(row) \in JobRow /\ StartRow(row).doc = row.doc
        /\ StartRow(row).type = row.type
    BY <2>1, <2>2, RowsStayJobs
  <2> QED
    BY <2>3 DEF row
<1>2. mid \in [DOMAIN job -> JobRow]
  BY <1>1
<1>3. \A j \in DOMAIN job : mid[j].doc = job[j].doc /\ mid[j].type = job[j].type
  BY <1>1
<1>4. job' = mid
  BY DEF Restart
<1> HIDE DEF mid
<1>5. <<>> \in Seq(JobRow)
  BY EmptySeq
<1>6. Grows(job, job')
  BY <1>2, <1>3, <1>4, <1>5, AppendedGrows DEF Shape
<1>7. /\ run' \in [Runs -> Tasks]
      /\ \A q \in Runs : TaskFits(run'[q], job')
  BY IdleTask DEF Restart
<1>8. RestTyped'
  BY DEF Restart, Spend, Shape, RestTyped
<1> QED
  BY <1>6, <1>7, <1>8, ShapeStep

\* Open jobs of d in rows of the given types are cancelled.
Cancelled(d, types) ==
  [j \in DOMAIN job |-> IF j \in OpenJobs(job, d, types, 0)
                        THEN CancelRow(job[j]) ELSE job[j]]

\* What a request does: it cancels jobs only to add such jobs, it makes the
\* document wait only with a job that reads its text, and of the other
\* columns that handlers write it only takes back that OCR is completed.
Answers(new_doc, types, new) ==
  LET seen == api.seen IN
  /\ new_doc \in DocRows /\ new \in Seq(JobFor(api.doc))
  /\ new_doc.exists = seen.exists
  /\ new_doc.extracted_text = seen.extracted_text
  /\ new_doc.ocr_completed => seen.ocr_completed
  /\ \/ new_doc.processing_status = seen.processing_status
     \/ /\ Waits(new_doc)
        /\ \E i \in DOMAIN new : new[i].type \in Readers
  /\ \A X \in {PreflightTypes, Readers} :
       types \cap X # {} => \E i \in DOMAIN new : new[i].type \in X
  /\ api.op # "trash" => (new_doc.is_trashed => seen.is_trashed)

Answered(new_doc, types, new) ==
  /\ api.op # "none"
  /\ doc' = [doc EXCEPT ![api.doc] =
               Write(doc[api.doc], Changed(api.seen, new_doc), new_doc)]
  /\ job' = Cancelled(api.doc, types) \o new
  /\ api' = NoRequest
  /\ UNCHANGED <<pages, run, ocr_gate, left>>

LEMMA NoJobs ==
  ASSUME NEW d \in Docs
  PROVE  <<>> \in Seq(JobFor(d)) /\ DOMAIN <<>> = {}
  BY EmptySeq

LEMMA OneJob ==
  ASSUME NEW d \in Docs, NEW a \in JobFor(d)
  PROVE  /\ <<a>> \in Seq(JobFor(d))
         /\ 1 \in DOMAIN <<a>> /\ <<a>>[1] = a
  OBVIOUS

LEMMA TwoJobs ==
  ASSUME NEW d \in Docs, NEW a \in JobFor(d), NEW b \in JobFor(d)
  PROVE  /\ <<a, b>> \in Seq(JobFor(d))
         /\ 1 \in DOMAIN <<a, b>> /\ <<a, b>>[1] = a
  OBVIOUS

\* The rows that requests write.
Moved(row, to_inbox) == [row EXCEPT !.inbox = @ \/ to_inbox,
                                    !.is_trashed = FALSE]
Trashed(row) == [row EXCEPT !.is_trashed = TRUE, !.inbox = FALSE]
Restored(row, to_inbox) == [row EXCEPT !.is_trashed = FALSE,
                                       !.inbox = to_inbox]
Processed(row) == [row EXCEPT !.inbox = FALSE]
Retried(row) == [row EXCEPT !.processing_status = "pending",
                            !.ocr_completed = FALSE]
Rescanned(row) == [row EXCEPT !.document_indexed = FALSE,
                              !.ocr_completed = FALSE,
                              !.processing_status = "processing"]

\* A row that differs only in where the document is.
Refiled(new, old) ==
  /\ new \in DocRows /\ new.exists = old.exists
  /\ new.extracted_text = old.extracted_text
  /\ new.ocr_completed = old.ocr_completed
  /\ new.processing_status = old.processing_status

LEMMA FilingRows ==
  ASSUME NEW row \in DocRows, NEW b \in BOOLEAN
  PROVE  /\ Refiled(row, row)
         /\ Refiled(Moved(row, b), row) /\ ~Moved(row, b).is_trashed
         /\ Refiled(Trashed(row), row)
         /\ Refiled(Restored(row, b), row) /\ ~Restored(row, b).is_trashed
         /\ Refiled(Processed(row), row)
         /\ Processed(row).is_trashed = row.is_trashed
<1>1. (row.inbox \/ b) \in BOOLEAN
  OBVIOUS
<1>2. Refiled(Moved(row, b), row) /\ ~Moved(row, b).is_trashed
  BY <1>1 DEF DocRows, Moved, Refiled
<1>3. /\ Refiled(row, row) /\ Refiled(Trashed(row), row)
      /\ Refiled(Restored(row, b), row) /\ ~Restored(row, b).is_trashed
      /\ Refiled(Processed(row), row)
      /\ Processed(row).is_trashed = row.is_trashed
  BY DEF DocRows, Trashed, Restored, Processed, Refiled
<1> QED
  BY <1>2, <1>3

LEMMA RetryRows ==
  ASSUME NEW row \in DocRows, NEW new \in {Retried(row), Rescanned(row)}
  PROVE  /\ new \in DocRows /\ new.exists = row.exists
         /\ new.extracted_text = row.extracted_text
         /\ ~new.ocr_completed /\ Waits(new)
         /\ new.is_trashed = row.is_trashed
  BY DEF DocRows, Retried, Rescanned, Waits, PreparingStatuses,
         ProcessingStatus

LEMMA RequestAnswers ==
  ASSUME Shape, Request
  PROVE  /\ chunks' \in [Docs -> Texts] /\ api.doc \in Docs
         /\ api.seen \in DocRows
         /\ \E new_doc, types, new :
              Answers(new_doc, types, new) /\ Answered(new_doc, types, new)
<1> DEFINE d == api.doc
           seen == api.seen
<1>1. api.op # "none"
  BY DEF Request, MoveDocument, TrashDocument, RestoreDocument,
         RetryPreflight, RetryOcr, ReprocessSuggestions, ProcessInbox, Respond
<1>2. d \in Docs /\ seen \in DocRows
  BY <1>1 DEF Shape, RestTyped
<1>3. chunks' \in [Docs -> Texts]
  BY <1>2 DEF Request, MoveDocument, TrashDocument, RestoreDocument,
     RetryPreflight, RetryOcr, ReprocessSuggestions, ProcessInbox, Shape,
     RestTyped, Texts
<1> SUFFICES \E new_doc, types, new :
               Answers(new_doc, types, new) /\ Answered(new_doc, types, new)
  BY <1>2, <1>3
<1>4. ASSUME NEW op, NEW new_doc, NEW types, NEW new,
             Respond(op, new_doc, types, new)
      PROVE  api.op = op /\ Answered(new_doc, types, new)
  BY <1>1, <1>4 DEF Respond, Answered, Cancelled
<1>5. ASSUME NEW op, NEW new_doc, Respond(op, new_doc, {}, <<>>),
             Refiled(new_doc, seen),
             op = "trash" \/ (new_doc.is_trashed => seen.is_trashed)
      PROVE  Answers(new_doc, {}, <<>>) /\ Answered(new_doc, {}, <<>>)
  BY <1>2, <1>4, <1>5, NoJobs DEF Answers, Refiled
<1>6. CASE MoveDocument
  <2>1. PICK to_inbox \in BOOLEAN :
          Respond("move", Moved(seen, to_inbox), {}, <<>>)
    BY <1>6 DEF MoveDocument, Moved
  <2> QED
    BY <1>2, <1>5, <2>1, FilingRows
<1>7. CASE TrashDocument
  <2>1. Respond("trash", Trashed(seen), {}, <<>>)
    BY <1>7 DEF TrashDocument, Trashed
  <2> QED
    BY <1>2, <1>5, <2>1, FilingRows
<1>8. CASE RestoreDocument
  <2>1. PICK to_inbox \in BOOLEAN :
          Respond("restore", Restored(seen, to_inbox), {}, <<>>)
    BY <1>8 DEF RestoreDocument, Restored
  <2> QED
    BY <1>2, <1>5, <2>1, FilingRows
<1>9. CASE RetryPreflight
  <2> DEFINE a == New("text_extraction", d, 50)
             b == New("thumbnail", d, 60)
  <2>1. Respond("retry_preflight", Retried(seen), PreflightTypes, <<a, b>>)
    BY <1>9 DEF RetryPreflight, Retried
  <2>2. /\ a \in JobFor(d) /\ a.type = "text_extraction"
        /\ b \in JobFor(d)
    BY <1>2, NewJob DEF StepTypes
  <2>3. <<a, b>> \in Seq(JobFor(d)) /\ 1 \in DOMAIN <<a, b>> /\ <<a, b>>[1] = a
    BY <1>2, <2>2, TwoJobs
  <2>4. PICK new : new = <<a, b>>
    OBVIOUS
  <2> HIDE DEF a, b
  <2>5. Answers(Retried(seen), PreflightTypes, new)
    BY <1>2, <2>2, <2>3, <2>4, RetryRows DEF Answers, PreflightTypes, Readers
  <2> QED
    BY <1>4, <2>1, <2>4, <2>5
<1>10. CASE RetryOcr
  <2> DEFINE a == New("ocr", d, 45)
  <2>1. Respond("retry_ocr", Rescanned(seen), {"ocr", "indexing"}, <<a>>)
    BY <1>10 DEF RetryOcr, Rescanned
  <2>2. a \in JobFor(d) /\ a.type = "ocr"
    BY <1>2, NewJob DEF StepTypes
  <2>3. <<a>> \in Seq(JobFor(d)) /\ 1 \in DOMAIN <<a>> /\ <<a>>[1] = a
    BY <1>2, <2>2, OneJob
  <2>4. PICK new : new = <<a>>
    OBVIOUS
  <2> HIDE DEF a
  <2>5. Answers(Rescanned(seen), {"ocr", "indexing"}, new)
    BY <1>2, <2>2, <2>3, <2>4, RetryRows DEF Answers, PreflightTypes, Readers
  <2> QED
    BY <1>4, <2>1, <2>4, <2>5
<1>11. CASE ReprocessSuggestions
  <2> DEFINE a == New("metadata_suggestion", d, 70)
             types == {"metadata_suggestion"}
  <2>1. Respond("reprocess_suggestions", seen, types, <<a>>)
    BY <1>11 DEF ReprocessSuggestions
  <2>2. a \in JobFor(d) /\ a.type = "metadata_suggestion"
    BY <1>2, NewJob DEF StepTypes
  <2>3. <<a>> \in Seq(JobFor(d)) /\ 1 \in DOMAIN <<a>> /\ <<a>>[1] = a
    BY <1>2, <2>2, OneJob
  <2>4. PICK new : new = <<a>>
    OBVIOUS
  <2> HIDE DEF a
  <2>5. Refiled(seen, seen)
    BY <1>2, FilingRows
  <2>6. types \cap Readers = {}
    BY DEF Readers
  <2>7. Answers(seen, types, new)
    BY <1>2, <2>2, <2>3, <2>4, <2>5, <2>6 DEF Answers, PreflightTypes, Refiled
  <2> QED
    BY <1>4, <2>1, <2>4, <2>7
<1>12. CASE ProcessInbox
  <2> DEFINE a == New("indexing", d, 40)
             new == IF seen.document_indexed THEN <<>> ELSE <<a>>
  <2>1. Respond("process", Processed(seen), {}, new)
    BY <1>12 DEF ProcessInbox, Processed
  <2>2. a \in JobFor(d)
    BY <1>2, NewJob DEF StepTypes
  <2>3. new \in Seq(JobFor(d))
    BY <1>2, <2>2, OneJob, NoJobs
  <2> HIDE DEF new
  <2>4. Answers(Processed(seen), {}, new)
    BY <1>2, <2>3, FilingRows DEF Answers, Refiled
  <2> QED
    BY <1>4, <2>1, <2>4
<1> QED
  BY <1>6, <1>7, <1>8, <1>9, <1>10, <1>11, <1>12 DEF Request

LEMMA CancelledRows ==
  ASSUME Shape, NEW d, NEW types
  PROVE  /\ Cancelled(d, types) \in [DOMAIN job -> JobRow]
         /\ \A j \in DOMAIN job :
              /\ Cancelled(d, types)[j].doc = job[j].doc
              /\ Cancelled(d, types)[j].type = job[j].type
              /\ ~(job[j].doc = d /\ job[j].type \in types) =>
                   Cancelled(d, types)[j] = job[j]
<1>1. ASSUME NEW j \in DOMAIN job
      PROVE  /\ CancelRow(job[j]) \in JobRow /\ job[j] \in JobRow
             /\ CancelRow(job[j]).doc = job[j].doc
             /\ CancelRow(job[j]).type = job[j].type
  <2> DEFINE row == job[j]
  <2>1. row \in JobRow
    BY LenProperties, ElementOfSeq DEF Shape
  <2> HIDE DEF row
  <2>2. /\ CancelRow(row) \in JobRow /\ CancelRow(row).doc = row.doc
        /\ CancelRow(row).type = row.type
    BY <2>1, RowsStayJobs
  <2> QED
    BY <2>1, <2>2 DEF row
<1>2. ASSUME NEW j \in DOMAIN job
      PROVE  Cancelled(d, types)[j] = IF j \in OpenJobs(job, d, types, 0)
                                      THEN CancelRow(job[j]) ELSE job[j]
  BY DEF Cancelled
<1>3. ASSUME NEW j \in DOMAIN job
      PROVE  /\ Cancelled(d, types)[j] \in JobRow
             /\ Cancelled(d, types)[j].doc = job[j].doc
             /\ Cancelled(d, types)[j].type = job[j].type
  BY <1>1, <1>2
<1>4. ASSUME NEW j \in DOMAIN job, ~(job[j].doc = d /\ job[j].type \in types)
      PROVE  Cancelled(d, types)[j] = job[j]
  BY <1>2, <1>4 DEF OpenJobs
<1>5. Cancelled(d, types) \in [DOMAIN job -> JobRow]
  BY <1>3 DEF Cancelled
<1> QED
  BY <1>3, <1>4, <1>5

LEMMA RequestShape ==
  ASSUME Shape, Request
  PROVE  Shape' /\ Grows(job, job')
<1>1. PICK new_doc, types, new :
        Answers(new_doc, types, new) /\ Answered(new_doc, types, new)
  BY RequestAnswers
<1>2. api.doc \in Docs /\ api.seen \in DocRows /\ chunks' \in [Docs -> Texts]
  BY RequestAnswers
<1>3. new \in Seq(JobRow) /\ new_doc \in DocRows
  BY <1>1, <1>2, JobRowIsRow, SeqMonotonic DEF Answers
<1>4. Grows(job, job')
  <2> DEFINE mid == Cancelled(api.doc, types)
  <2>1. /\ mid \in [DOMAIN job -> JobRow]
        /\ \A j \in DOMAIN job :
             mid[j].doc = job[j].doc /\ mid[j].type = job[j].type
    BY CancelledRows
  <2>2. job' = mid \o new
    BY <1>1 DEF Answered
  <2> HIDE DEF mid
  <2> QED
    BY <1>3, <2>1, <2>2, AppendedGrows DEF Shape
<1>5. RestTyped'
  <2>1. Write(doc[api.doc], Changed(api.seen, new_doc), new_doc) \in DocRows
    BY <1>2, <1>3, WriteIsRow DEF Shape, RestTyped
  <2>2. NoRequest.op = "none" /\ NoRequest.doc = NoDoc
        /\ NoRequest.seen \in DocRows
        /\ NoRequest \in [op : Operations \cup {"none"},
                          doc : Docs \cup {NoDoc}, seen : DocRows]
    BY DocumentRows DEF NoRequest
  <2> QED
    BY <1>1, <1>2, <2>1, <2>2 DEF Answered, Shape, RestTyped
<1>6. run' = run
  BY <1>1 DEF Answered
<1> QED
  BY <1>4, <1>5, <1>6, ShapeStep DEF Shape

LEMMA IngestShape ==
  ASSUME Shape, NEW d \in Docs, Ingest(d)
  PROVE  Shape' /\ Grows(job, job')
<1> DEFINE a == New("text_extraction", d, 50)
           b == New("thumbnail", d, 60)
           new == <<a, b>>
<1>1. a \in JobFor(d) /\ b \in JobFor(d)
  BY NewJob DEF StepTypes
<1>2. new \in Seq(JobRow)
  BY <1>1, JobRowIsRow
<1>3. job' = job \o new /\ run' = run
  BY DEF Ingest
<1>4. job \in [DOMAIN job -> JobRow]
  BY LenProperties DEF Shape
<1> HIDE DEF new
<1>5. Grows(job, job')
  BY <1>2, <1>3, <1>4, AppendedGrows DEF Shape
<1>6. RestTyped'
  BY DocumentRows DEF Ingest, Spend, Shape, RestTyped, Requests
<1> QED
  BY <1>3, <1>5, <1>6, ShapeStep DEF Shape

LEMMA LoadRequestShape ==
  ASSUME Shape, NEW d \in Docs, NEW op \in Operations, LoadRequest(op, d)
  PROVE  Shape'
<1>1. job' = job /\ run' = run
  BY DEF LoadRequest
<1>2. left' \in [Requests \cup {"crash"} -> Nat]
  <2>1. op \in Requests /\ left[op] \in Nat /\ left["any"] \in Nat
    BY DEF Requests, Shape, RestTyped
  <2>2. left' = [left EXCEPT ![op] = @ - 1, !["any"] = @ - 1]
        /\ left[op] > 0 /\ left["any"] > 0
    BY DEF LoadRequest, SpendRequest
  <2> DEFINE one == [left EXCEPT ![op] = left[op] - 1]
  <2>3. op # "any" /\ "any" \in Requests /\ left[op] - 1 \in Nat
        /\ left["any"] - 1 \in Nat
    BY <2>1, <2>2 DEF Operations, Requests
  <2>4. one \in [Requests \cup {"crash"} -> Nat] /\ one["any"] = left["any"]
    BY <2>1, <2>3 DEF Shape, RestTyped
  <2>5. left' = [one EXCEPT !["any"] = left["any"] - 1]
    BY <2>2, <2>4
  <2> HIDE DEF one
  <2> QED
    BY <2>3, <2>4, <2>5
<1>3. RestTyped'
  <2>1. api' = [op |-> op, doc |-> d, seen |-> doc[d]]
    BY DEF LoadRequest
  <2>2. doc[d] \in DocRows
    BY DEF Shape, RestTyped
  <2> QED
    BY <1>2, <2>1, <2>2 DEF LoadRequest, Shape, RestTyped
<1> QED
  BY <1>1, <1>3, GrowsSame, ShapeStep DEF Shape

LEMMA CancelShape ==
  ASSUME Shape, NEW j \in DOMAIN job, CancelJob(j)
  PROVE  Shape' /\ Grows(job, job')
<1>1. /\ CancelRow(job[j]) \in JobRow /\ CancelRow(job[j]).doc = job[j].doc
      /\ CancelRow(job[j]).type = job[j].type
  <2> DEFINE row == job[j]
  <2>1. row \in JobRow
    BY LenProperties, ElementOfSeq DEF Shape
  <2> HIDE DEF row
  <2> QED
    BY <2>1, RowsStayJobs DEF row
<1>2. <<>> \in Seq(JobRow)
  BY EmptySeq
<1>3. job' = [job EXCEPT ![j] = CancelRow(job[j])] /\ run' = run
  BY DEF CancelJob
<1>4. Grows(job, job')
  BY <1>1, <1>2, <1>3, RowWritten, AppendedGrows DEF Shape
<1>5. RestTyped'
  BY DEF CancelJob, SpendRequest, Shape, RestTyped, Requests
<1> QED
  BY <1>3, <1>4, <1>5, ShapeStep DEF Shape

LEMMA InitShape == Init => Shape
<1> SUFFICES ASSUME Init PROVE Shape
  OBVIOUS
<1>1. job \in Seq(JobRow)
  BY EmptySeq DEF Init
<1>2. run \in [Runs -> Tasks] /\ \A r \in Runs : TaskFits(run[r], job)
  BY IdleTask DEF Init
<1>3. RestTyped
  BY DocumentRows, BoundsAssumption
  DEF Init, RestTyped, NoRequest, Texts, Requests
<1> QED
  BY <1>1, <1>2, <1>3 DEF Shape

LEMMA NextShape == Shape /\ [Next]_vars => Shape'
<1> SUFFICES ASSUME Shape, [Next]_vars PROVE Shape'
  OBVIOUS
<1>1. ASSUME NEW r \in Runs, Claim(r) PROVE Shape'
  BY <1>1, ClaimShape
<1>2. ASSUME NEW r \in Runs, Task(r) PROVE Shape'
  BY <1>2, LoadShape, HandlingShape, FinishShape, CommitShape, FailJobShape
  DEF Task
<1>3. CASE Restart
  BY <1>3, RestartShape
<1>4. ASSUME NEW d \in Docs, Ingest(d) PROVE Shape'
  BY <1>4, IngestShape
<1>5. ASSUME NEW d \in Docs, NEW op \in Operations, LoadRequest(op, d)
      PROVE  Shape'
  BY <1>5, LoadRequestShape
<1>6. CASE Request
  BY <1>6, RequestShape
<1>7. ASSUME NEW j \in DOMAIN job, CancelJob(j) PROVE Shape'
  BY <1>7, CancelShape
<1>8. CASE UNCHANGED vars
  BY <1>8 DEF vars, Shape, RestTyped
<1> QED
  BY <1>1, <1>2, <1>3, <1>4, <1>5, <1>6, <1>7, <1>8 DEF Next

LEMMA SpecShape == Spec => []Shape
  BY InitShape, NextShape, PTL DEF Spec

\* The tables, the tasks and the request in flight keep their types under
\* any interleaving of handlers, requests and restarts: in particular a
\* task's job is in the table, and an outcome it will commit is well formed.
THEOREM PreflightTypeCorrect == Spec => []TypeOK
  BY SpecShape, ShapeIsTyped, PTL

----------------------------------------------------------------------------
(* What steps do to the open jobs of a document.                           *)

LEMMA OpenSurvives ==
  ASSUME Grows(job, job'), NEW types, NEW d, NEW me,
         HasOpen(job, d, types, me),
         \A j \in OpenJobs(job, d, types, me) : job'[j].status \in OpenStatuses
  PROVE  HasOpen(job', d, types, me)
  BY DEF HasOpen, OpenJobs, Grows

LEMMA OpenAdded ==
  ASSUME Grows(job, job'), NEW types, NEW d, NEW me \in {0} \cup DOMAIN job,
         NEW j \in DOMAIN job' \ DOMAIN job,
         job'[j].status = "queued", job'[j].doc = d, job'[j].type \in types
  PROVE  HasOpen(job', d, types, me)
<1>1. j # 0
  BY LenProperties DEF Grows
<1> QED
  BY <1>1 DEF HasOpen, OpenJobs, OpenStatuses

\* The open jobs that end a preparation, or that read the text, stay or are
\* replaced.
OpenStays ==
  \A types \in {PreflightTypes, Readers}, d \in Docs,
     me \in {0} \cup DOMAIN job :
    HasOpen(job, d, types, me) => HasOpen(job', d, types, me)

\* A job that reads the text of d is added.
AddsReader(d) ==
  \E j \in DOMAIN job' \ DOMAIN job :
    /\ job'[j].status = "queued" /\ job'[j].doc = d
    /\ job'[j].type \in Readers

LEMMA ReaderAdded ==
  ASSUME Grows(job, job'), NEW d, AddsReader(d),
         NEW me \in {0} \cup DOMAIN job
  PROVE  HasOpen(job', d, PreflightTypes, me) /\ HasOpen(job', d, Readers, me)
<1>1. Readers \subseteq PreflightTypes
  BY DEF Readers, PreflightTypes
<1> QED
  BY <1>1, OpenAdded DEF AddsReader

\* What others than a task may do to the row of d: the text stays, OCR is at
\* most taken back, and the document waits anew only for a job that reads it.
Revised(d, row, new) ==
  /\ new.exists = row.exists
  /\ new.extracted_text = row.extracted_text
  /\ new.ocr_completed => row.ocr_completed
  /\ \/ new.processing_status = row.processing_status
     \/ Waits(new) /\ AddsReader(d)

\* A step that is not a task's.
Outside ==
  /\ Grows(job, job') /\ (Uncancelled' => OpenStays)
  /\ \A d \in Docs : \/ Revised(d, doc[d], doc'[d])
                     \/ /\ ~doc[d].exists /\ AddsReader(d)
                        /\ Waits(doc'[d]) /\ ~doc'[d].ocr_completed
  /\ UNCHANGED <<pages, run>>

LEMMA AnswerRevises ==
  ASSUME Shape, NEW new_doc, NEW types, NEW new, api.op # "none",
         Answers(new_doc, types, new), api.doc \in Docs, api.seen \in DocRows,
         Grows(job, job'), job' = Cancelled(api.doc, types) \o new
  PROVE  LET row == doc[api.doc]
             end == Write(row, Changed(api.seen, new_doc), new_doc)
         IN /\ Revised(api.doc, row, end)
            /\ api.op # "trash" => (end.is_trashed => row.is_trashed)
<1> DEFINE seen == api.seen
           row == doc[api.doc]
           columns == Changed(seen, new_doc)
           end == Write(row, columns, new_doc)
<1>1. row \in DocRows /\ new_doc \in DocRows /\ seen \in DocRows
  BY DEF Shape, RestTyped, Answers
<1>2. \A c \in Columns :
        /\ c \in columns => end[c] = new_doc[c] /\ new_doc[c] # seen[c]
        /\ c \notin columns => end[c] = row[c] /\ new_doc[c] = seen[c]
  BY DEF Write, Changed
<1> HIDE DEF end, columns
<1>3. /\ end.exists = row.exists
      /\ end.extracted_text = row.extracted_text
      /\ end.ocr_completed => row.ocr_completed
      /\ api.op # "trash" => (end.is_trashed => row.is_trashed)
  BY <1>1, <1>2, ColumnNames DEF Answers, DocRows
<1>4. \/ end.processing_status = row.processing_status
      \/ Waits(end) /\ \E i \in DOMAIN new : new[i].type \in Readers
  BY <1>2, ColumnNames DEF Answers, Waits
<1>5. ASSUME NEW i \in DOMAIN new, new[i].type \in Readers
      PROVE  AddsReader(api.doc)
  <2>1. new \in Seq(JobFor(api.doc)) /\ new \in Seq(JobRow)
    BY JobRowIsRow, SeqMonotonic DEF Answers
  <2>2. new[i] \in JobFor(api.doc)
    BY <2>1, LenProperties, ElementOfSeq
  <2>3. PICK j \in DOMAIN job' : j \notin DOMAIN job /\ job'[j] = new[i]
    <3> DEFINE mid == Cancelled(api.doc, types)
    <3>1. mid \in [DOMAIN job -> JobRow]
      BY CancelledRows
    <3>2. job' = mid \o new
      OBVIOUS
    <3> HIDE DEF mid
    <3>3. AppendsTo(job, mid, new, job')
      BY <2>1, <3>1, <3>2, Appended DEF Shape
    <3> QED
      BY <3>3 DEF AppendsTo
  <2> QED
    BY <1>5, <2>2, <2>3 DEF AddsReader, JobFor
<1> QED
  BY <1>3, <1>4, <1>5 DEF Revised, end, columns

LEMMA AnswerKeepsOpen ==
  ASSUME Shape, NEW new_doc, NEW types, NEW new,
         Answers(new_doc, types, new), api.doc \in Docs,
         Grows(job, job'), job' = Cancelled(api.doc, types) \o new
  PROVE  /\ OpenStays
         /\ \A j \in DOMAIN job' \ DOMAIN job : job'[j].doc = api.doc
<1> DEFINE mid == Cancelled(api.doc, types)
<1>1. new \in Seq(JobFor(api.doc)) /\ new \in Seq(JobRow)
  BY JobRowIsRow, SeqMonotonic DEF Answers
<1>2. \A i \in DOMAIN new : new[i] \in JobFor(api.doc)
  BY <1>1, LenProperties, ElementOfSeq
<1>3. /\ mid \in [DOMAIN job -> JobRow]
      /\ \A j \in DOMAIN job :
           ~(job[j].doc = api.doc /\ job[j].type \in types) => mid[j] = job[j]
  BY CancelledRows
<1>4. job' = mid \o new
  OBVIOUS
<1> HIDE DEF mid
<1>5. /\ \A j \in DOMAIN job : job'[j] = mid[j]
      /\ \A i \in DOMAIN new : \E j \in DOMAIN job' :
           j \notin DOMAIN job /\ job'[j] = new[i]
      /\ \A j \in DOMAIN job' \ DOMAIN job :
           \E i \in DOMAIN new : job'[j] = new[i]
  <2>1. AppendsTo(job, mid, new, job')
    BY <1>1, <1>3, <1>4, Appended DEF Shape
  <2> QED
    BY <2>1 DEF AppendsTo
<1>6. \A j \in DOMAIN job' \ DOMAIN job : job'[j].doc = api.doc
  BY <1>2, <1>5 DEF JobFor
<1>7. ASSUME NEW X \in {PreflightTypes, Readers}, NEW d \in Docs,
             NEW me \in {0} \cup DOMAIN job, HasOpen(job, d, X, me)
      PROVE  HasOpen(job', d, X, me)
  <2>1. CASE d = api.doc /\ types \cap X # {}
    <3>1. PICK i \in DOMAIN new : new[i].type \in X
      BY <2>1 DEF Answers
    <3>2. PICK j \in DOMAIN job' : j \notin DOMAIN job /\ job'[j] = new[i]
      BY <1>5
    <3> QED
      BY <1>2, <2>1, <3>1, <3>2, OpenAdded DEF JobFor
  <2>2. CASE ~(d = api.doc /\ types \cap X # {})
    <3>1. \A j \in OpenJobs(job, d, X, me) : job'[j].status \in OpenStatuses
      BY <1>3, <1>5, <2>2 DEF OpenJobs
    <3> QED
      BY <1>7, <3>1, OpenSurvives
  <2> QED
    BY <2>1, <2>2
<1> QED
  BY <1>6, <1>7 DEF OpenStays

\* Jobs and requests are about documents that exist.
Existing ==
  /\ \A j \in DOMAIN job : doc[job[j].doc].exists
  /\ api.op # "none" => doc[api.doc].exists

LEMMA SameRow == \A d, row : Revised(d, row, row)
  BY DEF Revised

LEMMA RequestOutside ==
  ASSUME Shape, Existing, Request
  PROVE  /\ Outside /\ Existing' /\ left' = left /\ api'.op = "none"
         /\ api.op # "trash" =>
              \A d \in Docs : doc'[d].is_trashed => doc[d].is_trashed
<1>1. PICK new_doc, types, new :
        Answers(new_doc, types, new) /\ Answered(new_doc, types, new)
  BY RequestAnswers
<1>2. api.doc \in Docs /\ api.seen \in DocRows /\ Grows(job, job')
  BY RequestAnswers, RequestShape
<1> DEFINE end == Write(doc[api.doc], Changed(api.seen, new_doc), new_doc)
<1>3. /\ api.op # "none" /\ doc' = [doc EXCEPT ![api.doc] = end]
      /\ job' = Cancelled(api.doc, types) \o new
      /\ UNCHANGED <<pages, run, left>> /\ api'.op = "none"
  BY <1>1 DEF Answered, NoRequest
<1>4. /\ Revised(api.doc, doc[api.doc], end)
      /\ api.op # "trash" => (end.is_trashed => doc[api.doc].is_trashed)
  BY <1>1, <1>2, <1>3, AnswerRevises
<1>5. OpenStays /\ \A j \in DOMAIN job' \ DOMAIN job : job'[j].doc = api.doc
  BY <1>1, <1>2, <1>3, AnswerKeepsOpen
<1> HIDE DEF end
<1>6. \A d \in Docs : doc'[d] = IF d = api.doc THEN end ELSE doc[d]
  BY <1>2, <1>3 DEF Shape, RestTyped
<1>7. \A d \in Docs : Revised(d, doc[d], doc'[d])
  BY <1>4, <1>6, SameRow
<1>8. doc[api.doc].exists /\ end.exists
  BY <1>3, <1>4 DEF Existing, Revised
<1>9. \A d \in Docs : doc'[d].exists <=> doc[d].exists
  BY <1>6, <1>8
<1>10. Outside
  BY <1>2, <1>3, <1>5, <1>6, <1>7, <1>8, <1>9 DEF Outside
<1>11. \A j \in DOMAIN job' : doc'[job'[j].doc].exists
  <2>1. ASSUME NEW j \in DOMAIN job
        PROVE  doc'[job'[j].doc].exists
    <3>1. job[j].doc \in Docs /\ job'[j].doc = job[j].doc
      BY <1>2, ElementOfSeq, LenProperties DEF Shape, JobRow, Grows
    <3> QED
      BY <1>9, <3>1 DEF Existing
  <2> QED
    BY <2>1, <1>2, <1>5, <1>6, <1>8
<1> QED
  BY <1>3, <1>4, <1>6, <1>10, <1>11 DEF Existing

LEMMA IngestOutside ==
  ASSUME Shape, Existing, NEW d \in Docs, Ingest(d)
  PROVE  Outside /\ Existing'
         /\ \A e \in Docs : doc'[e].is_trashed => doc[e].is_trashed
<1> DEFINE a == New("text_extraction", d, 50)
           b == New("thumbnail", d, 60)
           new == <<a, b>>
<1>1. /\ a \in JobFor(d) /\ b \in JobFor(d)
      /\ a.type = "text_extraction"
  BY NewJob DEF StepTypes
<1> HIDE DEF a, b
<1>2. /\ new \in Seq(JobRow) /\ 1 \in DOMAIN new /\ new[1] = a
      /\ \A i \in DOMAIN new : new[i] \in JobFor(d)
  BY <1>1, JobRowIsRow
<1>3. job' = job \o new /\ UNCHANGED <<pages, run, api>>
  BY DEF Ingest, a, b
<1> HIDE DEF new
<1>4. Grows(job, job')
  BY IngestShape
<1>5. AppendsTo(job, job, new, job')
  <2>1. job \in [DOMAIN job -> JobRow] /\ job \in Seq(JobRow)
    BY LenProperties DEF Shape
  <2> QED
    BY <1>2, <1>3, <2>1, Appended
<1>6. AddsReader(d)
  BY <1>1, <1>2, <1>5 DEF AppendsTo, AddsReader, JobFor, Readers
<1>7. \A j \in DOMAIN job' \ DOMAIN job : job'[j].doc = d
  BY <1>2, <1>5 DEF AppendsTo, JobFor
<1>8. \A j \in DOMAIN job : job'[j] = job[j]
  BY <1>5 DEF AppendsTo
<1>9. OpenStays
  BY <1>4, <1>8, OpenSurvives DEF OpenStays, OpenJobs
<1>10. /\ ~doc[d].exists /\ doc'[d].exists /\ ~doc'[d].is_trashed
       /\ Waits(doc'[d]) /\ ~doc'[d].ocr_completed
       /\ \A e \in Docs \ {d} : doc'[e] = doc[e]
  BY DEF Ingest, NewDoc, Shape, RestTyped, Waits, PreparingStatuses
<1>11. Outside
  BY <1>3, <1>4, <1>6, <1>7, <1>9, <1>10, SameRow DEF Outside
<1>12. \A j \in DOMAIN job : job[j].doc \in Docs
  BY ElementOfSeq, LenProperties DEF Shape, JobRow
<1>13. Existing'
  <2>1. \A e \in Docs : doc[e].exists => doc'[e].exists
    BY <1>10
  <2>2. \A j \in DOMAIN job : doc'[job[j].doc].exists
    BY <1>12, <2>1 DEF Existing
  <2>3. \A j \in DOMAIN job' : doc'[job'[j].doc].exists
    BY <1>7, <1>8, <1>10, <2>2
  <2>4. api'.op # "none" => doc'[api'.doc].exists
    BY <1>3, <2>1 DEF Existing, Shape, RestTyped
  <2> QED
    BY <2>3, <2>4 DEF Existing
<1> QED
  BY <1>10, <1>11, <1>13

LEMMA LoadRequestOutside ==
  ASSUME Shape, Existing, NEW d \in Docs, NEW op \in Operations,
         LoadRequest(op, d)
  PROVE  Outside /\ Existing'
<1>1. /\ UNCHANGED <<job, doc, pages, run>> /\ doc[d].exists /\ api'.doc = d
  BY DEF LoadRequest
<1>2. Grows(job, job') /\ OpenStays
  BY <1>1, GrowsSame DEF Shape, OpenStays
<1>3. Outside
  <2>1. \A e \in Docs : Revised(e, doc[e], doc'[e])
    BY <1>1, SameRow
  <2>2. DOMAIN job' \ DOMAIN job = {}
    BY <1>1
  <2>3. \A e \in Docs : doc'[e].exists => doc[e].exists
    BY <1>1
  <2> QED
    BY <1>1, <1>2, <2>1, <2>2, <2>3 DEF Outside
<1> QED
  BY <1>1, <1>3 DEF Existing

\* A cancellation is a use of the bound that Uncancelled looks at.
LEMMA CancelOutside ==
  ASSUME Shape, Existing, left["cancel"] <= MaxRequests["cancel"],
         NEW j \in DOMAIN job, CancelJob(j)
  PROVE  Outside /\ Existing' /\ ~Uncancelled'
<1>1. UNCHANGED <<doc, pages, run, api>> /\ Grows(job, job')
  BY CancelShape DEF CancelJob
<1>2. DOMAIN job' = DOMAIN job
  BY DEF CancelJob
<1>3. left'["cancel"] = left["cancel"] - 1
  <2>1. left' = [left EXCEPT !["cancel"] = left["cancel"] - 1,
                             !["any"] = left["any"] - 1]
    BY DEF CancelJob, SpendRequest
  <2> QED
    BY <2>1 DEF Shape, RestTyped, Requests
<1>4. ~Uncancelled'
  <2>1. left["cancel"] \in Nat /\ MaxRequests["cancel"] \in Nat
    BY BoundsAssumption DEF Shape, RestTyped, Requests
  <2> QED
    BY <1>3, <2>1 DEF Uncancelled
<1>5. Outside
  <2>1. \A e \in Docs : Revised(e, doc[e], doc'[e])
    BY <1>1, SameRow
  <2>2. DOMAIN job' \ DOMAIN job = {}
    BY <1>2
  <2>3. \A e \in Docs : doc'[e].exists => doc[e].exists
    BY <1>1
  <2> QED
    BY <1>1, <1>4, <2>1, <2>2, <2>3 DEF Outside
<1>6. Existing'
  BY <1>1, <1>2 DEF Existing, Grows
<1> QED
  BY <1>4, <1>5, <1>6

----------------------------------------------------------------------------
(* The invariant of a worker with one task (JOB_CONCURRENCY = 1).          *)

OneTask == \A r, s \in Runs : r = s

\* What the session of a handler has loaded is still so, but for what others
\* may do (Revised).
SeenFits(r) ==
  LET d == DocOf(r)
      seen == run[r].seen
      row == doc[d]
  IN /\ seen.extracted_text = row.extracted_text
     /\ row.ocr_completed => seen.ocr_completed
     /\ Gated(d, seen)
     /\ row.processing_status = "failed" => seen.processing_status = "failed"
     /\ TypeOf(r) \in PreflightTypes /\ Uncancelled /\ Waits(row)
          => Waits(seen) \/ Others(r)

\* The row of its document as the commit of a handler will leave it.
Final(r) == Write(doc[DocOf(r)], run[r].out.columns, run[r].out.doc)

OutcomeFits(r) ==
  LET end == Final(r)
      row == doc[DocOf(r)]
      out == run[r].out
  IN /\ end.extracted_text =
          IF TypeOf(r) \in Readers THEN TextBy(r) ELSE row.extracted_text
     /\ out.pages = IF TypeOf(r) \in Readers /\ ~ByOcr(r) THEN "native"
                                                        ELSE "keep"
     /\ Gated(DocOf(r), end)
     /\ TypeOf(r) # "text_extraction" /\ row.processing_status = "failed"
          => end.processing_status = "failed"
     /\ TypeOf(r) \in PreflightTypes /\ Uncancelled /\ Waits(end)
          => Others(r) \/ NewWork(out)
     /\ TypeOf(r) \notin PreflightTypes /\ Waits(end) => Waits(row)

ReadingIsOpen(r) ==
  run[r].pc # "idle" /\ TypeOf(r) \in Readers /\ Uncancelled
    => HasOpen(job, DocOf(r), Readers, 0)

OcrPagesAreThere(r) ==
  (run[r].pc = "finish" \/ Decided(r)) /\ TypeOf(r) \in Readers /\ ByOcr(r)
    => pages[DocOf(r)] = "ocr"

AsksOnOcrText(r) ==
  run[r].pc = "ask" /\ DocOf(r) \in Scanned
    => run[r].seen.extracted_text = "ocr"

TaskInv(r) ==
  /\ Loaded(r) => SeenFits(r)
  /\ Decided(r) => OutcomeFits(r)
  /\ ReadingIsOpen(r) /\ OcrPagesAreThere(r) /\ AsksOnOcrText(r)

OneTaskInv ==
  /\ Existing
  /\ left["cancel"] <= MaxRequests["cancel"]
  /\ \A d \in Docs : Gated(d, doc[d])
  /\ \A r \in Runs : TaskInv(r)

\* What a step of others leaves as it is for a task.
LEMMA OutsideOfTask ==
  ASSUME Shape, Existing, Outside, Uncancelled' => Uncancelled, NEW r \in Runs,
         run[r].pc # "idle"
  PROVE  /\ run'[r] = run[r] /\ DocOf(r)' = DocOf(r) /\ TypeOf(r)' = TypeOf(r)
         /\ pages' = pages
         /\ Revised(DocOf(r), doc[DocOf(r)], doc'[DocOf(r)])
         /\ Uncancelled' =>
              /\ HasOpen(job, DocOf(r), Readers, 0)
                   => HasOpen(job', DocOf(r), Readers, 0)
              /\ Others(r) => Others(r)'
              /\ AddsReader(DocOf(r)) => Others(r)'
<1>1. run[r].job \in DOMAIN job /\ DocOf(r) \in Docs
  BY TaskJob
<1>2. /\ run'[r] = run[r] /\ pages' = pages
      /\ job'[run[r].job].doc = job[run[r].job].doc
      /\ job'[run[r].job].type = job[run[r].job].type
  BY <1>1 DEF Outside, Grows
<1>3. DocOf(r)' = DocOf(r) /\ TypeOf(r)' = TypeOf(r)
  BY <1>2 DEF DocOf, TypeOf
<1>4. doc[DocOf(r)].exists
  BY <1>1 DEF Existing, DocOf
<1>5. Revised(DocOf(r), doc[DocOf(r)], doc'[DocOf(r)])
  BY <1>1, <1>4 DEF Outside
<1>6. ASSUME Uncancelled'
      PROVE  /\ HasOpen(job, DocOf(r), Readers, 0)
                  => HasOpen(job', DocOf(r), Readers, 0)
             /\ Others(r) => Others(r)'
  <2>1. OpenStays
    BY <1>6 DEF Outside
  <2>2. \A types \in {PreflightTypes, Readers}, me \in {0} \cup DOMAIN job :
          HasOpen(job, DocOf(r), types, me)
            => HasOpen(job', DocOf(r), types, me)
    BY <1>1, <2>1 DEF OpenStays
  <2>3. HasOpen(job, DocOf(r), PreflightTypes, run[r].job)
          => HasOpen(job', DocOf(r), PreflightTypes, run[r].job)
    BY <1>1, <2>2
  <2>4. Others(r)' <=> HasOpen(job', DocOf(r), PreflightTypes, run[r].job)
    BY <1>2, <1>3 DEF Others
  <2> QED
    BY <2>2, <2>3, <2>4 DEF Others
<1>7. AddsReader(DocOf(r)) => Others(r)'
  <2>1. AddsReader(DocOf(r)) =>
          HasOpen(job', DocOf(r), PreflightTypes, run[r].job)
    BY <1>1, ReaderAdded DEF Outside
  <2> QED
    BY <1>2, <1>3, <2>1 DEF Others
<1> QED
  BY <1>2, <1>3, <1>5, <1>6, <1>7

LEMMA OutsideSeen ==
  ASSUME Shape, Existing, Outside, Uncancelled' => Uncancelled, NEW r \in Runs,
         run[r].pc # "idle", SeenFits(r)
  PROVE  SeenFits(r)'
<1> DEFINE d == DocOf(r)
           seen == run[r].seen
           row == doc[d]
           new == doc'[d]
<1>1. /\ run'[r] = run[r] /\ DocOf(r)' = d /\ TypeOf(r)' = TypeOf(r)
      /\ Revised(d, row, new)
      /\ Uncancelled' => /\ Others(r) => Others(r)'
                         /\ AddsReader(d) => Others(r)'
  BY OutsideOfTask
<1>2. /\ seen.extracted_text = new.extracted_text
      /\ new.ocr_completed => seen.ocr_completed
      /\ Gated(d, seen)
      /\ new.processing_status = "failed" => seen.processing_status = "failed"
  BY <1>1 DEF SeenFits, Revised, Waits, PreparingStatuses
<1>3. TypeOf(r) \in PreflightTypes /\ Uncancelled' /\ Waits(new)
        => Waits(seen) \/ Others(r)'
  BY <1>1 DEF SeenFits, Revised, Waits
<1> QED
  BY <1>1, <1>2, <1>3 DEF SeenFits

LEMMA OutsideOutcome ==
  ASSUME Shape, Existing, Outside, Uncancelled' => Uncancelled, NEW r \in Runs,
         Decided(r), OutcomeFits(r)
  PROVE  OutcomeFits(r)'
<1> DEFINE d == DocOf(r)
           out == run[r].out
           row == doc[d]
           new == doc'[d]
           end == Final(r)
           end2 == Write(new, out.columns, out.doc)
<1>1. run[r].pc # "idle"
  BY DEF Decided
<1>2. /\ run'[r] = run[r] /\ DocOf(r)' = d /\ TypeOf(r)' = TypeOf(r)
      /\ Revised(d, row, new)
      /\ Uncancelled' => /\ Others(r) => Others(r)'
                         /\ AddsReader(d) => Others(r)'
  BY <1>1, OutsideOfTask
<1>3. \A c \in Columns : \/ end2[c] = end[c]
                         \/ end[c] = row[c] /\ end2[c] = new[c]
  BY DEF Write, Final
<1>4. Final(r)' = end2 /\ ByOcr(r)' = ByOcr(r) /\ TextBy(r)' = TextBy(r)
  BY <1>2 DEF Final, ByOcr, TextBy
<1> HIDE DEF end, end2
<1>5. /\ new.extracted_text = row.extracted_text
      /\ new.ocr_completed => row.ocr_completed
      /\ \/ new.processing_status = row.processing_status
         \/ Waits(new) /\ AddsReader(d)
  BY <1>2 DEF Revised
<1>6. /\ end2.extracted_text = end.extracted_text
      /\ end2.ocr_completed => end.ocr_completed
      /\ \/ end2.processing_status = end.processing_status
         \/ /\ end.processing_status = row.processing_status
            /\ end2.processing_status = new.processing_status
  BY <1>3, <1>5, ColumnNames
<1>7. /\ end2.extracted_text =
           IF TypeOf(r) \in Readers THEN TextBy(r) ELSE new.extracted_text
      /\ out.pages = IF TypeOf(r) \in Readers /\ ~ByOcr(r) THEN "native"
                                                         ELSE "keep"
      /\ Gated(d, end2)
  BY <1>5, <1>6 DEF OutcomeFits, Gated, end
<1>8. TypeOf(r) # "text_extraction" /\ new.processing_status = "failed"
        => end2.processing_status = "failed"
  BY <1>5, <1>6 DEF OutcomeFits, Waits, PreparingStatuses, end
<1>9. TypeOf(r) \in PreflightTypes /\ Uncancelled' /\ Waits(end2)
        => Others(r)' \/ NewWork(out)
  BY <1>2, <1>5, <1>6 DEF OutcomeFits, Waits, end
<1>10. TypeOf(r) \notin PreflightTypes /\ Waits(end2) => Waits(new)
  BY <1>5, <1>6 DEF OutcomeFits, Waits, end
<1> QED
  BY <1>2, <1>4, <1>7, <1>8, <1>9, <1>10 DEF OutcomeFits

\* Others leave the invariant of a task alone.
LEMMA OutsideTask ==
  ASSUME Shape, Existing, Outside, Uncancelled' => Uncancelled, NEW r \in Runs,
         TaskInv(r)
  PROVE  TaskInv(r)'
<1>1. run'[r] = run[r] /\ Loaded(r)' = Loaded(r) /\ Decided(r)' = Decided(r)
  BY DEF Outside, Loaded, Decided
<1>2. CASE run[r].pc = "idle"
  BY <1>1, <1>2 DEF TaskInv, Loaded, Decided, ReadingIsOpen, OcrPagesAreThere,
     AsksOnOcrText
<1>3. CASE run[r].pc # "idle"
  <2>1. Loaded(r)' => SeenFits(r)'
    BY <1>1, <1>3, OutsideSeen DEF TaskInv
  <2>2. Decided(r)' => OutcomeFits(r)'
    BY <1>1, OutsideOutcome DEF TaskInv
  <2>3. /\ DocOf(r)' = DocOf(r) /\ TypeOf(r)' = TypeOf(r) /\ pages' = pages
        /\ Uncancelled' => (HasOpen(job, DocOf(r), Readers, 0)
                              => HasOpen(job', DocOf(r), Readers, 0))
    BY <1>3, OutsideOfTask
  <2>4. ReadingIsOpen(r)'
    BY <1>1, <2>3 DEF TaskInv, ReadingIsOpen
  <2>5. OcrPagesAreThere(r)' /\ AsksOnOcrText(r)'
    BY <1>1, <2>3 DEF TaskInv, OcrPagesAreThere, AsksOnOcrText, ByOcr
  <2> QED
    BY <2>1, <2>2, <2>4, <2>5 DEF TaskInv
<1> QED
  BY <1>2, <1>3

\* A task's own steps on the way to its outcome leave the tables alone but
\* for the pages.
LEMMA OwnStep ==
  ASSUME NEW r \in Runs, UNCHANGED <<job, doc, left>>,
         run'[r].job = run[r].job
  PROVE  /\ DocOf(r)' = DocOf(r) /\ TypeOf(r)' = TypeOf(r)
         /\ ByOcr(r)' = ByOcr(r) /\ TextBy(r)' = TextBy(r)
         /\ Others(r)' = Others(r) /\ Uncancelled' = Uncancelled
         /\ run'[r].seen = run[r].seen => SeenFits(r)' = SeenFits(r)
         /\ run'[r].out = run[r].out => OutcomeFits(r)' = OutcomeFits(r)
         /\ run[r].pc # "idle" /\ ReadingIsOpen(r) => ReadingIsOpen(r)'
<1>1. DocOf(r)' = DocOf(r) /\ TypeOf(r)' = TypeOf(r)
  BY DEF DocOf, TypeOf
<1>2. /\ ByOcr(r)' = ByOcr(r) /\ Others(r)' = Others(r)
      /\ Uncancelled' = Uncancelled
  BY <1>1, Zenon DEF ByOcr, Others, Uncancelled
<1>3. TextBy(r)' = TextBy(r)
  BY <1>2, Zenon DEF TextBy
<1>4. run'[r].seen = run[r].seen => SeenFits(r)' = SeenFits(r)
  BY <1>1, <1>2, Zenon DEF SeenFits
<1>5. run'[r].out = run[r].out => OutcomeFits(r)' = OutcomeFits(r)
  <2>1. run'[r].out = run[r].out => Final(r)' = Final(r)
    BY <1>1, Zenon DEF Final
  <2> QED
    BY <1>1, <1>2, <1>3, <2>1, Zenon DEF OutcomeFits
<1>6. run[r].pc # "idle" /\ ReadingIsOpen(r) => ReadingIsOpen(r)'
  BY <1>1, <1>2 DEF ReadingIsOpen
<1> QED
  BY <1>1, <1>2, <1>3, <1>4, <1>5, <1>6

LEMMA LoadTask ==
  ASSUME Shape, NEW r \in Runs, TaskInv(r), LoadDocument(r),
         \A d \in Docs : Gated(d, doc[d])
  PROVE  TaskInv(r)' /\ UNCHANGED <<job, doc, api, left>>
<1>1. /\ run[r].pc = "load" /\ UNCHANGED <<job, doc, pages, api, left>>
      /\ run' = [run EXCEPT ![r].pc = FirstStep[TypeOf(r)],
                            ![r].seen = doc[DocOf(r)],
                            ![r].read = pages[DocOf(r)]]
  BY DEF LoadDocument
<1>2. TypeOf(r) \in StepTypes /\ DocOf(r) \in Docs /\ run[r] \in Tasks
  BY <1>1, TaskJob
<1>3. /\ run'[r].pc = FirstStep[TypeOf(r)] /\ run'[r].job = run[r].job
      /\ run'[r].seen = doc[DocOf(r)]
  BY <1>1, <1>2 DEF Shape, Tasks
<1>4. /\ run'[r].pc \in {"clear", "finish", "check"}
      /\ TypeOf(r) \in Readers => run'[r].pc = "clear"
  BY <1>2, <1>3 DEF FirstStep, StepTypes, Readers
<1>5. /\ DocOf(r)' = DocOf(r) /\ TypeOf(r)' = TypeOf(r)
      /\ ReadingIsOpen(r)'
  BY <1>1, <1>3, OwnStep DEF TaskInv
<1>6. SeenFits(r)'
  BY <1>1, <1>2, <1>3, <1>5 DEF SeenFits
<1>7. ~Decided(r)' /\ OcrPagesAreThere(r)' /\ AsksOnOcrText(r)'
  BY <1>4, <1>5 DEF Decided, OcrPagesAreThere, AsksOnOcrText
<1> QED
  BY <1>1, <1>5, <1>6, <1>7 DEF TaskInv

\* A task goes on to another step.
MovesTo(r, pc) == run' = [run EXCEPT ![r].pc = pc]

LEMMA HandlingTask ==
  ASSUME Shape, NEW r \in Runs, TaskInv(r),
         \/ ClearPages(r) \/ EnterOcr(r) \/ FirstPages(r) \/ LastPages(r)
         \/ FlushStatus(r) \/ HandlerRaises(r)
  PROVE  TaskInv(r)' /\ UNCHANGED <<job, doc, api, left>>
<1>1. run[r].pc # "idle" /\ run[r] \in Tasks
  BY DEF Shape, ClearPages, EnterOcr, FirstPages, LastPages, FlushStatus,
         HandlerRaises
<1>2. UNCHANGED <<job, doc, api, left>>
  BY DEF ClearPages, EnterOcr, FirstPages, LastPages, FlushStatus,
         HandlerRaises
<1>3. DocOf(r) \in Docs /\ pages \in [Docs -> Texts]
  BY <1>1, TaskJob DEF Shape, RestTyped
<1>4. ASSUME NEW pc \in {"enter", "ocr", "finish", "commit"}, Loaded(r),
             MovesTo(r, pc),
             pc = "finish" /\ TypeOf(r) \in Readers /\ ByOcr(r)
               => pages'[DocOf(r)] = "ocr",
             pc = "commit" => Decided(r) /\ pages' = pages
      PROVE  TaskInv(r)'
  <2>1. /\ run'[r].pc = pc /\ run'[r].job = run[r].job
        /\ run'[r].seen = run[r].seen /\ run'[r].out = run[r].out
    BY <1>1, <1>4 DEF Shape, Tasks, MovesTo
  <2>2. /\ DocOf(r)' = DocOf(r) /\ TypeOf(r)' = TypeOf(r)
        /\ ByOcr(r)' = ByOcr(r)
        /\ SeenFits(r)' = SeenFits(r) /\ OutcomeFits(r)' = OutcomeFits(r)
        /\ ReadingIsOpen(r)'
    BY <1>1, <1>2, <2>1, OwnStep DEF TaskInv
  <2>3. SeenFits(r)'
    BY <1>4, <2>2 DEF TaskInv
  <2>4. Decided(r)' => OutcomeFits(r)'
    BY <1>4, <2>1, <2>2 DEF TaskInv, Decided
  <2>5. OcrPagesAreThere(r)'
    BY <1>4, <2>1, <2>2 DEF TaskInv, Decided, OcrPagesAreThere
  <2>6. AsksOnOcrText(r)'
    BY <1>4, <2>1 DEF AsksOnOcrText
  <2> QED
    BY <2>2, <2>3, <2>4, <2>5, <2>6 DEF TaskInv
<1>5. CASE ClearPages(r)
  <2> DEFINE pc == IF TypeOf(r) = "ocr" \/ DocOf(r) \in Images
                   THEN "enter" ELSE "finish"
  <2>1. run[r].pc = "clear" /\ MovesTo(r, pc)
    BY <1>5 DEF ClearPages, MovesTo
  <2>2. pc \in {"enter", "finish"} /\ (pc = "finish" => ~ByOcr(r))
    BY DEF ByOcr
  <2> HIDE DEF pc
  <2> QED
    BY <1>2, <1>4, <2>1, <2>2 DEF Loaded
<1>6. CASE EnterOcr(r)
  <2>1. run[r].pc = "enter" /\ MovesTo(r, "ocr")
    BY <1>6 DEF EnterOcr, MovesTo
  <2> QED
    BY <1>2, <1>4, <2>1 DEF Loaded
<1>7. CASE LastPages(r)
  <2>1. /\ run[r].pc = "ocr" /\ MovesTo(r, "finish")
        /\ pages'[DocOf(r)] = "ocr"
    BY <1>3, <1>7 DEF LastPages, MovesTo
  <2> QED
    BY <1>2, <1>4, <2>1 DEF Loaded
<1>8. CASE FlushStatus(r)
  BY <1>4, <1>8 DEF FlushStatus, Loaded, Decided, MovesTo
<1>9. CASE FirstPages(r)
  <2>1. run' = run /\ run[r].pc = "ocr"
    BY <1>9 DEF FirstPages
  <2>2. /\ SeenFits(r)' = SeenFits(r) /\ ReadingIsOpen(r)'
    BY <1>1, <1>2, <2>1, OwnStep DEF TaskInv
  <2> QED
    BY <1>2, <2>1, <2>2
    DEF TaskInv, Loaded, Decided, OcrPagesAreThere, AsksOnOcrText
<1>10. CASE HandlerRaises(r)
  <2>1. run'[r].pc = "failed" /\ run'[r].job = run[r].job
    BY <1>10 DEF HandlerRaises, Shape, Idle
  <2>2. ReadingIsOpen(r)'
    BY <1>1, <1>2, <2>1, OwnStep DEF TaskInv
  <2> QED
    BY <1>2, <2>1, <2>2
    DEF TaskInv, Loaded, Decided, OcrPagesAreThere, AsksOnOcrText
<1> QED
  BY <1>2, <1>5, <1>6, <1>7, <1>8, <1>9, <1>10

\* An outcome that is sound for the row its session has loaded fits the row
\* that it will be written to.
LEMMA SoundFits ==
  ASSUME Shape, NEW r \in Runs, run[r].pc # "idle", SeenFits(r),
         NEW out, Sound(r, out), NEW end,
         end = Write(doc[DocOf(r)], out.columns, out.doc)
  PROVE  /\ end.extracted_text =
              IF TypeOf(r) \in Readers THEN TextBy(r)
                                       ELSE doc[DocOf(r)].extracted_text
         /\ out.pages = IF TypeOf(r) \in Readers /\ ~ByOcr(r) THEN "native"
                                                            ELSE "keep"
         /\ Gated(DocOf(r), end)
         /\ TypeOf(r) # "text_extraction"
              /\ doc[DocOf(r)].processing_status = "failed"
              => end.processing_status = "failed"
         /\ TypeOf(r) \in PreflightTypes /\ Uncancelled /\ Waits(end)
              => Others(r) \/ NewWork(out)
         /\ TypeOf(r) \notin PreflightTypes /\ Waits(end)
              => Waits(doc[DocOf(r)])
<1> DEFINE seen == run[r].seen
           row == doc[DocOf(r)]
           view == Write(seen, out.columns, out.doc)
<1>1. \A c \in Columns :
        /\ c \in out.columns => end[c] = view[c]
        /\ c \notin out.columns => end[c] = row[c] /\ view[c] = seen[c]
  BY DEF Write
<1>2. /\ view.extracted_text =
           IF TypeOf(r) \in Readers THEN TextBy(r) ELSE seen.extracted_text
      /\ out.pages = IF TypeOf(r) \in Readers /\ ~ByOcr(r) THEN "native"
                                                         ELSE "keep"
      /\ Gated(DocOf(r), seen) => Gated(DocOf(r), view)
      /\ TypeOf(r) # "text_extraction" /\ seen.processing_status = "failed"
           => view.processing_status = "failed"
      /\ TypeOf(r) \in PreflightTypes /\ Waits(view)
           => Others(r) \/ NewWork(out)
      /\ TypeOf(r) \notin PreflightTypes /\ Waits(view)
           => "processing_status" \notin out.columns
  BY DEF Sound
<1> HIDE DEF view
<1>3. /\ seen.extracted_text = row.extracted_text
      /\ row.ocr_completed => seen.ocr_completed
      /\ Gated(DocOf(r), seen)
      /\ row.processing_status = "failed" => seen.processing_status = "failed"
      /\ TypeOf(r) \in PreflightTypes /\ Uncancelled /\ Waits(row)
           => Waits(seen) \/ Others(r)
  BY DEF SeenFits
<1>4. /\ end.extracted_text = view.extracted_text
      /\ end.ocr_completed => view.ocr_completed
      /\ \/ end.processing_status = view.processing_status
         \/ /\ end.processing_status = row.processing_status
            /\ view.processing_status = seen.processing_status
  BY <1>1, <1>3, ColumnNames
<1>5. Gated(DocOf(r), end)
  BY <1>2, <1>3, <1>4 DEF Gated
<1>6. TypeOf(r) # "text_extraction" /\ row.processing_status = "failed"
        => end.processing_status = "failed"
  BY <1>2, <1>3, <1>4
<1>7. TypeOf(r) \in PreflightTypes /\ Uncancelled /\ Waits(end)
        => Others(r) \/ NewWork(out)
  BY <1>2, <1>3, <1>4 DEF Waits
<1>8. TypeOf(r) \notin PreflightTypes /\ Waits(end) => Waits(row)
  BY <1>1, <1>2, ColumnNames DEF Waits
<1>9. end.extracted_text =
        IF TypeOf(r) \in Readers THEN TextBy(r) ELSE row.extracted_text
  BY <1>2, <1>3, <1>4
<1> QED
  BY <1>2, <1>5, <1>6, <1>7, <1>8, <1>9

LEMMA FinishTask ==
  ASSUME Shape, NEW r \in Runs, TaskInv(r), Finish(r)
  PROVE  TaskInv(r)' /\ UNCHANGED <<job, doc, api, left>>
<1>1. /\ run[r].pc \in {"finish", "check", "ask"}
      /\ (\E out : Settles(r, out) /\ Sound(r, out)) \/ Asks(r)
  BY FinishSettles
<1>2. /\ run[r] \in Tasks
      /\ TypeOf(r) \in Readers => run[r].pc = "finish"
      /\ Loaded(r) /\ SeenFits(r) /\ run[r].pc # "idle"
  BY <1>1, TaskJob DEF Readers, Loaded, TaskInv
<1>3. ASSUME NEW out, Settles(r, out), Sound(r, out)
      PROVE  TaskInv(r)' /\ UNCHANGED <<job, doc, api, left>>
  <2>1. /\ UNCHANGED <<job, doc, pages, api, left>>
        /\ run'[r].pc \in {"flush", "commit"} /\ run'[r].out = out
        /\ run'[r].job = run[r].job /\ run'[r].seen = run[r].seen
    BY <1>2, <1>3 DEF Settles, Shape, Tasks
  <2>2. /\ DocOf(r)' = DocOf(r) /\ TypeOf(r)' = TypeOf(r)
        /\ ByOcr(r)' = ByOcr(r) /\ TextBy(r)' = TextBy(r)
        /\ Others(r)' = Others(r) /\ Uncancelled' = Uncancelled
        /\ SeenFits(r)' = SeenFits(r) /\ ReadingIsOpen(r)'
    BY <1>2, <2>1, OwnStep DEF TaskInv
  <2>3. OutcomeFits(r)'
    <3> DEFINE end == Write(doc[DocOf(r)], out.columns, out.doc)
    <3>1. Final(r)' = end
      BY <2>1, <2>2 DEF Final
    <3>2. /\ end.extracted_text =
               IF TypeOf(r) \in Readers THEN TextBy(r)
                                        ELSE doc[DocOf(r)].extracted_text
          /\ out.pages = IF TypeOf(r) \in Readers /\ ~ByOcr(r) THEN "native"
                                                             ELSE "keep"
          /\ Gated(DocOf(r), end)
          /\ TypeOf(r) # "text_extraction"
               /\ doc[DocOf(r)].processing_status = "failed"
               => end.processing_status = "failed"
          /\ TypeOf(r) \in PreflightTypes /\ Uncancelled /\ Waits(end)
               => Others(r) \/ NewWork(out)
          /\ TypeOf(r) \notin PreflightTypes /\ Waits(end)
               => Waits(doc[DocOf(r)])
      BY <1>2, <1>3, SoundFits
    <3> HIDE DEF end
    <3> QED
      BY <2>1, <2>2, <3>1, <3>2 DEF OutcomeFits
  <2>4. OcrPagesAreThere(r)'
    BY <1>2, <2>1, <2>2 DEF TaskInv, OcrPagesAreThere
  <2>5. AsksOnOcrText(r)' /\ SeenFits(r)'
    BY <1>2, <2>1, <2>2 DEF AsksOnOcrText
  <2> QED
    BY <2>1, <2>2, <2>3, <2>4, <2>5 DEF TaskInv
<1>4. CASE Asks(r)
  <2>1. /\ UNCHANGED <<job, doc, pages, api, left>> /\ run[r].pc = "check"
        /\ run'[r].pc = "ask"
        /\ run'[r].job = run[r].job /\ run'[r].seen = run[r].seen
    BY <1>2, <1>4 DEF Asks, Shape, Tasks
  <2>2. /\ DocOf(r)' = DocOf(r) /\ TypeOf(r)' = TypeOf(r)
        /\ SeenFits(r)' = SeenFits(r) /\ ReadingIsOpen(r)'
    BY <1>2, <2>1, OwnStep DEF TaskInv
  <2>3. Gated(DocOf(r), run[r].seen)
    BY <1>2 DEF SeenFits
  <2>4. AsksOnOcrText(r)'
    BY <1>4, <2>1, <2>2, <2>3 DEF AsksOnOcrText, Asks, NeedsOcrFirst, Gated
  <2>5. SeenFits(r)' /\ ~Decided(r)' /\ OcrPagesAreThere(r)'
    BY <1>2, <2>1, <2>2 DEF Decided, OcrPagesAreThere
  <2> QED
    BY <2>1, <2>2, <2>4, <2>5 DEF TaskInv
<1> QED
  BY <1>1, <1>3, <1>4

----------------------------------------------------------------------------
(* Steps that begin or end a task, and the invariant.                      *)

LEMMA ExistingGrown ==
  ASSUME Shape, Existing, Grows(job, job'), api' = api,
         \A d \in Docs : doc[d].exists => doc'[d].exists,
         \A j \in DOMAIN job' \ DOMAIN job : doc'[job'[j].doc].exists
  PROVE  Existing'
<1>1. \A j \in DOMAIN job : job[j].doc \in Docs
  BY ElementOfSeq, LenProperties DEF Shape, JobRow
<1>2. \A j \in DOMAIN job' : doc'[job'[j].doc].exists
  BY <1>1 DEF Existing, Grows
<1>3. api'.op # "none" => doc'[api'.doc].exists
  BY DEF Existing, Shape, RestTyped
<1> QED
  BY <1>2, <1>3 DEF Existing

\* The bounds are only used up.
LEMMA LeftShrinks ==
  ASSUME Shape, [Next]_vars
  PROVE  \A what \in Requests \cup {"crash"} : left'[what] <= left[what]
<1> DEFINE All == Requests \cup {"crash"}
<1>1. left \in [All -> Nat]
  BY DEF Shape, RestTyped
<1>2. ASSUME left' = left
      PROVE  \A what \in All : left'[what] <= left[what]
  BY <1>1, <1>2
<1>3. ASSUME NEW w \in All, left' = [left EXCEPT ![w] = left[w] - 1]
      PROVE  \A what \in All : left'[what] <= left[what]
  BY <1>1, <1>3
<1>4. ASSUME NEW w \in All, SpendRequest(w)
      PROVE  \A what \in All : left'[what] <= left[what]
  <2>1. /\ "any" \in All
        /\ left' = [left EXCEPT ![w] = @ - 1, !["any"] = @ - 1]
    BY <1>4 DEF SpendRequest, Requests
  <2> HIDE DEF All
  <2> QED
    BY <1>1, <2>1
<1>5. CASE UNCHANGED vars
  BY <1>2, <1>5 DEF vars
<1>6. ASSUME NEW r \in Runs, Claim(r) \/ Task(r)
      PROVE  left' = left
  BY <1>6 DEF Claim, Task, LoadDocument, ClearPages, EnterOcr, FirstPages,
     LastPages, Finish, FinishTextExtraction, FinishOcr, FinishThumbnail,
     FinishIndexing, CheckSuggestion, FinishSuggestion, Decide, Prepare,
     FlushStatus, Commit, HandlerRaises, FailJob
<1>7. CASE Restart
  BY <1>3, <1>7 DEF Restart, Spend
<1>8. ASSUME NEW d \in Docs, Ingest(d)
      PROVE  \A what \in All : left'[what] <= left[what]
  <2>1. "ingest" \in All
    BY DEF Requests
  <2> QED
    BY <1>3, <1>8, <2>1 DEF Ingest, Spend
<1>9. ASSUME NEW d \in Docs, NEW op \in Operations, LoadRequest(op, d)
      PROVE  \A what \in All : left'[what] <= left[what]
  BY <1>4, <1>9 DEF LoadRequest, Requests
<1>10. CASE Request
  BY <1>2, <1>10 DEF Request, MoveDocument, TrashDocument, RestoreDocument,
     RetryPreflight, RetryOcr, ReprocessSuggestions, ProcessInbox, Respond
<1>11. ASSUME NEW j \in DOMAIN job, CancelJob(j)
       PROVE  \A what \in All : left'[what] <= left[what]
  BY <1>4, <1>11 DEF CancelJob, Requests
<1> QED
  BY <1>2, <1>5, <1>6, <1>7, <1>8, <1>9, <1>10, <1>11 DEF Next

LEMMA CancelBudget ==
  ASSUME Shape, [Next]_vars, left["cancel"] <= MaxRequests["cancel"]
  PROVE  /\ left'["cancel"] <= MaxRequests["cancel"]
         /\ Uncancelled' => Uncancelled
<1>1. /\ left["cancel"] \in Nat /\ left'["cancel"] \in Nat
      /\ MaxRequests["cancel"] \in Nat
  BY NextShape, BoundsAssumption DEF Shape, RestTyped, Requests
<1>2. left'["cancel"] <= left["cancel"]
  BY LeftShrinks DEF Requests
<1> QED
  BY <1>1, <1>2 DEF Uncancelled

LEMMA IdleTaskInv ==
  ASSUME NEW r \in Runs, run'[r].pc = "idle"
  PROVE  TaskInv(r)'
  BY DEF TaskInv, Loaded, Decided, ReadingIsOpen, OcrPagesAreThere,
     AsksOnOcrText

LEMMA ClaimTask ==
  ASSUME Shape, Existing, NEW r \in Runs, Claim(r)
  PROVE  TaskInv(r)' /\ Existing' /\ doc' = doc
<1>1. PICK j \in NextJob(job, doc, ActivePreflightDoc(job, doc)) :
        /\ job' = [job EXCEPT ![j] = ClaimRow(job[j])]
        /\ run' = [run EXCEPT ![r].pc = "load", ![r].job = j]
  BY DEF Claim
<1>2. j \in DOMAIN job /\ doc' = doc /\ api' = api
  BY DEF NextJob, Claim
<1>3. job[j] \in JobRow /\ j # 0
  BY <1>2, LenProperties, ElementOfSeq DEF Shape
<1>4. run'[r].pc = "load" /\ run'[r].job = j
  BY <1>1 DEF Shape, Tasks
<1>5. Grows(job, job') /\ DOMAIN job' = DOMAIN job
  BY <1>1, ClaimShape
<1>6. job'[j].status \in OpenStatuses
  BY <1>1, <1>2, <1>3, RowStatuses DEF OpenStatuses
<1>7. ReadingIsOpen(r)'
  <2>1. DocOf(r)' = job'[j].doc /\ TypeOf(r)' = job'[j].type
    BY <1>4 DEF DocOf, TypeOf
  <2>2. job'[j].type \in Readers => HasOpen(job', job'[j].doc, Readers, 0)
    BY <1>2, <1>3, <1>5, <1>6 DEF HasOpen, OpenJobs
  <2> QED
    BY <2>1, <2>2 DEF ReadingIsOpen
<1>8. Existing'
  BY <1>2, <1>5, ExistingGrown
<1> QED
  BY <1>2, <1>4, <1>7, <1>8
  DEF TaskInv, Loaded, Decided, OcrPagesAreThere, AsksOnOcrText

\* The table of jobs when a task has ended.
LEMMA EndJobs ==
  ASSUME Shape, NEW r \in Runs, run[r].pc # "idle",
         NEW row \in {FailRow(job[run[r].job], FALSE),
                      Completed(job[run[r].job])},
         NEW new \in Seq(JobFor(DocOf(r))), NEW mid,
         mid = [job EXCEPT ![run[r].job] = row], job' = mid \o new,
         Grows(job, job')
  PROVE  /\ job'[run[r].job] = row
         /\ \A j \in DOMAIN job : j # run[r].job => job'[j] = job[j]
         /\ \A j \in DOMAIN job' \ DOMAIN job :
              job'[j].doc = DocOf(r) /\ \E i \in DOMAIN new : job'[j] = new[i]
         /\ \A types : \A i \in DOMAIN new : new[i].type \in types =>
              HasOpen(job', DocOf(r), types, 0)
<1>1. /\ run[r].job \in DOMAIN job /\ job[run[r].job] \in JobRow
      /\ DocOf(r) \in Docs
  BY TaskJob
<1>2. row \in JobRow
  <2> DEFINE old == job[run[r].job]
  <2>1. old \in JobRow
    BY <1>1
  <2> HIDE DEF old
  <2>2. FailRow(old, FALSE) \in JobRow /\ Completed(old) \in JobRow
    BY <2>1, RowsStayJobs
  <2> QED
    BY <2>2 DEF old
<1>3. mid \in [DOMAIN job -> JobRow]
  <2>1. job \in [DOMAIN job -> JobRow]
    BY LenProperties DEF Shape
  <2> QED
    BY <1>1, <1>2, <2>1
<1>4. new \in Seq(JobRow) /\ \A i \in DOMAIN new : new[i] \in JobFor(DocOf(r))
  BY <1>1, JobRowIsRow, SeqMonotonic, LenProperties, ElementOfSeq
<1>5. AppendsTo(job, mid, new, job')
  BY <1>3, <1>4, Appended DEF Shape
<1>6. \A j \in DOMAIN job : job'[j] = mid[j]
  BY <1>5 DEF AppendsTo
<1>7. \A j \in DOMAIN job' \ DOMAIN job :
        job'[j].doc = DocOf(r) /\ \E i \in DOMAIN new : job'[j] = new[i]
  BY <1>4, <1>5 DEF AppendsTo, JobFor
<1>8. ASSUME NEW types, NEW i \in DOMAIN new, new[i].type \in types
      PROVE  HasOpen(job', DocOf(r), types, 0)
  <2>1. PICK j \in DOMAIN job' : j \notin DOMAIN job /\ job'[j] = new[i]
    BY <1>5 DEF AppendsTo
  <2> QED
    BY <1>4, <1>8, <2>1, OpenAdded DEF JobFor
<1> QED
  BY <1>1, <1>6, <1>7, <1>8

LEMMA CommitFacts ==
  ASSUME Shape, NEW r \in Runs, Commit(r), TaskInv(r)
  PROVE  /\ run[r].pc = "commit" /\ run'[r].pc = "idle" /\ DocOf(r) \in Docs
         /\ OutcomeFits(r) /\ OcrPagesAreThere(r) /\ Decided(r)
         /\ run[r].out \in OutcomeFor(DocOf(r))
         /\ doc' = [doc EXCEPT ![DocOf(r)] = Final(r)]
         /\ Final(r).exists = doc[DocOf(r)].exists
         /\ Final(r).is_trashed = doc[DocOf(r)].is_trashed
         /\ \A e \in Docs : pages'[e] =
              IF e = DocOf(r) /\ run[r].out.pages # "keep"
              THEN run[r].out.pages ELSE pages[e]
         /\ Grows(job, job') /\ api' = api /\ left' = left
         /\ job' = [job EXCEPT ![run[r].job] = Completed(job[run[r].job])]
                     \o run[r].out.new
<1>1. /\ run[r].pc = "commit" /\ Decided(r) /\ api' = api /\ left' = left
      /\ doc' = [doc EXCEPT ![DocOf(r)] = Final(r)]
      /\ run' = [run EXCEPT ![r] = Idle]
      /\ job' = [job EXCEPT ![run[r].job] = Completed(job[run[r].job])]
                  \o run[r].out.new
      /\ pages' = IF run[r].out.pages = "keep" THEN pages
                  ELSE [pages EXCEPT ![DocOf(r)] = run[r].out.pages]
  BY DEF Commit, Decided, Final, Completed
<1>2. DocOf(r) \in Docs /\ run[r].out \in OutcomeFor(DocOf(r))
  BY <1>1, TaskJob DEF Decided
<1>3. run[r].out.columns \subseteq Written
  BY <1>2 DEF OutcomeFor
<1>4. /\ Final(r).exists = doc[DocOf(r)].exists
      /\ Final(r).is_trashed = doc[DocOf(r)].is_trashed
  BY <1>3, ColumnNames DEF Final, Write, Written
<1>5. run'[r].pc = "idle"
  BY <1>1, IdleTask DEF Shape
<1>6. \A e \in Docs : pages'[e] =
        IF e = DocOf(r) /\ run[r].out.pages # "keep"
        THEN run[r].out.pages ELSE pages[e]
  BY <1>1, <1>2 DEF Shape, RestTyped
<1>7. Grows(job, job')
  BY CommitShape
<1>8. OutcomeFits(r) /\ OcrPagesAreThere(r)
  BY <1>1 DEF TaskInv
<1> QED
  BY <1>1, <1>2, <1>4, <1>5, <1>6, <1>7, <1>8

\* The document of a job that has ended in a failure.
LEMMA FailFacts ==
  ASSUME Shape, NEW r \in Runs, FailJob(r)
  PROVE  LET row == doc[DocOf(r)]
             end == Ending(r).doc
         IN /\ run[r].pc = "failed" /\ run'[r].pc = "idle" /\ DocOf(r) \in Docs
            /\ end \in DocRows /\ doc' = [doc EXCEPT ![DocOf(r)] = end]
            /\ Keeps(end, row)
            /\ end.extracted_text = row.extracted_text
            /\ end.ocr_completed = row.ocr_completed
            /\ row.processing_status = "failed"
                 => end.processing_status = "failed"
            /\ \/ end = row /\ FailedRows(r)[run[r].job].status # "failed"
               \/ end = row /\ TypeOf(r) \notin PreflightTypes
               \/ /\ TypeOf(r) = "metadata_suggestion"
                  /\ PartDone(Ending(r), row, FailedRows(r), DocOf(r), 0)
               \/ end.processing_status = "failed"
            /\ pages' = pages /\ api' = api /\ left' = left
            /\ Grows(job, job')
<1> DEFINE row == doc[DocOf(r)]
           fate == Fate(Plain(row), FailedRows(r), DocOf(r), TypeOf(r))
           end == Ending(r).doc
<1>1. /\ run[r].pc = "failed" /\ Ending(r) \in DraftFor(DocOf(r))
      /\ doc' = [doc EXCEPT ![DocOf(r)] = Ending(r).doc]
      /\ run' = [run EXCEPT ![r] = Idle]
      /\ UNCHANGED <<pages, api, left>>
      /\ FailedRows(r) \in Seq(JobRow) /\ row \in DocRows
  BY FailJobEnds
<1>2. DocOf(r) \in Docs /\ TypeOf(r) \in StepTypes
  BY <1>1, TaskJob
<1>3. run'[r].pc = "idle" /\ Grows(job, job') /\ end \in DocRows
  BY <1>1, IdleTask, FailJobShape DEF Shape, DraftFor
<1>4. /\ Plain(row).doc = row
      /\ Keeps(row, row)
  BY <1>1, <1>2, PlainDraft DEF Keeps
<1>5. CASE FailedRows(r)[run[r].job].status # "failed"
  <2>1. end = row
    BY <1>4, <1>5 DEF Ending
  <2> QED
    BY <1>1, <1>2, <1>3, <1>4, <1>5, <2>1
<1>6. CASE FailedRows(r)[run[r].job].status = "failed"
  <2>1. Ending(r) = fate
    BY <1>6 DEF Ending
  <2>2. /\ TypeOf(r) = "metadata_suggestion" =>
             PartDone(fate, row, FailedRows(r), DocOf(r), 0)
        /\ TypeOf(r) \in Readers => fate.doc = Failed(row)
        /\ TypeOf(r) \in {"thumbnail", "indexing"} => fate.doc = row
    BY <1>1, <1>2, FateFacts
  <2> HIDE DEF fate
  <2>3. CASE TypeOf(r) = "metadata_suggestion"
    <3>1. PartDone(Ending(r), row, FailedRows(r), DocOf(r), 0)
      BY <2>1, <2>2, <2>3
    <3>2. /\ Keeps(end, row) /\ end.extracted_text = row.extracted_text
          /\ end.ocr_completed = row.ocr_completed
          /\ row.processing_status = "failed"
               => end.processing_status = "failed"
      BY <1>1, <3>1, PartDoneFacts
    <3> QED
      BY <1>1, <1>2, <1>3, <2>3, <3>1, <3>2
  <2>4. CASE TypeOf(r) \in Readers
    <3>1. end = Failed(row)
      BY <2>1, <2>2, <2>4
    <3>2. /\ Keeps(end, row) /\ end.extracted_text = row.extracted_text
          /\ end.ocr_completed = row.ocr_completed
          /\ end.processing_status = "failed"
      BY <1>1, <3>1 DEF Failed, DocRows, Keeps
    <3> QED
      BY <1>1, <1>2, <1>3, <3>2
  <2>5. CASE TypeOf(r) \in {"thumbnail", "indexing"}
    <3>1. end = row /\ TypeOf(r) \notin PreflightTypes
      BY <2>1, <2>2, <2>5 DEF PreflightTypes
    <3> QED
      BY <1>1, <1>2, <1>3, <1>4, <3>1
  <2> QED
    BY <1>2, <2>3, <2>4, <2>5 DEF StepTypes, Readers
<1> QED
  BY <1>5, <1>6

LEMMA EndTask ==
  ASSUME Shape, NEW r \in Runs, TaskInv(r), Existing,
         \A d \in Docs : Gated(d, doc[d]), Commit(r) \/ FailJob(r)
  PROVE  /\ TaskInv(r)' /\ Existing' /\ left' = left
         /\ \A d \in Docs : Gated(d, doc'[d])
<1>1. CASE Commit(r)
  <2>1. /\ run'[r].pc = "idle" /\ DocOf(r) \in Docs /\ OutcomeFits(r)
        /\ run[r].out \in OutcomeFor(DocOf(r))
        /\ doc' = [doc EXCEPT ![DocOf(r)] = Final(r)]
        /\ Final(r).exists = doc[DocOf(r)].exists
        /\ Grows(job, job') /\ api' = api /\ left' = left
        /\ job' = [job EXCEPT ![run[r].job] = Completed(job[run[r].job])]
                    \o run[r].out.new
        /\ run[r].pc # "idle"
    BY <1>1, CommitFacts
  <2>2. /\ \A d \in Docs : doc'[d] = IF d = DocOf(r) THEN Final(r) ELSE doc[d]
        /\ \A d \in Docs : doc'[d].exists <=> doc[d].exists
    BY <2>1 DEF Shape, RestTyped
  <2>3. \A j \in DOMAIN job' \ DOMAIN job : job'[j].doc = DocOf(r)
    <3>1. run[r].out.new \in Seq(JobFor(DocOf(r)))
      BY <2>1 DEF OutcomeFor
    <3>2. PICK mid : mid = [job EXCEPT ![run[r].job] =
                              Completed(job[run[r].job])]
      OBVIOUS
    <3> QED
      BY <2>1, <3>1, <3>2, EndJobs
  <2>4. doc[DocOf(r)].exists
    BY <2>1, TaskJob DEF Existing, DocOf
  <2>5. Existing'
    BY <2>1, <2>2, <2>3, <2>4, ExistingGrown
  <2>6. \A d \in Docs : Gated(d, doc'[d])
    BY <2>1, <2>2 DEF OutcomeFits
  <2> QED
    BY <2>1, <2>5, <2>6, IdleTaskInv
<1>2. CASE FailJob(r)
  <2>1. /\ run'[r].pc = "idle" /\ DocOf(r) \in Docs /\ run[r].pc # "idle"
        /\ doc' = [doc EXCEPT ![DocOf(r)] = Ending(r).doc]
        /\ Keeps(Ending(r).doc, doc[DocOf(r)])
        /\ Ending(r).doc.extracted_text = doc[DocOf(r)].extracted_text
        /\ Ending(r).doc.ocr_completed = doc[DocOf(r)].ocr_completed
        /\ Grows(job, job') /\ api' = api /\ left' = left
    BY <1>2, FailFacts
  <2>2. /\ \A d \in Docs : doc'[d] = IF d = DocOf(r) THEN Ending(r).doc
                                                     ELSE doc[d]
        /\ \A d \in Docs : doc'[d].exists <=> doc[d].exists
    BY <2>1 DEF Shape, RestTyped, Keeps
  <2>3. /\ Ending(r) \in DraftFor(DocOf(r))
        /\ job' = FailedRows(r) \o Ending(r).new
    BY <1>2, FailJobEnds
  <2>4. \A j \in DOMAIN job' \ DOMAIN job : job'[j].doc = DocOf(r)
    <3>1. Ending(r).new \in Seq(JobFor(DocOf(r)))
      BY <2>3 DEF DraftFor
    <3> QED
      BY <2>1, <2>3, <3>1, EndJobs DEF FailedRows
  <2>5. doc[DocOf(r)].exists
    BY <2>1, TaskJob DEF Existing, DocOf
  <2>6. Existing'
    BY <2>1, <2>2, <2>4, <2>5, ExistingGrown
  <2>7. \A d \in Docs : Gated(d, doc'[d])
    BY <2>1, <2>2 DEF Gated
  <2> QED
    BY <2>1, <2>6, <2>7, IdleTaskInv
<1> QED
  BY <1>1, <1>2

LEMMA RestartTask ==
  ASSUME Shape, Existing, Restart
  PROVE  /\ \A r \in Runs : TaskInv(r)'
         /\ Existing' /\ doc' = doc /\ api' = api
<1>1. doc' = doc /\ api' = api /\ DOMAIN job' = DOMAIN job
  BY DEF Restart
<1>2. Grows(job, job')
  BY RestartShape
<1>3. Existing'
  BY <1>1, <1>2, ExistingGrown
<1>4. \A r \in Runs : run'[r].pc = "idle"
  BY IdleTask DEF Restart
<1> QED
  BY <1>1, <1>3, <1>4, IdleTaskInv

LEMMA OneTaskInit == Init => OneTaskInv
<1> SUFFICES ASSUME Init PROVE OneTaskInv
  OBVIOUS
<1>1. Existing
  BY DEF Init, Existing, NoRequest
<1>2. left["cancel"] <= MaxRequests["cancel"]
  <2>1. left["cancel"] = MaxRequests["cancel"] /\ MaxRequests["cancel"] \in Nat
    BY BoundsAssumption DEF Init, Requests
  <2> QED
    BY <2>1
<1>3. \A d \in Docs : Gated(d, doc[d])
  BY DEF Init, Gated, NoDocument, NewDoc
<1>4. \A r \in Runs : run[r].pc = "idle"
  BY IdleTask DEF Init
<1>5. \A r \in Runs : TaskInv(r)
  BY <1>4 DEF TaskInv, Loaded, Decided, ReadingIsOpen, OcrPagesAreThere,
     AsksOnOcrText
<1> QED
  BY <1>1, <1>2, <1>3, <1>5 DEF OneTaskInv

\* The steps of others.
LEMMA OutsideNext ==
  ASSUME Shape, OneTaskInv, [Next]_vars,
         \/ \E d \in Docs : Ingest(d)
         \/ \E d \in Docs, op \in Operations : LoadRequest(op, d)
         \/ Request
         \/ \E j \in DOMAIN job : CancelJob(j)
  PROVE  OneTaskInv' /\ Outside
<1>1. Existing /\ left["cancel"] <= MaxRequests["cancel"]
  BY DEF OneTaskInv
<1>2. Outside /\ Existing'
  BY <1>1, RequestOutside, IngestOutside, LoadRequestOutside, CancelOutside
<1>3. left'["cancel"] <= MaxRequests["cancel"] /\ (Uncancelled' => Uncancelled)
  BY <1>1, CancelBudget
<1>4. ASSUME NEW d \in Docs
      PROVE  Gated(d, doc'[d])
  BY <1>2 DEF OneTaskInv, Outside, Revised, Gated
<1>5. ASSUME NEW r \in Runs
      PROVE  TaskInv(r)'
  BY <1>1, <1>2, <1>3, OutsideTask DEF OneTaskInv
<1> QED
  BY <1>2, <1>3, <1>4, <1>5 DEF OneTaskInv

LEMMA TaskNext ==
  ASSUME OneTask, Shape, OneTaskInv, [Next]_vars,
         NEW r \in Runs, Claim(r) \/ Task(r)
  PROVE  OneTaskInv'
<1>1. Existing /\ TaskInv(r) /\ \A d \in Docs : Gated(d, doc[d])
  BY DEF OneTaskInv
<1>2. /\ TaskInv(r)' /\ Existing'
      /\ \A d \in Docs : Gated(d, doc'[d])
  <2>1. CASE Claim(r)
    BY <1>1, <2>1, ClaimTask
  <2>2. CASE Commit(r) \/ FailJob(r)
    BY <1>1, <2>2, EndTask
  <2>3. ASSUME TaskInv(r)', UNCHANGED <<job, doc, api, left>>
        PROVE  Existing' /\ \A d \in Docs : Gated(d, doc'[d])
    BY <1>1, <2>3 DEF Existing
  <2> QED
    BY <1>1, <2>1, <2>2, <2>3, LoadTask, HandlingTask, FinishTask DEF Task
<1>3. \A q \in Runs : q = r
  BY DEF OneTask
<1>4. left'["cancel"] <= MaxRequests["cancel"]
  BY CancelBudget DEF OneTaskInv
<1> QED
  BY <1>2, <1>3, <1>4 DEF OneTaskInv

LEMMA OneTaskNext ==
  ASSUME OneTask, Shape, OneTaskInv, [Next]_vars
  PROVE  OneTaskInv'
<1>1. CASE Restart
  <2>1. left'["cancel"] <= MaxRequests["cancel"]
    BY CancelBudget DEF OneTaskInv
  <2> QED
    BY <1>1, <2>1, RestartTask DEF OneTaskInv
<1>2. CASE UNCHANGED vars
  <2>1. ASSUME NEW r \in Runs
        PROVE  TaskInv(r)'
    <3>1. /\ SeenFits(r)' = SeenFits(r) /\ OutcomeFits(r)' = OutcomeFits(r)
          /\ DocOf(r)' = DocOf(r) /\ TypeOf(r)' = TypeOf(r)
          /\ ByOcr(r)' = ByOcr(r) /\ Uncancelled' = Uncancelled
      BY <1>2, OwnStep DEF vars
    <3>2. /\ ReadingIsOpen(r) /\ OcrPagesAreThere(r) /\ AsksOnOcrText(r)
          /\ Loaded(r) => SeenFits(r)
          /\ Decided(r) => OutcomeFits(r)
      BY DEF OneTaskInv, TaskInv
    <3>3. run' = run /\ pages' = pages /\ job' = job
      BY <1>2 DEF vars
    <3> QED
      BY <3>1, <3>2, <3>3
      DEF TaskInv, Loaded, Decided, ReadingIsOpen, OcrPagesAreThere,
          AsksOnOcrText
  <2> QED
    BY <1>2, <2>1 DEF OneTaskInv, Existing, vars
<1> QED
  BY <1>1, <1>2, OutsideNext, TaskNext DEF Next

\* With one task, every reachable state satisfies the invariant: what a
\* handler has loaded and decided still fits the row it will write to.
THEOREM OneTaskInvariant ==
  ASSUME OneTask
  PROVE  Spec => [](Shape /\ OneTaskInv)
<1>1. Init => Shape /\ OneTaskInv
  BY InitShape, OneTaskInit
<1>2. Shape /\ OneTaskInv /\ [Next]_vars => (Shape /\ OneTaskInv)'
  BY NextShape, OneTaskNext
<1> QED
  BY <1>1, <1>2, PTL DEF Spec

\* With one task, no model is asked about a scanned document whose text is
\* not that of OCR, whatever users request while the handler runs.
THEOREM ModelsSeeOcrText ==
  ASSUME OneTask
  PROVE  Spec => []SuggestionsReadOcrText
<1>1. OneTaskInv => SuggestionsReadOcrText
  BY DEF OneTaskInv, TaskInv, AsksOnOcrText, SuggestionsReadOcrText
<1> QED
  BY <1>1, OneTaskInvariant, PTL

\* With one task, a failed document becomes ready only when a text extraction
\* commits: the other handlers and the requests respect the failure that they
\* have loaded, and no other handler is under way to overwrite it.
THEOREM FailuresStayVisible ==
  ASSUME OneTask
  PROVE  Spec => FailureIsNotHidden
<1> DEFINE Extracts(d) ==
      \E r \in Runs : /\ run[r].pc = "commit" /\ run'[r].pc = "idle"
                      /\ DocOf(r) = d /\ TypeOf(r) = "text_extraction"
           Hidden(d) == /\ doc[d].processing_status = "failed"
                        /\ doc'[d].processing_status = "ready"
<1>1. ASSUME Shape, OneTaskInv, [Next]_vars, NEW d \in Docs, Hidden(d)
      PROVE  Extracts(d)
  <2>1. ~Outside
    BY <1>1 DEF Outside, Revised, Waits, PreparingStatuses
  <2>2. doc' # doc
    BY <1>1
  <2>3. ~Restart /\ ~UNCHANGED vars
    BY <2>2 DEF Restart, vars
  <2>4. PICK r \in Runs : Claim(r) \/ Task(r)
    BY <1>1, <2>1, <2>3, OutsideNext DEF Next
  <2>5. TaskInv(r) /\ Existing /\ \A e \in Docs : Gated(e, doc[e])
    BY <1>1 DEF OneTaskInv
  <2>6. Commit(r) \/ FailJob(r)
    BY <1>1, <2>2, <2>4, <2>5, ClaimTask, LoadTask, HandlingTask, FinishTask
    DEF Task
  <2>7. CASE Commit(r)
    <3>1. /\ run[r].pc = "commit" /\ run'[r].pc = "idle" /\ DocOf(r) \in Docs
          /\ OutcomeFits(r) /\ doc' = [doc EXCEPT ![DocOf(r)] = Final(r)]
      BY <1>1, <2>5, <2>7, CommitFacts
    <3>2. DocOf(r) = d /\ Final(r).processing_status = "ready"
      BY <1>1, <3>1 DEF Shape, RestTyped
    <3>3. TypeOf(r) = "text_extraction"
      BY <1>1, <3>1, <3>2 DEF OutcomeFits
    <3> QED
      BY <3>1, <3>2, <3>3
  <2>8. CASE FailJob(r)
    <3>1. /\ DocOf(r) \in Docs
          /\ doc' = [doc EXCEPT ![DocOf(r)] = Ending(r).doc]
          /\ doc[DocOf(r)].processing_status = "failed"
               => Ending(r).doc.processing_status = "failed"
      BY <1>1, <2>8, FailFacts
    <3> QED
      BY <1>1, <3>1 DEF Shape, RestTyped
  <2> QED
    BY <2>6, <2>7, <2>8
<1> HIDE DEF Extracts, Hidden
<1>2. Shape /\ OneTaskInv /\ [Next]_vars =>
        [\A d \in Docs : Hidden(d) => Extracts(d)]_vars
  BY <1>1
<1> USE DEF Extracts, Hidden
<1>3. FailureIsNotHidden <=> [][\A d \in Docs : Hidden(d) => Extracts(d)]_vars
  BY DEF FailureIsNotHidden
<1> HIDE DEF Extracts, Hidden
<1> QED
  BY <1>2, <1>3, OneTaskInvariant, PTL DEF Spec

----------------------------------------------------------------------------
(* With one task, a document that waits has work, and pages agree.  When   *)
(* the worker starts it cancels the jobs of trashed documents for good, so *)
(* this is about workers that do not die or documents that stay out of the *)
(* trash.                                                                  *)

SparesTrashed == MaxCrashes = 0 \/ MaxRequests["trash"] = 0

\* Under that hypothesis a start of the worker finds no job to cancel.
TrashIsSpared ==
  /\ left["crash"] <= MaxCrashes
  /\ MaxRequests["trash"] = 0 =>
       /\ left["trash"] = 0 /\ api.op # "trash"
       /\ \A d \in Docs : ~doc[d].is_trashed

WaitingHasWork ==
  \A d \in Docs : doc[d].exists /\ Waits(doc[d]) /\ Uncancelled =>
    HasOpen(job, d, PreflightTypes, 0)

StalePagesHaveReader ==
  \A d \in Docs :
    /\ doc[d].exists /\ doc[d].processing_status # "failed" /\ Uncancelled
    /\ pages[d] # doc[d].extracted_text
    => HasOpen(job, d, Readers, 0)

WorkInv == TrashIsSpared /\ WaitingHasWork /\ StalePagesHaveReader

LEMMA WorkInit == Init => WorkInv
<1> SUFFICES ASSUME Init PROVE WorkInv
  OBVIOUS
<1>1. \A d \in Docs : ~doc[d].exists /\ ~doc[d].is_trashed
  BY DEF Init, NoDocument, NewDoc
<1>2. /\ left["crash"] = MaxCrashes /\ left["trash"] = MaxRequests["trash"]
      /\ MaxCrashes \in Nat /\ api.op # "trash"
  <2>1. "crash" \in Requests \cup {"crash"} /\ "trash" \in Requests
    BY DEF Requests, Operations
  <2>2. left = [what \in Requests \cup {"crash"} |->
                  IF what = "crash" THEN MaxCrashes ELSE MaxRequests[what]]
    BY DEF Init
  <2>3. MaxCrashes \in Nat /\ api.op # "trash"
    BY BoundsAssumption DEF Init, NoRequest
  <2> QED
    BY <2>1, <2>2, <2>3
<1> QED
  BY <1>1, <1>2
  DEF WorkInv, TrashIsSpared, WaitingHasWork, StalePagesHaveReader

LEMMA TrashNext ==
  ASSUME OneTask, Shape, OneTaskInv, TrashIsSpared, [Next]_vars
  PROVE  TrashIsSpared'
<1>1. /\ left'["crash"] <= left["crash"] /\ left'["trash"] <= left["trash"]
      /\ left["trash"] \in Nat /\ left["crash"] \in Nat
      /\ left'["crash"] \in Nat
      /\ left'["trash"] \in Nat /\ MaxCrashes \in Nat
  <2>1. /\ "crash" \in Requests \cup {"crash"}
        /\ "trash" \in Requests \cup {"crash"}
    BY DEF Requests, Operations
  <2>2. Shape'
    BY NextShape
  <2>3. /\ left \in [Requests \cup {"crash"} -> Nat]
        /\ left' \in [Requests \cup {"crash"} -> Nat]
    BY <2>2 DEF Shape, RestTyped
  <2>4. \A what \in Requests \cup {"crash"} : left'[what] <= left[what]
    BY LeftShrinks
  <2>5. MaxCrashes \in Nat
    BY BoundsAssumption
  <2> QED
    BY <2>1, <2>3, <2>4, <2>5
<1>2. left'["crash"] <= MaxCrashes
  BY <1>1 DEF TrashIsSpared
<1>3. ASSUME MaxRequests["trash"] = 0
      PROVE  left'["trash"] = 0
  BY <1>1, <1>3 DEF TrashIsSpared
<1>4. ASSUME MaxRequests["trash"] = 0
      PROVE  api'.op # "trash" /\ \A d \in Docs : ~doc'[d].is_trashed
  <2>1. /\ left["trash"] = 0 /\ api.op # "trash"
        /\ \A d \in Docs : ~doc[d].is_trashed
    BY <1>4 DEF TrashIsSpared
  <2>2. ASSUME UNCHANGED <<doc, api>>
        PROVE  api'.op # "trash" /\ \A d \in Docs : ~doc'[d].is_trashed
    BY <2>1, <2>2
  <2>3. Existing /\ left["cancel"] <= MaxRequests["cancel"]
    BY DEF OneTaskInv
  <2>4. ASSUME NEW r \in Runs, Claim(r) \/ Task(r)
        PROVE  api'.op # "trash" /\ \A d \in Docs : ~doc'[d].is_trashed
    <3>1. TaskInv(r) /\ Existing /\ \A e \in Docs : Gated(e, doc[e])
      BY DEF OneTaskInv
    <3>2. CASE Claim(r)
      BY <2>2, <3>2 DEF Claim
    <3>3. CASE Commit(r)
      <4>1. /\ DocOf(r) \in Docs /\ doc' = [doc EXCEPT ![DocOf(r)] = Final(r)]
            /\ Final(r).is_trashed = doc[DocOf(r)].is_trashed
            /\ api' = api
        BY <3>1, <3>3, CommitFacts
      <4> QED
        BY <2>1, <4>1 DEF Shape, RestTyped
    <3>4. CASE FailJob(r)
      <4>1. /\ DocOf(r) \in Docs
            /\ doc' = [doc EXCEPT ![DocOf(r)] = Ending(r).doc]
            /\ Keeps(Ending(r).doc, doc[DocOf(r)]) /\ api' = api
        BY <3>4, FailFacts
      <4> QED
        BY <2>1, <4>1 DEF Shape, RestTyped, Keeps
    <3> QED
      BY <2>2, <2>4, <3>1, <3>2, <3>3, <3>4, LoadTask, HandlingTask,
         FinishTask DEF Task
  <2>5. CASE Restart
    BY <2>2, <2>5 DEF Restart
  <2>6. CASE Request
    BY <2>1, <2>3, <2>6, RequestOutside
  <2>7. ASSUME NEW d \in Docs, Ingest(d)
        PROVE  api'.op # "trash" /\ \A e \in Docs : ~doc'[e].is_trashed
    BY <2>1, <2>3, <2>7, IngestOutside DEF Ingest
  <2>8. ASSUME NEW d \in Docs, NEW op \in Operations, LoadRequest(op, d)
        PROVE  api'.op # "trash" /\ \A e \in Docs : ~doc'[e].is_trashed
    <3>1. op # "trash"
      BY <2>1, <2>8 DEF LoadRequest, SpendRequest
    <3>2. api'.op = op /\ doc' = doc
      BY <2>8 DEF LoadRequest
    <3> QED
      BY <2>1, <3>1, <3>2
  <2>9. ASSUME NEW j \in DOMAIN job, CancelJob(j)
        PROVE  UNCHANGED <<doc, api>>
    BY <2>9 DEF CancelJob
  <2>10. CASE UNCHANGED vars
    BY <2>2, <2>10 DEF vars
  <2> QED
    BY <2>2, <2>4, <2>5, <2>6, <2>7, <2>8, <2>9, <2>10 DEF Next
<1> QED
  BY <1>2, <1>3, <1>4 DEF TrashIsSpared

\* Steps that keep the open jobs, the documents and the pages.
LEMMA WorkStays ==
  ASSUME Uncancelled' => Uncancelled /\ OpenStays,
         WaitingHasWork, StalePagesHaveReader, UNCHANGED <<doc, pages>>
  PROVE  WaitingHasWork' /\ StalePagesHaveReader'
<1>1. ASSUME NEW d \in Docs, Uncancelled'
      PROVE  /\ HasOpen(job, d, PreflightTypes, 0)
                  => HasOpen(job', d, PreflightTypes, 0)
             /\ HasOpen(job, d, Readers, 0) => HasOpen(job', d, Readers, 0)
  BY <1>1 DEF OpenStays
<1> QED
  BY <1>1 DEF WaitingHasWork, StalePagesHaveReader

LEMMA WorkOutside ==
  ASSUME Outside, Uncancelled' => Uncancelled,
         WaitingHasWork, StalePagesHaveReader
  PROVE  WaitingHasWork' /\ StalePagesHaveReader'
<1>1. ASSUME NEW d \in Docs, Uncancelled'
      PROVE  /\ HasOpen(job, d, PreflightTypes, 0)
                  => HasOpen(job', d, PreflightTypes, 0)
             /\ HasOpen(job, d, Readers, 0) => HasOpen(job', d, Readers, 0)
             /\ AddsReader(d) => /\ HasOpen(job', d, PreflightTypes, 0)
                                 /\ HasOpen(job', d, Readers, 0)
  <2>1. OpenStays /\ Grows(job, job')
    BY <1>1 DEF Outside
  <2> QED
    BY <2>1, ReaderAdded DEF OpenStays
<1>2. ASSUME NEW d \in Docs
      PROVE  \/ Revised(d, doc[d], doc'[d])
             \/ AddsReader(d)
  BY DEF Outside
<1>3. WaitingHasWork'
  BY <1>1, <1>2 DEF WaitingHasWork, Revised, Waits
<1>4. StalePagesHaveReader'
  BY <1>1, <1>2 DEF StalePagesHaveReader, Revised, Outside
<1> QED
  BY <1>3, <1>4

LEMMA WorkClaim ==
  ASSUME Shape, NEW r \in Runs, Claim(r)
  PROVE  OpenStays
<1>1. PICK j \in NextJob(job, doc, ActivePreflightDoc(job, doc)) :
        job' = [job EXCEPT ![j] = ClaimRow(job[j])]
  BY DEF Claim
<1>2. j \in DOMAIN job
  BY DEF NextJob
<1>3. job[j] \in JobRow
  BY <1>2, LenProperties, ElementOfSeq DEF Shape
<1>4. /\ job'[j].status \in OpenStatuses
      /\ \A k \in DOMAIN job : k # j => job'[k] = job[k]
  BY <1>1, <1>2, <1>3, RowStatuses DEF OpenStatuses
<1>5. Grows(job, job')
  BY ClaimShape
<1> QED
  BY <1>4, <1>5, OpenSurvives DEF OpenStays, OpenJobs

LEMMA WorkRestart ==
  ASSUME SparesTrashed, Shape, TrashIsSpared, Restart
  PROVE  OpenStays
<1>1. left["crash"] > 0 /\ left["crash"] \in Nat /\ MaxCrashes \in Nat
  BY BoundsAssumption DEF Restart, Spend, Shape, RestTyped
<1>2. \A d \in Docs : ~doc[d].is_trashed
  BY <1>1 DEF SparesTrashed, TrashIsSpared
<1>3. ASSUME NEW j \in DOMAIN job, job[j].status \in OpenStatuses
      PROVE  job'[j].status \in OpenStatuses
  <2>1. job[j] \in JobRow /\ job'[j] = StartRow(job[j])
    BY LenProperties, ElementOfSeq DEF Shape, Restart
  <2>2. job[j].doc \in Docs /\ RequeueRow(job[j]).doc = job[j].doc
    BY <2>1 DEF JobRow, Row, RequeueRow
  <2>3. StartRow(job[j]) \in {job[j], RequeueRow(job[j])}
    BY <1>2, <2>2 DEF StartRow
  <2>4. RequeueRow(job[j]).status = "queued"
    BY <2>1, RowStatuses
  <2> QED
    BY <1>3, <2>1, <2>3, <2>4 DEF OpenStatuses
<1>4. Grows(job, job')
  BY RestartShape
<1> QED
  BY <1>3, <1>4, OpenSurvives DEF OpenStays, OpenJobs

\* A task has ended: an open job of another row stays open.
LEMMA EndOpen ==
  ASSUME Shape, NEW r \in Runs, Grows(job, job'),
         \A j \in DOMAIN job : j # run[r].job => job'[j] = job[j],
         NEW d, NEW X,
         \/ HasOpen(job, d, X, run[r].job)
         \/ HasOpen(job, d, X, 0) /\ ~(d = DocOf(r) /\ TypeOf(r) \in X)
  PROVE  HasOpen(job', d, X, 0)
<1>1. PICK j \in DOMAIN job :
        /\ job[j].doc = d /\ job[j].type \in X
        /\ job[j].status \in OpenStatuses
        /\ j # run[r].job
  BY DEF HasOpen, OpenJobs, DocOf, TypeOf
<1>2. job'[j] = job[j] /\ j \in DOMAIN job'
  BY <1>1 DEF Grows
<1>3. j # 0
  BY <1>1, LenProperties DEF Shape
<1> QED
  BY <1>1, <1>2, <1>3 DEF HasOpen, OpenJobs

\* Before it ends a task moves pages only, and only as a job that reads.
LEMMA WorkPages ==
  ASSUME Shape, NEW r \in Runs, TaskInv(r),
         \/ LoadDocument(r) \/ ClearPages(r) \/ EnterOcr(r) \/ FirstPages(r)
         \/ LastPages(r) \/ Finish(r) \/ FlushStatus(r) \/ HandlerRaises(r)
  PROVE  /\ UNCHANGED <<job, doc, left>>
         /\ \A d \in Docs : pages'[d] # pages[d] /\ Uncancelled =>
              HasOpen(job, d, Readers, 0)
<1>1. UNCHANGED <<job, doc, left>>
  BY DEF LoadDocument, ClearPages, EnterOcr, FirstPages,
     LastPages, Finish, FinishTextExtraction, FinishOcr, FinishThumbnail,
     FinishIndexing, CheckSuggestion, FinishSuggestion, Decide, Prepare,
     FlushStatus, HandlerRaises
<1>2. CASE ClearPages(r) \/ FirstPages(r) \/ LastPages(r)
  <2>1. /\ run[r].pc \in {"clear", "ocr"}
        /\ \A d \in Docs : d # DocOf(r) => pages'[d] = pages[d]
    BY <1>2 DEF ClearPages, FirstPages, LastPages, Shape, RestTyped
  <2>2. TypeOf(r) \in Readers
    BY <2>1, TaskJob
  <2>3. Uncancelled => HasOpen(job, DocOf(r), Readers, 0)
    BY <2>1, <2>2 DEF TaskInv, ReadingIsOpen
  <2> QED
    BY <1>1, <2>1, <2>3
<1>3. CASE ~(ClearPages(r) \/ FirstPages(r) \/ LastPages(r))
  <2>1. pages' = pages
    BY <1>3 DEF LoadDocument, EnterOcr, Finish, FinishTextExtraction, FinishOcr,
       FinishThumbnail, FinishIndexing, CheckSuggestion, FinishSuggestion,
       Decide, Prepare, FlushStatus, HandlerRaises
  <2> QED
    BY <1>1, <2>1
<1> QED
  BY <1>2, <1>3

LEMMA WorkOwn ==
  ASSUME Shape, NEW r \in Runs, TaskInv(r), WaitingHasWork,
         StalePagesHaveReader,
         \/ LoadDocument(r) \/ ClearPages(r) \/ EnterOcr(r) \/ FirstPages(r)
         \/ LastPages(r) \/ Finish(r) \/ FlushStatus(r) \/ HandlerRaises(r)
  PROVE  WaitingHasWork' /\ StalePagesHaveReader'
<1>1. /\ job' = job /\ doc' = doc /\ left' = left
      /\ \A d \in Docs : pages'[d] # pages[d] /\ Uncancelled =>
           HasOpen(job, d, Readers, 0)
  BY WorkPages
<1>2. Uncancelled' = Uncancelled
  BY <1>1 DEF Uncancelled
<1>3. WaitingHasWork'
  BY <1>1, <1>2 DEF WaitingHasWork
<1>4. StalePagesHaveReader'
  BY <1>1, <1>2 DEF StalePagesHaveReader
<1> QED
  BY <1>3, <1>4

LEMMA WorkCommit ==
  ASSUME Shape, NEW r \in Runs, TaskInv(r), WaitingHasWork,
         StalePagesHaveReader, Commit(r)
  PROVE  WaitingHasWork' /\ StalePagesHaveReader'
<1>1. /\ run[r].pc = "commit" /\ DocOf(r) \in Docs
      /\ OutcomeFits(r) /\ OcrPagesAreThere(r) /\ Decided(r)
      /\ run[r].out \in OutcomeFor(DocOf(r))
      /\ doc' = [doc EXCEPT ![DocOf(r)] = Final(r)]
      /\ Final(r).exists = doc[DocOf(r)].exists
      /\ \A e \in Docs : pages'[e] =
           IF e = DocOf(r) /\ run[r].out.pages # "keep"
           THEN run[r].out.pages ELSE pages[e]
      /\ Grows(job, job') /\ left' = left
      /\ job' = [job EXCEPT ![run[r].job] = Completed(job[run[r].job])]
                  \o run[r].out.new
  BY CommitFacts
<1>2. /\ \A j \in DOMAIN job : j # run[r].job => job'[j] = job[j]
      /\ NewWork(run[r].out) => HasOpen(job', DocOf(r), PreflightTypes, 0)
  <2>1. run[r].out.new \in Seq(JobFor(DocOf(r)))
    BY <1>1 DEF OutcomeFor
  <2>2. PICK mid : mid = [job EXCEPT ![run[r].job] =
                            Completed(job[run[r].job])]
    OBVIOUS
  <2> QED
    BY <1>1, <2>1, <2>2, EndJobs DEF NewWork
<1>3. /\ \A d \in Docs : doc'[d] = IF d = DocOf(r) THEN Final(r) ELSE doc[d]
      /\ Uncancelled' = Uncancelled
  BY <1>1 DEF Shape, RestTyped, Uncancelled
<1>4. ASSUME NEW d, NEW X, HasOpen(job, d, X, 0),
             d # DocOf(r) \/ TypeOf(r) \notin X
      PROVE  HasOpen(job', d, X, 0)
  BY <1>1, <1>2, <1>4, EndOpen
<1>5. ASSUME NEW d \in Docs, doc'[d].exists, Waits(doc'[d]), Uncancelled
      PROVE  HasOpen(job', d, PreflightTypes, 0)
  <2>1. CASE d # DocOf(r)
    BY <1>3, <1>4, <1>5, <2>1 DEF WaitingHasWork
  <2>2. CASE d = DocOf(r) /\ TypeOf(r) \in PreflightTypes
    <3>1. Others(r) \/ NewWork(run[r].out)
      BY <1>1, <1>3, <1>5, <2>2 DEF OutcomeFits
    <3> QED
      BY <1>1, <1>2, <2>2, <3>1, EndOpen DEF Others
  <2>3. CASE d = DocOf(r) /\ TypeOf(r) \notin PreflightTypes
    <3>1. Waits(doc[d]) /\ doc[d].exists
      BY <1>1, <1>3, <1>5, <2>3 DEF OutcomeFits
    <3> QED
      BY <1>4, <1>5, <2>3, <3>1 DEF WaitingHasWork
  <2> QED
    BY <2>1, <2>2, <2>3
<1>6. ASSUME NEW d \in Docs, doc'[d].exists, Uncancelled,
             doc'[d].processing_status # "failed",
             pages'[d] # doc'[d].extracted_text
      PROVE  HasOpen(job', d, Readers, 0)
  <2>1. CASE d # DocOf(r)
    <3>1. doc'[d] = doc[d] /\ pages'[d] = pages[d]
      BY <1>1, <1>3, <2>1
    <3>2. HasOpen(job, d, Readers, 0)
      BY <1>6, <3>1 DEF StalePagesHaveReader
    <3> QED
      BY <1>4, <2>1, <3>2
  <2>2. CASE d = DocOf(r) /\ TypeOf(r) \in Readers
    <3>1. Final(r).extracted_text = TextBy(r)
      BY <1>1, <2>2 DEF OutcomeFits
    <3>2. CASE ByOcr(r)
      <4>1. run[r].out.pages = "keep" /\ pages[d] = "ocr"
        BY <1>1, <2>2, <3>2 DEF OutcomeFits, OcrPagesAreThere
      <4> QED
        BY <1>1, <1>3, <1>6, <2>2, <3>1, <3>2, <4>1 DEF TextBy
    <3>3. CASE ~ByOcr(r)
      <4>1. run[r].out.pages = "native"
        BY <1>1, <2>2, <3>3 DEF OutcomeFits
      <4> QED
        BY <1>1, <1>3, <1>6, <2>2, <3>1, <3>3, <4>1 DEF TextBy
    <3> QED
      BY <3>2, <3>3
  <2>3. CASE d = DocOf(r) /\ TypeOf(r) \notin Readers
    <3>1. /\ Final(r).extracted_text = doc[d].extracted_text
          /\ run[r].out.pages = "keep"
      BY <1>1, <2>3 DEF OutcomeFits
    <3>2. doc[d].processing_status = "failed"
            => Final(r).processing_status = "failed"
      BY <1>1, <2>3 DEF OutcomeFits, Readers
    <3>3. /\ doc[d].exists /\ doc[d].processing_status # "failed"
          /\ pages[d] # doc[d].extracted_text
      BY <1>1, <1>3, <1>6, <2>3, <3>1, <3>2
    <3> QED
      BY <1>4, <1>6, <2>3, <3>3 DEF StalePagesHaveReader
  <2> QED
    BY <2>1, <2>2, <2>3
<1> QED
  BY <1>3, <1>5, <1>6 DEF WaitingHasWork, StalePagesHaveReader

LEMMA WorkFail ==
  ASSUME Shape, NEW r \in Runs, TaskInv(r), WaitingHasWork,
         StalePagesHaveReader, FailJob(r)
  PROVE  WaitingHasWork' /\ StalePagesHaveReader'
<1> DEFINE row == doc[DocOf(r)]
           end == Ending(r).doc
           mine == run[r].job
<1>1. /\ run[r].pc = "failed" /\ DocOf(r) \in Docs
      /\ doc' = [doc EXCEPT ![DocOf(r)] = end]
      /\ Keeps(end, row) /\ end.extracted_text = row.extracted_text
      /\ row.processing_status = "failed" => end.processing_status = "failed"
      /\ \/ end = row /\ FailedRows(r)[mine].status # "failed"
         \/ end = row /\ TypeOf(r) \notin PreflightTypes
         \/ /\ TypeOf(r) = "metadata_suggestion"
            /\ PartDone(Ending(r), row, FailedRows(r), DocOf(r), 0)
         \/ end.processing_status = "failed"
      /\ pages' = pages /\ left' = left /\ Grows(job, job')
  BY FailFacts
<1>2. /\ Ending(r) \in DraftFor(DocOf(r)) /\ row \in DocRows
      /\ job' = FailedRows(r) \o Ending(r).new
      /\ FailedRows(r) \in Seq(JobRow)
      /\ FailedRows(r)[mine] = FailRow(job[mine], FALSE)
  BY FailJobEnds
<1>3. mine \in DOMAIN job /\ job[mine] \in JobRow
  BY <1>1, TaskJob
<1>4. /\ job'[mine] = FailRow(job[mine], FALSE)
      /\ \A j \in DOMAIN job : j # mine => job'[j] = job[j]
      /\ NewWork(Ending(r)) => HasOpen(job', DocOf(r), PreflightTypes, 0)
  <2>1. Ending(r).new \in Seq(JobFor(DocOf(r)))
    BY <1>2 DEF DraftFor
  <2>2. PICK mid : mid = FailedRows(r)
    OBVIOUS
  <2>3. PICK new : new = Ending(r).new
    OBVIOUS
  <2>4. PICK failed : failed = FailRow(job[mine], FALSE)
    OBVIOUS
  <2>5. /\ run[r].pc # "idle" /\ Grows(job, job') /\ job' = mid \o new
        /\ mid = [job EXCEPT ![mine] = failed]
        /\ new \in Seq(JobFor(DocOf(r)))
    BY <1>1, <1>2, <2>1, <2>2, <2>3, <2>4 DEF FailedRows
  <2>6. /\ job'[mine] = failed
        /\ \A j \in DOMAIN job : j # mine => job'[j] = job[j]
        /\ \A types : \A i \in DOMAIN new : new[i].type \in types =>
             HasOpen(job', DocOf(r), types, 0)
    BY <2>4, <2>5, EndJobs
  <2> QED
    BY <2>3, <2>4, <2>6 DEF NewWork
<1>5. \A j \in DOMAIN FailedRows(r) :
        j \in DOMAIN job' /\ job'[j] = FailedRows(r)[j]
  <2>1. DOMAIN FailedRows(r) = DOMAIN job
    BY DEF FailedRows
  <2>2. \A j \in DOMAIN job : j # mine => FailedRows(r)[j] = job[j]
    BY DEF FailedRows
  <2> QED
    BY <1>1, <1>2, <1>4, <2>1, <2>2 DEF Grows
<1>6. /\ \A d \in Docs : doc'[d] = IF d = DocOf(r) THEN end ELSE doc[d]
      /\ Uncancelled' = Uncancelled
  BY <1>1 DEF Shape, RestTyped, Uncancelled
<1>7. ASSUME NEW d, NEW X, HasOpen(job, d, X, 0),
             \/ d # DocOf(r) \/ TypeOf(r) \notin X
             \/ FailedRows(r)[mine].status # "failed"
      PROVE  HasOpen(job', d, X, 0)
  <2>1. CASE d # DocOf(r) \/ TypeOf(r) \notin X
    BY <1>1, <1>4, <1>7, <2>1, EndOpen
  <2>2. CASE FailedRows(r)[mine].status # "failed"
    <3>1. job'[mine].status \in OpenStatuses
      BY <1>2, <1>3, <1>4, <2>2, RowStatuses
    <3>2. \A j \in OpenJobs(job, d, X, 0) : job'[j].status \in OpenStatuses
      BY <1>4, <3>1 DEF OpenJobs
    <3> QED
      BY <1>1, <1>7, <3>2, OpenSurvives
  <2> QED
    BY <1>7, <2>1, <2>2
<1> HIDE DEF row, end, mine
<1>8. ASSUME NEW d \in Docs, doc'[d].exists, Waits(doc'[d]), Uncancelled
      PROVE  HasOpen(job', d, PreflightTypes, 0)
  <2>1. CASE d # DocOf(r)
    BY <1>6, <1>7, <1>8, <2>1 DEF WaitingHasWork
  <2>2. CASE d = DocOf(r) /\ end = row
                /\ (\/ FailedRows(r)[mine].status # "failed"
                    \/ TypeOf(r) \notin PreflightTypes)
    <3>1. Waits(doc[d]) /\ doc[d].exists
      BY <1>6, <1>8, <2>2 DEF row
    <3> QED
      BY <1>7, <1>8, <2>2, <3>1 DEF WaitingHasWork
  <2>3. CASE /\ d = DocOf(r) /\ TypeOf(r) = "metadata_suggestion"
             /\ PartDone(Ending(r), row, FailedRows(r), DocOf(r), 0)
    <3>1. Waits(end)
      BY <1>6, <1>8, <2>3
    <3>2. \/ HasOpen(FailedRows(r), DocOf(r), PreflightTypes, 0)
          \/ NewWork(Ending(r))
      BY <1>2, <2>3, <3>1, PartDoneFacts DEF end
    <3>3. HasOpen(FailedRows(r), d, PreflightTypes, 0)
            => HasOpen(job', d, PreflightTypes, 0)
      BY <1>5 DEF HasOpen, OpenJobs
    <3> QED
      BY <1>4, <2>3, <3>2, <3>3
  <2>4. CASE d = DocOf(r) /\ end.processing_status = "failed"
    BY <1>6, <1>8, <2>4 DEF Waits, PreparingStatuses
  <2> QED
    BY <1>1, <2>1, <2>2, <2>3, <2>4
<1>9. ASSUME NEW d \in Docs, doc'[d].exists, Uncancelled,
             doc'[d].processing_status # "failed",
             pages'[d] # doc'[d].extracted_text
      PROVE  HasOpen(job', d, Readers, 0)
  <2>1. /\ doc[d].exists /\ doc[d].processing_status # "failed"
        /\ pages[d] # doc[d].extracted_text
    BY <1>1, <1>6, <1>9 DEF row, Keeps
  <2>2. HasOpen(job, d, Readers, 0)
    BY <1>9, <2>1 DEF StalePagesHaveReader
  <2>3. \/ d # DocOf(r) \/ TypeOf(r) \notin Readers
        \/ FailedRows(r)[mine].status # "failed"
    BY <1>1, <1>6, <1>9 DEF Readers, PreflightTypes
  <2> QED
    BY <1>7, <2>2, <2>3
<1> QED
  BY <1>6, <1>8, <1>9 DEF WaitingHasWork, StalePagesHaveReader

LEMMA WorkNext ==
  ASSUME OneTask, SparesTrashed, Shape, OneTaskInv, WorkInv, [Next]_vars
  PROVE  WorkInv'
<1>1. TrashIsSpared' /\ WaitingHasWork /\ StalePagesHaveReader
  BY TrashNext DEF WorkInv
<1>2. Uncancelled' => Uncancelled
  BY CancelBudget DEF OneTaskInv
<1>3. \A r \in Runs : TaskInv(r)
  BY DEF OneTaskInv
<1>4. ASSUME NEW r \in Runs, Claim(r)
      PROVE  WaitingHasWork' /\ StalePagesHaveReader'
  <2>1. UNCHANGED <<doc, pages>>
    BY <1>4 DEF Claim
  <2> QED
    BY <1>1, <1>2, <1>4, <2>1, WorkClaim, WorkStays
<1>5. ASSUME NEW r \in Runs, Task(r)
      PROVE  WaitingHasWork' /\ StalePagesHaveReader'
  BY <1>1, <1>3, <1>5, WorkOwn, WorkCommit, WorkFail DEF Task
<1>6. ASSUME Restart
      PROVE  WaitingHasWork' /\ StalePagesHaveReader'
  <2>1. UNCHANGED <<doc, pages>>
    BY <1>6 DEF Restart
  <2> QED
    BY <1>1, <1>2, <1>6, <2>1, WorkRestart, WorkStays DEF WorkInv
<1>7. ASSUME \/ \E d \in Docs : Ingest(d)
             \/ \E d \in Docs, op \in Operations : LoadRequest(op, d)
             \/ Request
             \/ \E j \in DOMAIN job : CancelJob(j)
      PROVE  WaitingHasWork' /\ StalePagesHaveReader'
  <2>1. Outside
    BY <1>7, OutsideNext
  <2> QED
    BY <1>1, <1>2, <2>1, WorkOutside
<1>8. ASSUME UNCHANGED vars
      PROVE  WaitingHasWork' /\ StalePagesHaveReader'
  <2>1. UNCHANGED <<job, doc, pages>>
    BY <1>8 DEF vars
  <2>2. OpenStays
    BY <2>1 DEF OpenStays
  <2> QED
    BY <1>1, <1>2, <2>1, <2>2, WorkStays
<1>9. WaitingHasWork' /\ StalePagesHaveReader'
  <2>1. CASE \E r \in Runs : Claim(r) \/ Task(r)
    BY <1>4, <1>5, <2>1
  <2> QED
    BY <1>6, <1>7, <1>8, <2>1 DEF Next
<1> QED
  BY <1>1, <1>9 DEF WorkInv

\* With one task, and no start of the worker that finds jobs of trashed
\* documents to cancel, a document that is being prepared has an open job
\* that will end its preparation.
THEOREM DocumentsInPreparationHaveWork ==
  ASSUME OneTask, SparesTrashed
  PROVE  Spec => []PreparingHasWork
<1>1. Init => WorkInv
  BY WorkInit
<1>2. Shape /\ OneTaskInv /\ WorkInv /\ [Next]_vars => WorkInv'
  BY WorkNext
<1>3. WorkInv => PreparingHasWork
  BY DEF WorkInv, WaitingHasWork, HasOpen, PreparingHasWork, Preparing, Waits
<1> QED
  BY <1>1, <1>2, <1>3, OneTaskInvariant, PTL DEF Spec

\* Under the same hypotheses, once all work on a ready document is done its
\* pages are complete and hold the text of the document's row.
THEOREM FinishedPagesAgree ==
  ASSUME OneTask, SparesTrashed
  PROVE  Spec => []PagesAgree
<1>1. Init => WorkInv
  BY WorkInit
<1>2. Shape /\ OneTaskInv /\ WorkInv /\ [Next]_vars => WorkInv'
  BY WorkNext
<1>3. WorkInv => PagesAgree
  <2>1. ASSUME NEW d, HasOpen(job, d, Readers, 0)
        PROVE  OpenJobs(job, d, DOMAIN FirstStep, 0) # {}
    BY <2>1, StepNames DEF HasOpen, OpenJobs, Readers, StepTypes
  <2> QED
    BY <2>1 DEF WorkInv, StalePagesHaveReader, PagesAgree, Quiet, Ready
<1> QED
  BY <1>1, <1>2, <1>3, OneTaskInvariant, PTL DEF Spec

----------------------------------------------------------------------------
(* With one task, a scanned document of the library that is ready and has  *)
(* no work to come has been indexed.  Scanned ones, because OCR comes after *)
(* every other text of theirs and drops the chunks; and such as leave the  *)
(* Inbox by Process or for the trash, since nothing indexes a document     *)
(* that is moved or restored out of it.                                    *)

NeverRefiled == MaxRequests["move"] = 0 /\ MaxRequests["restore"] = 0

\* The jobs after which a document of the library is indexed, or will be.
IndexWork == Readers \cup {"indexing"}
WillIndex(d, me) == HasOpen(job, d, IndexWork, me)

Filed(row) == ~row.inbox /\ ~row.is_trashed

IndexingFailed(d) ==
  \E j \in DOMAIN job : /\ job[j].doc = d /\ job[j].type = "indexing"
                        /\ job[j].status = "failed"

\* No document of the Inbox is indexed, or has a job that would.
InboxIsUnindexed ==
  \A d \in Docs : doc[d].inbox =>
    /\ ~doc[d].document_indexed
    /\ \A j \in DOMAIN job : job[j].doc = d => job[j].type # "indexing"

\* What a request under way has loaded of where the document is.
RequestFiles ==
  /\ left["move"] = 0 /\ left["restore"] = 0
  /\ api.op \notin {"move", "restore"}
  /\ api.op = "trash" => ~api.seen.is_trashed
  /\ api.op = "process" => api.seen.inbox /\ ~api.seen.document_indexed

FiledIsIndexed ==
  \A d \in Scanned : doc[d].exists /\ Filed(doc[d]) /\ Uncancelled =>
    \/ doc[d].document_indexed /\ chunks[d] = pages[d]
    \/ WillIndex(d, 0)
    \/ IndexingFailed(d)
    \/ doc[d].processing_status = "failed"

\* What the session of a handler has loaded of the place and the index of its
\* document is still so, or there is other work to index it.
SeenFiling(r) ==
  LET d == DocOf(r)
      seen == run[r].seen
      row == doc[d]
  IN /\ row.inbox => seen.inbox
     /\ TypeOf(r) = "indexing" => run[r].read = pages[d]
     /\ Uncancelled =>
          /\ seen.document_indexed /\ ~row.document_indexed
               => WillIndex(d, run[r].job)
          /\ seen.inbox /\ Filed(row) => WillIndex(d, run[r].job)

\* What a handler has decided about the index fits the row.
OutcomeFiling(r) ==
  LET d == DocOf(r)
      row == doc[d]
      out == run[r].out
  IN /\ AddsIndexing(out) => ~row.inbox
     /\ TypeOf(r) \notin {"ocr", "indexing"} =>
          out.chunks = "keep" /\ "document_indexed" \notin out.columns
     /\ TypeOf(r) = "indexing" =>
          /\ out.chunks = run[r].read
          /\ Uncancelled =>
               Final(r).document_indexed \/ WillIndex(d, run[r].job)
     /\ TypeOf(r) = "ocr" =>
          /\ "document_indexed" \in out.columns => ~out.doc.document_indexed
          /\ Uncancelled /\ Filed(row) =>
               AddsIndexing(out) \/ WillIndex(d, run[r].job)
     /\ TypeOf(r) = "text_extraction" /\ d \in Scanned =>
          \E i \in DOMAIN out.new : out.new[i].type = "ocr"

TaskFiling(r) ==
  /\ run[r].pc # "idle" => job[run[r].job].status # "failed"
  /\ Loaded(r) => SeenFiling(r)
  /\ Decided(r) => OutcomeFiling(r)

IndexInv ==
  /\ InboxIsUnindexed /\ RequestFiles /\ FiledIsIndexed
  /\ \A r \in Runs : TaskFiling(r)

LEMMA IndexInit ==
  ASSUME NeverRefiled, Init
  PROVE  IndexInv
<1>1. \A d \in Docs : ~doc[d].exists /\ ~doc[d].inbox
  BY DEF Init, NoDocument, NewDoc
<1>2. /\ left["move"] = 0 /\ left["restore"] = 0 /\ api.op = "none"
  <2>1. {"move", "restore"} \subseteq Requests
    BY DEF Requests, Operations
  <2>2. left = [what \in Requests \cup {"crash"} |->
                  IF what = "crash" THEN MaxCrashes ELSE MaxRequests[what]]
    BY DEF Init
  <2>3. api.op = "none"
    BY DEF Init, NoRequest
  <2> QED
    BY <2>1, <2>2, <2>3 DEF NeverRefiled
<1>3. \A r \in Runs : run[r].pc = "idle"
  BY IdleTask DEF Init
<1> QED
  BY <1>1, <1>2, <1>3, KindsAssumption
  DEF IndexInv, InboxIsUnindexed, RequestFiles, FiledIsIndexed, TaskFiling,
      Loaded, Decided

\* Move and restore are never asked for, and Process only of a document of
\* the Inbox.
LEMMA RequestFilesNext ==
  ASSUME Shape, InboxIsUnindexed, RequestFiles, [Next]_vars
  PROVE  RequestFiles'
<1>1. left'["move"] = 0 /\ left'["restore"] = 0
  <2>1. {"move", "restore"} \subseteq Requests
    BY DEF Requests, Operations
  <2>2. /\ left \in [Requests \cup {"crash"} -> Nat]
        /\ left' \in [Requests \cup {"crash"} -> Nat]
    BY NextShape DEF Shape, RestTyped
  <2>3. \A what \in Requests \cup {"crash"} : left'[what] <= left[what]
    BY LeftShrinks
  <2> QED
    BY <2>1, <2>2, <2>3 DEF RequestFiles
<1>2. CASE api' = api
  BY <1>1, <1>2 DEF RequestFiles
<1>3. CASE api' = NoRequest
  BY <1>1, <1>3 DEF RequestFiles, NoRequest
<1>4. ASSUME NEW d \in Docs, NEW op \in Operations, LoadRequest(op, d)
      PROVE  RequestFiles'
  <2>1. /\ left[op] > 0 /\ Allowed(op, doc[d])
        /\ api'.op = op /\ api'.seen = doc[d]
    BY <1>4 DEF LoadRequest, SpendRequest
  <2>2. /\ op = "trash" => ~doc[d].is_trashed
        /\ op = "process" => doc[d].inbox
    BY <2>1 DEF Allowed
  <2>3. op \notin {"move", "restore"}
    BY <2>1 DEF RequestFiles
  <2> QED
    BY <1>1, <2>1, <2>2, <2>3 DEF RequestFiles, InboxIsUnindexed
<1>5. \/ api' = api \/ api' = NoRequest
      \/ \E d \in Docs, op \in Operations : LoadRequest(op, d)
  <2>1. ASSUME NEW r \in Runs, Claim(r) \/ Task(r)
        PROVE  api' = api
    BY <2>1 DEF Claim, Task, LoadDocument, ClearPages, EnterOcr, FirstPages,
       LastPages, Finish, FinishTextExtraction, FinishOcr, FinishThumbnail,
       FinishIndexing, CheckSuggestion, FinishSuggestion, Decide, Prepare,
       FlushStatus, Commit, HandlerRaises, FailJob
  <2>2. CASE Request
    BY <2>2 DEF Request, MoveDocument, TrashDocument, RestoreDocument,
       RetryPreflight, RetryOcr, ReprocessSuggestions, ProcessInbox, Respond
  <2>3. CASE Restart \/ UNCHANGED vars
    BY <2>3 DEF Restart, vars
  <2>4. ASSUME NEW d \in Docs, Ingest(d)
        PROVE  api' = api
    BY <2>4 DEF Ingest
  <2>5. ASSUME NEW j \in DOMAIN job, CancelJob(j)
        PROVE  api' = api
    BY <2>5 DEF CancelJob
  <2> QED
    BY <2>1, <2>2, <2>3, <2>4, <2>5 DEF Next
<1> QED
  BY <1>2, <1>3, <1>4, <1>5

\* A job after which the document is indexed, or will be, is added for d.
AddsIndexWork(d) ==
  \E j \in DOMAIN job' \ DOMAIN job :
    /\ job'[j].status = "queued" /\ job'[j].doc = d
    /\ job'[j].type \in IndexWork

\* What others than a task do to where d is and to its index: if they take the
\* index away, or file d, they see to it that it is indexed.
KeepsFiling(d) ==
  LET row == doc[d]
      new == doc'[d]
  IN /\ new.inbox => row.inbox
     /\ row.is_trashed => new.is_trashed
     /\ new.document_indexed => row.document_indexed
     /\ \/ AddsIndexWork(d)
        \/ /\ new.document_indexed = row.document_indexed
           /\ chunks'[d] = chunks[d]
           /\ row.processing_status = "failed"
                => new.processing_status = "failed"
           /\ new.inbox = row.inbox \/ new.is_trashed

WillIndexStays ==
  \A d \in Docs, me \in {0} \cup DOMAIN job :
    WillIndex(d, me) => HasOpen(job', d, IndexWork, me)

FailuresStay ==
  \A j \in DOMAIN job : job'[j].status = "failed" <=> job[j].status = "failed"

IndexOutside ==
  /\ Outside /\ (Uncancelled' => WillIndexStays) /\ FailuresStay
  /\ \A d \in Docs : \/ KeepsFiling(d)
                     \/ /\ ~doc[d].exists /\ AddsIndexWork(d)
                        /\ ~doc'[d].document_indexed
  /\ \A j \in DOMAIN job' \ DOMAIN job :
       job'[j].type = "indexing" => ~doc'[job'[j].doc].inbox

LEMMA IndexWorkAdded ==
  ASSUME Grows(job, job'), NEW d, AddsIndexWork(d),
         NEW me \in {0} \cup DOMAIN job
  PROVE  HasOpen(job', d, IndexWork, me)
  BY OpenAdded DEF AddsIndexWork

\* A step of others leaves what is filed indexed.
LEMMA FiledOutside ==
  ASSUME Shape, FiledIsIndexed, IndexOutside, Uncancelled' => Uncancelled
  PROVE  FiledIsIndexed'
<1>1. Grows(job, job') /\ pages' = pages
  BY DEF IndexOutside, Outside
<1> SUFFICES ASSUME NEW d \in Scanned, doc'[d].exists, Filed(doc'[d]), Uncancelled'
             PROVE  \/ doc'[d].document_indexed /\ chunks'[d] = pages'[d]
                    \/ HasOpen(job', d, IndexWork, 0)
                    \/ IndexingFailed(d)'
                    \/ doc'[d].processing_status = "failed"
  BY DEF FiledIsIndexed, WillIndex
<1> d \in Docs
  BY KindsAssumption
<1>2. CASE AddsIndexWork(d)
  BY <1>1, <1>2, IndexWorkAdded
<1>3. CASE ~AddsIndexWork(d)
  <2>1. /\ KeepsFiling(d)
        /\ doc'[d].document_indexed = doc[d].document_indexed
        /\ chunks'[d] = chunks[d]
        /\ doc[d].processing_status = "failed"
             => doc'[d].processing_status = "failed"
        /\ doc'[d].inbox = doc[d].inbox \/ doc'[d].is_trashed
    BY <1>3 DEF IndexOutside, KeepsFiling
  <2>2. Filed(doc[d])
    BY <2>1 DEF Filed, KeepsFiling
  <2>3. ~AddsReader(d)
    BY <1>3 DEF AddsReader, AddsIndexWork, IndexWork
  <2>4. doc[d].exists
    BY <2>3 DEF IndexOutside, Outside, Revised
  <2>5. WillIndex(d, 0) => HasOpen(job', d, IndexWork, 0)
    BY DEF IndexOutside, WillIndexStays
  <2>6. IndexingFailed(d) => IndexingFailed(d)'
    BY <1>1 DEF IndexingFailed, IndexOutside, FailuresStay, Grows
  <2> QED
    BY <1>1, <2>1, <2>2, <2>4, <2>5, <2>6 DEF FiledIsIndexed
<1> QED
  BY <1>2, <1>3

LEMMA InboxOutside ==
  ASSUME Shape, Existing, InboxIsUnindexed, IndexOutside
  PROVE  InboxIsUnindexed'
<1> SUFFICES ASSUME NEW d \in Docs, doc'[d].inbox
             PROVE  /\ ~doc'[d].document_indexed
                    /\ \A j \in DOMAIN job' :
                         job'[j].doc = d => job'[j].type # "indexing"
  BY DEF InboxIsUnindexed
<1>1. Grows(job, job')
  BY DEF IndexOutside, Outside
<1>2. /\ ~doc'[d].document_indexed
      /\ doc[d].exists => doc[d].inbox
  BY DEF IndexOutside, KeepsFiling, InboxIsUnindexed
<1>3. ASSUME NEW j \in DOMAIN job, job'[j].doc = d
      PROVE  job'[j].type # "indexing"
  <2>1. job[j].doc = d /\ job'[j].type = job[j].type
    BY <1>1, <1>3 DEF Grows
  <2> QED
    BY <1>2, <2>1 DEF Existing, InboxIsUnindexed
<1>4. ASSUME NEW j \in DOMAIN job' \ DOMAIN job, job'[j].doc = d
      PROVE  job'[j].type # "indexing"
  BY <1>4 DEF IndexOutside
<1> QED
  BY <1>2, <1>3, <1>4

LEMMA TaskFilingOutside ==
  ASSUME Shape, Existing, IndexOutside, Uncancelled' => Uncancelled,
         NEW r \in Runs, TaskFiling(r)
  PROVE  TaskFiling(r)'
<1> DEFINE d == DocOf(r)
           me == run[r].job
           seen == run[r].seen
           out == run[r].out
           row == doc[d]
           new == doc'[d]
           end == Final(r)
           end2 == Write(new, out.columns, out.doc)
<1>1. /\ Outside /\ run' = run
      /\ Loaded(r)' = Loaded(r) /\ Decided(r)' = Decided(r)
  BY DEF IndexOutside, Outside, Loaded, Decided
<1>2. CASE run[r].pc = "idle"
  BY <1>1, <1>2 DEF TaskFiling, Loaded, Decided
<1>3. CASE run[r].pc # "idle"
  <2>1. /\ me \in DOMAIN job /\ d \in Docs /\ Grows(job, job')
        /\ DocOf(r)' = d /\ TypeOf(r)' = TypeOf(r) /\ pages' = pages
    BY <1>1, <1>3, TaskJob, OutsideOfTask DEF Outside
  <2>2. row.exists
    BY <2>1 DEF Existing, DocOf
  <2>3. /\ KeepsFiling(d)
        /\ job'[me].status = "failed" <=> job[me].status = "failed"
    BY <2>1, <2>2 DEF IndexOutside, FailuresStay
  <2>4. /\ new.inbox => row.inbox
        /\ AddsIndexWork(d) => HasOpen(job', d, IndexWork, me)
        /\ Uncancelled' /\ WillIndex(d, me) => HasOpen(job', d, IndexWork, me)
        /\ \/ AddsIndexWork(d)
           \/ /\ new.document_indexed = row.document_indexed
              /\ Filed(new) => Filed(row) /\ new.inbox = row.inbox
    BY <2>1, <2>3, IndexWorkAdded
    DEF KeepsFiling, IndexOutside, WillIndexStays, Filed
  <2>5. WillIndex(d, me)' <=> HasOpen(job', d, IndexWork, me)
    BY <1>1, <2>1 DEF WillIndex
  <2>6. ASSUME SeenFiling(r)
        PROVE  SeenFiling(r)'
    <3>1. /\ new.inbox => seen.inbox
          /\ TypeOf(r) = "indexing" => run[r].read = pages[d]
      BY <2>4, <2>6 DEF SeenFiling
    <3>2. ASSUME Uncancelled'
          PROVE  /\ seen.document_indexed /\ ~new.document_indexed
                      => HasOpen(job', d, IndexWork, me)
                 /\ seen.inbox /\ Filed(new) => HasOpen(job', d, IndexWork, me)
      BY <2>4, <2>6, <3>2 DEF SeenFiling
    <3> QED
      BY <1>1, <2>1, <3>1, <3>2 DEF SeenFiling, WillIndex
  <2>7. ASSUME OutcomeFiling(r)
        PROVE  OutcomeFiling(r)'
    <3>1. \/ end2.document_indexed = end.document_indexed
          \/ /\ end.document_indexed = row.document_indexed
             /\ end2.document_indexed = new.document_indexed
      BY ColumnNames DEF Write, Final
    <3>2. Final(r)' = end2
      BY <1>1, <2>1 DEF Final
    <3> HIDE DEF end, end2
    <3>3. /\ AddsIndexing(out) => ~new.inbox
          /\ TypeOf(r) \notin {"ocr", "indexing"} =>
               out.chunks = "keep" /\ "document_indexed" \notin out.columns
          /\ TypeOf(r) = "text_extraction" /\ d \in Scanned =>
               \E i \in DOMAIN out.new : out.new[i].type = "ocr"
      BY <2>4, <2>7 DEF OutcomeFiling
    <3>4. TypeOf(r) = "indexing" =>
            /\ out.chunks = run[r].read
            /\ Uncancelled' =>
                 end2.document_indexed \/ HasOpen(job', d, IndexWork, me)
      BY <2>4, <2>7, <3>1 DEF OutcomeFiling, end
    <3>5. TypeOf(r) = "ocr" =>
            /\ "document_indexed" \in out.columns => ~out.doc.document_indexed
            /\ Uncancelled' /\ Filed(new) =>
                 AddsIndexing(out) \/ HasOpen(job', d, IndexWork, me)
      BY <2>4, <2>7 DEF OutcomeFiling
    <3> QED
      BY <1>1, <2>1, <3>2, <3>3, <3>4, <3>5 DEF OutcomeFiling, WillIndex
  <2> QED
    BY <1>1, <1>3, <2>3, <2>6, <2>7 DEF TaskFiling
<1> QED
  BY <1>2, <1>3

\* What a request does about the index, given what it has loaded.
AnswersFiling(new_doc, types, new) ==
  LET seen == api.seen
      adds == \E i \in DOMAIN new : new[i].type \in IndexWork
  IN /\ new_doc \in DocRows /\ new \in Seq(JobFor(api.doc))
     /\ new_doc.inbox => seen.inbox
     /\ seen.is_trashed => new_doc.is_trashed
     /\ new_doc.document_indexed => seen.document_indexed
     /\ types \cap IndexWork # {} => adds
     /\ (\E i \in DOMAIN new : new[i].type = "indexing")
          => seen.inbox /\ ~new_doc.inbox
     /\ \/ adds
        \/ /\ new_doc.document_indexed = seen.document_indexed
           /\ chunks' = chunks
           /\ new_doc.processing_status = seen.processing_status
           /\ \/ new_doc.inbox = seen.inbox
              \/ ~seen.is_trashed /\ new_doc.is_trashed
     /\ \A d \in Docs : d # api.doc => chunks'[d] = chunks[d]

\* The rows that requests write, as to the place and the index.
LEMMA FilingOfRows ==
  ASSUME NEW row \in DocRows
  PROVE  /\ Trashed(row) \in DocRows /\ ~Trashed(row).inbox
         /\ Trashed(row).is_trashed
         /\ Trashed(row).document_indexed = row.document_indexed
         /\ Trashed(row).processing_status = row.processing_status
         /\ Processed(row) \in DocRows /\ ~Processed(row).inbox
         /\ Processed(row).is_trashed = row.is_trashed
         /\ Processed(row).document_indexed = row.document_indexed
         /\ Retried(row) \in DocRows /\ Retried(row).inbox = row.inbox
         /\ Retried(row).is_trashed = row.is_trashed
         /\ Retried(row).document_indexed = row.document_indexed
         /\ Rescanned(row) \in DocRows /\ Rescanned(row).inbox = row.inbox
         /\ Rescanned(row).is_trashed = row.is_trashed
         /\ ~Rescanned(row).document_indexed
  BY DEF Trashed, Processed, Retried, Rescanned, DocRows, ProcessingStatus

LEMMA RequestAnswersFiling ==
  ASSUME Shape, RequestFiles, Request
  PROVE  \E new_doc, types, new :
           AnswersFiling(new_doc, types, new) /\ Answered(new_doc, types, new)
<1> DEFINE d == api.doc
           seen == api.seen
<1>1. api.op # "none"
  BY DEF Request, MoveDocument, TrashDocument, RestoreDocument,
         RetryPreflight, RetryOcr, ReprocessSuggestions, ProcessInbox, Respond
<1>2. d \in Docs /\ seen \in DocRows
  BY <1>1 DEF Shape, RestTyped
<1>3. ASSUME NEW op, NEW new_doc, NEW types, NEW new,
             Respond(op, new_doc, types, new)
      PROVE  api.op = op /\ Answered(new_doc, types, new)
  BY <1>1, <1>3 DEF Respond, Answered, Cancelled
<1>4. \A e \in Docs : e # d => chunks'[e] = chunks[e]
  BY DEF Request, MoveDocument, TrashDocument, RestoreDocument,
     RetryPreflight, RetryOcr, ReprocessSuggestions, ProcessInbox, Shape,
     RestTyped
<1>5. CASE TrashDocument
  <2>1. /\ Respond("trash", Trashed(seen), {}, <<>>) /\ chunks' = chunks
    BY <1>5 DEF TrashDocument, Trashed
  <2>2. ~seen.is_trashed
    BY <1>3, <2>1 DEF RequestFiles
  <2>3. PICK none : none = <<>>
    OBVIOUS
  <2>4. none \in Seq(JobFor(d)) /\ DOMAIN none = {}
    BY <1>2, <2>3, NoJobs
  <2>5. /\ Trashed(seen) \in DocRows /\ ~Trashed(seen).inbox
        /\ Trashed(seen).is_trashed
        /\ Trashed(seen).document_indexed = seen.document_indexed
        /\ Trashed(seen).processing_status = seen.processing_status
    BY <1>2, FilingOfRows
  <2>6. AnswersFiling(Trashed(seen), {}, none)
    BY <1>4, <2>1, <2>2, <2>4, <2>5 DEF AnswersFiling
  <2> QED
    BY <1>3, <2>1, <2>3, <2>6
<1>6. CASE RetryPreflight
  <2> DEFINE a == New("text_extraction", d, 50)
             b == New("thumbnail", d, 60)
  <2>1. Respond("retry_preflight", Retried(seen), PreflightTypes, <<a, b>>)
    BY <1>6 DEF RetryPreflight, Retried
  <2>2. /\ a \in JobFor(d) /\ a.type = "text_extraction"
        /\ b \in JobFor(d) /\ b.type = "thumbnail"
    BY <1>2, NewJob DEF StepTypes
  <2> HIDE DEF a, b
  <2>3. PICK new : new = <<a, b>>
    OBVIOUS
  <2>4. /\ new \in Seq(JobFor(d)) /\ 1 \in DOMAIN new
        /\ new[1].type = "text_extraction"
        /\ \A i \in DOMAIN new : new[i].type # "indexing"
    BY <2>2, <2>3
  <2>5. /\ Retried(seen) \in DocRows /\ Retried(seen).inbox = seen.inbox
        /\ Retried(seen).is_trashed = seen.is_trashed
        /\ Retried(seen).document_indexed = seen.document_indexed
    BY <1>2, FilingOfRows
  <2>6. \E i \in DOMAIN new : new[i].type \in IndexWork
    BY <2>4 DEF IndexWork, Readers
  <2>7. AnswersFiling(Retried(seen), PreflightTypes, new)
    BY <1>4, <2>4, <2>5, <2>6 DEF AnswersFiling
  <2> QED
    BY <1>3, <2>1, <2>3, <2>7
<1>7. CASE RetryOcr
  <2> DEFINE a == New("ocr", d, 45)
  <2>1. Respond("retry_ocr", Rescanned(seen), {"ocr", "indexing"}, <<a>>)
    BY <1>7 DEF RetryOcr, Rescanned
  <2>2. a \in JobFor(d) /\ a.type = "ocr"
    BY <1>2, NewJob DEF StepTypes
  <2> HIDE DEF a
  <2>3. PICK new : new = <<a>>
    OBVIOUS
  <2>4. /\ new \in Seq(JobFor(d)) /\ 1 \in DOMAIN new
        /\ new[1].type = "ocr"
        /\ \A i \in DOMAIN new : new[i].type # "indexing"
    BY <2>2, <2>3
  <2>5. /\ Rescanned(seen) \in DocRows /\ Rescanned(seen).inbox = seen.inbox
        /\ Rescanned(seen).is_trashed = seen.is_trashed
        /\ ~Rescanned(seen).document_indexed
    BY <1>2, FilingOfRows
  <2>6. \E i \in DOMAIN new : new[i].type \in IndexWork
    BY <2>4 DEF IndexWork, Readers
  <2>7. AnswersFiling(Rescanned(seen), {"ocr", "indexing"}, new)
    BY <1>4, <2>4, <2>5, <2>6 DEF AnswersFiling
  <2> QED
    BY <1>3, <2>1, <2>3, <2>7
<1>8. CASE ReprocessSuggestions
  <2> DEFINE a == New("metadata_suggestion", d, 70)
             types == {"metadata_suggestion"}
  <2>1. Respond("reprocess_suggestions", seen, types, <<a>>) /\ chunks' = chunks
    BY <1>8 DEF ReprocessSuggestions
  <2>2. a \in JobFor(d) /\ a.type = "metadata_suggestion"
    BY <1>2, NewJob DEF StepTypes
  <2> HIDE DEF a
  <2>3. PICK new : new = <<a>>
    OBVIOUS
  <2>4. /\ new \in Seq(JobFor(d))
        /\ \A i \in DOMAIN new : new[i].type # "indexing"
    BY <2>2, <2>3
  <2>5. types \cap IndexWork = {}
    BY DEF IndexWork, Readers
  <2>6. AnswersFiling(seen, types, new)
    BY <1>2, <1>4, <2>1, <2>4, <2>5 DEF AnswersFiling
  <2> QED
    BY <1>3, <2>1, <2>3, <2>6
<1>9. CASE ProcessInbox
  <2> DEFINE a == New("indexing", d, 40)
  <2>1. /\ Respond("process", Processed(seen), {},
                   IF seen.document_indexed THEN <<>> ELSE <<a>>)
        /\ chunks' = chunks
    BY <1>9 DEF ProcessInbox, Processed
  <2>2. a \in JobFor(d) /\ a.type = "indexing"
    BY <1>2, NewJob DEF StepTypes
  <2> HIDE DEF a
  <2>3. seen.inbox /\ ~seen.document_indexed
    BY <1>3, <2>1 DEF RequestFiles
  <2>4. PICK new : new = <<a>>
    OBVIOUS
  <2>5. new \in Seq(JobFor(d)) /\ 1 \in DOMAIN new /\ new[1].type = "indexing"
    BY <2>2, <2>4
  <2>6. /\ Processed(seen) \in DocRows /\ ~Processed(seen).inbox
        /\ Processed(seen).is_trashed = seen.is_trashed
        /\ Processed(seen).document_indexed = seen.document_indexed
    BY <1>2, FilingOfRows
  <2>7. \E i \in DOMAIN new : new[i].type \in IndexWork
    BY <2>5 DEF IndexWork
  <2>8. AnswersFiling(Processed(seen), {}, new)
    BY <1>4, <2>3, <2>5, <2>6, <2>7 DEF AnswersFiling
  <2> QED
    BY <1>3, <2>1, <2>3, <2>4, <2>8
<1>10. CASE MoveDocument \/ RestoreDocument
  BY <1>3, <1>10 DEF MoveDocument, RestoreDocument, RequestFiles
<1> QED
  BY <1>5, <1>6, <1>7, <1>8, <1>9, <1>10 DEF Request

\* A cancellation closes open rows only.
LEMMA CancelledFailures ==
  ASSUME Shape, NEW d, NEW types, NEW j \in DOMAIN job
  PROVE  Cancelled(d, types)[j].status = "failed" <=> job[j].status = "failed"
<1>1. job[j] \in JobRow
  BY LenProperties, ElementOfSeq DEF Shape
<1>2. j \in OpenJobs(job, d, types, 0) =>
        /\ CancelRow(job[j]).status = "cancelled"
        /\ job[j].status # "failed"
  BY <1>1 DEF OpenJobs, OpenStatuses, CancelRow, JobRow, Row
<1> QED
  BY <1>2 DEF Cancelled

LEMMA RequestIndex ==
  ASSUME Shape, Existing, RequestFiles, Request
  PROVE  IndexOutside
<1>1. Outside /\ Grows(job, job')
  BY RequestOutside, RequestShape
<1>2. PICK new_doc, types, new :
        AnswersFiling(new_doc, types, new) /\ Answered(new_doc, types, new)
  BY RequestAnswersFiling
<1>3. api.doc \in Docs /\ api.seen \in DocRows
  BY RequestAnswers
<1> DEFINE seen == api.seen
           row == doc[api.doc]
           columns == Changed(seen, new_doc)
           end == Write(row, columns, new_doc)
           mid == Cancelled(api.doc, types)
<1>4. /\ doc' = [doc EXCEPT ![api.doc] = end] /\ job' = mid \o new
  BY <1>2 DEF Answered
<1>5. /\ new \in Seq(JobFor(api.doc)) /\ new \in Seq(JobRow)
      /\ \A i \in DOMAIN new : new[i] \in JobFor(api.doc)
  BY <1>2, <1>3, JobRowIsRow, SeqMonotonic, LenProperties, ElementOfSeq
  DEF AnswersFiling
<1>6. /\ mid \in [DOMAIN job -> JobRow]
      /\ \A j \in DOMAIN job :
           /\ mid[j].status = "failed" <=> job[j].status = "failed"
           /\ ~(job[j].doc = api.doc /\ job[j].type \in types) => mid[j] = job[j]
  BY CancelledRows, CancelledFailures
<1> HIDE DEF mid
<1>7. AppendsTo(job, mid, new, job')
  BY <1>4, <1>5, <1>6, Appended DEF Shape
<1>8. /\ \A j \in DOMAIN job : job'[j] = mid[j]
      /\ \A i \in DOMAIN new : \E j \in DOMAIN job' :
           j \notin DOMAIN job /\ job'[j] = new[i]
      /\ \A j \in DOMAIN job' \ DOMAIN job :
           \E i \in DOMAIN new : job'[j] = new[i]
  BY <1>7 DEF AppendsTo
<1>9. ASSUME NEW i \in DOMAIN new, new[i].type \in IndexWork
      PROVE  AddsIndexWork(api.doc)
  BY <1>5, <1>8, <1>9 DEF AddsIndexWork, JobFor
<1>10. FailuresStay
  BY <1>6, <1>8 DEF FailuresStay
<1>11. WillIndexStays
  <2>1. ASSUME NEW d \in Docs, NEW me \in {0} \cup DOMAIN job, WillIndex(d, me)
        PROVE  HasOpen(job', d, IndexWork, me)
    <3>1. CASE d = api.doc /\ types \cap IndexWork # {}
      <4>1. AddsIndexWork(d)
        BY <1>2, <1>9, <3>1 DEF AnswersFiling
      <4> QED
        BY <1>1, <4>1, IndexWorkAdded
    <3>2. CASE ~(d = api.doc /\ types \cap IndexWork # {})
      <4>1. \A j \in OpenJobs(job, d, IndexWork, me) :
              job'[j].status \in OpenStatuses
        BY <1>6, <1>8, <3>2 DEF OpenJobs
      <4> QED
        BY <1>1, <2>1, <4>1, OpenSurvives DEF WillIndex
    <3> QED
      BY <3>1, <3>2
  <2> QED
    BY <2>1 DEF WillIndexStays
<1>12. row \in DocRows /\ new_doc \in DocRows
  BY <1>2, <1>3 DEF Shape, RestTyped, AnswersFiling
<1>13. \A c \in Columns :
         /\ c \in columns => end[c] = new_doc[c] /\ new_doc[c] # seen[c]
         /\ c \notin columns => end[c] = row[c] /\ new_doc[c] = seen[c]
  BY DEF Write, Changed
<1> HIDE DEF end, columns
<1>14. \A d \in Docs : doc'[d] = IF d = api.doc THEN end ELSE doc[d]
  BY <1>3, <1>4 DEF Shape, RestTyped
<1>15. KeepsFiling(api.doc)
  <2>1. /\ end.inbox => row.inbox
        /\ row.is_trashed => end.is_trashed
        /\ end.document_indexed => row.document_indexed
    BY <1>2, <1>3, <1>12, <1>13, ColumnNames DEF AnswersFiling, DocRows
  <2>2. CASE \E i \in DOMAIN new : new[i].type \in IndexWork
    BY <1>3, <1>9, <1>14, <2>1, <2>2 DEF KeepsFiling
  <2>3. CASE ~\E i \in DOMAIN new : new[i].type \in IndexWork
    <3>1. /\ new_doc.document_indexed = seen.document_indexed
          /\ chunks' = chunks
          /\ new_doc.processing_status = seen.processing_status
          /\ \/ new_doc.inbox = seen.inbox
             \/ ~seen.is_trashed /\ new_doc.is_trashed
      BY <1>2, <2>3 DEF AnswersFiling
    <3>2. /\ end.document_indexed = row.document_indexed
          /\ end.processing_status = row.processing_status
          /\ end.inbox = row.inbox \/ end.is_trashed
      BY <1>3, <1>12, <1>13, <3>1, ColumnNames DEF DocRows
    <3> QED
      BY <1>3, <1>14, <2>1, <3>1, <3>2 DEF KeepsFiling
  <2> QED
    BY <2>2, <2>3
<1>16. ASSUME NEW d \in Docs, d # api.doc
       PROVE  KeepsFiling(d)
  BY <1>2, <1>14, <1>16 DEF KeepsFiling, AnswersFiling
<1>17. ASSUME NEW j \in DOMAIN job' \ DOMAIN job, job'[j].type = "indexing"
       PROVE  ~doc'[job'[j].doc].inbox
  <2>1. /\ job'[j].doc = api.doc
        /\ \E i \in DOMAIN new : new[i].type = "indexing"
    BY <1>5, <1>8, <1>17 DEF JobFor
  <2>2. seen.inbox /\ ~new_doc.inbox
    BY <1>2, <2>1 DEF AnswersFiling
  <2>3. ~end.inbox
    BY <1>13, <2>2, ColumnNames
  <2> QED
    BY <1>3, <1>14, <2>1, <2>3
<1> QED
  BY <1>1, <1>10, <1>11, <1>15, <1>16, <1>17 DEF IndexOutside

LEMMA SameFiling ==
  ASSUME NEW d \in Docs, doc'[d] = doc[d], chunks' = chunks
  PROVE  KeepsFiling(d)
  BY DEF KeepsFiling

LEMMA IngestIndex ==
  ASSUME Shape, Existing, NEW d \in Docs, Ingest(d)
  PROVE  IndexOutside
<1> DEFINE a == New("text_extraction", d, 50)
           b == New("thumbnail", d, 60)
           new == <<a, b>>
<1>1. /\ a \in JobFor(d) /\ b \in JobFor(d)
      /\ a.type = "text_extraction" /\ b.type = "thumbnail"
  BY NewJob DEF StepTypes
<1> HIDE DEF a, b
<1>2. /\ new \in Seq(JobRow) /\ 1 \in DOMAIN new /\ new[1] = a
      /\ \A i \in DOMAIN new :
           new[i] \in JobFor(d) /\ new[i].type # "indexing"
  BY <1>1, JobRowIsRow
<1>3. job' = job \o new /\ chunks' = chunks
  BY DEF Ingest, a, b
<1> HIDE DEF new
<1>4. Outside /\ Grows(job, job')
  BY IngestOutside, IngestShape
<1>5. AppendsTo(job, job, new, job')
  <2>1. job \in [DOMAIN job -> JobRow] /\ job \in Seq(JobRow)
    BY LenProperties DEF Shape
  <2> QED
    BY <1>2, <1>3, <2>1, Appended
<1>6. AddsIndexWork(d)
  BY <1>1, <1>2, <1>5 DEF AppendsTo, AddsIndexWork, JobFor, IndexWork, Readers
<1>7. \A j \in DOMAIN job' \ DOMAIN job : job'[j].type # "indexing"
  BY <1>2, <1>5 DEF AppendsTo
<1>8. \A j \in DOMAIN job : job'[j] = job[j]
  BY <1>5 DEF AppendsTo
<1>9. WillIndexStays /\ FailuresStay
  BY <1>4, <1>8, OpenSurvives DEF WillIndexStays, FailuresStay, WillIndex, OpenJobs
<1>10. /\ ~doc[d].exists /\ ~doc'[d].document_indexed
       /\ \A e \in Docs \ {d} : doc'[e] = doc[e]
  BY DEF Ingest, NewDoc, Shape, RestTyped
<1> QED
  BY <1>3, <1>4, <1>6, <1>7, <1>9, <1>10, SameFiling DEF IndexOutside

LEMMA LoadRequestIndex ==
  ASSUME Shape, Existing, NEW d \in Docs, NEW op \in Operations,
         LoadRequest(op, d)
  PROVE  IndexOutside
<1>1. UNCHANGED <<job, doc, chunks>> /\ Outside
  BY LoadRequestOutside DEF LoadRequest
<1>2. WillIndexStays /\ FailuresStay
  BY <1>1 DEF WillIndexStays, FailuresStay, WillIndex
<1>3. \A e \in Docs : KeepsFiling(e)
  BY <1>1, SameFiling
<1> QED
  BY <1>1, <1>2, <1>3 DEF IndexOutside

LEMMA CancelIndex ==
  ASSUME Shape, Existing, left["cancel"] <= MaxRequests["cancel"],
         NEW j \in DOMAIN job, CancelJob(j)
  PROVE  IndexOutside
<1>1. /\ Outside /\ ~Uncancelled' /\ UNCHANGED <<doc, chunks>>
      /\ DOMAIN job' = DOMAIN job
  BY CancelOutside DEF CancelJob
<1>2. /\ job[j] \in JobRow /\ job[j].status \in OpenStatuses
      /\ job' = [job EXCEPT ![j] = CancelRow(job[j])]
  BY LenProperties, ElementOfSeq DEF Shape, CancelJob
<1>3. /\ CancelRow(job[j]).status = "cancelled"
      /\ job[j].status # "failed"
  BY <1>2 DEF OpenStatuses, CancelRow, JobRow, Row
<1>4. FailuresStay
  BY <1>2, <1>3 DEF FailuresStay
<1>5. \A e \in Docs : KeepsFiling(e)
  BY <1>1, SameFiling
<1> QED
  BY <1>1, <1>4, <1>5 DEF IndexOutside

----------------------------------------------------------------------------
(* The steps of a task, as to the index.                                   *)

\* Until it ends a task writes no row.
LEMMA OwnFiling ==
  ASSUME NEW r \in Runs, UNCHANGED <<job, doc, left>>,
         run'[r].job = run[r].job, run'[r].seen = run[r].seen,
         run'[r].read = run[r].read,
         TypeOf(r) = "indexing" => pages' = pages
  PROVE  /\ SeenFiling(r) => SeenFiling(r)'
         /\ run'[r].out = run[r].out /\ OutcomeFiling(r) => OutcomeFiling(r)'
         /\ job[run[r].job].status # "failed"
              => job'[run'[r].job].status # "failed"
<1> DEFINE d == DocOf(r)
           me == run[r].job
<1>1. DocOf(r)' = d /\ TypeOf(r)' = TypeOf(r) /\ Uncancelled' = Uncancelled
  BY DEF DocOf, TypeOf, Uncancelled
<1>2. WillIndex(d, me)' = WillIndex(d, me)
  BY <1>1 DEF WillIndex
<1>3. SeenFiling(r) => SeenFiling(r)'
  BY <1>1, <1>2 DEF SeenFiling
<1>4. ASSUME run'[r].out = run[r].out, OutcomeFiling(r)
      PROVE  OutcomeFiling(r)'
  <2>1. Final(r)' = Final(r)
    BY <1>1, <1>4 DEF Final
  <2> QED
    BY <1>1, <1>2, <1>4, <2>1, Zenon DEF OutcomeFiling, AddsIndexing
<1> QED
  BY <1>3, <1>4

LEMMA LoadFiling ==
  ASSUME Shape, NEW r \in Runs, TaskFiling(r), LoadDocument(r)
  PROVE  TaskFiling(r)'
<1>1. /\ run[r].pc = "load" /\ UNCHANGED <<job, doc, pages, left>>
      /\ run' = [run EXCEPT ![r].pc = FirstStep[TypeOf(r)],
                            ![r].seen = doc[DocOf(r)],
                            ![r].read = pages[DocOf(r)]]
  BY DEF LoadDocument
<1>2. TypeOf(r) \in StepTypes /\ DocOf(r) \in Docs /\ run[r] \in Tasks
  BY <1>1, TaskJob
<1>3. /\ run'[r].pc = FirstStep[TypeOf(r)] /\ run'[r].job = run[r].job
      /\ run'[r].seen = doc[DocOf(r)] /\ run'[r].read = pages[DocOf(r)]
  BY <1>1, <1>2 DEF Shape, Tasks
<1>4. run'[r].pc \in {"clear", "finish", "check"}
  BY <1>2, <1>3 DEF FirstStep, StepTypes
<1>5. DocOf(r)' = DocOf(r)
  BY <1>1, <1>3 DEF DocOf
<1>6. SeenFiling(r)'
  BY <1>1, <1>3, <1>5 DEF SeenFiling, Filed
<1>7. ~Decided(r)' /\ job'[run'[r].job].status # "failed"
  BY <1>1, <1>3, <1>4 DEF Decided, TaskFiling
<1> QED
  BY <1>6, <1>7 DEF TaskFiling

LEMMA HandlingFiling ==
  ASSUME Shape, NEW r \in Runs, TaskFiling(r),
         \/ ClearPages(r) \/ EnterOcr(r) \/ FirstPages(r) \/ LastPages(r)
         \/ FlushStatus(r) \/ HandlerRaises(r)
  PROVE  TaskFiling(r)'
<1>1. /\ run[r] \in Tasks /\ run[r].pc \notin {"idle"}
      /\ UNCHANGED <<job, doc, left>>
  BY DEF Shape, ClearPages, EnterOcr, FirstPages, LastPages, FlushStatus,
         HandlerRaises
<1>2. job[run[r].job].status # "failed"
  BY <1>1 DEF TaskFiling
<1>3. CASE HandlerRaises(r)
  <2>1. run'[r].pc = "failed" /\ run'[r].job = run[r].job
    BY <1>3 DEF HandlerRaises, Shape, Idle
  <2> QED
    BY <1>1, <1>2, <2>1 DEF TaskFiling, Loaded, Decided
<1>4. CASE ~HandlerRaises(r)
  <2>1. \/ run' = run /\ run[r].pc = "ocr"
        \/ \E pc \in {"enter", "ocr", "finish", "commit"} : MovesTo(r, pc)
    BY <1>4 DEF ClearPages, EnterOcr, FirstPages, LastPages, FlushStatus,
       MovesTo
  <2>2. /\ run'[r].job = run[r].job /\ run'[r].seen = run[r].seen
        /\ run'[r].read = run[r].read /\ run'[r].out = run[r].out
    BY <1>1, <2>1 DEF MovesTo, Shape, Tasks
  <2>3. Loaded(r) /\ (Decided(r)' => Decided(r))
    <3>1. CASE FlushStatus(r)
      BY <3>1 DEF FlushStatus, Loaded, Decided
    <3>2. CASE ~FlushStatus(r)
      <4>1. /\ run[r].pc \in {"clear", "enter", "ocr"}
            /\ run' = run \/ \E pc \in {"enter", "ocr", "finish"} :
                               run' = [run EXCEPT ![r].pc = pc]
        BY <1>4, <3>2 DEF ClearPages, EnterOcr, FirstPages, LastPages
      <4>2. run'[r].pc \in {"clear", "enter", "ocr", "finish"}
        BY <1>1, <4>1 DEF Shape, Tasks
      <4> QED
        BY <4>1, <4>2 DEF Loaded, Decided
    <3> QED
      BY <3>1, <3>2
  <2>4. TypeOf(r) = "indexing" => pages' = pages
    <3>1. CASE ClearPages(r) \/ FirstPages(r) \/ LastPages(r)
      <4>1. TypeOf(r) \in Readers
        BY <3>1, TaskJob DEF ClearPages, FirstPages, LastPages
      <4> QED
        BY <4>1 DEF Readers
    <3>2. CASE EnterOcr(r) \/ FlushStatus(r)
      BY <3>2 DEF EnterOcr, FlushStatus
    <3> QED
      BY <1>4, <3>1, <3>2
  <2>5. /\ SeenFiling(r)'
        /\ Decided(r) => OutcomeFiling(r)'
        /\ job'[run'[r].job].status # "failed"
    BY <1>1, <1>2, <2>2, <2>3, <2>4, OwnFiling DEF TaskFiling
  <2> QED
    BY <2>3, <2>5 DEF TaskFiling
<1> QED
  BY <1>3, <1>4

\* What a handler does about the index, given what it has loaded, fits the row.
LEMMA FinishFiling ==
  ASSUME Shape, NEW r \in Runs, TaskFiling(r), Finish(r)
  PROVE  TaskFiling(r)'
<1>1. /\ run[r].pc \in {"finish", "check", "ask"}
      /\ \/ \E out : Settles(r, out) /\ Sound(r, out) /\ Indexes(r, out)
         \/ Asks(r)
  BY FinishSettles
<1>2. /\ run[r] \in Tasks /\ DocOf(r) \in Docs
      /\ SeenFiling(r) /\ job[run[r].job].status # "failed"
  BY <1>1, TaskJob DEF Loaded, TaskFiling
<1>3. ASSUME NEW out, Settles(r, out), Indexes(r, out)
      PROVE  TaskFiling(r)'
  <2> DEFINE d == DocOf(r)
             me == run[r].job
             seen == run[r].seen
             row == doc[d]
             view == Write(seen, out.columns, out.doc)
             end == Write(row, out.columns, out.doc)
  <2>1. /\ UNCHANGED <<job, doc, pages, left>>
        /\ run'[r].pc \in {"flush", "commit"} /\ run'[r].out = out
        /\ run'[r].job = me /\ run'[r].seen = seen
        /\ run'[r].read = run[r].read
    BY <1>2, <1>3 DEF Settles, Shape, Tasks
  <2>2. SeenFiling(r)' /\ job'[run'[r].job].status # "failed"
    BY <1>2, <2>1, OwnFiling
  <2>3. /\ DocOf(r)' = d /\ TypeOf(r)' = TypeOf(r) /\ Uncancelled' = Uncancelled
    BY <2>1 DEF DocOf, TypeOf, Uncancelled
  <2>4. WillIndex(d, me)' = WillIndex(d, me) /\ Final(r)' = end
    BY <2>1, <2>3 DEF WillIndex, Final
  <2>5. \/ "document_indexed" \in out.columns /\ end.document_indexed = out.doc.document_indexed
             /\ view.document_indexed = out.doc.document_indexed
        \/ /\ "document_indexed" \notin out.columns
           /\ end.document_indexed = row.document_indexed
           /\ view.document_indexed = seen.document_indexed
    BY ColumnNames DEF Write
  <2> HIDE DEF view, end
  <2>6. /\ AddsIndexing(out) => ~seen.inbox
        /\ TypeOf(r) \notin {"ocr", "indexing"} =>
             out.chunks = "keep" /\ "document_indexed" \notin out.columns
        /\ TypeOf(r) = "indexing" =>
             out.chunks = run[r].read /\ view.document_indexed
        /\ TypeOf(r) = "ocr" =>
             /\ ~view.document_indexed
             /\ ~seen.inbox => AddsIndexing(out) \/ HasOpen(job, d, {"indexing"}, 0)
        /\ TypeOf(r) = "text_extraction" /\ d \in Scanned =>
             \E i \in DOMAIN out.new : out.new[i].type = "ocr"
    BY <1>2, <1>3 DEF Indexes, view
  <2>7. /\ row.inbox => seen.inbox
        /\ Uncancelled =>
             /\ seen.document_indexed /\ ~row.document_indexed
                  => WillIndex(d, me)
             /\ seen.inbox /\ Filed(row) => WillIndex(d, me)
    BY <1>2 DEF SeenFiling
  <2>8. TypeOf(r) = "ocr" /\ HasOpen(job, d, {"indexing"}, 0)
          => WillIndex(d, me)
    BY DEF WillIndex, HasOpen, OpenJobs, IndexWork, TypeOf
  <2>9. /\ AddsIndexing(out) => ~row.inbox
        /\ TypeOf(r) = "indexing" /\ Uncancelled =>
             end.document_indexed \/ WillIndex(d, me)
        /\ TypeOf(r) = "ocr" =>
             /\ "document_indexed" \in out.columns => ~out.doc.document_indexed
             /\ Uncancelled /\ Filed(row) =>
                  AddsIndexing(out) \/ WillIndex(d, me)
    BY <2>5, <2>6, <2>7, <2>8
  <2>10. OutcomeFiling(r)'
    <3>1. /\ DocOf(r)' = d /\ TypeOf(r)' = TypeOf(r) /\ doc'[d] = row
          /\ run'[r].out = out /\ run'[r].job = me
          /\ run'[r].read = run[r].read
          /\ WillIndex(d, me)' = WillIndex(d, me) /\ Final(r)' = end
          /\ AddsIndexing(run'[r].out) = AddsIndexing(out)
          /\ Uncancelled' = Uncancelled
      BY <2>1, <2>3, <2>4
    <3>2. /\ TypeOf(r) \notin {"ocr", "indexing"} =>
               out.chunks = "keep" /\ "document_indexed" \notin out.columns
          /\ TypeOf(r) = "indexing" => out.chunks = run[r].read
          /\ TypeOf(r) = "text_extraction" /\ d \in Scanned =>
               \E i \in DOMAIN out.new : out.new[i].type = "ocr"
      BY <2>6
    <3> QED
      BY <2>9, <3>1, <3>2, Zenon DEF OutcomeFiling
  <2> QED
    BY <2>2, <2>10 DEF TaskFiling
<1>4. CASE Asks(r)
  <2>1. /\ UNCHANGED <<job, doc, pages, left>> /\ run'[r].pc = "ask"
        /\ run'[r].job = run[r].job /\ run'[r].seen = run[r].seen
        /\ run'[r].read = run[r].read
    BY <1>2, <1>4 DEF Asks, Shape, Tasks
  <2>2. SeenFiling(r)' /\ job'[run'[r].job].status # "failed"
    BY <1>2, <2>1, OwnFiling
  <2> QED
    BY <2>1, <2>2 DEF TaskFiling, Decided
<1> QED
  BY <1>1, <1>3, <1>4

\* Before a task ends, what is filed stays indexed or will be.
LEMMA OwnIndex ==
  ASSUME Shape, NEW r \in Runs, TaskInv(r), InboxIsUnindexed, FiledIsIndexed,
         \/ LoadDocument(r) \/ ClearPages(r) \/ EnterOcr(r) \/ FirstPages(r)
         \/ LastPages(r) \/ Finish(r) \/ FlushStatus(r) \/ HandlerRaises(r)
  PROVE  InboxIsUnindexed' /\ FiledIsIndexed'
<1>1. /\ job' = job /\ doc' = doc /\ left' = left
      /\ \A d \in Docs : pages'[d] # pages[d] /\ Uncancelled =>
           HasOpen(job, d, Readers, 0)
  BY WorkPages
<1>2. chunks' = chunks
  BY DEF LoadDocument, ClearPages, EnterOcr, FirstPages,
     LastPages, Finish, FinishTextExtraction, FinishOcr, FinishThumbnail,
     FinishIndexing, CheckSuggestion, FinishSuggestion, Decide, Prepare,
     FlushStatus, HandlerRaises
<1>3. \A d : HasOpen(job, d, Readers, 0) => WillIndex(d, 0)
  BY DEF WillIndex, HasOpen, OpenJobs, IndexWork
<1>4. InboxIsUnindexed'
  BY <1>1 DEF InboxIsUnindexed
<1>5. ASSUME NEW d \in Docs
      PROVE  /\ WillIndex(d, 0)' = WillIndex(d, 0)
             /\ IndexingFailed(d)' = IndexingFailed(d)
             /\ Uncancelled' = Uncancelled
  BY <1>1 DEF WillIndex, IndexingFailed, Uncancelled
<1>6. FiledIsIndexed'
  BY <1>1, <1>2, <1>3, <1>5, KindsAssumption DEF FiledIsIndexed
<1> QED
  BY <1>4, <1>6

\* Steps that write no documents and close no rows but those of trashed ones.
LEMMA RowsMove ==
  ASSUME Shape, InboxIsUnindexed, FiledIsIndexed, FailuresStay,
         UNCHANGED <<doc, pages, chunks>>, left'["cancel"] = left["cancel"],
         Grows(job, job'), DOMAIN job' = DOMAIN job,
         \A j \in DOMAIN job :
           job[j].status \in OpenStatuses /\ ~doc[job[j].doc].is_trashed
             => job'[j].status \in OpenStatuses
  PROVE  InboxIsUnindexed' /\ FiledIsIndexed'
<1>1. InboxIsUnindexed'
  BY DEF InboxIsUnindexed, Grows
<1>2. ASSUME NEW d \in Docs, ~doc[d].is_trashed, WillIndex(d, 0)
      PROVE  HasOpen(job', d, IndexWork, 0)
  <2>1. \A j \in OpenJobs(job, d, IndexWork, 0) : job'[j].status \in OpenStatuses
    BY <1>2 DEF OpenJobs
  <2> QED
    BY <1>2, <2>1, OpenSurvives DEF WillIndex
<1>3. \A d : IndexingFailed(d) => IndexingFailed(d)'
  BY DEF IndexingFailed, FailuresStay, Grows
<1>4. \A d \in Docs : WillIndex(d, 0)' <=> HasOpen(job', d, IndexWork, 0)
  BY DEF WillIndex
<1>5. FiledIsIndexed'
  BY <1>2, <1>3, <1>4, KindsAssumption DEF FiledIsIndexed, Filed, Uncancelled
<1> QED
  BY <1>1, <1>5

LEMMA ClaimIndex ==
  ASSUME Shape, NEW r \in Runs, InboxIsUnindexed, FiledIsIndexed, Claim(r)
  PROVE  InboxIsUnindexed' /\ FiledIsIndexed' /\ TaskFiling(r)'
<1>1. PICK j \in NextJob(job, doc, ActivePreflightDoc(job, doc)) :
        /\ job' = [job EXCEPT ![j] = ClaimRow(job[j])]
        /\ run' = [run EXCEPT ![r].pc = "load", ![r].job = j]
  BY DEF Claim
<1>2. j \in DOMAIN job /\ job[j].status = "queued"
  BY DEF NextJob, Claimable, Available
<1>3. job[j] \in JobRow
  BY <1>2, LenProperties, ElementOfSeq DEF Shape
<1>4. /\ job'[j].status = "running"
      /\ \A k \in DOMAIN job : k # j => job'[k] = job[k]
  BY <1>1, <1>2, <1>3, RowStatuses
<1>5. Grows(job, job') /\ DOMAIN job' = DOMAIN job
  BY <1>1, ClaimShape
<1>6. FailuresStay
  BY <1>2, <1>4 DEF FailuresStay
<1>7. UNCHANGED <<doc, pages, chunks, left>>
  BY DEF Claim
<1>8. \A k \in DOMAIN job :
        job[k].status \in OpenStatuses => job'[k].status \in OpenStatuses
  BY <1>4 DEF OpenStatuses
<1>9. InboxIsUnindexed' /\ FiledIsIndexed'
  BY <1>5, <1>6, <1>7, <1>8, RowsMove
<1>10. TaskFiling(r)'
  <2>1. run'[r].pc = "load" /\ run'[r].job = j
    BY <1>1 DEF Shape, Tasks
  <2> QED
    BY <1>4, <2>1 DEF TaskFiling, Loaded, Decided
<1> QED
  BY <1>9, <1>10

LEMMA RestartIndex ==
  ASSUME Shape, InboxIsUnindexed, FiledIsIndexed, Restart
  PROVE  /\ InboxIsUnindexed' /\ FiledIsIndexed'
         /\ \A r \in Runs : TaskFiling(r)'
<1>1. Grows(job, job') /\ DOMAIN job' = DOMAIN job
  BY RestartShape DEF Restart
<1>2. ASSUME NEW j \in DOMAIN job
      PROVE  /\ job'[j].status = "failed" <=> job[j].status = "failed"
             /\ job[j].status \in OpenStatuses /\ ~doc[job[j].doc].is_trashed
                  => job'[j].status \in OpenStatuses
  <2> DEFINE row == job[j]
             row1 == IF row.status = "running" THEN RequeueRow(row) ELSE row
  <2>1. row \in JobRow /\ job'[j] = StartRow(row)
    BY LenProperties, ElementOfSeq DEF Shape, Restart
  <2>2. /\ RequeueRow(row).doc = row.doc /\ RequeueRow(row).status = "queued"
        /\ CancelTrashedRow(row).status = "cancelled"
        /\ CancelTrashedRow(RequeueRow(row)).status = "cancelled"
    BY <2>1 DEF JobRow, Row, RequeueRow, CancelTrashedRow
  <2>3. /\ row1 \in {row, RequeueRow(row)} /\ row1.doc = row.doc
        /\ row1.status = IF row.status = "running" THEN "queued" ELSE row.status
        /\ CancelTrashedRow(row1).status = "cancelled"
    BY <2>2
  <2>4. job'[j] = IF row1.status \in OpenStatuses /\ doc[row1.doc].is_trashed
                  THEN CancelTrashedRow(row1) ELSE row1
    BY <2>1 DEF StartRow
  <2> HIDE DEF row, row1
  <2>5. /\ job'[j].status = "failed" <=> row.status = "failed"
        /\ row.status \in OpenStatuses /\ ~doc[row.doc].is_trashed
             => job'[j].status \in OpenStatuses
    BY <2>3, <2>4 DEF OpenStatuses
  <2> QED
    BY <2>5 DEF row
<1>3. FailuresStay
  BY <1>2 DEF FailuresStay
<1>4. UNCHANGED <<doc, pages, chunks>> /\ left'["cancel"] = left["cancel"]
  BY DEF Restart, Spend, Shape, RestTyped, Requests
<1>5. InboxIsUnindexed' /\ FiledIsIndexed'
  BY <1>1, <1>2, <1>3, <1>4, RowsMove
<1>6. \A r \in Runs : run'[r].pc = "idle"
  BY IdleTask DEF Restart
<1> QED
  BY <1>5, <1>6 DEF TaskFiling, Loaded, Decided

\* What the invariant says of one document.
FilingFits(d) ==
  /\ doc[d].inbox =>
       /\ ~doc[d].document_indexed
       /\ \A j \in DOMAIN job : job[j].doc = d => job[j].type # "indexing"
  /\ d \in Scanned /\ doc[d].exists /\ Filed(doc[d]) /\ Uncancelled =>
       \/ doc[d].document_indexed /\ chunks[d] = pages[d]
       \/ WillIndex(d, 0)
       \/ IndexingFailed(d)
       \/ doc[d].processing_status = "failed"

LEMMA FilingFitsAll ==
  (InboxIsUnindexed /\ FiledIsIndexed) <=> \A d \in Docs : FilingFits(d)
  BY KindsAssumption DEF InboxIsUnindexed, FiledIsIndexed, FilingFits

\* The rows of others, when a task has ended.
LEMMA EndIndex ==
  ASSUME Shape, NEW r \in Runs, run[r].pc # "idle", TaskFiling(r),
         Grows(job, job'), left' = left,
         \A j \in DOMAIN job : j # run[r].job => job'[j] = job[j],
         \A d \in Docs : FilingFits(d),
         \A d \in Docs : d # DocOf(r) =>
           doc'[d] = doc[d] /\ pages'[d] = pages[d] /\ chunks'[d] = chunks[d],
         \A j \in DOMAIN job' \ DOMAIN job : job'[j].doc = DocOf(r)
  PROVE  \A d \in Docs :
           /\ IndexingFailed(d) => IndexingFailed(d)'
           /\ WillIndex(d, run[r].job) => HasOpen(job', d, IndexWork, 0)
           /\ WillIndex(d, 0) => \/ HasOpen(job', d, IndexWork, 0)
                                 \/ d = DocOf(r) /\ TypeOf(r) \in IndexWork
           /\ d # DocOf(r) => FilingFits(d)'
<1> DEFINE me == run[r].job
<1>1. /\ me \in DOMAIN job /\ DocOf(r) \in Docs /\ job[me].status # "failed"
      /\ Uncancelled' = Uncancelled
  BY TaskJob DEF TaskFiling, Uncancelled
<1> SUFFICES ASSUME NEW d \in Docs
             PROVE  /\ IndexingFailed(d) => IndexingFailed(d)'
                    /\ WillIndex(d, me) => HasOpen(job', d, IndexWork, 0)
                    /\ WillIndex(d, 0) =>
                         \/ HasOpen(job', d, IndexWork, 0)
                         \/ d = DocOf(r) /\ TypeOf(r) \in IndexWork
                    /\ d # DocOf(r) => FilingFits(d)'
  OBVIOUS
<1>2. IndexingFailed(d) => IndexingFailed(d)'
  BY <1>1 DEF IndexingFailed, Grows
<1>3. WillIndex(d, me) => HasOpen(job', d, IndexWork, 0)
  BY EndOpen DEF WillIndex
<1>4. WillIndex(d, 0) => \/ HasOpen(job', d, IndexWork, 0)
                         \/ d = DocOf(r) /\ TypeOf(r) \in IndexWork
  BY EndOpen DEF WillIndex
<1>5. ASSUME d # DocOf(r)
      PROVE  FilingFits(d)'
  <2>1. doc'[d] = doc[d] /\ pages'[d] = pages[d] /\ chunks'[d] = chunks[d]
    BY <1>5
  <2>2. doc[d].inbox =>
          /\ ~doc[d].document_indexed
          /\ \A j \in DOMAIN job' : job'[j].doc = d => job'[j].type # "indexing"
    <3>1. \A j \in DOMAIN job :
            job'[j].doc = job[j].doc /\ job'[j].type = job[j].type
      BY DEF Grows
    <3>2. \A j \in DOMAIN job' \ DOMAIN job : job'[j].doc # d
      BY <1>5
    <3> QED
      BY <3>1, <3>2 DEF FilingFits
  <2>3. WillIndex(d, 0)' <=> HasOpen(job', d, IndexWork, 0)
    BY DEF WillIndex
  <2>4. d \in Scanned /\ doc[d].exists /\ Filed(doc[d]) /\ Uncancelled =>
          \/ doc[d].document_indexed /\ chunks[d] = pages[d]
          \/ WillIndex(d, 0)'
          \/ IndexingFailed(d)'
          \/ doc[d].processing_status = "failed"
    BY <1>2, <1>4, <1>5, <2>3 DEF FilingFits
  <2> QED
    BY <1>1, <2>1, <2>2, <2>4 DEF FilingFits
<1> QED
  BY <1>2, <1>3, <1>4, <1>5

LEMMA CommitIndex ==
  ASSUME Shape, NEW r \in Runs, TaskInv(r), TaskFiling(r),
         \A d \in Docs : FilingFits(d), Commit(r)
  PROVE  \A d \in Docs : FilingFits(d)'
<1> DEFINE me == run[r].job
           out == run[r].out
           row == doc[DocOf(r)]
           end == Final(r)
<1>1. /\ run[r].pc = "commit" /\ run'[r].pc = "idle" /\ DocOf(r) \in Docs
      /\ OutcomeFits(r) /\ Decided(r) /\ out \in OutcomeFor(DocOf(r))
      /\ doc' = [doc EXCEPT ![DocOf(r)] = end]
      /\ end.exists = row.exists /\ end.is_trashed = row.is_trashed
      /\ \A e \in Docs : pages'[e] =
           IF e = DocOf(r) /\ out.pages # "keep" THEN out.pages ELSE pages[e]
      /\ Grows(job, job') /\ left' = left
      /\ job' = [job EXCEPT ![me] = Completed(job[me])] \o out.new
  BY CommitFacts
<1>2. /\ \A e \in Docs : chunks'[e] =
           IF e = DocOf(r) /\ out.chunks # "keep" THEN out.chunks ELSE chunks[e]
  BY <1>1 DEF Commit, Shape, RestTyped
<1>3. \A d \in Docs : doc'[d] = IF d = DocOf(r) THEN end ELSE doc[d]
  BY <1>1 DEF Shape, RestTyped
<1>4. /\ \A j \in DOMAIN job : j # me => job'[j] = job[j]
      /\ \A j \in DOMAIN job' \ DOMAIN job :
           job'[j].doc = DocOf(r) /\ \E i \in DOMAIN out.new : job'[j] = out.new[i]
      /\ \A i \in DOMAIN out.new : out.new[i].type \in IndexWork =>
           HasOpen(job', DocOf(r), IndexWork, 0)
  <2>1. out.new \in Seq(JobFor(DocOf(r)))
    BY <1>1 DEF OutcomeFor
  <2>2. PICK new : new = out.new
    OBVIOUS
  <2>3. PICK mid : mid = [job EXCEPT ![me] = Completed(job[me])]
    OBVIOUS
  <2>4. /\ run[r].pc # "idle" /\ new \in Seq(JobFor(DocOf(r)))
        /\ job' = mid \o new /\ Grows(job, job')
    BY <1>1, <2>1, <2>2, <2>3
  <2>5. /\ \A j \in DOMAIN job : j # me => job'[j] = job[j]
        /\ \A j \in DOMAIN job' \ DOMAIN job :
             job'[j].doc = DocOf(r) /\ \E i \in DOMAIN new : job'[j] = new[i]
        /\ \A types : \A i \in DOMAIN new : new[i].type \in types =>
             HasOpen(job', DocOf(r), types, 0)
    BY <2>3, <2>4, EndJobs
  <2> QED
    BY <2>2, <2>5
<1>5. SeenFiling(r) /\ OutcomeFiling(r)
  BY <1>1 DEF TaskFiling, Loaded
<1>6. /\ "inbox" \notin out.columns /\ out.columns \subseteq Columns
      /\ end.inbox = row.inbox
      /\ end.document_indexed = IF "document_indexed" \in out.columns
                                THEN out.doc.document_indexed
                                ELSE row.document_indexed
  BY <1>1, ColumnNames DEF OutcomeFor, Written, Final, Write
<1>7. \A d \in Docs : d # DocOf(r) =>
        doc'[d] = doc[d] /\ pages'[d] = pages[d] /\ chunks'[d] = chunks[d]
  BY <1>1, <1>2, <1>3
<1>8. run[r].pc # "idle"
  BY <1>1
<1>9. \A d \in Docs :
        /\ IndexingFailed(d) => IndexingFailed(d)'
        /\ WillIndex(d, me) => HasOpen(job', d, IndexWork, 0)
        /\ WillIndex(d, 0) => \/ HasOpen(job', d, IndexWork, 0)
                              \/ d = DocOf(r) /\ TypeOf(r) \in IndexWork
        /\ d # DocOf(r) => FilingFits(d)'
  <2>1. \A j \in DOMAIN job' \ DOMAIN job : job'[j].doc = DocOf(r)
    BY <1>4
  <2>2. Grows(job, job') /\ left' = left
    BY <1>1
  <2> QED
    BY <1>4, <1>7, <1>8, <2>1, <2>2, EndIndex
<1>10. ASSUME NEW d \in Docs, d = DocOf(r)
       PROVE  FilingFits(d)'
  <2>1. FilingFits(d) /\ doc[d] = row /\ doc'[d] = end
    BY <1>3, <1>10
  <2>2. ASSUME row.inbox
        PROVE  /\ ~end.document_indexed
               /\ \A j \in DOMAIN job' :
                    job'[j].doc = d => job'[j].type # "indexing"
    <3>1. /\ ~row.document_indexed
          /\ \A j \in DOMAIN job : job[j].doc = d => job[j].type # "indexing"
      BY <2>1, <2>2 DEF FilingFits
    <3>2. me \in DOMAIN job
      BY <1>1, TaskJob
    <3>3. TypeOf(r) # "indexing"
      BY <1>10, <3>1, <3>2 DEF TypeOf, DocOf
    <3>4. ~end.document_indexed
      BY <1>5, <1>6, <3>1, <3>3 DEF OutcomeFiling
    <3>5. ~AddsIndexing(out)
      BY <1>5, <2>2 DEF OutcomeFiling
    <3>6. \A j \in DOMAIN job' \ DOMAIN job : job'[j].type # "indexing"
      BY <1>4, <3>5 DEF AddsIndexing
    <3>7. \A j \in DOMAIN job :
            job'[j].doc = job[j].doc /\ job'[j].type = job[j].type
      BY <1>1 DEF Grows
    <3> QED
      BY <3>1, <3>4, <3>6, <3>7
  <2>3. ASSUME d \in Scanned, row.exists, Filed(row), Uncancelled
        PROVE  \/ end.document_indexed /\ chunks'[d] = pages'[d]
               \/ HasOpen(job', d, IndexWork, 0)
               \/ IndexingFailed(d)'
               \/ end.processing_status = "failed"
    <3>1. CASE TypeOf(r) = "indexing"
      <4>1. \/ end.document_indexed
            \/ HasOpen(job', d, IndexWork, 0)
        BY <1>5, <1>9, <1>10, <2>3, <3>1 DEF OutcomeFiling
      <4>2. run[r].read = pages[d] /\ out.chunks = run[r].read
        BY <1>5, <1>10, <3>1 DEF OutcomeFiling, SeenFiling
      <4>3. run[r].read # "keep"
        BY <1>1, TaskJob DEF Texts
      <4>4. out.pages = "keep"
        BY <1>1, <3>1 DEF OutcomeFits, Readers
      <4>5. chunks'[d] = pages'[d]
        BY <1>1, <1>2, <1>10, <4>2, <4>3, <4>4
      <4> QED
        BY <4>1, <4>5
    <3>2. CASE TypeOf(r) = "ocr"
      <4>1. AddsIndexing(out) \/ WillIndex(d, me)
        BY <1>5, <1>10, <2>3, <3>2 DEF OutcomeFiling
      <4>2. AddsIndexing(out) => HasOpen(job', d, IndexWork, 0)
        BY <1>4, <1>10 DEF AddsIndexing, IndexWork
      <4> QED
        BY <1>9, <4>1, <4>2
    <3>3. CASE TypeOf(r) = "text_extraction"
      <4>1. \E i \in DOMAIN out.new : out.new[i].type = "ocr"
        BY <1>5, <1>10, <2>3, <3>3 DEF OutcomeFiling
      <4> QED
        BY <1>4, <1>10, <4>1 DEF IndexWork, Readers
    <3>4. CASE TypeOf(r) \notin IndexWork
      <4>1. /\ out.chunks = "keep" /\ "document_indexed" \notin out.columns
            /\ out.pages = "keep"
            /\ row.processing_status = "failed"
                 => end.processing_status = "failed"
        BY <1>1, <1>5, <3>4 DEF OutcomeFiling, OutcomeFits, IndexWork, Readers
      <4>2. /\ end.document_indexed = row.document_indexed
            /\ chunks'[d] = chunks[d] /\ pages'[d] = pages[d]
        BY <1>1, <1>2, <1>6, <4>1
      <4>3. \/ row.document_indexed /\ chunks[d] = pages[d]
            \/ WillIndex(d, 0)
            \/ IndexingFailed(d)
            \/ row.processing_status = "failed"
        BY <2>1, <2>3 DEF FilingFits
      <4> QED
        BY <1>9, <3>4, <4>1, <4>2, <4>3
    <3> QED
      BY <3>1, <3>2, <3>3, <3>4 DEF IndexWork, Readers
  <2>4. /\ WillIndex(d, 0)' <=> HasOpen(job', d, IndexWork, 0)
        /\ Uncancelled' = Uncancelled
    BY <1>1 DEF WillIndex, Uncancelled
  <2>5. end.exists = row.exists /\ (Filed(end) <=> Filed(row))
    BY <1>1, <1>6 DEF Filed
  <2> QED
    BY <1>6, <2>1, <2>2, <2>3, <2>4, <2>5 DEF FilingFits
<1> QED
  BY <1>9, <1>10

LEMMA EndingKeepsIndex ==
  ASSUME Shape, NEW r \in Runs, FailJob(r)
  PROVE  KeepsIndex(Ending(r), doc[DocOf(r)])
<1> DEFINE row == doc[DocOf(r)]
           rows == FailedRows(r)
           type == TypeOf(r)
<1>1. /\ run[r].pc = "failed" /\ rows \in Seq(JobRow) /\ row \in DocRows
  BY FailJobEnds
<1>2. DocOf(r) \in Docs
  BY <1>1, TaskJob
<1>3. Failed(row).inbox = row.inbox
      /\ Failed(row).document_indexed = row.document_indexed
  BY <1>1 DEF Failed, DocRows
<1>4. Ending(r) \in {Plain(row), MarkReady(Plain(row), rows, DocOf(r), 0),
                     Plain(Failed(row))}
  <2>1. [Plain(row) EXCEPT !.doc.processing_status = "failed"] =
          Plain(Failed(row))
    BY DEF Plain, Failed
  <2> QED
    BY <2>1 DEF Ending, Fate
<1>5. KeepsIndex(Plain(row), row) /\ KeepsIndex(Plain(Failed(row)), Failed(row))
  BY PlainKeepsIndex
<1>6. KeepsIndex(Plain(Failed(row)), row)
  BY <1>3, <1>5 DEF KeepsIndex
<1>7. KeepsIndex(MarkReady(Plain(row), rows, DocOf(r), 0), row)
  BY <1>1, <1>2, MarkReadyKeepsIndex
<1> QED
  BY <1>4, <1>5, <1>6, <1>7

LEMMA FailIndex ==
  ASSUME Shape, NEW r \in Runs, TaskFiling(r),
         \A d \in Docs : FilingFits(d), FailJob(r)
  PROVE  \A d \in Docs : FilingFits(d)'
<1> DEFINE me == run[r].job
           row == doc[DocOf(r)]
           end == Ending(r).doc
<1>1. /\ run[r].pc = "failed" /\ DocOf(r) \in Docs
      /\ doc' = [doc EXCEPT ![DocOf(r)] = end]
      /\ Keeps(end, row)
      /\ row.processing_status = "failed" => end.processing_status = "failed"
      /\ \/ end = row /\ FailedRows(r)[me].status # "failed"
         \/ end = row /\ TypeOf(r) \notin PreflightTypes
         \/ TypeOf(r) = "metadata_suggestion"
         \/ end.processing_status = "failed"
      /\ pages' = pages /\ left' = left /\ Grows(job, job')
  BY FailFacts
<1>2. /\ Ending(r) \in DraftFor(DocOf(r)) /\ chunks' = chunks
      /\ job' = FailedRows(r) \o Ending(r).new
      /\ FailedRows(r)[me] = FailRow(job[me], FALSE)
  BY FailJobEnds
<1>3. me \in DOMAIN job /\ job[me] \in JobRow
  BY <1>1, TaskJob
<1>4. /\ job'[me] = FailRow(job[me], FALSE)
      /\ \A j \in DOMAIN job : j # me => job'[j] = job[j]
      /\ \A j \in DOMAIN job' \ DOMAIN job :
           /\ job'[j].doc = DocOf(r)
           /\ \E i \in DOMAIN Ending(r).new : job'[j] = Ending(r).new[i]
  <2>1. Ending(r).new \in Seq(JobFor(DocOf(r)))
    BY <1>2 DEF DraftFor
  <2>2. PICK mid : mid = FailedRows(r)
    OBVIOUS
  <2>3. PICK new : new = Ending(r).new
    OBVIOUS
  <2>4. PICK failed : failed = FailRow(job[me], FALSE)
    OBVIOUS
  <2>5. /\ run[r].pc # "idle" /\ Grows(job, job') /\ job' = mid \o new
        /\ mid = [job EXCEPT ![me] = failed]
        /\ new \in Seq(JobFor(DocOf(r)))
    BY <1>1, <1>2, <2>1, <2>2, <2>3, <2>4 DEF FailedRows
  <2>6. /\ job'[me] = failed
        /\ \A j \in DOMAIN job : j # me => job'[j] = job[j]
        /\ \A j \in DOMAIN job' \ DOMAIN job :
             job'[j].doc = DocOf(r) /\ \E i \in DOMAIN new : job'[j] = new[i]
    BY <2>4, <2>5, EndJobs
  <2> QED
    BY <2>3, <2>4, <2>6
<1>5. KeepsIndex(Ending(r), row)
  BY EndingKeepsIndex
<1>6. \A d \in Docs : doc'[d] = IF d = DocOf(r) THEN end ELSE doc[d]
  BY <1>1 DEF Shape, RestTyped
<1>7. \A d \in Docs :
        /\ IndexingFailed(d) => IndexingFailed(d)'
        /\ WillIndex(d, 0) => \/ HasOpen(job', d, IndexWork, 0)
                              \/ d = DocOf(r) /\ TypeOf(r) \in IndexWork
        /\ d # DocOf(r) => FilingFits(d)'
  <2>1. \A j \in DOMAIN job' \ DOMAIN job : job'[j].doc = DocOf(r)
    BY <1>4
  <2>2. \A d \in Docs : d # DocOf(r) =>
          doc'[d] = doc[d] /\ pages'[d] = pages[d] /\ chunks'[d] = chunks[d]
    BY <1>1, <1>2, <1>6
  <2>3. Grows(job, job') /\ left' = left /\ run[r].pc # "idle"
    BY <1>1
  <2> QED
    BY <1>4, <2>1, <2>2, <2>3, EndIndex
<1>8. ASSUME NEW d \in Docs, d = DocOf(r)
      PROVE  FilingFits(d)'
  <2>1. FilingFits(d) /\ doc[d] = row /\ doc'[d] = end
    BY <1>6, <1>8
  <2>2. /\ end.exists = row.exists /\ end.inbox = row.inbox
        /\ end.is_trashed = row.is_trashed
        /\ end.document_indexed = row.document_indexed
        /\ AddsIndexing(Ending(r)) => ~row.inbox
    BY <1>1, <1>5 DEF Keeps, KeepsIndex
  <2>3. row.inbox => \A j \in DOMAIN job' :
                       job'[j].doc = d => job'[j].type # "indexing"
    <3>1. \A j \in DOMAIN job :
            job'[j].doc = job[j].doc /\ job'[j].type = job[j].type
      BY <1>1 DEF Grows
    <3>2. row.inbox => \A j \in DOMAIN job' \ DOMAIN job :
                         job'[j].type # "indexing"
      BY <1>4, <2>2 DEF AddsIndexing
    <3> QED
      BY <2>1, <3>1, <3>2 DEF FilingFits
  <2>4. WillIndex(d, 0) => \/ HasOpen(job', d, IndexWork, 0)
                           \/ IndexingFailed(d)'
                           \/ end.processing_status = "failed"
    <3>1. CASE FailedRows(r)[me].status # "failed"
      <4>1. job'[me].status \in OpenStatuses
        BY <1>2, <1>3, <1>4, <3>1, RowStatuses
      <4>2. \A j \in OpenJobs(job, d, IndexWork, 0) :
              job'[j].status \in OpenStatuses
        BY <1>4, <4>1 DEF OpenJobs
      <4> QED
        BY <1>1, <4>2, OpenSurvives DEF WillIndex
    <3>2. CASE FailedRows(r)[me].status = "failed" /\ TypeOf(r) = "indexing"
      <4>1. /\ me \in DOMAIN job' /\ job'[me].status = "failed"
            /\ job'[me].doc = d /\ job'[me].type = "indexing"
        BY <1>1, <1>2, <1>3, <1>4, <1>8, <3>2 DEF Grows, DocOf, TypeOf
      <4> QED
        BY <4>1 DEF IndexingFailed
    <3>3. CASE FailedRows(r)[me].status = "failed" /\ TypeOf(r) \in Readers
      BY <1>1, <3>3 DEF Readers, PreflightTypes
    <3>4. CASE TypeOf(r) \notin IndexWork
      BY <1>7, <3>4
    <3> QED
      BY <3>1, <3>2, <3>3, <3>4 DEF IndexWork
  <2>5. /\ WillIndex(d, 0)' <=> HasOpen(job', d, IndexWork, 0)
        /\ Uncancelled' = Uncancelled
        /\ Filed(end) <=> Filed(row)
    BY <1>1, <2>2 DEF WillIndex, Uncancelled, Filed
  <2>6. d \in Scanned /\ row.exists /\ Filed(row) /\ Uncancelled =>
          \/ row.document_indexed /\ chunks[d] = pages[d]
          \/ WillIndex(d, 0)' \/ IndexingFailed(d)'
          \/ end.processing_status = "failed"
    BY <1>1, <1>7, <2>1, <2>4, <2>5 DEF FilingFits
  <2> QED
    BY <1>1, <1>2, <2>1, <2>2, <2>3, <2>5, <2>6 DEF FilingFits
<1> QED
  BY <1>7, <1>8

LEMMA IndexTask ==
  ASSUME OneTask, Shape, OneTaskInv, IndexInv,
         NEW r \in Runs, Claim(r) \/ Task(r)
  PROVE  /\ InboxIsUnindexed' /\ FiledIsIndexed'
         /\ \A q \in Runs : TaskFiling(q)'
<1>1. /\ TaskInv(r) /\ TaskFiling(r) /\ InboxIsUnindexed /\ FiledIsIndexed
      /\ \A q \in Runs : q = r
  BY DEF OneTaskInv, IndexInv, OneTask
<1>2. CASE Claim(r)
  BY <1>1, <1>2, ClaimIndex
<1>3. CASE Commit(r) \/ FailJob(r)
  <2>1. \A d \in Docs : FilingFits(d)
    BY <1>1, FilingFitsAll
  <2>2. \A d \in Docs : FilingFits(d)'
    BY <1>1, <1>3, <2>1, CommitIndex, FailIndex
  <2>3. InboxIsUnindexed' /\ FiledIsIndexed'
    BY <2>2, KindsAssumption DEF InboxIsUnindexed, FiledIsIndexed, FilingFits
  <2>4. run'[r].pc = "idle"
    BY <1>1, <1>3, CommitFacts, FailFacts
  <2>5. TaskFiling(r)'
    BY <2>4 DEF TaskFiling, Loaded, Decided
  <2> QED
    BY <1>1, <2>3, <2>5
<1>4. CASE \/ LoadDocument(r) \/ ClearPages(r) \/ EnterOcr(r) \/ FirstPages(r)
           \/ LastPages(r) \/ Finish(r) \/ FlushStatus(r) \/ HandlerRaises(r)
  <2>1. InboxIsUnindexed' /\ FiledIsIndexed'
    BY <1>1, <1>4, OwnIndex
  <2>2. TaskFiling(r)'
    BY <1>1, <1>4, LoadFiling, HandlingFiling, FinishFiling
  <2> QED
    BY <1>1, <2>1, <2>2
<1> QED
  BY <1>2, <1>3, <1>4 DEF Task

LEMMA IndexNext ==
  ASSUME OneTask, Shape, OneTaskInv, IndexInv, [Next]_vars
  PROVE  IndexInv'
<1>1. /\ Existing /\ left["cancel"] <= MaxRequests["cancel"]
      /\ InboxIsUnindexed /\ RequestFiles /\ FiledIsIndexed
      /\ \A r \in Runs : TaskFiling(r)
  BY DEF OneTaskInv, IndexInv
<1>2. RequestFiles'
  BY <1>1, RequestFilesNext
<1>3. Uncancelled' => Uncancelled
  BY <1>1, CancelBudget
<1>4. ASSUME IndexOutside
      PROVE  /\ InboxIsUnindexed' /\ FiledIsIndexed'
             /\ \A r \in Runs : TaskFiling(r)'
  BY <1>1, <1>3, <1>4, InboxOutside, FiledOutside, TaskFilingOutside
<1>5. ASSUME UNCHANGED vars
      PROVE  IndexOutside
  <2>1. UNCHANGED <<job, doc, pages, chunks, run, left>>
    BY <1>5 DEF vars
  <2>2. Grows(job, job') /\ OpenStays /\ WillIndexStays /\ FailuresStay
    BY <2>1, GrowsSame
    DEF Shape, OpenStays, WillIndexStays, FailuresStay, WillIndex
  <2>3. \A d \in Docs : Revised(d, doc[d], doc'[d]) /\ KeepsFiling(d)
    BY <2>1, SameRow, SameFiling
  <2> QED
    BY <2>1, <2>2, <2>3 DEF IndexOutside, Outside
<1>6. \/ IndexOutside
      \/ Restart
      \/ \E r \in Runs : Claim(r) \/ Task(r)
  BY <1>1, <1>5, RequestIndex, IngestIndex, LoadRequestIndex, CancelIndex
  DEF Next
<1> QED
  BY <1>1, <1>2, <1>4, <1>6, RestartIndex, IndexTask DEF IndexInv

LEMMA IndexInvariant ==
  ASSUME OneTask, NeverRefiled
  PROVE  Spec => []IndexInv
<1>1. Init => IndexInv
  BY IndexInit
<1>2. Shape /\ OneTaskInv /\ IndexInv /\ [Next]_vars => IndexInv'
  BY IndexNext
<1> QED
  BY <1>1, <1>2, OneTaskInvariant, PTL DEF Spec

\* LibraryIsIndexed, of the scanned documents.
ScannedLibraryIsIndexed ==
  \A d \in Scanned : Quiet(d) /\ Ready(d) /\ ~doc[d].inbox =>
    \/ doc[d].document_indexed /\ chunks[d] = pages[d]
    \/ IndexingFailed(d)

LEMMA IndexInvShows == IndexInv => ScannedLibraryIsIndexed
<1>1. ASSUME NEW d, WillIndex(d, 0)
      PROVE  OpenJobs(job, d, DOMAIN FirstStep, 0) # {}
  BY <1>1, StepNames
  DEF WillIndex, HasOpen, OpenJobs, IndexWork, Readers, StepTypes
<1> QED
  BY <1>1 DEF IndexInv, FiledIsIndexed, Filed, ScannedLibraryIsIndexed, Quiet,
     Ready

\* With one task, and no document moved or restored, every scanned document of
\* the library that is ready and has no work to come has been indexed from the
\* pages it has, unless its indexing failed or a job was cancelled.  Whatever
\* else the worker does, whatever users retry, process or trash between two
\* steps of a handler, and however often the worker starts again, a filed
\* document without an index has a job to come that makes it.
THEOREM FinishedScansAreIndexed ==
  ASSUME OneTask, NeverRefiled
  PROVE  Spec => []ScannedLibraryIsIndexed
  BY IndexInvariant, IndexInvShows, PTL

\* If all documents are scanned that is every document of the library.
THEOREM FinishedLibraryIsIndexed ==
  ASSUME OneTask, NeverRefiled, Scanned = Docs
  PROVE  Spec => []LibraryIsIndexed
<1>1. ScannedLibraryIsIndexed => LibraryIsIndexed
  BY DEF ScannedLibraryIsIndexed, LibraryIsIndexed, IndexingFailed
<1> QED
  BY <1>1, FinishedScansAreIndexed, PTL
=============================================================================
