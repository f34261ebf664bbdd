----------------------------- MODULE Preflight -----------------------------
(***************************************************************************)
(* The life of a document between ingest and a searchable library entry:   *)
(* the handlers of workers/processor.py (text extraction, OCR, thumbnail,  *)
(* filing suggestions, indexing), the except branch of _run that decides   *)
(* the document's fate, and the requests of services/documents.py that     *)
(* users make meanwhile.  Jobs are rows of JobRows, chosen by its NextJob. *)
(*                                                                         *)
(* A handler loads its document, works for seconds or minutes, and writes  *)
(* the columns it has changed when its transaction commits; queries it     *)
(* makes on the way see what others committed.  A request loads, checks    *)
(* and writes in the same way.  Pages are written by sessions of their own *)
(* while OCR runs.                                                         *)
(*                                                                         *)
(* Abstractions.  A text is the way it came about ("native" or "ocr"),     *)
(* pages and chunks are the text they hold ("partial": some of its pages). *)
(* Claim, gate and get_job are one step, the job's own row is written as   *)
(* JobQueue shows it is, and retries are not delayed.  Jobs of the types   *)
(* embedding and summary, which indexing adds, read nothing of this and    *)
(* are left out.                                                           *)
(***************************************************************************)
EXTENDS JobRows, Sequences, FiniteSets

CONSTANTS
  Docs,            \* in the order of added_date
  Scanned,         \* PDFs whose own text is missing or too thin
  Images,          \* read by OCR inside text extraction
  Runs,            \* the worker's tasks, JOB_CONCURRENCY of them
  NoRun,
  MaxRetries,      \* max_retries of every job
  MaxRequests,     \* bounds: how often users add a document, make each kind
                   \* of request, and make any of them
  MaxCrashes       \* bound: worker processes that die

Operations == {"move", "trash", "restore", "retry_preflight", "retry_ocr",
               "reprocess_suggestions", "process"}
Requests == Operations \cup {"cancel", "ingest", "any"}

ASSUME DocsAssumption == Docs \subseteq Nat \ {0}
ASSUME KindsAssumption ==
  Scanned \subseteq Docs /\ Images \subseteq Docs /\ Scanned \cap Images = {}
ASSUME RunsAssumption == NoRun \notin Runs
ASSUME BoundsAssumption ==
  /\ {MaxRetries, MaxCrashes} \subseteq Nat
  /\ MaxRequests \in [Requests -> Nat]

VARIABLES
  job,             \* the jobs table, in the order of created_at
  doc,             \* the documents table
  pages,           \* what document_pages holds of each document
  chunks,          \* what document_chunks holds of each document
  run,             \* the worker's tasks
  ocr_gate,        \* who holds ocr_exclusive_section
  api,             \* the request in flight
  left             \* what the bounds still allow

vars == <<job, doc, pages, chunks, run, ocr_gate, api, left>>

\* processor.PREFLIGHT_JOB_TYPES and SOFT_FAIL_PREFLIGHT_JOB_TYPES.
PreflightTypes == {"text_extraction", "ocr", "metadata_suggestion"}
SoftFailTypes == {"metadata_suggestion"}

\* A document as ingest_bytes creates it.
NewDoc(inbox) ==
  [exists |-> TRUE, inbox |-> inbox, is_trashed |-> FALSE,
   processing_status |-> "pending", extracted_text |-> "none",
   ocr_completed |-> FALSE, document_indexed |-> FALSE]

NoDocument == [NewDoc(FALSE) EXCEPT !.exists = FALSE]

Columns == DOMAIN NoDocument

\* The outcome a handler has put together and not committed yet: columns it
\* has written, jobs it adds, and what becomes of pages and chunks.
NoOutcome == [doc |-> NoDocument, columns |-> {}, new |-> <<>>,
              pages |-> "keep", chunks |-> "keep"]
Idle == [pc |-> "idle", job |-> 0, seen |-> NoDocument, read |-> "none",
         out |-> NoOutcome]
NoRequest == [op |-> "none", doc |-> NoDoc, seen |-> NoDocument]

DocOf(r) == job[run[r].job].doc
TypeOf(r) == job[run[r].job].type

\* A handler that has flushed columns holds the document's row until it ends.
DocLocked(d) ==
  \E r \in Runs : run[r].pc = "commit" /\ run[r].out.columns # {}
                                       /\ DocOf(r) = d

\* The jobs of d in rows of the given types that are open, except one.
OpenJobs(rows, d, types, me) ==
  {j \in DOMAIN rows : /\ rows[j].doc = d /\ rows[j].type \in types
                       /\ rows[j].status \in OpenStatuses /\ j # me}

Changed(old, new) == {c \in Columns : old[c] # new[c]}
Write(row, columns, new) ==
  [c \in Columns |-> IF c \in columns THEN new[c] ELSE row[c]]

Spend(what) == left[what] > 0 /\ left' = [left EXCEPT ![what] = @ - 1]
SpendRequest(op) ==
  /\ left[op] > 0 /\ left["any"] > 0
  /\ left' = [left EXCEPT ![op] = @ - 1, !["any"] = @ - 1]

----------------------------------------------------------------------------
(* What the handlers share.  A draft is the document as a session sees it  *)
(* and the jobs it is about to add.                                        *)

New(type, d, priority) == NewRow(type, d, priority, MaxRetries)

\* _enqueue_library_indexing.
LibraryIndexing(draft, rows, d, priority) ==
  IF \/ draft.doc.inbox \/ draft.doc.document_indexed
     \/ OpenJobs(rows \o draft.new, d, {"indexing"}, 0) # {}
  THEN draft
  ELSE [draft EXCEPT !.new = Append(@, New("indexing", d, priority))]

\* Mutant: a document status that does not exist is stored.
MarkReadyMisnamed(draft, rows, d, me) ==
  IF OpenJobs(rows \o draft.new, d, PreflightTypes, me) # {} THEN draft
  ELSE [draft EXCEPT !.doc.processing_status = "completed"]

\* Mutant: the job that asks counts as open work.
MarkReadyCountsItself(draft, rows, d, me) ==
  IF OpenJobs(rows \o draft.new, d, PreflightTypes, 0) # {} THEN draft
  ELSE [draft EXCEPT !.doc.processing_status = "ready"]

\* Mutant: a failure is overwritten.
MarkReadyAnyway(draft, rows, d, me) ==
  IF OpenJobs(rows \o draft.new, d, PreflightTypes, me) # {} THEN draft
  ELSE LibraryIndexing([draft EXCEPT !.doc.processing_status = "ready"],
                       rows, d, 100)

\* mark_preflight_ready: the status is the one the session has loaded.
MarkReady(draft, rows, d, me) ==
  IF \/ OpenJobs(rows \o draft.new, d, PreflightTypes, me) # {}
     \/ draft.doc.processing_status = "failed"
  THEN draft
  ELSE LibraryIndexing([draft EXCEPT !.doc.processing_status = "ready"],
                       rows, d, 100)

\* _enqueue_metadata_suggestion_or_finish: whether a model may be asked (its
\* assignment, health and privacy, and the length of the text) is open.
SuggestOrFinish(draft, rows, d, me, priority, can_suggest) ==
  IF OpenJobs(rows \o draft.new, d, {"ocr"}, me) # {} THEN draft
  ELSE IF can_suggest /\ draft.doc.extracted_text # "none"
  THEN [draft EXCEPT !.new =
          Append(@, New("metadata_suggestion", d, priority + 20))]
  ELSE MarkReady(draft, rows, d, me)

\* Mutant: OCR that is missing is not asked for.
NeverNeedsOcr(d, seen) == FALSE

\* _pdf_needs_ocr_before_ai, of the document as loaded.
NeedsOcrFirst(d, seen) ==
  d \in Scanned /\ ~seen.ocr_completed /\ seen.extracted_text # "ocr"

OcrPriority(priority) == IF priority - 5 > 1 THEN priority - 5 ELSE 1

----------------------------------------------------------------------------
Init ==
  /\ job = <<>>
  /\ doc = [d \in Docs |-> NoDocument]
  /\ pages = [d \in Docs |-> "none"]
  /\ chunks = [d \in Docs |-> "none"]
  /\ run = [r \in Runs |-> Idle]
  /\ ocr_gate = NoRun
  /\ api = NoRequest
  /\ left = [what \in Requests \cup {"crash"} |->
               IF what = "crash" THEN MaxCrashes ELSE MaxRequests[what]]

\* ingest_bytes, into the Inbox or into a folder of the library.
Ingest(d) ==
  /\ ~doc[d].exists
  /\ \A e \in Docs : e > d => ~doc[e].exists
  /\ Spend("ingest")
  /\ \E inbox \in BOOLEAN : doc' = [doc EXCEPT ![d] = NewDoc(inbox)]
  /\ job' = job \o <<New("text_extraction", d, 50), New("thumbnail", d, 60)>>
  /\ UNCHANGED <<pages, chunks, run, ocr_gate, api>>

----------------------------------------------------------------------------
(* The worker's tasks.                                                     *)

\* _poll_jobs and get_job.
Claim(r) ==
  /\ run[r].pc = "idle" /\ ocr_gate = NoRun
  /\ \E j \in NextJob(job, doc, ActivePreflightDoc(job, doc)) :
       /\ job' = [job EXCEPT ![j] = ClaimRow(@)]
       /\ run' = [run EXCEPT ![r].pc = "load", ![r].job = j]
  /\ UNCHANGED <<doc, pages, chunks, ocr_gate, api, left>>

\* _get_document; indexing reads the pages as well.
FirstStep == [text_extraction |-> "clear", ocr |-> "clear",
              thumbnail |-> "finish", metadata_suggestion |-> "check",
              indexing |-> "finish"]

LoadDocument(r) ==
  /\ run[r].pc = "load"
  /\ run' = [run EXCEPT ![r].pc = FirstStep[TypeOf(r)],
                        ![r].seen = doc[DocOf(r)],
                        ![r].read = pages[DocOf(r)]]
  /\ UNCHANGED <<job, doc, pages, chunks, ocr_gate, api, left>>

\* clear_document_pages, a transaction of its own.
ClearPages(r) ==
  /\ run[r].pc = "clear"
  /\ pages' = [pages EXCEPT ![DocOf(r)] = "none"]
  /\ run' = [run EXCEPT ![r].pc =
       IF TypeOf(r) = "ocr" \/ DocOf(r) \in Images THEN "enter" ELSE "finish"]
  /\ UNCHANGED <<job, doc, chunks, ocr_gate, api, left>>

\* ocr_exclusive_section, and the pages commit_ocr_page adds inside it.  The
\* pages of another run in their place violate uq_document_page.
EnterOcr(r) ==
  /\ run[r].pc = "enter" /\ ocr_gate = NoRun
  /\ ocr_gate' = r
  /\ run' = [run EXCEPT ![r].pc = "ocr"]
  /\ UNCHANGED <<job, doc, pages, chunks, api, left>>

FirstPages(r) ==
  /\ run[r].pc = "ocr" /\ pages[DocOf(r)] = "none"
  /\ pages' = [pages EXCEPT ![DocOf(r)] = "partial"]
  /\ UNCHANGED <<job, doc, chunks, run, ocr_gate, api, left>>

LastPages(r) ==
  /\ run[r].pc = "ocr" /\ pages[DocOf(r)] = "partial"
  /\ pages' = [pages EXCEPT ![DocOf(r)] = "ocr"]
  /\ ocr_gate' = NoRun
  /\ run' = [run EXCEPT ![r].pc = "finish"]
  /\ UNCHANGED <<job, doc, chunks, api, left>>

----------------------------------------------------------------------------
(* The end of each handler: queries, flushes, and the outcome to commit.   *)

\* The flush of columns waits for the row's lock.
Prepare(r, out) ==
  /\ out.columns # {} => ~DocLocked(DocOf(r))
  /\ run' = [run EXCEPT ![r].pc = "commit", ![r].out = out]
  /\ UNCHANGED <<job, doc, pages, chunks, ocr_gate, api, left>>

\* mark_preflight_ready looks at the open jobs before it flushes, and in the
\* suggestion handler the document's row is locked by then only if
\* needs_review has changed.
Decide(r, out) ==
  \/ Prepare(r, out)
  \/ /\ out.columns # {}
     /\ run' = [run EXCEPT ![r].pc = "flush", ![r].out = out]
     /\ UNCHANGED <<job, doc, pages, chunks, ocr_gate, api, left>>

FlushStatus(r) ==
  /\ run[r].pc = "flush" /\ ~DocLocked(DocOf(r))
  /\ run' = [run EXCEPT ![r].pc = "commit"]
  /\ UNCHANGED <<job, doc, pages, chunks, ocr_gate, api, left>>

Outcome(draft, seen) ==
  [NoOutcome EXCEPT !.doc = draft.doc, !.new = draft.new,
                    !.columns = Changed(seen, draft.doc)]

\* process_text_extraction.  The status is flushed as "processing" before
\* anything else decides on it, and so is written even if it ends as loaded.
FinishTextExtraction(r) ==
  /\ run[r].pc = "finish" /\ TypeOf(r) = "text_extraction"
  /\ \E can_suggest \in BOOLEAN :
       LET d == DocOf(r)
           me == run[r].job
           seen == run[r].seen
           text == IF d \in Images THEN "ocr" ELSE "native"
           read == [doc |-> [seen EXCEPT !.extracted_text = text,
                                         !.ocr_completed = d \in Images,
                                         !.processing_status = "processing"],
                    new |-> <<>>]
           draft == IF d \in Scanned
                    THEN [read EXCEPT !.new = <<New("ocr", d,
                            OcrPriority(job[me].priority))>>]
                    ELSE SuggestOrFinish(read, job, d, me, job[me].priority,
                                         can_suggest)
           flushed == IF seen.processing_status # "processing"
                      THEN {"processing_status"} ELSE {}
       IN Prepare(r, [Outcome(draft, seen) EXCEPT
                        !.columns = @ \cup flushed,
                        !.pages = IF d \in Images THEN "keep" ELSE "native"])

\* Mutants: the text, or the mark of the invalidated index, is not stored.
ReadByOcrKeepsText(seen) ==
  [seen EXCEPT !.ocr_completed = TRUE, !.document_indexed = FALSE]

ReadByOcrKeepsIndex(seen) ==
  [seen EXCEPT !.extracted_text = "ocr", !.ocr_completed = TRUE]

\* What process_ocr writes, invalidate_retrieval_artifacts included.
ReadByOcr(seen) ==
  [seen EXCEPT !.extracted_text = "ocr", !.ocr_completed = TRUE,
               !.document_indexed = FALSE]

\* process_ocr; invalidate_retrieval_artifacts deletes the chunks.
FinishOcr(r) ==
  /\ run[r].pc = "finish" /\ TypeOf(r) = "ocr"
  /\ \E can_suggest \in BOOLEAN :
       LET d == DocOf(r)
           me == run[r].job
           seen == run[r].seen
           read == [doc |-> ReadByOcr(seen), new |-> <<>>]
           draft == SuggestOrFinish(read, job, d, me, job[me].priority,
                                    can_suggest)
       IN Prepare(r, [Outcome(LibraryIndexing(draft, job, d,
                                              job[me].priority + 5), seen)
                        EXCEPT !.chunks = "none"])

\* process_thumbnail writes nothing the other parts read.
FinishThumbnail(r) ==
  /\ run[r].pc = "finish" /\ TypeOf(r) = "thumbnail"
  /\ Prepare(r, NoOutcome)

\* process_indexing, from the pages it has read.
FinishIndexing(r) ==
  /\ run[r].pc = "finish" /\ TypeOf(r) = "indexing"
  /\ LET seen == run[r].seen
         status == IF seen.processing_status = "failed" THEN "failed"
                                                        ELSE "ready"
         draft == [doc |-> [seen EXCEPT !.document_indexed = TRUE,
                                        !.processing_status = status],
                   new |-> <<>>]
     IN Prepare(r, [Outcome(draft, seen) EXCEPT !.chunks = run[r].read])

\* process_metadata_suggestion, up to the call of the model: it leaves OCR
\* alone that is under way, asks for OCR that is missing, ends at once when it
\* cannot go on (in a manual job that is an error, see HandlerRaises), or calls
\* the model.
CheckSuggestion(r) ==
  /\ run[r].pc = "check"
  /\ LET d == DocOf(r)
         me == run[r].job
         seen == run[r].seen
         draft == [doc |-> seen, new |-> <<>>]
     IN IF OpenJobs(job, d, {"ocr"}, me) # {} THEN Prepare(r, NoOutcome)
        ELSE IF NeedsOcrFirst(d, seen)
        THEN Prepare(r, Outcome([draft EXCEPT !.new =
                          <<New("ocr", d, job[me].priority - 5)>>], seen))
        ELSE \/ Decide(r, Outcome(MarkReady(draft, job, d, me), seen))
             \/ /\ run' = [run EXCEPT ![r].pc = "ask"]
                /\ UNCHANGED <<job, doc, pages, chunks, ocr_gate, api, left>>

\* After the call.
FinishSuggestion(r) ==
  /\ run[r].pc = "ask"
  /\ LET seen == run[r].seen IN
       Decide(r, Outcome(MarkReady([doc |-> seen, new |-> <<>>], job,
                                   DocOf(r), run[r].job), seen))

Finish(r) ==
  \/ FinishTextExtraction(r) \/ FinishOcr(r) \/ FinishThumbnail(r)
  \/ FinishIndexing(r) \/ CheckSuggestion(r) \/ FinishSuggestion(r)

\* The commit.  complete_job sees the row as RUNNING whatever it is by now.
\* Pages that another run has committed meanwhile violate uq_document_page.
Commit(r) ==
  /\ run[r].pc = "commit"
  /\ LET d == DocOf(r)
         out == run[r].out
     IN /\ out.pages # "keep" => pages[d] = "none"
        /\ doc' = [doc EXCEPT ![d] = Write(@, out.columns, out.doc)]
        /\ pages' = IF out.pages = "keep" THEN pages
                    ELSE [pages EXCEPT ![d] = out.pages]
        /\ chunks' = IF out.chunks = "keep" THEN chunks
                     ELSE [chunks EXCEPT ![d] = out.chunks]
        /\ job' = [job EXCEPT ![run[r].job] =
                     CompleteRow([@ EXCEPT !.status = "running"])] \o out.new
  /\ run' = [run EXCEPT ![r] = Idle]
  /\ UNCHANGED <<ocr_gate, api, left>>

\* The handler raises and its transaction is rolled back; pages written by
\* other sessions stay.  process_thumbnail catches what goes wrong.
HandlerRaises(r) ==
  /\ run[r].pc \in {"load", "ocr", "finish", "check", "ask", "flush", "commit"}
  /\ TypeOf(r) # "thumbnail"
  /\ run' = [run EXCEPT
               ![r] = [Idle EXCEPT !.pc = "failed", !.job = run[r].job]]
  /\ ocr_gate' = IF ocr_gate = r THEN NoRun ELSE ocr_gate
  /\ UNCHANGED <<job, doc, pages, chunks, api, left>>

\* Mutant: the document is forgotten.
FateUnknown(draft, rows, d, type) == draft

\* What the end of a job of this type means for the document when it has
\* failed for good: a suggestion is optional, text is not.
Fate(draft, rows, d, type) ==
  IF type \in SoftFailTypes THEN MarkReady(draft, rows, d, 0)
  ELSE IF type \in PreflightTypes
  THEN [draft EXCEPT !.doc.processing_status = "failed"]
  ELSE draft

\* The except branch, a transaction of a new session: fail_job, then the
\* document's fate.  It is one step: nothing in it waits but for the row.
FailJob(r) ==
  /\ run[r].pc = "failed"
  /\ LET d == DocOf(r)
         rows == [job EXCEPT ![run[r].job] = FailRow(@, FALSE)]
         draft == [doc |-> doc[d], new |-> <<>>]
         end == IF rows[run[r].job].status = "failed"
                THEN Fate(draft, rows, d, TypeOf(r)) ELSE draft
     IN /\ end.doc # doc[d] => ~DocLocked(d)
        /\ doc' = [doc EXCEPT ![d] = end.doc]
        /\ job' = rows \o end.new
  /\ run' = [run EXCEPT ![r] = Idle]
  /\ UNCHANGED <<pages, chunks, ocr_gate, api, left>>

\* The worker dies and starts again: requeue_all_running, then
\* cancel_jobs_for_trashed_documents.
StartRow(row) ==
  LET row1 == IF row.status = "running" THEN RequeueRow(row) ELSE row IN
  IF row1.status \in OpenStatuses /\ doc[row1.doc].is_trashed
  THEN CancelTrashedRow(row1) ELSE row1

Restart ==
  /\ Spend("crash")
  /\ job' = [j \in DOMAIN job |-> StartRow(job[j])]
  /\ run' = [r \in Runs |-> Idle]
  /\ ocr_gate' = NoRun
  /\ UNCHANGED <<doc, pages, chunks, api>>

----------------------------------------------------------------------------
(* Requests.  Each loads the document and checks it, then writes.          *)

Allowed(op, seen) ==
  CASE op = "trash" -> ~seen.is_trashed
    [] op = "restore" -> seen.is_trashed
    [] op = "retry_preflight" -> seen.inbox
    [] op = "reprocess_suggestions" -> seen.extracted_text # "none"
    [] op = "process" -> seen.inbox /\ seen.processing_status = "ready"
    [] OTHER -> TRUE

LoadRequest(op, d) ==
  /\ api = NoRequest /\ doc[d].exists /\ Allowed(op, doc[d])
  /\ SpendRequest(op)
  /\ api' = [op |-> op, doc |-> d, seen |-> doc[d]]
  /\ UNCHANGED <<job, doc, pages, chunks, run, ocr_gate>>

\* The columns that differ from the loaded ones are written, open jobs of
\* some types are cancelled, and new ones are added.
Respond(op, new_doc, cancelled, new_jobs) ==
  /\ api.op = op
  /\ Changed(api.seen, new_doc) # {} => ~DocLocked(api.doc)
  /\ doc' = [doc EXCEPT ![api.doc] =
               Write(@, Changed(api.seen, new_doc), new_doc)]
  /\ job' = [j \in DOMAIN job |->
               IF j \in OpenJobs(job, api.doc, cancelled, 0)
               THEN CancelRow(job[j]) ELSE job[j]] \o new_jobs
  /\ api' = NoRequest
  /\ UNCHANGED <<pages, run, ocr_gate, left>>

\* move_document, to the Inbox or to a folder of the library: a document in
\* the Inbox stays there, and one in the trash leaves it.
MoveDocument ==
  /\ \E to_inbox \in BOOLEAN :
       Respond("move", [api.seen EXCEPT !.inbox = @ \/ to_inbox,
                                        !.is_trashed = FALSE], {}, <<>>)
  /\ UNCHANGED chunks

TrashDocument ==
  /\ Respond("trash", [api.seen EXCEPT !.is_trashed = TRUE, !.inbox = FALSE],
             {}, <<>>)
  /\ UNCHANGED chunks

RestoreDocument ==
  /\ \E to_inbox \in BOOLEAN :
       Respond("restore", [api.seen EXCEPT !.is_trashed = FALSE,
                                           !.inbox = to_inbox], {}, <<>>)
  /\ UNCHANGED chunks

RetryPreflight ==
  /\ Respond("retry_preflight",
             [api.seen EXCEPT !.processing_status = "pending",
                              !.ocr_completed = FALSE],
             PreflightTypes,
             <<New("text_extraction", api.doc, 50),
               New("thumbnail", api.doc, 60)>>)
  /\ UNCHANGED chunks

\* invalidate_retrieval_artifacts deletes the chunks.
RetryOcr ==
  /\ Respond("retry_ocr",
             [api.seen EXCEPT !.document_indexed = FALSE,
                              !.ocr_completed = FALSE,
                              !.processing_status = "processing"],
             {"ocr", "indexing"}, <<New("ocr", api.doc, 45)>>)
  /\ chunks' = [chunks EXCEPT ![api.doc] = "none"]

ReprocessSuggestions ==
  /\ Respond("reprocess_suggestions", api.seen, {"metadata_suggestion"},
             <<New("metadata_suggestion", api.doc, 70)>>)
  /\ UNCHANGED chunks

\* process_inbox_documents, for one document with a folder to go to.
ProcessInbox ==
  /\ Respond("process", [api.seen EXCEPT !.inbox = FALSE], {},
             IF api.seen.document_indexed THEN <<>>
             ELSE <<New("indexing", api.doc, 40)>>)
  /\ UNCHANGED chunks

\* The cancel endpoint of the queue.
CancelJob(j) ==
  /\ job[j].status \in OpenStatuses
  /\ SpendRequest("cancel")
  /\ job' = [job EXCEPT ![j] = CancelRow(@)]
  /\ UNCHANGED <<doc, pages, chunks, run, ocr_gate, api>>

----------------------------------------------------------------------------
Task(r) ==
  \/ LoadDocument(r) \/ ClearPages(r) \/ EnterOcr(r) \/ FirstPages(r)
  \/ LastPages(r) \/ Finish(r) \/ FlushStatus(r) \/ Commit(r)
  \/ HandlerRaises(r) \/ FailJob(r)

Request ==
  \/ MoveDocument \/ TrashDocument \/ RestoreDocument \/ RetryPreflight
  \/ RetryOcr \/ ReprocessSuggestions \/ ProcessInbox

Next ==
  \/ \E r \in Runs : Claim(r) \/ Task(r)
  \/ Restart
  \/ \E d \in Docs : Ingest(d) \/ \E op \in Operations : LoadRequest(op, d)
  \/ Request
  \/ \E j \in DOMAIN job : CancelJob(j)

Spec == Init /\ [][Next]_vars

\* The worker goes on polling, its tasks and the requests end.
Fairness ==
  /\ \A r \in Runs : WF_vars(Claim(r)) /\ WF_vars(Task(r))
  /\ WF_vars(Request)

FairSpec == Spec /\ Fairness

----------------------------------------------------------------------------
Texts == {"none", "partial", "native", "ocr"}

DocRows ==
  [exists : BOOLEAN, inbox : BOOLEAN, is_trashed : BOOLEAN,
   processing_status : ProcessingStatus, ocr_completed : BOOLEAN,
   extracted_text : {"none", "native", "ocr"}, document_indexed : BOOLEAN]

Outcomes ==
  [doc : DocRows, columns : SUBSET Columns, new : Seq(Row(Docs)),
   pages : Texts \cup {"keep"}, chunks : Texts \cup {"keep"}]

Tasks ==
  [pc : {"idle", "load", "clear", "enter", "ocr", "check", "ask", "finish",
         "flush", "commit", "failed"},
   job : Nat, seen : DocRows, read : Texts, out : Outcomes]

\* The type invariant.
TypeOK ==
  /\ job \in Seq(Row(Docs))
  /\ \A j \in DOMAIN job :
       job[j].doc \in Docs /\ job[j].type \in DOMAIN FirstStep
  /\ doc \in [Docs -> DocRows]
  /\ pages \in [Docs -> Texts] /\ chunks \in [Docs -> Texts]
  /\ run \in [Runs -> Tasks]
  /\ \A r \in Runs : run[r].pc # "idle" => run[r].job \in DOMAIN job
  /\ ocr_gate \in Runs \cup {NoRun}
  /\ api \in [op : Operations \cup {"none"}, doc : Docs \cup {NoDoc},
              seen : DocRows]
  /\ left \in [Requests \cup {"crash"} -> Nat]

\* A task works on a job of d of these types.
Busy(d, types) ==
  \E r \in Runs : run[r].pc # "idle" /\ DocOf(r) = d /\ TypeOf(r) \in types

Preparing(d) ==
  /\ doc[d].exists /\ ~doc[d].is_trashed
  /\ doc[d].processing_status \in PreparingStatuses

\* No user has cancelled a job.
Uncancelled == left["cancel"] = MaxRequests["cancel"]

\* A document that is being prepared has a job that will end its preparation:
\* nothing else does, and the Inbox shows it as "preparing" until then.  Only a
\* user who cancels a job of the queue takes that away.
PreparingHasWork ==
  \A d \in Docs : Preparing(d) /\ Uncancelled =>
    OpenJobs(job, d, PreflightTypes, 0) # {} \/ Busy(d, PreflightTypes)

\* A model is asked about a scanned document only when its OCR text is there
\* (the "hard gate" of process_metadata_suggestion).
SuggestionsReadOcrText ==
  \A r \in Runs : run[r].pc = "ask" /\ DocOf(r) \in Scanned =>
                    run[r].seen.extracted_text = "ocr"

\* Nothing happens to d, nothing of it was cancelled, and nothing will happen
\* unless a user asks for it.
Quiet(d) ==
  /\ Uncancelled
  /\ OpenJobs(job, d, DOMAIN FirstStep, 0) = {} /\ ~Busy(d, DOMAIN FirstStep)
  /\ api.doc # d

Ready(d) ==
  /\ doc[d].exists /\ ~doc[d].is_trashed
  /\ doc[d].processing_status = "ready"

\* When all work on a ready document is done, its pages are complete and hold
\* the text that the document row has, the one full-text search uses.
PagesAgree ==
  \A d \in Docs : Quiet(d) /\ Ready(d) => pages[d] = doc[d].extracted_text

\* When all work on a document of the library is done, it has been indexed,
\* and its chunks are those of its pages; unless the indexing job failed.
LibraryIsIndexed ==
  \A d \in Docs : Quiet(d) /\ Ready(d) /\ ~doc[d].inbox =>
    \/ doc[d].document_indexed /\ chunks[d] = pages[d]
    \/ \E j \in DOMAIN job : /\ job[j].doc = d /\ job[j].type = "indexing"
                              /\ job[j].status = "failed"

\* A document that has failed becomes ready by a text extraction that succeeds
\* (after "retry preflight") and by nothing else: no suggestion, OCR, indexing
\* or soft failure that ends later hides the failure.
FailureIsNotHidden ==
  [][\A d \in Docs :
       /\ doc[d].processing_status = "failed"
       /\ doc'[d].processing_status = "ready"
       => \E r \in Runs : /\ run[r].pc = "commit" /\ run'[r].pc = "idle"
                          /\ DocOf(r) = d /\ TypeOf(r) = "text_extraction"]_vars

\* In the end no document is being prepared any more.
PreparationEnds == \A d \in Docs : <>[]~Preparing(d)
============================================================================
