------------------------------ MODULE JobRows ------------------------------
(***************************************************************************)
(* Rows of the `jobs` table (models, class Job) and the writes that the    *)
(* functions of services/jobs.py make to one row, as pure operators.       *)
(*                                                                         *)
(* Abstractions.  locked_by is a flag: the code never reads whose lock it  *)
(* is.  A timestamp is kept as what the queries tell apart: locked_at is   *)
(* NULL, recent ("fresh") or older than JOB_STALE_RUNNING_SECONDS          *)
(* ("stale"); available_at is NULL, in the future or in the past.          *)
(* created_at is the order of the job identifiers, added_date the order    *)
(* of the document identifiers: both are naturals.  The columns nothing    *)
(* reads back (error, result, started_at, completed_at) are left out.      *)
(***************************************************************************)
EXTENDS Naturals

JobStatus == {"queued", "running", "completed", "failed", "cancelled"}
OpenStatuses == {"queued", "running"}

\* A row that was not inserted yet, and a row the database has deleted.
Missing == {"absent", "gone"}

JobTypes == {"text_extraction", "ocr", "thumbnail", "metadata_suggestion",
             "indexing", "embedding", "summary", "backup"}

\* jobs.INBOX_PREFLIGHT_JOB_TYPES: what the one-document gate applies to.
InboxPreflightTypes ==
  {"text_extraction", "ocr", "thumbnail", "metadata_suggestion"}

ProcessingStatus == {"pending", "processing", "ready", "failed", "partial"}
PreparingStatuses == {"pending", "processing"}

MaxPriority == 1000

\* A backup job has no document.
NoDoc == 0

Row(Docs) ==
  [type : JobTypes, doc : Docs \cup {NoDoc},
   status : JobStatus \cup Missing, priority : Nat,
   retry_count : Nat, max_retries : Nat, locked_by : BOOLEAN,
   locked_at : {"null", "fresh", "stale"},
   available_at : {"null", "future", "past"}]

\* The columns of a document that the queue reads.
DocRow == [exists : BOOLEAN, inbox : BOOLEAN, is_trashed : BOOLEAN,
           processing_status : ProcessingStatus]

----------------------------------------------------------------------------
(* One row: what each service function assigns to the row it has loaded.   *)

\* enqueue_job.
NewRow(type, doc, priority, max) ==
  [type |-> type, doc |-> doc, status |-> "queued", priority |-> priority,
   retry_count |-> 0, max_retries |-> max, locked_by |-> FALSE,
   locked_at |-> "null", available_at |-> "null"]

\* claim_next, once it has chosen the row.
ClaimRow(row) ==
  [row EXCEPT !.status = "running", !.locked_by = TRUE,
              !.locked_at = "fresh", !.available_at = "null"]

\* complete_job: locked_at keeps its value, and so does a cancelled row.
CompleteRow(row) ==
  IF row.status = "cancelled" THEN row
  ELSE [row EXCEPT !.status = "completed", !.locked_by = FALSE,
                   !.available_at = "null"]

AddPriority(p) == IF p + 5 > MaxPriority THEN MaxPriority ELSE p + 5

\* fail_job: requeue within the budget, else failed for good.  The status of
\* the loaded row plays no part.
FailRow(row, delayed) ==
  IF row.retry_count + 1 <= row.max_retries
  THEN [row EXCEPT !.retry_count = @ + 1, !.status = "queued",
                   !.locked_by = FALSE, !.locked_at = "null",
                   !.priority = AddPriority(@),
                   !.available_at = IF delayed THEN "future" ELSE "null"]
  ELSE [row EXCEPT !.retry_count = @ + 1, !.status = "failed",
                   !.locked_by = FALSE, !.available_at = "null"]

\* cancel_job: only a completed or cancelled row is left alone.
CancelRow(row) ==
  IF row.status \in {"completed", "cancelled"} THEN row
  ELSE [row EXCEPT !.status = "cancelled", !.locked_by = FALSE,
                   !.available_at = "null"]

\* requeue_stale_running and requeue_all_running, on a row that matches.
RequeueRow(row) ==
  [row EXCEPT !.status = "queued", !.locked_by = FALSE,
              !.locked_at = "null", !.available_at = "null"]

\* cancel_jobs_for_trashed_documents, on a row that matches.
CancelTrashedRow(row) ==
  [row EXCEPT !.status = "cancelled", !.locked_by = FALSE,
              !.locked_at = "null", !.available_at = "null"]

\* touch_job_lock: one UPDATE guarded by the row's current status.
TouchRow(row) ==
  IF row.status = "running" THEN [row EXCEPT !.locked_at = "fresh"] ELSE row

\* The delete of a document takes its jobs along (ON DELETE CASCADE).
DeleteRow(row) == [NewRow(row.type, row.doc, 0, row.max_retries)
                     EXCEPT !.status = "gone"]

\* What an ORM flush does to the row in the database: the UPDATE carries the
\* columns whose value differs from the one the session LOADED, and no other.
Column(loaded, new, current) == IF new = loaded THEN current ELSE new

Flush(db, loaded, new) ==
  [db EXCEPT
     !.status       = Column(loaded.status, new.status, @),
     !.priority     = Column(loaded.priority, new.priority, @),
     !.retry_count  = Column(loaded.retry_count, new.retry_count, @),
     !.locked_by    = Column(loaded.locked_by, new.locked_by, @),
     !.locked_at    = Column(loaded.locked_at, new.locked_at, @),
     !.available_at = Column(loaded.available_at, new.available_at, @)]

----------------------------------------------------------------------------
(* The choice of the next job (claim_next), over whole tables.             *)

Available(row) == row.status = "queued" /\ row.available_at # "future"

PreparingInbox(d) ==
  /\ d.exists /\ d.inbox /\ ~d.is_trashed
  /\ d.processing_status \in PreparingStatuses

Oldest(S) == {d \in S : \A e \in S : d <= e}

\* Mutant: the oldest document in preparation owns the pipeline, even without a
\* job that may be claimed.
OldestPreflightDoc(job, doc) == Oldest({d \in DOMAIN doc : PreparingInbox(doc[d])})

\* _active_inbox_preflight_document_id: the document whose preflight owns the
\* pipeline, as a set of at most one.  A running job pins its document.
ActivePreflightDoc(job, doc) ==
  LET Owners(Wanted(_)) ==
        {d \in DOMAIN doc :
           /\ PreparingInbox(doc[d])
           /\ \E j \in DOMAIN job :
                /\ job[j].doc = d /\ job[j].type \in InboxPreflightTypes
                /\ Wanted(job[j])}
      running == Owners(LAMBDA row : row.status = "running")
  IN IF running # {} THEN Oldest(running) ELSE Oldest(Owners(Available))

\* inbox_gate: a preflight job of a preparing inbox document passes only for
\* the document in active.
PassesInboxGate(row, doc, active) ==
  (row.type \in InboxPreflightTypes /\ row.doc # NoDoc
     /\ PreparingInbox(doc[row.doc])) => row.doc \in active

Claimable(row, doc, active) ==
  /\ Available(row)
  /\ row.doc = NoDoc \/ ~doc[row.doc].is_trashed
  /\ PassesInboxGate(row, doc, active)

\* ORDER BY priority, created_at LIMIT 1, as a set of at most one.
NextJob(job, doc, active) ==
  LET C == {j \in DOMAIN job : Claimable(job[j], doc, active)}
  IN {j \in C : \A k \in C : \/ job[j].priority < job[k].priority
                             \/ job[j].priority = job[k].priority /\ j <= k}
=============================================================================
