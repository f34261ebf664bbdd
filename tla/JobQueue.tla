------------------------------ MODULE JobQueue ------------------------------
(***************************************************************************)
(* The job queue of Folium: the `jobs` table in Postgres, the one worker   *)
(* process that polls it and runs up to Concurrency jobs at a time as      *)
(* asyncio tasks, and the API process that cancels jobs and changes the    *)
(* documents they belong to (services/jobs.py, workers/main.py).           *)
(*                                                                         *)
(* A step is one database transaction, or one stretch of code between two  *)
(* awaits.  What a job's handler does to its document is abstract here:    *)
(* documents change by steps of their own.  A function that loads a row    *)
(* and writes it later is two steps, and the write is the ORM's: see Flush *)
(* in JobRows.  Environment events that could go on for ever (crashes,     *)
(* stalls, cancellations...) are bounded by the constants named Max....    *)
(***************************************************************************)
EXTENDS JobRows, FiniteSets

CONSTANTS
  Jobs,            \* identifiers, in the order of created_at
  Docs,            \* identifiers, in the order of added_date
  NewJob,          \* [Jobs -> Row(Docs)], each row as it is enqueued
  Runs,            \* identities for the worker's _run tasks
  NoRun,
  Concurrency,     \* JOB_CONCURRENCY
  InitDoc,         \* [Docs -> DocRow], the documents at the start
  MaxCrashes,      \* worker processes that die
  MaxStalls,       \* locks of a live run that grow stale
  MaxOutages,      \* failures the database does not let the worker record
  MaxCancels,      \* calls of the cancel endpoint
  MaxDocSteps,     \* changes of a document by users and handlers
  MaxPauses        \* times the instance leaves the READY state

ASSUME JobsAssumption == Jobs \subseteq Nat \ {0} /\ Docs \subseteq Nat \ {0}
ASSUME RunsAssumption == IsFiniteSet(Runs) /\ NoRun \notin Runs
ASSUME ConcurrencyAssumption == Concurrency \in Nat \ {0}
ASSUME NewJobAssumption ==
  /\ NewJob \in [Jobs -> Row(Docs)]
  /\ \A j \in Jobs : NewJob[j].status = "queued" /\ ~NewJob[j].locked_by
ASSUME InitDocAssumption == InitDoc \in [Docs -> DocRow]
ASSUME BoundsAssumption ==
  {MaxCrashes, MaxStalls, MaxOutages, MaxCancels, MaxDocSteps, MaxPauses}
    \subseteq Nat

VARIABLES
  job,             \* the jobs table
  doc,             \* the columns of the documents table that the queue reads
  run,             \* the worker's _run tasks
  sem,             \* permits left in the worker's semaphore
  ocr_gate,        \* who holds ocr_exclusive_section
  poll,            \* where _poll_jobs is, and the inbox gate it has read
  api,             \* the cancel request in flight, if any
  instance_ready,  \* instance_state = READY
  commits,         \* history: how often a job's own transaction committed
  left             \* what the bounds still allow

vars == <<job, doc, run, sem, ocr_gate, poll, api, instance_ready, commits,
          left>>

NoJob == 0
NoRow == NewRow("backup", NoDoc, 0, 0)
Idle == [pc |-> "idle", job |-> NoJob, seen |-> NoRow]
PollIdle == [pc |-> "idle", active |-> {}]
Bounds == [crash |-> MaxCrashes, stall |-> MaxStalls, outage |-> MaxOutages,
           cancel |-> MaxCancels, docstep |-> MaxDocSteps, pause |-> MaxPauses]

Spend(what) == left[what] > 0 /\ left' = [left EXCEPT ![what] = @ - 1]

\* The tasks that hold a permit of the semaphore, and the job they run.
Live(r) == run[r].pc # "idle"
LiveRuns == {r \in Runs : Live(r)}
HasRun(j) == \E r \in Runs : Live(r) /\ run[r].job = j

Present(j) == job[j].status \notin Missing

\* run_pg_dump is a blocking call inside a coroutine: while it runs, nothing
\* else of the worker process does.
Blocked == \E r \in Runs : run[r].pc = "dump"

\* A backup touches its own job's row in its one long transaction, and so
\* keeps the row locked against every other writer until it ends.
RowLocked(j) == \E r \in Runs : run[r].job = j
                                /\ run[r].pc \in {"dump", "after_dump"}

----------------------------------------------------------------------------
Init ==
  /\ job = [j \in Jobs |-> [NewJob[j] EXCEPT !.status = "absent"]]
  /\ doc = InitDoc
  /\ run = [r \in Runs |-> Idle]
  /\ sem = Concurrency
  /\ ocr_gate = NoRun
  /\ poll = PollIdle
  /\ api = Idle
  /\ instance_ready = TRUE
  /\ commits = [j \in Jobs |-> 0]
  /\ left = Bounds

(* enqueue_job.  Rows are created in the order of their identifiers.       *)
Enqueue(j) ==
  /\ job[j].status = "absent"
  /\ \A i \in Jobs : i < j => job[i].status # "absent"
  /\ NewJob[j].doc # NoDoc => doc[NewJob[j].doc].exists
  /\ job' = [job EXCEPT ![j] = NewJob[j]]
  /\ UNCHANGED <<doc, run, sem, ocr_gate, poll, api, instance_ready, commits,
                 left>>

----------------------------------------------------------------------------
(* _poll_jobs.  The worker's loop awaits it before it calls it again, so   *)
(* there is one call at a time.                                            *)

\* The ready check; when it fails the poll returns and changes nothing.
PollReady ==
  /\ poll.pc = "idle" /\ instance_ready
  /\ poll' = [poll EXCEPT !.pc = "requeue"]
  /\ UNCHANGED <<job, doc, run, sem, ocr_gate, api, instance_ready, commits,
                 left>>

\* Mutant: the age of the lock is not looked at.
IsStaleAnyAge(row) == row.status = "running"

\* requeue_stale_running, one UPDATE.
IsStale(row) == row.status = "running" /\ row.locked_at = "stale"

PollRequeueStale ==
  /\ poll.pc = "requeue"
  /\ \A j \in Jobs : IsStale(job[j]) => ~RowLocked(j)
  /\ job' = [j \in Jobs |-> IF IsStale(job[j]) THEN RequeueRow(job[j])
                                              ELSE job[j]]
  /\ poll' = [poll EXCEPT !.pc = "admit"]
  /\ UNCHANGED <<doc, run, sem, ocr_gate, api, instance_ready, commits, left>>

\* ocr_exclusive_locked, sem.locked and sem.acquire, with no await between.
PollAdmit ==
  /\ poll.pc = "admit"
  /\ IF ocr_gate # NoRun \/ sem = 0
     THEN poll' = PollIdle /\ UNCHANGED sem
     ELSE poll' = [poll EXCEPT !.pc = "gate"] /\ sem' = sem - 1
  /\ UNCHANGED <<job, doc, run, ocr_gate, api, instance_ready, commits, left>>

\* claim_next, the read of the inbox gate.
PollGate ==
  /\ poll.pc = "gate"
  /\ poll' = [pc |-> "claim", active |-> ActivePreflightDoc(job, doc)]
  /\ UNCHANGED <<job, doc, run, sem, ocr_gate, api, instance_ready, commits,
                 left>>

\* claim_next, the SELECT ... FOR UPDATE and the write; then the permit goes
\* to a new task, or back when there is no job.
PollClaim ==
  /\ poll.pc = "claim"
  /\ poll' = PollIdle
  /\ LET next == NextJob(job, doc, poll.active) IN
     \/ /\ next = {}
        /\ sem' = sem + 1
        /\ UNCHANGED <<job, run>>
     \/ \E j \in next, r \in Runs :
          /\ ~Live(r)
          /\ job' = [job EXCEPT ![j] = ClaimRow(@)]
          /\ run' = [run EXCEPT ![r] = [pc |-> "starting", job |-> j,
                                        seen |-> NoRow]]
          /\ UNCHANGED sem
  /\ UNCHANGED <<doc, ocr_gate, api, instance_ready, commits, left>>

----------------------------------------------------------------------------
(* _run: the task of one claimed job.  seen is the row as the task's       *)
(* current session has it in its identity map.                             *)

\* Mutant: the task ends without sem.release().
EndRunKeepsPermit(r) ==
  /\ run' = [run EXCEPT ![r] = Idle]
  /\ UNCHANGED sem

\* The `finally` of _run: the task ends and gives its permit back.
EndRun(r) ==
  /\ run' = [run EXCEPT ![r] = Idle]
  /\ sem' = sem + 1

\* get_job; the status it finds is not looked at.
LoadJob(r) ==
  /\ run[r].pc = "starting"
  /\ LET j == run[r].job IN
       run' = [run EXCEPT ![r] = IF Present(j)
                                 THEN [@ EXCEPT !.pc = "working",
                                                !.seen = job[j]]
                                 ELSE [@ EXCEPT !.pc = "failed"]]
  /\ UNCHANGED <<job, doc, sem, ocr_gate, poll, api, instance_ready, commits,
                 left>>

\* The handler enters and leaves the OCR section.  Text extraction does so
\* for images only.
EnterOcr(r) ==
  /\ run[r].pc = "working" /\ ocr_gate = NoRun
  /\ job[run[r].job].type \in {"ocr", "text_extraction"}
  /\ run' = [run EXCEPT ![r].pc = "ocr"]
  /\ ocr_gate' = r
  /\ UNCHANGED <<job, doc, sem, poll, api, instance_ready, commits, left>>

LeaveOcr(r) ==
  /\ run[r].pc = "ocr"
  /\ run' = [run EXCEPT ![r].pc = "after_ocr"]
  /\ ocr_gate' = NoRun
  /\ UNCHANGED <<job, doc, sem, poll, api, instance_ready, commits, left>>

\* run_backup_job: it touches its row and starts the dump; what is left to do
\* after the dump comes in the same transaction.
BeginDump(r) ==
  /\ run[r].pc = "working" /\ job[run[r].job].type = "backup"
  /\ Present(run[r].job)
  /\ run' = [run EXCEPT ![r].pc = "dump"]
  /\ UNCHANGED <<job, doc, sem, ocr_gate, poll, api, instance_ready, commits,
                 left>>

EndDump(r) ==
  /\ run[r].pc = "dump"
  /\ run' = [run EXCEPT ![r].pc = "after_dump"]
  /\ UNCHANGED <<job, doc, sem, ocr_gate, poll, api, instance_ready, commits,
                 left>>

\* Handler and complete_job share one session: both commit, or the flush
\* finds no row to update and the task goes on to the except branch.
HandlerDone(r) ==
  \/ run[r].pc \in {"after_ocr", "after_dump"}
  \/ run[r].pc = "working" /\ job[run[r].job].type \notin {"ocr", "backup"}

CompleteJob(r) ==
  /\ HandlerDone(r) /\ Present(run[r].job)
  /\ LET j == run[r].job IN
       /\ job' = [job EXCEPT ![j] = Flush(@, run[r].seen,
                                          CompleteRow(run[r].seen))]
       /\ commits' = [commits EXCEPT ![j] = @ + 1]
  /\ EndRun(r)
  /\ UNCHANGED <<doc, ocr_gate, poll, api, instance_ready, left>>

\* The handler, the flush or the commit raises; the session is rolled back.
\* Only a backup commits first: its failed record, and with it its touches.
HandlerRaises(r) ==
  /\ run[r].pc \in {"working", "ocr", "after_ocr", "after_dump"}
  /\ \/ UNCHANGED job
     \/ /\ run[r].pc = "after_dump"
        /\ job' = [job EXCEPT ![run[r].job] = TouchRow(@)]
  /\ run' = [run EXCEPT ![r] = [pc |-> "failed", job |-> run[r].job,
                                seen |-> NoRow]]
  /\ ocr_gate' = IF ocr_gate = r THEN NoRun ELSE ocr_gate
  /\ UNCHANGED <<doc, sem, poll, api, instance_ready, commits, left>>

\* The except branch: a new session loads the row.  Without a row, get_job
\* raises out of the task and only the `finally` is left.
LoadFailedJob(r) ==
  /\ run[r].pc = "failed" /\ Present(run[r].job)
  /\ run' = [run EXCEPT ![r].pc = "failing", ![r].seen = job[run[r].job]]
  /\ UNCHANGED <<job, doc, sem, ocr_gate, poll, api, instance_ready, commits,
                 left>>

FailureWithoutRow(r) ==
  /\ run[r].pc \in {"failed", "failing"} /\ ~Present(run[r].job)
  /\ EndRun(r)
  /\ UNCHANGED <<job, doc, ocr_gate, poll, api, instance_ready, commits, left>>

\* fail_job; a transient error of an AI provider delays the next attempt.
AITypes == {"metadata_suggestion", "embedding", "summary"}

FailJob(r) ==
  /\ run[r].pc = "failing" /\ Present(run[r].job)
  /\ \E delayed \in BOOLEAN :
       /\ delayed => job[run[r].job].type \in AITypes
       /\ job' = [job EXCEPT ![run[r].job] =
                    Flush(@, run[r].seen, FailRow(run[r].seen, delayed))]
  /\ EndRun(r)
  /\ UNCHANGED <<doc, ocr_gate, poll, api, instance_ready, commits, left>>

\* The database refuses the except branch's transaction: the task ends and
\* the row stays RUNNING with no one working on it.
FailureNotRecorded(r) ==
  /\ run[r].pc \in {"failed", "failing"}
  /\ Spend("outage")
  /\ EndRun(r)
  /\ UNCHANGED <<job, doc, ocr_gate, poll, api, instance_ready, commits>>

\* _lock_heartbeat, a task beside each _run.
Heartbeat(r) ==
  /\ Live(r) /\ ~RowLocked(run[r].job)
  /\ job' = [job EXCEPT ![run[r].job] = TouchRow(@)]
  /\ UNCHANGED <<doc, run, sem, ocr_gate, poll, api, instance_ready, commits,
                 left>>

----------------------------------------------------------------------------
(* Time.  The lock of a job nobody runs grows stale; that of a running job *)
(* does if the event loop is blocked for long enough or, within MaxStalls, *)
(* if its heartbeats fail.                                                 *)
LockAges(j) ==
  /\ job[j].status = "running" /\ job[j].locked_at = "fresh"
  /\ IF HasRun(j) /\ ~Blocked THEN Spend("stall") ELSE UNCHANGED left
  /\ job' = [job EXCEPT ![j].locked_at = "stale"]
  /\ UNCHANGED <<doc, run, sem, ocr_gate, poll, api, instance_ready, commits>>

DelayExpires(j) ==
  /\ job[j].available_at = "future"
  /\ job' = [job EXCEPT ![j].available_at = "past"]
  /\ UNCHANGED <<doc, run, sem, ocr_gate, poll, api, instance_ready, commits,
                 left>>

----------------------------------------------------------------------------
(* The worker process dies, and docker starts a new one (worker_loop).     *)
Crash ==
  /\ poll.pc # "down"
  /\ Spend("crash")
  /\ poll' = [pc |-> "down", active |-> {}]
  /\ run' = [r \in Runs |-> Idle]
  /\ sem' = Concurrency
  /\ ocr_gate' = NoRun
  /\ UNCHANGED <<job, doc, api, instance_ready, commits>>

\* requeue_all_running and cancel_jobs_for_trashed_documents, in one
\* transaction.
Trashed(row) == row.doc # NoDoc /\ doc[row.doc].is_trashed

\* Mutants of StartRow: rows of every status, or all but the completed ones,
\* are requeued.
StartRowAnyStatus(row) ==
  IF row.status \in Missing THEN row ELSE RequeueRow(row)
StartRowNotCompleted(row) ==
  IF row.status \in Missing \cup {"completed"} THEN row ELSE RequeueRow(row)

StartRow(row) ==
  LET row1 == IF row.status = "running" THEN RequeueRow(row) ELSE row IN
  IF row1.status \in OpenStatuses /\ Trashed(row1)
  THEN CancelTrashedRow(row1) ELSE row1

StartWorker ==
  /\ poll.pc = "down"
  /\ job' = [j \in Jobs |-> StartRow(job[j])]
  /\ poll' = PollIdle
  /\ UNCHANGED <<doc, run, sem, ocr_gate, api, instance_ready, commits, left>>

----------------------------------------------------------------------------
(* The API process: POST /api/jobs/{id}/cancel loads the row, then writes. *)
CancelLoad(j) ==
  /\ api.pc = "idle" /\ Present(j)
  /\ Spend("cancel")
  /\ api' = [pc |-> "loaded", job |-> j, seen |-> job[j]]
  /\ UNCHANGED <<job, doc, run, sem, ocr_gate, poll, instance_ready, commits>>

CancelJob ==
  /\ api.pc = "loaded" /\ ~RowLocked(api.job)
  /\ job' = IF Present(api.job)
            THEN [job EXCEPT ![api.job] = Flush(@, api.seen,
                                                CancelRow(api.seen))]
            ELSE job
  /\ api' = Idle
  /\ UNCHANGED <<doc, run, sem, ocr_gate, poll, instance_ready, commits, left>>

\* What users and handlers do to a document, as far as the queue sees it.
SetDoc(d, new) ==
  /\ doc[d].exists
  /\ Spend("docstep")
  /\ doc' = [doc EXCEPT ![d] = new]

\* trash_document, restore_document, and a change of processing_status.
TrashDocument(d) ==
  /\ ~doc[d].is_trashed
  /\ SetDoc(d, [doc[d] EXCEPT !.is_trashed = TRUE, !.inbox = FALSE])
  /\ UNCHANGED <<job, run, sem, ocr_gate, poll, api, instance_ready, commits>>

RestoreDocument(d) ==
  /\ doc[d].is_trashed
  /\ \E inbox \in BOOLEAN :
       SetDoc(d, [doc[d] EXCEPT !.is_trashed = FALSE, !.inbox = inbox])
  /\ UNCHANGED <<job, run, sem, ocr_gate, poll, api, instance_ready, commits>>

ChangeStatus(d) ==
  /\ \E s \in {"processing", "ready"} \ {doc[d].processing_status} :
       SetDoc(d, [doc[d] EXCEPT !.processing_status = s])
  /\ UNCHANGED <<job, run, sem, ocr_gate, poll, api, instance_ready, commits>>

\* permanently_delete: the document goes, and its jobs with it.
DeleteDocument(d) ==
  /\ doc[d].is_trashed \/ doc[d].inbox
  /\ SetDoc(d, [doc[d] EXCEPT !.exists = FALSE, !.is_trashed = FALSE,
                              !.inbox = FALSE])
  /\ \A j \in Jobs : job[j].doc = d => ~RowLocked(j)
  /\ job' = [j \in Jobs |-> IF job[j].doc = d /\ Present(j)
                            THEN DeleteRow(job[j]) ELSE job[j]]
  /\ UNCHANGED <<run, sem, ocr_gate, poll, api, instance_ready, commits>>

\* The instance leaves the READY state for a restore, and returns to it.
PauseInstance ==
  /\ instance_ready /\ Spend("pause")
  /\ instance_ready' = FALSE
  /\ UNCHANGED <<job, doc, run, sem, ocr_gate, poll, api, commits>>

ResumeInstance ==
  /\ ~instance_ready
  /\ instance_ready' = TRUE
  /\ UNCHANGED <<job, doc, run, sem, ocr_gate, poll, api, commits, left>>

----------------------------------------------------------------------------
Poll == PollReady \/ PollRequeueStale \/ PollAdmit \/ PollGate \/ PollClaim

Task(r) ==
  \/ LoadJob(r) \/ EnterOcr(r) \/ LeaveOcr(r) \/ BeginDump(r)
  \/ CompleteJob(r) \/ HandlerRaises(r) \/ LoadFailedJob(r)
  \/ FailureWithoutRow(r) \/ FailJob(r)

Environment ==
  \/ Crash \/ CancelJob \/ PauseInstance \/ ResumeInstance
  \/ \E j \in Jobs : Enqueue(j) \/ CancelLoad(j)
  \/ \E d \in Docs : \/ TrashDocument(d) \/ RestoreDocument(d)
                     \/ ChangeStatus(d) \/ DeleteDocument(d)

\* A step of the worker's event loop, which runs one coroutine at a time.
WorkerStep ==
  /\ ~Blocked
  /\ \/ Poll
     \/ \E r \in Runs : Task(r) \/ Heartbeat(r) \/ FailureNotRecorded(r)

Next ==
  \/ WorkerStep
  \/ \E r \in Runs : EndDump(r)
  \/ StartWorker
  \/ \E j \in Jobs : LockAges(j) \/ DelayExpires(j)
  \/ Environment

Spec == Init /\ [][Next]_vars

\* The worker's loop goes on, its tasks end (every wait of a handler has a
\* timeout), docker restarts the worker, and time passes: a delay expires
\* and the lock of an abandoned job ages.  Users owe nothing.
Fairness ==
  /\ WF_vars(~Blocked /\ Poll) /\ WF_vars(StartWorker)
  /\ \A r \in Runs : WF_vars(~Blocked /\ Task(r)) /\ WF_vars(EndDump(r))
  /\ \A j \in Jobs : /\ WF_vars(DelayExpires(j))
                     /\ WF_vars(~HasRun(j) /\ LockAges(j))

FairSpec == Spec /\ Fairness

----------------------------------------------------------------------------
TaskPcs == {"idle", "starting", "working", "ocr", "after_ocr", "dump",
            "after_dump", "failed", "failing"}

Tasks == [pc : TaskPcs, job : Jobs \cup {NoJob}, seen : Row(Docs)]
Polls == [pc : {"idle", "requeue", "admit", "gate", "claim", "down"},
          active : SUBSET Docs]
Requests == [pc : {"idle", "loaded"}, job : Jobs \cup {NoJob},
             seen : Row(Docs)]

\* The type invariant.
TypeOK ==
  /\ job \in [Jobs -> Row(Docs)]
  /\ doc \in [Docs -> DocRow]
  /\ run \in [Runs -> Tasks]
  /\ sem \in Nat
  /\ ocr_gate \in Runs \cup {NoRun}
  /\ poll \in Polls
  /\ api \in Requests
  /\ instance_ready \in BOOLEAN
  /\ commits \in [Jobs -> Nat]
  /\ left \in [DOMAIN Bounds -> Nat]
  /\ \A r \in Runs : Live(r) => run[r].job \in Jobs
  /\ api.pc = "loaded" => api.job \in Jobs

\* No permit of the semaphore leaks and none is given back twice: free ones,
\* the tasks and a poll between acquire and claim add up (the comment in
\* _poll_jobs tells of a leak that wait_for would cause).
PollHoldsPermit == IF poll.pc \in {"gate", "claim"} THEN 1 ELSE 0

PermitsAccounted ==
  sem + Cardinality(LiveRuns) + PollHoldsPermit = Concurrency

\* No job is worked on by two tasks at the same time.
OneRunPerJob ==
  \A r, s \in LiveRuns : run[r].job = run[s].job => r = s

\* The work of a job takes effect at most once, through any sequence of
\* retries, crashes, restarts and cancellations.
CommittedOnce == \A j \in Jobs : commits[j] <= 1

\* A RUNNING row that no task works on has a lock time, without which
\* requeue_stale_running would pass over it for ever.
AbandonedIsReclaimable ==
  \A j \in Jobs : job[j].status = "running" /\ ~HasRun(j)
                    => job[j].locked_at # "null"

\* Once completed, a job is never queued or run again; the cancel endpoint's
\* late write may relabel it.
CompletedIsNeverRedone ==
  [][\A j \in Jobs : job[j].status = "completed" =>
       job'[j].status \in {"completed", "cancelled", "gone"}]_vars

\* A job cancelled by the user stays cancelled.
CancelledStays ==
  [][\A j \in Jobs : job[j].status = "cancelled" =>
       job'[j].status \in {"cancelled", "gone"}]_vars

\* The queue drains: in the end every job is completed, failed or cancelled,
\* unless its document is in the trash or the instance is not ready.
Settled(j) == job[j].status \notin OpenStatuses \/ Trashed(job[j])

JobsSettle == <>[](instance_ready => \A j \in Jobs : Settled(j))
----------------------------------------------------------------------------
(* Why a job has one task at a time: a lock that is kept fresh is what     *)
(* keeps requeue_stale_running away from the row of a live task.           *)
HeartbeatsWork ==
  MaxStalls = 0 /\ \A j \in Jobs : NewJob[j].type # "backup"

\* The row of a live task is its own: still running under a fresh lock,
\* unless the job was cancelled or deleted under the task's hands.
OwnRow(r) ==
  LET row == job[run[r].job] IN
  /\ row.status \in {"running", "cancelled", "gone"} /\ ~IsStale(row)
  /\ run[r].pc \in {"working", "ocr", "after_ocr", "failing"} =>
       /\ run[r].seen.status \in {"running", "cancelled"}
       /\ run[r].seen.status = "cancelled" => row.status # "running"

\* A job whose work has taken effect is closed, and nobody works on it.
ClosedIfDone(j) ==
  commits[j] > 0 => /\ commits[j] = 1 /\ ~HasRun(j)
                    /\ job[j].status \in {"completed", "cancelled", "gone"}

\* The inductive invariant behind OneRunPerJob and CommittedOnce.
Exclusive ==
  /\ left.stall = 0
  /\ \A j \in Jobs : job[j].type # "backup"
  /\ \A r \in Runs : run[r].pc \notin {"dump", "after_dump"}
  /\ poll.pc = "down" => LiveRuns = {}
  /\ OneRunPerJob
  /\ \A r \in LiveRuns : OwnRow(r)
  /\ \A j \in Jobs : ClosedIfDone(j)

----------------------------------------------------------------------------
(* The abstract job: running as long as a task works on it, whatever its   *)
(* row says meanwhile, and waiting again if that task is lost in a crash.  *)
Phase(j) ==
  IF Present(j) /\ HasRun(j) THEN "running"
  ELSE IF job[j].status \in OpenStatuses THEN "waiting" ELSE job[j].status

Lifecycle == INSTANCE JobLifecycle
               WITH phase <- [j \in Jobs |-> Phase(j)],
                    done <- {j \in Jobs : commits[j] > 0}

\* The queue implements the lifecycle of JobLifecycle.
ImplementsLifecycle == Lifecycle!Spec
=============================================================================
