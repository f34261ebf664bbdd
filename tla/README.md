# Verification of Folium

Folium is a self-hosted document manager. A FastAPI process serves users, one
worker process does the slow work (text extraction, OCR, thumbnails,
suggestions by a language model, chunking, embeddings, summaries, backups), and
both share a PostgreSQL database and a data directory; the web client is a
React application that keeps what it has fetched in one query cache. This
directory holds TLA+ models of the parts whose correctness depends on the order
in which things happen, TLC configurations that check them on small instances,
and TLAPS proofs of what holds for every instance.

Paths of Python files are relative to `src/backend/src/folium/`, of TypeScript
files to `src/frontend/src/`.

## Inventory

| Component | State | Operations | What is hard | What makes it correct |
|---|---|---|---|---|
| Job queue (`services/jobs.py`) | rows of `jobs`: status, priority, retries, lock, delay | enqueue, claim, complete, fail, cancel, touch, requeue | every writer is another session; a function that loads a row and writes it later overwrites | a job's work takes effect once; a completed job stays so; nothing is left running without a task |
| Worker loop (`workers/main.py`, `workers/ocr_gate.py`) | asyncio tasks, a semaphore, the OCR lock, a heartbeat per task | poll, run, heartbeat, start, crash | awaits between check and use, crashes at any point, a blocking call stops every heartbeat | permits are conserved, one task per job, the queue drains |
| Document lifecycle, inbox preflight (`services/documents.py`, `workers/processor.py`) | folder, inbox and trash flags, processing status, text, chunks, suggestions; open jobs | handlers of the job types; process, move, trash, restore, retries | handlers hold a document loaded minutes ago; users act meanwhile; an inbox document leaves preparation only through its jobs | a preparing document has work coming; text and index agree; a failure stays visible |
| Embedding pipeline (`services/embedding_pipeline.py`) | status per chunk, progress on the document | batches with a commit each, isolation, splitting, continuation, cancellation | crash between batches, reprocessing while a batch is at the provider | no chunk is stuck or sent twice, chunks are the text, progress equals the chunks |
| Query cache and hooks (`lib/api/hooks.ts`) | the answers of queries, requests that run | fetch, poll, refetch, mutate and invalidate | fetches in flight when a mutation commits, keys that a hook forgets | the page shows what its user has done |
| Ask panel of a document (`components/ask/DocumentAskPanel.tsx`) | the turn that runs, queued follow-ups, an overlay over the saved thread | submit, stop, new chat, clear, queue, open and close | callbacks that read refs after the user has changed them | a question is sent once, by the consent given for it, and shown once |
| Ask with a scope (`components/ask/AIChatPanel.tsx`, `api/ask.py`) | scope, question, answer, refusal | ask, confirm, change scope, ask another | scope and policy change while a question is on its way | an answer is shown under its scope; confirmed only after a refusal |
| Inbox review (`features/inbox/`) | rows and suggestions of the last poll, dialogs, loops | accept all, process, save and process, retry, remove | loops over many documents decide by a snapshot | what the user chose stays; only prepared documents are filed; loops end |
| Library page (`features/documents/DocumentsPage.tsx` and its hooks) | address, list, selection, focus | select, page, filter, bulk actions | the list changes under the selection | an action takes what the user sees |
| Document viewer (`components/viewer/DocumentViewer.tsx`, `DocumentViewerModal.tsx`) | address and history, downloads, pdf.js, highlight | open, next, back, cite, trash | downloads end after the next document was opened | no other document is shown or marked; nothing leaks |
| Folder tree, trash page (`services/folders.py`, `components/folders/`, `features/trash/TrashPage.tsx`) | the tree, trash flags, dialogs, selections | create, rename, move, trash, restore, purge, sweeps | old lists, two moves at once, the order of a sweep | purge takes only what is in the trash; restores go home; no cycle |
| Search (`components/search/`, `components/layout/NavbarSearch.tsx`) | drafts, timers, address, answers | type, submit, change mode | answers out of order, two effects that follow each other | the page comes to rest, draft and address agree |
| Tags (`services/tags.py`, `features/settings/LibraryPage.tsx`, `components/tags/`) | tags and links | create, rename, merge, delete, delete unused | a target that is deleted or merged by then | a merge leaves no document without a tag |
| Sign-in and session (`features/auth/`, `lib/csrf.ts`, `auth/`) | cookie, CSRF token, the query of the session | sign in and out, password, reset, profile | an answer of `/me` from before a sign-in or sign-out | no return of a session; tokens fit |
| User administration (`components/settings/UsersSettings.tsx`, `services/users.py`) | accounts, reset requests, dialogs | role, activation, password, deletion, resets | dialogs over old rows in several browsers | an administrator remains; a settled reset stays settled |
| Storage, ingest, purge, quotas (`storage/service.py`, `services/quotas.py`) | blobs by checksum, consumed files | ingest, duplicates, permanent delete | files change before the transaction commits | a document's blob exists; no file is lost |
| Backup and restore (`services/backup.py`, `backup/`) | bundles, instance state | backup, verify, retention, restore | a restore that fails half way | a bundle has every file its dump names |
| Provider locks, health (`ai/provider_lock.py`, `ai/health.py`, `ai/retry.py`) | a lock per host | chat, embed, probe, retry | chat waits on jobs | mutual exclusion, bounded waiting |
| Search and retrieval, chunking, tool loop (`search/`, `services/chunking.py`, `ai/rag.py`) | none of their own | rank, fuse, split, answer | ties in fusion, off-by-one in splitting | chunks cover the text |

The API process and the worker meet only in the database, at READ COMMITTED;
inside the worker everything runs on one event loop, so a stretch of code
without an `await` is atomic. In the client a handler runs to its end before
the next one; between two of them come answers in any order, timers, polls, and
whatever other users and the worker have done. The pages of the client meet
only in the query cache and in the address.

## Plan and state

1. `JobRows`, `JobQueue`, `JobLifecycle`: the queue and the worker. Done.
2. `Preflight`: document lifecycle and handlers over the queue's claim order.
   Done but for summaries and edits of metadata.
3. `EmbeddingPipeline`: done for one model.
4. The web client: `QueryCache`, then a module for every page that keeps state
   of its own (`AskPanel`, `AskChat`, `InboxReview`, `Library`, `Viewer`,
   `Folders`, `Search`, `Tags`, `SignIn`, `UserAdmin`), the last of them with
   the services that they ask. Done; see each module for what it leaves out.
5. Left: stores of originals with ingest and purge, backup and restore, a
   change of the active embedding model, provider locks, invitations and
   quotas. See "Not modelled".

Proofs stand for every module that keeps state.

## The job queue

### Modules

`JobRows` has one row of the `jobs` table and, as pure operators, what each
function of `services/jobs.py` assigns to it (`ClaimRow`, `CompleteRow`,
`FailRow`, `CancelRow`, `RequeueRow`, `TouchRow`...), what SQLAlchemy's flush
sends to the database (`Flush`: only the columns that differ from the loaded
ones), and the choice of the next job (`NextJob`, with the one-document gate
`ActivePreflightDoc`). Timestamps are kept as what the queries distinguish:
`locked_at` is null, fresh or stale; `available_at` is null, future or past.

`JobQueue` has the table, the documents as far as the queue reads them, the
worker's tasks, semaphore, OCR lock and poll, one cancel request at a time, and
the instance state. An action is a transaction, or code between two awaits:

| Code | Actions |
|---|---|
| `_poll_jobs` | `PollReady`, `PollRequeueStale`, `PollAdmit`, `PollGate`, `PollClaim` |
| `_run`, success | `LoadJob`, (`EnterOcr`, `LeaveOcr`, `BeginDump`, `EndDump`), `CompleteJob` |
| `_run`, except branch | `HandlerRaises`, `LoadFailedJob`, `FailJob`, `FailureWithoutRow`, `FailureNotRecorded` |
| `_lock_heartbeat` | `Heartbeat` |
| `worker_loop` | `StartWorker`; `Crash` is the process dying anywhere |
| `cancel_job` | `CancelLoad`, `CancelJob` |
| documents | `TrashDocument`, `RestoreDocument`, `ChangeStatus`, `DeleteDocument` (jobs cascade) |
| time | `LockAges`, `DelayExpires` |

A task keeps in `seen` the row as its session's identity map has it: sessions
are made with `expire_on_commit=False` and `session.get` returns a loaded
object without a query, so `complete_job` sees what `get_job` saw. `commits` is
a history variable: how often a job's own transaction committed.

`JobLifecycle` is what the queue promises: a job waits, runs and ends, its work
takes effect at the end of a run and never before, and a job that is done never
waits or runs again. `JobQueue` implements it (`ImplementsLifecycle`) under a
mapping in which a job runs as long as a task works on it, whatever its row
says.

`MCJobQueue` gives the instances: an OCR job beside a backup, or the OCR job
of one inbox document beside suggestions for another, which ask a provider and
may be delayed.

### Runs

| Run | Instance | Shows |
|---|---|---|
| `queue_single` | concurrency 1, an OCR job of a document in the trash beside a backup with its blocking dump; one crash, outage, cancellation, pause, document change | `CommittedOnce`: work takes effect once; `JobsSettle`: the queue drains |
| `queue_pair` | concurrency 2, OCR of one inbox document beside suggestions for another, which may be delayed; heartbeats work; one crash, outage, cancellation, document change | `PermitsAccounted`, `OneRunPerJob`; `JobsSettle`, behind the inbox gate, the OCR gate and a delayed retry; `ImplementsLifecycle`, the refinement of `JobLifecycle` |
| `queue_cancel` | concurrency 1, one cancellation | **violated**: a job cancelled mid-run does not stay cancelled |

`TypeOK`, `Exclusive`, `AbandonedIsReclaimable` and `CompletedIsNeverRedone`
are in no run: they are proved for every instance.

Bounds. Two jobs and two tasks give every pair of writers of one row; in
`queue_single` the second task identity would show a permit that is given twice.
Each kind of trouble happens once, so that any two kinds
meet; the models have no counters other than these bounds and the retry counts,
which `max_retries` bounds. In `queue_single` about 570 thousand states, in
`queue_pair` 410 thousand.

What the runs assume is visible in their bounds: `OneRunPerJob` and
`CommittedOnce` at concurrency 2 need `MaxStalls = 0` (no failing heartbeat)
and no backup; together this is `HeartbeatsWork`, the assumption of the
theorems. Without it a live job is requeued as stale and run again; `pg_dump`
alone does that, since it blocks the event loop (`services/backup.py:167`).
With concurrency 1 nobody else claims, and a backup is harmless. What a failing
heartbeat, or a dump beside other tasks, does at concurrency 2 is therefore in
the model but in no run: both properties fail there, and the code gives no
guarantee to state instead.

### Fairness

`Fairness` asks that the worker's poll goes on, that a task which can step
does (every wait of a handler has a timeout), that docker restarts the worker
(`restart: unless-stopped`), that a delay expires and that the lock of a job
without a task ages. Nothing is asked of users, of heartbeats or of the
resumption of a paused instance: `JobsSettle` is about instances that are
ready, and about jobs whose document is not in the trash (the claim skips those
until the next start cancels them).

### Proofs

`JobRows_proofs` has the lemmas about rows: types, what each write leaves of a
status, and what survives a flush. `JobQueue_proofs` proves, for any sets of
jobs, documents and tasks, any concurrency and any bounds:

- `TypeCorrect`: `Spec => []TypeOK`, one step per action.
- `PermitsSafe`: the semaphore's free permits, the live tasks and a poll that
  has acquired add up to the concurrency. The argument is by finite
  cardinalities: `PollClaim` moves a permit from the poll to a new task,
  `EndRun` from a task to the semaphore.
- `ExclusiveInvariant`, `OneRunPerJobSafe`, `CommittedOnceSafe`, which assume
  `HeartbeatsWork`. Neither property is inductive. `Exclusive` adds why: the
  row of a live task is running under a lock that is not stale, or was
  cancelled or deleted under it, so nothing else makes it queued and no other
  task can claim it; what the task has loaded is no newer than that, so its
  write closes the row; and a job whose work took effect has no task and a
  closed row.

Three more theorems rest on the same assumption. The lemma
`JobStep` says what a step of the queue can be for one job: it writes the row
and leaves the task alone (`RowStep`), or it starts or ends the task
(`TaskStep`). From this follow:

- `AbandonedIsReclaimableSafe`, by the stronger `RunningIsLocked`: every running
  row has a lock time. The proof needs heartbeats, for it rests on the steps of
  one task per job.
- `CompletedIsNeverRedoneSafe`: the row of a completed job has no task, so only
  a cancellation or a deletion can still write it.
- `ImplementsLifecycleSafe`: each change of a job's phase is a move of
  `JobLifecycle`. It needs `Exclusive` (a job that is done is closed) and
  `CompletedIsDone` (a completed row means that the work took effect), before
  and after the step.

Constants are assumed to be what their comments say (`JobsAssumption`,
`RunsAssumption`, `ConcurrencyAssumption`, `NewJobAssumption`,
`InitDocAssumption`, `BoundsAssumption`). Liveness is only model-checked.

## The life of a document

### Module

`Preflight` has the jobs table (rows of `JobRows`, claimed in the order of its
`NextJob`), the columns of `documents` that decide what happens next, what
`document_pages` and `document_chunks` hold, the worker's tasks, the OCR gate,
and the request in flight. A text is how it came about: of the file itself
(`native`) or by OCR.

| Code | Actions |
|---|---|
| `_poll_jobs`, `process_job` | `Claim`, then the step of the job's type |
| `process_text_extraction` | `LoadDocument`, `FinishTextExtraction`; images also `EnterOcr`, `FirstPages`, `LastPages` |
| `process_ocr` | `LoadDocument`, `ClearPages`, `EnterOcr`, `FirstPages`, `LastPages`, `FinishOcr` |
| `process_thumbnail`, `process_indexing` | `LoadDocument`, `FinishThumbnail`, `FinishIndexing` |
| `process_metadata_suggestion` | `LoadDocument`, `CheckSuggestion`, `FinishSuggestion` |
| `mark_preflight_ready` and the flush it makes | `MarkReady`; `Decide`, `FlushStatus` |
| end of `_run` | `Commit`, or `HandlerRaises` and `FailJob` with `Fate` |
| worker start | `Restart` |
| requests | `LoadRequest`, then `Respond` with one of `MoveDocument`, `TrashDocument`, `RestoreDocument`, `RetryPreflight`, `RetryOcr`, `ReprocessSuggestions`, `ProcessInbox`; `CancelJob` |

A handler keeps the document as its session loaded it and at its commit writes
the columns it believes changed; the queries it makes on the way (`OpenJobs`)
see what others have committed. A handler that has flushed holds the row, and
requests and other handlers wait (`DocLocked`).

Abstractions: one request in flight at a time, though jobs go on between its
load and its commit; retries of jobs are not delayed; the job's own row is
written as `JobQueue` has shown it is; jobs of the types embedding and summary,
which read nothing of this, are left out.

### Runs

| Run | Instance | Shows |
|---|---|---|
| `preflight_retries` | a scanned PDF, concurrency 1; at most two of retry preflight, retry OCR, Process, suggestions and a cancellation, each once, and one crash | `TypeOK`, `PreparingHasWork`, `PagesAgree`, `LibraryIsIndexed`, `SuggestionsReadOcrText`, `FailureIsNotHidden` |
| `preflight_pair` | a scanned PDF or an image, concurrency 2; at most three of move, trash and restore | `PreparationEnds` under fairness |

Requests come in any order and at any moment; every handler may fail at any
step, and with no retries a failure is final, which is the case that decides a
document's fate. One document is enough for these properties, since none relates
two. Two requests in all give every pair of them, in both orders. The run has 450
thousand states; with three requests of these, 4 million, it passes as well.

Fairness (`FairSpec`): the worker goes on claiming, a task that can step does,
and a request ends. A task waits only for the OCR gate and for row locks, whose
holders step. Nothing is asked of users or crashes. The runs say
`CHECK_DEADLOCK FALSE` since a system whose users make no more requests stops.

What the bounds keep out, on purpose, because the property named fails there:

- At `JOB_CONCURRENCY = 2`, two jobs of one document decide on snapshots of each
  other: with retries, or with a request for suggestions, neither marks the
  document ready and `PreparingHasWork` fails.
- The same happens at any concurrency when a job of the preparation is
  cancelled, or when the worker starts while the document is in the trash
  (`services/jobs.py:213`, `:296`): nothing is left to end the preparation.
  `PreparingHasWork` says nothing once a job was cancelled.
- Where there is no OCR after text extraction `LibraryIsIndexed` fails. For an
  image, text extraction does the OCR itself, and for a born-digital PDF there is
  none; neither it nor retry preflight drops the chunks of the earlier text. An
  extraction that is retried, or a retry preflight with Process and a crash, then
  changes the text after it was indexed. `preflight_retries` is therefore about a
  scanned PDF, whose OCR comes after every other text and drops the chunks.
- A document that is ready and then moved or restored out of the inbox, instead
  of processed, is in the library without an index (`services/documents.py:389`).

### Proofs

`Preflight_proofs` proves, for any set of documents, any ids of jobs, any number
of retries, crashes and requests:

- `PreflightTypeCorrect`, at any concurrency: `Spec => []TypeOK`, by `Shape`,
  which adds which jobs a task can run and what it holds at which step.
- `OneTaskInvariant`, `ModelsSeeOcrText`, `FailuresStayVisible`, which assume
  `OneTask`, one task at a time. That is `JOB_CONCURRENCY = 1`, the default;
  with two tasks a handler overwrites what the other has decided. `OneTaskInv`
  says what a handler may rely on although requests go on while it runs: a
  scanned document that counts as read has the text of OCR (`Gated`); what its
  session has loaded is still so, but for what a request may do (`SeenFits`,
  with `Revised`); and what it has decided fits the row that it will write
  (`OutcomeFits`).
- `DocumentsInPreparationHaveWork` and `FinishedPagesAgree`, by `WorkInv`: a
  document in preparation has an open job of the preflight, and one whose pages
  are not those of its row has an open job that reads it again. Each handler
  must therefore leave a job behind, or end the preparation, in the transaction
  that closes its own. They assume `OneTask` and `SparesTrashed`: no crash, or
  no document goes to the trash. It is a hypothesis because the code needs it: a
  start of the worker cancels the jobs of trashed documents, and nobody adds
  them again when a document is restored (see above).
- `FinishedScansAreIndexed` and, if all documents are scanned,
  `FinishedLibraryIsIndexed`, which is `LibraryIsIndexed`. They follow from
  `IndexInv`, which says: a document of the Inbox is not indexed and has no job
  that would do it; a scanned one that was filed is indexed from its pages, or
  has a job to come after which it will be (one that reads it again, or an
  indexing job), or its preparation or its indexing failed; and what a handler
  has loaded, or decided, about the place of its document is still so, or there
  is other work to index it. The cases to argue are Process while a handler runs
  that has seen the document in the Inbox, and a reader that drops the chunks of
  a document filed meanwhile. The hypotheses are `OneTask`, scanned documents
  and `NeverRefiled` (no move, no restore), for the reasons above. Crashes, the
  trash and retries are all allowed; the property says nothing once a job was
  cancelled.

TLC has checked `OneTaskInv`, `WorkInv` and `IndexInv` as invariants before they
were proved: the first two of both instances; the last, with crashes, trash and
Process at once, of a scanned document and of one beside a document that is not
scanned. Only model-checked is `PreparationEnds`, which is liveness.

## The embedding pipeline

### Module

`EmbeddingPipeline` has the chunks of one document in the order of their
creation (the index, the part of the text, status, attempts, and whether there
is a vector), the document's columns about embeddings, whether the dimension of
the active embedding space is known, the embedding jobs, the worker's task, and
the request to embed again.

| Code | Actions |
|---|---|
| `process_document_embeddings` | `Start` or `Skip`, `Check` (cancelled? out of budget?), `Load`, `Touch`, `Call`, `CommitBatch`, `Finalize` |
| `_ensure_token_safe` | what `Load` finds `TooLong`, `SplitLong(c)` for one after the other, `Reload` of the batch |
| `_embed_batch_with_isolation` | `Call(answer)` for the slice on top of the task's stack: `Isolates` halves it, else `Settled` (`Vectorised`, `SplitChunk`, `MarkFailed`) |
| `_finalize_document` | `Verdict` |
| end of `_run` | `Commit`, or `HandlerRaises` and `FailJob` |
| worker | `Claim`, `Crash` |
| `reprocess_embeddings` | `ReprocessLoad`, `ReprocessLock` (jobs, then chunks), `ReprocessCommit` |
| `cancel_job` | `CancelJob` |
| PostgreSQL | row locks (`TaskWaits`, `RequestWaits`), `Deadlock` |

A text is an interval of tokens, so that splitting is exact: a chunk is
`first..last`, and the pieces of `split_oversized_text` are intervals of
`SaferMax` tokens. Indexing may have cut the text in any way (`Chunkings`),
without overlap. An answer of the provider is vectors, too few vectors, or an
error of the classes the code tells apart.

Batches and slices are sets of chunks, identified by their place in the table;
`FirstOf` takes the first of a set in the order of `chunk_index`, as the query
and the halving do.

A transaction's own writes are in `run.own` until it commits. A session goes on
with the objects it has loaded, across its commits too: `run.mem` is what it
remembers of the chunks of its batch, and a column is written only if it differs
from that (`Store`, `Write`).

### Runs

| Run | Instance | Shows |
|---|---|---|
| `embedding_batches` | three tokens of which two fit, cut in any way; batches of up to three chunks, two batches to a job, two attempts to a chunk; one request to embed again, and one crash, error, outage or cancellation | all of the below |
| `embedding_space` | one chunk and a crash | **violated**: `RerunKeepsSpace` |

`ChunksAreTheText`: whatever is split, rolled back or repeated, the chunks in
the order of their index are the text, each part once. `NothingIsSentTwice`: no
chunk that is embedded is sent again. `PendingHasWork`: when
all work is done no chunk waits, unless a user cancelled, a job failed for good
or there was no provider (`excuse`). `ProgressAgrees`: the columns shown as
progress then agree with the chunks. `EachBatchProgresses` is the variant: of
what may still be tried (`Tries`: attempts at a chunk, and places where it may
be cut) every batch that commits leaves strictly less, and nothing but a request
to embed again adds to it, so that the chain of jobs that continue each other
ends. No fairness is needed for it.

Three tokens are the least with which a chunk is too long for the provider
before it is sent, can be refused and split again, and a batch can be halved
with two chunks in one half; two batches to a job make it continue. The excuse
is reset by a request to embed again, so that what follows one is checked.

Concurrency is 1 and the model does not change. At concurrency 2 two jobs of a
document can load the same chunks and undo each other. One more thing the model
shows and no property states, because the code promises nothing: when
`reprocess_embeddings` commits between the cancellation check and the first
write of a batch, chunks the session still holds are written back as embedded,
and a vector equal to the remembered one is not written at all.

### Proofs

`Embedding_proofs` has all properties of `embedding_batches` for a text of any
length, any limits of the provider, sizes of batches and budgets, and any number
of requests and troubles. The assumptions are `TextAssumption`,
`CapabilitiesAssumption` (numbers that are positive, and a recommended size of a
chunk that is within the provider's limit) and `BoundsAssumption`.

- `EmbeddingTypeCorrect`, `ChunksAreTheTextSafe` and `NothingIsSentTwiceSafe`,
  by one inductive invariant `Inv`: types; the table is the text (`Text`); so is
  the table with a transaction's own writes, and what its session remembers are
  chunks of it (`FitsIn`); and the slices that are still to be sent are disjoint
  and hold nothing that is embedded (`Unsent`). The last part says what halving
  and splitting have to keep: a chunk that is split takes its pieces behind all
  chunks of the table, so that no slice that waits comes to hold one of them.
  Under this are lemmas on arithmetic and intervals: `PiecesOfChunk` (the pieces
  of a chunk are intervals that are not empty, follow each other and end where
  it ends, whatever `SaferMax` is), and `SplitTiles` (with the later chunks
  moved they are the text again).
- `PendingHasWorkSafe`, by `WorkInv` on top of `Inv`: if a chunk waits and nothing
  excuses it, a job is open (`WaitingHasWork`). It is not inductive, for a task
  may end its job: so `TaskHasWork` says that the row of a live task is running
  unless it was cancelled, that some other job or excuse answers for the chunks
  then, and that a task which is about to end without a job to continue has seen
  that nothing waits. `Room` says that jobs that are there, requests that
  are under way and requests to come do not exhaust the identifiers of `Jobs`,
  which therefore are twice the requests and one more: a request goes on naming
  the jobs it has found open after others have taken their place.
- `ProgressAgreesSafe`, by `ProgressInv` on top of both: the columns that are
  shown agree with the chunks (`Right`), or a job or an excuse answers for them
  (`Covered`). A session writes only columns that differ from what it has
  loaded, and a request resets some columns meanwhile. The proof therefore needs
  `SessionIsCurrent`: what a session has not flushed is in the row as the
  session remembers it, unless another job or excuse answers for the document,
  which is how the commit of a request leaves it; so a commit makes the row what
  the session means. And before the last commit of a run that is through, what
  it means is right. Since a text is not empty, something is embedded or has
  failed once nothing waits (`NothingWaits`).
- `EachBatchProgressesSafe`, by `TriesInv` on top of `Inv`. What is left to do
  is the size of a set, so that the proof is about inclusions: a chunk after an
  attempt has fewer tries (`AttemptTries`), the pieces of a chunk have none
  where it was cut (`CutTries`), and no two chunks share any (`TriesApart`).
  That a batch tries anything at all needs the invariant: the chunks in its
  slices wait, and neither half of a slice is empty (`HalvesNotEmpty`). That an
  attempt counts needs that the session remembers no fewer attempts than the
  table has (`Knows`): it remembers more after a request has reset the chunks.
  And the reset must not meet a transaction that has written chunks, which is
  what the row locks see to.

TLC has checked the parts of `WorkInv` as invariants of the instance of
`embedding_batches`, also with a second request, and `ProgressInv` and `TriesInv`
on that instance.

## The web client

In every module an action is a handler with all it sets, the arrival of an
answer with all its callbacks, the service of a request at the server, or what
others do. Requests that run are records of what they were sent with; answers
come when TLC likes, fail when it likes, and come after the component that sent
them is gone. React's closures matter: where a handler uses values of the render
it was created in, the model keeps them with the request.

| Module | State and code | Actions |
|---|---|---|
| `QueryCache` | one query on one page that shows it, with its data (as the changes that it has missed), its request and one mutation: `lib/api/hooks.ts`. `QueryHooks` has each query's key and what it shows, `Hooks` each mutation's change and the keys that it invalidates, `Pages` which page uses which | `Mount`, `Fetch`, `PollQuery`, `Read`, `Return`, `FetchFails`, `Mutate`, `Serve`, `Succeeded`, `Refused`, `WorkerChanges` |
| `AskPanel` | refs and state of `DocumentAskPanel.tsx`: the turn that runs, `queueRef`, `skipDrainRef`, the overlay over the saved thread, panels that were closed while a turn ran | `SubmitAsk`, `Succeed`, `Fail`, `Abort` and the drain that each begins; `Stop`, `StartReset`, `FinishReset`, `Open`, `Close`, `Switch`, and the server's `Answer`, `ServeReset`, `ServeLoad` |
| `AskChat` | scope, question, response and refusal of `AIChatPanel.tsx` in drawer or dock; the check of the remote provider in `api/ask.py` | `SelectKind`, `SelectFolder`, `SelectPill`, `SubmitQuestion`, `AskAnother`, `ServeAsk`, `ArriveAnswer`, `ArriveRefusal`, `ChangePolicy`, `PageChanges` |
| `InboxReview` | documents and suggestions of the server beside the rows of the last poll; the loops and dialogs of `InboxWorkView.tsx` | `StartAcceptAll`, `AcceptNext`, `StartProcess`, `StartSave`, `SaveUpdates`, `SaveProcesses`, `StartRetryBatch`, `ConfirmRemove`, `AssignFolder`, `Poll`, `Prepared`... |
| `Library` | `useDocumentsLibraryState.ts` (the address), `useDocumentSelectionModel.ts` (selection, focus, anchor), the bulk toolbar and `bulk_action` | changes of the address, clicks and keys, `bulks` sent and served, others' moves |
| `Viewer` | the address with the browser's history, downloads and pdf.js with their cancellation, highlight, Trash | opening, leaving, going back, each step of a download, citations |
| `Folders` | the tables of folders and documents as `services/folders.py` and the document service write them; `FolderTree.tsx`, `MoveToFolderDialog.tsx`, `TrashPage.tsx` | `ServeCreate`, `ServeRename`, `ServeTrash`; a move in `WalkMove`, `FlushMove`, `RefreshPaths`, `CommitMove` or `FailMove`; `RestoreTree`, `PurgeTree`, sweeps one request after the other |
| `Search` | draft, timers, address and answers of `SearchWorkspace.tsx` and `NavbarSearch.tsx` with `useSearch` | `TypeDraft`, `FireTimer`, `SelectMode`, `Ask`, `ArriveHits`, `LeaveFor`, `TypeInBox`, `FireBoxTimer` |
| `Tags` | `services/tags.py` and the two places that manage tags | `ServeCreateTag`, `ServeUpdateTag`, `ServeDeleteTag`, `ServeMergeTags`, `DeleteUnused` |
| `SignIn` | cookie, `lib/csrf.ts`, the query of the session, its requests, the pages of `features/auth/` with their guards, Profile | `Submit`, `CreateSession`, `EndSessions`, `FetchSession`, `AnswerMe`, `ArriveMe`, `ArriveSignIn`, `ArriveSignOut`, `Expire` |
| `UserAdmin` | accounts and reset requests; rows, dialog and request of every administrator's browser; `services/users.py` with a transaction that reads, then commits | `OpenDialog`, `RunConfirm`, `BeginCall`, `CommitCall`, `SettleCall`, `RequestReset` |

History variables, which the code has not: `chosen` (whose destination the user
has set), `drifted` (documents went elsewhere, or the order was changed, since a
list was loaded with nothing selected), `moved` (the scope changed under a
question), `left` (sessions that the browser has signed
out of), `crossed` (an answer of `/me` was overtaken by a sign-in or sign-out),
`overlapped` (two transactions of administrators overlapped), `pressed` (Confirm
was pressed for this question). No guard reads them.

### Runs

| Run | Instance | Shows |
|---|---|---|
| `inbox_review` | two documents, one still in preparation, one suggested destination; one edit and one retry; one dialog, request or loop of the page at a time (`MaxAtOnce`), while the worker goes on, the page polls, and the user edits, selects and uses chips | `TypeOK`, `ChosenDestinationStays`, `FilingIsMeant`, and under fairness `NothingHangs` |
| `web_documents` | the modules `Library`, `Viewer`, `Folders`, `Search`, `Tags`, `AskPanel`, `AskChat`, one followed at a time | its type invariants and the ten properties of these modules below |
| `web_accounts` | `QueryCache` (every query, on every page, with every mutation of it), `UserAdmin` with two administrators, `SignIn` with two sessions | their type invariants and the last five below |
| `ask_queue` | two questions in a panel that was just opened | **violated**: the follow-up does not start |
| `folders_cycle` | `MCFolders`: two folders with a folder each, and users who move them | **violated**: `TreeHasNoCycle` |

`MCWebDocuments` and `MCWebAccounts` extend several modules. These have no
variable in common and meet in the code only through the query cache, which is
modelled by itself, so a product of them would add nothing: `followed` picks
one at the start, and the others stay in an initial state. Every property is
then about the module that defines it.

| Property | What it says |
|---|---|
| `ChosenDestinationStays` | a destination that the user chose is not replaced by a suggestion accepted later, by a loop or from an old row |
| `FilingIsMeant` | only a prepared document with a destination gets into the library, and nothing in the library is removed by a dialog of the queue |
| `NothingHangs` | Accept all ends, and a row shown as being prepared does not stay so |
| `SelectionIsShown` | what is selected is in the list that is shown, as long as no document goes elsewhere and the order stays |
| `ShownIsViewed`, `HighlightIsOfDocument` | late downloads and old citations show nothing of another document |
| `PurgeSparesTheLive` | deleting for ever takes only what is in the trash at that moment |
| `RestoredTogetherGoHome` | a document restored together with its folder is in it again |
| `TypedSearchSettles` | draft and address come to agree |
| `MergeKeepsTagged` | a merge leaves no document without a tag |
| `ThreadFits`, `PostsAreMeant` | no turn is shown twice, none is sent twice, and consent to a remote provider is for one question |
| `AnswerFitsScope` | an answer is shown under a scope of the kind it was asked about (in the dock, under that scope), unless the scope changed while it was on its way |
| `OwnChangesAreShown` | when nothing is under way, a page shows what its user did, except for the pairs in `Late` |
| `AnAdminRemains` | an active administrator is left, while transactions do not overlap |
| `SettledResetStays` | a reset that was rejected is not approved by another dialog, nor the other way round |
| `SignedOutStaysOut`, `TokensFit` | a session that was left is not shown again; no token is refused for a session that is accepted, unless an answer of `/me` was overtaken |

Bounds. Three documents on pages of two give a page that becomes empty;
three folders, two of them nested, a purge below a purge; three submissions, a
turn, a follow-up behind it and one behind that; two words, one also with a
blank at its end, a draft that differs from its trimmed query; three tags, a
merge into a tag that is merged. Opening, changing and restoring once or twice
is enough for one handler to overtake another; two changes of the library's
address (`MaxVisits`) lead to a view and away from it again, and among the three
steps that addresses, bulk actions and others have in all (`MaxLibrarySteps`)
is every pair of kinds; four folders are the least that two moves can close to a
cycle although PostgreSQL locks their rows. `inbox_review` has 790 thousand
states, `web_documents` 1.2 million, `web_accounts` 930 thousand.

What the properties leave out, on purpose:

- `SelectionIsShown`: in the code the selection stays when the order changes on
  the first page (the effect of `DocumentsPage.tsx:189` does not depend on it),
  and when others, or the menu of a row, move a selected document elsewhere. The
  toolbar then acts on rows that are not shown. `drifted` marks both, until a
  list is loaded with nothing selected.
- `FilingIsMeant` is checked with one request, dialog or loop of the page at a
  time (`MaxAtOnce = 1`, for the number of states); with any number of them it is
  proved.
- `AnswerFitsScope`: an answer whose question was overtaken by a change of the
  scope is shown under the new one, and the code does not notice. In the drawer
  only the kinds are compared, since choosing another folder keeps the answer.
- `AnAdminRemains`, `SettledResetStays`: transactions that overlap
  (`overlapped`). `TokensFit`: answers of `/me` that were overtaken (`crossed`).
- Hits that belong to another request: none can be shown, but that is
  TanStack Query's doing, which keeps an answer under the key of its request. In
  `Search` a request is its own key, so there is no property to check.
- The folders: a move is four steps, the walk, the UPDATE with the row locks
  that it takes, the query that refreshes the paths and the commit. Any other
  request is one step, which waits for the locks that it needs and looks at the
  rows only then. A request that has computed which folders it takes along before
  it waits is therefore not modelled; nor is what two fetched lists of the trash
  page show together.

The worker in `InboxReview` prepares a document, writes whether it needs review,
and on each run makes new suggestions pending, also for a field that was
accepted or rejected before; it may also leave out the suggestions, or fail.

Fairness. `InboxReview`: Accept all steps (it awaits one request after the
other, each of which ends), the page polls while it shows a document in
preparation, and the worker prepares each document (`PreparationEnds` is the
promise of `Preflight`); no other loop or request has to end for `NothingHangs`.
`Search`: a timer that is set fires. Nothing is asked of users. The runs say
`CHECK_DEADLOCK FALSE` because users may stop.

### Proofs

- `InboxReview_proofs`: `InboxTypeCorrect`; `DestinationsStay`, which every
  write of a row must respect (`UserStays`, `AcceptedKeeps`), in particular
  those of a loop that goes by rows of an earlier poll; `FilingStaysMeant`,
  which follows from what the server refuses, whatever the page shows.
- `Documents_proofs`, the viewer: `ViewerTypeCorrect`; `NoOtherDocumentIsShown`
  and `NoDownloadLeaks` by `LateIsCancelled` (a download that was not cancelled is
  the current one, of the document that is viewed), kept together with both by
  `LoadInv`; `QuotesAreOfTheirDocument` by `QuoteOfDocument`.
- The library page: `LibraryTypeCorrect`; `SelectionsAreShown` by
  `SelectionInv`: unless something drifted, a list that is loaded is the one that
  the address asks for now, and the selection is in it. The list is sorted
  by a `CHOOSE`, and lemma `OrderExists` shows that a finite set of numbers has an
  order to choose.
- The folders: `FoldersTypeCorrect` by `FoldersInv`, which says that rows and
  documents refer to rows that are there, through creations, moves, restores and
  purges, and by `MovingOK` (what a move has locked is still there);
  `OnlyTheTrashIsPurged`; `RestoredGoHome` by `StampInv`: no request under way
  has put a folder into the trash yet, and what a loop has restored is either
  there or was put into the trash by a request that came after the loop began;
  `TrashShowsAll`, `FoldersSpec /\ []TreeHasNoCycle => []BinHidesNothing`: every
  item of the trash is in a row of its page, or below one, as each list was
  fetched. That the tree has no cycle is a hypothesis, since finding 4 is that
  it may get one, and then folders and documents in a cycle of the trash are in
  no row of the page. The proof goes up from a folder to its parents; that this
  ends (`TreeEnds`) is by the sets of descendants, which grow.
- The search: `SearchTypeCorrect`.
- The tags: `TagsTypeCorrect`; `MergesKeepTags`.
- `Ask_proofs`, the panel of a document, for any number of questions, chats and
  panels: `EveryPostIsMeant` by `QueueInv`: what waits in a queue, of a panel that
  is open or of one that was closed, is there once (`WaitsOnce`) and was not sent.
  `AskPanelTypeCorrect` and `ThreadsFit` (`ThreadFits`) by `TypesInv` and
  `ThreadInv` on top of it: what was saved, read or cached has each question once
  (`SavedOnce`), and the overlay has only questions that were sent, each once, and
  all answered but the one that runs (`Laid`). A turn that starts was not sent, so
  it is not in the thread yet; that is why the argument needs `QueueInv`.
- The chat: `AskChatTypeCorrect`; `AnswersFitTheirScope` by `ScopeInv` (a closed
  panel has no question; a question under way has the scope that is selected
  unless `moved`); `ConsentFollowsARefusal` by `RefusalIsKnown`.
- `Accounts_proofs`, the administration: `UserAdminTypeCorrect`;
  `SomebodyAdministrates` by `OneTransaction`: unless two transactions have
  overlapped there is at most one, of somebody who is an active administrator
  himself, and nobody changes his own account; `SettledResetsStay`.
- Signing in: `SignInTypeCorrect`; `NoReturnOfASession` by `SessionsArePast` (a
  new session has a number that nobody knows yet) and `NoneIsLeft` (neither the
  cookie nor an answer under way that can still be shown is of a session that was
  left); `NoTokenIsRefused` by `TokenInv`, which says the same of the token, the
  answers of `/me` and the requests; `RefetchesKeepTheForm` by `TypedOnProfile`.
- The query cache: `CacheTypeCorrect` and `UsersSeeWhatTheyDid`, for any number
  of mutations and of changes by others. `Freshness` adds what holds while
  something is under way: an answer that has missed a mutation is invalid,
  unless it is excused, the mutation still runs and will invalidate it, or a
  fetch was joined; and the same holds of what a request has read, which is why
  a fetch under way has to be given up. The tables of hooks and pages are not
  expanded (`@@` has no definition for the provers). What the proof needs of
  them is `HooksAssumption`: a mutation of a page invalidates every query of the
  page that shows what it changes, but for `Late` and those that are polled. TLC
  evaluates that for every page, hook and query.

They assume only the constants' `ASSUME`s, and `TrashShowsAll` its hypothesis.
The theorems are about the specifications of the single modules. Of the two
compositions `DocumentsTypeCorrect` and `AccountsTypeCorrect` prove the
invariants `DocumentsTypeOK` and `AccountsTypeOK`: a behaviour of a composition
is one of each component, whose type theorem then applies. Only model-checked:
liveness (`NothingHangs`, `TypedSearchSettles`).

What the provers cannot use is recursion. `Folders` therefore has the
descendants of a folder, and what emptying the trash takes, as least sets that
are closed under a step (`DescendantIds`, `EmptiedFolders`), and `Library` the
order of its list as the one that exists.

## Findings

1. `queue_cancel`: `docs/architecture/jobs-and-workers.md:19` says that
   `complete_job` preserves a cancellation that comes mid-run. It tests the
   status its session loaded before the handler ran, and overwrites it.
2. `embedding_space`: a run that finds everything embedded, after a crash
   between the last batch and the end of the job, writes an unknown dimension to
   the settings of the embedding space; questions asked over search results then
   select documents by keywords only, until another document is embedded.
3. `ask_queue`: mounting the Ask panel sets `skipDrainRef`, and only the end of
   a turn resets it: the first turn ends without starting the follow-ups queued
   behind it, which the panel says "will start next".
4. `folders_cycle`: `move_folder` refuses a move into a descendant
   (`services/folders.py:354`), but two moves at once each see no cycle and
   make one. With a, a/a1, b and b/b1, a is moved below b1 and b below a1: the
   UPDATEs lock a and b, their foreign keys b1 and a1, and neither refresh of the
   paths writes a row of the other. The recursive queries over these folders then
   have no end. With two folders alone PostgreSQL makes one move wait.

## Known, and stated by no property

The models follow the code here; no property says otherwise, so that each would
have to be argued first.

- `docs/architecture/jobs-and-workers.md:29` says that no job is claimed while
  OCR runs. At concurrency 2 a poll that has read the gate may claim awaits
  later. A job whose heartbeats fail is run twice.
- `services/documents.py:552`: retry preflight of a document loaded before a
  job's commit does not write the status, which then stays as the job left it.
  Reset by retry preflight, chunks and embeddings of the earlier text stay.
- `services/embedding_pipeline.py:163`: when `reprocess_embeddings` commits
  between the cancellation check and the first write of a batch, chunks that the
  session holds are written back as embedded.
- `services/users.py:282`: two administrators who demote each other at the same
  time leave none; hence `overlapped`.
- `lib/api/hooks.ts`: the pairs of `Late` in `QueryCache`, such as a renamed tag
  in the rows of documents; and a first load that an invalidation joins keeps
  the data from before it. Any error of `/me` clears the CSRF token, and one that
  is answered late sets the old token again; hence `crossed`.
- `components/settings/ProfileSettings.tsx:83`: a refetch that finds a changed
  user overwrites a name that is being typed.
- `components/ask/AIChatPanel.tsx:275`: Confirm sends the question and scope of
  now, not of the refusal; and any answer 403 offers Confirm.
- Viewer: a citation of page 1, opened while another page is shown, stays there
  (`ubiquitous-language.md:399`: "Citation clicks open the viewer at the cited
  page"). The list ignores the parameter of the link "Documents awaiting
  processing" (`features/settings/LibraryPage.tsx:294`).
- Tags: "Delete unused tags" counts without the trash
  (`services/library_stats.py:287`), and so takes tags of trashed documents.
- Folders: `move_document` takes a document out of the trash; a destination in
  the trash is not refused; a child folder that is restored by itself is below
  one in the trash; a sweep of the trash page stops at its first failure; the
  tree's dialogs share one name field and can be submitted twice.
- Search: an address that arrives while one types replaces the draft; Enter in
  the box opens a hit of the query before the last pause.
- Inbox: a tab that shows no document in preparation does not poll;
  `accept_suggestion` does not look at the suggestion's status; documents that
  need review are processed with the others.

## Not modelled

- What a handler computes (text, vectors, images), wording, results and
  timestamps that nothing reads back.
- Storage of originals. Two places are known and out of the models' reach, since
  they lie between the database and the file system: permanent deletion unlinks
  an original before its transaction commits (`services/documents.py:491`), and
  counts the documents that share it without a lock (`:477`).
- Quotas, invitations, lockout, API tokens: a check and a write each.
- Backup and restore: one job at a time around `pg_dump`, `tar` and
  `pg_restore`. `JobQueue` has the dump that blocks and the pause.
- Provider locks and retries: a lock per host within one process; nothing of the
  state above depends on them but time.
- Search ranking (SQL and floating point), chunking (strings;
  `EmbeddingPipeline` takes any cut of the text), the tool loop (a dialogue with
  a provider), adapters, OCR and subprocesses (I/O).
- The HTTP layer and the MCP server, which keep no state; forms of the settings
  over one query and one mutation each, whose freshness `QueryCache` has;
  rendering; installer, containers and migrations.
