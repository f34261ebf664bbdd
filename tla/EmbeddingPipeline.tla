------------------------- MODULE EmbeddingPipeline -------------------------
(***************************************************************************)
(* The embedding of one indexed document (services/embedding_pipeline.py): *)
(* its chunks go to the provider in batches, each with a commit of its     *)
(* own; a batch that is refused is halved until the chunk at fault is      *)
(* alone, and one that is too long is split; a job that has used up its    *)
(* budget is continued by a new one.  Meanwhile users cancel jobs and ask  *)
(* for the embeddings to be made again, and the worker crashes.            *)
(*                                                                         *)
(* The sessions are made with expire_on_commit=False.  A task therefore    *)
(* goes on with the document and the chunks as it has loaded them, and an  *)
(* UPDATE carries only the columns that differ from that.  Rows a          *)
(* transaction has written are locked until it ends; two transactions that *)
(* wait for each other are a deadlock, which the database breaks.          *)
(*                                                                         *)
(* Abstractions.  JOB_CONCURRENCY is 1, the default, and the provider and  *)
(* the model stay the same.  A text is an interval of tokens, a vector is  *)
(* there or not, the dimension of the active embedding space is known or   *)
(* not, and is at first: other documents were embedded before.             *)
(* Rows of jobs that have ended are forgotten once their task has: nothing *)
(* reads them.  Retries are not delayed, other jobs come in between.       *)
(***************************************************************************)
EXTENDS JobRows, Sequences, FiniteSets

CONSTANTS
  TextLength,      \* of the document, in tokens
  MaxInput,        \* the provider's embedding_max_input_tokens
  Recommended,     \* and its embedding_recommended_chunk_tokens
  MinPiece,        \* no piece of a chunk is meant to be smaller (64)
  BatchSize,
  BatchBudget,     \* job_batch_budget
  MaxDepth,        \* MAX_ISOLATION_DEPTH
  MaxAttempts,     \* MAX_CHUNK_EMBED_ATTEMPTS
  MaxRetries,      \* of every job
  MaxRequests,     \* to embed the document again
  MaxTroubles      \* crashes, errors, outages and cancellations

ASSUME TextAssumption == TextLength \in Nat \ {0}
ASSUME CapabilitiesAssumption ==
  /\ {MaxInput, Recommended, MinPiece, BatchSize, BatchBudget,
      MaxAttempts} \subseteq Nat \ {0}
  /\ Recommended <= MaxInput
ASSUME BoundsAssumption ==
  {MaxDepth, MaxRetries, MaxRequests, MaxTroubles} \subseteq Nat

VARIABLES
  chunk,           \* document_chunks, in the order of their creation
  doc,             \* the columns about embeddings of the document's row
  active,          \* active_embedding_dimension of ai_settings is known
  job,             \* the embedding jobs of the document
  run,             \* the worker's task
  api,             \* a request to embed the document again
  excuse,          \* a job was cancelled, failed or skipped since (history)
  left             \* what the bounds still allow

vars == <<chunk, doc, active, job, run, api, excuse, left>>

\* Identifiers for those that are open and those that a request still names.
Jobs == 1..(2 * MaxRequests + 1)

NoRow == [NewRow("embedding", 1, 50, MaxRetries) EXCEPT !.status = "absent"]
NewJob == NewRow("embedding", 1, 50, MaxRetries)

NewChunk(index, first, last) ==
  [index |-> index, first |-> first, last |-> last, status |-> "pending",
   attempts |-> 0, vector |-> FALSE]

Tokens(c) == c.last - c.first + 1

Unsettled == {"pending", "embedding"}

\* What the session remembers of a chunk it has loaded.
Remembered(c) == [attempts |-> c.attempts, vector |-> c.vector]

\* The document once it is indexed, as process_indexing leaves it.
IndexedDoc(chunks) ==
  [started |-> FALSE, chunks_total |-> chunks, chunks_embedded |-> 0,
   chunks_failed |-> 0, has_embeddings |-> FALSE, processing_status |-> "ready"]

\* A task's transaction: the document and settings as its session remembers
\* them, the columns it has flushed, the table with its own writes (if any),
\* the chunks of its last batch, those of them it still has to split, and the
\* slices it still has to embed.
Idle == [pc |-> "idle", job |-> 0, doc |-> IndexedDoc(0), columns |-> {},
         own |-> <<>>, mem |-> <<>>, long |-> {}, work |-> <<>>,
         batches |-> 0, dimension |-> FALSE, active |-> FALSE,
         space |-> FALSE, exit |-> "none"]

\* A request: the columns it will write and the jobs it will cancel.
NoRequest == [stage |-> "none", columns |-> {}, jobs |-> {}]

Smaller(a, b) == IF a < b THEN a ELSE b
Larger(a, b) == IF a < b THEN b ELSE a

Spend(what) == left[what] > 0 /\ left' = [left EXCEPT ![what] = @ - 1]
Trouble == Spend("trouble")

----------------------------------------------------------------------------
(* The tables as the task's transaction sees them.                         *)

Table == IF run.own = <<>> THEN chunk ELSE run.own

Having(table, statuses) == {c \in DOMAIN table : table[c].status \in statuses}
Count(table, statuses) == Cardinality(Having(table, statuses))

\* The first n of some chunks, in the order of chunk_index.
FirstOf(table, ids, n) ==
  {c \in ids :
     Cardinality({d \in ids : table[d].index < table[c].index}) < n}

\* _load_pending_batch.
PendingBatch(table) == FirstOf(table, Having(table, Unsettled), BatchSize)

\* _refresh_document_progress.
Refreshed(d, table) ==
  [d EXCEPT !.chunks_total = Len(table),
            !.chunks_embedded = Count(table, {"embedded"}),
            !.chunks_failed = Count(table, {"failed"})]

Columns == {"started", "chunks_total", "chunks_embedded", "chunks_failed",
            "has_embeddings", "processing_status"}
Changed(old, new) == {c \in Columns : old[c] # new[c]}
Write(row, columns, new) ==
  [c \in Columns |-> IF c \in columns THEN new[c] ELSE row[c]]

\* A column is written if it differs from what the session remembers; the
\* status always is, since the UPDATE that claims the batch has changed it.
Store(row, status, old, new) ==
  [row EXCEPT !.status = status,
              !.attempts = Column(old.attempts, new.attempts, @),
              !.vector = Column(old.vector, new.vector, @)]

Embedded(m) == [attempts |-> m.attempts + 1, vector |-> TRUE]

\* Mutant: a failed attempt is not counted.
MissedUncounted(m) == m

Missed(m) == [m EXCEPT !.attempts = @ + 1]
Emptied(m) == [attempts |-> m.attempts + 1, vector |-> FALSE]

----------------------------------------------------------------------------
(* What is done to the chunks of a batch: on a pair of the table and what  *)
(* the session remembers.                                                  *)

\* update(DocumentChunk), before the provider is called.
Claimed(s, ids) ==
  [s EXCEPT !.table = [c \in DOMAIN @ |->
     IF c \in ids THEN [@[c] EXCEPT !.status = "embedding"] ELSE @[c]]]

Rewritten(s, ids, status(_), memory(_)) ==
  [table |-> [c \in DOMAIN s.table |->
                IF c \in ids
                THEN Store(s.table[c], status(c), s.mem[c], memory(s.mem[c]))
                ELSE s.table[c]],
   mem |-> [c \in DOMAIN s.mem |->
              IF c \in ids THEN memory(s.mem[c]) ELSE s.mem[c]]]

Vectorised(s, ids) == Rewritten(s, ids, LAMBDA c : "embedded", Embedded)

\* _mark_chunks_failed.
MarkFailed(s, ids, force) ==
  Rewritten(s, ids,
            LAMBDA c : IF force \/ s.mem[c].attempts + 1 >= MaxAttempts
                       THEN "failed" ELSE "pending",
            Missed)

\* safer_max: about half of what was too long.
SaferMax(tokens) ==
  LET half == Larger(MinPiece, Smaller(tokens, Recommended) \div 2)
  IN Larger(MinPiece \div 2, Smaller(half, Recommended))

\* split_oversized_text: pieces of safer_max tokens and a rest.
Pieces(c) ==
  LET size == SaferMax(Tokens(c))
  IN [k \in 1..((Tokens(c) + size - 1) \div size) |->
        [first |-> c.first + (k - 1) * size,
         last |-> Smaller(c.first + k * size - 1, c.last)]]

\* The table with a chunk in pieces: the first takes its row, the others are
\* new, and the chunks behind it move to make room, or not.
InPieces(s, c, moves) ==
  LET old == s.table[c]
      pieces == Pieces(old)
      count == Len(s.table)
      extra == Len(pieces) - 1
  IN  [d \in 1..(count + extra) |->
         IF d > count
         THEN NewChunk(old.index + (d - count), pieces[d - count + 1].first,
                       pieces[d - count + 1].last)
         ELSE IF d = c
         THEN [Store(old, "pending", s.mem[c], Emptied(s.mem[c]))
                 EXCEPT !.last = pieces[1].last]
         ELSE IF moves /\ s.table[d].index > old.index
         THEN [s.table[d] EXCEPT !.index = @ + extra]
         ELSE s.table[d]]

\* Mutant: later chunks do not move.
SplitInPlace(s, c) ==
  IF Len(Pieces(s.table[c])) = 1 THEN MarkFailed(s, {c}, TRUE)
  ELSE [table |-> InPieces(s, c, FALSE),
        mem |-> [s.mem EXCEPT ![c] = Emptied(@)]]

\* _split_single_chunk; one piece means that it cannot be split.
SplitChunk(s, c) ==
  IF Len(Pieces(s.table[c])) = 1 THEN MarkFailed(s, {c}, TRUE)
  ELSE [table |-> InPieces(s, c, TRUE),
        mem |-> [s.mem EXCEPT ![c] = Emptied(@)]]

\* The chunks that _ensure_token_safe splits.
TooLong(table, batch) == {c \in batch : Tokens(table[c]) > MaxInput}

----------------------------------------------------------------------------
\* The chunks that indexing may have made of the text: cut after some tokens.
Chunkings ==
  UNION {{[c \in 1..n |-> NewChunk(c, IF c = 1 THEN 1 ELSE ends[c - 1] + 1,
                                   ends[c])] :
            ends \in {e \in [1..n -> 1..TextLength] :
                        /\ e[n] = TextLength
                        /\ \A c, d \in 1..n : c < d => e[c] < e[d]}} :
         n \in 1..TextLength}

Init ==
  /\ chunk \in Chunkings
  /\ doc = IndexedDoc(Len(chunk))
  /\ active = TRUE
  /\ job = [j \in Jobs |-> IF j = 1 THEN NewJob ELSE NoRow]
  /\ run = Idle /\ api = NoRequest
  /\ excuse = FALSE
  /\ left = [request |-> MaxRequests, trouble |-> MaxTroubles]

\* Rows that are locked, and who has to wait for them.
HeldByRequest(j) == api.stage \in {"jobs", "chunks"} /\ j \in api.jobs
HeldByTask(j) ==
  run.job = j /\ run.pc = "call" /\ job[j].status = "running"

TaskWaits ==
  \/ run.pc \in {"touch", "commit", "failed"} /\ HeldByRequest(run.job)
  \/ /\ api.stage = "chunks"
     /\ \/ run.pc = "split" /\ run.long # {}
        \/ run.pc = "call" /\ run.work # <<>>

RequestWaits ==
  \/ api.stage = "loaded" /\ \E j \in api.jobs : HeldByTask(j)
  \/ api.stage = "jobs" /\ run.own # <<>>
  \/ api.stage = "chunks" /\ run.columns # {}

\* The flush of what the session has changed in the document.
Flushed(r, new) ==
  [r EXCEPT !.doc = new, !.columns = @ \cup Changed(r.doc, new)]

\* The row of a job nobody works on any more.
Retire(row) == IF row.status \in OpenStatuses THEN row ELSE NoRow

\* A new job, under an identifier that is not in use.
Free(rows) == {j \in Jobs : rows[j].status = "absent" /\ j \notin api.jobs}
Enqueued(rows) ==
  LET first == CHOOSE j \in Free(rows) : \A k \in Free(rows) : j <= k
  IN  [rows EXCEPT ![first] = NewJob]

Claim ==
  /\ run.pc = "idle"
  /\ \E j \in Jobs : /\ job[j].status = "queued" /\ ~HeldByRequest(j)
                     /\ job' = [job EXCEPT ![j] = ClaimRow(@)]
                     /\ run' = [Idle EXCEPT !.pc = "start", !.job = j]
  /\ UNCHANGED <<chunk, doc, active, api, excuse, left>>

----------------------------------------------------------------------------
(* process_document_embeddings.                                            *)

\* No provider, or one that is not available: the job completes.
Skip ==
  /\ run.pc = "start" /\ Trouble
  /\ run' = [run EXCEPT !.pc = "commit", !.exit = "skipped"]
  /\ UNCHANGED <<chunk, doc, active, job, api, excuse>>

Start ==
  /\ run.pc = "start"
  /\ run' = [Flushed([run EXCEPT !.doc = doc],
                     Refreshed([doc EXCEPT !.started = TRUE], chunk))
               EXCEPT !.pc = "check", !.active = active]
  /\ UNCHANGED <<chunk, doc, active, job, api, excuse, left>>

\* Mutant: a single chunk that is left is forgotten.
ContinuesForSome(table) == Count(table, Unsettled) > 1

\* Is there anything left to continue with?
Continues(table) == Count(table, Unsettled) > 0

\* The head of the loop: cancelled, or out of batches or time.
Check ==
  /\ run.pc = "check"
  /\ IF job[run.job].status = "cancelled"
     THEN run' = [run EXCEPT !.pc = "finalize", !.exit = "cancelled"]
     ELSE \/ /\ run.batches < BatchBudget
             /\ run' = [run EXCEPT !.pc = "load"]
          \/ /\ run.batches > 0
             /\ run' = [run EXCEPT !.pc = "finalize",
                  !.exit = IF Continues(Table) THEN "continued" ELSE "none"]
  /\ UNCHANGED <<chunk, doc, active, job, api, excuse, left>>

\* The chunks of a batch as the session has them: those of the batch before are
\* still in it, and are not read again.
Memory(batch) ==
  [c \in batch |-> IF c \in DOMAIN run.mem THEN run.mem[c]
                   ELSE Remembered(Table[c])]

WholeBatch(batch) == <<[ids |-> batch, depth |-> 0]>>

\* _load_pending_batch, and what _ensure_token_safe finds too long.
Load ==
  /\ run.pc = "load"
  /\ LET batch == PendingBatch(Table)
         long == TooLong(Table, batch)
     IN run' = [run EXCEPT
          !.mem = Memory(batch), !.long = long,
          !.pc = IF batch = {} THEN "finalize"
                 ELSE IF long = {} THEN "touch" ELSE "split",
          !.work = IF batch # {} /\ long = {} THEN WholeBatch(batch) ELSE <<>>]
  /\ UNCHANGED <<chunk, doc, active, job, api, excuse, left>>

\* It splits one after the other,
SplitLong(c) ==
  /\ run.pc = "split" /\ c \in FirstOf(Table, run.long, 1) /\ ~TaskWaits
  /\ LET after == SplitChunk([table |-> Table, mem |-> run.mem], c)
         split == Len(after.table) > Len(Table)
     IN run' = [Flushed(run, IF split THEN Refreshed(run.doc, after.table)
                                      ELSE run.doc) EXCEPT
          !.own = after.table, !.mem = after.mem, !.long = @ \ {c}]
  /\ UNCHANGED <<chunk, doc, active, job, api, excuse, left>>

\* and loads the batch again.
Reload ==
  /\ run.pc = "split" /\ run.long = {}
  /\ LET batch == PendingBatch(Table)
     IN run' = [run EXCEPT
          !.mem = Memory(batch),
          !.pc = IF batch = {} THEN "check" ELSE "touch",
          !.work = IF batch = {} THEN <<>> ELSE WholeBatch(batch)]
  /\ UNCHANGED <<chunk, doc, active, job, api, excuse, left>>

\* touch_job_lock; from here to the commit the job's row is locked.
Touch ==
  /\ run.pc = "touch" /\ ~TaskWaits
  /\ job' = [job EXCEPT ![run.job] = TouchRow(@)]
  /\ run' = [run EXCEPT !.pc = "call"]
  /\ UNCHANGED <<chunk, doc, active, api, excuse, left>>

Answers ==
  {"vectors", "mismatch", "oversized", "transient", "rejected", "other"}

\* Mutant: the halves overlap.
HalvesOverlap(table, slice) ==
  LET mid == Cardinality(slice.ids) \div 2
  IN <<[ids |-> FirstOf(table, slice.ids, mid), depth |-> slice.depth + 1],
       [ids |-> slice.ids \ FirstOf(table, slice.ids, mid - 1),
        depth |-> slice.depth + 1]>>

\* _embed_batch_with_isolation cuts its slice in two.
Halves(table, slice) ==
  LET left_ids == FirstOf(table, slice.ids, Cardinality(slice.ids) \div 2)
  IN <<[ids |-> left_ids, depth |-> slice.depth + 1],
       [ids |-> slice.ids \ left_ids, depth |-> slice.depth + 1]>>

\* Does this answer halve the slice?
Isolates(answer, slice) ==
  /\ Cardinality(slice.ids) > 1 /\ slice.depth < MaxDepth
  /\ answer \in {"oversized", "transient", "rejected"}

\* What the slice is left as otherwise: answers that retrying cannot help fail
\* the chunks at once, others when their attempts are used up.
Settled(s, slice, answer) ==
  IF answer = "vectors" THEN Vectorised(s, slice.ids)
  ELSE IF answer = "oversized" /\ Cardinality(slice.ids) = 1
  THEN SplitChunk(s, CHOOSE c \in slice.ids : TRUE)
  ELSE MarkFailed(s, slice.ids, answer \in {"rejected", "other"})

\* One call of _embed_batch_with_isolation, for the slice on top.
Call(answer) ==
  /\ run.pc = "call" /\ run.work # <<>> /\ ~TaskWaits
  /\ LET slice == Head(run.work)
         before == [table |-> Table, mem |-> run.mem]
         after == Settled(Claimed(before, slice.ids), slice, answer)
         split == Len(after.table) > Len(Table)
     IN IF Isolates(answer, slice)
        THEN run' = [run EXCEPT
               !.own = Claimed(before, slice.ids).table,
               !.work = Halves(Table, slice) \o Tail(@)]
        ELSE run' = [Flushed(run, IF split THEN Refreshed(run.doc, after.table)
                                           ELSE run.doc) EXCEPT
               !.own = after.table, !.mem = after.mem, !.work = Tail(@),
               !.dimension = @ \/ answer = "vectors"]
  /\ UNCHANGED <<chunk, doc, active, job, api, excuse, left>>

\* The commit of a batch.
CommitBatch ==
  /\ run.pc = "call" /\ run.work = <<>>
  /\ LET last == Flushed(run, Refreshed(run.doc, Table))
     IN /\ chunk' = Table
        /\ doc' = Write(doc, last.columns, last.doc)
        /\ run' = [last EXCEPT !.pc = "check", !.columns = {}, !.own = <<>>,
                               !.batches = @ + 1]
  /\ UNCHANGED <<active, job, api, excuse, left>>

\* Mutants: a status the pipeline does not set, and one it forgets.
VerdictFailed(d, embedded, failed, pending) ==
  [d EXCEPT !.has_embeddings = embedded > 0,
            !.processing_status = IF failed > 0 THEN "failed" ELSE @]

VerdictNeverPartial(d, embedded, failed, pending) ==
  [d EXCEPT !.has_embeddings = embedded > 0, !.processing_status = "ready"]

\* _finalize_document, from counts made after the loop.
Verdict(d, embedded, failed, pending) ==
  IF failed > 0 THEN [d EXCEPT !.has_embeddings = embedded > 0,
                               !.processing_status = "partial"]
  ELSE IF pending > 0 \/ embedded = 0 THEN [d EXCEPT !.has_embeddings = FALSE]
  ELSE [d EXCEPT !.has_embeddings = TRUE, !.processing_status = "ready"]

Finalize ==
  /\ run.pc = "finalize"
  /\ LET refreshed == Refreshed(run.doc, Table)
         pending == Count(Table, Unsettled)
         new_doc == IF run.exit \in {"cancelled", "continued"} THEN refreshed
                    ELSE Verdict(refreshed, refreshed.chunks_embedded,
                                 refreshed.chunks_failed, pending)
         done == /\ run.exit = "none" /\ pending = 0
                 /\ refreshed.chunks_failed = 0 /\ refreshed.chunks_embedded > 0
     IN run' = [Flushed(run, new_doc) EXCEPT
                  !.pc = "commit",
                  !.space = done /\ run.dimension # run.active]
  /\ UNCHANGED <<chunk, doc, active, job, api, excuse, left>>

\* complete_job, which sees the row as RUNNING whatever it is by now, and the
\* commit of the last transaction.
Commit ==
  /\ run.pc = "commit" /\ ~TaskWaits
  /\ chunk' = Table
  /\ doc' = Write(doc, run.columns, run.doc)
  /\ active' = IF run.space THEN run.dimension ELSE active
  /\ LET rows == [job EXCEPT ![run.job] =
                    Retire(CompleteRow([@ EXCEPT !.status = "running"]))]
     IN job' = IF run.exit = "continued" THEN Enqueued(rows) ELSE rows
  /\ excuse' = (excuse \/ run.exit = "skipped")
  /\ run' = Idle
  /\ UNCHANGED <<api, left>>

Raised == [Idle EXCEPT !.pc = "failed", !.job = run.job]

\* The handler raises and its transaction is rolled back.
HandlerRaises ==
  /\ run.pc \notin {"idle", "failed"} /\ Trouble
  /\ run' = Raised
  /\ UNCHANGED <<chunk, doc, active, job, api, excuse>>

\* The except branch of _run.
FailJob ==
  /\ run.pc = "failed" /\ ~TaskWaits
  /\ LET row == FailRow(job[run.job], FALSE)
         for_good == row.status = "failed"
     IN /\ job' = [job EXCEPT ![run.job] = Retire(row)]
        /\ excuse' = (excuse \/ for_good)
        /\ doc' = IF for_good /\ doc.chunks_embedded > 0
                  THEN [doc EXCEPT !.processing_status = "partial",
                                   !.has_embeddings = TRUE]
                  ELSE doc
  /\ run' = Idle
  /\ UNCHANGED <<chunk, active, api, left>>

\* The worker dies and starts again: requeue_all_running.
Crash ==
  /\ Trouble
  /\ job' = [j \in Jobs |-> IF job[j].status = "running"
                            THEN RequeueRow(job[j]) ELSE Retire(job[j])]
  /\ run' = Idle
  /\ UNCHANGED <<chunk, doc, active, api, excuse>>

----------------------------------------------------------------------------
(* Requests.                                                               *)

\* A cancelled row is kept as long as a task works on the job.
CancelledRow(j) == IF run.job = j THEN CancelRow(job[j]) ELSE NoRow

\* cancel_job.
CancelJob(j) ==
  /\ job[j].status \in OpenStatuses
  /\ ~HeldByTask(j) /\ ~HeldByRequest(j)
  /\ Trouble
  /\ job' = [job EXCEPT ![j] = CancelledRow(j)]
  /\ excuse' = TRUE
  /\ UNCHANGED <<chunk, doc, active, run, api>>

Unembedded(d) ==
  [d EXCEPT !.started = FALSE, !.chunks_embedded = 0, !.chunks_failed = 0,
            !.has_embeddings = FALSE, !.processing_status = "ready"]

\* reprocess_embeddings loads the document and its open jobs,
ReprocessLoad ==
  /\ api.stage = "none" /\ Spend("request")
  /\ api' = [stage |-> "loaded", columns |-> Changed(doc, Unembedded(doc)),
             jobs |-> {j \in Jobs : job[j].status \in OpenStatuses}]
  /\ UNCHANGED <<chunk, doc, active, job, run, excuse>>

\* writes the jobs (_cancel_open_jobs) and the chunks (reset_chunk_embeddings),
ReprocessLock ==
  /\ api.stage \in {"loaded", "jobs"} /\ ~RequestWaits
  /\ api' = [api EXCEPT !.stage = IF @ = "loaded" THEN "jobs" ELSE "chunks"]
  /\ UNCHANGED <<chunk, doc, active, job, run, excuse, left>>

\* then the document and the new job, and commits.
Reset(c) == [c EXCEPT !.status = "pending", !.attempts = 0, !.vector = FALSE]

ReprocessCommit ==
  /\ api.stage = "chunks" /\ ~RequestWaits
  /\ chunk' = [c \in DOMAIN chunk |-> Reset(chunk[c])]
  /\ doc' = Write(doc, api.columns, Unembedded(doc))
  /\ job' = Enqueued([j \in Jobs |-> IF j \in api.jobs THEN CancelledRow(j)
                                     ELSE job[j]])
  /\ excuse' = FALSE
  /\ api' = NoRequest
  /\ UNCHANGED <<active, run, left>>

\* A task and a request that wait for each other: one of them is aborted.
Deadlock ==
  /\ TaskWaits /\ RequestWaits
  /\ \/ run' = Raised /\ UNCHANGED api
     \/ api' = NoRequest /\ UNCHANGED run
  /\ UNCHANGED <<chunk, doc, active, job, excuse, left>>

----------------------------------------------------------------------------
Task ==
  \/ Skip \/ Start \/ Check \/ Load \/ Reload \/ Touch \/ CommitBatch
  \/ Finalize \/ Commit \/ HandlerRaises \/ FailJob
  \/ \E c \in run.long : SplitLong(c)
  \/ \E answer \in Answers : Call(answer)

Request == ReprocessLoad \/ ReprocessLock \/ ReprocessCommit

Next ==
  \/ Claim \/ Task \/ Crash \/ Request \/ Deadlock
  \/ \E j \in Jobs : CancelJob(j)

Spec == Init /\ [][Next]_vars

----------------------------------------------------------------------------
ChunkRow ==
  [index : Nat, first : Nat, last : Nat,
   status : {"pending", "embedding", "embedded", "failed"},
   attempts : Nat, vector : BOOLEAN]

DocColumns ==
  [started : BOOLEAN, chunks_total : Nat, chunks_embedded : Nat,
   chunks_failed : Nat, has_embeddings : BOOLEAN,
   processing_status : {"ready", "partial"}]

Slices == [ids : SUBSET Nat, depth : Nat]

\* The type invariant.
TypeOK ==
  /\ chunk \in Seq(ChunkRow) /\ doc \in DocColumns
  /\ job \in [Jobs -> Row({1})]
  /\ active \in BOOLEAN /\ excuse \in BOOLEAN
  /\ run.pc \in {"idle", "start", "check", "load", "split", "touch", "call",
                 "finalize", "commit", "failed"}
  /\ run.job \in Jobs \cup {0} /\ run.doc \in DocColumns
  /\ run.columns \subseteq Columns /\ run.own \in Seq(ChunkRow)
  /\ run.work \in Seq(Slices)
  /\ run.long \subseteq DOMAIN run.mem
  /\ \A k \in DOMAIN run.work : run.work[k].ids \subseteq DOMAIN run.mem
  /\ run.exit \in {"none", "cancelled", "continued", "skipped"}
  /\ api.stage \in {"none", "loaded", "jobs", "chunks"}
  /\ api.columns \subseteq Columns /\ api.jobs \subseteq Jobs
  /\ left \in [{"request", "trouble"} -> Nat]

Quiet ==
  /\ run.pc = "idle" /\ api.stage = "none"
  /\ \A j \in Jobs : job[j].status \notin OpenStatuses

\* Whatever is split, when and how often, and whichever transactions are lost:
\* the chunks in the order of chunk_index are the document's text, each part
\* of it once.
ChunksAreTheText ==
  /\ \A c, d \in DOMAIN chunk : c # d =>
       \/ chunk[c].index < chunk[d].index /\ chunk[c].last < chunk[d].first
       \/ chunk[d].index < chunk[c].index /\ chunk[d].last < chunk[c].first
  /\ UNION {chunk[c].first..chunk[c].last : c \in DOMAIN chunk}
       = 1..TextLength

\* The provider is never sent a chunk that is embedded already, in a batch
\* before, in the run before or in the other half of this batch.
NothingIsSentTwice ==
  run.pc = "call" =>
    \A k \in DOMAIN run.work : \A c \in run.work[k].ids :
      Table[c].status # "embedded"

\* A chunk that waits to be embedded has a job that will do it, unless a user
\* has cancelled it, it has failed for good or there was no provider.
PendingHasWork == Quiet /\ ~excuse => Having(chunk, Unsettled) = {}

\* When all work is done, the columns that the user interface shows as
\* progress and as the document's state agree with its chunks.
ProgressAgrees ==
  Quiet /\ ~excuse =>
    /\ doc.chunks_total = Len(chunk)
    /\ doc.chunks_embedded = Count(chunk, {"embedded"})
    /\ doc.chunks_failed = Count(chunk, {"failed"})
    /\ doc.has_embeddings <=> doc.chunks_embedded > 0
    /\ doc.processing_status = "partial" <=> doc.chunks_failed > 0

\* What may still be tried of a chunk, which is more than the calls it can take:
\* an attempt uses up one at its first token, a cut all that are between the two
\* tokens it parts.
Tries(c) ==
  {try \in ((2 * c.first)..(2 * c.last)) \X (1..MaxAttempts) :
     /\ c.status \in Unsettled
     /\ try[1] = 2 * c.first => try[2] > Smaller(c.attempts, MaxAttempts - 1)}

AllTries(table) == UNION {Tries(table[c]) : c \in DOMAIN table}
WorkLeft(table) == Cardinality(AllTries(table))

\* Whatever the provider answers, a batch that commits leaves less to do, and
\* only a request makes it more again: a document's batches, and the jobs that
\* continue them, come to an end.
EachBatchProgresses ==
  [][/\ run.pc = "call" /\ run'.pc = "check" =>
          WorkLeft(chunk') < WorkLeft(chunk)
     /\ ReprocessCommit \/ WorkLeft(chunk') <= WorkLeft(chunk)]_vars

\* A run that finds nothing left to embed, after a crash say, changes nothing:
\* least of all the dimension of the active embedding space, which is about
\* all documents.
RerunKeepsSpace ==
  [][run.pc = "commit" /\ ~run.dimension /\ active => active']_vars
============================================================================
