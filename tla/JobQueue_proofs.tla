-------------------------- MODULE JobQueue_proofs --------------------------
(***************************************************************************)
(* Theorems about JobQueue, for every set of jobs, documents and tasks,    *)
(* every concurrency and every bound on the environment.                   *)
(***************************************************************************)
EXTENDS JobQueue, JobRows_proofs, FiniteSetTheorems

----------------------------------------------------------------------------
(* Type correctness.                                                       *)

LEMMA NoRowType == NoRow \in Row(Docs)
  BY DEF NoRow, NewRow, Row, JobTypes, JobStatus, Missing

LEMMA IdleType == Idle \in Tasks /\ Idle.pc = "idle"
  BY NoRowType DEF Idle, Tasks, TaskPcs

LEMMA InitType == Init => TypeOK
<1> SUFFICES ASSUME Init PROVE TypeOK
  OBVIOUS
<1> USE DEF Init
<1>1. job \in [Jobs -> Row(Docs)]
  BY NewJobAssumption DEF Row, Missing
<1>2. run \in [Runs -> Tasks] /\ \A r \in Runs : ~Live(r)
  BY NoRowType DEF Idle, Tasks, TaskPcs, Live
<1>3. api \in Requests /\ api.pc # "loaded"
  BY NoRowType DEF Idle, Requests
<1>4. left \in [DOMAIN Bounds -> Nat]
  BY BoundsAssumption DEF Bounds
<1>5. poll \in Polls
  BY DEF PollIdle, Polls
<1> QED
  BY <1>1, <1>2, <1>3, <1>4, <1>5, InitDocAssumption, ConcurrencyAssumption
  DEF TypeOK

\* The claim takes queued jobs of the table.
LEMMA NextJobIsQueued ==
  ASSUME NEW active, NEW j \in NextJob(job, doc, active)
  PROVE  j \in DOMAIN job /\ job[j].status = "queued"
  BY DEF NextJob, Claimable, Available

\* The gate is a set of documents.
LEMMA ActiveIsADoc == ActivePreflightDoc(job, doc) \subseteq DOMAIN doc
  BY DEF ActivePreflightDoc, Oldest

LEMMA SpendType ==
  ASSUME TypeOK, NEW what, Spend(what)
  PROVE  left' \in [DOMAIN Bounds -> Nat]
<1>1. CASE what \in DOMAIN Bounds
  BY <1>1 DEF TypeOK, Spend
<1>2. CASE what \notin DOMAIN Bounds
  BY <1>2 DEF TypeOK, Spend
<1> QED
  BY <1>1, <1>2

LEMMA StepType == TypeOK /\ [Next]_vars => TypeOK'
<1> SUFFICES ASSUME TypeOK, [Next]_vars PROVE TypeOK'
  OBVIOUS
<1> USE DEF TypeOK, Live
<1>1. CASE PollReady
  BY <1>1 DEF PollReady, Polls
<1>2. CASE PollRequeueStale
  <2>1. job' \in [Jobs -> Row(Docs)]
    BY <1>2, RowTypes DEF PollRequeueStale
  <2> QED
    BY <1>2, <2>1 DEF PollRequeueStale, Polls
<1>3. CASE PollAdmit
  BY <1>3 DEF PollAdmit, PollIdle, Polls
<1>4. CASE PollGate
  BY <1>4, ActiveIsADoc DEF PollGate, Polls
<1>5. CASE PollClaim
  <2>1. CASE UNCHANGED <<job, run>> /\ sem' = sem + 1
    BY <1>5, <2>1 DEF PollClaim, PollIdle, Polls
  <2>2. ASSUME NEW j \in NextJob(job, doc, poll.active), NEW r \in Runs,
               job' = [job EXCEPT ![j] = ClaimRow(@)],
               run' = [run EXCEPT ![r] = [pc |-> "starting", job |-> j,
                                          seen |-> NoRow]],
               sem' = sem
        PROVE  TypeOK'
    <3>1. j \in Jobs /\ ClaimRow(job[j]) \in Row(Docs)
      BY NextJobIsQueued, RowTypes
    <3>2. [pc |-> "starting", job |-> j, seen |-> NoRow] \in Tasks
      BY <3>1, NoRowType DEF Tasks, TaskPcs
    <3> QED
      BY <1>5, <2>2, <3>1, <3>2 DEF PollClaim, PollIdle, Polls
  <2> QED
    BY <1>5, <2>1, <2>2 DEF PollClaim
<1>6. ASSUME NEW r \in Runs, LoadJob(r)
      PROVE  TypeOK'
  BY <1>6 DEF LoadJob, Tasks, TaskPcs
<1>7. ASSUME NEW r \in Runs, EnterOcr(r) \/ LeaveOcr(r) \/ BeginDump(r)
                              \/ EndDump(r)
      PROVE  TypeOK'
  BY <1>7 DEF EnterOcr, LeaveOcr, BeginDump, EndDump, Tasks, TaskPcs
<1>8. ASSUME NEW r \in Runs, CompleteJob(r)
      PROVE  TypeOK'
  <2>1. run[r].job \in Jobs /\ run[r].seen \in Row(Docs)
    BY <1>8 DEF CompleteJob, HandlerDone, Tasks
  <2>2. job' \in [Jobs -> Row(Docs)] /\ commits' \in [Jobs -> Nat]
    BY <1>8, <2>1, RowTypes, FlushType DEF CompleteJob
  <2>3. run' \in [Runs -> Tasks] /\ sem' \in Nat
        /\ \A s \in Runs : run'[s].pc # "idle" => run'[s].job \in Jobs
    BY <1>8, IdleType DEF CompleteJob, EndRun
  <2> QED
    BY <1>8, <2>2, <2>3 DEF CompleteJob
<1>9. ASSUME NEW r \in Runs, HandlerRaises(r)
      PROVE  TypeOK'
  <2>1. job' \in [Jobs -> Row(Docs)]
    BY <1>9, RowTypes DEF HandlerRaises
  <2>2. run' \in [Runs -> Tasks]
        /\ \A s \in Runs : run'[s].pc # "idle" => run'[s].job \in Jobs
    BY <1>9, NoRowType DEF HandlerRaises, Tasks, TaskPcs
  <2> QED
    BY <1>9, <2>1, <2>2 DEF HandlerRaises
<1>10. ASSUME NEW r \in Runs, LoadFailedJob(r)
       PROVE  TypeOK'
  BY <1>10 DEF LoadFailedJob, Tasks, TaskPcs
<1>11. ASSUME NEW r \in Runs, FailureWithoutRow(r)
       PROVE  TypeOK'
  BY <1>11, NoRowType DEF FailureWithoutRow, EndRun, Idle, Tasks, TaskPcs
<1>12. ASSUME NEW r \in Runs, FailJob(r)
       PROVE  TypeOK'
  <2>1. run[r].job \in Jobs /\ run[r].seen \in Row(Docs)
    BY <1>12 DEF FailJob, Tasks
  <2>2. job' \in [Jobs -> Row(Docs)]
    <3>1. PICK delayed \in BOOLEAN :
            job' = [job EXCEPT ![run[r].job] =
                      Flush(@, run[r].seen, FailRow(run[r].seen, delayed))]
      BY <1>12 DEF FailJob
    <3>2. FailRow(run[r].seen, delayed) \in Row(Docs)
      BY <2>1, RowTypes
    <3> QED
      BY <2>1, <3>1, <3>2, FlushType
  <2>3. run' \in [Runs -> Tasks] /\ sem' \in Nat
        /\ \A s \in Runs : run'[s].pc # "idle" => run'[s].job \in Jobs
    BY <1>12, IdleType DEF FailJob, EndRun
  <2> QED
    BY <1>12, <2>2, <2>3 DEF FailJob
<1>13. ASSUME NEW r \in Runs, FailureNotRecorded(r)
       PROVE  TypeOK'
  BY <1>13, SpendType, NoRowType
  DEF FailureNotRecorded, EndRun, Idle, Tasks, TaskPcs
<1>14. ASSUME NEW r \in Runs, Heartbeat(r)
       PROVE  TypeOK'
  BY <1>14, RowTypes DEF Heartbeat
<1>15. ASSUME NEW j \in Jobs, LockAges(j) \/ DelayExpires(j) \/ Enqueue(j)
                               \/ CancelLoad(j)
       PROVE  TypeOK'
  <2>1. CASE LockAges(j)
    BY <1>15, <2>1, SpendType DEF LockAges, Row
  <2>2. CASE DelayExpires(j)
    BY <1>15, <2>2 DEF DelayExpires, Row
  <2>3. CASE Enqueue(j)
    BY <1>15, <2>3, NewJobAssumption DEF Enqueue
  <2>4. CASE CancelLoad(j)
    BY <1>15, <2>4, SpendType DEF CancelLoad, Requests
  <2> QED
    BY <1>15, <2>1, <2>2, <2>3, <2>4
<1>16. CASE StartWorker
  <2>1. job' \in [Jobs -> Row(Docs)]
    BY <1>16, RowTypes DEF StartWorker, StartRow
  <2> QED
    BY <1>16, <2>1 DEF StartWorker, PollIdle, Polls
<1>17. CASE Crash
  BY <1>17, SpendType, NoRowType, ConcurrencyAssumption
  DEF Crash, Idle, Tasks, TaskPcs, Polls
<1>18. CASE CancelJob
  BY <1>18, RowTypes, FlushType, NoRowType DEF CancelJob, Idle, Requests
<1>19. CASE PauseInstance \/ ResumeInstance
  BY <1>19, SpendType DEF PauseInstance, ResumeInstance
<1>20. ASSUME NEW d \in Docs, TrashDocument(d) \/ RestoreDocument(d)
                               \/ ChangeStatus(d) \/ DeleteDocument(d)
       PROVE  TypeOK'
  <2>1. doc[d] \in DocRow
    OBVIOUS
  <2>2. CASE TrashDocument(d)
    BY <2>1, <2>2, SpendType DEF TrashDocument, SetDoc, DocRow
  <2>3. CASE RestoreDocument(d)
    <3>1. PICK inbox \in BOOLEAN :
            SetDoc(d, [doc[d] EXCEPT !.is_trashed = FALSE, !.inbox = inbox])
      BY <2>3 DEF RestoreDocument
    <3>2. doc' \in [Docs -> DocRow]
      BY <2>1, <3>1 DEF SetDoc, DocRow
    <3> QED
      BY <2>3, <3>1, <3>2, SpendType DEF RestoreDocument, SetDoc
  <2>4. CASE ChangeStatus(d)
    BY <2>1, <2>4, SpendType DEF ChangeStatus, SetDoc, DocRow, ProcessingStatus
  <2>5. CASE DeleteDocument(d)
    BY <2>1, <2>5, SpendType, RowTypes DEF DeleteDocument, SetDoc, DocRow
  <2> QED
    BY <1>20, <2>2, <2>3, <2>4, <2>5
<1>21. CASE UNCHANGED vars
  BY <1>21 DEF vars
<1> QED
  BY <1>1, <1>2, <1>3, <1>4, <1>5, <1>6, <1>7, <1>8, <1>9, <1>10, <1>11,
     <1>12, <1>13, <1>14, <1>15, <1>16, <1>17, <1>18, <1>19, <1>20, <1>21
  DEF Next, WorkerStep, Poll, Task, Environment

\* Every reachable state is well typed: the rows the ORM flushes, the tasks
\* and the poll keep to their types under any interleaving.
THEOREM TypeCorrect == Spec => []TypeOK
<1>1. Init => TypeOK
  BY InitType
<1>2. TypeOK /\ [Next]_vars => TypeOK'
  BY StepType
<1> QED
  BY <1>1, <1>2, PTL DEF Spec

----------------------------------------------------------------------------
(* The permits of the semaphore.                                           *)

LEMMA LiveFinite ==
  ASSUME TypeOK
  PROVE  IsFiniteSet(LiveRuns) /\ Cardinality(LiveRuns) \in Nat
  BY RunsAssumption, FS_Subset, FS_CardinalityType DEF LiveRuns

\* The end of a task moves its permit from the task to the semaphore.
LEMMA EndRunPermits ==
  ASSUME TypeOK, PermitsAccounted, NEW r \in Runs, Live(r), EndRun(r),
         UNCHANGED poll
  PROVE  PermitsAccounted'
<1>1. LiveRuns' = LiveRuns \ {r} /\ r \in LiveRuns
  BY DEF TypeOK, LiveRuns, Live, EndRun, Idle
<1>2. Cardinality(LiveRuns') = Cardinality(LiveRuns) - 1
  BY <1>1, LiveFinite, FS_RemoveElement
<1> QED
  BY <1>2, LiveFinite, ConcurrencyAssumption
  DEF PermitsAccounted, PollHoldsPermit, EndRun, TypeOK

\* A step that leaves the tasks, the semaphore and the poll's permit alone.
LEMMA SamePermits ==
  ASSUME PermitsAccounted,
         \A r \in Runs : run'[r].pc = "idle" <=> run[r].pc = "idle",
         UNCHANGED sem, PollHoldsPermit' = PollHoldsPermit
  PROVE  PermitsAccounted'
<1>1. LiveRuns' = LiveRuns
  BY DEF LiveRuns, Live
<1> QED
  BY <1>1 DEF PermitsAccounted

LEMMA PermitsStep ==
  TypeOK /\ PermitsAccounted /\ [Next]_vars => PermitsAccounted'
<1> SUFFICES ASSUME TypeOK, PermitsAccounted, [Next]_vars
             PROVE  PermitsAccounted'
  OBVIOUS
<1>1. CASE PollReady \/ PollRequeueStale \/ StartWorker
  BY <1>1, SamePermits
  DEF PollReady, PollRequeueStale, StartWorker, PollHoldsPermit, PollIdle,
      TypeOK, Polls
<1>2. CASE PollAdmit
  BY <1>2, LiveFinite, ConcurrencyAssumption
  DEF PollAdmit, PollIdle, PermitsAccounted, PollHoldsPermit, LiveRuns, Live,
      TypeOK, Polls
<1>3. CASE PollGate
  BY <1>3, SamePermits DEF PollGate, PollHoldsPermit
<1>4. CASE PollClaim
  <2>1. PollHoldsPermit = 1 /\ PollHoldsPermit' = 0
    BY <1>4 DEF PollClaim, PollHoldsPermit, PollIdle
  <2>2. CASE UNCHANGED <<job, run>> /\ sem' = sem + 1
    BY <2>1, <2>2, LiveFinite, ConcurrencyAssumption
    DEF PermitsAccounted, LiveRuns, Live, TypeOK
  <2>3. ASSUME NEW j \in NextJob(job, doc, poll.active), NEW r \in Runs,
               ~Live(r), sem' = sem,
               run' = [run EXCEPT ![r] = [pc |-> "starting", job |-> j,
                                          seen |-> NoRow]]
        PROVE  PermitsAccounted'
    <3>1. LiveRuns' = LiveRuns \cup {r} /\ r \notin LiveRuns
      BY <2>3 DEF LiveRuns, Live, TypeOK
    <3>2. Cardinality(LiveRuns') = Cardinality(LiveRuns) + 1
      BY <3>1, LiveFinite, FS_AddElement
    <3> QED
      BY <2>1, <2>3, <3>2, LiveFinite, ConcurrencyAssumption
      DEF PermitsAccounted, TypeOK
  <2> QED
    BY <1>4, <2>2, <2>3 DEF PollClaim
<1>5. ASSUME NEW r \in Runs, \/ LoadJob(r) \/ EnterOcr(r) \/ LeaveOcr(r)
                              \/ BeginDump(r) \/ EndDump(r)
                              \/ HandlerRaises(r) \/ LoadFailedJob(r)
                              \/ Heartbeat(r)
      PROVE  PermitsAccounted'
  <2>1. \A s \in Runs : run'[s].pc = "idle" <=> run[s].pc = "idle"
    <3> USE DEF TypeOK, Tasks
    <3>1. CASE LoadJob(r) \/ LoadFailedJob(r)
      BY <3>1 DEF LoadJob, LoadFailedJob
    <3>2. CASE EnterOcr(r) \/ LeaveOcr(r) \/ BeginDump(r) \/ EndDump(r)
      BY <3>2 DEF EnterOcr, LeaveOcr, BeginDump, EndDump
    <3>3. CASE HandlerRaises(r) \/ Heartbeat(r)
      BY <3>3 DEF HandlerRaises, Heartbeat
    <3> QED
      BY <1>5, <3>1, <3>2, <3>3
  <2>2. UNCHANGED <<sem, poll>>
    BY <1>5 DEF LoadJob, EnterOcr, LeaveOcr, BeginDump, EndDump, HandlerRaises,
                LoadFailedJob, Heartbeat
  <2> QED
    BY <2>1, <2>2, SamePermits DEF PollHoldsPermit
<1>6. ASSUME NEW r \in Runs, \/ CompleteJob(r) \/ FailureWithoutRow(r)
                              \/ FailJob(r) \/ FailureNotRecorded(r)
      PROVE  PermitsAccounted'
  <2>1. Live(r) /\ EndRun(r) /\ UNCHANGED poll
    BY <1>6 DEF CompleteJob, HandlerDone, FailureWithoutRow, FailJob,
                FailureNotRecorded, Live
  <2> QED
    BY <2>1, EndRunPermits
<1>7. CASE Crash
  <2>1. LiveRuns' = {}
    BY <1>7 DEF Crash, LiveRuns, Live, Idle
  <2> QED
    BY <1>7, <2>1, FS_EmptySet, ConcurrencyAssumption
    DEF Crash, PermitsAccounted, PollHoldsPermit
<1>8. ASSUME NEW j \in Jobs, LockAges(j) \/ DelayExpires(j) \/ Enqueue(j)
                              \/ CancelLoad(j)
      PROVE  PermitsAccounted'
  BY <1>8, SamePermits
  DEF LockAges, DelayExpires, Enqueue, CancelLoad, PollHoldsPermit
<1>9. ASSUME NEW d \in Docs, TrashDocument(d) \/ RestoreDocument(d)
                              \/ ChangeStatus(d) \/ DeleteDocument(d)
      PROVE  PermitsAccounted'
  BY <1>9, SamePermits
  DEF TrashDocument, RestoreDocument, ChangeStatus, DeleteDocument,
      PollHoldsPermit
<1>10. CASE CancelJob \/ PauseInstance \/ ResumeInstance \/ UNCHANGED vars
  BY <1>10, SamePermits
  DEF CancelJob, PauseInstance, ResumeInstance, vars, PollHoldsPermit
<1> QED
  BY <1>1, <1>2, <1>3, <1>4, <1>5, <1>6, <1>7, <1>8, <1>9, <1>10
  DEF Next, WorkerStep, Poll, Task, Environment

\* No permit of the worker's semaphore is ever lost or given back twice,
\* whatever fails between sem.acquire in _poll_jobs and the release in the
\* `finally` of _run.
THEOREM PermitsSafe == Spec => []PermitsAccounted
<1>1. Init => PermitsAccounted
  <2> SUFFICES ASSUME Init PROVE PermitsAccounted
    OBVIOUS
  <2>1. LiveRuns = {}
    BY DEF Init, LiveRuns, Live, Idle
  <2> QED
    BY <2>1, FS_EmptySet, ConcurrencyAssumption
    DEF Init, PermitsAccounted, PollHoldsPermit, PollIdle
<1>2. TypeOK /\ PermitsAccounted /\ [Next]_vars => PermitsAccounted'
  BY PermitsStep
<1> QED
  BY <1>1, <1>2, TypeCorrect, PTL DEF Spec

----------------------------------------------------------------------------
(* One task per job, and one effect.  Exclusive is inductive as long as    *)
(* the heartbeats work.                                                    *)

\* A step that starts and ends no task, and that does not reopen or age the
\* rows of live tasks and of jobs that are done.
LEMMA QuietStep ==
  ASSUME TypeOK, Exclusive, UNCHANGED <<run, commits>>, left'.stall = 0,
         poll'.pc = "down" => poll.pc = "down",
         \A j \in Jobs : job[j].type # "backup" => job'[j].type # "backup",
         \A j \in Jobs : HasRun(j) \/ commits[j] > 0 =>
            job'[j].status \in {job[j].status, "cancelled", "gone"},
         \A j \in Jobs : HasRun(j) => ~IsStale(job'[j])
  PROVE  Exclusive'
<1>1. LiveRuns' = LiveRuns /\ \A j \in Jobs : HasRun(j)' <=> HasRun(j)
  BY DEF LiveRuns, Live, HasRun
<1>2. ASSUME NEW r \in LiveRuns PROVE OwnRow(r)'
  <2>1. OwnRow(r) /\ run[r].job \in Jobs /\ HasRun(run[r].job)
    BY DEF Exclusive, LiveRuns, Live, HasRun, TypeOK
  <2> QED
    BY <2>1 DEF OwnRow, IsStale
<1>3. ASSUME NEW j \in Jobs PROVE ClosedIfDone(j)'
  BY <1>1 DEF Exclusive, ClosedIfDone
<1>4. OneRunPerJob' /\ (poll'.pc = "down" => LiveRuns' = {})
  BY <1>1 DEF Exclusive, OneRunPerJob
<1> QED
  BY <1>1, <1>2, <1>3, <1>4 DEF Exclusive

\* The end of the one task of a job: it may write the job's row and nothing
\* else, and a commit leaves the row closed.
LEMMA EndRunStep ==
  ASSUME TypeOK, Exclusive, NEW r \in Runs, Live(r), EndRun(r),
         UNCHANGED poll, left'.stall = 0,
         NEW new \in Row(Docs), new.type = job[run[r].job].type,
         NEW n \in {0, 1},
         job' = [job EXCEPT ![run[r].job] = new],
         commits' = [commits EXCEPT ![run[r].job] = @ + n],
         n = 1 => new.status \in {"completed", "cancelled", "gone"}
  PROVE  Exclusive'
<1>0. PICK j \in Jobs : j = run[r].job
  BY DEF TypeOK
<1>1. HasRun(j) /\ commits[j] = 0
  BY <1>0 DEF TypeOK, HasRun, Exclusive, ClosedIfDone
<1>2. \A s \in Runs : (s \in LiveRuns' <=> s \in LiveRuns /\ s # r)
                      /\ (s # r => run'[s] = run[s])
  BY DEF EndRun, Idle, LiveRuns, Live, TypeOK
<1>3. \A s \in LiveRuns' : run[s].job # j
  BY <1>0, <1>2 DEF Exclusive, OneRunPerJob, LiveRuns
<1>4. ASSUME NEW s \in LiveRuns' PROVE OwnRow(s)'
  <2>1. s \in LiveRuns /\ run'[s] = run[s] /\ run[s].job \in Jobs \ {j}
    BY <1>2, <1>3 DEF LiveRuns, TypeOK
  <2>2. job'[run[s].job] = job[run[s].job]
    BY <1>0, <2>1 DEF TypeOK
  <2> QED
    BY <2>1, <2>2 DEF Exclusive, OwnRow, IsStale
<1>5. ~HasRun(j)'
  BY <1>2, <1>3 DEF HasRun, LiveRuns
<1>6. ASSUME NEW i \in Jobs \ {j} PROVE ClosedIfDone(i)'
  <2>1. HasRun(i)' <=> HasRun(i)
    BY <1>0, <1>2 DEF HasRun, LiveRuns
  <2>2. ClosedIfDone(i) /\ job'[i] = job[i] /\ commits'[i] = commits[i]
    BY <1>0 DEF Exclusive, TypeOK
  <2> QED
    BY <2>1, <2>2 DEF ClosedIfDone
<1>7. ClosedIfDone(j)'
  <2>1. commits'[j] = n /\ job'[j] = new
    BY <1>0, <1>1 DEF TypeOK
  <2> QED
    BY <1>5, <2>1 DEF ClosedIfDone
<1>8. OneRunPerJob'
  BY <1>2 DEF Exclusive, OneRunPerJob, LiveRuns
<1>9. \A i \in Jobs : job'[i].type # "backup"
  BY <1>0, <1>1 DEF Exclusive, TypeOK
<1>10. \A s \in Runs : run'[s].pc \notin {"dump", "after_dump"}
  BY <1>2 DEF Exclusive, EndRun, Idle, TypeOK
<1>11. poll'.pc = "down" => LiveRuns' = {}
  BY <1>2 DEF Exclusive, LiveRuns
<1> QED
  BY <1>4, <1>6, <1>7, <1>8, <1>9, <1>10, <1>11 DEF Exclusive

LEMMA ExclusiveStep ==
  HeartbeatsWork /\ TypeOK /\ Exclusive /\ [Next]_vars => Exclusive'
<1> SUFFICES ASSUME HeartbeatsWork, TypeOK, Exclusive, [Next]_vars
             PROVE  Exclusive'
  OBVIOUS
<1> USE DEF TypeOK
<1>0. ~Blocked /\ left.stall = 0
  BY DEF Blocked, Exclusive
<1>1. ASSUME NEW what, Spend(what) PROVE left'.stall = 0
  <2>1. "stall" \in DOMAIN left /\ left.stall = 0
    BY <1>0 DEF Bounds
  <2>2. what # "stall"
    BY <1>1, <2>1 DEF Spend
  <2> QED
    BY <1>1, <2>1, <2>2 DEF Spend
<1>2. \A j \in Jobs : HasRun(j) =>
        job[j].status \in {"running", "cancelled", "gone"} /\ ~IsStale(job[j])
  BY DEF HasRun, Exclusive, OwnRow, LiveRuns
<1>3. \A j \in Jobs : commits[j] > 0 =>
        job[j].status \in {"completed", "cancelled", "gone"}
  BY DEF Exclusive, ClosedIfDone
<1>4. CASE PollReady \/ PollAdmit \/ PollGate
  <2>1. poll'.pc # "down" /\ UNCHANGED <<job, run, commits, left>>
    BY <1>4 DEF PollReady, PollAdmit, PollGate, PollIdle, Polls
  <2> QED
    BY <1>0, <1>2, <2>1, QuietStep
<1>5. CASE PollRequeueStale
  <2>1. \A j \in Jobs : job'[j] = IF IsStale(job[j]) THEN RequeueRow(job[j])
                                                      ELSE job[j]
    BY <1>5 DEF PollRequeueStale
  <2>2. \A j \in Jobs : IsStale(job[j]) => ~HasRun(j) /\ ~(commits[j] > 0)
    BY <1>2, <1>3 DEF IsStale
  <2>3. \A j \in Jobs : job'[j].type = job[j].type
    BY <2>1, RowStatus
  <2> QED
    BY <1>0, <1>2, <1>5, <2>1, <2>2, <2>3, QuietStep DEF PollRequeueStale
<1>6. ASSUME NEW r \in Runs, Heartbeat(r) PROVE Exclusive'
  <2>1. \A j \in Jobs : /\ job'[j].type = job[j].type
                        /\ job'[j].status = job[j].status
                        /\ job'[j].locked_at \in {job[j].locked_at, "fresh"}
    BY <1>6, RowStatus DEF Heartbeat
  <2> QED
    BY <1>0, <1>2, <1>6, <2>1, QuietStep DEF Heartbeat, IsStale
<1>7. ASSUME NEW j \in Jobs, LockAges(j) PROVE Exclusive'
  <2>1. ~HasRun(j) /\ UNCHANGED left
    BY <1>0, <1>1, <1>7 DEF LockAges, Spend
  <2>2. \A i \in Jobs : /\ job'[i].type = job[i].type
                        /\ job'[i].status = job[i].status
                        /\ i # j => job'[i] = job[i]
    BY <1>7 DEF LockAges, Row
  <2> QED
    BY <1>0, <1>2, <1>7, <2>1, <2>2, QuietStep DEF LockAges
<1>8. ASSUME NEW j \in Jobs, DelayExpires(j) PROVE Exclusive'
  <2>1. \A i \in Jobs : /\ job'[i].type = job[i].type
                        /\ job'[i].status = job[i].status
                        /\ job'[i].locked_at = job[i].locked_at
    BY <1>8 DEF DelayExpires, Row
  <2> QED
    BY <1>0, <1>2, <1>8, <2>1, QuietStep DEF DelayExpires, IsStale
<1>9. ASSUME NEW j \in Jobs, Enqueue(j) PROVE Exclusive'
  <2>1. ~HasRun(j) /\ ~(commits[j] > 0)
    BY <1>2, <1>3, <1>9 DEF Enqueue
  <2>2. \A i \in Jobs : i # j => job'[i] = job[i]
    BY <1>9 DEF Enqueue
  <2>3. job'[j].type # "backup"
    BY <1>9 DEF Enqueue, HeartbeatsWork
  <2> QED
    BY <1>0, <1>2, <1>9, <2>1, <2>2, <2>3, QuietStep DEF Enqueue
<1>10. ASSUME NEW j \in Jobs, CancelLoad(j) PROVE Exclusive'
  BY <1>1, <1>2, <1>10, QuietStep DEF CancelLoad
<1>11. CASE CancelJob
  <2>1. \A j \in Jobs : /\ job'[j].type = job[j].type
                        /\ job'[j].status \in {job[j].status, "cancelled"}
                        /\ job'[j].locked_at = job[j].locked_at
    <3>1. CASE Present(api.job)
      BY <1>11, <3>1, CancelFlush DEF CancelJob, Requests
    <3>2. CASE ~Present(api.job)
      BY <1>11, <3>2 DEF CancelJob
    <3> QED
      BY <3>1, <3>2
  <2> QED
    BY <1>0, <1>2, <1>11, <2>1, QuietStep DEF CancelJob, IsStale
<1>12. ASSUME NEW d \in Docs, \/ TrashDocument(d) \/ RestoreDocument(d)
                               \/ ChangeStatus(d)
       PROVE  Exclusive'
  <2>1. PICK new : SetDoc(d, new)
    BY <1>12 DEF TrashDocument, RestoreDocument, ChangeStatus
  <2>2. left'.stall = 0
    BY <1>1, <2>1 DEF SetDoc
  <2> QED
    BY <1>2, <1>12, <2>2, QuietStep
    DEF TrashDocument, RestoreDocument, ChangeStatus
<1>13. ASSUME NEW d \in Docs, DeleteDocument(d) PROVE Exclusive'
  <2>1. left'.stall = 0
    BY <1>1, <1>13 DEF DeleteDocument, SetDoc
  <2>2. \A j \in Jobs : /\ job'[j].type = job[j].type
                        /\ job'[j] = job[j] \/ job'[j].status = "gone"
    BY <1>13, RowStatus DEF DeleteDocument
  <2> QED
    BY <1>2, <1>13, <2>1, <2>2, QuietStep DEF DeleteDocument, IsStale
<1>14. CASE PauseInstance \/ ResumeInstance
  <2>1. left'.stall = 0
    BY <1>0, <1>1, <1>14 DEF PauseInstance, ResumeInstance
  <2> QED
    BY <1>2, <1>14, <2>1, QuietStep DEF PauseInstance, ResumeInstance
<1>15. CASE UNCHANGED vars
  BY <1>0, <1>2, <1>15, QuietStep DEF vars
<1>16. CASE StartWorker
  <2>1. \A j \in Jobs : ~HasRun(j)
    BY <1>16 DEF StartWorker, Exclusive, HasRun, LiveRuns
  <2>2. \A j \in Jobs : job'[j] = StartRow(job[j])
    BY <1>16 DEF StartWorker
  <2>3. \A j \in Jobs : job'[j].type = job[j].type
    <3> SUFFICES ASSUME NEW j \in Jobs
                 PROVE  StartRow(job[j]).type = job[j].type
      BY <2>2
    <3>1. \A row \in Row(Docs) :
            /\ RequeueRow(row) \in Row(Docs) /\ RequeueRow(row).type = row.type
            /\ CancelTrashedRow(row).type = row.type
      BY RowStatus, RowTypes
    <3> QED
      BY <3>1 DEF StartRow
  <2>4. \A j \in Jobs : commits[j] > 0 => job'[j] = job[j]
    BY <1>3, <2>2 DEF StartRow, OpenStatuses
  <2> QED
    BY <1>0, <1>16, <2>1, <2>3, <2>4, QuietStep DEF StartWorker, PollIdle
<1>17. CASE Crash
  <2>1. LiveRuns' = {} /\ \A j \in Jobs : ~HasRun(j)'
    BY <1>17 DEF Crash, LiveRuns, HasRun, Live, Idle
  <2>2. left'.stall = 0
    BY <1>1, <1>17 DEF Crash
  <2>3. \A j \in Jobs : ClosedIfDone(j)'
    BY <1>17, <2>1 DEF Exclusive, ClosedIfDone, Crash
  <2>4. \A r \in Runs : run'[r].pc = "idle"
    BY <1>17 DEF Crash, Idle
  <2> QED
    BY <1>17, <2>1, <2>2, <2>3, <2>4 DEF Exclusive, OneRunPerJob, Crash
<1>18. CASE PollClaim
  <2>1. CASE UNCHANGED <<job, run>>
    BY <1>0, <1>2, <1>18, <2>1, QuietStep DEF PollClaim, PollIdle
  <2>2. ASSUME NEW j \in NextJob(job, doc, poll.active), NEW r \in Runs,
               ~Live(r),
               job' = [job EXCEPT ![j] = ClaimRow(@)],
               run' = [run EXCEPT ![r] = [pc |-> "starting", job |-> j,
                                          seen |-> NoRow]]
        PROVE  Exclusive'
    <3>1. j \in Jobs /\ job[j].status = "queued"
      BY NextJobIsQueued
    <3>2. ~HasRun(j) /\ commits[j] = 0
      BY <1>2, <1>3, <3>1
    <3>3. \A s \in Runs : (s \in LiveRuns' <=> s \in LiveRuns \/ s = r)
                          /\ (s # r => run'[s] = run[s])
      BY <2>2 DEF LiveRuns, Live
    <3>4. run'[r] = [pc |-> "starting", job |-> j, seen |-> NoRow]
      BY <2>2
    <3>5. \A s \in LiveRuns : s # r /\ run[s].job \in Jobs \ {j}
      BY <2>2, <3>2 DEF HasRun, LiveRuns
    <3>6. /\ job'[j].status = "running" /\ job'[j].locked_at = "fresh"
          /\ job'[j].type # "backup"
      BY <2>2, <3>1, RowStatus DEF Exclusive
    <3>7. \A i \in Jobs \ {j} : job'[i] = job[i]
      BY <2>2, <3>1
    <3>8. OneRunPerJob'
      <4> SUFFICES ASSUME NEW s \in LiveRuns', NEW t \in LiveRuns',
                          run'[s].job = run'[t].job
                   PROVE  s = t
        BY DEF OneRunPerJob
      <4>1. s \in Runs /\ t \in Runs
        BY DEF LiveRuns
      <4>2. CASE s = r \/ t = r
        BY <4>1, <4>2, <3>3, <3>4, <3>5
      <4>3. CASE s # r /\ t # r
        BY <4>1, <4>3, <3>3 DEF Exclusive, OneRunPerJob
      <4> QED
        BY <4>2, <4>3
    <3>9. ASSUME NEW s \in LiveRuns' PROVE OwnRow(s)'
      <4>1. CASE s = r
        BY <4>1, <3>4, <3>6 DEF OwnRow, IsStale
      <4>2. CASE s # r
        BY <4>2, <3>3, <3>5, <3>7 DEF Exclusive, OwnRow, IsStale, LiveRuns
      <4> QED
        BY <4>1, <4>2
    <3>10. ASSUME NEW i \in Jobs PROVE ClosedIfDone(i)'
      <4>1. CASE i = j
        BY <4>1, <1>18, <3>2 DEF ClosedIfDone, PollClaim
      <4>2. CASE i # j
        <5>1. HasRun(i)' <=> HasRun(i)
          BY <2>2, <4>2, <3>3, <3>4 DEF HasRun, Live
        <5> QED
          BY <4>2, <5>1, <1>18, <3>7 DEF Exclusive, ClosedIfDone, PollClaim
      <4> QED
        BY <4>1, <4>2
    <3>11. \A s \in Runs : run'[s].pc \notin {"dump", "after_dump"}
      BY <3>3, <3>4 DEF Exclusive
    <3> QED
      BY <1>0, <1>18, <3>6, <3>7, <3>8, <3>9, <3>10, <3>11
      DEF Exclusive, PollClaim, PollIdle
  <2> QED
    BY <1>18, <2>1, <2>2 DEF PollClaim
<1>19. ASSUME NEW r \in Runs, \/ LoadJob(r) \/ LoadFailedJob(r) \/ EnterOcr(r)
                               \/ LeaveOcr(r) \/ HandlerRaises(r)
       PROVE  Exclusive'
  <2>1. run[r].job \in Jobs /\ r \in LiveRuns /\ OwnRow(r)
    BY <1>19 DEF LoadJob, LoadFailedJob, EnterOcr, LeaveOcr, HandlerRaises,
                 LiveRuns, Live, Exclusive
  <2>2. UNCHANGED <<job, commits, poll, left>>
    BY <1>19 DEF LoadJob, LoadFailedJob, EnterOcr, LeaveOcr, HandlerRaises,
                 Exclusive
  <2>3. /\ \A s \in Runs \ {r} : run'[s] = run[s]
        /\ run'[r].job = run[r].job
        /\ run'[r].pc \notin {"idle", "dump", "after_dump"}
        /\ run'[r].pc \in {"working", "ocr", "after_ocr", "failing"} =>
             \/ run'[r].seen = job[run[r].job] /\ Present(run[r].job)
             \/ /\ run'[r].seen = run[r].seen
                /\ run[r].pc \in {"working", "ocr", "after_ocr", "failing"}
    <3> USE DEF Tasks
    <3>1. CASE LoadJob(r) /\ Present(run[r].job)
      BY <3>1 DEF LoadJob
    <3>2. CASE LoadJob(r) /\ ~Present(run[r].job)
      BY <3>2 DEF LoadJob
    <3>3. CASE LoadFailedJob(r)
      BY <3>3 DEF LoadFailedJob
    <3>4. CASE EnterOcr(r) \/ LeaveOcr(r)
      BY <3>4 DEF EnterOcr, LeaveOcr
    <3>5. CASE HandlerRaises(r)
      BY <3>5 DEF HandlerRaises
    <3> QED
      BY <1>19, <3>1, <3>2, <3>3, <3>4, <3>5
  <2>4. LiveRuns' = LiveRuns /\ \A j \in Jobs : HasRun(j)' <=> HasRun(j)
    BY <2>1, <2>3 DEF LiveRuns, Live, HasRun
  <2>5. OneRunPerJob'
    BY <2>3, <2>4 DEF Exclusive, OneRunPerJob, LiveRuns
  <2>6. ASSUME NEW s \in LiveRuns' PROVE OwnRow(s)'
    <3>1. s \in LiveRuns /\ OwnRow(s) /\ run'[s].job = run[s].job
      BY <2>3, <2>4 DEF Exclusive, LiveRuns
    <3>2. CASE s = r
      BY <2>1, <2>2, <2>3, <3>1, <3>2 DEF OwnRow, IsStale, Present, Missing
    <3>3. CASE s # r
      BY <2>2, <2>3, <3>1, <3>3 DEF OwnRow, IsStale, LiveRuns
    <3> QED
      BY <3>2, <3>3
  <2>7. \A j \in Jobs : ClosedIfDone(j)'
    BY <2>2, <2>4 DEF Exclusive, ClosedIfDone
  <2>8. \A s \in Runs : run'[s].pc \notin {"dump", "after_dump"}
    BY <2>3 DEF Exclusive
  <2> QED
    BY <2>2, <2>4, <2>5, <2>6, <2>7, <2>8 DEF Exclusive
<1>20. ASSUME NEW r \in Runs, BeginDump(r) \/ EndDump(r) PROVE Exclusive'
  BY <1>20 DEF BeginDump, EndDump, Exclusive, Live
<1>21. ASSUME NEW r \in Runs, CompleteJob(r) PROVE Exclusive'
  <2>1. /\ Live(r) /\ run[r].job \in Jobs /\ OwnRow(r)
        /\ run[r].pc \in {"working", "after_ocr"} /\ run[r].seen \in Row(Docs)
    BY <1>21 DEF CompleteJob, HandlerDone, Live, LiveRuns, Exclusive, Tasks
  <2> DEFINE new ==
        Flush(job[run[r].job], run[r].seen, CompleteRow(run[r].seen))
  <2>2. /\ new \in Row(Docs) /\ new.type = job[run[r].job].type
        /\ new.status \in {"completed", "cancelled", "gone"}
    <3>1. CompleteRow(run[r].seen) \in Row(Docs)
      BY <2>1, RowTypes
    <3>2. new \in Row(Docs)
      BY <2>1, <3>1, FlushType
    <3>3. run[r].seen.status \in {"running", "cancelled"}
      BY <2>1 DEF OwnRow
    <3>4. /\ new.type = job[run[r].job].type
          /\ new.status = IF run[r].seen.status = "cancelled"
                          THEN job[run[r].job].status ELSE "completed"
      BY <2>1, <3>3, CompleteFlush
    <3> HIDE DEF new
    <3> QED
      BY <2>1, <3>2, <3>3, <3>4 DEF OwnRow
  <2>3. /\ job' = [job EXCEPT ![run[r].job] = new]
        /\ commits' = [commits EXCEPT ![run[r].job] = @ + 1]
        /\ EndRun(r) /\ UNCHANGED <<poll, left>>
    BY <1>21 DEF CompleteJob
  <2> HIDE DEF new
  <2> QED
    BY <1>0, <2>1, <2>2, <2>3, EndRunStep
<1>22. ASSUME NEW r \in Runs, FailJob(r) PROVE Exclusive'
  <2>1. /\ Live(r) /\ run[r].job \in Jobs /\ OwnRow(r)
        /\ run[r].pc = "failing" /\ run[r].seen \in Row(Docs)
    BY <1>22 DEF FailJob, Live, LiveRuns, Exclusive, Tasks
  <2>2. PICK delayed \in BOOLEAN :
          job' = [job EXCEPT ![run[r].job] =
                    Flush(@, run[r].seen, FailRow(run[r].seen, delayed))]
    BY <1>22 DEF FailJob
  <2> DEFINE new == Flush(job[run[r].job], run[r].seen,
                          FailRow(run[r].seen, delayed))
  <2>3. new \in Row(Docs) /\ new.type = job[run[r].job].type
    <3>1. FailRow(run[r].seen, delayed) \in Row(Docs)
      BY <2>1, RowTypes
    <3>2. run[r].seen.status \in {"running", "cancelled"}
      BY <2>1 DEF OwnRow
    <3> QED
      BY <2>1, <3>1, <3>2, FailFlush, FlushType
  <2>4. /\ job' = [job EXCEPT ![run[r].job] = new]
        /\ commits' = [commits EXCEPT ![run[r].job] = @ + 0]
        /\ EndRun(r) /\ UNCHANGED <<poll, left>>
    <3>1. commits' = [commits EXCEPT ![run[r].job] = @ + 0]
      BY <1>22, <2>1 DEF FailJob
    <3> QED
      BY <1>22, <2>2, <3>1 DEF FailJob
  <2> HIDE DEF new
  <2> QED
    <3>1. UNCHANGED poll /\ left'.stall = 0 /\ Live(r) /\ EndRun(r)
      BY <1>0, <2>1, <2>4
    <3>2. 0 \in {0, 1} /\ (0 = 1 =>
             new.status \in {"completed", "cancelled", "gone"})
      OBVIOUS
    <3> QED
      BY <2>3, <2>4, <3>1, <3>2, EndRunStep
<1>23. ASSUME NEW r \in Runs, FailureWithoutRow(r) \/ FailureNotRecorded(r)
       PROVE  Exclusive'
  <2>1. Live(r) /\ run[r].job \in Jobs
    BY <1>23 DEF FailureWithoutRow, FailureNotRecorded, Live
  <2>2. left'.stall = 0
    BY <1>0, <1>1, <1>23 DEF FailureWithoutRow, FailureNotRecorded
  <2>3. /\ job' = [job EXCEPT ![run[r].job] = job[run[r].job]]
        /\ commits' = [commits EXCEPT ![run[r].job] = @ + 0]
        /\ EndRun(r) /\ UNCHANGED poll
    BY <1>23, <2>1 DEF FailureWithoutRow, FailureNotRecorded
  <2>4. job[run[r].job] \in Row(Docs)
    BY <2>1
  <2> DEFINE new == job[run[r].job]
  <2>5. new \in Row(Docs) /\ job' = [job EXCEPT ![run[r].job] = new]
        /\ new.type = job[run[r].job].type
    BY <2>3, <2>4
  <2>6. 0 \in {0, 1} /\ (0 = 1 =>
           new.status \in {"completed", "cancelled", "gone"})
    OBVIOUS
  <2> HIDE DEF new
  <2> QED
    BY <2>1, <2>2, <2>3, <2>5, <2>6, EndRunStep
<1> QED
  BY <1>4, <1>5, <1>6, <1>7, <1>8, <1>9, <1>10, <1>11, <1>12, <1>13, <1>14,
     <1>15, <1>16, <1>17, <1>18, <1>19, <1>20, <1>21, <1>22, <1>23
  DEF Next, WorkerStep, Poll, Task, Environment

LEMMA ExclusiveInit == HeartbeatsWork /\ Init => Exclusive
<1> SUFFICES ASSUME HeartbeatsWork, Init PROVE Exclusive
  OBVIOUS
<1>1. LiveRuns = {} /\ \A r \in Runs : run[r].pc = "idle"
  BY DEF Init, LiveRuns, Live, Idle
<1>2. left.stall = 0
  BY DEF Init, Bounds, HeartbeatsWork
<1>3. \A j \in Jobs : job[j].type # "backup"
  BY NewJobAssumption DEF Init, HeartbeatsWork, Row
<1> QED
  BY <1>1, <1>2, <1>3
  DEF Init, Exclusive, PollIdle, OneRunPerJob, ClosedIfDone

THEOREM ExclusiveInvariant ==
  ASSUME HeartbeatsWork
  PROVE  Spec => []Exclusive
<1>1. Init => Exclusive
  BY ExclusiveInit
<1>2. TypeOK /\ Exclusive /\ [Next]_vars => Exclusive'
  BY ExclusiveStep
<1> QED
  BY <1>1, <1>2, TypeCorrect, PTL DEF Spec

\* While heartbeats keep locks fresh, no two tasks work on the same job: the
\* claim, the requeue of stale locks and the restart never hand out a row
\* that still has a task, at any concurrency.
THEOREM OneRunPerJobSafe ==
  ASSUME HeartbeatsWork
  PROVE  Spec => []OneRunPerJob
<1>1. Exclusive => OneRunPerJob
  BY DEF Exclusive
<1> QED
  BY <1>1, ExclusiveInvariant, PTL

\* ... and the work of a job takes effect at most once, however often it is
\* retried, requeued after a crash or cancelled in between.
THEOREM CommittedOnceSafe ==
  ASSUME HeartbeatsWork
  PROVE  Spec => []CommittedOnce
<1>1. TypeOK /\ Exclusive => CommittedOnce
  BY DEF TypeOK, Exclusive, ClosedIfDone, CommittedOnce
<1> QED
  BY <1>1, TypeCorrect, ExclusiveInvariant, PTL

----------------------------------------------------------------------------
(* The queue implements JobLifecycle, for any jobs, documents, tasks and   *)
(* bounds, as long as heartbeats work.  The argument is about one job: a   *)
(* step of the queue either writes its row and leaves its task alone       *)
(* (RowStep), or starts or ends its task (TaskStep), and each such change  *)
(* is a move of the lifecycle.                                             *)

\* What a job's row may become while its task, if any, goes on.
RowStep(j) ==
  /\ HasRun(j)' <=> HasRun(j)
  /\ commits'[j] = commits[j]
  /\ \/ /\ job'[j].status = job[j].status
        /\ job'[j].locked_at \in {job[j].locked_at, "fresh", "stale"}
     \/ job[j].status = "absent" /\ job'[j].status = "queued"
     \/ Present(j) /\ job'[j].status \in {"cancelled", "gone"}
     \/ job[j].status = "running" /\ job'[j].status = "queued" /\ ~HasRun(j)

\* The claim, and the ways in which a task ends.
TaskStep(j) ==
  \/ /\ job[j].status = "queued" /\ job'[j].status = "running"
     /\ job'[j].locked_at = "fresh"
     /\ ~HasRun(j) /\ HasRun(j)' /\ commits'[j] = commits[j]
  \/ /\ HasRun(j) /\ ~HasRun(j)' /\ commits'[j] = commits[j]
     /\ \/ job'[j] = job[j]
        \/ Present(j) /\ job'[j].status \in {"queued", "failed"}
  \/ /\ HasRun(j) /\ ~HasRun(j)' /\ commits'[j] = commits[j] + 1
     /\ Present(j) /\ job'[j].status \in {"completed", "cancelled"}

\* A completed row means that the work took effect.
CompletedIsDone ==
  \A j \in Jobs : job[j].status = "completed" => commits[j] > 0

\* Every running row has a lock time, with or without a task.
RunningIsLocked ==
  \A j \in Jobs : job[j].status = "running" => job[j].locked_at # "null"

----------------------------------------------------------------------------
\* When no task starts or ends, it is enough to look at the rows.
LEMMA SameTasks ==
  ASSUME UNCHANGED run PROVE \A j \in Jobs : HasRun(j)' <=> HasRun(j)
  BY DEF HasRun, Live

\* The end of a task concerns its own job and no other, since no other task
\* works on that one.
LEMMA TaskEnds ==
  ASSUME TypeOK, Exclusive, NEW r \in Runs, Live(r), EndRun(r), NEW j \in Jobs
  PROVE  IF j = run[r].job THEN HasRun(j) /\ ~HasRun(j)'
                           ELSE HasRun(j)' <=> HasRun(j)
<1>1. \A s \in Runs : s # r => run'[s] = run[s]
  BY DEF EndRun, TypeOK
<1>2. run'[r].pc = "idle"
  BY DEF EndRun, Idle, TypeOK
<1>3. CASE j = run[r].job
  <2>1. \A s \in Runs : s # r /\ Live(s) => run[s].job # j
    BY <1>3 DEF Exclusive, OneRunPerJob, LiveRuns
  <2> QED
    BY <1>1, <1>2, <1>3, <2>1 DEF HasRun, Live
<1>4. CASE j # run[r].job
  BY <1>1, <1>2, <1>4 DEF HasRun, Live
<1> QED
  BY <1>3, <1>4

LEMMA JobStep ==
  ASSUME TypeOK, Exclusive, [Next]_vars, NEW j \in Jobs
  PROVE  RowStep(j) \/ TaskStep(j)
<1> USE DEF TypeOK
<1>0. job[j] \in Row(Docs) /\ commits[j] \in Nat
  OBVIOUS
<1>1. CASE PollReady \/ PollAdmit \/ PollGate
  BY <1>1, SameTasks DEF PollReady, PollAdmit, PollGate, RowStep
<1>2. CASE PollRequeueStale
  <2>1. job'[j] = IF IsStale(job[j]) THEN RequeueRow(job[j]) ELSE job[j]
    BY <1>2 DEF PollRequeueStale
  <2>2. IsStale(job[j]) => job[j].status = "running" /\ ~HasRun(j)
    BY DEF IsStale, HasRun, Exclusive, OwnRow, LiveRuns
  <2> QED
    BY <1>2, <2>1, <2>2, RowStatus, SameTasks DEF PollRequeueStale, RowStep
<1>3. CASE PollClaim
  <2>1. CASE UNCHANGED <<job, run>>
    BY <1>3, <2>1, SameTasks DEF PollClaim, RowStep
  <2>2. ASSUME NEW i \in NextJob(job, doc, poll.active), NEW r \in Runs,
               ~Live(r),
               job' = [job EXCEPT ![i] = ClaimRow(@)],
               run' = [run EXCEPT ![r] = [pc |-> "starting", job |-> i,
                                          seen |-> NoRow]]
        PROVE  RowStep(j) \/ TaskStep(j)
    <3>1. i \in Jobs /\ job[i].status = "queued"
      BY NextJobIsQueued
    <3>2. ~HasRun(i)
      BY <3>1 DEF HasRun, Exclusive, OwnRow, LiveRuns
    <3>3. CASE i = j
      <4>1. HasRun(j)'
        BY <2>2, <3>3 DEF HasRun, Live
      <4>2. job'[j].status = "running" /\ job'[j].locked_at = "fresh"
        BY <2>2, <3>1, <3>3, RowStatus
      <4> QED
        BY <1>3, <3>1, <3>2, <3>3, <4>1, <4>2 DEF PollClaim, TaskStep
    <3>4. CASE i # j
      <4>1. HasRun(j)' <=> HasRun(j)
        BY <2>2, <3>4 DEF HasRun, Live
      <4> QED
        BY <1>3, <2>2, <3>4, <4>1 DEF PollClaim, RowStep
    <3> QED
      BY <3>3, <3>4
  <2> QED
    BY <1>3, <2>1, <2>2 DEF PollClaim
<1>4. ASSUME NEW r \in Runs, \/ LoadJob(r) \/ LoadFailedJob(r) \/ EnterOcr(r)
                              \/ LeaveOcr(r) \/ HandlerRaises(r)
      PROVE  RowStep(j)
  <2>1. UNCHANGED <<job, commits>>
    BY <1>4 DEF LoadJob, LoadFailedJob, EnterOcr, LeaveOcr, HandlerRaises,
                Exclusive
  <2>2. /\ \A s \in Runs \ {r} : run'[s] = run[s]
        /\ Live(r) /\ run'[r].job = run[r].job /\ run'[r].pc # "idle"
    <3> USE DEF Tasks, Live
    <3>1. CASE LoadJob(r)
      BY <3>1 DEF LoadJob
    <3>2. CASE LoadFailedJob(r)
      BY <3>2 DEF LoadFailedJob
    <3>3. CASE EnterOcr(r) \/ LeaveOcr(r)
      BY <3>3 DEF EnterOcr, LeaveOcr
    <3>4. CASE HandlerRaises(r)
      BY <3>4 DEF HandlerRaises
    <3> QED
      BY <1>4, <3>1, <3>2, <3>3, <3>4
  <2>3. HasRun(j)' <=> HasRun(j)
    BY <2>2 DEF HasRun, Live
  <2> QED
    BY <2>1, <2>3 DEF RowStep
<1>5. ASSUME NEW r \in Runs PROVE ~BeginDump(r) /\ ~EndDump(r)
  BY DEF BeginDump, EndDump, Exclusive, Live
<1>6. ASSUME NEW r \in Runs, CompleteJob(r) PROVE RowStep(j) \/ TaskStep(j)
  <2>1. /\ Live(r) /\ run[r].job \in Jobs /\ OwnRow(r) /\ Present(run[r].job)
        /\ run[r].pc \in {"working", "after_ocr"} /\ run[r].seen \in Row(Docs)
    BY <1>6 DEF CompleteJob, HandlerDone, Live, LiveRuns, Exclusive, Tasks
  <2>2. run[r].seen.status \in {"running", "cancelled"}
    BY <2>1 DEF OwnRow
  <2> DEFINE new == Flush(job[run[r].job], run[r].seen,
                          CompleteRow(run[r].seen))
  <2>3. new.status \in {"completed", "cancelled"}
    <3>1. new.status = IF run[r].seen.status = "cancelled"
                       THEN job[run[r].job].status ELSE "completed"
      BY <2>1, <2>2, CompleteFlush
    <3> HIDE DEF new
    <3> QED
      BY <2>1, <2>2, <3>1 DEF OwnRow, Present, Missing
  <2>4. /\ job' = [job EXCEPT ![run[r].job] = new]
        /\ commits' = [commits EXCEPT ![run[r].job] = @ + 1]
        /\ EndRun(r)
    BY <1>6 DEF CompleteJob
  <2> HIDE DEF new
  <2>5. CASE run[r].job = j
    BY <2>1, <2>3, <2>4, <2>5, TaskEnds DEF TaskStep
  <2>6. CASE run[r].job # j
    BY <2>1, <2>4, <2>6, TaskEnds DEF RowStep
  <2> QED
    BY <2>5, <2>6
<1>7. ASSUME NEW r \in Runs, FailJob(r) PROVE RowStep(j) \/ TaskStep(j)
  <2>1. /\ Live(r) /\ run[r].job \in Jobs /\ OwnRow(r) /\ Present(run[r].job)
        /\ run[r].pc = "failing" /\ run[r].seen \in Row(Docs)
    BY <1>7 DEF FailJob, Live, LiveRuns, Exclusive, Tasks
  <2>2. PICK delayed \in BOOLEAN :
          job' = [job EXCEPT ![run[r].job] =
                    Flush(@, run[r].seen, FailRow(run[r].seen, delayed))]
    BY <1>7 DEF FailJob
  <2> DEFINE new == Flush(job[run[r].job], run[r].seen,
                          FailRow(run[r].seen, delayed))
  <2>3. new.status \in {"queued", "failed"}
    <3>1. run[r].seen.status \in {"running", "cancelled"}
      BY <2>1 DEF OwnRow
    <3> QED
      BY <2>1, <3>1, FailFlush
  <2>4. job' = [job EXCEPT ![run[r].job] = new] /\ EndRun(r)
        /\ UNCHANGED commits
    BY <1>7, <2>2 DEF FailJob
  <2> HIDE DEF new
  <2>5. CASE run[r].job = j
    BY <2>1, <2>3, <2>4, <2>5, TaskEnds DEF TaskStep
  <2>6. CASE run[r].job # j
    BY <2>1, <2>4, <2>6, TaskEnds DEF RowStep
  <2> QED
    BY <2>5, <2>6
<1>8. ASSUME NEW r \in Runs, FailureWithoutRow(r) \/ FailureNotRecorded(r)
      PROVE  RowStep(j) \/ TaskStep(j)
  <2>1. Live(r) /\ EndRun(r) /\ UNCHANGED <<job, commits>>
    BY <1>8 DEF FailureWithoutRow, FailureNotRecorded, Live
  <2>2. CASE run[r].job = j
    BY <2>1, <2>2, TaskEnds DEF TaskStep
  <2>3. CASE run[r].job # j
    BY <2>1, <2>3, TaskEnds DEF RowStep
  <2> QED
    BY <2>2, <2>3
<1>9. ASSUME NEW r \in Runs, Heartbeat(r) PROVE RowStep(j)
  <2>1. /\ job'[j].status = job[j].status
        /\ job'[j].locked_at \in {job[j].locked_at, "fresh"}
    BY <1>9, RowStatus DEF Heartbeat
  <2> QED
    BY <1>9, <2>1, SameTasks DEF Heartbeat, RowStep
<1>10. ASSUME NEW i \in Jobs, LockAges(i) \/ DelayExpires(i) \/ CancelLoad(i)
       PROVE  RowStep(j)
  <2>1. UNCHANGED <<run, commits>>
    BY <1>10 DEF LockAges, DelayExpires, CancelLoad
  <2>2. /\ job'[j].status = job[j].status
        /\ job'[j].locked_at \in {job[j].locked_at, "stale"}
    BY <1>10 DEF LockAges, DelayExpires, CancelLoad, Row
  <2> QED
    BY <2>1, <2>2, SameTasks DEF RowStep
<1>11. ASSUME NEW i \in Jobs, Enqueue(i) PROVE RowStep(j)
  BY <1>11, SameTasks, NewJobAssumption DEF Enqueue, RowStep
<1>12. CASE Crash
  <2>1. ~HasRun(j)' /\ UNCHANGED <<job, commits>>
    BY <1>12 DEF Crash, HasRun, Live, Idle
  <2> QED
    BY <2>1 DEF RowStep, TaskStep
<1>13. CASE StartWorker
  <2>1. ~HasRun(j)
    BY <1>13 DEF StartWorker, Exclusive, HasRun, LiveRuns
  <2>2. job'[j] = StartRow(job[j])
    BY <1>13 DEF StartWorker
  <2>3. \/ StartRow(job[j]) = job[j]
        \/ job[j].status = "running" /\ StartRow(job[j]).status = "queued"
        \/ /\ job[j].status \in OpenStatuses
           /\ StartRow(job[j]).status = "cancelled"
    <3>1. RequeueRow(job[j]) \in Row(Docs)
      BY RowTypes
    <3>2. /\ RequeueRow(job[j]).status = "queued"
          /\ CancelTrashedRow(RequeueRow(job[j])).status = "cancelled"
          /\ CancelTrashedRow(job[j]).status = "cancelled"
      BY <3>1, RowStatus
    <3> QED
      BY <3>2 DEF StartRow, OpenStatuses
  <2> QED
    BY <1>13, <2>1, <2>2, <2>3, SameTasks
    DEF StartWorker, RowStep, Present, Missing, OpenStatuses
<1>14. CASE CancelJob
  <2>1. CASE Present(api.job)
    <3>1. /\ job'[j].status \in {job[j].status, "cancelled"}
          /\ job'[j].locked_at = job[j].locked_at
          /\ job'[j].status = job[j].status \/ Present(j)
      BY <1>14, <2>1, CancelFlush DEF CancelJob, Requests
    <3> QED
      BY <1>14, <3>1, SameTasks DEF CancelJob, RowStep
  <2>2. CASE ~Present(api.job)
    BY <1>14, <2>2, SameTasks DEF CancelJob, RowStep
  <2> QED
    BY <2>1, <2>2
<1>15. ASSUME NEW d \in Docs, \/ TrashDocument(d) \/ RestoreDocument(d)
                               \/ ChangeStatus(d)
       PROVE  RowStep(j)
  BY <1>15, SameTasks
  DEF TrashDocument, RestoreDocument, ChangeStatus, RowStep
<1>16. ASSUME NEW d \in Docs, DeleteDocument(d) PROVE RowStep(j)
  <2>1. job'[j] = job[j] \/ (Present(j) /\ job'[j].status = "gone")
    BY <1>16, RowStatus DEF DeleteDocument
  <2> QED
    BY <1>16, <2>1, SameTasks DEF DeleteDocument, RowStep
<1>17. CASE PauseInstance \/ ResumeInstance \/ UNCHANGED vars
  BY <1>17, SameTasks DEF PauseInstance, ResumeInstance, vars, RowStep
<1> QED
  BY <1>1, <1>2, <1>3, <1>4, <1>5, <1>6, <1>7, <1>8, <1>9, <1>10, <1>11,
     <1>12, <1>13, <1>14, <1>15, <1>16, <1>17
  DEF Next, WorkerStep, Poll, Task, Environment

----------------------------------------------------------------------------
(* What follows for the rows.                                              *)

LEMMA CompletedStep ==
  TypeOK /\ Exclusive /\ CompletedIsDone /\ [Next]_vars => CompletedIsDone'
<1> SUFFICES ASSUME TypeOK, Exclusive, CompletedIsDone, [Next]_vars,
                    NEW j \in Jobs, job'[j].status = "completed"
             PROVE  commits'[j] > 0
  BY DEF CompletedIsDone
<1>1. RowStep(j) \/ TaskStep(j)
  BY JobStep
<1>2. commits[j] \in Nat
  BY DEF TypeOK
<1>3. CASE RowStep(j)
  BY <1>3, <1>2 DEF RowStep, CompletedIsDone
<1>4. CASE TaskStep(j)
  BY <1>4, <1>2 DEF TaskStep, CompletedIsDone
<1> QED
  BY <1>1, <1>3, <1>4

LEMMA LockedStep ==
  TypeOK /\ Exclusive /\ RunningIsLocked /\ [Next]_vars => RunningIsLocked'
<1> SUFFICES ASSUME TypeOK, Exclusive, RunningIsLocked, [Next]_vars,
                    NEW j \in Jobs, job'[j].status = "running"
             PROVE  job'[j].locked_at # "null"
  BY DEF RunningIsLocked
<1>1. RowStep(j) \/ TaskStep(j)
  BY JobStep
<1> QED
  BY <1>1 DEF RowStep, TaskStep, RunningIsLocked

LEMMA RowsInit == Init => CompletedIsDone /\ RunningIsLocked
<1> SUFFICES ASSUME Init, NEW j \in Jobs PROVE job[j].status = "absent"
  BY DEF CompletedIsDone, RunningIsLocked
<1> QED
  BY NewJobAssumption DEF Init, Row

\* While heartbeats work, a job left running without a task, by a crash or a
\* failure that could not be recorded, has a lock time: requeue_stale_running
\* finds it.
THEOREM AbandonedIsReclaimableSafe ==
  ASSUME HeartbeatsWork
  PROVE  Spec => []AbandonedIsReclaimable
<1>1. Init => RunningIsLocked
  BY RowsInit
<1>2. TypeOK /\ Exclusive /\ RunningIsLocked /\ [Next]_vars => RunningIsLocked'
  BY LockedStep
<1>3. RunningIsLocked => AbandonedIsReclaimable
  BY DEF RunningIsLocked, AbandonedIsReclaimable
<1> QED
  BY <1>1, <1>2, <1>3, TypeCorrect, ExclusiveInvariant, PTL DEF Spec

\* While heartbeats work, no retry, requeue, restart or late failure of an
\* old attempt makes a completed job wait or run again.
THEOREM CompletedIsNeverRedoneSafe ==
  ASSUME HeartbeatsWork
  PROVE  Spec => CompletedIsNeverRedone
<1> DEFINE Kept == \A j \in Jobs : job[j].status = "completed" =>
                     job'[j].status \in {"completed", "cancelled", "gone"}
<1>1. TypeOK /\ Exclusive /\ [Next]_vars => [Kept]_vars
  <2> SUFFICES ASSUME TypeOK, Exclusive, [Next]_vars, NEW j \in Jobs,
                      job[j].status = "completed"
               PROVE  job'[j].status \in {"completed", "cancelled", "gone"}
    OBVIOUS
  <2>1. RowStep(j) \/ TaskStep(j)
    BY JobStep
  <2>2. ~HasRun(j)
    BY DEF HasRun, Exclusive, OwnRow, LiveRuns
  <2> QED
    BY <2>1, <2>2 DEF RowStep, TaskStep
<1> QED
  BY <1>1, TypeCorrect, ExclusiveInvariant, PTL DEF Spec, CompletedIsNeverRedone

----------------------------------------------------------------------------
(* The refinement.                                                         *)

LEMMA LifecycleInit == Init => Lifecycle!Init
<1> SUFFICES ASSUME Init PROVE Lifecycle!Init
  OBVIOUS
<1>1. \A j \in Jobs : job[j].status = "absent" /\ commits[j] = 0
  BY NewJobAssumption DEF Init, Row
<1>2. \A j \in Jobs : Phase(j) = "absent"
  BY <1>1 DEF Phase, Present, Missing, OpenStatuses
<1> QED
  BY <1>1, <1>2 DEF Lifecycle!Init

\* A job's phase, in the cases of the mapping.
LEMMA PhaseCases ==
  ASSUME TypeOK, Exclusive, NEW j \in Jobs
  PROVE  /\ job[j].status \in {"absent", "gone"} => Phase(j) = job[j].status
         /\ job[j].status \in {"running", "cancelled"} /\ HasRun(j)
              => Phase(j) = "running"
         /\ job[j].status \in OpenStatuses /\ ~HasRun(j) => Phase(j) = "waiting"
         /\ job[j].status \in {"completed", "failed", "cancelled"} /\ ~HasRun(j)
              => Phase(j) = job[j].status
         /\ HasRun(j) => job[j].status \in {"running", "cancelled", "gone"}
         /\ job[j].status \in {"absent", "gone", "queued", "running",
                               "completed", "failed", "cancelled"}
         /\ commits[j] \in Nat
<1>1. HasRun(j) => job[j].status \in {"running", "cancelled", "gone"}
  BY DEF HasRun, Exclusive, OwnRow, LiveRuns
<1>2. job[j].status \in JobStatus \cup Missing
  BY DEF TypeOK, Row
<1>3. commits[j] \in Nat
  BY DEF TypeOK
<1> QED
  BY <1>1, <1>2, <1>3 DEF Phase, Present, Missing, OpenStatuses, JobStatus

\* What a step of the queue is in the lifecycle of one job.
LEMMA PhaseStep ==
  ASSUME TypeOK, TypeOK', Exclusive, Exclusive', CompletedIsDone',
         [Next]_vars, NEW j \in Jobs
  PROVE  /\ Phase(j)' # Phase(j) => <<Phase(j), Phase(j)'>> \in Lifecycle!Moves
         /\ commits[j] > 0 => commits'[j] > 0
         /\ commits'[j] > 0 /\ ~(commits[j] > 0) =>
              Phase(j) = "running" /\ Phase(j)' \in {"completed", "cancelled"}
<1>1. RowStep(j) \/ TaskStep(j)
  BY JobStep
<1>2. /\ HasRun(j) => job[j].status \in {"running", "cancelled", "gone"}
      /\ job[j].status \in JobStatus \cup Missing
      /\ commits[j] \in Nat
  BY PhaseCases DEF JobStatus, Missing
<1>3. /\ HasRun(j)' => job'[j].status \in {"running", "cancelled", "gone"}
      /\ job'[j].status \in JobStatus \cup Missing
  BY DEF HasRun, Exclusive, OwnRow, LiveRuns, TypeOK, Row
<1>4. ~(commits[j] > 0 /\ HasRun(j))
  BY DEF Exclusive, ClosedIfDone
<1> USE DEF Phase, Present, Missing, OpenStatuses, JobStatus, Lifecycle!Moves,
            Lifecycle!Phases
<1>5. CASE RowStep(j)
  BY <1>2, <1>3, <1>5 DEF RowStep
<1>6. CASE TaskStep(j)
  BY <1>2, <1>3, <1>4, <1>6 DEF TaskStep
<1> QED
  BY <1>1, <1>5, <1>6

\* A job that is done is closed, and a job that shows as completed is done.
DoneShows ==
  \A j \in Jobs :
    /\ Phase(j) \in Lifecycle!Phases
    /\ Phase(j) = "completed" => commits[j] > 0
    /\ commits[j] > 0 => Phase(j) \notin {"absent", "waiting", "running"}

LEMMA PhaseOfDone == TypeOK /\ Exclusive /\ CompletedIsDone => DoneShows
<1> SUFFICES ASSUME TypeOK, Exclusive, CompletedIsDone, NEW j \in Jobs
             PROVE  /\ Phase(j) \in Lifecycle!Phases
                    /\ Phase(j) = "completed" => commits[j] > 0
                    /\ commits[j] > 0 =>
                         Phase(j) \notin {"absent", "waiting", "running"}
  BY DEF DoneShows
<1>1. commits[j] > 0 => ClosedIfDone(j)
  BY DEF Exclusive
<1> QED
  BY <1>1, PhaseCases
  DEF ClosedIfDone, CompletedIsDone, OpenStatuses, Lifecycle!Phases

LEMMA LifecycleStep ==
  ASSUME TypeOK, TypeOK', Exclusive, Exclusive', CompletedIsDone,
         CompletedIsDone', [Next]_vars
  PROVE  Lifecycle!Next
<1>1. DoneShows'
  BY PhaseOfDone, PTL
<1> QED
  BY <1>1, PhaseStep DEF DoneShows, Lifecycle!Next, Lifecycle!Takes

\* While heartbeats work, every behaviour of the queue is one of JobLifecycle:
\* what the worker, the API and the recoveries do to a row amounts to the
\* documented transitions, and a job's work takes effect as its run ends.
THEOREM ImplementsLifecycleSafe ==
  ASSUME HeartbeatsWork
  PROVE  Spec => ImplementsLifecycle
<1>1. Init => Lifecycle!Init /\ CompletedIsDone
  BY LifecycleInit, RowsInit
<1>2. TypeOK /\ Exclusive /\ CompletedIsDone /\ [Next]_vars
        => CompletedIsDone'
  BY CompletedStep
<1>3. ASSUME TypeOK, TypeOK', Exclusive, Exclusive', CompletedIsDone,
             CompletedIsDone', [Next]_vars
      PROVE  Lifecycle!Next
  BY <1>3, LifecycleStep
<1> QED
  BY <1>1, <1>2, <1>3, TypeCorrect, ExclusiveInvariant, PTL
  DEF Spec, ImplementsLifecycle, Lifecycle!Spec
=============================================================================
