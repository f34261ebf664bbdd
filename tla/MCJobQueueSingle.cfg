\* JOB_CONCURRENCY = 1, the default: OCR beside a backup whose pg_dump blocks,
\* with a crash, a cancellation, an outage, a pause of the instance and a
\* document that may leave the trash.
SPECIFICATION FairSpec
CONSTANTS
  Jobs = {1, 2}
  Docs = {1, 2}
  NewJob <- MCNewJobOcrBackup
  InitDoc <- MCInitDocTrash
  Runs = {r1, r2}
  NoRun = NoRun
  Concurrency = 1
  MaxCrashes = 1
  MaxStalls = 0
  MaxOutages = 1
  MaxCancels = 1
  MaxDocSteps = 1
  MaxPauses = 1
INVARIANTS
  CommittedOnce
PROPERTIES
  JobsSettle
