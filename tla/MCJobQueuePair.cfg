\* JOB_CONCURRENCY = 2, heartbeats never fail.
SPECIFICATION FairSpec
CONSTANTS
  Jobs = {1, 2}
  Docs = {1, 2}
  NewJob <- MCNewJob2
  InitDoc <- MCInitDoc
  Runs = {r1, r2}
  NoRun = NoRun
  Concurrency = 2
  MaxCrashes = 1
  MaxStalls = 0
  MaxOutages = 1
  MaxCancels = 1
  MaxDocSteps = 1
  MaxPauses = 0
INVARIANTS
  PermitsAccounted
  OneRunPerJob
PROPERTIES
  ImplementsLifecycle
  JobsSettle
