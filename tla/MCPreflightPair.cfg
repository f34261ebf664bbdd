\* A scanned PDF or an image, JOB_CONCURRENCY 2: moves, Trash and Restore.
SPECIFICATION FairSpec
CONSTANTS
  Docs = {1, 2}
  Scanned = {1}
  Images = {2}
  Runs = {r1, r2}
  NoRun = NoRun
  MaxRetries = 0
  MaxRequests <- MCMoves
  MaxCrashes = 0
\* Users may stop making requests.
CHECK_DEADLOCK FALSE
PROPERTIES
  PreparationEnds
