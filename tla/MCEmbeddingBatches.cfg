\* A text of three tokens, two of which fit, JOB_CONCURRENCY 1: a provider that
\* answers anything, a request and one crash, error, outage or cancellation.
SPECIFICATION Spec
CONSTANTS
  TextLength = 3
  MaxInput = 2
  Recommended = 2
  MinPiece = 1
  BatchSize = 3
  BatchBudget = 2
  MaxDepth = 1
  MaxAttempts = 2
  MaxRetries = 1
  MaxRequests = 1
  MaxTroubles = 1
\* All work may be done.
CHECK_DEADLOCK FALSE
INVARIANTS
  TypeOK
  ChunksAreTheText
  NothingIsSentTwice
  PendingHasWork
  ProgressAgrees
PROPERTIES
  EachBatchProgresses
