\* One chunk and a crash at any point, JOB_CONCURRENCY 1.
SPECIFICATION Spec
CONSTANTS
  TextLength = 1
  MaxInput = 2
  Recommended = 2
  MinPiece = 1
  BatchSize = 3
  BatchBudget = 2
  MaxDepth = 1
  MaxAttempts = 2
  MaxRetries = 1
  MaxRequests = 0
  MaxTroubles = 1
\* All work may be done.
CHECK_DEADLOCK FALSE
PROPERTIES
  RerunKeepsSpace
