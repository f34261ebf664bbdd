\* A scanned PDF, JOB_CONCURRENCY 1: retries, Process, cancellations
\* and a crash in any order, two requests in all.
SPECIFICATION Spec
CONSTANTS
  Docs = {1}
  Scanned = {1}
  Images = {}
  Runs = {r1}
  NoRun = NoRun
  MaxRetries = 0
  MaxRequests <- MCRetries
  MaxCrashes = 1
\* Users may stop making requests.
CHECK_DEADLOCK FALSE
INVARIANTS
  TypeOK
  PreparingHasWork
  PagesAgree
  LibraryIsIndexed
  SuggestionsReadOcrText
PROPERTIES
  FailureIsNotHidden
