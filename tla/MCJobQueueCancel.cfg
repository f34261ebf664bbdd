\* A job cancelled while it runs.
SPECIFICATION Spec
CONSTANTS
  Jobs = {1, 2}
  Docs = {1, 2}
  NewJob <- MCNewJob2
  InitDoc <- MCInitDoc
  Runs = {r1}
  NoRun = NoRun
  Concurrency = 1
  MaxCrashes = 0
  MaxStalls = 0
  MaxOutages = 0
  MaxCancels = 1
  MaxDocSteps = 0
  MaxPauses = 0
PROPERTIES
  CancelledStays
