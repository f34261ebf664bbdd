\* Two documents, one still in preparation, with one suggestion; the user sets
\* or clears one destination, and preparation or suggestions are retried once.
SPECIFICATION FairSpec
CONSTANTS
  d1 = d1
  d2 = d2
  Docs = {d1, d2}
  Unprepared = {d1}
  Suggestions <- MCFolders
  MaxEdits = 1
  MaxRetries = 1
  MaxAtOnce = 1
CHECK_DEADLOCK FALSE
INVARIANTS
  TypeOK
  ChosenDestinationStays
PROPERTIES
  FilingIsMeant
  NothingHangs
