\* Edits, saves and operations on a project that meet in its files.
SPECIFICATION FairSpec
CONSTANTS
  Null = Null
  Answers <- CancelOrDiscard
  Invalid <- InvalidValues
  Careless = FALSE
  MaxKeys = 1
  MaxChanges = 2
  MaxOps = 2
  MaxRuns = 1
INVARIANTS CleanForgets Saved
PROPERTIES RunTakesAll Serves
CHECK_DEADLOCK FALSE
