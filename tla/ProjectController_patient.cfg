SPECIFICATION Spec
CONSTANTS
  Asked = {"runProject", "stopProject", "cleanProject", "revertProject", "saveProject"}
  Hasty = FALSE
  MayReject = TRUE
  MaxRuns = 2
  MaxQueue = 1
  MaxFailures = 2
  MaxCrashes = 1
INVARIANTS ConnectionsKept RunningIsRun Released
PROPERTIES FailureReported
CHECK_DEADLOCK FALSE
