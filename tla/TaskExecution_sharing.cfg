CONSTANTS
  Task <- Sharing
  Kind <- SharingKind
  After <- SharingAfter
  Retry <- SharingRetry
  DefaultRetry = 1
  Condition = {"s"}
  Checker = {"s"}
  Manual = {"w"}
  IgnoreFailure = {"s"}
  Shared = {"s"}
  Cleanup = {"s", "w", "r"}
  Resumed = {"r"}
  NumJob <- One
  SubmitResults = {"exceeded"}
  MaxForced = 1
  MayStop = TRUE
SPECIFICATION Spec
INVARIANTS Throttled RemoteFiles
PROPERTY LivesRight
CHECK_DEADLOCK FALSE
