CONSTANTS
  Task <- Chain
  Kind <- ChainKind
  After <- ChainAfter
  Retry <- ChainRetry
  DefaultRetry = 1
  Condition = {}
  Checker = {}
  Manual = {}
  IgnoreFailure = {"c"}
  Shared = {}
  Cleanup = {}
  Resumed = {}
  NumJob <- Two
  SubmitResults = {"recoverable", "noID", "lost"}
  MaxForced = 1
  MayStop = TRUE
SPECIFICATION FairSpec
INVARIANT HeadFirst
PROPERTY Settles
CHECK_DEADLOCK FALSE
