CONSTANTS
  Bulk = {TRUE, FALSE}
  Start = 0
  Width = 2
  Codes = {0, 1}
  Acceptable = {0}
  Listed = {TRUE, FALSE}
  AcceptableRt = {2}
  CommandRt = {0, 1, 2}
  MaxError = 1
  HostMaxError = 1
  MaxPoll = 2
SPECIFICATION FairSpec
INVARIANTS SuccessIsReal Followed
PROPERTY Decided
CHECK_DEADLOCK FALSE
