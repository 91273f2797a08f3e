SPECIFICATION Spec
CONSTANTS
  Component <- RemoteComponent
  Kind <- RemoteKind
  NextLinks <- RemoteNext
  ElseLinks <- RemoteElse
  FileLinks <- RemoteFile
  Disabled = {}
  Remote = {"r"}
  HollowInput = {}
  ParentFed = {}
  ParentBehindIf = FALSE
  MandatoryMissing = {}
  MayThrow = {}
  TaskResults = {"finished", "failed"}
  ChildResults = {"finished", "failed", "unknown"}
  Trips = 2
  MayStop = TRUE
  MaxRuns = 2
INVARIANTS TypeOK NoLostWakeup
PROPERTIES NoResubmission
CHECK_DEADLOCK FALSE
