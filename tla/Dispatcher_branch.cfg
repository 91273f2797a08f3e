SPECIFICATION Spec
CONSTANTS
  Component <- BranchComponent
  Kind <- BranchKind
  NextLinks <- BranchNext
  ElseLinks <- BranchElse
  FileLinks <- BranchFile
  Disabled = {"k"}
  Remote = {}
  HollowInput = {}
  ParentFed = {}
  ParentBehindIf = FALSE
  MandatoryMissing = {"s"}
  MayThrow = {}
  TaskResults = {"finished"}
  ChildResults = {"finished", "failed"}
  Trips = 2
  MayStop = FALSE
  MaxRuns = 1
INVARIANTS AtMostOnce DependencyOrder Complete OneBranch Verdict
CHECK_DEADLOCK FALSE
