SPECIFICATION FairSpec
CONSTANTS
  Component <- BodyComponent
  Kind <- BodyKind
  NextLinks <- BodyNext
  ElseLinks <- BodyElse
  FileLinks <- BodyFile
  Disabled = {}
  Remote = {"x"}
  HollowInput = {}
  ParentFed = {}
  ParentBehindIf = FALSE
  MandatoryMissing = {}
  MayThrow = {"a"}
  TaskResults = {"finished"}
  ChildResults = {"finished", "failed"}
  Trips = 2
  MayStop = FALSE
  MaxRuns = 1
INVARIANTS Listening DoneQuiet JumpSkips
PROPERTIES Concludes
CHECK_DEADLOCK FALSE
