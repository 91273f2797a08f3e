SPECIFICATION Spec
CONSTANTS
  NTask = 2
  MaxTrips = 3
  MaxRuns = 2
  MaxFailed = 1
  Unwary = FALSE
  Spaces <- ManySpaces
  Component <- EveryKind
  Template = Template
  Null = Null
  Undefined = Undefined
  A = A
  B = B
  C = C
INVARIANTS LoopDelivers InOrder Kept Whole
PROPERTY Concludes
CHECK_DEADLOCK FALSE
