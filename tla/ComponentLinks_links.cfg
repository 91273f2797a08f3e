CONSTANTS
  ID = {"r", "a", "w", "k", "n"}
  Root = "r"
  Name = {"f", "g"}
  Creatable = {"source", "task"}
  InitialJson <- Project
  MaxEdits = 5
  MaxFiles = 1
  Careless = FALSE
SPECIFICATION Spec
INVARIANTS BothEnds
PROPERTY EditsGraph
CHECK_DEADLOCK FALSE
