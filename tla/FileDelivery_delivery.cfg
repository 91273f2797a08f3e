SPECIFICATION MCSpec
CONSTANTS
  Label = {"A1", "A2", "B", "C"}
  Info <- MCInfo
  Mount <- MCMount
  ProjectBase = "/mnt"
  StorageBase <- MCStorageBase
  Local = "localhost"
  Unset = ""
  Consumer = {"c1", "c2"}
INVARIANTS Delivered Told
CHECK_DEADLOCK FALSE
