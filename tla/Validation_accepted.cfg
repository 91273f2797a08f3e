CONSTANTS
  Workflow <- MCWorkflow
  RemoteHost <- MCRemoteHost
  Scheduled <- MCScheduled
  BulkHost <- MCBulkHost
  StepHost <- MCStepHost
SPECIFICATION Spec
INVARIANTS CycleExact Explained KeepsPromise
CHECK_DEADLOCK FALSE
