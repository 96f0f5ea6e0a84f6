SPECIFICATION FairTaskRunSpec
CONSTANTS
  lib = lib
  app = app
  dev = dev
  Task <- MCTask
  TaskDeps <- MCDeps
  Persistent <- MCPersistent
  SerialGroup <- MCSerial
  RunOpts <- MCRunOpts
  Limit = 2
INVARIANTS SerialGroupRunsAlone
CHECK_DEADLOCK FALSE
