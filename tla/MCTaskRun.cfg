SPECIFICATION FairTaskRunSpec
CONSTANTS
  lib = lib
  app = app
  dev = dev
  Task <- MCTask
  TaskDeps <- MCDeps
  Persistent <- MCPersistent
  SerialGroup <- MCSerial
  RunOpts <- MCRunOpts
  Limit = 2
INVARIANTS ExitCodeTellsTruth NothingOutlivesRun SavedAfterDependencies
PROPERTIES HaltEndsRun
CHECK_DEADLOCK FALSE
