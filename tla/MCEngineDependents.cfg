SPECIFICATION EngineSpec
CONSTANTS
  root = root
  lib = lib
  util = util
  docs = docs
  web = web
  Node <- MCNode
  Deps <- MCDeps
  RootNode <- MCRoot
  Concurrency = 2
  Capacity = 2
  Parallel = FALSE
INVARIANTS NoDependentAfterAllTasks
CHECK_DEADLOCK FALSE
