SPECIFICATION EngineSpec
CONSTANTS
  root = root
  lib = lib
  util = util
  docs = docs
  web = web
  Node <- MCNode
  Deps <- MCDeps
  RootNode <- MCRoot
  Concurrency = 1
  Capacity = 1
  Parallel = FALSE
PROPERTIES NoTaskSentAfterStop
CHECK_DEADLOCK FALSE
