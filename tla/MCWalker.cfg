SPECIFICATION FairWalkerSpec
CONSTANTS
  lib = lib
  util = util
  app = app
  web = web
  docs = docs
  Node <- MCNode
  Deps <- MCDeps
INVARIANTS WalkerTypeOK EmittedAfterDependencies SkippedForAReason CompleteWalk
PROPERTIES WalkEnds
CHECK_DEADLOCK FALSE
