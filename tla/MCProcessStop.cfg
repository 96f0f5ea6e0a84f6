SPECIFICATION FairManagerSpec
CONSTANTS
  build = build
  dev = dev
  Child = {build}
  Task = {build}
  Pty = {build}
  TaskOf <- MCTaskOf
  Call = {k1, k2}
PROPERTIES StopReturns
CHECK_DEADLOCK FALSE
