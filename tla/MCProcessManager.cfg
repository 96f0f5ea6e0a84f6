SPECIFICATION FairManagerSpec
CONSTANTS
  build = build
  dev = dev
  Child = {build}
  Task = {build}
  Pty = {build}
  TaskOf <- MCTaskOf
  Call = {k1, k2, k3}
INVARIANTS ReturnedMeansExited ClosingFlagTellsWhy StoppedTreeIsGone
PROPERTIES BoundedCallsReturn ImplementsContract
CHECK_DEADLOCK FALSE
