SPECIFICATION ManagerSpec
CONSTANTS
  build = build
  dev = dev
  Child = {build}
  Task = {build}
  Pty = {build}
  TaskOf <- MCTaskOf
  Call = {k1, k2}
INVARIANTS NoChildAfterClose KilledTreeIsGone
CHECK_DEADLOCK FALSE
