SPECIFICATION WatcherSpec
CONSTANTS
  web = web
  lib = lib
  Workspace = {web}
  FileName = {"package.json", "turbo.json"}
  Manifest <- MCFixed
  Reader = {r1}
  Capacity = 2
  MaxChanges = 1
  Invalid = Invalid
  NoGlobs = NoGlobs
  NoData = NoData
  Failed = Failed
INVARIANTS SomeRefIsSome
CHECK_DEADLOCK FALSE
