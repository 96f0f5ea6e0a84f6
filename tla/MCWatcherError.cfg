SPECIFICATION WatcherSpec
CONSTANTS
  web = web
  lib = lib
  Workspace = {web}
  FileName = {"package.json", "turbo.json", "turbo.jsonc"}
  Manifest <- MCFixed
  Reader = {r1}
  Capacity = 2
  MaxChanges = 2
  Invalid = Invalid
  NoGlobs = NoGlobs
  NoData = NoData
  Failed = Failed
INVARIANTS ErrorIsCurrent
CHECK_DEADLOCK FALSE
