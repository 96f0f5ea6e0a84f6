SPECIFICATION WatcherSpec
CONSTANTS
  web = web
  lib = lib
  Workspace = {web, lib}
  FileName = {"package.json", "turbo.json"}
  Manifest <- MCManifests
  Reader = {r1}
  Capacity = 2
  MaxChanges = 2
  Invalid = Invalid
  NoGlobs = NoGlobs
  NoData = NoData
  Failed = Failed
INVARIANTS NoWorkspaceMissed
CHECK_DEADLOCK FALSE
