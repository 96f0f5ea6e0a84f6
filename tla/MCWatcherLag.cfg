SPECIFICATION FairWatcherSpec
CONSTANTS
  web = web
  lib = lib
  Workspace = {web}
  FileName = {"package.json", "turbo.json"}
  Manifest <- MCFixed
  Reader = {r1}
  Capacity = 1
  MaxChanges = 1
  Invalid = Invalid
  NoGlobs = NoGlobs
  NoData = NoData
  Failed = Failed
PROPERTIES ReadersAnsweredDespiteLag
CHECK_DEADLOCK FALSE
