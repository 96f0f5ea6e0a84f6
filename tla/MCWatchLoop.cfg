SPECIFICATION FairWatchSpec
CONSTANTS
  lib = lib app = app
  libBuild = libBuild appBuild = appBuild appDev = appDev appDb = appDb
  Package = {lib, app}
  Task = {libBuild, appBuild, appDev, appDb}
  Persistent = {appDev, appDb}
  Interruptible = {appDev}
  Cacheable = {libBuild, appBuild}
  Rediscover = Rediscover
  Optional = {app}
  MaxChanges = 2
  PackageOf <- MCPackageOf
  TaskDeps <- MCTaskDeps
INVARIANTS IdleIsFresh StoppedIsRestarted PersistentRunsOnce ExitLeavesNothing
PROPERTY StaleIsRedone
CHECK_DEADLOCK FALSE
