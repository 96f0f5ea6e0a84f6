SPECIFICATION WatchSpec
CONSTANTS
  lib = lib app = app
  libBuild = libBuild appBuild = appBuild appDev = appDev appDb = appDb
  Package = {lib, app}
  Task = {libBuild, appBuild, appDev, appDb}
  Persistent = {appDev, appDb}
  Interruptible = {appDev}
  Cacheable = {libBuild, appBuild}
  Rediscover = Rediscover
  Optional = {}
  MaxChanges = 1
  PackageOf <- MCPackageOf
  TaskDeps <- MCLooseDeps
INVARIANT InterruptibleRunsOnce
CHECK_DEADLOCK FALSE
