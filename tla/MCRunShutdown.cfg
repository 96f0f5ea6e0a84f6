SPECIFICATION FairRunShutdownSpec
CONSTANTS
  Subscriber = {cache, processes}
  CacheHandler = cache
  ProcessHandler = processes
  Closer = {close}
  CommandClose = close
  Starter = {}
  SignalStarter = {wait}
  CommandWait = wait
  MaxSignals = 3
INVARIANTS ExitedMeansClean ForcedOnlyOnRequest NoLostWakeUp
PROPERTIES ForceEndsCommand
CHECK_DEADLOCK FALSE
