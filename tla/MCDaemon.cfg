SPECIFICATION FairDaemonSpec
CONSTANTS
  old = old one = one two = two run = run restart = restart
  Daemon = {old, one, two}
  Running = {old}
  Client = {run, restart}
  CanStart = {run, restart}
  CanKill = {run, restart}
  Cleaner = {restart}
  Matches <- MCMatches
  None = None
  RetryMax = 2
  MaxCrashes = 1
INVARIANTS OwnersExclude LiveFilesAreKept
PROPERTIES KillsAreAimed ClientsReturn StoppedIsReleased
CHECK_DEADLOCK FALSE
