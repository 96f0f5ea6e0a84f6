SPECIFICATION FairGlobSpec
CONSTANTS
  build = build dist = dist logs = logs bundle = bundle log = log
  first = first again = again ask = ask
  Hash = {build}
  Glob = {dist, logs}
  Path = {bundle, log}
  Registration = {first, again}
  Query = {ask}
  Matches <- MCMatches
  HashOf <- MCHashOf
  GlobsOf <- MCGlobsOf
  ExcludedBy <- MCExcludedBy
  AskedFor <- MCAskedFor
  None = None
  MaxWrites = 1
  MaxLosses = 1
INVARIANTS StatusesAreTracked
PROPERTIES UnchangedIsTrue RequestsAreAnswered
CHECK_DEADLOCK FALSE
