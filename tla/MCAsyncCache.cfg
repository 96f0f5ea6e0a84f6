SPECIFICATION FairCacheSpec
CONSTANTS
  Write = {w1, w2, w3}
  Flush = {f}
  Shutdown = {s1, s2}
  Workers = 2
INVARIANTS LostOnlyBehindShutdown FlushCoversEarlierWrites ShutdownCoversWrites
PROPERTIES CallsReturn
CHECK_DEADLOCK FALSE
