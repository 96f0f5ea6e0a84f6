SPECIFICATION FairDebouncerSpec
CONSTANTS
  MaxBumps = 6
INVARIANTS QuietBeforeClose
PROPERTIES DebounceReturns
CHECK_DEADLOCK FALSE
