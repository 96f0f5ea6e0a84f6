SPECIFICATION FairSignalSpec
CONSTANTS
  Subscriber = {s1, s2}
  Closer = {k1, k2}
  Starter = {o1}
  SignalStarter = {o2}
  MaxSignals = 2
INVARIANTS SignalTypeOK DoneMeansCleanedUp AlertedKnowTheReason FirstSignalCounted NoLostWakeUp
PROPERTIES CloseAndStartedReturn
CHECK_DEADLOCK FALSE
