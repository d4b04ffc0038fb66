SPECIFICATION FairSpec
CONSTANTS
  t1 = t1
  t2 = t2
  t3 = t3
  Threads <- MCThreads
INVARIANTS TypeOK CounterExact NoLostWakeup
PROPERTIES ShutdownCompletes
CHECK_DEADLOCK FALSE
