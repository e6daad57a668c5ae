\* Safety and progress of the lock: four threads, all interleavings, weak
\* fairness per thread.
CONSTANTS
  t1 = t1
  t2 = t2
  t3 = t3
  t4 = t4
  Threads <- FourThreads
SPECIFICATION FairSpec
INVARIANTS
  CountersExact
  Exclusion
  NoLostWakeup
PROPERTIES
  WaitKeepsMode
  ImplementsAbstractLock
  SomeoneEnters
