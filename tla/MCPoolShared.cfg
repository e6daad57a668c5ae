\* Clients that use each other's pools, until all threads are lost in freed memory.
CONSTANTS
  t1 = t1
  t2 = t2
  n1 = n1
  n2 = n2
  p1 = p1
  p2 = p2
  a1 = a1
  a2 = a2
  a3 = a3
  Null = Null
  Free = Free
  Unused = Unused
  Threads <- TwoThreads
  Names <- OneName
  Pools <- TwoPools
  Areas <- TwoAreas
  Shared = TRUE
  ReleaseAllNamed = FALSE
SPECIFICATION Spec
CHECK_DEADLOCK FALSE
SYMMETRY Symmetric
INVARIANTS
  TableAgrees
  LockHeldInside
