\* ReleaseAllPool while a named pool exists.
CONSTANTS
  t1 = t1
  t2 = t2
  n1 = n1
  n2 = n2
  p1 = p1
  p2 = p2
  a1 = a1
  a2 = a2
  a3 = a3
  Null = Null
  Free = Free
  Unused = Unused
  Threads <- TwoThreads
  Names <- OneName
  Pools <- TwoPools
  Areas <- TwoAreas
  Shared = FALSE
  ReleaseAllNamed = TRUE
SPECIFICATION FairSpec
CHECK_DEADLOCK FALSE
PROPERTIES
  ReleaseAllReturns
