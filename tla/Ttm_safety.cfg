SPECIFICATION Spec
CONSTANTS
  t1 = t1
  t2 = t2
  t3 = t3
  b1 = b1
  b2 = b2
  b3 = b3
  e1 = e1
  e2 = e2
  None = None
SYMMETRY Alike
INVARIANTS
  LifetimeExact
  MemoryExact
  QueueServed
  ListReserved
  
PROPERTIES
  UsedStays
CHECK_DEADLOCK FALSE
