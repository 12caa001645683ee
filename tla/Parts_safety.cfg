SPECIFICATION Spec
CONSTANTS
  t1 = t1
  t2 = t2
  t3 = t3
  f1 = f1
  f2 = f2
  f3 = f3
  b1 = b1
  b2 = b2
  b3 = b3
  d1 = d1
  None = None
SYMMETRY Alike
INVARIANTS
  HardwareLock
  MastersExact
  DeviceStays
  
  RemovedUnused
  
  EvictionMakesRoom
  
  
  ObjectsExact
CHECK_DEADLOCK FALSE
