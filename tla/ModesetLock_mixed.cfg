SPECIFICATION Spec
CONSTANTS
  t1 = t1
  t2 = t2
  t3 = t3
  conn = conn
  c1 = c1
  c2 = c2
  p1 = p1
  p2 = p2
  None = None
  Threads = {t1, t2, t3}
  Conn = conn
  CrtcList <- MCCrtcs
  PlaneList <- MCPlanes
  CrtcPlanes <- MCCrtcPlanes
  Workloads <- MCWorkloads
SYMMETRY Symmetry
INVARIANT LocksTracked
INVARIANT SectionsKept
INVARIANT ContendedBacksOff
INVARIANT SomebodyRuns
PROPERTY NobodyElseUnlocks
CHECK_DEADLOCK FALSE
