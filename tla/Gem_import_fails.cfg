SPECIFICATION Spec
CONSTANTS
  t1 = t1
  t2 = t2
  f1 = f1
  f2 = f2
  o1 = o1
  o2 = o2
  b1 = b1
  b2 = b2
  None = None
  Threads = {t1, t2}
  Files = {f1, f2}
  Objects = {o1, o2}
  Bufs = {b1, b2}
  Handles = {1, 2}
  Names = {1}
  Worlds <- ImportWorld
SYMMETRY Symmetries
INVARIANT NoSelfDeadlock
CHECK_DEADLOCK FALSE
