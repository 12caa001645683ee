SPECIFICATION FairSpec
CONSTANTS
  a1 = a1
  a2 = a2
  a3 = a3
  o1 = o1
  o2 = o2
  o3 = o3
  b1 = b1
  conn = conn
  None = None
PROPERTIES
  CallsReturn
  AllFreed
  
CHECK_DEADLOCK FALSE
