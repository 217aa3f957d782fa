SPECIFICATION Spec
CONSTANTS
  o1 = o1
  o2 = o2
  n1 = n1
  Objects = {o1, o2}
  Names = {n1}
  NameOf <- OneName
  Pods = {n1}
  Ids = {1}
  MaxRV = 1
  MaxSessions = 1
  MaxHub = 1
  MaxNet = 1
  MaxRetry = 1
  MaxFailures = 0
  MaxCrashes = 0
  MaxQueries = 0
  Patient = FALSE
INVARIANT QuietInSync
CHECK_DEADLOCK FALSE
