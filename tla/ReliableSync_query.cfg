SPECIFICATION Spec
CONSTANTS
  o1 = o1
  o2 = o2
  n1 = n1
  Objects = {o1}
  Names = {n1}
  NameOf <- OneObject
  Pods = {}
  Ids = {1}
  MaxRV = 2
  MaxSessions = 1
  MaxHub = 1
  MaxNet = 1
  MaxRetry = 0
  MaxFailures = 0
  MaxCrashes = 0
  MaxQueries = 1
  Patient = FALSE
INVARIANT QuietInSync
CHECK_DEADLOCK FALSE
