SPECIFICATION Spec
CONSTANTS
  o1 = o1
  o2 = o2
  n1 = n1
  Objects = {o1}
  Names = {n1}
  NameOf <- OneObject
  Pods = {n1}
  Ids = {1}
  MaxRV = 3
  MaxSessions = 3
  MaxHub = 1
  MaxNet = 1
  MaxRetry = 0
  MaxFailures = 1
  MaxCrashes = 1
  MaxQueries = 0
  Patient = FALSE
INVARIANTS RecordedWasPersisted NoLostMessage QuietDelivered
PROPERTY RemovedOnlyWhenGone
CHECK_DEADLOCK FALSE
CONSTRAINT Within
