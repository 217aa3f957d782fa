SPECIFICATION LiveSpec
CONSTANTS
  o1 = o1
  n1 = n1
  r1 = r1
  r2 = r2
  q1 = q1
  q2 = q2
  None = None
  Wild = Wild
  Objects = {o1}
  Names = {n1}
  NameOf <- OneObject
  Pods = {n1}
  Ids = {1}
  MaxRV = 2
  MaxSessions = 1
  MaxHub = 1
  MaxNet = 1
  MaxRetry = 1
  MaxFailures = 0
  MaxCrashes = 0
  MaxQueries = 0
  Patient = TRUE
PROPERTIES   RequestEnds
CHECK_DEADLOCK FALSE
