SPECIFICATION Spec
CONSTANTS
  n1 = n1
  n2 = n2
  n3 = n3
  NoJob = NoJob
  NodeNames <- TwoNames
  Eligible = {n1, n2}
  Concurrency = 1
  Workers = {w1}
  MaxRequests = 2
  MaxFailures = 0
  MaxRestarts = 0
INVARIANT JobCompletedMeansAll
CHECK_DEADLOCK FALSE
