SPECIFICATION MCSpec
CONSTANTS
  None = None
  w1 = w1
  w2 = w2
  a1 = a1
  a2 = a2
  Workers = 2
  MaxUids = 2
  MaxStatus = 1
  MaxTries = 2
  MaxRequests <- RequestsOf
  MaxTimeouts = 1
  MaxForeign = 1
  ClientSets <- OneClient
INVARIANTS AllTypeOK  StatusOfOwnRun AckedLeaseStays DoneStays 
PROPERTY OthersKept
CHECK_DEADLOCK FALSE
