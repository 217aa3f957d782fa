SPECIFICATION FairSpec
CONSTANTS
  Conns = {c1, c2}
  n1 = n1
  n2 = n2
  None = None
  Orphan = Orphan
  NoJob = NoJob
  Workers = {w1}
INVARIANT TypeOK
PROPERTIES AbandonedEnds SelectionEnds 
CHECK_DEADLOCK FALSE
