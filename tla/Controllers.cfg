SPECIFICATION MCSpec
CONSTANTS
  None = None
  d = d
  c = c
  dep = dep
  cm = cm
  g1 = g1
  g2 = g2
  n1 = n1
  n2 = n2
  p1 = p1
  b1 = b1
  b2 = b2
  r1 = r1
  r2 = r2
  Nodes = {n1}
  Listed <- MCListed
  Labelled = {g2}
  MaxChanges = 4
  MaxFailures = 1
INVARIANTS AllTypeOK ApplicationsSettle  
CHECK_DEADLOCK FALSE
