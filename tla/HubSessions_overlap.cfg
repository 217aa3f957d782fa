SPECIFICATION Spec
CONSTANTS
  c1 = c1
  c2 = c2
  c3 = c3
  n1 = n1
  n2 = n2
  None = None
  Orphan = Orphan
  Conns = {c1, c2, c3}
  NodeOf <- TwoNodes
  NodeLimit = 2
INVARIANTS NoDeadEntry CountExact
CHECK_DEADLOCK FALSE
