SPECIFICATION MCSpec
CONSTANTS
  Devices = {d1, d2}
  Nodes = {n1, n2}
  NoNode = NoNode
  None = None
  Handlers = {twin, device}
  Nil = Nil
  Empty = Empty
  SyncVersions <- OneAhead
  MaxEdge = 1
  m1 = m1
  t1 = t1
  t2 = t2
  u1 = u1
  u2 = u2
  a1 = a1
INVARIANTS AllTypeOK  MembersAgree   TopicsFollow QuietServes
 
CHECK_DEADLOCK FALSE
