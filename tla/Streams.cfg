SPECIFICATION MCSpec
CONSTANTS
  r1 = r1
  r2 = r2
  q1 = q1
  None = None
  Wild = Wild
  Requests = {r1, r2}
  Kind <- KindOf
  MaxTunnels = 2
  MaxQueue = 1
INVARIANTS AllTypeOK OwnPeer NoneOrphaned 
CHECK_DEADLOCK FALSE
