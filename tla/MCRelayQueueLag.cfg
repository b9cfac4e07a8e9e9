SPECIFICATION Spec
CONSTANTS
  m1 = m1
  p1 = p1
  p2 = p2
  Msg <- MCMsg
  Post <- MCPost
  Grace = 1
  MaxLag = 2
  Notification <- MCNotification
  MaxFaults = 1
INVARIANT
  ConcludedHasLeft
