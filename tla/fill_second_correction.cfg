SPECIFICATION Spec
CONSTANTS
  e = e
  x = x
  d1 = d1
  y1 = y1
  d2 = d2
  y2 = y2
  Entry = e
  Exit = x
  Orders = {d1, y1, d2, y2}
  AllOrders = {e, x, d1, y1, d2, y2}
  Timeline <- McTimeline
  SideOf <- McSideOf
  Worlds <- McWorlds
  Grace = 1
  SettleGrace = 1
  LookupGrace = 1
  MaxFaults = 0
INVARIANT RestatesTheTrade
CHECK_DEADLOCK FALSE
