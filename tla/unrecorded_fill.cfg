SPECIFICATION FairSpec
CONSTANTS
  e = e
  x = x
  d = d
  y = y
  Entry = e
  Exit = x
  Orders = {d, y}
  AllOrders = {e, x, d, y}
  Timeline <- McTimeline
  SideOf <- McSideOf
  Worlds <- McWorlds
  Grace = 1
  SettleGrace = 2
  LookupGrace = 2
  MaxFaults = 1
INVARIANTS OnlyOwnOrders WrittenOnce ToldOnce AnnouncedIsQueued ReconciledIsEarned
PROPERTIES CorrectionsAreTold OrdersSettle VerdictSettles
CHECK_DEADLOCK FALSE
