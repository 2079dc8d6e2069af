SPECIFICATION FairSpec
CONSTANTS
  r1 = r1
  k1 = k1
  k2 = k2
  s1 = s1
  t1 = t1
  t2 = t2
  Nobody = Nobody
  NoTrade = NoTrade
  Runs = {r1}
  Strategies = {s1}
  Trades = {t1, t2}
  Kinds = {"event", "tabs", "fill", "health", "stable", "x5b", "stop"}
  Facts <- McFacts
  SideOf <- McSideOf
  Prices = {1, 2}
  Grace = 2
  SheetGrace = 1
  Fresh = 1
  Carry = 1
  Stable = 2
  MaxGap = 1
  ErrorsBeforeNotice = 2
  FailuresBeforeTelegram = 2
  MaxTrades = 2
  MaxOrders = 3
  MaxTime = 4
  MaxFaults <- McMaxFaults
INVARIANTS ListedIsShown StableIsEarned MovedIsReal
PROPERTIES NewsOnly NewsIsHeard
CHECK_DEADLOCK FALSE
