SPECIFICATION ReceiverSpec
CONSTANTS
  e1 = e1
  e2 = e2
  tA = tA
  tB = tB
  openA = openA
  otherOpenA = otherOpenA
  closeA = closeA
  correctA = correctA
  againA = againA
  fillB = fillB
  wrongA = wrongA
  Nothing = Nothing
  Trades = {tA, tB}
  ActionOf <- McActionOf
  TradeOf <- McTradeOf
  BaseOf <- McBaseOf
  Projections = {fillB}
  Invalid = {}
  Execs = {e1, e2}
  MaxRows = 3
SYMMETRY Symmetry
INVARIANT OneRowPerTrade
CHECK_DEADLOCK FALSE
