SPECIFICATION ReceiverSpec
CONSTANTS
  e1 = e1
  e2 = e2
  tA = tA
  tB = tB
  openA = openA
  otherOpenA = otherOpenA
  closeA = closeA
  correctA = correctA
  againA = againA
  fillB = fillB
  wrongA = wrongA
  Nothing = Nothing
  Trades = {tA, tB}
  ActionOf <- McActionOf
  TradeOf <- McTradeOf
  BaseOf <- McBaseOf
  Projections = {openA, otherOpenA, closeA, correctA, againA, fillB, wrongA}
  Invalid = {wrongA}
  Execs = {e1}
  MaxRows = 2
INVARIANTS OneRowPerTrade AuditedRowIsShown CorrectionChain NoSupersededCells MatchedIsShown
CHECK_DEADLOCK FALSE
