SPECIFICATION FairSpec
CONSTANTS
  t1 = t1
  t2 = t2
  t3 = t3
  r1 = r1
  Trades = {t1, t2}
  SymbolOf <- McSymbol
  Order <- McOrder
  Rounds = {r1}
  EscalateAfter = 2
  Outcomes = {"ok"}
  EvidenceFails = {t1}
  MaxFaults = 0
PROPERTY OrphansSettle
CHECK_DEADLOCK FALSE
