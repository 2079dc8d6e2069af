SPECIFICATION FairSpec
CONSTANTS
  t1 = t1
  t2 = t2
  t3 = t3
  r1 = r1
  Trades = {t1, t2, t3}
  SymbolOf <- McSymbol
  Order <- McOrder
  Rounds = {r1}
  EscalateAfter = 2
  Outcomes = {"still_open", "error", "unmappable", "ok"}
  EvidenceFails = {}
  MaxFaults = 2
INVARIANT AnnouncedOnce
PROPERTIES OneBatch OrphansSettle RequestsSettle
CHECK_DEADLOCK FALSE
