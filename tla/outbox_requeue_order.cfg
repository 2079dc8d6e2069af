SPECIFICATION Spec
CONSTANTS
  w1 = w1
  w2 = w2
  tA = tA
  openA = openA
  closeA = closeA
  correctA = correctA
  Operator = Operator
  Nobody = Nobody
  Projections = {closeA, correctA}
  Workers = {w1, w2}
  Trades = {tA}
  ActionOf <- McActionOf
  TradeOf <- McTradeOf
  Earlier <- McEarlier
  Answers <- AllAnswers
  OrphanParkAfter = 2
  ConflictParkAfter = 2
  UnconfirmedParkAfter = 2
  AllBaseMismatchesLogged = TRUE
  MaxIntents = 3
SYMMETRY Symmetry
INVARIANT CloseSentBeforeCorrection
CHECK_DEADLOCK FALSE
