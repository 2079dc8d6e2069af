SPECIFICATION GoogleFairSpec
CONSTANTS
  w1 = w1
  e1 = e1
  tA = tA
  openA = openA
  closeA = closeA
  correctA = correctA
  Operator = Operator
  Nobody = Nobody
  Nothing = Nothing
  Workers = {w1}
  Execs = {e1}
  Trades = {tA}
  ActionOf <- McActionOf
  TradeOf <- McTradeOf
  BaseOf <- McBaseOf
  Earlier <- McEarlier
  Answers <- ReceiverAnswers
  OrphanParkAfter = 2
  ConflictParkAfter = 2
  UnconfirmedParkAfter = 2
  AllBaseMismatchesLogged = TRUE
  MaxRows = 3
  Attempts = 2
  Projections = {openA, closeA, correctA}
  Invalid = {}
  MaxIntents = 4
  MaxFaults = 2
INVARIANTS ConfirmedIsShown DivergedIsUndelivered
PROPERTIES ImplementsOutbox OrphanOnlyWithoutEntry QueueSettles
CHECK_DEADLOCK FALSE
