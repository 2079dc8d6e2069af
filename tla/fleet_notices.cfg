SPECIFICATION FairSpec
CONSTANTS
  r1 = r1
  r2 = r2
  m1 = m1
  m2 = m2
  Nobody = Nobody
  Rounds = {r1, r2}
  Markers = {m1, m2}
  Threshold = 1
  MaxLog = 3
  MaxDeaths = 2
INVARIANTS ExpiredToldOnce QuietForAWindow
PROPERTIES MarkersAreTold RecurringIsTold
CHECK_DEADLOCK FALSE
