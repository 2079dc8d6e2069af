SPECIFICATION Spec
CONSTANTS
  p1 = p1
  p2 = p2
  f1 = f1
  f2 = f2
  Nobody = Nobody
  Processes = {p1, p2}
  Problems = {f1, f2}
  MaxRecords = 6
SYMMETRY Symmetry
INVARIANTS OneOpenRequest BrokenIsRefused
PROPERTY KeepsLifecycle
CHECK_DEADLOCK FALSE
