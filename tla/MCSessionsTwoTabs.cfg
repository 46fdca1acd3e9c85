CONSTANTS
  MaxSessions = 2
  Browsers = {b1}
  Requests = {w1, w2}
SPECIFICATION Spec
INVARIANTS
  RefusedMeansOver
CHECK_DEADLOCK FALSE
