CONSTANTS
  MaxSessions = 3
  Browsers = {b1}
  Requests = {w1, w2}
SPECIFICATION FairSpec
INVARIANTS
  TypeOK
  OneUnrevokedPerLogin
  SweepReaches
PROPERTIES
  RequestsFinish
  ImplementsLogins
CHECK_DEADLOCK FALSE
