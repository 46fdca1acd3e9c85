CONSTANTS
  Records = {r1}
  Kind = "transfer"
  Clerks = {c1}
  Instances = {i1}
  Deciders = {d1}
  MaxLevels = 1
SPECIFICATION FairSpecNoAbort
PROPERTIES
  OutcomeReachesRecord
CHECK_DEADLOCK FALSE
