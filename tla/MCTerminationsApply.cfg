CONSTANTS
  Records = {r1}
  Kind = "termination"
  Clerks = {c1}
  Instances = {i1}
  Deciders = {d1}
  MaxLevels = 1
SPECIFICATION FairSpecNoAbort
PROPERTIES
  ApplyTakesEffect
CHECK_DEADLOCK FALSE
