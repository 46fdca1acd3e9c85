CONSTANTS
  Instances = {i1}
  Deciders = {d1, d2, d3}
  MaxLevels = 3
SPECIFICATION FairSpec
PROPERTIES
  DecisionTakesEffect
CHECK_DEADLOCK FALSE
