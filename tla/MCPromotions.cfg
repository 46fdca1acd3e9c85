CONSTANTS
  Records = {r1}
  Kind = "promotion"
  Clerks = {c1}
  Instances = {i1}
  Deciders = {d1, d2, d3}
  MaxLevels = 3
SPECIFICATION FairSpecNoAbort
INVARIANTS
  EffectMatchesMark
PROPERTIES
  ApplyTakesEffect
  DecisionTakesEffect
  SourceIsTold
CHECK_DEADLOCK FALSE
