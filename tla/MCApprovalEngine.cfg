CONSTANTS
  Instances = {i1, i2}
  Deciders = {d1, d2, d3}
  MaxLevels = 2
SPECIFICATION Spec
SYMMETRY Symmetry
INVARIANTS
  TypeOK
  SingleWriter
  AuditTrail
  ToldTheTruthOnce
PROPERTIES
  CompletedIsFinal
  ImplementsChain
CHECK_DEADLOCK FALSE
