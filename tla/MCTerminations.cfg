CONSTANTS
  Records = {r1, r2}
  Kind = "termination"
  Clerks = {c1, c2}
  Instances = {i1, i2}
  Deciders = {d1, d2}
  MaxLevels = 1
SPECIFICATION Spec
SYMMETRY Symmetry
INVARIANTS
  TypeOK
  OutcomesAreBacked
  OneActive
CHECK_DEADLOCK FALSE
