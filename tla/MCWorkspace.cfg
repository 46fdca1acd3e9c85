SPECIFICATION FairSpec
CONSTANTS
  Users = {u1, u2}
  Orgs = {o1, o2}
  Jobs = {j1, j2}
INVARIANTS
  TypeOK
  Coherent
  PermissionsAreOwn
PROPERTIES
  LoadingEnds
CHECK_DEADLOCK FALSE
