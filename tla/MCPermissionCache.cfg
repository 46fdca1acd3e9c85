CONSTANTS
  u1 = u1
  u2 = u2
  p1 = p1
  p2 = p2
  Users = {u1, u2}
  Perms = {p1, p2}
  Checks = {w1, w2}
  Changes = {a1}
  Grants <- SmallGrants
  Asked = {p1}
SPECIFICATION FairSpec
INVARIANTS
  TypeOK
  EveryKeyExpires
PROPERTIES
  GoneStaysGone
  RevocationTakesHold
  CacheHeals
CHECK_DEADLOCK FALSE
